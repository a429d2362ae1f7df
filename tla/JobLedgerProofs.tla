--------------------------- MODULE JobLedgerProofs ---------------------------
(***************************************************************************)
(* Proofs about JobLedger, for every set of jobs and workers, every        *)
(* handler script and any number of crashes, faults and redeliveries.      *)
(***************************************************************************)
EXTENDS JobLedgerRefinement, TLAPS

USE ConstantsAssumption

-----------------------------------------------------------------------------
(* Rows. RowStep is what one service call may do to a row.                 *)

Spent(r) == r.retryCount >= r.maxRetries

RowStep(r, s) ==
  /\ s \in Row
  /\ RowInv(s)
  /\ r.status \in Terminal => s = r
  /\ r.cancel => s = r \/ s.status \in Terminal
  /\ r.status # "ABSENT" /\ Spent(r) => Spent(s)

(* The service does not send a job that has started back to a queue. *)
Forward(r, s) == Idle(s) => Idle(r)

(* The numbers a row holds are numbers. *)
LEMMA RowNumbers ==
  ASSUME NEW r \in Row
  PROVE  /\ r.progress \in 0..Top
         /\ r.retryCount \in 0..20 /\ r.retryCount \in Int
         /\ r.maxRetries \in 0..20 /\ r.maxRetries \in Int
<1>1. r.progress \in 0..Top /\ r.retryCount \in 0..20 /\ r.maxRetries \in 0..20
  BY DEF Row
<1>2. \A n \in 0..20 : n \in Int
  OBVIOUS
<1>. QED BY <1>1, <1>2, Zenon

LEMMA NoRowType == NoRow \in Row
  BY DEF NoRow, Row, Status, Terminal, Waiting, ErrorCode

(* Leaving a row alone is a legal step. *)
LEMMA SameRow ==
  ASSUME NEW r \in Row, RowInv(r)
  PROVE  RowStep(r, r) /\ Forward(r, r)
  BY DEF RowStep, Spent, Forward

LEMMA CreatedStep ==
  ASSUME NEW r \in Row, r.status = "ABSENT", RowInv(r), NEW limit \in 0..20
  PROVE  RowStep(r, Created(limit)) /\ Forward(r, Created(limit))
<1>1. Created(limit) \in Row
  BY NoRowType DEF Created, Row, Status, Waiting
<1>2. RowInv(Created(limit))
  <2>1. 0 # Top /\ 0 <= limit
    OBVIOUS
  <2>. QED
    BY <2>1 DEF RowInv, Created, NoRow, Terminal, Idle
<1>. QED
  BY <1>1, <1>2 DEF RowStep, Spent, RowInv, Forward, Idle, Terminal

LEMMA QueuedStep ==
  ASSUME NEW r \in Row, RowInv(r)
  PROVE  RowStep(r, Queued(r)) /\ Forward(r, Queued(r))
<1>1. CASE r.status # "PENDING"
  BY <1>1, SameRow DEF Queued
<1>2. CASE r.status = "PENDING"
  <2> DEFINE s == [r EXCEPT !.status = "QUEUED", !.taskId = TRUE]
  <2>1. s \in Row
    BY DEF Row, Status, Waiting
  <2>2. RowInv(s)
    BY <1>2 DEF RowInv, Terminal, Idle, Row, Waiting
  <2>. QED
    BY <1>2, <2>1, <2>2 DEF Queued, RowStep, Spent, RowInv, Forward, Idle, Waiting, Terminal
<1>. QED BY <1>1, <1>2

LEMMA ReportedStep ==
  ASSUME NEW r \in Row, RowInv(r), NEW value \in 1..(Top - 1)
  PROVE  RowStep(r, Reported(r, value)) /\ Forward(r, Reported(r, value))
<1>1. CASE ~CanReport(r, value)
  BY <1>1, SameRow DEF Reported
<1>2. CASE CanReport(r, value)
  <2> DEFINE s == [r EXCEPT !.progress = value]
  <2>0. value \in 0..Top /\ value # Top
    OBVIOUS
  <2>1. s \in Row
    BY <2>0, Zenon DEF Row
  <2>2. RowInv(s)
    BY <1>2, <2>0 DEF CanReport, RowInv, Terminal, Idle, Row, Waiting
  <2>. QED
    BY <1>2, <2>1, <2>2
    DEF CanReport, Reported, RowStep, Spent, RowInv, Forward, Idle, Waiting, Terminal
<1>. QED BY <1>1, <1>2

LEMMA StartedStep ==
  ASSUME NEW r \in Row, RowInv(r), NEW value \in 0..(Top - 1)
  PROVE  RowStep(r, Started(r, value)) /\ Forward(r, Started(r, value))
<1>1. CASE ~CanEnter(r, "RUNNING")
  BY <1>1, SameRow DEF Started
<1>2. CASE CanEnter(r, "RUNNING")
  <2> DEFINE s == [r EXCEPT !.status = "RUNNING", !.progress = value,
                            !.error = "NO_ERROR"]
  <2>0. r.status \in Waiting
    BY <1>2 DEF CanEnter, AllowedTransitions, Row, Status, Waiting, Terminal
  <2>0a. value \in 0..Top /\ value # Top
    OBVIOUS
  <2>1. s \in Row
    BY <2>0a DEF Row, Status, ErrorCode
  <2>2. RowInv(s)
    BY <2>0, <2>0a DEF RowInv, Terminal, Idle, Row, Waiting
  <2>. QED
    BY <1>2, <2>0, <2>1, <2>2
    DEF Started, RowStep, Spent, RowInv, Forward, Idle, Waiting, Terminal
<1>. QED BY <1>1, <1>2

LEMMA RetriedStep ==
  ASSUME NEW r \in Row, RowInv(r)
  PROVE  RowStep(r, Retried(r))
<1>1. CASE ~CanRetry(r)
  BY <1>1, SameRow DEF Retried
<1>2. CASE CanRetry(r)
  <2> DEFINE n == r.retryCount + 1
             s == [r EXCEPT !.status = "RETRYING", !.retryCount = n,
                            !.error = "RETRYABLE_ERROR"]
  <2>0. n \in 0..20 /\ n <= r.maxRetries
    <3>1. \A a, b \in 0..20 : a < b => a + 1 \in 0..20 /\ a + 1 <= b
      OBVIOUS
    <3>2. r.retryCount < r.maxRetries
      BY <1>2 DEF CanRetry
    <3>. QED
      BY <3>1, <3>2, RowNumbers, Zenon
  <2>0a. Retried(r) = s
    BY <1>2 DEF Retried
  <2> HIDE DEF n
  <2>1. s \in Row
    BY <2>0 DEF Row, Status, Waiting, ErrorCode
  <2>2. RowInv(s)
    BY <1>2, <2>0 DEF CanRetry, RowInv, Terminal, Idle, Row, Waiting
  <2>3. ~Spent(r)
    <3>1. \A a, b \in Int : a < b => ~(a >= b)
      OBVIOUS
    <3>. QED
      BY <3>1, <1>2, RowNumbers, Zenon DEF CanRetry, Spent
  <2>. QED
    BY <1>2, <2>0a, <2>1, <2>2, <2>3 DEF CanRetry, RowStep, Terminal
<1>. QED BY <1>1, <1>2

LEMMA RequestedStep ==
  ASSUME NEW r \in Row, RowInv(r)
  PROVE  /\ RowStep(r, CancellationRequested(r))
         /\ Forward(r, CancellationRequested(r))
<1>1. CASE r.status \in Waiting
  <2> DEFINE s == [r EXCEPT !.cancel = TRUE, !.status = "CANCELLED",
                            !.finished = TRUE]
  <2>1. s \in Row
    BY DEF Row, Status, Terminal
  <2>2. RowInv(s)
    BY <1>1 DEF RowInv, Terminal, Idle, Row, Waiting
  <2>. QED
    BY <1>1, <2>1, <2>2
    DEF CancellationRequested, RowStep, Spent, RowInv, Forward, Idle, Waiting, Terminal
<1>2. CASE r.status = "RUNNING"
  <2> DEFINE s == [r EXCEPT !.cancel = TRUE]
  <2>1. s \in Row
    BY DEF Row
  <2>2. RowInv(s)
    BY <1>2 DEF RowInv, Terminal, Idle, Row, Waiting
  <2>3. r.cancel => s = r
    BY DEF Row
  <2>4. CancellationRequested(r) = s
    BY <1>2 DEF CancellationRequested, Waiting
  <2>. QED
    BY <1>2, <2>1, <2>2, <2>3, <2>4 DEF RowStep, Spent, Forward, Idle, Waiting, Terminal
<1>3. CASE r.status \notin Waiting \union {"RUNNING"}
  BY <1>3, SameRow DEF CancellationRequested
<1>. QED BY <1>1, <1>2, <1>3

LEMMA AcknowledgedStep ==
  ASSUME NEW r \in Row, RowInv(r)
  PROVE  /\ RowStep(r, CancellationAcknowledged(r))
         /\ Forward(r, CancellationAcknowledged(r))
<1>1. CASE ~(r.status \in {"RUNNING", "RETRYING"} /\ r.cancel)
  BY <1>1, SameRow DEF CancellationAcknowledged
<1>2. CASE r.status \in {"RUNNING", "RETRYING"} /\ r.cancel
  <2> DEFINE s == [r EXCEPT !.status = "CANCELLED", !.finished = TRUE]
  <2>1. s \in Row
    BY DEF Row, Status, Terminal
  <2>2. RowInv(s)
    BY <1>2 DEF RowInv, Terminal, Idle, Row, Waiting
  <2>. QED
    BY <1>2, <2>1, <2>2
    DEF CancellationAcknowledged, RowStep, Spent, RowInv, Forward, Idle, Waiting, Terminal
<1>. QED BY <1>1, <1>2

(* transition_job to a terminal status. Failing for an exhausted budget    *)
(* needs the budget to be spent.                                           *)
LEMMA TransitionedStep ==
  ASSUME NEW r \in Row, RowInv(r), NEW target \in {"SUCCEEDED", "FAILED"},
         NEW e \in ErrorCode,
         e = "JOB_RETRY_LIMIT_EXCEEDED" => r.retryCount >= r.maxRetries
  PROVE  /\ RowStep(r, Transitioned(r, target, e))
         /\ Forward(r, Transitioned(r, target, e))
<1>1. CASE ~CanEnter(r, target)
  BY <1>1, SameRow DEF Transitioned
<1>2. CASE CanEnter(r, target)
  <2>0. r.status \notin Terminal
    BY <1>2 DEF CanEnter, AllowedTransitions, Row, Status, Waiting, Terminal
  <2>1. CASE target = "SUCCEEDED"
    <3> DEFINE t == Top
               s == [r EXCEPT !.status = "SUCCEEDED", !.finished = TRUE,
                              !.progress = t, !.error = "NO_ERROR"]
    <3>1. t \in 0..Top /\ t = Top
      OBVIOUS
    <3>2. Transitioned(r, target, e) = s
      BY <1>2, <2>1 DEF Transitioned, Terminal
    <3> HIDE DEF t
    <3>3. s \in Row
      BY <3>1 DEF Row, Status, Terminal, ErrorCode
    <3>4. RowInv(s)
      BY <2>0, <3>1 DEF RowInv, Terminal, Idle, Row, Waiting
    <3>. QED
      BY <2>0, <3>2, <3>3, <3>4 DEF RowStep, Spent, Forward, Idle, Waiting, Terminal
  <2>2. CASE target = "FAILED"
    <3> DEFINE s == [r EXCEPT !.status = "FAILED", !.finished = TRUE,
                              !.error = e]
    <3>2. Transitioned(r, target, e) = s
      BY <1>2, <2>2 DEF Transitioned, Terminal, Row
    <3>3. s \in Row
      BY DEF Row, Status, Terminal, ErrorCode
    <3>4. RowInv(s)
      <4>1. e = "JOB_RETRY_LIMIT_EXCEEDED" => r.retryCount = r.maxRetries
        BY RowNumbers DEF RowInv
      <4>. QED
        BY <2>0, <4>1 DEF RowInv, Terminal, Idle, Row, Waiting
    <3>. QED
      BY <2>0, <3>2, <3>3, <3>4 DEF RowStep, Spent, Forward, Idle, Waiting, Terminal
  <2>. QED BY <2>1, <2>2
<1>. QED BY <1>1, <1>2

-----------------------------------------------------------------------------
(* Steps. First what they do to the rows. *)

RowsInv == \A j \in Jobs : RowInv(job[j])

(* Writing one row by a legal step leaves every row with a legal step.     *)
LEMMA WriteStep ==
  ASSUME TypeOK, RowsInv, NEW i \in Jobs, NEW s, Write(i, s),
         RowStep(job[i], s)
  PROVE  /\ job' \in [Jobs -> Row]
         /\ \A j \in Jobs : RowStep(job[j], job'[j])
         /\ job'[i] = s
         /\ \A j \in Jobs \ {i} : job'[j] = job[j]
<1>1. job \in [Jobs -> Row] /\ s \in Row
  BY DEF TypeOK, RowStep
<1>2. job'[i] = s /\ \A j \in Jobs \ {i} : job'[j] = job[j]
  BY <1>1 DEF Write
<1>3. \A j \in Jobs \ {i} : RowStep(job[j], job[j])
  BY <1>1, SameRow DEF RowsInv
<1>. QED
  BY <1>1, <1>2, <1>3 DEF Write

(* A service that never sends a started job back to a queue. *)
LEMMA ForwardWrite ==
  ASSUME TypeOK, RowsInv, NEW i \in Jobs, NEW s, Write(i, s),
         RowStep(job[i], s), Forward(job[i], s)
  PROVE  /\ job' \in [Jobs -> Row]
         /\ \A j \in Jobs : /\ RowStep(job[j], job'[j])
                            /\ Forward(job[j], job'[j])
<1>1. \A j \in Jobs \ {i} : Forward(job[j], job[j])
  BY DEF Forward
<1>. QED BY <1>1, WriteStep, Zenon

RowsStep(j) ==
  /\ RowStep(job[j], job'[j])
  /\ \/ Forward(job[j], job'[j])
     \/ \E w \in Workers : MarkRetrying(w) /\ task[w] = j

LEMMA RowsProgress ==
  IInv /\ [Next]_vars => job' \in [Jobs -> Row] /\ \A j \in Jobs : RowsStep(j)
<1> SUFFICES ASSUME IInv, [Next]_vars
             PROVE  job' \in [Jobs -> Row] /\ \A j \in Jobs : RowsStep(j)
  OBVIOUS
<1>0. TypeOK /\ RowsInv
  BY DEF IInv, RowsInv
<1>t. \A w \in Workers : pc[w] # "idle" => task[w] \in Jobs
  BY <1>0 DEF TypeOK
<1>r. \A j \in Jobs : job[j] \in Row /\ RowInv(job[j])
  BY <1>0 DEF TypeOK, RowsInv
<1> DEFINE Goal == job' \in [Jobs -> Row] /\ \A j \in Jobs : RowsStep(j)
<1>fw. ASSUME NEW i \in Jobs, NEW s, Write(i, s), RowStep(job[i], s),
              Forward(job[i], s)
       PROVE  Goal
  BY <1>0, <1>fw, ForwardWrite, Zenon DEF RowsStep
<1>un. ASSUME UNCHANGED job PROVE Goal
  BY <1>0, <1>r, <1>un, SameRow DEF RowsStep, TypeOK
<1>1. ASSUME NEW j \in Jobs, CreateJob(j) PROVE Goal
  <2>1. PICK limit \in RetryLimits : Write(j, Created(limit))
    BY <1>1 DEF CreateJob
  <2>2. limit \in 0..20 /\ job[j].status = "ABSENT"
    BY <1>1 DEF CreateJob
  <2>. QED BY <2>1, <2>2, <1>r, <1>fw, CreatedStep
<1>2. ASSUME NEW j \in Jobs, MarkQueued(j) PROVE Goal
  BY <1>2, <1>r, <1>fw, QueuedStep DEF MarkQueued
<1>3. ASSUME NEW j \in Jobs, RecordDispatchFailure(j) PROVE Goal
  <2>1. "JOB_DISPATCH_FAILED" \in ErrorCode
    BY DEF ErrorCode
  <2>. QED
    BY <1>3, <2>1, <1>r, <1>fw, TransitionedStep DEF RecordDispatchFailure
<1>4. ASSUME NEW j \in Jobs, RequestCancellation(j) PROVE Goal
  BY <1>4, <1>r, <1>fw, RequestedStep DEF RequestCancellation
<1>5. ASSUME NEW w \in Workers, Start(w) PROVE Goal
  <2> DEFINE p == IF seen[w] > 1 THEN seen[w] ELSE 1
  <2>1. task[w] \in Jobs /\ Write(task[w], Started(job[task[w]], p))
    BY <1>5, <1>t DEF Start
  <2>2. p \in 0..(Top - 1)
    BY <1>0 DEF TypeOK
  <2> HIDE DEF p
  <2>. QED BY <2>1, <2>2, <1>r, <1>fw, StartedStep
<1>6. ASSUME NEW w \in Workers, ReportProgress(w) PROVE Goal
  <2> DEFINE v == Script[step[w] + 1]
  <2>1. task[w] \in Jobs /\ Write(task[w], Reported(job[task[w]], v))
    BY <1>6, <1>t DEF ReportProgress
  <2>2. v \in 1..(Top - 1)
    BY <1>0, <1>6 DEF TypeOK, ReportProgress
  <2> HIDE DEF v
  <2>. QED BY <2>1, <2>2, <1>r, <1>fw, ReportedStep
<1>7. ASSUME NEW w \in Workers, Complete(w) PROVE Goal
  <2>1. task[w] \in Jobs /\ "NO_ERROR" \in ErrorCode
    BY <1>7, <1>t DEF Complete, ErrorCode
  <2>. QED
    BY <1>7, <2>1, <1>r, <1>fw, TransitionedStep DEF Complete
<1>8. ASSUME NEW w \in Workers, RecordFailure(w) PROVE Goal
  <2>1. /\ task[w] \in Jobs /\ exc[w] \in ErrorCode
        /\ exc[w] # "JOB_RETRY_LIMIT_EXCEEDED"
    BY <1>8, <1>t, <1>0 DEF RecordFailure, ErrorCode, TypeOK
  <2>. QED
    BY <1>8, <2>1, <1>r, <1>fw, TransitionedStep DEF RecordFailure
<1>9. ASSUME NEW w \in Workers, AcknowledgeCancellation(w) PROVE Goal
  BY <1>9, <1>t, <1>r, <1>fw, AcknowledgedStep DEF AcknowledgeCancellation
<1>10. ASSUME NEW w \in Workers, RecordExhaustion(w) PROVE Goal
  <2>1. task[w] \in Jobs /\ "JOB_RETRY_LIMIT_EXCEEDED" \in ErrorCode
    BY <1>10, <1>t DEF RecordExhaustion, ErrorCode
  <2>2. job[task[w]].retryCount >= job[task[w]].maxRetries
    BY <1>10 DEF RecordExhaustion, IInv, ExhaustedSpent
  <2>. QED
    BY <1>10, <2>1, <2>2, <1>r, <1>fw, TransitionedStep DEF RecordExhaustion
<1>11. ASSUME NEW w \in Workers, MarkRetrying(w) PROVE Goal
  <2>1. task[w] \in Jobs /\ Write(task[w], Retried(job[task[w]]))
    BY <1>11, <1>t DEF MarkRetrying
  <2>2. RowStep(job[task[w]], Retried(job[task[w]]))
    BY <2>1, <1>r, RetriedStep
  <2>3. /\ job' \in [Jobs -> Row]
        /\ \A j \in Jobs : RowStep(job[j], job'[j])
        /\ \A j \in Jobs \ {task[w]} : job'[j] = job[j]
    BY <2>1, <2>2, <1>0, WriteStep
  <2>. QED
    BY <2>3, <1>11 DEF RowsStep, Forward
<1>12. ASSUME NEW j \in Jobs,
              Publish(j) \/ PublishRaises(j) \/ WebCrash(j) \/ Receive(j)
       PROVE  Goal
  BY <1>12, <1>un
  DEF Publish, PublishRaises, WebCrash, Receive, Deliver, DiscardRevoked
<1>13. ASSUME NEW w \in Workers,
              \/ HandlerRaises(w) \/ HandlerReturns(w) \/ CheckRetryBudget(w)
              \/ Republish(w) \/ Acknowledge(w) \/ WorkerCrash(w)
              \/ TimeLimit(w) \/ Redeliver(w)
       PROVE  Goal
  BY <1>13, <1>un
  DEF HandlerRaises, HandlerReturns, CheckRetryBudget, Republish, Acknowledge,
      WorkerCrash, TimeLimit, Redeliver
<1>14. ASSUME UNCHANGED vars PROVE Goal
  BY <1>14, <1>un DEF vars
<1> HIDE DEF Goal
<1>15. ASSUME NEW j \in Jobs,
              \/ CreateJob(j) \/ DispatchStep(j) \/ Receive(j)
              \/ RequestCancellation(j) \/ WebCrash(j)
       PROVE  Goal
  BY <1>1, <1>2, <1>3, <1>4, <1>12, <1>15, Zenon DEF DispatchStep
<1>16. ASSUME NEW w \in Workers,
              \/ WorkerStep(w) \/ WorkerCrash(w) \/ TimeLimit(w) \/ Redeliver(w)
       PROVE  Goal
  BY <1>5, <1>6, <1>7, <1>8, <1>9, <1>10, <1>11, <1>13, <1>16, Zenon
  DEF WorkerStep
<1>17. Goal
  BY <1>14, <1>15, <1>16 DEF Next
<1>. USE DEF Goal
<1>. QED BY <1>17, Zenon

(* The types of everything but the rows. *)
FrameOK ==
  /\ dispatch \in [Jobs -> {"none", "committed", "queued", "failing", "done"}]
  /\ queue \in [Jobs -> Nat]
  /\ pc \in [Workers -> Labels]
  /\ task \in [Workers -> Jobs \union {NoJob}]
  /\ seen \in [Workers -> 0..(Top - 1)]
  /\ step \in [Workers -> 0..Len(Script)]
  /\ exc \in [Workers -> {"NO_ERROR", "VALUEERROR", "EXCEPTION"}]
  /\ faults \in [FaultKind -> Nat]
  /\ \A w \in Workers : pc[w] # "idle" => task[w] \in Jobs

LEMMA FrameStep ==
  IInv /\ [Next]_vars => FrameOK'
<1> SUFFICES ASSUME IInv, [Next]_vars PROVE FrameOK'
  OBVIOUS
<1>f. FrameOK
  BY DEF IInv, TypeOK, FrameOK
<1>t. \A w \in Workers : pc[w] # "idle" => task[w] \in Jobs
  BY <1>f DEF FrameOK
<1>z. 0 \in 0..(Top - 1) /\ 0 \in 0..Len(Script) /\ Len(Script) \in Nat
  OBVIOUS
<1> USE <1>f, <1>t, <1>z DEF FrameOK, brokerVars, workerVars
<1>flt. ASSUME NEW k \in FaultKind, Fault(k) PROVE faults' \in [FaultKind -> Nat]
  BY <1>flt DEF Fault
<1>rel. ASSUME NEW w \in Workers, Release(w), UNCHANGED dispatch,
               queue' \in [Jobs -> Nat], faults' \in [FaultKind -> Nat]
        PROVE  FrameOK'
  <2>1. /\ pc' \in [Workers -> Labels]
        /\ task' \in [Workers -> Jobs \union {NoJob}]
        /\ exc' \in [Workers -> {"NO_ERROR", "VALUEERROR", "EXCEPTION"}]
        /\ \A v \in Workers : pc'[v] # "idle" => task'[v] \in Jobs
    BY <1>rel DEF Release, Become, Labels
  <2>2. seen' \in [Workers -> 0..(Top - 1)] /\ step' \in [Workers -> 0..Len(Script)]
    BY <1>rel DEF Release
  <2>. QED
    BY <1>rel, <2>1, <2>2
<1>1. ASSUME NEW j \in Jobs, CreateJob(j) PROVE FrameOK'
  BY <1>1 DEF CreateJob
<1>2. ASSUME NEW j \in Jobs, MarkQueued(j) PROVE FrameOK'
  BY <1>2 DEF MarkQueued
<1>3. ASSUME NEW j \in Jobs, Publish(j) PROVE FrameOK'
  BY <1>3 DEF Publish
<1>4. ASSUME NEW j \in Jobs, PublishRaises(j) PROVE FrameOK'
  BY <1>4, SMTT(30) DEF PublishRaises, Fault, FaultKind
<1>5. ASSUME NEW j \in Jobs, RecordDispatchFailure(j) PROVE FrameOK'
  BY <1>5 DEF RecordDispatchFailure
<1>6. ASSUME NEW j \in Jobs, RequestCancellation(j) PROVE FrameOK'
  BY <1>6 DEF RequestCancellation
<1>7. ASSUME NEW j \in Jobs, WebCrash(j) PROVE FrameOK'
  BY <1>7, SMTT(30) DEF WebCrash, Fault, FaultKind
<1>8. ASSUME NEW j \in Jobs, NEW w \in Workers, Deliver(w, j) PROVE FrameOK'
  <2>1. job[j].status \in {"QUEUED", "RETRYING"} => job[j].progress \in 0..(Top - 1)
    <3>1. job[j] \in Row /\ RowInv(job[j])
      BY DEF IInv, TypeOK
    <3>2. \A n \in 0..Top : n # Top => n \in 0..(Top - 1)
      OBVIOUS
    <3>. QED
      BY <3>1, <3>2, RowNumbers DEF RowInv
  <2>. QED
    <3>1. CASE job[j].status \in {"QUEUED", "RETRYING"}
      <4>1. /\ pc' = [pc EXCEPT ![w] =
                        IF job[j].cancel THEN "cancelling" ELSE "starting"]
            /\ task' = [task EXCEPT ![w] = j]
            /\ seen' = [seen EXCEPT ![w] = job[j].progress]
            /\ queue' = [queue EXCEPT ![j] = @ - 1] /\ queue[j] > 0
            /\ UNCHANGED <<dispatch, step, exc, faults>>
        BY <1>8, <3>1 DEF Deliver, Become
      <4>2. /\ seen' \in [Workers -> 0..(Top - 1)]
            /\ queue' \in [Jobs -> Nat]
        BY <4>1, <3>1, <2>1
      <4>3. /\ pc' \in [Workers -> Labels]
            /\ task' \in [Workers -> Jobs \union {NoJob}]
            /\ \A v \in Workers : pc'[v] # "idle" => task'[v] \in Jobs
        BY <4>1 DEF Labels
      <4>. QED
        BY <4>1, <4>2, <4>3
    <3>2. CASE job[j].status \notin {"QUEUED", "RETRYING"}
      BY <1>8, <3>2 DEF Deliver
    <3>. QED BY <3>1, <3>2
<1>9. ASSUME NEW j \in Jobs, NEW w \in Workers, DiscardRevoked(w, j)
     PROVE  FrameOK'
  BY <1>9 DEF DiscardRevoked
<1>10. ASSUME NEW w \in Workers, Start(w) PROVE FrameOK'
  BY <1>10 DEF Start, Become, Labels
<1>11. ASSUME NEW w \in Workers, ReportProgress(w) PROVE FrameOK'
  <2>1. \A n \in 0..Len(Script) : n < Len(Script) => n + 1 \in 0..Len(Script)
    OBVIOUS
  <2>. QED
    <3>1. pc[w] # "idle" /\ UNCHANGED <<dispatch, queue, task, seen, faults>>
      BY <1>11 DEF ReportProgress
    <3>2. CASE step' = [step EXCEPT ![w] = step[w] + 1] /\ step[w] < Len(Script)
               /\ UNCHANGED <<pc, exc>>
      <4>1. step' \in [Workers -> 0..Len(Script)]
        BY <2>1, <3>2
      <4>. QED
        BY <3>1, <3>2, <4>1
    <3>3. ASSUME NEW l \in Labels \ {"idle"}, NEW e \in {exc[w], "VALUEERROR"},
                 step' = [step EXCEPT ![w] = 0], pc' = [pc EXCEPT ![w] = l],
                 exc' = [exc EXCEPT ![w] = e]
          PROVE  FrameOK'
      <4>1. step' \in [Workers -> 0..Len(Script)] /\ pc' \in [Workers -> Labels]
        BY <3>3
      <4>2. exc' \in [Workers -> {"NO_ERROR", "VALUEERROR", "EXCEPTION"}]
        BY <3>3
      <4>3. \A v \in Workers : pc'[v] # "idle" => task'[v] \in Jobs
        BY <3>1, <3>3
      <4>. QED
        BY <3>1, <4>1, <4>2, <4>3
    <3>4. {"cancelling", "failing"} \subseteq Labels \ {"idle"}
      BY DEF Labels
    <3>5. CASE ~CanReport(job[task[w]], Script[step[w] + 1])
      <4> DEFINE c == job[task[w]].status = "RUNNING" /\ job[task[w]].cancel
                 l == IF c THEN "cancelling" ELSE "failing"
                 e == IF c THEN exc[w] ELSE "VALUEERROR"
      <4>1. /\ step' = [step EXCEPT ![w] = 0] /\ pc' = [pc EXCEPT ![w] = l]
            /\ exc' = [exc EXCEPT ![w] = e]
        BY <1>11, <3>5 DEF ReportProgress, Become
      <4>2. l \in Labels \ {"idle"} /\ e \in {exc[w], "VALUEERROR"}
        BY <3>4
      <4>. HIDE DEF l, e
      <4>. QED
        BY <3>3, <4>1, <4>2
    <3>6. CASE CanReport(job[task[w]], Script[step[w] + 1])
      BY <1>11, <3>2, <3>6 DEF ReportProgress
    <3>. QED
      BY <3>5, <3>6
<1>12. ASSUME NEW w \in Workers, HandlerRaises(w) PROVE FrameOK'
  BY <1>12 DEF HandlerRaises, Become, Labels
<1>13. ASSUME NEW w \in Workers, HandlerReturns(w) PROVE FrameOK'
  BY <1>13 DEF HandlerReturns, Become, Labels
<1>14. ASSUME NEW w \in Workers, Complete(w) PROVE FrameOK'
  BY <1>14 DEF Complete, Become, Labels
<1>15. ASSUME NEW w \in Workers, RecordFailure(w) PROVE FrameOK'
  BY <1>15 DEF RecordFailure, Become, Labels
<1>16. ASSUME NEW w \in Workers, AcknowledgeCancellation(w) PROVE FrameOK'
  BY <1>16 DEF AcknowledgeCancellation, Become, Labels
<1>17. ASSUME NEW w \in Workers, CheckRetryBudget(w) PROVE FrameOK'
  BY <1>17 DEF CheckRetryBudget, Become, Labels
<1>18. ASSUME NEW w \in Workers, RecordExhaustion(w) PROVE FrameOK'
  BY <1>18 DEF RecordExhaustion, Become, Labels
<1>19. ASSUME NEW w \in Workers, MarkRetrying(w) PROVE FrameOK'
  BY <1>19 DEF MarkRetrying, Become, Labels
<1>20. ASSUME NEW w \in Workers, Republish(w) PROVE FrameOK'
  <2>1. /\ queue' \in [Jobs -> Nat] /\ faults' \in [FaultKind -> Nat]
        /\ pc[w] # "idle"
    <3>1. pc[w] # "idle" /\ task[w] \in Jobs
      BY <1>20 DEF Republish
    <3>2. \/ queue' = [queue EXCEPT ![task[w]] = queue[task[w]] + 1]
          \/ queue' = queue
      BY <1>20 DEF Republish
    <3>3. faults' = faults \/ Fault("publish")
      BY <1>20 DEF Republish
    <3>4. queue' \in [Jobs -> Nat]
      <4>1. CASE queue' = [queue EXCEPT ![task[w]] = queue[task[w]] + 1]
        BY <3>1, <4>1
      <4>2. CASE queue' = queue
        BY <4>2
      <4>. QED
        BY <3>2, <4>1, <4>2
    <3>5. faults' \in [FaultKind -> Nat]
      BY <3>3, <1>flt DEF FaultKind
    <3>. QED
      BY <3>1, <3>4, <3>5
  <2>2. pc' = [pc EXCEPT ![w] = "acking"] /\ UNCHANGED <<dispatch, task, seen, step, exc>>
    BY <1>20 DEF Republish, Become
  <2>3. /\ pc' \in [Workers -> Labels]
        /\ \A v \in Workers : pc'[v] # "idle" => task'[v] \in Jobs
    BY <2>1, <2>2 DEF Labels
  <2>. QED
    BY <2>1, <2>2, <2>3
<1>21. ASSUME NEW w \in Workers, Acknowledge(w) PROVE FrameOK'
  BY <1>21, <1>rel DEF Acknowledge
<1>22. ASSUME NEW w \in Workers, WorkerCrash(w) PROVE FrameOK'
  <2>1. queue' \in [Jobs -> Nat] /\ faults' \in [FaultKind -> Nat]
    BY <1>22 DEF WorkerCrash, Fault, FaultKind
  <2>. QED
    BY <1>22, <2>1, <1>rel DEF WorkerCrash
<1>23. ASSUME NEW w \in Workers, TimeLimit(w) PROVE FrameOK'
  <2>1. faults' \in [FaultKind -> Nat]
    BY <1>23 DEF TimeLimit, Fault, FaultKind
  <2>. QED
    BY <1>23, <2>1, <1>rel DEF TimeLimit
<1>24. ASSUME NEW w \in Workers, Redeliver(w) PROVE FrameOK'
  BY <1>24, SMTT(30) DEF Redeliver, Fault, FaultKind
<1>25. ASSUME UNCHANGED vars PROVE FrameOK'
  BY <1>25 DEF vars
<1> HIDE DEF FrameOK
<1>. QED
  BY <1>1, <1>2, <1>3, <1>4, <1>5, <1>6, <1>7, <1>8, <1>9, <1>10, <1>11, <1>12, <1>13, <1>14, <1>15, <1>16, <1>17, <1>18, <1>19, <1>20, <1>21, <1>22, <1>23, <1>24, <1>25
  DEF Next, DispatchStep, WorkerStep, Receive

(* Then what they do to the workers inside the handler code: a worker gets *)
(* there only by winning the transition to RUNNING.                        *)

Kept(w) ==
  Executing(w)' =>
    /\ Executing(w) /\ task'[w] = task[w]
    /\ pc'[w] = "exhausted" => pc[w] = "exhausted" \/ Spent(job[task[w]])

Won(w) == Start(w) /\ CanEnter(job[task[w]], "RUNNING")

LEMMA WorkersStep ==
  IInv /\ [Next]_vars =>
    \/ \A w \in Workers : Kept(w)
    \/ \E v \in Workers : Won(v) /\ \A w \in Workers \ {v} : Kept(w)
<1> DEFINE Goal == \/ \A w \in Workers : Kept(w)
                   \/ \E v \in Workers : /\ Won(v)
                                        /\ \A w \in Workers \ {v} : Kept(w)
<1> SUFFICES ASSUME IInv, [Next]_vars PROVE Goal
  OBVIOUS
<1>f. pc \in [Workers -> Labels] /\ task \in [Workers -> Jobs \union {NoJob}]
  BY DEF IInv, TypeOK
<1>un. ASSUME UNCHANGED <<pc, task>> PROVE Goal
  BY <1>un DEF Kept, Executing
<1>mv. ASSUME NEW w \in Workers, NEW l, pc' = [pc EXCEPT ![w] = l],
              UNCHANGED task, Executing(w),
              l = "exhausted" => Spent(job[task[w]])
       PROVE  Goal
  BY <1>f, <1>mv DEF Kept, Executing
<1>lv. ASSUME NEW w \in Workers, NEW j, NEW l \in {"idle", "starting", "acking"},
              pc' = [pc EXCEPT ![w] = l], task' = [task EXCEPT ![w] = j]
       PROVE  Goal
  BY <1>f, <1>lv DEF Kept, Executing
<1>ak. ASSUME NEW w \in Workers, pc' = [pc EXCEPT ![w] = "acking"], UNCHANGED task
       PROVE  Goal
  BY <1>f, <1>ak DEF Kept, Executing
<1>1. ASSUME NEW j \in Jobs,
             \/ CreateJob(j) \/ DispatchStep(j)
             \/ RequestCancellation(j) \/ WebCrash(j)
      PROVE  Goal
  BY <1>1, <1>un
  DEF CreateJob, DispatchStep, RequestCancellation, WebCrash, MarkQueued,
      Publish, PublishRaises, RecordDispatchFailure, workerVars
<1>2. ASSUME NEW j \in Jobs, NEW w \in Workers, Deliver(w, j) PROVE Goal
  <2>1. CASE job[j].status \in {"QUEUED", "RETRYING"}
    <3>1. ~job[j].cancel
      BY <2>1 DEF IInv, RowInv, Idle, Waiting
    <3>2. /\ pc' = [pc EXCEPT ![w] = "starting"]
          /\ task' = [task EXCEPT ![w] = j]
      BY <1>2, <2>1, <3>1 DEF Deliver, Become
    <3>. QED BY <3>2, <1>lv
  <2>2. CASE job[j].status \notin {"QUEUED", "RETRYING"}
    BY <1>2, <2>2, <1>un DEF Deliver
  <2>. QED BY <2>1, <2>2
<1>3. ASSUME NEW j \in Jobs, NEW w \in Workers, DiscardRevoked(w, j) PROVE Goal
  BY <1>3, <1>un DEF DiscardRevoked, workerVars
<1>4. ASSUME NEW w \in Workers, Start(w) PROVE Goal
  <2>1. CASE CanEnter(job[task[w]], "RUNNING")
    <3>1. \A v \in Workers \ {w} : pc'[v] = pc[v] /\ task'[v] = task[v]
      BY <1>f, <1>4 DEF Start, Become
    <3>. QED
      BY <1>4, <2>1, <3>1 DEF Won, Kept, Executing
  <2>2. CASE ~CanEnter(job[task[w]], "RUNNING")
    BY <1>4, <2>2, <1>ak DEF Start, Become
  <2>. QED BY <2>1, <2>2
<1>5. ASSUME NEW w \in Workers,
             \/ ReportProgress(w) \/ HandlerRaises(w) \/ HandlerReturns(w)
             \/ MarkRetrying(w)
      PROVE  Goal
  <2>1. Executing(w) /\ UNCHANGED task
    BY <1>5 DEF ReportProgress, HandlerRaises, HandlerReturns,
                MarkRetrying, Executing
  <2>2. UNCHANGED pc \/ \E l : l # "exhausted" /\ pc' = [pc EXCEPT ![w] = l]
    BY <1>5 DEF ReportProgress, HandlerRaises, HandlerReturns,
                MarkRetrying, Become
  <2>. QED BY <2>1, <2>2, <1>un, <1>mv
<1>5a. ASSUME NEW w \in Workers, CheckRetryBudget(w) PROVE Goal
  <2> DEFINE l == IF Spent(job[task[w]]) THEN "exhausted" ELSE "retrying"
  <2>1. pc' = [pc EXCEPT ![w] = l] /\ UNCHANGED task /\ Executing(w)
    BY <1>5a DEF CheckRetryBudget, Become, Spent, Executing
  <2>2. l = "exhausted" => Spent(job[task[w]])
    OBVIOUS
  <2> HIDE DEF l
  <2>. QED BY <2>1, <2>2, <1>mv
<1>6. ASSUME NEW w \in Workers,
             \/ Complete(w) \/ RecordFailure(w) \/ AcknowledgeCancellation(w)
             \/ RecordExhaustion(w) \/ Republish(w)
      PROVE  Goal
  BY <1>6, <1>ak DEF Complete, RecordFailure, AcknowledgeCancellation,
                     RecordExhaustion, Republish, Become
<1>7. ASSUME NEW w \in Workers, Acknowledge(w) \/ WorkerCrash(w) \/ TimeLimit(w)
      PROVE  Goal
  BY <1>7, <1>lv DEF Acknowledge, WorkerCrash, TimeLimit, Release, Become
<1>8. ASSUME NEW w \in Workers, Redeliver(w) PROVE Goal
  BY <1>8, <1>un DEF Redeliver, workerVars
<1>9. ASSUME UNCHANGED vars PROVE Goal
  BY <1>9, <1>un DEF vars
<1> HIDE DEF Goal
<1>10. Goal
  BY <1>1, <1>2, <1>3, <1>4, <1>5, <1>5a, <1>6, <1>7, <1>8, <1>9
  DEF Next, WorkerStep, Receive
<1>. USE DEF Goal
<1>. QED BY <1>10

-----------------------------------------------------------------------------
(* The invariant. *)

LEMMA InvInit == Init => IInv
<1> SUFFICES ASSUME Init PROVE IInv
  OBVIOUS
<1>0. 0 \in 0..(Top - 1) /\ 0 \in 0..Len(Script) /\ 0 # Top /\ 0 <= 0
  OBVIOUS
<1>1. TypeOK
  BY <1>0, NoRowType DEF Init, TypeOK, Labels
<1>2. \A j \in Jobs : RowInv(job[j])
  BY <1>0 DEF Init, RowInv, NoRow, Idle, Terminal, Waiting
<1>3. \A w \in Workers : pc[w] = "idle"
  BY DEF Init
<1>. QED
  BY <1>1, <1>2, <1>3
  DEF IInv, SingleExecutor, ExecutingStarted, ExhaustedSpent, Executing

LEMMA InvStep == IInv /\ [Next]_vars => IInv'
<1> SUFFICES ASSUME IInv, [Next]_vars PROVE IInv'
  OBVIOUS
<1>f. /\ pc \in [Workers -> Labels]
      /\ task \in [Workers -> Jobs \union {NoJob}]
      /\ \A w \in Workers : pc[w] # "idle" => task[w] \in Jobs
  BY DEF IInv, TypeOK
<1>r. job' \in [Jobs -> Row] /\ \A j \in Jobs : RowsStep(j)
  BY RowsProgress
<1>1. TypeOK'
  BY <1>r, FrameStep DEF FrameOK, TypeOK
<1>2. \A j \in Jobs : RowInv(job'[j])
  BY <1>r DEF RowsStep, RowStep
<1>w. PICK W \in SUBSET Workers :
        /\ \A w \in W : Won(w)
        /\ \A v, w \in W : v = w
        /\ \A w \in Workers \ W : Kept(w)
  <2>1. CASE \A w \in Workers : Kept(w)
    BY <2>1, {} \in SUBSET Workers
  <2>2. CASE \E v \in Workers : Won(v) /\ \A w \in Workers \ {v} : Kept(w)
    <3>1. PICK v \in Workers : Won(v) /\ \A w \in Workers \ {v} : Kept(w)
      BY <2>2
    <3>. QED BY <3>1, {v} \in SUBSET Workers
  <2>. QED BY <2>1, <2>2, WorkersStep
<1>won. ASSUME NEW w \in W
        PROVE  /\ task[w] \in Jobs /\ task' = task
               /\ Idle(job[task[w]]) /\ job'[task[w]].status = "RUNNING"
               /\ pc'[w] = "handler"
  <2>1. Start(w) /\ CanEnter(job[task[w]], "RUNNING") /\ w \in Workers
    BY <1>w DEF Won
  <2>2. task[w] \in Jobs /\ task' = task /\ pc'[w] = "handler"
    BY <2>1, <1>f DEF Start, Become
  <2>3. job[task[w]].status \in Waiting /\ job[task[w]] \in Row
    BY <2>1, <2>2
    DEF IInv, TypeOK, CanEnter, AllowedTransitions, Row, Status, Waiting, Terminal
  <2> DEFINE p == IF seen[w] > 1 THEN seen[w] ELSE 1
  <2>4. Write(task[w], Started(job[task[w]], p))
    BY <2>1 DEF Start
  <2> HIDE DEF p
  <2>5. Started(job[task[w]], p).status = "RUNNING"
    BY <2>1, <2>3 DEF Started, Row
  <2>6. job'[task[w]].status = "RUNNING"
    BY <2>2, <2>4, <2>5 DEF Write, IInv, TypeOK
  <2>. QED BY <2>2, <2>3, <2>6 DEF Idle
<1>3. SingleExecutor'
  <2> SUFFICES ASSUME NEW v \in Workers, NEW w \in Workers,
                      Executing(v)', Executing(w)', task'[v] = task'[w]
               PROVE  v = w
    BY DEF SingleExecutor
  <2>1. CASE v \notin W /\ w \notin W
    BY <1>w, <2>1 DEF Kept, IInv, SingleExecutor
  <2>2. CASE v \in W /\ w \in W
    BY <1>w, <2>2
  <2>3. CASE v \in W /\ w \notin W
    BY <1>w, <1>won, <2>3 DEF Kept, IInv, ExecutingStarted
  <2>4. CASE v \notin W /\ w \in W
    BY <1>w, <1>won, <2>4 DEF Kept, IInv, ExecutingStarted
  <2>. QED BY <2>1, <2>2, <2>3, <2>4
<1>4. ExecutingStarted'
  <2> SUFFICES ASSUME NEW w \in Workers, Executing(w)'
               PROVE  ~Idle(job'[task'[w]])
    BY DEF ExecutingStarted
  <2>1. CASE w \in W
    BY <1>won, <2>1 DEF Idle, Waiting
  <2>2. CASE w \notin W
    <3>1. /\ Executing(w) /\ task'[w] = task[w] /\ task[w] \in Jobs
          /\ ~Idle(job[task[w]])
      BY <1>w, <1>f, <2>2 DEF Kept, IInv, ExecutingStarted, Executing
    <3>2. CASE Forward(job[task[w]], job'[task[w]])
      BY <3>1, <3>2 DEF Forward
    <3>3. ASSUME NEW v \in Workers, MarkRetrying(v), task[v] = task[w]
          PROVE  FALSE
      <4>1. v = w
        BY <3>1, <3>3 DEF MarkRetrying, IInv, SingleExecutor, Executing
      <4>2. pc'[w] \in {"republishing", "acking"}
        BY <3>3, <4>1, <1>f DEF MarkRetrying, Become
      <4>. QED BY <4>2 DEF Executing
    <3>. QED BY <1>r, <3>1, <3>2, <3>3 DEF RowsStep
  <2>. QED BY <2>1, <2>2
<1>5. ExhaustedSpent'
  <2> SUFFICES ASSUME NEW w \in Workers, pc'[w] = "exhausted"
               PROVE  Spent(job'[task'[w]])
    BY DEF ExhaustedSpent, Spent
  <2>1. w \notin W /\ Executing(w)'
    BY <1>won DEF Executing
  <2>2. /\ Executing(w) /\ task'[w] = task[w] /\ task[w] \in Jobs
        /\ job[task[w]].status # "ABSENT"
    BY <1>w, <1>f, <2>1 DEF Kept, IInv, ExecutingStarted, Executing, Idle
  <2>3. Spent(job[task[w]])
    BY <1>w, <2>1 DEF Kept, IInv, ExhaustedSpent, Spent
  <2>. QED BY <1>r, <2>2, <2>3 DEF RowsStep, RowStep
<1>. QED
  BY <1>1, <1>2, <1>3, <1>4, <1>5 DEF IInv

(* IInv holds in every reachable state of the ledger and its workers.      *)
THEOREM Invariance == Spec => []IInv
<1>. QED BY InvInit, InvStep, PTL DEF Spec

-----------------------------------------------------------------------------
(* What follows for a reader of the ledger. *)

(* The rows and the workers' local state have their types; 20 retries and  *)
(* 100 percent are never exceeded.                                         *)
THEOREM TypeCorrect == Spec => []TypeOK
<1>1. IInv => TypeOK
  BY DEF IInv
<1>. QED BY <1>1, Invariance, PTL

(* Two workers are never inside the handler of one job: the transition to  *)
(* RUNNING, taken under the row lock, is the only way in.                  *)
THEOREM OneExecutor == Spec => []SingleExecutor
<1>1. IInv => SingleExecutor
  BY DEF IInv
<1>. QED BY <1>1, Invariance, PTL

(* No waiting row carries a cancellation request, so execute_job never     *)
(* meets one before it has started the job.                                *)
THEOREM WaitingIsLive == Spec => []WaitingNotCancelled
<1>1. IInv => WaitingNotCancelled
  BY DEF IInv, RowInv, Idle, WaitingNotCancelled
<1>. QED BY <1>1, Invariance, PTL

(* finished_at and 100 percent agree with the status on every path.        *)
THEOREM LedgerIsConsistent == Spec => []LedgerConsistent
<1>1. IInv => LedgerConsistent
  BY DEF IInv, RowInv, LedgerConsistent
<1>. QED BY <1>1, Invariance, PTL

(* The retry counter keeps to the creator's limit under any number of      *)
(* redeliveries, and exhaustion is recorded only for a spent budget.       *)
THEOREM RetriesBounded == Spec => []RetryBudget
<1>1. IInv => RetryBudget
  BY DEF IInv, RowInv, RetryBudget
<1>. QED BY <1>1, Invariance, PTL

(* No step of a web process, worker or user writes a terminal row.         *)
THEOREM TerminalIsFinal == Spec => TerminalFrozen
<1>1. IInv /\ [Next]_vars =>
        [\A j \in Jobs : job[j].status \in Terminal => job'[j] = job[j]]_vars
  BY RowsProgress DEF RowsStep, RowStep
<1>. QED BY <1>1, Invariance, PTL DEF Spec, TerminalFrozen

(* Once a cancellation is requested the row moves only to a terminal       *)
(* status: no more progress and no retry is recorded.                      *)
THEOREM CancelledMakesNoProgress == Spec => CancelledOnlySettles
<1>1. IInv /\ [Next]_vars =>
        [\A j \in Jobs : job[j].cancel /\ job'[j] # job[j]
           => job'[j].status \in Terminal]_vars
  BY RowsProgress DEF RowsStep, RowStep
<1>. QED BY <1>1, Invariance, PTL DEF Spec, CancelledOnlySettles

-----------------------------------------------------------------------------
(* The contract. Seen through it a step touches one job: Only(i) says that *)
(* the rest of what the contract speaks of is left alone.                  *)

Alike(j) ==
  /\ job'[j].status = job[j].status
  /\ job'[j].cancel = job[j].cancel
  /\ Owned(j)' <=> Owned(j)

Only(i) == \A j \in Jobs \ {i} : Alike(j)

LEMMA OwnedIsBoolean ==
  ASSUME NEW j
  PROVE  Owned(j) \in BOOLEAN /\ Owned(j)' \in BOOLEAN
  BY DEF Owned

(* What the functions of the contract see of such a step. *)
LEMMA AlikeFunctions ==
  ASSUME NEW i \in Jobs, Only(i)
  PROVE  /\ [j \in Jobs |-> job'[j].status] =
              [[j \in Jobs |-> job[j].status] EXCEPT ![i] = job'[i].status]
         /\ [j \in Jobs |-> job'[j].cancel] =
              [[j \in Jobs |-> job[j].cancel] EXCEPT ![i] = job'[i].cancel]
         /\ [j \in Jobs |-> Owned(j)'] =
              [[j \in Jobs |-> Owned(j)] EXCEPT ![i] = Owned(i)']
<1>1. \A j \in Jobs \ {i} : Owned(j)' = Owned(j)
  BY OwnedIsBoolean DEF Only, Alike
<1>. QED
  BY <1>1 DEF Only, Alike

LEMMA SameOwners ==
  ASSUME NEW i \in Jobs, Only(i), Owned(i)' <=> Owned(i)
  PROVE  [j \in Jobs |-> Owned(j)'] = [j \in Jobs |-> Owned(j)]
<1>1. \A j \in Jobs : Owned(j)' = Owned(j)
  BY OwnedIsBoolean DEF Only, Alike
<1>. QED
  BY <1>1

LEMMA AlikeValue ==
  ASSUME NEW i \in Jobs, Only(i), Alike(i)
  PROVE  UNCHANGED Contract!vars
<1>1. \A j \in Jobs : Owned(j)' = Owned(j)
  BY OwnedIsBoolean DEF Only, Alike
<1>. QED
  BY <1>1 DEF Only, Alike, Contract!vars

(* The actions of the contract, read off the one job a step touches. *)
LEMMA Submits ==
  ASSUME NEW i \in Jobs, Only(i),
         job[i].cancel \in BOOLEAN, job'[i].cancel \in BOOLEAN,
         job'[i].cancel = job[i].cancel,
         Owned(i)' <=> Owned(i),
         job[i].status = "ABSENT",
         job'[i].status = "PENDING"
  PROVE  Contract!Submit(i)
  BY AlikeFunctions, SameOwners DEF Contract!Submit, Contract!Move

LEMMA Enqueues ==
  ASSUME NEW i \in Jobs, Only(i),
         job[i].cancel \in BOOLEAN, job'[i].cancel \in BOOLEAN,
         job'[i].cancel = job[i].cancel,
         Owned(i)' <=> Owned(i),
         job[i].status = "PENDING",
         job'[i].status = "QUEUED"
  PROVE  Contract!Enqueue(i)
  BY AlikeFunctions, SameOwners DEF Contract!Enqueue, Contract!Move

LEMMA Begins ==
  ASSUME NEW i \in Jobs, Only(i),
         job[i].cancel \in BOOLEAN, job'[i].cancel \in BOOLEAN,
         job'[i].cancel = job[i].cancel,
         job[i].status \in {"QUEUED", "RETRYING"},
         job'[i].status = "RUNNING",
         ~job[i].cancel,
         ~Owned(i),
         Owned(i)'
  PROVE  Contract!Begin(i)
  BY AlikeFunctions, OwnedIsBoolean DEF Contract!Begin, Contract!Move

LEMMA Settles ==
  ASSUME NEW i \in Jobs, Only(i),
         job[i].cancel \in BOOLEAN, job'[i].cancel \in BOOLEAN,
         job'[i].cancel = job[i].cancel,
         job[i].status = "RUNNING",
         job'[i].status \in Terminal,
         job'[i].status = "CANCELLED" => job[i].cancel,
         Owned(i),
         ~Owned(i)'
  PROVE  Contract!Settle(i)
  BY AlikeFunctions, OwnedIsBoolean
  DEF Contract!Settle, Contract!Move,
      Contract!Terminal, Terminal

LEMMA Retries ==
  ASSUME NEW i \in Jobs, Only(i),
         job[i].cancel \in BOOLEAN, job'[i].cancel \in BOOLEAN,
         job'[i].cancel = job[i].cancel,
         job[i].status = "RUNNING",
         job'[i].status = "RETRYING",
         ~job[i].cancel,
         Owned(i),
         ~Owned(i)'
  PROVE  Contract!Retry(i)
  BY AlikeFunctions, OwnedIsBoolean DEF Contract!Retry, Contract!Move

LEMMA Abandons ==
  ASSUME NEW i \in Jobs, Only(i),
         job[i].cancel \in BOOLEAN, job'[i].cancel \in BOOLEAN,
         job'[i].cancel = job[i].cancel,
         job'[i].status = job[i].status,
         Owned(i),
         ~Owned(i)'
  PROVE  Contract!Abandon(i)
  BY AlikeFunctions, OwnedIsBoolean DEF Contract!Abandon

LEMMA Undeliverables ==
  ASSUME NEW i \in Jobs, Only(i),
         job[i].cancel \in BOOLEAN, job'[i].cancel \in BOOLEAN,
         job'[i].cancel = job[i].cancel,
         Owned(i)' <=> Owned(i),
         job[i].status \in {"QUEUED", "RUNNING", "RETRYING"},
         job'[i].status = "FAILED"
  PROVE  Contract!Undeliverable(i)
  BY AlikeFunctions, SameOwners DEF Contract!Undeliverable, Contract!Move

LEMMA Cancels ==
  ASSUME NEW i \in Jobs, Only(i),
         job[i].cancel \in BOOLEAN, job'[i].cancel \in BOOLEAN,
         Owned(i)' <=> Owned(i),
         \/ job[i].status \in Waiting /\ job'[i].status = "CANCELLED"
         \/ job[i].status = "RUNNING" /\ job'[i].status = "RUNNING",
         job'[i].cancel
  PROVE  Contract!Cancel(i)
<1>1. CASE job'[i].status = job[i].status
  <2>1. \A j \in Jobs : job'[j].status = job[j].status
    BY <1>1 DEF Only, Alike
  <2>2. [j \in Jobs |-> job'[j].status] = [j \in Jobs |-> job[j].status]
    BY <2>1
  <2>3. job[i].status = "RUNNING"
    BY <1>1 DEF Waiting
  <2>. QED
    BY <2>2, <2>3, AlikeFunctions, SameOwners DEF Contract!Cancel
<1>2. CASE job'[i].status # job[i].status
  BY <1>2, AlikeFunctions, SameOwners
  DEF Contract!Cancel, Contract!Move, Contract!Waiting, Waiting
<1>. QED
  BY <1>1, <1>2

(* Who owns a job changes only with the worker that takes a step.          *)
Others(w) == \A v \in Workers \ {w} : pc'[v] = pc[v] /\ task'[v] = task[v]

LEMMA SameWorkers ==
  ASSUME UNCHANGED <<pc, task>>
  PROVE  \A j : Owned(j)' <=> Owned(j)
  BY DEF Owned, Executing

LEMMA OutsideStep ==
  ASSUME NEW w \in Workers, Others(w), ~Executing(w), ~Executing(w)'
  PROVE  \A j : Owned(j)' <=> Owned(j)
  BY DEF Owned, Executing, Others

LEMMA InsideStep ==
  ASSUME NEW w \in Workers, Others(w), Executing(w), Executing(w)',
         task'[w] = task[w]
  PROVE  \A j : Owned(j)' <=> Owned(j)
  BY DEF Owned, Executing, Others

LEMMA EnteringStep ==
  ASSUME IInv, NEW w \in Workers, Others(w), ~Executing(w), Executing(w)',
         NEW i \in Jobs, task[w] = i, task'[w] = i, Idle(job[i])
  PROVE  /\ ~Owned(i) /\ Owned(i)'
         /\ \A j \in Jobs \ {i} : Owned(j)' <=> Owned(j)
<1>1. ~Owned(i)
  BY DEF Owned, IInv, ExecutingStarted
<1>2. Owned(i)'
  BY DEF Owned
<1>3. \A j \in Jobs \ {i} : Owned(j)' <=> Owned(j)
  BY DEF Owned, Executing, Others
<1>. QED
  BY <1>1, <1>2, <1>3

LEMMA LeavingStep ==
  ASSUME IInv, NEW w \in Workers, Others(w), Executing(w), ~Executing(w)',
         NEW i \in Jobs, task[w] = i
  PROVE  /\ Owned(i) /\ ~Owned(i)'
         /\ \A j \in Jobs \ {i} : Owned(j)' <=> Owned(j)
<1>1. Owned(i)
  BY DEF Owned
<1>2. \A v \in Workers \ {w} : ~(Executing(v) /\ task[v] = i)
  BY DEF IInv, SingleExecutor
<1>3. ~Owned(i)'
  BY <1>2 DEF Owned, Executing, Others
<1>4. \A j \in Jobs \ {i} : Owned(j)' <=> Owned(j)
  BY DEF Owned, Executing, Others
<1>. QED
  BY <1>1, <1>3, <1>4

(* What the owner of a job may leave in its row. *)
Left(r, s) ==
  /\ s.cancel = r.cancel
  /\ \/ s.status = r.status
     \/ /\ r.status = "RUNNING" /\ s.status \in Terminal
        /\ s.status = "CANCELLED" => r.cancel
     \/ r.status = "RUNNING" /\ s.status = "RETRYING" /\ ~r.cancel

LEMMA TransitionedLeft ==
  ASSUME NEW r \in Row, ~Idle(r), NEW target \in {"SUCCEEDED", "FAILED"}, NEW e
  PROVE  Left(r, Transitioned(r, target, e))
<1>1. CASE ~CanEnter(r, target)
  BY <1>1 DEF Transitioned, Left
<1>2. CASE CanEnter(r, target)
  <2>1. r.status = "RUNNING"
    BY <1>2 DEF CanEnter, AllowedTransitions, Row, Status, Idle, Waiting, Terminal
  <2>2. /\ Transitioned(r, target, e).status = target
        /\ Transitioned(r, target, e).cancel = r.cancel
    BY <1>2 DEF Transitioned, Row
  <2>. QED
    BY <2>1, <2>2 DEF Left, Terminal
<1>. QED
  BY <1>1, <1>2

LEMMA AcknowledgedLeft ==
  ASSUME NEW r \in Row, ~Idle(r)
  PROVE  Left(r, CancellationAcknowledged(r))
  BY DEF Left, CancellationAcknowledged, Row, Idle, Waiting, Terminal

LEMMA RetriedLeft ==
  ASSUME NEW r \in Row, ~Idle(r)
  PROVE  Left(r, Retried(r))
<1>1. CASE ~CanRetry(r)
  BY <1>1 DEF Retried, Left
<1>2. CASE CanRetry(r)
  <2>1. /\ Retried(r).status = "RETRYING"
        /\ Retried(r).cancel = r.cancel
    BY <1>2 DEF Retried, Row
  <2>. QED
    BY <1>2, <2>1 DEF Left, CanRetry
<1>. QED
  BY <1>1, <1>2

(* A service call of the owner that ends its work on the job. *)
LEMMA OwnerLeaves ==
  ASSUME IInv, job' \in [Jobs -> Row], NEW w \in Workers, Executing(w),
         ~Executing(w)', Others(w), NEW s, Left(job[task[w]], s),
         job' = [job EXCEPT ![task[w]] = s]
  PROVE  Contract!Next
<1>0. job \in [Jobs -> Row] /\ task[w] \in Jobs
  BY DEF IInv, TypeOK, Executing
<1>1. PICK i \in Jobs : task[w] = i
  BY <1>0
<1>2. /\ Owned(i) /\ ~Owned(i)'
      /\ \A j \in Jobs \ {i} : Owned(j)' <=> Owned(j)
  BY <1>1, LeavingStep
<1>3. job'[i] = s /\ \A j \in Jobs \ {i} : job'[j] = job[j]
  BY <1>0, <1>1
<1>4. Only(i)
  BY <1>2, <1>3 DEF Only, Alike
<1>5. job[i].cancel \in BOOLEAN /\ job'[i].cancel \in BOOLEAN
  BY <1>0 DEF Row
<1>6. Contract!Settle(i) \/ Contract!Retry(i) \/ Contract!Abandon(i)
  <2>0. Left(job[i], job'[i])
    BY <1>1, <1>3
  <2>1. CASE job'[i].status = job[i].status
    BY <2>0, <2>1, <1>1, <1>2, <1>4, <1>5, Abandons DEF Left
  <2>2. CASE /\ job[i].status = "RUNNING" /\ job'[i].status \in Terminal
             /\ job'[i].status = "CANCELLED" => job[i].cancel
    BY <2>0, <2>2, <1>1, <1>2, <1>4, <1>5, Settles DEF Left
  <2>3. CASE /\ job[i].status = "RUNNING" /\ job'[i].status = "RETRYING"
             /\ ~job[i].cancel
    BY <2>0, <2>3, <1>1, <1>2, <1>4, <1>5, Retries DEF Left
  <2>. QED
    BY <2>0, <2>1, <2>2, <2>3 DEF Left
<1>. QED
  BY <1>6 DEF Contract!Next

(* A step that leaves the rows' statuses, cancellations and owners alone. *)
LEMMA NobodyNotices ==
  ASSUME \A j \in Jobs : Alike(j)
  PROVE  UNCHANGED Contract!vars
<1>1. \A j \in Jobs : Owned(j)' = Owned(j)
  BY OwnedIsBoolean DEF Alike
<1>. QED
  BY <1>1 DEF Alike, Contract!vars

LEMMA ContractStep == IInv /\ [Next]_vars => [Contract!Next]_(Contract!vars)
<1> DEFINE Goal == [Contract!Next]_(Contract!vars)
<1> SUFFICES ASSUME IInv, [Next]_vars PROVE Goal
  OBVIOUS
<1>f. /\ pc \in [Workers -> Labels]
      /\ task \in [Workers -> Jobs \union {NoJob}]
      /\ \A w \in Workers : pc[w] # "idle" => task[w] \in Jobs
      /\ job \in [Jobs -> Row]
  BY DEF IInv, TypeOK
<1>r. job' \in [Jobs -> Row]
  BY RowsProgress
<1>c. \A j \in Jobs : job[j].cancel \in BOOLEAN /\ job'[j].cancel \in BOOLEAN
  BY <1>f, <1>r DEF Row
<1>w. \A j \in Jobs : Idle(job[j]) => ~job[j].cancel
  BY DEF IInv, RowInv
<1>x. \A w \in Workers : Executing(w) =>
        task[w] \in Jobs /\ ~Idle(job[task[w]]) /\ job[task[w]] \in Row
  BY <1>f DEF IInv, ExecutingStarted, Executing
<1>st. ASSUME UNCHANGED job, \A j : Owned(j)' <=> Owned(j) PROVE Goal
  BY <1>st, NobodyNotices DEF Alike
<1>on. ASSUME NEW i \in Jobs, NEW s, Write(i, s), \A j : Owned(j)' <=> Owned(j)
       PROVE  Only(i) /\ job'[i] = s
  BY <1>on, <1>f DEF Write, Only, Alike
<1>lv. ASSUME NEW w \in Workers, Executing(w), ~Executing(w)', Others(w),
              NEW s, Left(job[task[w]], s), Write(task[w], s)
       PROVE  Goal
  BY <1>lv, <1>r, OwnerLeaves DEF Write
<1>cr. ASSUME NEW w \in Workers, Executing(w), ~Executing(w)', Others(w),
              UNCHANGED job
       PROVE  Goal
  <2>1. Left(job[task[w]], job[task[w]]) /\ job' = [job EXCEPT ![task[w]] = job[task[w]]]
    BY <1>cr, <1>x, <1>f DEF Left
  <2>. QED
    BY <1>cr, <1>r, <2>1, OwnerLeaves
<1>ot. ASSUME NEW w \in Workers, NEW l, pc' = [pc EXCEPT ![w] = l],
              UNCHANGED task \/ \E t : task' = [task EXCEPT ![w] = t]
       PROVE  pc'[w] = l /\ Others(w)
  BY <1>ot, <1>f DEF Others
<1>1. ASSUME NEW i \in Jobs, CreateJob(i) PROVE Goal
  <2>1. PICK limit \in RetryLimits : Write(i, Created(limit))
    BY <1>1 DEF CreateJob
  <2>2. \A j : Owned(j)' <=> Owned(j)
    BY <1>1, SameWorkers DEF CreateJob, workerVars
  <2>3. Only(i) /\ job'[i] = Created(limit)
    BY <2>1, <2>2, <1>on
  <2>4. /\ job[i].status = "ABSENT" /\ job'[i].status = "PENDING"
        /\ job'[i].cancel = job[i].cancel
    BY <1>1, <1>w, <1>c, <2>3 DEF CreateJob, Created, NoRow, Idle
  <2>5. Contract!Submit(i)
    BY <1>c, <2>2, <2>3, <2>4, Submits
  <2>. QED
    BY <2>5 DEF Contract!Next
<1>2. ASSUME NEW i \in Jobs, MarkQueued(i) PROVE Goal
  <2>1. Write(i, Queued(job[i])) /\ \A j : Owned(j)' <=> Owned(j)
    BY <1>2, SameWorkers DEF MarkQueued, workerVars
  <2>2. Only(i) /\ job'[i] = Queued(job[i])
    BY <2>1, <1>on
  <2>3. CASE job[i].status = "PENDING"
    <3>1. job'[i].status = "QUEUED" /\ job'[i].cancel = job[i].cancel
      BY <2>2, <2>3, <1>f DEF Queued, Row
    <3>2. Contract!Enqueue(i)
      BY <1>c, <2>1, <2>2, <2>3, <3>1, Enqueues
    <3>. QED
      BY <3>2 DEF Contract!Next
  <2>4. CASE job[i].status # "PENDING"
    BY <2>1, <2>2, <2>4, AlikeValue DEF Queued, Alike
  <2>. QED
    BY <2>3, <2>4
<1>3. ASSUME NEW i \in Jobs, RecordDispatchFailure(i) PROVE Goal
  <2> DEFINE s == Transitioned(job[i], "FAILED", "JOB_DISPATCH_FAILED")
  <2>1. Write(i, s) /\ \A j : Owned(j)' <=> Owned(j)
    BY <1>3, SameWorkers DEF RecordDispatchFailure, workerVars
  <2>2. Only(i) /\ job'[i] = s
    BY <2>1, <1>on
  <2>3. CASE CanEnter(job[i], "FAILED")
    <3>1. job[i].status \in {"QUEUED", "RUNNING", "RETRYING"}
      BY <2>3, <1>f DEF CanEnter, AllowedTransitions, Row, Status, Waiting, Terminal
    <3>2. job'[i].status = "FAILED" /\ job'[i].cancel = job[i].cancel
      BY <2>2, <2>3, <1>f DEF Transitioned, Row
    <3>3. Contract!Undeliverable(i)
      BY <1>c, <2>1, <2>2, <3>1, <3>2, Undeliverables
    <3>. QED
      BY <3>3 DEF Contract!Next
  <2>4. CASE ~CanEnter(job[i], "FAILED")
    BY <2>1, <2>2, <2>4, AlikeValue DEF Transitioned, Alike
  <2>. QED
    BY <2>3, <2>4
<1>4. ASSUME NEW i \in Jobs, RequestCancellation(i) PROVE Goal
  <2> DEFINE s == CancellationRequested(job[i])
  <2>1. Write(i, s) /\ \A j : Owned(j)' <=> Owned(j)
    BY <1>4, SameWorkers DEF RequestCancellation, workerVars
  <2>2. Only(i) /\ job'[i] = s
    BY <2>1, <1>on
  <2>3. CASE job[i].status \in Waiting \union {"RUNNING"}
    <3>1. /\ \/ job[i].status \in Waiting /\ job'[i].status = "CANCELLED"
             \/ job[i].status = "RUNNING" /\ job'[i].status = "RUNNING"
          /\ job'[i].cancel
      BY <2>2, <2>3, <1>f DEF CancellationRequested, Row, Waiting
    <3>2. Contract!Cancel(i)
      BY <1>c, <2>1, <2>2, <3>1, Cancels
    <3>. QED
      BY <3>2 DEF Contract!Next
  <2>4. CASE job[i].status \notin Waiting \union {"RUNNING"}
    BY <2>1, <2>2, <2>4, AlikeValue DEF CancellationRequested, Alike
  <2>. QED
    BY <2>3, <2>4
<1>5. ASSUME NEW j \in Jobs,
             Publish(j) \/ PublishRaises(j) \/ WebCrash(j)
      PROVE  Goal
  BY <1>5, <1>st, SameWorkers DEF Publish, PublishRaises, WebCrash, workerVars
<1>6. ASSUME NEW j \in Jobs, NEW w \in Workers, Deliver(w, j) PROVE Goal
  <2>1. CASE job[j].status \in {"QUEUED", "RETRYING"}
    <3>1. ~job[j].cancel
      BY <2>1, <1>w DEF Idle, Waiting
    <3>2. /\ pc' = [pc EXCEPT ![w] = "starting"]
          /\ task' = [task EXCEPT ![w] = j]
          /\ pc[w] = "idle" /\ UNCHANGED job
      BY <1>6, <2>1, <3>1 DEF Deliver, Become
    <3>3. Others(w) /\ pc'[w] = "starting"
      BY <3>2, <1>ot
    <3>. QED
      BY <3>2, <3>3, <1>st, OutsideStep DEF Executing
  <2>2. CASE job[j].status \notin {"QUEUED", "RETRYING"}
    BY <1>6, <2>2, <1>st, SameWorkers DEF Deliver
  <2>. QED
    BY <2>1, <2>2
<1>7. ASSUME NEW j \in Jobs, NEW w \in Workers, DiscardRevoked(w, j) PROVE Goal
  BY <1>7, <1>st, SameWorkers DEF DiscardRevoked, workerVars
<1>8. ASSUME NEW w \in Workers, Start(w) PROVE Goal
  <2> DEFINE p == IF seen[w] > 1 THEN seen[w] ELSE 1
  <2>0. PICK i \in Jobs : task[w] = i
    BY <1>8, <1>f DEF Start
  <2>1. Write(i, Started(job[i], p)) /\ UNCHANGED task
    BY <1>8, <2>0 DEF Start
  <2> HIDE DEF p
  <2>2. CASE CanEnter(job[i], "RUNNING")
    <3>1. job[i].status \in {"QUEUED", "RETRYING"} /\ Idle(job[i])
      BY <2>1, <2>2, <1>f DEF CanEnter, AllowedTransitions, Row, Status, Idle, Waiting, Terminal
    <3>2. pc' = [pc EXCEPT ![w] = "handler"] /\ pc[w] = "starting"
      BY <1>8, <2>0, <2>2 DEF Start, Become
    <3>3. Others(w) /\ pc'[w] = "handler" /\ task'[w] = i
      BY <2>0, <2>1, <3>2, <1>ot
    <3>4. ~Executing(w) /\ Executing(w)'
      BY <3>2, <3>3 DEF Executing
    <3>5. /\ ~Owned(i) /\ Owned(i)'
          /\ \A j \in Jobs \ {i} : Owned(j)' <=> Owned(j)
      BY <2>0, <3>1, <3>3, <3>4, EnteringStep
    <3>6. /\ job'[i] = Started(job[i], p)
          /\ \A j \in Jobs \ {i} : job'[j] = job[j]
      BY <2>1, <1>f DEF Write
    <3>7. Only(i)
      BY <3>5, <3>6 DEF Only, Alike
    <3>8. job'[i].status = "RUNNING" /\ job'[i].cancel = job[i].cancel
      BY <2>1, <2>2, <3>6, <1>f DEF Started, Row
    <3>9. ~job[i].cancel
      BY <2>1, <3>1, <1>w
    <3>10. Contract!Begin(i)
      BY <1>c, <2>1, <3>1, <3>5, <3>7, <3>8, <3>9, Begins
    <3>. QED
      BY <2>1, <3>10 DEF Contract!Next
  <2>3. CASE ~CanEnter(job[i], "RUNNING")
    <3>1. pc' = [pc EXCEPT ![w] = "acking"] /\ pc[w] = "starting"
      BY <1>8, <2>0, <2>3 DEF Start, Become
    <3>2. Others(w) /\ pc'[w] = "acking"
      BY <2>1, <3>1, <1>ot
    <3>3. \A j : Owned(j)' <=> Owned(j)
      BY <3>1, <3>2, OutsideStep DEF Executing
    <3>4. UNCHANGED job
      BY <2>1, <2>3, <1>f DEF Write, Started
    <3>. QED
      BY <3>3, <3>4, <1>st
  <2>. QED
    BY <2>2, <2>3
<1>9. ASSUME NEW w \in Workers, ReportProgress(w) PROVE Goal
  <2> DEFINE v == Script[step[w] + 1]
             i == task[w]
  <2>1. /\ i \in Jobs /\ Write(i, Reported(job[i], v)) /\ UNCHANGED task
        /\ pc[w] = "handler"
    BY <1>9, <1>f DEF ReportProgress
  <2>2. UNCHANGED pc \/ \E l \in {"cancelling", "failing"} : pc' = [pc EXCEPT ![w] = l]
    BY <1>9 DEF ReportProgress, Become
  <2>3. Others(w) /\ Executing(w) /\ Executing(w)' /\ task'[w] = task[w]
    BY <2>1, <2>2, <1>f DEF Others, Executing
  <2>4. \A j : Owned(j)' <=> Owned(j)
    BY <2>3, InsideStep
  <2>5. Only(i) /\ job'[i] = Reported(job[i], v)
    BY <2>1, <2>4, <1>on
  <2>6. job'[i].status = job[i].status /\ job'[i].cancel = job[i].cancel
    BY <2>1, <2>5, <1>f DEF Reported, Row
  <2>. QED
    BY <2>1, <2>4, <2>5, <2>6, AlikeValue DEF Alike
<1>10. ASSUME NEW w \in Workers,
              HandlerRaises(w) \/ HandlerReturns(w) \/ CheckRetryBudget(w)
       PROVE  Goal
  <2>1. UNCHANGED job /\ UNCHANGED task /\ pc[w] \in {"handler", "retryable"}
    BY <1>10 DEF HandlerRaises, HandlerReturns, CheckRetryBudget
  <2>2. \E l \in {"retryable", "failing", "cancelling", "completing",
                  "exhausted", "retrying"} : pc' = [pc EXCEPT ![w] = l]
    BY <1>10 DEF HandlerRaises, HandlerReturns, CheckRetryBudget, Become
  <2>3. Others(w) /\ Executing(w) /\ Executing(w)' /\ task'[w] = task[w]
    BY <2>1, <2>2, <1>f DEF Others, Executing
  <2>. QED
    BY <2>1, <2>3, <1>st, InsideStep
<1>11. ASSUME NEW w \in Workers,
              \/ Complete(w) \/ RecordFailure(w) \/ AcknowledgeCancellation(w)
              \/ RecordExhaustion(w) \/ MarkRetrying(w)
       PROVE  Goal
  <2>1. /\ UNCHANGED task
        /\ pc[w] \in {"completing", "failing", "cancelling", "exhausted",
                      "retrying"}
    BY <1>11 DEF Complete, RecordFailure, AcknowledgeCancellation,
                 RecordExhaustion, MarkRetrying
  <2>2. \E l \in {"acking", "republishing"} : pc' = [pc EXCEPT ![w] = l]
    BY <1>11 DEF Complete, RecordFailure, AcknowledgeCancellation,
                 RecordExhaustion, MarkRetrying, Become
  <2>3. Others(w) /\ Executing(w) /\ ~Executing(w)'
    BY <2>1, <2>2, <1>f DEF Others, Executing
  <2>4. \E s : Write(task[w], s) /\ Left(job[task[w]], s)
    <3>1. job[task[w]] \in Row /\ ~Idle(job[task[w]])
      BY <2>3, <1>x
    <3>2. CASE Complete(w)
      BY <3>1, <3>2, TransitionedLeft DEF Complete
    <3>3. CASE RecordFailure(w)
      BY <3>1, <3>3, TransitionedLeft DEF RecordFailure
    <3>4. CASE AcknowledgeCancellation(w)
      BY <3>1, <3>4, AcknowledgedLeft DEF AcknowledgeCancellation
    <3>5. CASE RecordExhaustion(w)
      BY <3>1, <3>5, TransitionedLeft DEF RecordExhaustion
    <3>6. CASE MarkRetrying(w)
      BY <3>1, <3>6, RetriedLeft DEF MarkRetrying
    <3>. QED
      BY <1>11, <3>2, <3>3, <3>4, <3>5, <3>6
  <2>. QED
    BY <2>3, <2>4, <1>lv
<1>12. ASSUME NEW w \in Workers,
              Republish(w) \/ Acknowledge(w) \/ WorkerCrash(w) \/ TimeLimit(w)
       PROVE  Goal
  <2>1. /\ UNCHANGED job
        /\ UNCHANGED task \/ \E t : task' = [task EXCEPT ![w] = t]
    BY <1>12 DEF Republish, Acknowledge, WorkerCrash, TimeLimit, Release
  <2>2. \E l \in {"acking", "idle"} : pc' = [pc EXCEPT ![w] = l]
    BY <1>12 DEF Republish, Acknowledge, WorkerCrash, TimeLimit, Release, Become
  <2>3. Others(w) /\ ~Executing(w)'
    BY <2>1, <2>2, <1>f DEF Others, Executing
  <2>4. CASE Executing(w)
    BY <2>1, <2>3, <2>4, <1>cr
  <2>5. CASE ~Executing(w)
    BY <2>1, <2>3, <2>5, <1>st, OutsideStep
  <2>. QED
    BY <2>4, <2>5
<1>13. ASSUME NEW w \in Workers, Redeliver(w) PROVE Goal
  BY <1>13, <1>st, SameWorkers DEF Redeliver, workerVars
<1>14. ASSUME UNCHANGED vars PROVE Goal
  BY <1>14, <1>st, SameWorkers DEF vars
<1> HIDE DEF Goal
<1>. QED
  BY <1>1, <1>2, <1>3, <1>4, <1>5, <1>6, <1>7, <1>8, <1>9, <1>10, <1>11, <1>12, <1>13, <1>14
  DEF Next, DispatchStep, WorkerStep, Receive

LEMMA ContractInit == Init => Contract!Init
<1> SUFFICES ASSUME Init PROVE Contract!Init
  OBVIOUS
<1>1. \A j \in Jobs : /\ job[j].status = "ABSENT" /\ job[j].cancel = FALSE
                      /\ Owned(j) = FALSE
  BY DEF Init, NoRow, Owned, Executing
<1>. QED
  BY <1>1 DEF Contract!Init

(* Whoever reads the rows sees what JobContract promises: one owner at a   *)
(* time, who alone ends a running job (the dispatcher excepted), and no    *)
(* row that is started while it is owned or cancelled.                     *)
THEOREM ContractIsKept == Spec => ImplementsContract
<1>. QED
  BY ContractInit, ContractStep, Invariance, PTL
  DEF Spec, ImplementsContract, Contract!Spec

-----------------------------------------------------------------------------
(* Progress. A service other than create leaves an absent row absent, and  *)
(* most leave the progress of a row alone.                                 *)

StillAbsent(r, s) ==
  /\ r.status = "ABSENT" => s = r
  /\ s.status = "ABSENT" => r.status = "ABSENT"

Quiet(r, s) == StillAbsent(r, s) /\ s.progress = r.progress

LEMMA QuietServices ==
  ASSUME NEW r \in Row
  PROVE  /\ Quiet(r, r) /\ Quiet(r, Queued(r)) /\ Quiet(r, Retried(r))
         /\ Quiet(r, CancellationRequested(r))
         /\ Quiet(r, CancellationAcknowledged(r))
<1>1. Quiet(r, r)
  BY DEF Quiet, StillAbsent
<1>2. Quiet(r, Queued(r))
  BY DEF Queued, Row, Quiet, StillAbsent
<1>3. Quiet(r, Retried(r))
  <2>1. CASE ~CanRetry(r)
    BY <1>1, <2>1 DEF Retried
  <2>2. CASE CanRetry(r)
    <3>1. /\ Retried(r).status = "RETRYING" /\ r.status = "RUNNING"
          /\ Retried(r).progress = r.progress
      BY <2>2 DEF Retried, CanRetry, Row
    <3>. QED
      BY <3>1 DEF Quiet, StillAbsent
  <2>. QED
    BY <2>1, <2>2
<1>4. Quiet(r, CancellationRequested(r))
  BY DEF CancellationRequested, Row, Quiet, StillAbsent, Waiting
<1>5. Quiet(r, CancellationAcknowledged(r))
  BY DEF CancellationAcknowledged, Row, Quiet, StillAbsent
<1>. QED
  BY <1>1, <1>2, <1>3, <1>4, <1>5

LEMMA TransitionedQuiet ==
  ASSUME NEW r \in Row, NEW target \in {"SUCCEEDED", "FAILED"}, NEW e
  PROVE  /\ StillAbsent(r, Transitioned(r, target, e))
         /\ Transitioned(r, target, e).progress \in {r.progress, Top}
         /\ target = "FAILED" => Quiet(r, Transitioned(r, target, e))
<1>1. CASE ~CanEnter(r, target)
  BY <1>1 DEF Transitioned, StillAbsent, Quiet
<1>2. CASE CanEnter(r, target)
  <2>1. r.status # "ABSENT"
    BY <1>2 DEF CanEnter, AllowedTransitions, Status
  <2>2. /\ Transitioned(r, target, e).status = target
        /\ Transitioned(r, target, e).progress =
             IF target = "SUCCEEDED" THEN Top ELSE r.progress
    BY <1>2 DEF Transitioned, Row
  <2>. QED
    BY <2>1, <2>2 DEF StillAbsent, Quiet
<1>. QED
  BY <1>1, <1>2

LEMMA StartedProgress ==
  ASSUME NEW r \in Row, NEW p
  PROVE  /\ StillAbsent(r, Started(r, p))
         /\ Started(r, p).progress \in {r.progress, p}
<1>1. CASE ~CanEnter(r, "RUNNING")
  BY <1>1 DEF Started, StillAbsent
<1>2. CASE CanEnter(r, "RUNNING")
  <2>1. r.status # "ABSENT"
    BY <1>2 DEF CanEnter, AllowedTransitions, Status
  <2>. QED
    BY <1>2, <2>1 DEF Started, StillAbsent, Row
<1>. QED
  BY <1>1, <1>2

LEMMA ReportedProgress ==
  ASSUME NEW r \in Row, NEW value \in 1..(Top - 1)
  PROVE  /\ StillAbsent(r, Reported(r, value))
         /\ Reported(r, value).progress \in 0..Top
         /\ Reported(r, value).progress >= r.progress
<1>1. CASE ~CanReport(r, value)
  BY <1>1, RowNumbers DEF Reported, StillAbsent
<1>2. CASE CanReport(r, value)
  <2>1. /\ Reported(r, value).progress = value
        /\ Reported(r, value).status = r.status /\ r.status = "RUNNING"
    BY <1>2 DEF Reported, CanReport, Row
  <2>2. r.progress <= value /\ r.progress \in 0..Top
    BY <1>2, RowNumbers DEF CanReport
  <2>. QED
    BY <2>1, <2>2 DEF StillAbsent
<1>. QED
  BY <1>1, <1>2

(* The progress a step writes: only a worker that holds the job changes    *)
(* it, and only the start may write one that is smaller.                   *)
Resumed(w) == IF seen[w] > 1 THEN seen[w] ELSE 1

Advances(w, j) ==
  /\ task[w] = j /\ pc[w] \in {"starting", "handler", "completing"}
  /\ pc'[w] # "starting"
  /\ \/ job'[j].progress >= job[j].progress
     \/ pc[w] = "starting" /\ job'[j].progress = Resumed(w)

RowMoves(j) ==
  /\ job'[j].status = "ABSENT" =>
       job[j].status = "ABSENT" /\ job'[j] = job[j] /\ dispatch'[j] = dispatch[j]
  /\ \/ job'[j].progress = job[j].progress
     \/ \E w \in Workers : Advances(w, j)

LEMMA RowsMove ==
  IInv /\ AbsentIsFresh /\ [Next]_vars => \A j \in Jobs : RowMoves(j)
<1> DEFINE Goal == \A j \in Jobs : RowMoves(j)
<1> SUFFICES ASSUME IInv, AbsentIsFresh, [Next]_vars PROVE Goal
  OBVIOUS
<1>f. /\ pc \in [Workers -> Labels]
      /\ \A w \in Workers : pc[w] # "idle" => task[w] \in Jobs
      /\ job \in [Jobs -> Row] /\ \A j \in Jobs : job[j] \in Row
      /\ dispatch \in [Jobs -> {"none", "committed", "queued", "failing", "done"}]
  BY DEF IInv, TypeOK
<1>un. ASSUME UNCHANGED job,
              \/ UNCHANGED dispatch
              \/ \E i \in Jobs : \E l :
                   dispatch[i] # "none" /\ dispatch' = [dispatch EXCEPT ![i] = l]
       PROVE  Goal
  BY <1>un, <1>f DEF RowMoves, AbsentIsFresh
<1>qu. ASSUME NEW i \in Jobs, NEW s, Write(i, s), Quiet(job[i], s),
              \/ UNCHANGED dispatch
              \/ \E l : /\ dispatch[i] # "none"
                        /\ dispatch' = [dispatch EXCEPT ![i] = l]
       PROVE  Goal
  <2>1. job'[i] = s /\ \A j \in Jobs \ {i} : job'[j] = job[j]
    BY <1>qu, <1>f DEF Write
  <2>2. \A j \in Jobs \ {i} : dispatch'[j] = dispatch[j]
    BY <1>qu, <1>f
  <2>3. job[i].status = "ABSENT" => dispatch'[i] = dispatch[i]
    BY <1>qu DEF AbsentIsFresh
  <2>. QED
    BY <1>qu, <2>1, <2>2, <2>3 DEF RowMoves, Quiet, StillAbsent
<1>ad. ASSUME NEW w \in Workers, NEW s, task[w] \in Jobs, Write(task[w], s),
              StillAbsent(job[task[w]], s), UNCHANGED dispatch,
              pc[w] \in {"starting", "handler", "completing"},
              pc'[w] # "starting",
              \/ s.progress = job[task[w]].progress
              \/ s.progress >= job[task[w]].progress
              \/ pc[w] = "starting" /\ s.progress = Resumed(w)
       PROVE  Goal
  <2>1. PICK i \in Jobs : task[w] = i
    BY <1>ad
  <2>2. job'[i] = s /\ \A j \in Jobs \ {i} : job'[j] = job[j]
    BY <1>ad, <2>1, <1>f DEF Write
  <2>3. RowMoves(i)
    BY <1>ad, <2>1, <2>2 DEF RowMoves, StillAbsent, Advances
  <2>4. \A j \in Jobs \ {i} : RowMoves(j)
    BY <1>ad, <2>2 DEF RowMoves
  <2>. QED
    BY <2>3, <2>4
<1>1. ASSUME NEW i \in Jobs, CreateJob(i) PROVE Goal
  <2>1. PICK limit \in RetryLimits : Write(i, Created(limit))
    BY <1>1 DEF CreateJob
  <2>2. job'[i] = Created(limit) /\ \A j \in Jobs \ {i} : job'[j] = job[j]
    BY <2>1, <1>f DEF Write
  <2>3. job'[i].status = "PENDING" /\ job'[i].progress = 0
    BY <2>2 DEF Created, NoRow
  <2>4. job[i].progress = 0
    BY <1>1 DEF CreateJob, AbsentIsFresh
  <2>5. \A j \in Jobs \ {i} : dispatch'[j] = dispatch[j]
    BY <1>1, <1>f DEF CreateJob
  <2>. QED
    BY <2>2, <2>3, <2>4, <2>5 DEF RowMoves
<1>2. ASSUME NEW i \in Jobs, MarkQueued(i) PROVE Goal
  BY <1>2, <1>f, <1>qu, QuietServices DEF MarkQueued
<1>3. ASSUME NEW i \in Jobs, RecordDispatchFailure(i) PROVE Goal
  BY <1>3, <1>f, <1>qu, TransitionedQuiet DEF RecordDispatchFailure
<1>4. ASSUME NEW i \in Jobs, RequestCancellation(i) PROVE Goal
  BY <1>4, <1>f, <1>qu, QuietServices DEF RequestCancellation
<1>5. ASSUME NEW i \in Jobs, Publish(i) \/ PublishRaises(i) \/ WebCrash(i)
      PROVE  Goal
  BY <1>5, <1>un DEF Publish, PublishRaises, WebCrash
<1>6. ASSUME NEW j \in Jobs, NEW w \in Workers, Deliver(w, j) \/ DiscardRevoked(w, j)
      PROVE  Goal
  BY <1>6, <1>un DEF Deliver, DiscardRevoked
<1>7. ASSUME NEW w \in Workers, Start(w) PROVE Goal
  <2>1. /\ task[w] \in Jobs /\ pc[w] = "starting" /\ UNCHANGED dispatch
        /\ Write(task[w], Started(job[task[w]], Resumed(w)))
    BY <1>7, <1>f DEF Start, Resumed
  <2>2. pc'[w] # "starting"
    BY <1>7, <1>f DEF Start, Become
  <2>. QED
    BY <2>1, <2>2, <1>f, <1>ad, StartedProgress
<1>8. ASSUME NEW w \in Workers, ReportProgress(w) PROVE Goal
  <2> DEFINE v == Script[step[w] + 1]
  <2>1. /\ task[w] \in Jobs /\ pc[w] = "handler" /\ UNCHANGED dispatch
        /\ Write(task[w], Reported(job[task[w]], v))
    BY <1>8, <1>f DEF ReportProgress
  <2>2. v \in 1..(Top - 1)
    BY <1>8 DEF IInv, TypeOK, ReportProgress
  <2>3. pc'[w] # "starting"
    BY <1>8, <1>f DEF ReportProgress, Become
  <2> HIDE DEF v
  <2>. QED
    BY <2>1, <2>2, <2>3, <1>f, <1>ad, ReportedProgress
<1>9. ASSUME NEW w \in Workers, Complete(w) PROVE Goal
  <2> DEFINE s == Transitioned(job[task[w]], "SUCCEEDED", "NO_ERROR")
  <2>1. /\ task[w] \in Jobs /\ pc[w] = "completing" /\ UNCHANGED dispatch
        /\ Write(task[w], s)
    BY <1>9, <1>f DEF Complete
  <2>2. pc'[w] # "starting"
    BY <1>9, <1>f DEF Complete, Become
  <2>3. /\ StillAbsent(job[task[w]], s)
        /\ s.progress \in {job[task[w]].progress, Top}
        /\ job[task[w]].progress \in 0..Top
    BY <2>1, <1>f, TransitionedQuiet, RowNumbers
  <2>4. s.progress = job[task[w]].progress \/ s.progress >= job[task[w]].progress
    BY <2>3
  <2> HIDE DEF s
  <2>. QED
    BY <2>1, <2>2, <2>3, <2>4, <1>ad
<1>10. ASSUME NEW w \in Workers,
              RecordFailure(w) \/ RecordExhaustion(w)
       PROVE  Goal
  BY <1>10, <1>f, <1>qu, TransitionedQuiet DEF RecordFailure, RecordExhaustion
<1>11. ASSUME NEW w \in Workers, AcknowledgeCancellation(w) \/ MarkRetrying(w)
       PROVE  Goal
  BY <1>11, <1>f, <1>qu, QuietServices DEF AcknowledgeCancellation, MarkRetrying
<1>12. ASSUME NEW w \in Workers,
              \/ HandlerRaises(w) \/ HandlerReturns(w) \/ CheckRetryBudget(w)
              \/ Republish(w) \/ Acknowledge(w) \/ WorkerCrash(w)
              \/ TimeLimit(w) \/ Redeliver(w)
       PROVE  Goal
  BY <1>12, <1>un
  DEF HandlerRaises, HandlerReturns, CheckRetryBudget, Republish, Acknowledge,
      WorkerCrash, TimeLimit, Redeliver
<1>13. ASSUME UNCHANGED vars PROVE Goal
  BY <1>13, <1>un DEF vars
<1> HIDE DEF Goal
<1>. QED
  BY <1>1, <1>2, <1>3, <1>4, <1>5, <1>6, <1>7, <1>8, <1>9, <1>10, <1>11, <1>12, <1>13
  DEF Next, DispatchStep, WorkerStep, Receive

(* Messages. A step that adds neither a message nor a holder of one, and   *)
(* takes no dispatch back, keeps a job at one message.                     *)

Dispatched(j) == dispatch[j] \in {"failing", "done"}

Lessens(j) ==
  /\ queue'[j] <= queue[j]
  /\ \A w \in Workers : Holds(w, j)' => Holds(w, j)
  /\ Dispatched(j) => Dispatched(j)'

LEMMA LessensKeeps ==
  ASSUME TypeOK, queue' \in [Jobs -> Nat], NEW j \in Jobs, OneMessage(j), Lessens(j)
  PROVE  OneMessage(j)'
<1>1. queue[j] \in Nat /\ queue'[j] \in Nat
  BY DEF TypeOK
<1>2. queue'[j] <= 1 /\ (queue'[j] = 1 => queue[j] = 1)
  BY <1>1 DEF OneMessage, Lessens
<1>. QED
  BY <1>2 DEF OneMessage, Lessens, Dispatched

(* A worker that lets go of its message, or keeps it. *)
Yields(w) ==
  /\ Others(w)
  /\ \/ pc'[w] \in {"idle", "acking"}
     \/ pc[w] \notin {"idle", "acking"} /\ task'[w] = task[w]

LEMMA YieldsHolders ==
  ASSUME NEW w \in Workers, Yields(w)
  PROVE  \A j \in Jobs : \A v \in Workers : Holds(v, j)' => Holds(v, j)
  BY DEF Yields, Holds, Others

(* Failures are only ever counted up. *)
LEMMA UndisturbedBefore == IInv /\ [Next]_vars /\ Undisturbed' => Undisturbed
<1> SUFFICES ASSUME IInv, [Next]_vars, Undisturbed' PROVE Undisturbed
  OBVIOUS
<1>f. faults \in [FaultKind -> Nat]
  BY DEF IInv, TypeOK
<1>1. CASE faults' = faults
  BY <1>1 DEF Undisturbed
<1>2. CASE \E k \in FaultKind : Fault(k)
  BY <1>2, <1>f DEF Undisturbed, Fault, FaultKind
<1>3. faults' = faults \/ \E k \in FaultKind : Fault(k)
  BY DEF Next, CreateJob, DispatchStep, MarkQueued, Publish, PublishRaises,
         RecordDispatchFailure, Receive, Deliver, DiscardRevoked,
         RequestCancellation, WebCrash, WorkerStep, Start, ReportProgress,
         HandlerRaises, HandlerReturns, Complete, RecordFailure,
         AcknowledgeCancellation, CheckRetryBudget, RecordExhaustion,
         MarkRetrying, Republish, Acknowledge, WorkerCrash, TimeLimit,
         Redeliver, FaultKind, vars
<1>. QED
  BY <1>1, <1>2, <1>3

LEMMA MessagesStep ==
  IInv /\ MessageInv /\ [Next]_vars /\ Undisturbed' =>
    \A j \in Jobs : OneMessage(j)'
<1> DEFINE Goal == \A j \in Jobs : OneMessage(j)'
<1> SUFFICES ASSUME IInv, MessageInv, [Next]_vars, Undisturbed' PROVE Goal
  OBVIOUS
<1>f. /\ pc \in [Workers -> Labels] /\ queue \in [Jobs -> Nat]
      /\ task \in [Workers -> Jobs \union {NoJob}]
      /\ faults \in [FaultKind -> Nat]
      /\ \A w \in Workers : pc[w] # "idle" => task[w] \in Jobs
      /\ dispatch \in [Jobs -> {"none", "committed", "queued", "failing", "done"}]
      /\ TypeOK
  BY DEF IInv, TypeOK
<1>q. queue' \in [Jobs -> Nat]
  BY FrameStep DEF FrameOK
<1>d. ASSUME NEW k \in {"redelivery", "worker"}, Fault(k) PROVE FALSE
  BY <1>d, <1>f DEF Undisturbed, Fault, FaultKind
<1>u. Undisturbed
  BY UndisturbedBefore
<1>o. \A j \in Jobs : OneMessage(j)
  BY <1>u DEF MessageInv
<1>ls. ASSUME \A j \in Jobs : Lessens(j) PROVE Goal
  BY <1>ls, <1>o, <1>q, <1>f, LessensKeeps
<1>dp. ASSUME NEW i \in Jobs, NEW l, dispatch' = [dispatch EXCEPT ![i] = l],
              ~Dispatched(i) \/ l \in {"failing", "done"},
              UNCHANGED <<queue, pc, task>>
       PROVE  Goal
  <2>1. \A j \in Jobs : Lessens(j)
    BY <1>dp, <1>f DEF Lessens, Dispatched, Holds
  <2>. QED
    BY <2>1, <1>ls
<1>wk. ASSUME NEW w \in Workers, Yields(w), UNCHANGED <<queue, dispatch>>
       PROVE  Goal
  <2>1. \A j \in Jobs : Lessens(j)
    BY <1>wk, <1>f, YieldsHolders DEF Lessens, Dispatched
  <2>. QED
    BY <2>1, <1>ls
(* A message is added for a job that has none: i is dispatched by this     *)
(* step, or its holder publishes it again and lets go of it.               *)
<1>ad. ASSUME NEW i \in Jobs, NEW n \in 0..1, queue[i] = 0,
              queue' = [queue EXCEPT ![i] = @ + n],
              \A j \in Jobs : \A v \in Workers : Holds(v, j)' => Holds(v, j),
              \A v \in Workers : ~Holds(v, i)',
              \A j \in Jobs : Dispatched(j) => Dispatched(j)',
              Dispatched(i)'
       PROVE  Goal
  <2>1. OneMessage(i)'
    BY <1>ad, <1>f DEF OneMessage, Dispatched
  <2>2. \A j \in Jobs \ {i} : Lessens(j)
    BY <1>ad, <1>f DEF Lessens
  <2>. QED
    BY <2>1, <2>2, <1>o, <1>q, <1>f, LessensKeeps
<1>1. ASSUME NEW i \in Jobs, CreateJob(i) PROVE Goal
  <2>1. ~Dispatched(i)
    BY <1>1 DEF CreateJob, MessageInv, AbsentIsFresh, Dispatched
  <2>. QED
    BY <1>1, <2>1, <1>dp DEF CreateJob, brokerVars, workerVars
<1>2. ASSUME NEW i \in Jobs, MarkQueued(i) PROVE Goal
  <2>1. ~Dispatched(i)
    BY <1>2 DEF MarkQueued, Dispatched
  <2>. QED
    BY <1>2, <2>1, <1>dp DEF MarkQueued, brokerVars, workerVars
<1>3. ASSUME NEW i \in Jobs, RecordDispatchFailure(i) \/ WebCrash(i) PROVE Goal
  BY <1>3, <1>dp DEF RecordDispatchFailure, WebCrash, brokerVars, workerVars
<1>4. ASSUME NEW i \in Jobs, Publish(i) \/ PublishRaises(i) PROVE Goal
  <2>1. /\ \E n \in 0..1 : queue' = [queue EXCEPT ![i] = @ + n]
        /\ \E l \in {"failing", "done"} : dispatch' = [dispatch EXCEPT ![i] = l]
        /\ dispatch[i] = "queued" /\ UNCHANGED <<pc, task>>
    BY <1>4 DEF Publish, PublishRaises, workerVars
  <2>2. queue[i] = 0 /\ \A v \in Workers : ~Holds(v, i)
    BY <2>1, <1>o, <1>f DEF OneMessage
  <2>3. /\ \A j \in Jobs : Dispatched(j) => Dispatched(j)'
        /\ Dispatched(i)'
    BY <2>1, <1>f DEF Dispatched
  <2>4. \A j : \A v \in Workers : Holds(v, j)' <=> Holds(v, j)
    BY <2>1 DEF Holds
  <2>. QED
    BY <2>1, <2>2, <2>3, <2>4, <1>ad
<1>5. ASSUME NEW i \in Jobs, RequestCancellation(i) PROVE Goal
  <2>1. \A j \in Jobs : Lessens(j)
    BY <1>5, <1>f DEF RequestCancellation, Lessens, Dispatched, Holds,
                      brokerVars, workerVars
  <2>. QED
    BY <2>1, <1>ls
<1>6. ASSUME NEW i \in Jobs, NEW w \in Workers, Deliver(w, i) PROVE Goal
  <2>1. /\ queue' = [queue EXCEPT ![i] = @ - 1] /\ queue[i] > 0
        /\ UNCHANGED dispatch /\ pc[w] = "idle"
    BY <1>6 DEF Deliver
  <2>2. queue[i] = 1 /\ queue'[i] = 0
    BY <2>1, <1>o, <1>f DEF OneMessage
  <2>3. \A j \in Jobs \ {i} : queue'[j] = queue[j]
    BY <2>1, <1>f
  <2>4. CASE UNCHANGED <<pc, task>>
    <3>1. \A j \in Jobs : Lessens(j)
      BY <2>1, <2>2, <2>3, <2>4, <1>f DEF Lessens, Dispatched, Holds
    <3>. QED
      BY <3>1, <1>ls
  <2>5. CASE /\ task' = [task EXCEPT ![w] = i]
             /\ \E l : pc' = [pc EXCEPT ![w] = l]
    <3>1. /\ task'[w] = i
          /\ \A v \in Workers \ {w} : task'[v] = task[v] /\ pc'[v] = pc[v]
      BY <2>5, <1>f
    <3>2. \A j \in Jobs \ {i} : Lessens(j)
      BY <2>1, <2>3, <3>1, <1>f DEF Lessens, Dispatched, Holds
    <3>3. \A v \in Workers : Holds(v, i)' => v = w
      BY <2>2, <3>1, <1>o DEF OneMessage, Holds
    <3>4. Dispatched(i)'
      BY <2>1, <2>2, <1>o DEF OneMessage, Dispatched
    <3>5. OneMessage(i)'
      BY <2>2, <3>3, <3>4 DEF OneMessage, Dispatched
    <3>. QED
      BY <3>2, <3>5, <1>o, <1>q, <1>f, LessensKeeps
  <2>. QED
    BY <1>6, <2>4, <2>5 DEF Deliver, Become
<1>7. ASSUME NEW i \in Jobs, NEW w \in Workers, DiscardRevoked(w, i) PROVE Goal
  <2>1. queue' = [queue EXCEPT ![i] = @ - 1] /\ UNCHANGED <<dispatch, pc, task>>
    BY <1>7 DEF DiscardRevoked, workerVars
  <2>2. \A j \in Jobs : Lessens(j)
    BY <2>1, <1>f DEF Lessens, Dispatched, Holds
  <2>. QED
    BY <2>2, <1>ls
<1>8. ASSUME NEW w \in Workers,
             \/ Start(w) \/ ReportProgress(w) \/ HandlerRaises(w)
             \/ HandlerReturns(w) \/ Complete(w) \/ RecordFailure(w)
             \/ AcknowledgeCancellation(w) \/ CheckRetryBudget(w)
             \/ RecordExhaustion(w) \/ MarkRetrying(w)
      PROVE  Goal
  <2>1. /\ UNCHANGED <<queue, dispatch, task>>
        /\ pc[w] \notin {"idle", "acking"}
    BY <1>8 DEF Start, ReportProgress, HandlerRaises, HandlerReturns, Complete,
                RecordFailure, AcknowledgeCancellation, CheckRetryBudget,
                RecordExhaustion, MarkRetrying, brokerVars
  <2>2. UNCHANGED pc \/ \E l : pc' = [pc EXCEPT ![w] = l]
    BY <1>8 DEF Start, ReportProgress, HandlerRaises, HandlerReturns, Complete,
                RecordFailure, AcknowledgeCancellation, CheckRetryBudget,
                RecordExhaustion, MarkRetrying, Become
  <2>3. Yields(w)
    BY <2>1, <2>2, <1>f DEF Yields, Others
  <2>. QED
    BY <2>1, <2>3, <1>wk
<1>9. ASSUME NEW w \in Workers, Acknowledge(w) \/ TimeLimit(w) PROVE Goal
  <2>1. /\ UNCHANGED <<queue, dispatch>> /\ pc' = [pc EXCEPT ![w] = "idle"]
        /\ task' = [task EXCEPT ![w] = NoJob]
    BY <1>9 DEF Acknowledge, TimeLimit, Release, Become, brokerVars
  <2>2. Yields(w)
    BY <2>1, <1>f DEF Yields, Others
  <2>. QED
    BY <2>1, <2>2, <1>wk
<1>10. ASSUME NEW w \in Workers, Republish(w) PROVE Goal
  <2>0. PICK i \in Jobs : task[w] = i
    BY <1>10, <1>f DEF Republish
  <2>1. /\ pc[w] = "republishing" /\ pc' = [pc EXCEPT ![w] = "acking"]
        /\ UNCHANGED <<dispatch, task>>
        /\ \/ queue' = [queue EXCEPT ![i] = @ + 1]
           \/ queue' = queue
    BY <1>10, <2>0 DEF Republish, Become
  <2>2. Yields(w)
    BY <2>1, <1>f DEF Yields, Others
  <2>3. Holds(w, i)
    BY <2>0, <2>1 DEF Holds
  <2>4. queue[i] = 0 /\ Dispatched(i)
    BY <2>3, <1>o, <1>f DEF OneMessage, Dispatched
  <2>5. \A v \in Workers : ~Holds(v, i)'
    <3>1. \A v \in Workers \ {w} : ~Holds(v, i)
      BY <2>3, <1>o DEF OneMessage
    <3>2. ~Holds(w, i)'
      BY <2>1, <1>f DEF Holds
    <3>. QED
      BY <2>2, <3>1, <3>2, YieldsHolders
  <2>6. CASE queue' = [queue EXCEPT ![i] = @ + 1]
    <3>1. \A j \in Jobs : Dispatched(j) => Dispatched(j)'
      BY <2>1 DEF Dispatched
    <3>2. 1 \in 0..1
      OBVIOUS
    <3>. QED
      BY <2>2, <2>4, <2>5, <2>6, <3>1, <3>2, <1>ad, YieldsHolders
  <2>7. CASE queue' = queue
    BY <2>1, <2>2, <2>7, <1>wk
  <2>. QED
    BY <2>1, <2>6, <2>7
<1>11. ASSUME NEW w \in Workers, WorkerCrash(w) \/ Redeliver(w) PROVE Goal
  BY <1>11, <1>d DEF WorkerCrash, Redeliver
<1>12. ASSUME UNCHANGED vars PROVE Goal
  <2>1. \A j \in Jobs : Lessens(j)
    BY <1>12, <1>f DEF vars, Lessens, Dispatched, Holds
  <2>. QED
    BY <2>1, <1>ls
<1> HIDE DEF Goal
<1>. QED
  BY <1>1, <1>2, <1>3, <1>4, <1>5, <1>6, <1>7, <1>8, <1>9, <1>10, <1>11, <1>12
  DEF Next, DispatchStep, WorkerStep, Receive

(* A worker about to start a job has just read it, or has waited. *)
Read(w) ==
  /\ UNCHANGED job
  /\ \E j \in Jobs : task'[w] = j /\ seen'[w] = job[j].progress

Waits(w) == pc[w] = "starting" /\ task'[w] = task[w] /\ seen'[w] = seen[w]

LEMMA StartingStep ==
  IInv /\ [Next]_vars =>
    \A w \in Workers : pc'[w] = "starting" => Read(w) \/ Waits(w)
<1> DEFINE Goal == \A w \in Workers : pc'[w] = "starting" => Read(w) \/ Waits(w)
<1> SUFFICES ASSUME IInv, [Next]_vars PROVE Goal
  OBVIOUS
<1>f. /\ pc \in [Workers -> Labels]
      /\ task \in [Workers -> Jobs \union {NoJob}]
      /\ seen \in [Workers -> 0..(Top - 1)]
  BY DEF IInv, TypeOK
<1>un. ASSUME UNCHANGED <<pc, task, seen>> PROVE Goal
  BY <1>un DEF Waits
<1>mv. ASSUME NEW v \in Workers, NEW l, l # "starting",
              pc' = [pc EXCEPT ![v] = l],
              \A w \in Workers \ {v} : task'[w] = task[w] /\ seen'[w] = seen[w]
       PROVE  Goal
  BY <1>mv, <1>f DEF Waits
<1>1. ASSUME NEW j \in Jobs,
             \/ CreateJob(j) \/ DispatchStep(j)
             \/ RequestCancellation(j) \/ WebCrash(j)
      PROVE  Goal
  BY <1>1, <1>un
  DEF CreateJob, DispatchStep, RequestCancellation, WebCrash, MarkQueued,
      Publish, PublishRaises, RecordDispatchFailure, workerVars
<1>2. ASSUME NEW j \in Jobs, NEW v \in Workers, Deliver(v, j) PROVE Goal
  <2>1. CASE job[j].status \in {"QUEUED", "RETRYING"}
    <3>1. /\ \E l : pc' = [pc EXCEPT ![v] = l]
          /\ task' = [task EXCEPT ![v] = j]
          /\ seen' = [seen EXCEPT ![v] = job[j].progress]
          /\ UNCHANGED job
      BY <1>2, <2>1 DEF Deliver, Become
    <3>2. Read(v)
      BY <3>1, <1>f DEF Read
    <3>3. \A w \in Workers \ {v} : pc'[w] = "starting" => Waits(w)
      BY <3>1, <1>f DEF Waits
    <3>. QED
      BY <3>2, <3>3
  <2>2. CASE job[j].status \notin {"QUEUED", "RETRYING"}
    BY <1>2, <2>2, <1>un DEF Deliver
  <2>. QED
    BY <2>1, <2>2
<1>3. ASSUME NEW j \in Jobs, NEW v \in Workers, DiscardRevoked(v, j) PROVE Goal
  BY <1>3, <1>un DEF DiscardRevoked, workerVars
<1>4. ASSUME NEW v \in Workers, Start(v) PROVE Goal
  <2>1. /\ \E l : l # "starting" /\ pc' = [pc EXCEPT ![v] = l]
        /\ UNCHANGED task /\ seen' = [seen EXCEPT ![v] = 0]
    <3>1. \/ pc' = [pc EXCEPT ![v] = "handler"]
          \/ pc' = [pc EXCEPT ![v] = "acking"]
      BY <1>4 DEF Start, Become
    <3>2. UNCHANGED task /\ seen' = [seen EXCEPT ![v] = 0]
      BY <1>4 DEF Start
    <3>. QED
      BY <3>1, <3>2
  <2>2. \A w \in Workers \ {v} : task'[w] = task[w] /\ seen'[w] = seen[w]
    BY <2>1, <1>f
  <2>. QED
    BY <2>1, <2>2, <1>mv
<1>5. ASSUME NEW v \in Workers,
             \/ ReportProgress(v) \/ HandlerRaises(v) \/ HandlerReturns(v)
             \/ Complete(v) \/ RecordFailure(v) \/ AcknowledgeCancellation(v)
             \/ CheckRetryBudget(v) \/ RecordExhaustion(v) \/ MarkRetrying(v)
             \/ Republish(v)
      PROVE  Goal
  <2>1. UNCHANGED <<task, seen>>
    BY <1>5 DEF ReportProgress, HandlerRaises, HandlerReturns, Complete,
                RecordFailure, AcknowledgeCancellation, CheckRetryBudget,
                RecordExhaustion, MarkRetrying, Republish
  <2>2. UNCHANGED pc \/ \E l : l # "starting" /\ pc' = [pc EXCEPT ![v] = l]
    BY <1>5 DEF ReportProgress, HandlerRaises, HandlerReturns, Complete,
                RecordFailure, AcknowledgeCancellation, CheckRetryBudget,
                RecordExhaustion, MarkRetrying, Republish, Become
  <2>. QED
    BY <2>1, <2>2, <1>un, <1>mv
<1>6. ASSUME NEW v \in Workers, Acknowledge(v) \/ WorkerCrash(v) \/ TimeLimit(v)
      PROVE  Goal
  <2>1. /\ pc' = [pc EXCEPT ![v] = "idle"]
        /\ task' = [task EXCEPT ![v] = NoJob] /\ seen' = [seen EXCEPT ![v] = 0]
    BY <1>6 DEF Acknowledge, WorkerCrash, TimeLimit, Release, Become
  <2>. QED
    BY <2>1, <1>mv, <1>f
<1>7. ASSUME NEW v \in Workers, Redeliver(v) PROVE Goal
  BY <1>7, <1>un DEF Redeliver, workerVars
<1>8. ASSUME UNCHANGED vars PROVE Goal
  BY <1>8, <1>un DEF vars
<1> HIDE DEF Goal
<1>. QED
  BY <1>1, <1>2, <1>3, <1>4, <1>5, <1>6, <1>7, <1>8 DEF Next, WorkerStep, Receive

(* Whoever else advances the job would hold a second message of it. *)
LEMMA WaitingSeesNoAdvance ==
  ASSUME NEW j \in Jobs, OneMessage(j), NEW w \in Workers, pc[w] = "starting",
         pc'[w] = "starting", task[w] = j, RowMoves(j)
  PROVE  job'[j].progress = job[j].progress
<1>1. ASSUME NEW v \in Workers, Advances(v, j) PROVE FALSE
  <2>1. Holds(v, j) /\ Holds(w, j)
    BY <1>1 DEF Advances, Holds
  <2>2. v = w
    BY <2>1 DEF OneMessage
  <2>. QED
    BY <1>1, <2>2 DEF Advances
<1>. QED
  BY <1>1 DEF RowMoves

LEMMA MessageInvStep == IInv /\ MessageInv /\ [Next]_vars => MessageInv'
<1> SUFFICES ASSUME IInv, MessageInv, [Next]_vars PROVE MessageInv'
  OBVIOUS
<1>m. \A j \in Jobs : RowMoves(j)
  BY RowsMove DEF MessageInv
<1>1. AbsentIsFresh'
  <2>1. \A j \in Jobs : job'[j].status = "ABSENT" =>
                          job'[j].progress = 0 /\ dispatch'[j] = "none"
    BY <1>m DEF MessageInv, AbsentIsFresh, RowMoves
  <2>. QED
    BY <2>1 DEF AbsentIsFresh
<1>2. ASSUME Undisturbed' PROVE \A j \in Jobs : OneMessage(j)'
  BY <1>2, MessagesStep
<1>3. ASSUME Undisturbed' PROVE SeenIsCurrent'
  <2>1. Undisturbed
    BY <1>3, UndisturbedBefore
  <2>2. SUFFICES ASSUME NEW w \in Workers, pc'[w] = "starting"
                 PROVE  seen'[w] = job'[task'[w]].progress
    BY DEF SeenIsCurrent
  <2>3. CASE Read(w)
    BY <2>3 DEF Read
  <2>4. CASE Waits(w)
    <3>1. PICK j \in Jobs : task[w] = j
      BY <2>4 DEF Waits, IInv, TypeOK
    <3>2. job'[j].progress = job[j].progress
      BY <1>m, <2>1, <2>2, <2>4, <3>1, WaitingSeesNoAdvance DEF Waits, MessageInv
    <3>3. seen[w] = job[j].progress
      BY <2>1, <2>4, <3>1 DEF Waits, MessageInv, SeenIsCurrent
    <3>. QED
      BY <2>4, <3>1, <3>2, <3>3 DEF Waits
  <2>. QED
    BY <2>2, <2>3, <2>4, StartingStep
<1>. QED
  BY <1>1, <1>2, <1>3 DEF MessageInv

LEMMA MessageInvInit == Init => MessageInv
<1> SUFFICES ASSUME Init PROVE MessageInv
  OBVIOUS
<1>1. AbsentIsFresh
  BY DEF Init, NoRow, AbsentIsFresh
<1>2. \A j \in Jobs : OneMessage(j)
  <2> TAKE j \in Jobs
  <2>1. queue[j] = 0 /\ \A w \in Workers : pc[w] = "idle"
    BY DEF Init
  <2>2. \A w \in Workers : ~Holds(w, j)
    BY <2>1 DEF Holds
  <2>3. queue[j] <= 1 /\ queue[j] # 1
    BY <2>1
  <2>. QED
    BY <2>2, <2>3, Zenon DEF OneMessage
<1>3. SeenIsCurrent
  BY DEF Init, SeenIsCurrent
<1>. QED
  BY <1>1, <1>2, <1>3 DEF MessageInv

(* MessageInv holds in every reachable state: while no message is doubled, *)
(* each job has at most one, and what its holder read is still true.       *)
THEOREM MessagesInvariant == Spec => []MessageInv
<1>. QED
  BY MessageInvInit, MessageInvStep, Invariance, PTL DEF Spec

LEMMA ProgressStep ==
  IInv /\ MessageInv /\ [Next]_vars /\ Undisturbed =>
    \A j \in Jobs : job'[j].progress >= job[j].progress
<1> SUFFICES ASSUME IInv, MessageInv, [Next]_vars, Undisturbed, NEW j \in Jobs
             PROVE  job'[j].progress >= job[j].progress
  OBVIOUS
<1>1. RowMoves(j)
  BY RowsMove DEF MessageInv
<1>2. job[j].progress \in 0..Top
  BY RowNumbers DEF IInv, TypeOK
<1>3. CASE job'[j].progress = job[j].progress
  BY <1>2, <1>3
<1>4. ASSUME NEW w \in Workers, Advances(w, j)
      PROVE  job'[j].progress >= job[j].progress
  <2>1. CASE pc[w] = "starting" /\ job'[j].progress = Resumed(w)
    <3>1. seen[w] = job[j].progress
      BY <1>4, <2>1 DEF Advances, MessageInv, SeenIsCurrent
    <3>. QED
      BY <1>2, <2>1, <3>1 DEF Resumed
  <2>. QED
    BY <1>4, <2>1 DEF Advances
<1>. QED
  BY <1>1, <1>3, <1>4 DEF RowMoves

(* Progress never goes back, over all attempts of a job, as long as no     *)
(* message of any job has been doubled: what execute_job read before it    *)
(* locked the row cannot have grown old.                                   *)
THEOREM ProgressNeverFalls == Spec => ProgressMonotonic
<1>1. IInv /\ MessageInv /\ [Next]_vars =>
        [faults["redelivery"] = 0 /\ faults["worker"] = 0 =>
           \A j \in Jobs : job'[j].progress >= job[j].progress]_vars
  BY ProgressStep DEF Undisturbed
<1>. QED
  BY <1>1, Invariance, MessagesInvariant, PTL DEF Spec, ProgressMonotonic

=============================================================================
