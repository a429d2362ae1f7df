---------------------------- MODULE JobContract ----------------------------
(***************************************************************************)
(* What the job ledger promises to everyone who reads a Job row, without   *)
(* broker, messages or workers: a job has at most one owner executing it,  *)
(* only its owner ends it once it runs (or the dispatcher, for a message   *)
(* it believes lost), and an owner that disappears is never replaced.      *)
(***************************************************************************)

CONSTANT Jobs

VARIABLES
  status,  \* Job.status, or "ABSENT"
  cancel,  \* a cancellation has been requested
  owned    \* somebody is executing the job

vars == <<status, cancel, owned>>

Terminal == {"SUCCEEDED", "FAILED", "CANCELLED"}
Waiting  == {"PENDING", "QUEUED", "RETRYING"}
Status   == Terminal \union Waiting \union {"RUNNING", "ABSENT"}

Init ==
  /\ status = [j \in Jobs |-> "ABSENT"]
  /\ cancel = [j \in Jobs |-> FALSE]
  /\ owned  = [j \in Jobs |-> FALSE]

Move(j, sources, target) ==
  /\ status[j] \in sources
  /\ status' = [status EXCEPT ![j] = target]

Submit(j) == Move(j, {"ABSENT"}, "PENDING") /\ UNCHANGED <<cancel, owned>>

Enqueue(j) == Move(j, {"PENDING"}, "QUEUED") /\ UNCHANGED <<cancel, owned>>

Begin(j) ==
  /\ ~owned[j] /\ ~cancel[j]
  /\ Move(j, {"QUEUED", "RETRYING"}, "RUNNING")
  /\ owned' = [owned EXCEPT ![j] = TRUE]
  /\ UNCHANGED cancel

Settle(j) ==
  /\ owned[j]
  /\ \E target \in Terminal :
       /\ target = "CANCELLED" => cancel[j]
       /\ Move(j, {"RUNNING"}, target)
  /\ owned' = [owned EXCEPT ![j] = FALSE]
  /\ UNCHANGED cancel

Retry(j) ==
  /\ owned[j] /\ ~cancel[j]
  /\ Move(j, {"RUNNING"}, "RETRYING")
  /\ owned' = [owned EXCEPT ![j] = FALSE]
  /\ UNCHANGED cancel

(* The owner dies, or finds that it can no longer record an outcome. *)
Abandon(j) ==
  /\ owned[j]
  /\ owned' = [owned EXCEPT ![j] = FALSE]
  /\ UNCHANGED <<status, cancel>>

Undeliverable(j) ==
  /\ Move(j, {"QUEUED", "RUNNING", "RETRYING"}, "FAILED")
  /\ UNCHANGED <<cancel, owned>>

Cancel(j) ==
  /\ \/ Move(j, Waiting, "CANCELLED")
     \/ status[j] = "RUNNING" /\ UNCHANGED status
  /\ cancel' = [cancel EXCEPT ![j] = TRUE]
  /\ UNCHANGED owned

Next ==
  \E j \in Jobs :
    \/ Submit(j) \/ Enqueue(j) \/ Begin(j) \/ Settle(j) \/ Retry(j)
    \/ Abandon(j) \/ Undeliverable(j) \/ Cancel(j)

Spec == Init /\ [][Next]_vars
=============================================================================
