--------------------------- MODULE VectorImport ---------------------------
(***************************************************************************)
(* The versions of one vector dataset (modules/datasets/services.py), the  *)
(* vector-import handler (modules/datasets/handlers.py and importer.py)    *)
(* with the PostGIS tables it builds, and the command that reconciles the  *)
(* two (modules/datasets/reconciliation.py). Jobs are what JobContract     *)
(* says of them.                                                           *)
(*                                                                         *)
(* One action is one transaction, one unlocked read or one statement on a  *)
(* table. A check of the job that is followed by one of these is part of   *)
(* it: nothing but the job itself tells the two orders apart.              *)
(***************************************************************************)
EXTENDS Naturals

CONSTANTS
  MaxVersions,       \* versions the dataset may come to have
  MaxLayers,         \* vector layers of a version
  Jobs,              \* vector-import jobs that may come to exist
  SharedImports,     \* users may touch a version whose import is under way
  ReconcileAnytime   \* the reconciler may run while imports do

ASSUME ImportAssumption ==
  /\ MaxVersions \in Nat /\ MaxLayers \in Nat \ {0}
  /\ SharedImports \in BOOLEAN /\ ReconcileAnytime \in BOOLEAN

Versions  == 1..MaxVersions   \* DatasetVersion.version_number
NoVersion == 0
Layers    == 1..MaxLayers     \* VectorLayer.ordinal

VARIABLES
  dataset,    \* the Dataset row and the status of its Resource
  version,    \* DatasetVersion.status
  layer,      \* the VectorLayer rows of a version
  revoked,    \* the current version's own import withdraws it, or did
  tables,     \* the managed tables that exist
  jobStatus, cancel, owned,  \* the Job rows, as in JobContract
  target,     \* the version a job imports
  pc,         \* where run_vector_import stands in a job
  at,         \* the layer its loop has come to
  known,      \* layers with storage metadata in the worker's memory
  leaks,      \* versions whose worker died, or whose tables did not drop
  reconciler, \* where the reconciliation command stands
  inventory,  \* the tables it listed
  found,      \* the tables it means to drop
  stale       \* the versions it means to fail

rowVars     == <<dataset, version, layer, revoked>>
storeVars   == <<tables, leaks>>
jobVars     == <<jobStatus, cancel, owned, target>>
handlerVars == <<pc, at, known>>
recVars     == <<reconciler, inventory, found, stale>>
vars == <<rowVars, storeVars, jobVars, handlerVars, recVars>>

Job == INSTANCE JobContract WITH status <- jobStatus

-----------------------------------------------------------------------------
(* The rows and tables. *)

VersionStatus == {"ABSENT", "REGISTERED", "IMPORTING", "READY", "FAILED"}

DatasetRow == [status : VersionStatus,
               lifecycle : {"DRAFT", "PROCESSING", "READY", "FAILED"},
               current : Versions \union {NoVersion}]

(* published: db_schema, db_table and tile_source_id are set. *)
LayerRow == [status : VersionStatus \ {"ABSENT"}, published : BOOLEAN]

Blank(status) == [i \in Layers |-> [status |-> status, published |-> FALSE]]

Staging(v, i) == <<"stg", v, i>>
Final(v, i)   == <<"v", v, i>>
Tables        == {"stg", "v"} \X Versions \X Layers
TablesOf(v)   == {"stg", "v"} \X {v} \X Layers

Terminal == {"SUCCEEDED", "FAILED", "CANCELLED"}
Active   == {"PENDING", "QUEUED", "RUNNING", "RETRYING"}

Of(v) == {j \in Jobs : target[j] = v}

Handling(j) == pc[j] \notin {"none", "done", "refused", "dead", "torn"}
Busy(j)     == Handling(j) \/ jobStatus[j] \in {"PENDING", "QUEUED"}
Idle(v)     == \A j \in Of(v) : ~Busy(j)

(* Mutant: a failing replacement takes the dataset offline.                *)
MarkAlways(status, lifecycle) ==
  dataset' = [dataset EXCEPT !.status = status, !.lifecycle = lifecycle]

(* What a step of an import does to the dataset: nothing once there is a   *)
(* current version.                                                        *)
Mark(status, lifecycle) ==
  dataset' = IF dataset.current = NoVersion
               THEN [dataset EXCEPT !.status = status,
                                    !.lifecycle = lifecycle]
               ELSE dataset

Init ==
  /\ dataset = [status |-> "ABSENT", lifecycle |-> "DRAFT",
                current |-> NoVersion]
  /\ version = [v \in Versions |-> "ABSENT"]
  /\ layer   = [v \in Versions |-> Blank("REGISTERED")]
  /\ revoked = FALSE
  /\ tables  = {}
  /\ Job!Init
  /\ target  = [j \in Jobs |-> NoVersion]
  /\ pc      = [j \in Jobs |-> "none"]
  /\ at      = [j \in Jobs |-> 1]
  /\ known   = [j \in Jobs |-> {}]
  /\ leaks   = {}
  /\ reconciler = "idle"
  /\ inventory = {}
  /\ found   = {}
  /\ stale   = {}

-----------------------------------------------------------------------------
(* The services a user calls. *)

(* Mutant: the job does not name its version. *)
CreateJobUntargeted(j, v) == Job!Submit(j) /\ UNCHANGED target

(* create_and_dispatch_job inside the caller's transaction. *)
CreateJob(j, v) ==
  /\ Job!Submit(j)
  /\ target' = [target EXCEPT ![j] = v]

(* A new version, queued for import or not. *)
NewVersion(v) ==
  \/ /\ version' = [version EXCEPT ![v] = "REGISTERED"]
     /\ dataset' = [dataset EXCEPT
                      !.status = IF @ = "ABSENT" THEN "REGISTERED" ELSE @]
     /\ UNCHANGED jobVars
  \/ /\ version' = [version EXCEPT ![v] = "IMPORTING"]
     /\ Mark("IMPORTING", "PROCESSING")
     /\ \E j \in Jobs : CreateJob(j, v)

(* register_dataset_from_inspection *)
Register ==
  /\ dataset.status = "ABSENT" /\ 1 \in Versions
  /\ NewVersion(1)
  /\ UNCHANGED <<layer, revoked, storeVars, handlerVars, recVars>>

Pending(v) ==
  version[v] \in {"REGISTERED", "IMPORTING"} /\ v # dataset.current

(* register_dataset_replacement_from_inspection *)
RegisterReplacement(v) ==
  /\ v > 1 /\ version[v] = "ABSENT" /\ version[v - 1] # "ABSENT"
  /\ \A w \in Versions : ~Pending(w)
  /\ NewVersion(v)
  /\ UNCHANGED <<layer, revoked, storeVars, handlerVars, recVars>>

(* A user posts a vector-import job for a version that exists. *)
RunImport(v) ==
  /\ version[v] # "ABSENT"
  /\ SharedImports \/ Idle(v)
  /\ ReconcileAnytime \/ reconciler = "idle"
  /\ \E j \in Jobs : CreateJob(j, v)
  /\ UNCHANGED <<rowVars, storeVars, handlerVars, recVars>>

(* Mutant: an incomplete version may be activated. *)
ActivateUnready(v) ==
  /\ version[v] # "ABSENT"
  /\ dataset' = [status |-> "READY", lifecycle |-> "READY", current |-> v]
  /\ revoked' = FALSE
  /\ UNCHANGED <<version, layer>>

(* activate_ready_dataset_version; finding the version current already     *)
(* leaves it so.                                                           *)
ActivateReady(v) ==
  /\ version[v] = "READY"
  /\ \A i \in Layers : layer[v][i].status = "READY" /\ layer[v][i].published
  /\ dataset' = [status |-> "READY", lifecycle |-> "READY", current |-> v]
  /\ revoked' = FALSE
  /\ UNCHANGED <<version, layer>>

(* A user publishes a ready version, or rolls back to one. *)
ActivateVersion(v) ==
  /\ SharedImports \/ Idle(v)
  /\ ActivateReady(v)
  /\ UNCHANGED <<storeVars, jobVars, handlerVars, recVars>>

-----------------------------------------------------------------------------
(* Jobs outside the handler. *)

Enqueue(j) ==
  /\ Job!Enqueue(j)
  /\ UNCHANGED <<target, rowVars, storeVars, handlerVars, recVars>>

Cancel(j) ==
  /\ Job!Cancel(j)
  /\ UNCHANGED <<target, rowVars, storeVars, handlerVars, recVars>>

(* The dispatcher takes the message for lost. *)
Undeliverable(j) ==
  /\ Job!Undeliverable(j)
  /\ UNCHANGED <<target, rowVars, storeVars, handlerVars, recVars>>

-----------------------------------------------------------------------------
(* run_vector_import *)

Go(j, label) == pc' = [pc EXCEPT ![j] = label] /\ UNCHANGED <<at, known>>

(* A loop over the layers begins. *)
Loop(j, label) ==
  /\ pc' = [pc EXCEPT ![j] = label]
  /\ at' = [at EXCEPT ![j] = 1]
  /\ UNCHANGED known

(* report_progress returns. *)
Reports(j) == jobStatus[j] = "RUNNING" /\ ~cancel[j]

BeginImport(j) ==
  /\ pc[j] = "none"
  /\ Job!Begin(j)
  /\ Go(j, "resolving")
  /\ UNCHANGED <<target, rowVars, storeVars, recVars>>

(* Mutant: a ready version is imported like any other. *)
ResolveVersionAgain(j) ==
  /\ pc[j] = "resolving"
  /\ Go(j, "loading")
  /\ UNCHANGED <<rowVars, storeVars, jobVars, recVars>>

(* _resolve_import_version, and the recovery path of a ready version. *)
ResolveVersion(j) ==
  /\ pc[j] = "resolving"
  /\ Go(j, IF version[target[j]] = "READY" THEN "reactivating" ELSE "loading")
  /\ UNCHANGED <<rowVars, storeVars, jobVars, recVars>>

Reactivate(j) ==
  /\ pc[j] = "reactivating"
  /\ ActivateReady(target[j])
  /\ Go(j, "returning")
  /\ UNCHANGED <<storeVars, jobVars, recVars>>

LoadLayers(j) ==
  /\ pc[j] = "loading"
  /\ known' = [known EXCEPT ![j] =
                 {i \in Layers : layer[target[j]][i].published}]
  /\ pc' = [pc EXCEPT ![j] = "clearing"]
  /\ at' = [at EXCEPT ![j] = 1]
  /\ UNCHANGED <<rowVars, storeVars, jobVars, recVars>>

(* drop_vector_layer_storage: the final table only if its name is known.   *)
Storage(j, i) ==
  {Staging(target[j], i)}
    \union (IF i \in known[j] THEN {Final(target[j], i)} ELSE {})

Advance(j) ==
  /\ at' = [at EXCEPT ![j] = @ + 1]
  /\ UNCHANGED <<pc, known>>

ClearStorage(j) ==
  /\ pc[j] = "clearing" /\ at[j] \in Layers
  /\ tables' = tables \ Storage(j, at[j])
  /\ Advance(j)
  /\ UNCHANGED <<leaks, rowVars, jobVars, recVars>>

(* The transaction of _prepare_import. *)
PrepareImport(j) ==
  /\ pc[j] = "clearing" /\ at[j] \notin Layers
  /\ version' = [version EXCEPT ![target[j]] = "IMPORTING"]
  /\ layer' = [layer EXCEPT ![target[j]] = Blank("REGISTERED")]
  /\ Mark("IMPORTING", "PROCESSING")
  /\ Loop(j, "prepared")
  /\ UNCHANGED <<revoked, storeVars, jobVars, recVars>>

(* Two reports, and the upload brought to the worker in between. *)
Materialize(j) ==
  /\ pc[j] = "prepared" /\ Reports(j)
  /\ Go(j, "layer")
  /\ UNCHANGED <<rowVars, storeVars, jobVars, recVars>>

MarkLayerImporting(j) ==
  /\ pc[j] = "layer" /\ at[j] \in Layers /\ ~cancel[j]
  /\ layer' = [layer EXCEPT ![target[j]][at[j]].status = "IMPORTING"]
  /\ Go(j, "staging")
  /\ UNCHANGED <<dataset, version, revoked, storeVars, jobVars, recVars>>

(* import_vector_layer: both tables are dropped and ogr2ogr fills a new    *)
(* staging table.                                                          *)
LoadStaging(j) ==
  LET v == target[j]  i == at[j]
  IN  /\ pc[j] = "staging" /\ Reports(j)
      /\ tables' = (tables \ {Final(v, i)}) \union {Staging(v, i)}
      /\ Go(j, "promoting")
      /\ UNCHANGED <<leaks, rowVars, jobVars, recVars>>

(* _promote_staging_table: renaming fails without a source or onto a       *)
(* table that exists.                                                      *)
Promote(j) ==
  LET v == target[j]  i == at[j]
  IN  /\ pc[j] = "promoting"
      /\ Staging(v, i) \in tables /\ Final(v, i) \notin tables
      /\ tables' = (tables \ {Staging(v, i)}) \union {Final(v, i)}
      /\ Go(j, "publishing")
      /\ UNCHANGED <<leaks, rowVars, jobVars, recVars>>

MarkLayerReady(j) ==
  LET v == target[j]  i == at[j]
  IN  /\ pc[j] = "publishing"
      /\ layer' = [layer EXCEPT ![v][i] =
                     [status |-> "READY", published |-> TRUE]]
      /\ known' = [known EXCEPT ![j] = @ \union {i}]
      /\ pc' = [pc EXCEPT ![j] = "layer"]
      /\ at' = [at EXCEPT ![j] = @ + 1]
      /\ UNCHANGED <<dataset, version, revoked, storeVars, jobVars, recVars>>

(* The transaction of _mark_import_ready. *)
MarkImportReady(j) ==
  /\ pc[j] = "layer" /\ at[j] \notin Layers /\ Reports(j)
  /\ \A i \in Layers : layer[target[j]][i].status = "READY"
  /\ version' = [version EXCEPT ![target[j]] = "READY"]
  /\ revoked' = (revoked /\ target[j] # dataset.current)
  /\ Go(j, "activating")
  /\ UNCHANGED <<dataset, layer, storeVars, jobVars, recVars>>

(* The handler is still inside the try block, and has the upload in a      *)
(* directory of its own.                                                   *)
ActivateImported(j) ==
  /\ pc[j] = "activating"
  /\ ActivateReady(target[j])
  /\ Go(j, "leaving")
  /\ UNCHANGED <<storeVars, jobVars, recVars>>

-----------------------------------------------------------------------------
(* What interrupts the handler. *)

(* JobCancellationRequested, from report_progress or ensure_not_cancelled. *)
NoticeCancellation(j) ==
  /\ cancel[j]
  /\ \/ pc[j] = "layer" /\ at[j] \in Layers
     \/ pc[j] \in {"prepared", "layer", "staging"} /\ jobStatus[j] = "RUNNING"
  /\ Loop(j, "cancelling")
  /\ UNCHANGED <<rowVars, storeVars, jobVars, recVars>>

(* Any other exception inside the try block: the source, ogr2ogr, the      *)
(* database, a report of a job that runs no more, a layer that is not      *)
(* ready, the soft time limit, a directory that cannot be removed. Inside  *)
(* import_vector_layer the tables of the layer are dropped on the way; a   *)
(* final table whose row could not be saved is known to the worker. It     *)
(* does not matter that the version has been activated: it is withdrawn.   *)
RaiseInImport(j) ==
  LET v == target[j]  i == at[j]
  IN  /\ \/ /\ pc[j] \in {"clearing", "prepared", "layer", "activating",
                        "leaving"}
            /\ UNCHANGED <<storeVars, known>>
         \/ /\ pc[j] \in {"staging", "promoting", "publishing"}
            /\ \/ /\ tables' = tables \ {Staging(v, i), Final(v, i)}
                  /\ UNCHANGED leaks
               \/ leaks' = leaks \union {v} /\ UNCHANGED tables
            /\ UNCHANGED known
         \/ /\ pc[j] = "publishing"
            /\ known' = [known EXCEPT ![j] = @ \union {i}]
            /\ UNCHANGED storeVars
      /\ pc' = [pc EXCEPT ![j] = "failing"]
      /\ at' = [at EXCEPT ![j] = 1]
      /\ revoked' = (revoked \/ v = dataset.current)
      /\ UNCHANGED <<dataset, version, layer, jobVars, recVars>>

(* An exception before or after the try block: nobody settles the version. *)
(* Leaving the block is no step: it changes nothing that others see.       *)
RaiseOutside(j) ==
  /\ \/ /\ pc[j] \in {"resolving", "loading", "reactivating"}
        /\ Go(j, "refusing")
     \/ pc[j] \in {"leaving", "returning"} /\ Go(j, "raised")
  /\ UNCHANGED <<rowVars, storeVars, jobVars, recVars>>

(* Mutant: only the staging table of a failed layer is dropped. *)
CleanUpStaging(j) ==
  /\ pc[j] \in {"failing", "cancelling"} /\ at[j] \in Layers
  /\ \/ /\ tables' = tables \ {Staging(target[j], at[j])}
        /\ UNCHANGED leaks
     \/ /\ tables \intersect Storage(j, at[j]) # {}
        /\ leaks' = leaks \union {target[j]}
        /\ UNCHANGED tables
  /\ Advance(j)
  /\ UNCHANGED <<rowVars, jobVars, recVars>>

(* The storage is dropped again; an error is suppressed. *)
CleanUp(j) ==
  /\ pc[j] \in {"failing", "cancelling"} /\ at[j] \in Layers
  /\ \/ /\ tables' = tables \ Storage(j, at[j])
        /\ UNCHANGED leaks
     \/ /\ tables \intersect Storage(j, at[j]) # {}
        /\ leaks' = leaks \union {target[j]}
        /\ UNCHANGED tables
  /\ Advance(j)
  /\ UNCHANGED <<rowVars, jobVars, recVars>>

(* Mutant: the version keeps its status. *)
WithdrawLayers(j, status) ==
  /\ at[j] \notin Layers
  /\ layer' = [layer EXCEPT ![target[j]] = Blank(status)]
  /\ UNCHANGED <<version, revoked, storeVars, jobVars, recVars>>

Withdraw(j, status) ==
  /\ at[j] \notin Layers
  /\ version' = [version EXCEPT ![target[j]] = status]
  /\ layer' = [layer EXCEPT ![target[j]] = Blank(status)]
  /\ UNCHANGED <<revoked, storeVars, jobVars, recVars>>

(* _mark_import_failed and _mark_import_cancelled look at no status. *)
MarkImportFailed(j) ==
  /\ pc[j] = "failing"
  /\ Withdraw(j, "FAILED")
  /\ Mark("FAILED", "FAILED")
  /\ Go(j, "raised")

MarkImportCancelled(j) ==
  /\ pc[j] = "cancelling"
  /\ Withdraw(j, "REGISTERED")
  /\ Mark("REGISTERED", "DRAFT")
  /\ Go(j, "acknowledging")

(* The rest of execute_job. *)
HandlerReturns(j) ==
  /\ pc[j] \in {"leaving", "returning"}
  /\ Go(j, IF cancel[j] THEN "acknowledging" ELSE "completing")
  /\ UNCHANGED <<rowVars, storeVars, jobVars, recVars>>

Outcome ==
  [label \in {"completing", "raised", "refusing", "acknowledging"} |->
     CASE label = "completing"             -> "SUCCEEDED"
       [] label \in {"raised", "refusing"} -> "FAILED"
       [] label = "acknowledging"          -> "CANCELLED"]

(* The outcome is recorded, unless the row has been ended already. *)
End(j, outcome, label) ==
  /\ IF jobStatus[j] = "RUNNING"
       THEN Job!Settle(j) /\ jobStatus'[j] = outcome
       ELSE Job!Abandon(j)
  /\ pc' = [pc EXCEPT ![j] = label]
  /\ at' = [at EXCEPT ![j] = 1]
  /\ known' = [known EXCEPT ![j] = {}]
  /\ UNCHANGED <<target, rowVars, storeVars, recVars>>

Finish(j) ==
  /\ pc[j] \in DOMAIN Outcome
  /\ End(j, Outcome[pc[j]], IF pc[j] = "refusing" THEN "refused" ELSE "done")

(* The transaction that settles the version fails: the tables are gone,    *)
(* the version is what it was, and the job has failed.                     *)
FailToSettle(j) ==
  /\ pc[j] \in {"failing", "cancelling"} /\ at[j] \notin Layers
  /\ End(j, "FAILED", IF pc[j] = "failing" THEN "torn" ELSE "refused")

(* The worker dies or meets the hard time limit. *)
Die(j) ==
  /\ Handling(j)
  /\ Job!Abandon(j)
  /\ pc' = [pc EXCEPT ![j] = IF @ = "failing" THEN "torn" ELSE "dead"]
  /\ at' = [at EXCEPT ![j] = 1]
  /\ known' = [known EXCEPT ![j] = {}]
  /\ leaks' = leaks \union {target[j]}
  /\ UNCHANGED <<target, rowVars, tables, recVars>>

-----------------------------------------------------------------------------
(* reconcile_vector_imports, applying both clean-ups. Its reads are not    *)
(* locked and nothing is read again before a table is dropped. A layer is  *)
(* stale when nobody has imported it for an hour, the time limit of a job. *)

NoActiveJob(v) == \A j \in Of(v) : jobStatus[j] \notin Active

ListTables ==
  /\ reconciler = "idle"
  /\ ReconcileAnytime \/ \A j \in Jobs : ~Busy(j)
  /\ reconciler' = "layers"
  /\ inventory' = tables
  /\ UNCHANGED <<found, stale, rowVars, storeVars, jobVars, handlerVars>>

Fresh(v, i) ==
  \E j \in Of(v) : at[j] = i /\ pc[j] \in {"staging", "promoting", "publishing"}

(* Mutant: ready layers are not protected. *)
ReadLayersUnprotected ==
  /\ reconciler = "layers"
  /\ reconciler' = "jobs"
  /\ found' \in SUBSET inventory
  /\ UNCHANGED <<inventory, stale, rowVars, storeVars, jobVars, handlerVars>>

ReadLayers ==
  /\ reconciler = "layers"
  /\ reconciler' = "jobs"
  /\ \E orphans \in SUBSET {t \in inventory : ~Fresh(t[2], t[3])} :
       /\ \A t \in orphans :
            t[1] = "stg" \/ layer[t[2]][t[3]].status # "READY"
       /\ found' = orphans
  /\ UNCHANGED <<inventory, stale, rowVars, storeVars, jobVars, handlerVars>>

CompleteInInventory(v) ==
  \A i \in Layers : layer[v][i].status = "READY" /\ Final(v, i) \in inventory

ReadJobs ==
  /\ reconciler = "jobs"
  /\ reconciler' = "dropping"
  /\ found' = {t \in found : NoActiveJob(t[2])}
  /\ \E versions \in SUBSET {v \in Versions :
                              version[v] = "IMPORTING" /\ NoActiveJob(v)} :
       /\ \A v \in versions : ~CompleteInInventory(v)
       /\ stale' = versions
  /\ inventory' = {}
  /\ UNCHANGED <<rowVars, storeVars, jobVars, handlerVars>>

DropReportedTable ==
  /\ reconciler = "dropping"
  /\ \E t \in found : tables' = tables \ {t} /\ found' = found \ {t}
  /\ UNCHANGED <<reconciler, inventory, stale, leaks, rowVars, jobVars,
                 handlerVars>>

(* _fail_version rechecks the version under its lock. *)
FailVersion(v) ==
  /\ reconciler = "dropping" /\ found = {} /\ v \in stale
  /\ version[v] = "IMPORTING" /\ NoActiveJob(v)
  /\ tables' = tables \ TablesOf(v)
  /\ version' = [version EXCEPT ![v] = "FAILED"]
  /\ layer' = [layer EXCEPT ![v] = Blank("FAILED")]
  /\ dataset' = IF dataset.current \in {NoVersion, v}
                  THEN [status |-> "FAILED", lifecycle |-> "FAILED",
                        current |-> NoVersion]
                  ELSE dataset
  /\ revoked' = (revoked /\ v # dataset.current)
  /\ stale' = stale \ {v}
  /\ UNCHANGED <<reconciler, inventory, found, leaks, jobVars, handlerVars>>

(* The command is done, finds a version no longer safe, or dies. *)
StopReconciliation ==
  /\ reconciler # "idle"
  /\ reconciler' = "idle"
  /\ inventory' = {} /\ found' = {} /\ stale' = {}
  /\ UNCHANGED <<rowVars, storeVars, jobVars, handlerVars>>

-----------------------------------------------------------------------------
HandlerStep(j) ==
  \/ ResolveVersion(j) \/ Reactivate(j) \/ LoadLayers(j) \/ ClearStorage(j)
  \/ PrepareImport(j) \/ Materialize(j) \/ MarkLayerImporting(j)
  \/ LoadStaging(j) \/ Promote(j) \/ MarkLayerReady(j) \/ MarkImportReady(j)
  \/ ActivateImported(j) \/ NoticeCancellation(j) \/ RaiseInImport(j)
  \/ RaiseOutside(j) \/ CleanUp(j) \/ MarkImportFailed(j)
  \/ MarkImportCancelled(j) \/ FailToSettle(j) \/ HandlerReturns(j)
  \/ Finish(j)

ReconcilerStep ==
  \/ ListTables \/ ReadLayers \/ ReadJobs \/ DropReportedTable
  \/ StopReconciliation \/ \E v \in Versions : FailVersion(v)

Next ==
  \/ Register
  \/ \E v \in Versions : \/ RegisterReplacement(v) \/ RunImport(v)
                         \/ ActivateVersion(v)
  \/ \E j \in Jobs : \/ Enqueue(j) \/ Cancel(j) \/ Undeliverable(j)
                     \/ BeginImport(j) \/ HandlerStep(j) \/ Die(j)
  \/ ReconcilerStep

Spec == Init /\ [][Next]_vars

-----------------------------------------------------------------------------
(* Properties.                                                             *)

Labels == {"none", "resolving", "reactivating", "loading", "clearing",
           "prepared", "layer", "staging", "promoting", "publishing",
           "activating", "leaving", "failing", "cancelling", "raised",
           "acknowledging", "returning", "refusing", "completing", "done",
           "refused", "dead", "torn"}

(* Every variable has its type; a job that has been submitted has a        *)
(* version that exists, and the handler of a job is its owner.             *)
TypeOK ==
  /\ dataset \in DatasetRow
  /\ version \in [Versions -> VersionStatus]
  /\ layer \in [Versions -> [Layers -> LayerRow]]
  /\ revoked \in BOOLEAN
  /\ tables \subseteq Tables
  /\ jobStatus \in [Jobs -> Terminal \union Active \union {"ABSENT"}]
  /\ cancel \in [Jobs -> BOOLEAN]
  /\ owned \in [Jobs -> BOOLEAN]
  /\ target \in [Jobs -> Versions \union {NoVersion}]
  /\ pc \in [Jobs -> Labels]
  /\ at \in [Jobs -> 1..(MaxLayers + 1)]
  /\ known \in [Jobs -> SUBSET Layers]
  /\ leaks \subseteq Versions
  /\ reconciler \in {"idle", "layers", "jobs", "dropping"}
  /\ inventory \subseteq Tables
  /\ found \subseteq Tables
  /\ stale \subseteq Versions
  /\ \A j \in Jobs : /\ jobStatus[j] # "ABSENT" <=> target[j] # NoVersion
                     /\ owned[j] <=> Handling(j)

(* A handler takes the storage of a version away before it says so.        *)
Withdrawing(v) == \E j \in Of(v) : pc[j] \in {"failing", "torn"}

Published(v) ==
  \A i \in Layers : /\ layer[v][i].status = "READY" /\ layer[v][i].published
                    /\ Final(v, i) \in tables

(* A ready version has all its layers ready and published and their tables *)
(* exist, whatever failed on the way and whatever was reconciled, unless   *)
(* its import raised when it was ready and is dropping its tables, or did  *)
(* so and could not, or did not live to, say that it failed.               *)
ReadyIsPublished ==
  \A v \in Versions : version[v] = "READY" /\ ~Withdrawing(v) => Published(v)

(* The current version is ready, unless its own import raised after having *)
(* made it current, and dataset and resource are ready exactly when there  *)
(* is one: no candidate that fails, is cancelled or crashes before it is   *)
(* current takes a served dataset offline.                                 *)
ServedIsReady ==
  /\ dataset.current # NoVersion /\ ~revoked =>
       version[dataset.current] = "READY"
  /\ dataset.status = "READY" <=> dataset.current # NoVersion
  /\ dataset.lifecycle = "READY" <=> dataset.current # NoVersion

(* Nothing is left of an import that failed or was cancelled, once its     *)
(* worker is done, unless a worker died or the database refused to drop.   *)
NoLeftovers ==
  \A v \in Versions \ leaks : Idle(v) =>
    \A i \in Layers :
      /\ Staging(v, i) \notin tables
      /\ Final(v, i) \in tables => version[v] = "READY"

(* A job of the version has ended, or will never run, without the handler  *)
(* having settled the version.                                             *)
Lost(v) ==
  \E j \in Of(v) :
    \/ pc[j] \in {"dead", "torn", "refused"}
    \/ pc[j] = "none" /\ jobStatus[j] \in Terminal

(* A version is left importing only when a worker died, its job ended      *)
(* before it began or was refused, or the transaction that settles the     *)
(* version failed.                                                         *)
ImportingIsDriven ==
  \A v \in Versions :
    version[v] = "IMPORTING" /\ ~Lost(v) => ~Idle(v)

(* What readers of the dataset see of all this. *)
Contract == INSTANCE DatasetContract
  WITH ready <- {v \in Versions : version[v] = "READY"},
       revoked <- revoked,
       current <- dataset.current

(* Imports, failures, cancellations, activations and reconciliations only  *)
(* ever move the dataset from one version to another that is ready; only   *)
(* an import that raises after it made its version current takes a version *)
(* away that is served.                                                    *)
ImplementsDataset == Contract!Spec

-----------------------------------------------------------------------------
(* The inductive invariant: what all of these follow from. Parts of it     *)
(* need a version to be imported by one job at a time, or the reconciler   *)
(* to wait until no import is under way.                                   *)

(* The dataset is ready when a version is served, a job and a table belong *)
(* to a version that exists, and a ready layer is published.               *)
RowsAgree ==
  /\ dataset.status = "READY" <=> dataset.current # NoVersion
  /\ dataset.lifecycle = "READY" <=> dataset.current # NoVersion
  /\ dataset.status = "ABSENT" => \A v \in Versions : version[v] = "ABSENT"
  /\ \A j \in Jobs :
       target[j] # NoVersion => version[target[j]] # "ABSENT"
  /\ \A t \in tables : version[t[2]] # "ABSENT"
  /\ \A v \in Versions : \A i \in Layers :
       layer[v][i].status = "READY" => layer[v][i].published

(* A handler has a version to import, and a layer while it imports one; a  *)
(* job waits until its handler begins and is not retried.                  *)
Agrees(j) ==
  /\ pc[j] # "none" =>
       target[j] # NoVersion /\ jobStatus[j] \notin {"PENDING", "QUEUED"}
  /\ pc[j] \in {"staging", "promoting", "publishing"} => at[j] \in Layers
  /\ jobStatus[j] # "RETRYING"

JobsAgree == \A j \in Jobs : Agrees(j)

AttemptsAreAlone ==
  \A j, k \in Jobs : Busy(j) /\ Busy(k) /\ target[j] = target[k] => j = k

(* What is served is ready or has been revoked, and a handler that imports *)
(* a version or is withdrawing it works on one that is not served, or has  *)
(* been revoked; one that is about to end has settled it.                  *)
Guarded(j) ==
  /\ pc[j] \in {"loading", "clearing", "prepared", "layer", "staging",
                "promoting", "publishing", "cancelling"} =>
       version[target[j]] # "READY"
  /\ pc[j] = "failing" => revoked \/ target[j] # dataset.current
  /\ pc[j] = "leaving" => version[target[j]] = "READY"
  /\ pc[j] \in {"returning", "completing", "raised", "acknowledging"} =>
       version[target[j]] # "IMPORTING"

CandidatesAreGuarded ==
  /\ dataset.current # NoVersion /\ ~revoked =>
       version[dataset.current] = "READY"
  /\ \A j \in Jobs : Guarded(j)

(* The handler answers for a table: it is making it, or will drop it.      *)
HoldsStaging(j, i) ==
  \/ pc[j] = "promoting" /\ at[j] = i
  \/ pc[j] \in {"failing", "cancelling"} /\ at[j] <= i

HoldsFinal(j, i) ==
  \/ pc[j] = "publishing" /\ at[j] = i
  \/ /\ pc[j] \in {"layer", "staging", "promoting", "publishing", "activating",
                 "leaving"}
     /\ i \in known[j]
  \/ pc[j] \in {"failing", "cancelling"} /\ at[j] <= i /\ i \in known[j]

StorageIsHeld ==
  \A v \in Versions \ leaks : \A i \in Layers :
    /\ Staging(v, i) \in tables => \E j \in Of(v) : HoldsStaging(j, i)
    /\ Final(v, i) \in tables =>
         \/ /\ version[v] = "READY"
            /\ \A j \in Of(v) :
                 pc[j] \notin {"activating", "leaving", "failing"}
         \/ \E j \in Of(v) : HoldsFinal(j, i)

(* While a job may still make its version ready, a layer that says it is   *)
(* ready has its table.                                                    *)
Stored(j) ==
  /\ pc[j] = "staging" => layer[target[j]][at[j]].status # "READY"
  /\ jobStatus[j] = "RUNNING" =>
       /\ pc[j] \in {"prepared", "layer", "staging", "promoting",
                     "publishing"} =>
            \A i \in Layers : layer[target[j]][i].status = "READY" =>
                                Final(target[j], i) \in tables
       /\ pc[j] = "publishing" => Final(target[j], at[j]) \in tables

RunningIsStored == \A j \in Jobs : Stored(j)

(* The reconciler looks at versions that existed when it began, which      *)
(* nobody imports, and means to drop no final table of a ready layer.      *)
ReconcilerIsApart ==
  /\ reconciler = "idle" => inventory = {} /\ found = {}
  /\ \A t \in inventory \union found :
       version[t[2]] # "ABSENT" /\ Idle(t[2])
  /\ \A t \in found : t[1] = "v" => layer[t[2]][t[3]].status # "READY"

IInv ==
  /\ TypeOK /\ RowsAgree /\ JobsAgree
  /\ ~SharedImports =>
       /\ AttemptsAreAlone /\ CandidatesAreGuarded
       /\ StorageIsHeld /\ ImportingIsDriven
       /\ ~ReconcileAnytime =>
            ReadyIsPublished /\ RunningIsStored /\ ReconcilerIsApart
=============================================================================
