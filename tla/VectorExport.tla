--------------------------- MODULE VectorExport ---------------------------
(***************************************************************************)
(* The exports of one vector layer by one user: the VectorExport rows and  *)
(* the services that create, read, cancel and download them                *)
(* (modules/vector_exports/services.py), the vector-export handler         *)
(* (handlers.py, exporter.py, modules/object_storage/publication.py), the  *)
(* objects it publishes and the command that purges them. Jobs are what    *)
(* JobContract says of them; an export and its job are one to one, so      *)
(* export e has job e.                                                     *)
(*                                                                         *)
(* A request that reads exports first takes a snapshot of a row and its    *)
(* job and later saves what it concludes from it; the handler, the purge   *)
(* and other requests run in between.                                      *)
(***************************************************************************)
EXTENDS Naturals, FiniteSets

CONSTANTS
  Exports,    \* exports that may come to exist
  NoExport,   \* what a reader looks at when it looks at none
  MaxActive,  \* VECTOR_EXPORT_MAX_ACTIVE_PER_USER
  Requests,   \* creations that may be under way at once
  Readers     \* requests that may read exports at once

ASSUME ExportAssumption ==
  /\ IsFiniteSet(Exports) /\ NoExport \notin Exports
  /\ MaxActive \in Nat \ {0} /\ Requests \in Nat \ {0}

VARIABLES
  row,        \* the VectorExport rows
  store,      \* the exports whose object is in the store
  accessible, \* the layer is ready, of the current version and visible
  admitted,   \* creations that have passed the limit and not inserted yet
  jobStatus, cancel, owned,  \* the Job rows, as in JobContract
  pc,         \* where run_vector_export stands
  holds,      \* its local variable "published" is set
  others,     \* the user's other creations and active exports, as numbers
  reader,     \* where a request that reads an export stands
  seen,       \* what it has read
  links,      \* exports with a signed URL that has not expired
  listed,     \* exports the purge has listed
  purged,     \* exports whose object it deleted, row not saved yet
  stale,      \* exports whose settled row a reader has overwritten
  revoked,    \* exports whose handler failed after it marked them ready
  leaks       \* exports with an object that failed to be recorded or deleted

jobVars     == <<jobStatus, cancel, owned>>
creations   == <<admitted, others>>
handlerVars == <<pc, holds>>
readerVars  == <<reader, seen>>
purgeVars   == <<listed, purged>>
ghostVars   == <<stale, revoked, leaks>>
vars == <<row, store, accessible, creations, jobVars, handlerVars, readerVars,
          links, purgeVars, ghostVars>>

Job == INSTANCE JobContract WITH Jobs <- Exports, status <- jobStatus

-----------------------------------------------------------------------------
(* The rows. *)

Active  == {"PENDING", "RUNNING"}
Settled == {"READY", "FAILED", "CANCELLED", "EXPIRED"}

Status == Active \union Settled \union {"ABSENT"}

(* object: object_key is set. expiry: expires_at is null, ahead, passed.   *)
ExportRow == [status : Status,
              object : BOOLEAN,
              expiry : {"none", "ahead", "passed"}]

Absent == [status |-> "ABSENT", object |-> FALSE, expiry |-> "none"]

Terminal == {"SUCCEEDED", "FAILED", "CANCELLED"}

ActiveExports == {e \in Exports : row[e].status \in Active}

Handling(e) == pc[e] \notin {"none", "done"}

(* What a reader holds: an export, its status as read and as it is to be   *)
(* saved, and whether it had an object.                                    *)
Snapshot == [export : Exports \union {NoExport},
             old : Status, new : Status, object : BOOLEAN]

Nothing == [export |-> NoExport, old |-> "ABSENT", new |-> "ABSENT",
            object |-> FALSE]

Init ==
  /\ row = [e \in Exports |-> Absent]
  /\ store = {} /\ accessible = TRUE /\ admitted = {}
  /\ Job!Init
  /\ pc = [e \in Exports |-> "none"]
  /\ holds = [e \in Exports |-> FALSE]
  /\ others = [creating |-> 0, active |-> 0]
  /\ reader = [r \in Readers |-> "idle"]
  /\ seen = [r \in Readers |-> Nothing]
  /\ links = {} /\ listed = {} /\ purged = {}
  /\ stale = {} /\ revoked = {} /\ leaks = {}

-----------------------------------------------------------------------------
(* create_vector_export: the count and the insertion are one transaction   *)
(* that locks nothing. The user's other exports go through it in the same  *)
(* way and are followed no further than the limit needs.                   *)

CreationsUnderWay == Cardinality(admitted) + others.creating
ActiveCount       == Cardinality(ActiveExports) + others.active

(* Mutant: off by one. *)
LimitPassedOneMore ==
  accessible /\ CreationsUnderWay < Requests /\ ActiveCount <= MaxActive

LimitPassed ==
  accessible /\ CreationsUnderWay < Requests /\ ActiveCount < MaxActive

CountActive(e) ==
  /\ row[e] = Absent /\ e \notin admitted
  /\ LimitPassed
  /\ admitted' = admitted \union {e}
  /\ UNCHANGED <<row, store, accessible, others, jobVars, handlerVars,
                 readerVars, links, purgeVars, ghostVars>>

OtherExports ==
  /\ \/ LimitPassed /\ others' = [others EXCEPT !.creating = @ + 1]
     \/ /\ others.creating > 0
        /\ \E inserted \in {0, 1} :
             others' = [creating |-> others.creating - 1,
                        active   |-> others.active + inserted]
     \/ others.active > 0 /\ others' = [others EXCEPT !.active = @ - 1]
  /\ UNCHANGED <<row, store, accessible, admitted, jobVars, handlerVars,
                 readerVars, links, purgeVars, ghostVars>>

(* The row is committed with its job, or fields or bbox are refused.       *)
CreateVectorExport(e) ==
  /\ e \in admitted
  /\ admitted' = admitted \ {e}
  /\ \/ /\ row' = [row EXCEPT ![e].status = "PENDING"]
        /\ Job!Submit(e)
     \/ UNCHANGED <<row, jobVars>>
  /\ UNCHANGED <<store, accessible, others, handlerVars, readerVars, links, purgeVars,
                 ghostVars>>

-----------------------------------------------------------------------------
(* Reading an export. *)

(* Mutant: a failed job is overlooked once the export runs. *)
SynchronizedPending(status, object, expiry, job) ==
  CASE status = "READY" /\ expiry = "passed"               -> "EXPIRED"
    [] status = "PENDING" /\ job = "RUNNING"               -> "RUNNING"
    [] status = "PENDING" /\ job \in {"CANCELLED", "FAILED"} -> job
    [] OTHER                                               -> status

(* The status synchronize_export_status gives a row and a job.             *)
Synchronized(status, object, expiry, job) ==
  CASE status = "READY" /\ expiry = "passed"               -> "EXPIRED"
    [] status = "PENDING" /\ job = "RUNNING"               -> "RUNNING"
    [] status \in Active /\ job \in {"CANCELLED", "FAILED"} -> job
    [] status \in Active /\ job = "SUCCEEDED" /\ ~object   -> "FAILED"
    [] OTHER                                               -> status

(* What a request still has to do once the status is as it should be.      *)
After(purpose, status, object) ==
  CASE purpose = "get"       -> "idle"
    [] purpose = "download"  -> IF status = "READY" /\ object
                                  THEN "signing" ELSE "idle"
    [] purpose = "cancel"    -> "requesting"
    [] purpose = "cancelled" -> "idle"

Become(r, label, snapshot) ==
  /\ reader' = [reader EXCEPT ![r] = label]
  /\ seen' = [seen EXCEPT ![r] = IF label = "idle" THEN Nothing ELSE snapshot]

(* The request holds a row and its job: it goes on at once if they agree.  *)
Hold(r, e, purpose, status, object, expiry, job) ==
  LET new   == Synchronized(status, object, expiry, job)
      label == IF new # status THEN purpose
               ELSE After(purpose, status, object)
  IN  Become(r, label, [export |-> e, old |-> status, new |-> new,
                        object |-> object])

(* get_vector_export, alone or for a download or a cancellation; each row  *)
(* of list_vector_exports is read in the same way.                         *)
Read(r, e, purpose) ==
  /\ reader[r] = "idle" /\ row[e] # Absent /\ accessible
  /\ Hold(r, e, purpose, row[e].status, row[e].object, row[e].expiry,
          jobStatus[e])
  /\ UNCHANGED <<row, store, accessible, creations, jobVars, handlerVars,
                 links, purgeVars, ghostVars>>

(* A status is saved on a row that may have changed since it was read.     *)
SaveStatus(e, status, expected) ==
  /\ row' = [row EXCEPT ![e].status = status]
  /\ stale' = IF row[e].status \in {status, expected}
                THEN stale ELSE stale \union {e}

(* The save of synchronize_export_status: only when the status has changed *)
(* in memory, and nothing but the status.                                  *)
SynchronizeExportStatus(r) ==
  LET e    == seen[r].export
      next == After(reader[r], seen[r].new, seen[r].object)
  IN  /\ reader[r] \in {"get", "download", "cancel", "cancelled"}
      /\ SaveStatus(e, seen[r].new, seen[r].old)
      /\ Become(r, next, [seen[r] EXCEPT !.old = seen[r].new])
      /\ UNCHANGED <<store, accessible, creations, jobVars, handlerVars, links,
                     purgeVars, revoked, leaks>>

(* Mutant: the clock is not read again. *)
SignWithoutClock(r) ==
  /\ reader[r] = "signing"
  /\ Become(r, "idle", Nothing)
  /\ links' = links \union {seen[r].export}
  /\ UNCHANGED <<row, store, accessible, creations, jobVars, handlerVars,
                 purgeVars, ghostVars>>

(* The rest of create_download_grant: the clock is read again, the row is  *)
(* not. A URL lives no longer than its export.                             *)
CreateDownloadGrant(r) ==
  LET e == seen[r].export
  IN  /\ reader[r] = "signing"
      /\ Become(r, "idle", Nothing)
      /\ IF row[e].expiry = "passed"
           THEN SaveStatus(e, "EXPIRED", "READY") /\ UNCHANGED links
           ELSE links' = links \union {e} /\ UNCHANGED <<row, stale>>
      /\ UNCHANGED <<store, accessible, creations, jobVars, handlerVars,
                     purgeVars, revoked, leaks>>

(* request_job_cancellation inside cancel_vector_export: the job it        *)
(* returns takes the place of the one that was read.                       *)
RequestCancellation(r) ==
  LET e == seen[r].export
  IN  /\ reader[r] = "requesting"
      /\ IF jobStatus[e] \in Terminal THEN UNCHANGED jobVars ELSE Job!Cancel(e)
      /\ Hold(r, e, "cancelled", seen[r].new, seen[r].object, row[e].expiry,
              jobStatus'[e])
      /\ UNCHANGED <<row, store, accessible, creations, handlerVars, links,
                     purgeVars, ghostVars>>

(* The expiry time of an export passes, and with it that of its links.     *)
Expire(e) ==
  /\ row[e].expiry = "ahead"
  /\ row' = [row EXCEPT ![e].expiry = "passed"]
  /\ links' = links \ {e}
  /\ UNCHANGED <<store, accessible, creations, jobVars, handlerVars, readerVars,
                 purgeVars, ghostVars>>

(* Another version of the dataset becomes current, or the layer is hidden. *)
ReplaceLayer ==
  /\ accessible
  /\ accessible' = FALSE
  /\ UNCHANGED <<row, store, creations, jobVars, handlerVars, readerVars,
                 links, purgeVars, ghostVars>>

-----------------------------------------------------------------------------
(* Jobs outside the handler. *)

OutsideVars == <<row, store, accessible, creations, handlerVars, readerVars,
                 links, purgeVars, ghostVars>>

Enqueue(e)       == Job!Enqueue(e) /\ UNCHANGED OutsideVars
CancelJob(e)     == Job!Cancel(e) /\ UNCHANGED OutsideVars
Undeliverable(e) == Job!Undeliverable(e) /\ UNCHANGED OutsideVars

-----------------------------------------------------------------------------
(* run_vector_export *)

Go(e, label) == pc' = [pc EXCEPT ![e] = label]

AroundHandler == <<accessible, creations, readerVars, links, purgeVars>>

(* report_progress returns. *)
Reports(e) == jobStatus[e] = "RUNNING" /\ ~cancel[e]

BeginExport(e) ==
  /\ pc[e] = "none"
  /\ Job!Begin(e)
  /\ Go(e, "resolving")
  /\ UNCHANGED <<row, store, holds, ghostVars, AroundHandler>>

ResolveExport(e) ==
  /\ pc[e] = "resolving"
  /\ Go(e, IF row[e].status = "READY" /\ row[e].object
             THEN "returning" ELSE "starting")
  /\ UNCHANGED <<row, store, holds, jobVars, ghostVars, AroundHandler>>

MarkRunning(e) ==
  /\ pc[e] = "starting" /\ row[e].status \in Active
  /\ row' = [row EXCEPT ![e].status = "RUNNING"]
  /\ Go(e, "generating")
  /\ UNCHANGED <<store, holds, jobVars, ghostVars, AroundHandler>>

(* The first report, and ogr2ogr with its checks for cancellation.         *)
GenerateVectorExport(e) ==
  /\ pc[e] = "generating" /\ Reports(e)
  /\ Go(e, "publishing")
  /\ UNCHANGED <<row, store, holds, jobVars, ghostVars, AroundHandler>>

(* publish_file: upload, then HEAD and the comparison of sizes.            *)
PublishFile(e) ==
  /\ pc[e] = "publishing" /\ Reports(e)
  /\ store' = store \union {e}
  /\ Go(e, "marking")
  /\ holds' = [holds EXCEPT ![e] = TRUE]
  /\ UNCHANGED <<row, jobVars, ghostVars, AroundHandler>>

(* The object is stored and cannot be verified: nobody remembers it.       *)
PublishUnverified(e) ==
  /\ pc[e] = "publishing" /\ Reports(e)
  /\ store' = store \union {e}
  /\ leaks' = leaks \union {e}
  /\ Go(e, "failing")
  /\ UNCHANGED <<row, holds, jobVars, stale, revoked, AroundHandler>>

(* The last report, and the transaction of _mark_ready.                    *)
MarkReady(e) ==
  /\ pc[e] = "marking" /\ Reports(e)
  /\ row[e].status = "RUNNING"
  /\ row' = [row EXCEPT ![e] = [status |-> "READY", object |-> TRUE,
                                expiry |-> "ahead"]]
  /\ Go(e, "readied")
  /\ UNCHANGED <<store, holds, jobVars, ghostVars, AroundHandler>>

LeaveWorkspace(e) ==
  /\ pc[e] = "readied"
  /\ Go(e, "returning")
  /\ holds' = [holds EXCEPT ![e] = FALSE]
  /\ UNCHANGED <<row, store, jobVars, ghostVars, AroundHandler>>

(* JobCancellationRequested, from report_progress or ensure_not_cancelled. *)
NoticeCancellation(e) ==
  /\ cancel[e]
  /\ \/ pc[e] \in {"generating", "publishing"}
     \/ pc[e] = "marking" /\ jobStatus[e] = "RUNNING"
  /\ Go(e, "cancelling")
  /\ UNCHANGED <<row, store, holds, jobVars, ghostVars, AroundHandler>>

(* Any other exception inside the try block: a row or a job that is not    *)
(* what the step needs, ogr2ogr, the store, the soft time limit, the       *)
(* removal of the workspace.                                               *)
RaiseInExport(e) ==
  /\ pc[e] \in {"starting", "generating", "publishing", "marking", "readied"}
  /\ Go(e, "failing")
  /\ revoked' = IF pc[e] = "readied" THEN revoked \union {e} ELSE revoked
  /\ UNCHANGED <<row, store, holds, jobVars, stale, leaks, AroundHandler>>

(* An exception before or after it: the row is left as it is. *)
RaiseOutside(e) ==
  /\ pc[e] \in {"resolving", "returning"}
  /\ Go(e, "raised")
  /\ UNCHANGED <<row, store, holds, jobVars, ghostVars, AroundHandler>>

(* Mutant: the object of an export that failed is kept. *)
KeepPublished(e) ==
  /\ pc[e] \in {"failing", "cancelling"} /\ holds[e]
  /\ holds' = [holds EXCEPT ![e] = FALSE]
  /\ UNCHANGED <<row, store, pc, jobVars, ghostVars, AroundHandler>>

(* The object is deleted; an error is suppressed. *)
DeletePublished(e) ==
  /\ pc[e] \in {"failing", "cancelling"} /\ holds[e]
  /\ \/ store' = store \ {e} /\ UNCHANGED leaks
     \/ leaks' = leaks \union {e} /\ UNCHANGED store
  /\ holds' = [holds EXCEPT ![e] = FALSE]
  /\ UNCHANGED <<row, pc, jobVars, stale, revoked, AroundHandler>>

(* _mark_failed and _mark_cancelled look at no status. *)
MarkFailed(e) ==
  /\ pc[e] = "failing" /\ ~holds[e]
  /\ row' = [row EXCEPT ![e].status = "FAILED"]
  /\ Go(e, "raised")
  /\ UNCHANGED <<store, holds, jobVars, ghostVars, AroundHandler>>

MarkCancelled(e) ==
  /\ pc[e] = "cancelling" /\ ~holds[e]
  /\ row' = [row EXCEPT ![e].status = "CANCELLED"]
  /\ Go(e, "acknowledging")
  /\ UNCHANGED <<store, holds, jobVars, ghostVars, AroundHandler>>

(* The save of either fails: the job fails, and whoever reads the export   *)
(* settles it.                                                             *)
FailToSettle(e) ==
  /\ pc[e] \in {"failing", "cancelling"} /\ ~holds[e]
  /\ Go(e, "raised")
  /\ UNCHANGED <<row, store, holds, jobVars, ghostVars, AroundHandler>>

(* The rest of execute_job; the outcome is recorded unless the row of the  *)
(* job has been ended already.                                             *)
Outcome(e) ==
  CASE pc[e] = "returning"     -> IF cancel[e] THEN "CANCELLED" ELSE "SUCCEEDED"
    [] pc[e] = "raised"        -> "FAILED"
    [] pc[e] = "acknowledging" -> "CANCELLED"

Finish(e) ==
  /\ pc[e] \in {"returning", "raised", "acknowledging"}
  /\ IF jobStatus[e] = "RUNNING"
       THEN Job!Settle(e) /\ jobStatus'[e] = Outcome(e)
       ELSE Job!Abandon(e)
  /\ Go(e, "done")
  /\ UNCHANGED <<row, store, holds, ghostVars, AroundHandler>>

(* The worker dies or meets the hard time limit. *)
Die(e) ==
  /\ Handling(e)
  /\ Job!Abandon(e)
  /\ Go(e, "done")
  /\ holds' = [holds EXCEPT ![e] = FALSE]
  /\ leaks' = IF holds[e] /\ pc[e] # "readied" THEN leaks \union {e} ELSE leaks
  /\ UNCHANGED <<row, store, stale, revoked, AroundHandler>>

-----------------------------------------------------------------------------
(* purge_expired_vector_exports *)

AroundPurge == <<accessible, creations, jobVars, handlerVars, readerVars, links,
                 ghostVars>>

(* Mutant: every ready export is purged. *)
ListReady ==
  /\ listed = {} /\ purged = {}
  /\ listed' = {e \in Exports : row[e].object
                                /\ row[e].status \in {"READY", "EXPIRED"}}
  /\ listed' # {}
  /\ UNCHANGED <<row, store, purged, AroundPurge>>

ListExpired ==
  /\ listed = {} /\ purged = {}
  /\ listed' = {e \in Exports :
                  /\ row[e].object
                  /\ \/ row[e].status = "EXPIRED"
                     \/ row[e].status = "READY" /\ row[e].expiry = "passed"}
  /\ listed' # {}
  /\ UNCHANGED <<row, store, purged, AroundPurge>>

PurgeObject(e) ==
  /\ e \in listed /\ purged = {}
  /\ listed' = listed \ {e}
  /\ \/ store' = store \ {e} /\ purged' = {e}
     \/ UNCHANGED <<store, purged>>           \* ObjectStorageError
  /\ UNCHANGED <<row, AroundPurge>>

SavePurged(e) ==
  /\ e \in purged
  /\ purged' = {}
  /\ row' = [row EXCEPT ![e].status = "EXPIRED", ![e].object = FALSE]
  /\ UNCHANGED <<store, listed, AroundPurge>>

(* The command dies. *)
StopPurge ==
  /\ listed \union purged # {}
  /\ listed' = {} /\ purged' = {}
  /\ UNCHANGED <<row, store, AroundPurge>>

-----------------------------------------------------------------------------
RequestStep(r) ==
  \/ SynchronizeExportStatus(r) \/ CreateDownloadGrant(r)
  \/ RequestCancellation(r)

HandlerStep(e) ==
  \/ ResolveExport(e) \/ MarkRunning(e) \/ GenerateVectorExport(e)
  \/ PublishFile(e) \/ PublishUnverified(e) \/ MarkReady(e)
  \/ LeaveWorkspace(e) \/ NoticeCancellation(e) \/ RaiseInExport(e)
  \/ RaiseOutside(e) \/ DeletePublished(e) \/ MarkFailed(e)
  \/ MarkCancelled(e) \/ FailToSettle(e) \/ Finish(e)

Next ==
  \/ \E e \in Exports :
       \/ CountActive(e) \/ CreateVectorExport(e) \/ Expire(e)
       \/ \E r \in Readers, purpose \in {"get", "download", "cancel"} :
            Read(r, e, purpose)
       \/ Enqueue(e) \/ CancelJob(e) \/ Undeliverable(e)
       \/ BeginExport(e) \/ HandlerStep(e) \/ Die(e)
       \/ PurgeObject(e) \/ SavePurged(e)
  \/ \E r \in Readers : RequestStep(r)
  \/ OtherExports \/ ReplaceLayer \/ ListExpired \/ StopPurge

(* A request that has read goes on, and whoever waits for an export keeps  *)
(* asking for it.                                                          *)
Fairness ==
  \A r \in Readers :
    /\ WF_vars(RequestStep(r))
    /\ \A e \in Exports : SF_vars(Read(r, e, "get"))

Spec == Init /\ [][Next]_vars /\ Fairness

-----------------------------------------------------------------------------
(* Properties.                                                             *)

Labels == {"none", "resolving", "starting", "generating", "publishing",
           "marking", "readied", "returning", "failing", "cancelling",
           "raised", "acknowledging", "done"}

(* Every variable has its type, an export and its job come into being      *)
(* together, and the handler is the owner of the job.                      *)
TypeOK ==
  /\ row \in [Exports -> ExportRow]
  /\ store \subseteq Exports /\ admitted \subseteq Exports
  /\ accessible \in BOOLEAN
  /\ jobStatus \in [Exports -> Terminal \union {"ABSENT", "PENDING", "QUEUED",
                                                "RUNNING", "RETRYING"}]
  /\ cancel \in [Exports -> BOOLEAN] /\ owned \in [Exports -> BOOLEAN]
  /\ pc \in [Exports -> Labels] /\ holds \in [Exports -> BOOLEAN]
  /\ others \in [creating : Nat, active : Nat]
  /\ reader \in [Readers -> {"idle", "get", "download", "cancel", "signing",
                             "requesting", "cancelled"}]
  /\ seen \in [Readers -> Snapshot]
  /\ \A r \in Readers : seen[r].export = NoExport <=> reader[r] = "idle"
  /\ links \subseteq Exports
  /\ listed \subseteq Exports /\ purged \subseteq Exports
  /\ stale \subseteq Exports /\ revoked \subseteq Exports
  /\ leaks \subseteq Exports
  /\ \A e \in Exports : /\ row[e].status = "ABSENT" <=> jobStatus[e] = "ABSENT"
                        /\ owned[e] <=> Handling(e)

(* A download link never outlives the object it leads to: neither the      *)
(* purge nor a cancelled or failing handler takes an object away from      *)
(* under a link, unless the handler fails after it has said READY.         *)
LinksLead == links \ revoked \subseteq store

(* An object that nobody works on any more can be found by the purge: its  *)
(* row names it and is READY or EXPIRED. The exceptions are named: an      *)
(* object that could not be verified or deleted, a row a late reader has   *)
(* overwritten, a handler that failed after READY.                         *)
ObjectsAreKept ==
  \A e \in store \ (leaks \union stale \union revoked) :
    Handling(e) \/ (row[e].object /\ row[e].status \in {"READY", "EXPIRED"})

(* The limit of active exports is exceeded by no more than the creations   *)
(* that overlap, although nothing locks the rows that are counted.         *)
ActiveIsBounded ==
  Cardinality((ActiveExports \union admitted) \ stale)
      + others.creating + others.active
    <= MaxActive + Requests - 1

(* Once a job has ended and its handler is gone, whoever reads the export  *)
(* finds it settled; what a late reader has overwritten, and the layers    *)
(* that are no longer accessible, excepted.                                *)
EndedIsSettled ==
  \A e \in Exports :
    jobStatus[e] \in Terminal /\ ~Handling(e)
      ~> row[e].status \notin Active \/ ~accessible \/ e \in stale

-----------------------------------------------------------------------------
(* The inductive invariant behind the safety properties.                   *)

(* What holds of an export: an expiry time comes with READY, and an object *)
(* is in the store until that time passes, unless its handler fails.       *)
Timed(e) ==
  /\ row[e].object \/ row[e].status = "READY" => row[e].expiry # "none"
  /\ row[e].status = "EXPIRED" => row[e].expiry = "passed"
  /\ pc[e] \in {"none", "resolving", "starting", "generating", "publishing",
                "marking", "cancelling"} => row[e].expiry = "none"
  /\ pc[e] = "failing" => row[e].expiry = "none" \/ e \in revoked
  /\ row[e].expiry = "ahead" => e \in store \union revoked
  /\ e \in links => row[e].expiry = "ahead"
  /\ e \in listed \union purged => row[e].expiry = "passed"
  /\ e \in purged => e \notin store

(* Who answers for an object in the store: the handler that holds it, or   *)
(* the row that names it.                                                  *)
Accounted(e) ==
  /\ holds[e] => pc[e] \in {"marking", "failing", "cancelling", "readied"}
  /\ pc[e] = "marking" => holds[e] /\ e \in store
  /\ e \in store \ (leaks \union stale \union revoked) =>
       \/ holds[e] /\ pc[e] # "readied"
       \/ row[e].object /\ row[e].status \in {"READY", "EXPIRED"}

(* An export is handled only once it exists, and inserted only once.       *)
Existing(e) ==
  /\ pc[e] # "none" => jobStatus[e] # "ABSENT"
  /\ e \in admitted => row[e].status = "ABSENT"

(* What a reader may rely on about the export it has read.                 *)
Informed(r) ==
  LET e == seen[r].export
  IN  reader[r] # "idle" =>
        /\ row[e].status # "ABSENT"
        /\ seen[r].old # "ABSENT" /\ seen[r].new # "ABSENT"
        /\ seen[r].object \/ seen[r].new = "READY" => row[e].expiry # "none"
        /\ seen[r].new = "EXPIRED" => row[e].expiry = "passed"
        /\ seen[r].old \in {"READY", "EXPIRED"}
             => seen[r].new \in {"READY", "EXPIRED"}
        /\ seen[r].new \in Active => seen[r].old \in Active
        /\ reader[r] = "signing" => seen[r].object

(* The conjunction that every action preserves.                            *)
IInv ==
  /\ TypeOK
  /\ \A e \in Exports : Timed(e) /\ Accounted(e) /\ Existing(e)
  /\ \A r \in Readers : Informed(r)
  /\ ActiveIsBounded
=============================================================================
