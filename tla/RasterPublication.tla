------------------------- MODULE RasterPublication -------------------------
(***************************************************************************)
(* The publication of the one version of a raster dataset as a Cloud       *)
(* Optimized GeoTIFF: the request (modules/datasets/raster_services.py,    *)
(* signals.py), the raster-publish handler (raster_handlers.py), the       *)
(* object it stores and the render settings of the published raster        *)
(* (modules/raster_tiles/rendering.py). Jobs are what JobContract says of  *)
(* them. All attempts at a publication write the same object key, so the   *)
(* store holds one object at most.                                         *)
(***************************************************************************)
EXTENDS Naturals, FiniteSets

CONSTANTS
  Jobs,        \* raster-publish jobs that may come to exist
  NoJob,       \* RasterPublication.job is null
  MaxRevision  \* updates of the render settings stop here

ASSUME PublicationAssumption ==
  /\ NoJob \notin Jobs /\ MaxRevision \in Nat \ {0}

VARIABLES
  dataset,      \* "ABSENT", "COMMITTED" (on_commit has yet to run), "READY"
  publication,  \* the RasterPublication row
  object,       \* there is an object under the key of the publication
  revision,     \* RasterRenderSettings.revision, 0 without a row
  jobStatus, cancel, owned,  \* the Job rows, as in JobContract
  requested,    \* the jobs created by request_raster_publication
  pc,           \* where run_raster_publish stands in a job
  lost,         \* a worker has died, or could not record how it ended
  leaked,       \* an object could not be deleted or was left by a dead worker
  revoked,      \* an attempt failed after it had marked the publication ready
  overlapped    \* two attempts have been under way at once

jobVars   == <<jobStatus, cancel, owned>>
ghostVars == <<lost, leaked, revoked, overlapped>>
vars == <<dataset, publication, object, revision, jobVars, requested, pc,
          ghostVars>>

Job == INSTANCE JobContract WITH status <- jobStatus

-----------------------------------------------------------------------------
PublicationStatus ==
  {"ABSENT", "PENDING", "PROCESSING", "READY", "FAILED", "CANCELLED"}

(* key: object_key is set, which it stays. *)
Publication == [status : PublicationStatus, key : BOOLEAN,
                job : Jobs \union {NoJob}]

Terminal == {"SUCCEEDED", "FAILED", "CANCELLED"}
ActiveJobStatuses == {"PENDING", "QUEUED", "RUNNING", "RETRYING"}

Handling(j) == pc[j] \notin {"none", "done"}

Init ==
  /\ dataset = "ABSENT"
  /\ publication = [status |-> "ABSENT", key |-> FALSE, job |-> NoJob]
  /\ object = FALSE /\ revision = 0
  /\ Job!Init
  /\ requested = {}
  /\ pc = [j \in Jobs |-> "none"]
  /\ lost = FALSE /\ leaked = FALSE /\ revoked = FALSE /\ overlapped = FALSE

-----------------------------------------------------------------------------
(* The services. *)

(* register_dataset_from_inspection of a raster: its version is ready and  *)
(* current in the same transaction, and a hook is left for the commit.     *)
RegisterRaster ==
  /\ dataset = "ABSENT"
  /\ dataset' = "COMMITTED"
  /\ UNCHANGED <<publication, object, revision, jobVars, requested, pc,
                 ghostVars>>

(* Mutant: the job of the publication is not looked at. *)
OpenWhateverJob == publication.status # "READY"

(* Neither ready nor being published: there is something to request.       *)
Open ==
  publication.status # "READY"
    /\ ~ \E j \in {publication.job} \ {NoJob} :
           jobStatus[j] \in ActiveJobStatuses

(* request_raster_publication, under the locks of dataset and publication. *)
RequestPublication(j) ==
  /\ Open
  /\ Job!Submit(j)
  /\ requested' = requested \union {j}
  /\ publication' = [publication EXCEPT !.status = "PENDING", !.job = j]
  /\ UNCHANGED <<object, revision, pc, ghostVars>>

(* ensure_initial_raster_publication, after the commit. *)
EnsureInitialPublication(j) ==
  /\ dataset = "COMMITTED" /\ dataset' = "READY"
  /\ RequestPublication(j)

(* The process dies before the hook runs. *)
LoseInitialPublication ==
  /\ dataset = "COMMITTED" /\ dataset' = "READY"
  /\ UNCHANGED <<publication, object, revision, jobVars, requested, pc,
                 ghostVars>>

PublishRasterDataset(j) ==
  /\ dataset # "ABSENT"
  /\ RequestPublication(j)
  /\ UNCHANGED dataset

(* A user posts a raster-publish job of his own for the publication.       *)
PostJob(j) ==
  /\ publication.status # "ABSENT"
  /\ Job!Submit(j)
  /\ UNCHANGED <<dataset, publication, object, revision, requested, pc,
                 ghostVars>>

(* raster_publications_accessible_to: what tiles are served from.          *)
Served == publication.status = "READY" /\ publication.key

(* update_raster_render_settings *)
UpdateRenderSettings ==
  /\ Served /\ revision \in 1..(MaxRevision - 1)
  /\ revision' = revision + 1
  /\ UNCHANGED <<dataset, publication, object, jobVars, requested, pc,
                 ghostVars>>

OutsideVars ==
  <<dataset, publication, object, revision, requested, pc, ghostVars>>

Enqueue(j)       == Job!Enqueue(j) /\ UNCHANGED OutsideVars
Cancel(j)        == Job!Cancel(j) /\ UNCHANGED OutsideVars
Undeliverable(j) == Job!Undeliverable(j) /\ UNCHANGED OutsideVars

-----------------------------------------------------------------------------
(* run_raster_publish *)

Go(j, label) == pc' = [pc EXCEPT ![j] = label]

(* report_progress returns. *)
Reports(j) == jobStatus[j] = "RUNNING" /\ ~cancel[j]

SetStatus(status) == publication' = [publication EXCEPT !.status = status]

BeginPublish(j) ==
  /\ pc[j] = "none"
  /\ Job!Begin(j)
  /\ Go(j, "resolving")
  /\ overlapped' = (overlapped \/ \E k \in Jobs : Handling(k))
  /\ UNCHANGED <<dataset, publication, object, revision, requested, lost,
                 leaked, revoked>>

(* Mutant: a ready publication is published like any other. *)
ResolveAgain(j) ==
  /\ pc[j] = "resolving"
  /\ Go(j, "starting")
  /\ UNCHANGED <<dataset, publication, object, revision, jobVars, requested,
                 ghostVars>>

(* Whether the publication belongs to this job is not asked. *)
ResolvePublication(j) ==
  /\ pc[j] = "resolving"
  /\ Go(j, IF publication.status = "READY" THEN "returning" ELSE "starting")
  /\ UNCHANGED <<dataset, publication, object, revision, jobVars, requested,
                 ghostVars>>

MarkProcessing(j) ==
  /\ pc[j] = "starting"
  /\ SetStatus("PROCESSING")
  /\ Go(j, "converting")
  /\ UNCHANGED <<dataset, object, revision, jobVars, requested, ghostVars>>

(* Two reports, the source brought to the worker, gdal_translate.          *)
ConvertToCog(j) ==
  /\ pc[j] = "converting" /\ Reports(j)
  /\ Go(j, "publishing")
  /\ UNCHANGED <<dataset, publication, object, revision, jobVars, requested,
                 ghostVars>>

PublishFile(j) ==
  /\ pc[j] = "publishing" /\ Reports(j)
  /\ object' = TRUE
  /\ Go(j, "marking")
  /\ UNCHANGED <<dataset, publication, revision, jobVars, requested, ghostVars>>

(* The transaction of _mark_ready; update_or_create gives the settings     *)
(* their defaults again, the revision among them.                          *)
MarkReady(j) ==
  /\ pc[j] = "marking" /\ Reports(j)
  /\ publication' = [publication EXCEPT !.status = "READY", !.key = TRUE]
  /\ revision' = 1
  /\ Go(j, "readied")
  /\ UNCHANGED <<dataset, object, jobVars, requested, ghostVars>>

LeaveWorkspace(j) ==
  /\ pc[j] = "readied"
  /\ Go(j, "returning")
  /\ UNCHANGED <<dataset, publication, object, revision, jobVars, requested,
                 ghostVars>>

(* JobCancellationRequested, from report_progress or ensure_not_cancelled. *)
NoticeCancellation(j) ==
  /\ cancel[j]
  /\ \/ pc[j] \in {"converting", "publishing"}
     \/ pc[j] = "marking" /\ jobStatus[j] = "RUNNING"
  /\ Go(j, "cancelling")
  /\ UNCHANGED <<dataset, publication, object, revision, jobVars, requested,
                 ghostVars>>

(* Any other exception inside the try block; a failing publish_file may    *)
(* have stored the object.                                                 *)
RaiseInPublish(j) ==
  /\ pc[j] \in {"starting", "converting", "publishing", "marking", "readied"}
  /\ Go(j, "failing")
  /\ object' \in IF pc[j] = "publishing" THEN {object, TRUE} ELSE {object}
  /\ revoked' = (revoked \/ pc[j] = "readied")
  /\ UNCHANGED <<dataset, publication, revision, jobVars, requested, lost,
                 leaked, overlapped>>

(* An exception before or after it: the publication is left as it is.      *)
RaiseOutside(j) ==
  /\ pc[j] \in {"resolving", "returning"}
  /\ Go(j, "raised")
  /\ UNCHANGED <<dataset, publication, object, revision, jobVars, requested,
                 ghostVars>>

CleanedUp == [failing |-> "failed", cancelling |-> "cancelled"]

(* Mutant: only a failed attempt takes its object away. *)
DeleteFailedOnly(j) ==
  /\ pc[j] \in DOMAIN CleanedUp
  /\ object' = IF pc[j] = "failing" THEN FALSE ELSE object
  /\ Go(j, CleanedUp[pc[j]])
  /\ UNCHANGED <<dataset, publication, revision, jobVars, requested, ghostVars>>

(* The key is deleted whether this attempt stored an object or not; an     *)
(* error is suppressed.                                                    *)
DeletePublished(j) ==
  /\ pc[j] \in DOMAIN CleanedUp
  /\ \/ object' = FALSE /\ UNCHANGED leaked
     \/ object /\ leaked' = TRUE /\ UNCHANGED object
  /\ Go(j, CleanedUp[pc[j]])
  /\ UNCHANGED <<dataset, publication, revision, jobVars, requested, lost,
                 revoked, overlapped>>

(* Mutant: a failed attempt leaves the publication as it is. *)
MarkFailedNot(j) ==
  /\ pc[j] = "failed"
  /\ Go(j, "raised")
  /\ UNCHANGED <<dataset, publication, object, revision, jobVars, requested,
                 ghostVars>>

(* _mark_failed and _mark_cancelled look at no status. *)
MarkFailed(j) ==
  /\ pc[j] = "failed"
  /\ SetStatus("FAILED")
  /\ Go(j, "raised")
  /\ UNCHANGED <<dataset, object, revision, jobVars, requested, ghostVars>>

MarkCancelled(j) ==
  /\ pc[j] = "cancelled"
  /\ SetStatus("CANCELLED")
  /\ Go(j, "acknowledging")
  /\ UNCHANGED <<dataset, object, revision, jobVars, requested, ghostVars>>

(* The transaction of either fails, and with it the job.                   *)
FailToSettle(j) ==
  /\ pc[j] \in {"failed", "cancelled"}
  /\ Go(j, "raised")
  /\ lost' = TRUE
  /\ UNCHANGED <<dataset, publication, object, revision, jobVars, requested,
                 leaked, revoked, overlapped>>

Outcome(j) ==
  CASE pc[j] = "returning"     -> IF cancel[j] THEN "CANCELLED" ELSE "SUCCEEDED"
    [] pc[j] = "raised"        -> "FAILED"
    [] pc[j] = "acknowledging" -> "CANCELLED"

(* The rest of execute_job. *)
Finish(j) ==
  /\ pc[j] \in {"returning", "raised", "acknowledging"}
  /\ IF jobStatus[j] = "RUNNING"
       THEN Job!Settle(j) /\ jobStatus'[j] = Outcome(j)
       ELSE Job!Abandon(j)
  /\ Go(j, "done")
  /\ UNCHANGED <<dataset, publication, object, revision, requested, ghostVars>>

(* The worker dies or meets the hard time limit. *)
Die(j) ==
  /\ Handling(j)
  /\ Job!Abandon(j)
  /\ Go(j, "done")
  /\ lost' = TRUE
  /\ leaked' = (leaked \/ object)
  /\ UNCHANGED <<dataset, publication, object, revision, requested, revoked,
                 overlapped>>

-----------------------------------------------------------------------------
HandlerStep(j) ==
  \/ ResolvePublication(j) \/ MarkProcessing(j) \/ ConvertToCog(j)
  \/ PublishFile(j) \/ MarkReady(j) \/ LeaveWorkspace(j)
  \/ NoticeCancellation(j) \/ RaiseInPublish(j) \/ RaiseOutside(j)
  \/ DeletePublished(j) \/ MarkFailed(j) \/ MarkCancelled(j)
  \/ FailToSettle(j) \/ Finish(j)

Next ==
  \/ RegisterRaster \/ LoseInitialPublication \/ UpdateRenderSettings
  \/ \E j \in Jobs :
       \/ EnsureInitialPublication(j) \/ PublishRasterDataset(j) \/ PostJob(j)
       \/ Enqueue(j) \/ Cancel(j) \/ Undeliverable(j)
       \/ BeginPublish(j) \/ HandlerStep(j) \/ Die(j)

Spec == Init /\ [][Next]_vars

-----------------------------------------------------------------------------
(* Properties.                                                             *)

Labels == {"none", "resolving", "starting", "converting", "publishing",
           "marking", "readied", "returning", "failing", "failed",
           "cancelling", "cancelled", "raised", "acknowledging", "done"}

(* Every variable has its type; a publication has a job of its own, which  *)
(* has been submitted, and the handler of a job is its owner.              *)
TypeOK ==
  /\ dataset \in {"ABSENT", "COMMITTED", "READY"}
  /\ publication \in Publication
  /\ object \in BOOLEAN
  /\ revision \in 0..MaxRevision
  /\ jobStatus \in [Jobs -> Terminal \union ActiveJobStatuses \union {"ABSENT"}]
  /\ cancel \in [Jobs -> BOOLEAN] /\ owned \in [Jobs -> BOOLEAN]
  /\ requested \subseteq Jobs
  /\ pc \in [Jobs -> Labels]
  /\ lost \in BOOLEAN /\ leaked \in BOOLEAN
  /\ revoked \in BOOLEAN /\ overlapped \in BOOLEAN
  /\ publication.status = "ABSENT" <=> publication.job = NoJob
  /\ publication.job # NoJob => jobStatus[publication.job] # "ABSENT"
  /\ \A j \in Jobs : owned[j] <=> Handling(j)

(* What is served exists: as long as attempts do not overlap, no failing,  *)
(* cancelled or repeated attempt deletes the object of a ready publication *)
(* or leaves it without render settings, unless the attempt itself fails   *)
(* after it has said READY.                                                *)
ServedExists ==
  Served /\ ~overlapped /\ ~revoked => object /\ revision > 0

(* Nothing is left in the store by attempts that failed or were cancelled. *)
NoLeftovers ==
  object /\ ~leaked /\ (\A j \in Jobs : ~Handling(j))
    => publication.status = "READY" \/ overlapped

(* However often publication is requested, one job at most is under way    *)
(* for it.                                                                 *)
RequestsDoNotPile ==
  \A j, k \in requested :
    jobStatus[j] \in ActiveJobStatuses /\ jobStatus[k] \in ActiveJobStatuses
      => j = k

(* The status the API shows: a job that ended before it began shows        *)
(* through a pending publication.                                          *)
EffectiveStatus ==
  IF publication.status = "PENDING" /\ publication.job # NoJob
       /\ jobStatus[publication.job] \in {"FAILED", "CANCELLED"}
    THEN jobStatus[publication.job] ELSE publication.status

(* A publication that is shown as under way is under way, unless a worker  *)
(* has died or could not record how its attempt ended.                     *)
ShownIsDriven ==
  EffectiveStatus \in {"PENDING", "PROCESSING"} /\ ~lost =>
    \E j \in Jobs : jobStatus[j] \in ActiveJobStatuses \/ Handling(j)

(* The revision in the tile URLs never goes back, which would let caches   *)
(* serve another rendering under it, unless attempts overlap or one fails  *)
(* after it has said READY.                                                *)
RevisionGrows ==
  [][revision' < revision => overlapped \/ revoked]_vars

-----------------------------------------------------------------------------
(* The inductive invariant behind the safety properties.                   *)

(* Jobs are submitted for a publication that has been requested, and are   *)
(* handled only then; of those requested only the one that the publication *)
(* names may be under way.                                                 *)
JobsAreKnown ==
  /\ \A j \in Jobs :
       /\ jobStatus[j] = "ABSENT" => pc[j] = "none"
       /\ jobStatus[j] # "ABSENT" => publication.job # NoJob
  /\ \A j \in requested :
       /\ jobStatus[j] # "ABSENT"
       /\ jobStatus[j] \in ActiveJobStatuses => publication.job = j

(* Unless attempts overlap, one at most is under way, and no attempt works *)
(* on a publication that is ready, but one that fails after it has said so.*)
AttemptsAreAlone ==
  ~overlapped =>
    /\ \A j, k \in Jobs : Handling(j) /\ Handling(k) => j = k
    /\ \A j \in Jobs :
         \/ pc[j] \in {"starting", "converting", "publishing", "marking",
                       "cancelling", "cancelled"}
         \/ pc[j] \in {"failing", "failed"} /\ ~revoked
         => publication.status # "READY"

(* The object comes with READY and goes with the attempt that gives up.    *)
ObjectIsAccountedFor ==
  ~overlapped =>
    /\ object /\ ~leaked /\ publication.status # "READY" =>
         \E j \in Jobs : pc[j] \in {"marking", "failing", "cancelling"}
    /\ \A j \in Jobs :
         /\ pc[j] = "marking" => object
         /\ pc[j] \in {"failed", "cancelled"} /\ ~leaked => ~object
    /\ ~revoked => /\ revision > 0 <=> publication.status = "READY"
                   /\ publication.status = "READY" => object

(* The status is that of the attempt that wrote it last, or of the job     *)
(* that has been requested and has not got that far.                       *)
StatusIsAccountedFor ==
  /\ publication.status = "PROCESSING" /\ ~lost =>
       \E j \in Jobs : pc[j] \in {"converting", "publishing", "marking",
                                  "failing", "failed", "cancelling",
                                  "cancelled"}
  /\ publication.status = "PENDING" =>
       /\ jobStatus[publication.job] # "SUCCEEDED"
       /\ pc[publication.job] \notin {"readied", "returning"}

(* The conjunction that every action preserves.                            *)
IInv ==
  /\ TypeOK
  /\ JobsAreKnown
  /\ AttemptsAreAlone
  /\ ObjectIsAccountedFor
  /\ StatusIsAccountedFor
=============================================================================
