# GeoPortalX: a TLA+ verification project

GeoPortalX is a Django application in which web processes, Celery workers, the
browser and an operator's maintenance commands share a PostgreSQL/PostGIS
database, a Redis broker and an S3 store. This directory models how those
processes change the shared state, checks the models with TLC and proves the
main results with TLAPS. Paths below are relative to `src/backend/modules`
unless they start with `src/`.

## 1. Inventory

Settings that every component depends on: there is no `ATOMIC_REQUESTS`, so
each service is a chain of short transactions; row locks are taken with
`select_for_update` inside them; Celery runs with `acks_late`,
`reject_on_worker_lost`, a hard time limit of an hour and Redis's default
visibility timeout (`src/backend/geoportalx/settings/base.py:140-155`).

| component | state | operations | interacts with | what is hard | what makes it correct |
|---|---|---|---|---|---|
| **Jobs** (`jobs/`) | `Job` row: status, progress, retry counter, cancellation and finish times, task id, error | create and dispatch, queue, start, report, retry, finish, fail, request and acknowledge a cancellation; `execute_job` | broker (messages, revocation), every handler, the API | duplicated and lost messages, lost workers, unlocked reads before locked writes, cancellation at any point | one executor, final rows stay final, a waiting row is never cancelled, budgets respected, every job is taken |
| **Uploads** (`uploads/`) | `UploadSession` row; the multipart upload and object in the store | create, presign, complete, abort | object storage, browser, inspection (reads completed sessions) | calls to the store between transactions, misreported calls, dying requests, expiry | one request drives a session, completed means verified bytes, aborted means nothing left |
| **Object storage** (`object_storage/`) | objects, multipart uploads, lifecycle rule | initiate, complete, abort, HEAD, delete, download, publish | uploads, inspection, import, raster, exports | partial failure of publish | a published object is whole, a failed publication is found again |
| **Dataset inspection** (`dataset_inspection/`) | its job row and a temporary directory | `vector-inspect`, `raster-inspect` | jobs, uploads | archive limits | bounds on archives |
| **Dataset versions and import** (`datasets/services.py`, `handlers.py`, `importer.py`) | `Dataset` (status, current version), `DatasetVersion`, `VectorLayer`, staging and final tables, `Resource.lifecycle_status` | register, register a replacement, import, activate or roll back, cancel, fail | jobs, uploads, resources, tiles (read the current version) | several jobs for one version, steps outside transactions, crash between ready and activated | the current version of a ready dataset is ready and its tables exist; a failing candidate leaves the current version alone |
| **Import reconciliation** (`datasets/reconciliation.py`) | none of its own | report, drop orphan tables, fail stale versions | reads jobs, layers, versions, tables; drops tables | decides on unlocked reads | never drops a table in use, never fails a live import |
| **Raster publication** (`datasets/raster_*.py`) | `RasterPublication` row, one object under a key all attempts share, render settings with a revision | request, convert and publish, mark ready, fail, cancel, update the settings | jobs, object storage, tile caches | an attempt deletes what another stored; the revision starts again | what is served exists, nothing is left behind, one job is under way, the revision grows |
| **Vector exports** (`vector_exports/`) | `VectorExport` row, result object, signed links | create, run, synchronise with the job, cancel, download, purge | jobs, object storage | unlocked synchronisation, a purge between steps, an unlocked count | links lead to objects, objects can be found again, the limit is kept, ended jobs show |
| **Map documents** (`maps/`) | `MapDocument`, `MapDocumentVersion`, `MapLayerReference`, `MapDocumentVersionActivation` | create, save a version, activate, read | datasets, permissions | racing saves and activations, sources and permissions that change between queries | numbers without gaps, a record of activations that tells all, a map that grants nothing |
| **Profiles** (`datasets/profiling.py`) | `VectorLayer.field_statistics` | profile a table when it is imported | styles | samples, nulls, few or many values | what a style is classified by is true of the sample |
| **Vector styles** (`vector_styles/`) | `VectorStyle` with a revision | create with the layer, classify, update, legend | profiles, layers | classification before the lock, class bounds, rounding | one style per revision, classes told apart, the legend says what is painted |
| **Vector tiles and features** (`vector_tiles/`) | none | page through features, identify, proxy tiles | layers, tables | layers that go between two pages, cursors | pages give every feature once |
| **Permissions, resources, organizations** | `Resource`, `ResourcePermission`, `Organization`, memberships, groups | create, grant, change members, check, query | every API | one rule written twice, rows switched off and never deleted | the check and the query agree; taking away gives nothing |
| **Accounts, HTTP application, frontend, deployment** | - | - | - | - | - |

## 2. Plan

The modules follow what depends on what:

1. `JobLedger`, the abstract `JobContract` and the refinement between them:
   every asynchronous component runs on jobs, and the modules of 3 to 5 take
   from `JobContract` what a job may do to them.
2. `UploadSession`: the first use of an external store.
3. `VectorImport` with the reconciler, and the abstract `DatasetContract` it
   implements.
4. `VectorExport`: a row kept in step with a job and an object by readers.
5. `RasterPublication`: attempts that share one object.
6. `MapDocument`: racing transactions over versions, sources and permissions.
7. `PublishedLayer`, composed of `VectorProfile`, `VectorStyle` and `FeatureQuery`:
   what becomes of a layer after its import.
8. `AccessControl`: the rule behind every endpoint, decided in two ways.

Every modelled component has its proof module, and every safety property, action property
and refinement that a passing run checks is a theorem. Liveness stays with TLC.

The runs stay small in number: one passing run with every fault per module,
one for liveness where progress is promised, and a run that must fail only
where the code disagrees with its documentation. Type invariants, and a few
invariants that proofs need more than readers do, are proved and not checked
again by the runs.

## 3. Modules and the code they stand for

| module | what it is |
|---|---|
| `JobContract` | what a `Job` row promises to its readers: no broker, no workers |
| `JobLedger` | `jobs/services.py`, `jobs/tasks.py`, `jobs/context.py`, the broker, the workers and their faults |
| `JobLedgerRefinement` | the refinement mapping from `JobLedger` to `JobContract` |
| `JobLedgerProofs` | theorems about `JobLedger` |
| `UploadSession` | `uploads/services.py`, the store, the browser and their faults |
| `UploadSessionProofs` | theorems about `UploadSession` |
| `DatasetContract` | what a dataset promises to its readers: a current version that is ready |
| `VectorImport` | `datasets/services.py`, `handlers.py`, `importer.py`, `reconciliation.py` and the PostGIS tables, on the jobs of `JobContract` |
| `VectorImportProofs` | theorems about `VectorImport` |
| `VectorExport` | `vector_exports/services.py`, `handlers.py`, `exporter.py`, the purge command and `object_storage/publication.py`, on the jobs of `JobContract` |
| `VectorExportProofs` | theorems about `VectorExport` |
| `RasterPublication` | `datasets/raster_services.py`, `raster_handlers.py`, `signals.py` and the settings of `raster_tiles/rendering.py`, on the jobs of `JobContract` |
| `RasterPublicationProofs` | theorems about `RasterPublication` |
| `MapDocument` | `maps/services.py`, `maps/api.py`, the rules of `document_schema.py` and the constraints of `models.py` |
| `MapDocumentProofs` | theorems about `MapDocument` |
| `VectorProfile` | `datasets/profiling.py`: the statistics of a column of numbers or texts |
| `VectorStyle` | `vector_styles/services.py`: classes, colours, legend, updates |
| `Ordering` | ORDER BY and LIMIT over a finite set, for the two modules that query tables |
| `FeatureQuery` | `vector_tiles/queries.py` and `api.py`: a client that pages through features |
| `PublishedLayer` | the composition of the last three |
| `PublishedLayerProofs` | theorems about `PublishedLayer` |
| `AccessControl` | `permissions/`, `resources/`, `organizations/`: services and selectors |
| `AccessControlProofs` | theorems about `AccessControl` |
| `MCJobLedger`, `MCVectorImport`, `MCRasterPublication`, `MCMapDocument`, `MCPublishedLayer`, `MCAccessControl` | the values and symmetries TLC checks those modules with |

### JobLedger

*State.* `job` holds the rows (a row that is not inserted yet is `ABSENT`);
`dispatch` is where the `on_commit` callback of the creating web process stands;
`queue` counts the copies of a job's message at the broker; `pc`, `task`, `seen`,
`step` and `exc` are the local state of `execute_job` in a worker (`seen` is the
progress of the row it read before locking). `faults` counts the failures so far.

*Rows.* Every service that writes a row runs in one transaction with the row
locked, so it is an operator on rows (`Transitioned`, `Queued`, `Reported`,
`Retried`, `CancellationRequested`, `CancellationAcknowledged`); a service that
raises rolls back and returns the row unchanged. Actions apply them: `CreateJob`,
`MarkQueued`, `Publish`, `PublishRaises`, `RecordDispatchFailure` for the web process;
`Deliver`, `Start`, `ReportProgress`, `HandlerRaises`, `HandlerReturns`, `Complete`,
`RecordFailure`, `AcknowledgeCancellation`, `CheckRetryBudget`, `RecordExhaustion`,
`MarkRetrying`, `Republish`, `Acknowledge` for a worker, one for each transaction,
unlocked read or exchange with the broker of `execute_job`. A handler is the
sequence `Script` of progress values it reports, and may raise any exception of
`HandlerFaults` in between. `WebCrash`, `WorkerCrash`, `TimeLimit` and `Redeliver` are the
faults the settings provide for.

*Abstracted.* Payloads, messages and task ids (one bit says a task id is set);
percentages (`Top` stands for 100). The failures counted by `MaxPublishFaults`
include those where the broker took the message although the call raised.

### UploadSession

*State.* `session` holds the rows (status, whether a multipart id is stored, failure
code); `multipart`, `parts`, `object` what the store holds for the session's key;
`orphan` whether it holds a second multipart upload, which no answer has named;
`signed` whether a part URL has been handed out; `expired` whether `expires_at` has
passed; `pc`, `upload`, `prev` where a web request stands (`prev` is the status an
abort found); `lost` and `abandoned` count lost answers and dead requests per
session.

*Actions.* One for each transaction or call of `create_upload_session`,
`complete_upload_session` and `abort_upload_session`; `PresignPart` and `PutPart` for the
browser; `Abandon` for a process that dies or meets an error that is not a
`ClientError` (a time-out); `Expire` and `CleanUpIncomplete` for time and the bucket's
lifecycle rule. `Misreport` counts the answers that were lost although the store has
carried the call out: the client library repeats the call
(`object_storage/client.py:27`), and the repetition fails, because the multipart
upload is gone, or succeeds and leaves the first upload of `InitiateMultipart` an
orphan.

*Abstracted.* Sizes are `right` or `wrong`; parts, ETags and validation are left out.

### VectorImport

*Composition.* `Job == INSTANCE JobContract` over the variables `jobStatus`, `cancel` and
`owned`: an action of the handler is conjoined with the action of the contract it
performs (`BeginImport` with `Begin`, `Finish` with `Settle` or, when the row has been
ended already, `Abandon`, `Die` with `Abandon`), so everything the run `faults` shows of the
ledger is what this module relies on and no more: one handler per job, never
restarted, any cancellation, a row ended by the dispatcher under a running handler.
`Retry` is left out: the import handler raises no `RetryableJobError`.

*State.* `dataset` is the `Dataset` row with its resource's lifecycle status; `version`
and `layer` are the rows below it (`published` says the storage metadata is set);
`tables` are the staging (`stg`) and final (`v`) tables that exist, which are named after
their layer. `pc`, `at` and `known` are the local state of `run_vector_import`: where it
stands, the layer its loop has come to, and the layers whose table names its
in-memory objects carry (`drop_vector_layer_storage` goes by these, not by the
database). `reconciler`, `inventory`, `found` and `stale` are the local state of the
reconciliation command. `leaks` records the versions whose worker died or whose
tables refused to drop; `revoked` says that the current version is being withdrawn,
or was, by its own import; properties that cannot hold then say so.

*Actions.* `Register`, `RegisterReplacement`, `ActivateVersion` and `RunImport` (a job posted
to the jobs API) are the user's; `ResolveVersion` to `ActivateImported` are the
handler's transactions, reads and table statements in their order;
`NoticeCancellation`, `RaiseInImport` and `RaiseOutside` interrupt it at every point where a
check or an exception can; `CleanUp`, `MarkImportFailed` and `MarkImportCancelled` are its
`except` blocks, whose transaction may itself raise (`FailToSettle`); `ListTables` to
`StopReconciliation` are the command's. After `ActivateImported` the handler is still
inside the `try` block and has to leave the directory of the upload (`leaving`):
an exception there withdraws the version that is now current, as the code does.

*Abstracted.* A progress report that returns changes nothing here, so it is a
conjunct of the step behind it; the two reports and the download before the loop
are `Materialize`. Source data, profiles, extents, activation history and
timestamps are left out. Time is left out too: a layer may be stale whenever no
worker is loading it, because the grace period is the hard time limit of a job.

*Two environments.* `SharedImports` lets users start an import of, or activate, a version
whose import is under way; `ReconcileAnytime` lets the reconciler run, and imports
start under it, at any time. The code prevents neither. The passing run sets both to
`FALSE` (the reconciler then still runs, between imports); the runs `import_shared` and
`import_reconcile` set one to `TRUE` and show what is lost.

### VectorExport

*State.* `row` holds the `VectorExport` rows and `store` the exports whose object is in the
bucket; jobs are `JobContract`'s, export and job being one to one. `pc` and `holds` are
the local state of `run_vector_export` (`holds`: its variable `published` is set);
`reader` and `seen` are a request that has read a row and its job, and what it read;
`admitted` are creations between the count and the insertion; `listed` and `purged` are
the purge command's; `links` are signed URLs that have not expired. The user's
other exports are counted in `others`. Three sets name the exceptions of the
properties: `stale` (a late reader overwrote a settled row), `revoked` (the handler
failed after READY), `leaks` (an object could not be verified or deleted).

*Actions.* `CountActive` and `CreateVectorExport` (the transaction locks nothing, so others run
between its two statements); `Read` and `SynchronizeExportStatus` for
`synchronize_export_status`, `CreateDownloadGrant`, `RequestCancellation`; `ResolveExport` to
`Finish` for the handler, one for each transaction, report or call to the store, with
`RaiseInExport`, `RaiseOutside` and `NoticeCancellation` at every point where they can strike
and `FailToSettle` for an exception in the transaction that settles the row;
`ListExpired`, `PurgeObject`, `SavePurged`, `StopPurge` for the command; `Expire`, `ReplaceLayer` and
`Die` for the clock, the dataset and the worker.

*Abstracted.* Formats, fields, bbox, the ogr2ogr command and file names.

### RasterPublication

*State.* `publication` is the row with its status, whether it has a key, and its job;
`object` says that there is an object under the one key of the publication; `revision`
is the revision of the render settings. `pc` is where an attempt stands in each job,
`requested` the jobs that `request_raster_publication` created (users may post
`raster-publish` jobs of their own). `lost`, `leaked`, `revoked` and `overlapped` remember
what the properties except.

*Actions.* `RegisterRaster` and `EnsureInitialPublication` (the hook after the commit, which a
dying process loses: `LoseInitialPublication`); `PublishRasterDataset`, `PostJob`,
`UpdateRenderSettings`; `BeginPublish` to `Finish` for `run_raster_publish`, as in `VectorExport`.
`DeletePublished` deletes the key whether this attempt stored the object or not, as
the code does; `MarkReady` resets the settings, as `update_or_create` does;
`FailToSettle` is an exception in `_mark_failed` or `_mark_cancelled` themselves.

*Abstracted.* The conversion is a step that succeeds or raises; the validation of
render settings and the requests to TiTiler are left out.

### MapDocument

*State.* `rows`, `published` and `history` are `MapDocumentVersion`, `current_version` and
`MapDocumentVersionActivation`; `lock` is the row lock of the map. `current` and `usable`
are the dataset behind the layer, `viewers` the requests whose actor may view it now
(and `allowed` those whose actor could at some moment of the request). `call` is what a
request has read and where it stands; `conflict` remembers that an insert met
the unique constraint on version numbers.

*Actions.* One for each query of a request: `LockedEditableMap`, `ReadDatasets` and
`ReadLayers` for `_validate_source_references`, `Commit` for the writes of
`create_map_document`, `create_map_document_version` and `activate_map_document_version`,
which appear together when the transaction commits, `Reload` and `Reply` for
`_accessible_map_detail`. `NotEditable` and `Raises` are the error paths, which roll back.
`Environment` changes the dataset and the permissions between any two of them.

*Abstracted.* A document has one layer; names, view, styles and popups are left out.
A version that is activated again is validated again, as the code does.

### PublishedLayer, VectorProfile, VectorStyle, FeatureQuery

*Composition.* `PublishedLayer` extends `VectorStyle` (which extends `VectorProfile`) and
`FeatureQuery`; `Publish` is the save by which the import makes the layer READY and
the signal creates its style, `Turn` serves the layer, once its version has become
current in a transaction of its own, or withdraws it,
`DropTable` is what `VectorImport` does to versions that are not current.

*VectorProfile* is pure: `ProfileField` computes minimum, maximum (of numbers) and common
values of a sample, equally common ones in the order of their texts (`Collation`). *VectorStyle* has `style` (the row) and `update` (a request between `Classify`, which
reads the layer, `LockStyle` and `SaveStyle`); `GraduatedClasses`, `CategoricalClasses` and
`PaletteColors` are `_graduated_classes`, `_categorical_classes` and `_palette_colors` with
Python's rounding and class bounds in whole units. `Painted` and `LegendColors` are
what `_color_expression` and `_legend` say of a value, translated apart: the map
compares with the bounds, in floating point, so that a value which meets a bound
may fall on either side of it (`Reached`), and takes null for 0 or for the empty
text; the legend has nothing but a colour and a label, which `Format` has rounded.
*FeatureQuery* has a client's `walk` through the pages: `GetLayer` is the check,
`ListLayerFeatures` the query with its extra row and its cursor; `InOrder` is its ORDER
BY `gx_fid`, which `Ordering` defines by rank.

*Abstracted.* One column, of integers or of texts; texts are told apart and ordered
and nothing else; symbols other than their colour; geometry; the features a bbox
selects are any set.

### AccessControl

*State.* `organization`, `member`, `inGroup`, `resource` and `grants` are the rows of the models, for one
resource; rows that are switched off stay. *Operators.* `HasResourcePermission` is the
check, `AccessibleTo` the query; each is translated from its own code with its own
helpers (`OrganizationIdsFor` and `GroupIdsFor` against `MemberOrganizations` and
`MemberGroups`, `IsSubject` against `SubjectsOf`). *Actions.* `CreateOrganization`,
`SetMemberRole`, `DeactivateMember` and `CreateResource` are services; grants, groups and
switching off are what administrators do, `Expire` is the clock.

*Abstracted.* One resource; titles, slugs, metadata and its lifecycle status.

## 4. Runs

Every run is one row of `PROJECT.json`; all passing runs search the whole state
space of the instance.

- `faults` (`MCJobLedger`, `JobLedger_faults.cfg`): one job, three workers, a handler
  that reports twice and may raise either kind of exception, retry limits 0 to 2,
  one lost web process, two lost workers, one hard time limit, one failed
  publication, two redeliveries, and cancellation at any time. All properties of the run
  hold and `JobLedger` implements `JobContract`. Jobs do not touch each other
  (every action writes one row and a worker holds one message), so one job is
  enough; three workers let two of them race while a third holds a stale message;
  two redeliveries and two crashes give more copies of the message than workers.
- `live` (`JobLedger_live.cfg`): the same with two workers and one redelivery, under
  fairness; 147,965 states.
- `upload_faults` (`UploadSession_faults.cfg`): one session (sessions share no state),
  three requests (two race while the third arrives late), one lost answer, two dead
  requests; 11,851 states.
- `import_faults` (`MCVectorImport`, `VectorImport_faults.cfg`): two versions (one served,
  one candidate) of two layers (one ready while the other fails), two jobs (each
  imports a version, or one imports again what the other has left), every step may
  raise, every worker may die, every drop and every settling transaction may fail;
  2.2 million states. A third
  version or layer adds nothing the second does not: a version is current,
  candidate or neither, and a layer is before, at or after the cursor of a loop.
- `export_faults` (`VectorExport`, `VectorExport_faults.cfg`): one export among the others of
  its user, which enter as numbers (exports share nothing but the limit), a limit of
  one and two creations at once (so that two overlap and the limit is exceeded by
  one), one reader, any cancellation, death, failing store, expiry and purge;
  116,238 states. More readers and exports are covered by the proofs.
- `raster_faults` (`MCRasterPublication`, `RasterPublication_faults.cfg`): two jobs for the one
  publication, requested or posted by users, in every order and overlapping, with
  every fault; three revisions, enough to be reset from; 197,189 states.
- `map_races` (`MCMapDocument`, `MapDocument_races.cfg`): two requests (what can go wrong goes
  wrong between two), a dataset with two versions (current and pinned differ), three
  writes, so that a version can be saved, another published and the first brought
  back; 686,400 states.
- `layer_use` (`MCPublishedLayer`, `PublishedLayer_use.cfg`): all columns of three rows over
  null and either 8, 1000 and 1005 (equal, unequal and missing values; a text order
  that is not that of the numbers; widths that do not divide; labels with and
  without digits, some of them equal in nine classes) or texts, the empty one among
  them, class counts 0, 4 and 9 (refused, places that round, the most), two
  racing editors, pages of one or two of three features, the first of which has id
  0; 535,768 states. A sample is all of the table here: what is outside of it is
  classified by nobody.
- `access` (`MCAccessControl`, `AccessControl_decide.cfg`): two users and whoever is not logged in,
  an organization with a group, a share link, one grant at a time (grants are
  alternatives: the decision is a disjunction over them); 46,144 states. No user is a
  superuser: that branch is the theorem's, a third user being too many for TLC.
- `lostworker`, `import_shared` and `import_reconcile` check one property each that the
  documentation states and the code does not keep: section 8.

`CHECK_DEADLOCK FALSE` is set where the system may stop: all jobs finished and no
request left is a final state of `JobLedger`, `UploadSession`, `VectorImport`, `VectorExport` and
`RasterPublication`, whose jobs and requests are bounded.

## 5. Fairness

`JobLedger!Fairness` asks that a web process that is alive runs its callback, that a
waiting message is taken by some worker and that a worker that is alive takes its
next step. Nothing is assumed of users (who may cancel or not) or of faults, and
progress is claimed only up to the faults that end it: no part of the code looks
for a row that a lost web process left `PENDING` or `QUEUED`, or that a failed
publication left `RETRYING` (`WaitingIsTaken`), nor for one that a lost worker or a
killed task left `RUNNING` (`FinishesUnlessLost`). The run `live` has all these faults.
`UploadSession!FairSpec` asks that a request being served goes on.

`VectorExport!Fairness` asks that a request that has read goes on, and (strongly,
because a reader is busy in between) that somebody keeps asking for an export he
waits for, as the frontend does: rows are settled by those who read them and by
nobody else. Nothing is assumed of the worker, the clock or the purge.

## 6. What is proved

Every theorem holds for any finite or infinite sets of jobs, workers, requests and
the like that the module's assumption allows; each proof module starts from that
assumption alone. In each the argument is an inductive invariant `IInv` that every
action preserves, checked with TLC before it was proved.

**`JobLedgerProofs`**: `TypeOK`, `SingleExecutor`, `WaitingNotCancelled`, `LedgerConsistent`,
`RetryBudget`, `TerminalFrozen` and `CancelledOnlySettles`. `IInv` adds two facts about
workers: one inside the handler code works on a row that has left the waiting
statuses (`ExecutingStarted`, without which a `Start` could admit a second worker), and
one that found the budget spent is right (`ExhaustedSpent`: the row cannot lose
retries between the unlocked read and the write). The proof follows what happens
to a row (`RowsProgress`), then the workers other than the one that moves
(`FrameStep`), then the one that moves. Two results rest on it. `ContractIsKept` is the
refinement: every step of the web processes, the broker, the workers and the
faults is a step of `JobContract` or leaves its three variables alone, for any number
of jobs and workers and any bounds on the faults. `ProgressNeverFalls` needs a second
invariant, `MessageInv`: as long as no message was doubled (by the broker, or for a lost
worker) a job has one message, waiting for its dispatch, at the broker or in one
worker, so that the progress which that worker read without a lock (`seen`) is still
that of the row when it starts the job.

**`UploadSessionProofs`**: `TypeOK`, `SingleDriver`, `CompletedVerified`, `AbortedIsClean`,
`StrandedOnlyByDeath`, `OpenIsLinked`, `UploadingIsOpen` and `SettledFrozen`. `IInv` says what a
request may rely on between two of its steps (`Held`) and what holds of a session
whoever serves it (`Kept`); the transient statuses act as a lock, so a request that
is past its reservation is the only one to change its session (`OnlyDriver`), and
everybody else's facts survive.

**`VectorImportProofs`**: `TypeOK`, `ServedIsReady`, `NoLeftovers`, `ImportingIsDriven`,
`ReadyIsPublished` and `ImplementsDataset`, for any number of versions, layers and jobs.
`IInv` has three parts. Whatever users and the reconciler do, the rows of dataset,
versions, layers and targets agree (`RowsAgree`), and a handler has the job that its
place in the code presupposes (`JobsAgree`). Unless imports are shared, a version is
busy with one job (`AttemptsAreAlone`), so that no handler withdraws what another has
made ready (`CandidatesAreGuarded`) and each table of a version that is not ready is
held by the handler that will rename or drop it (`StorageIsHeld`, by the names it has
in memory). If moreover the reconciler and the imports keep out of each other's
way, a ready layer keeps its table until its version is ready (`RunningIsStored`): the
two unlocked reads of the command find nothing that is still moving
(`ReconcilerIsApart`). The hypotheses of the theorems are the two restrictions of
section 3 and no others: without them the properties are false, as the runs
`import_shared` and `import_reconcile` show. `ImplementsDataset` follows step by step: what
a handler does to a candidate stutters or is one of `Publish` and `Withdraw`, the one
step that moves the current version moves it to one that is ready (`Serve`), and an
import that raises after its activation `Revoke`s what is served. Only a revoked
version may be given up (`GiveUp`). `CandidatesAreGuarded` says why: a handler that is
failing works on a version that is not current, unless `revoked` is set, and
`revoked` is set by nothing but an exception in an import of the current version.

**`VectorExportProofs`**: `TypeOK`, `LinksLead`, `ObjectsAreKept`, `ActiveIsBounded`. The clock
orders everything (`Timed`): an object is in the store as long as the expiry time is
ahead, links are signed only until then, and the purge lists a row only after it,
so that a purge that works from an old list cannot take an object from a link.
`Accounted` says who answers for an object (the handler that holds it, or the row
that names it), `Informed` what a reader may still rely on of what it has read.
`ActiveIsBounded` needs the cardinality of the active and the admitted exports
together: an insertion moves one from one set to the other, and a creation is
admitted only while fewer than `MaxActive` are active.

**`RasterPublicationProofs`**: `TypeOK`, `ServedExists`, `NoLeftovers`, `RequestsDoNotPile`,
`ShownIsDriven`, `RevisionGrows`. The shared key needs `AttemptsAreAlone` (unless they
overlap, attempts do not work on a publication that is ready),
`ObjectIsAccountedFor` (the object comes with READY and goes with the attempt that
gives up) and `StatusIsAccountedFor` (who drives the status that is shown).

**`MapDocumentProofs`**: `TypeOK`, `VersionsAreNumbered`, `ActivationsChain`, `GrantsNothing`,
`ReferencesAreSound`, `SnapshotsAreKept`. `LockIsHeld` says that a request which has read
the published version under the lock has it until it commits, and `WritesAreSound`
that the number and the count it is about to write are still the next; the chain
then grows by one record, and the counts of the versions by the place it leads to.
`ViewersAreKnown` carries the permission from the check to the reply.

**`PublishedLayerProofs`**: `TypeOK` (a style, and whatever an editor is about to write, is
one that the profile of the layer allows), `StyleIsRevised`, from the exclusive lock
of the row with the revision that was read under it, and three results about what
is computed from data, for any table, any number of classes and any page size.

- `PagesAreComplete`: the rows of a set in order are characterised by rank (the
  k-th has k - 1 before it), so that no induction over the set is needed: a
  sequence which lists a set and ascends is that set in order, and what lies
  beyond the cursor, in order, is the rest of it. A page then continues the walk
  exactly where the last one ended (`PageIsNext`, `WalkIsInOrder`), whether or not the
  extra row was there, and `WalkIsOverTable` says that what is left is still in the
  table.
- `ClassesAreTold`: the colour of the i-th of n classes is the palette's at a rounded
  place, which is a half off at most (`RoundIsNear`); as there are no more classes than
  colours, no two of them meet (`PaletteIsToldApart`).
- `LegendTellsTheColor`: a value of the profiled rows lies in one class of a graduated
  style (`OneClass`: the bounds ascend and the last class takes the maximum in), and
  on its bound in one or the other of two adjacent ones (`AdjacentLegend`). Labels
  are rounded, and rounding respects the order and leaves whole numbers alone
  (`FormatGrows`, `FormatAtWhole`, from `RoundGrows` and `RoundOfWhole`): a number between
  two bounds is therefore between the numbers of their label, and strictly inside
  no other label. In a categorical style the value is one of the common ones or
  none (`CategoricalLegend`), null being the empty text for the map.
  `ProfileIsOfTable` connects the style with the table that is served.

**`AccessControlProofs`**: `TypeOK`, `CheckIsQuery`, `ActionsAreOrdered`, `OutsidersGainNothing`,
`WithdrawalGivesNothing`. The first two follow from the definitions in any state of
the right type, organizations and groups being found by the two formulations
alike; the last from each withdrawing action making every part of the check
weaker or leaving it alone.

**Composition.** `ContractIsKept` shows that the ledger keeps `JobContract`. From the other
side `JobsKeepTheContract`, in the proof modules of `VectorImport`, `VectorExport` and
`RasterPublication`, shows that these do nothing to a job that `JobContract` excludes, in
any of their steps (a few actions only conjoin one of its steps). The results about
imports, exports and rasters thus speak of jobs through this interface alone.

## 7. What is only model-checked

Liveness, which the prover does not reach: `WaitingIsTaken` and `FinishesUnlessLost` of
`JobLedger`, `TransientSettles` of `UploadSession`, `EndedIsSettled` of `VectorExport`, each under
the fairness of section 5 and within the bounds of section 4.
`ImportingIsDriven` is a theorem that stands for a liveness property: a version is
importing only as long as a job will settle it, and that jobs end is
`WaitingIsTaken` and `FinishesUnlessLost`, hence model-checked.

The bounds on faults, revisions and writes are constants, and the theorems hold for
any value of them. What section 3 abstracts is abstracted in the theorems too.

## 8. Where code and documentation disagree

| run | property | what the run shows |
|---|---|---|
| `lostworker` | `UncancelledFinishes` | the message of a lost worker is requeued and answered "already-running": the row stays `RUNNING` |
| `import_shared` | `ServedIsReady` | an import fails or resets the version that a user, or a second import of it, has made current |
| `import_reconcile` | `ReadyIsPublished` | the reconciler drops the table of a layer that became ready after it read the layers |

The models show more, which no run claims; the properties name these cases as
exceptions, and a reader may want to know them.

*Jobs.* A cancellation that arrives between a `RetryableJobError` and `mark_job_retrying`
raises inside the `except` block and is never acknowledged, although "the Worker
acknowledges the request by moving the Job to `CANCELLED`"
(`src/docs/handoff/2026-07-28-job-execution-lifecycle.md:110`). A retried handler
reports below the progress its first attempt left and fails with `ValueError` while
retries are left (line 97 of that document names the retry limit only). Both need
a handler that raises `RetryableJobError`, and none in the tree does so yet.

*Imports, after the activation.* An exception between the commit that activates a
version (`datasets/handlers.py:219`) and the end of the `try` block (line 66: the
temporary directory of the upload, a soft time limit, a lost acknowledgement of the
commit) is handled like any other: `_mark_import_failed` drops the tables of the
version that is now current and marks it `FAILED`, dataset and resource staying
`READY`, although "the currently active version remains online throughout inspection,
registration, import, cancellation and failure"
(`src/docs/handoff/2026-07-28-dataset-version-lifecycle.md:11`). `ServedIsReady` and
`DatasetContract` name this case (`revoked`) and show that it is the only one.

*Settling.* An exception in the transaction by which an `except` block settles its row
(`_mark_import_failed`, `_mark_failed` and the like; `FailToSettle`) ends the job as
`FAILED` and leaves the version `IMPORTING` or the publication `PROCESSING` for good; an
export is settled by its next reader.

*Uploads.* `EXPIRED` is saved and rolled back by the exception raised in the same
transaction (`uploads/services.py:156`), so that no session ever gets there, although
`src/docs/handoff/2026-07-28-storage-upload-sessions.md:67` draws it. `UploadingIsOpen`
and `AbortedIsClean` hold as long as no answer of the store was lost (`lost[u] = 0`): when
that of `CompleteMultipartUpload` is, the session goes back to `UPLOADING` over an
object that has been assembled, and it can neither be completed nor aborted; when
that of `CreateMultipartUpload` is, the repeated call opens a second upload, and the
first stays until the bucket's rule removes it. A session whose upload that rule has
removed cannot be closed by a store that answers `NoSuchUpload`.

*Imports.* `ReadyIsPublished` holds except for the versions of `Withdrawing`:
`_mark_import_failed` drops the tables before it marks the version, so while it cleans
up after a failed activation, and for good if its worker dies there, a `READY` version
has no tables; activating it then serves nothing. A failed or lost import that
ends in `Lost` leaves the version `IMPORTING`, and no replacement can be registered:
one cancelled while it waits, one refused before the `try` block (its creator lost
the permission to edit), one the dispatcher took for lost.

*Exports.* An export is settled by whoever reads it, and those whose layer is no
longer accessible are read by nobody: a failed job leaves them `PENDING` or `RUNNING`,
where they count against the limit, although the synchronisation is said to work
"so broker failures, queued cancellation and worker failures cannot leave stale
export states indefinitely" (`src/docs/handoff/2026-07-28-vector-export-delivery.md:72`).
A reader that is late overwrites a row that has been settled (`stale`), and with
FAILED or CANCELLED over READY its object is purged by nobody.

*Rasters.* Every publication sets the render revision back to 1, so that caches may
serve older tiles under the same address; only overlapping attempts, or one that
fails after READY, bring this about, because a ready publication is not published
again (`RevisionGrows`). Attempts that overlap may delete the object that is served.

*Maps and styles.* The last writer wins: a save of a map or a style says nothing of
the version it started from. The detail of a map is read by several queries and
may show a document of one moment with the sources of another.

*Legends.* The last row of a legend is for "其他或空值" ("other or empty"), in the fallback
colour (`vector_styles/services.py:517`), but in a graduated style the map turns a null
into 0 and paints it in the colour of a class (lines 442-449), and in a categorical
style with a class of empty texts it paints a null in that class (line 435).
`LegendTellsTheColor` leaves these nulls out (`NullIsOther`). Labels are rounded, so that
several rows of a legend may read alike (1000 to 1005 in nine classes has "1,001 –
1,001" twice) and a value on a rounded bound has several colours in the legend, of
which the map paints one (`OnBound`).

*Access.* `can_create_organization_resource` does not ask whether the organization is
active (`organizations/selectors.py:31`); the endpoint that calls it has asked before.

## 9. What is not modelled

- **Job registry, selectors, sample handlers**: a dictionary filled at start-up and
  read-only queries; a handler is a script of reports and exceptions in `JobLedger`.
- **Dataset inspection**: a function of a file, with no state but its job row.
- **Profiles of geometry, dates and text lengths**: descriptions nobody computes with.
  Columns of decimals, dates or booleans are classified by their texts as those of
  strings are. That MapLibre's text of a number may differ from PostgreSQL's (1.0 and
  "1", numbers beyond 2^53) is left out, and so is the error of a floating-point bound
  where it would change the digits of a label; bounds of adjacent classes are
  computed by the same expression, so that their labels agree.
- **Tiles of Martin and TiTiler, identification, single features**: proxies and single
  reads without state.
- **HTTP application and accounts**: routing, error mapping, a user model; each endpoint
  appears as the action of the service it calls.
- **Frontend, deployment, CI, migrations**: no state the server relies on, or none at
  all.
- **Object storage**: the set-up of the bucket, downloads to workers and key building.
