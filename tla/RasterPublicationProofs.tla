---------------------- MODULE RasterPublicationProofs ----------------------
(***************************************************************************)
(* Proofs about RasterPublication, for any number of jobs and of updates   *)
(* of the render settings.                                                 *)
(***************************************************************************)
EXTENDS RasterPublication, TLAPS

USE PublicationAssumption

-----------------------------------------------------------------------------
(* What is written to a row that has its type.                             *)
LEMMA StatusWritten ==
  ASSUME NEW row \in Publication, NEW status \in PublicationStatus
  PROVE  [row EXCEPT !.status = status] \in Publication
  BY DEF Publication

LEMMA ReadyWritten ==
  ASSUME NEW row \in Publication
  PROVE  [row EXCEPT !.status = "READY", !.key = TRUE] \in Publication
  BY DEF Publication, PublicationStatus

-----------------------------------------------------------------------------
(* Every action preserves the invariant.                                   *)

LEMMA RegisterRasterIInv ==
  ASSUME IInv, RegisterRaster
  PROVE  IInv'
<1>. USE DEF RegisterRaster, Go, jobVars, ghostVars
<1>1. TypeOK'
  BY DEF IInv, TypeOK, Publication, PublicationStatus, Labels, Handling,
         Terminal, ActiveJobStatuses
<1>2. JobsAreKnown'
  BY DEF IInv, TypeOK, JobsAreKnown, Publication, ActiveJobStatuses
<1>3. AttemptsAreAlone'
  BY DEF IInv, TypeOK, AttemptsAreAlone, Publication, Handling
<1>4. ObjectIsAccountedFor'
  BY DEF IInv, TypeOK, AttemptsAreAlone, ObjectIsAccountedFor, Publication,
         Handling
<1>5. StatusIsAccountedFor'
  BY DEF IInv, TypeOK, JobsAreKnown, StatusIsAccountedFor, Publication
<1>. QED
  BY <1>1, <1>2, <1>3, <1>4, <1>5 DEF IInv

LEMMA LoseInitialPublicationIInv ==
  ASSUME IInv, LoseInitialPublication
  PROVE  IInv'
<1>. USE DEF LoseInitialPublication, Go, jobVars, ghostVars
<1>1. TypeOK'
  BY DEF IInv, TypeOK, Publication, PublicationStatus, Labels, Handling,
         Terminal, ActiveJobStatuses
<1>2. JobsAreKnown'
  BY DEF IInv, TypeOK, JobsAreKnown, Publication, ActiveJobStatuses
<1>3. AttemptsAreAlone'
  BY DEF IInv, TypeOK, AttemptsAreAlone, Publication, Handling
<1>4. ObjectIsAccountedFor'
  BY DEF IInv, TypeOK, AttemptsAreAlone, ObjectIsAccountedFor, Publication,
         Handling
<1>5. StatusIsAccountedFor'
  BY DEF IInv, TypeOK, JobsAreKnown, StatusIsAccountedFor, Publication
<1>. QED
  BY <1>1, <1>2, <1>3, <1>4, <1>5 DEF IInv

LEMMA UpdateRenderSettingsIInv ==
  ASSUME IInv, UpdateRenderSettings
  PROVE  IInv'
<1>. USE DEF UpdateRenderSettings, Go, jobVars, ghostVars
<1>1. TypeOK'
  BY DEF IInv, TypeOK, Publication, PublicationStatus, Labels, Handling,
         Terminal, ActiveJobStatuses
<1>2. JobsAreKnown'
  BY DEF IInv, TypeOK, JobsAreKnown, Publication, ActiveJobStatuses
<1>3. AttemptsAreAlone'
  BY DEF IInv, TypeOK, AttemptsAreAlone, Publication, Handling
<1>4. ObjectIsAccountedFor'
  BY DEF IInv, TypeOK, AttemptsAreAlone, ObjectIsAccountedFor, Publication,
         Handling
<1>5. StatusIsAccountedFor'
  BY DEF IInv, TypeOK, JobsAreKnown, StatusIsAccountedFor, Publication
<1>. QED
  BY <1>1, <1>2, <1>3, <1>4, <1>5 DEF IInv

LEMMA EnsureInitialPublicationIInv ==
  ASSUME IInv, NEW j \in Jobs, EnsureInitialPublication(j)
  PROVE  IInv'
<1>. USE DEF EnsureInitialPublication, Go, jobVars, ghostVars,
             RequestPublication, Open, Job!Submit, Job!Move
<1>1. TypeOK'
  BY DEF IInv, TypeOK, Publication, PublicationStatus, Labels, Handling,
         Terminal, ActiveJobStatuses
<1>2. JobsAreKnown'
  BY DEF IInv, TypeOK, JobsAreKnown, Publication, ActiveJobStatuses
<1>3. AttemptsAreAlone'
  BY DEF IInv, TypeOK, AttemptsAreAlone, Publication, Handling
<1>4. ObjectIsAccountedFor'
  BY DEF IInv, TypeOK, AttemptsAreAlone, ObjectIsAccountedFor, Publication,
         Handling
<1>5. StatusIsAccountedFor'
  BY DEF IInv, TypeOK, JobsAreKnown, StatusIsAccountedFor, Publication
<1>. QED
  BY <1>1, <1>2, <1>3, <1>4, <1>5 DEF IInv

LEMMA PublishRasterDatasetIInv ==
  ASSUME IInv, NEW j \in Jobs, PublishRasterDataset(j)
  PROVE  IInv'
<1>. USE DEF PublishRasterDataset, Go, jobVars, ghostVars, RequestPublication,
             Open, Job!Submit, Job!Move
<1>1. TypeOK'
  BY DEF IInv, TypeOK, Publication, PublicationStatus, Labels, Handling,
         Terminal, ActiveJobStatuses
<1>2. JobsAreKnown'
  BY DEF IInv, TypeOK, JobsAreKnown, Publication, ActiveJobStatuses
<1>3. AttemptsAreAlone'
  BY DEF IInv, TypeOK, AttemptsAreAlone, Publication, Handling
<1>4. ObjectIsAccountedFor'
  BY DEF IInv, TypeOK, AttemptsAreAlone, ObjectIsAccountedFor, Publication,
         Handling
<1>5. StatusIsAccountedFor'
  BY DEF IInv, TypeOK, JobsAreKnown, StatusIsAccountedFor, Publication
<1>. QED
  BY <1>1, <1>2, <1>3, <1>4, <1>5 DEF IInv

LEMMA PostJobIInv ==
  ASSUME IInv, NEW j \in Jobs, PostJob(j)
  PROVE  IInv'
<1>. USE DEF PostJob, Go, jobVars, ghostVars, Job!Submit, Job!Move
<1>1. TypeOK'
  BY DEF IInv, TypeOK, Publication, PublicationStatus, Labels, Handling,
         Terminal, ActiveJobStatuses
<1>2. JobsAreKnown'
  BY DEF IInv, TypeOK, JobsAreKnown, Publication, ActiveJobStatuses
<1>3. AttemptsAreAlone'
  BY DEF IInv, TypeOK, AttemptsAreAlone, Publication, Handling
<1>4. ObjectIsAccountedFor'
  BY DEF IInv, TypeOK, AttemptsAreAlone, ObjectIsAccountedFor, Publication,
         Handling
<1>5. StatusIsAccountedFor'
  BY DEF IInv, TypeOK, JobsAreKnown, StatusIsAccountedFor, Publication
<1>. QED
  BY <1>1, <1>2, <1>3, <1>4, <1>5 DEF IInv

LEMMA EnqueueIInv ==
  ASSUME IInv, NEW j \in Jobs, Enqueue(j)
  PROVE  IInv'
<1>. USE DEF Enqueue, Go, jobVars, ghostVars, OutsideVars, Job!Enqueue,
             Job!Move
<1>1. TypeOK'
  BY DEF IInv, TypeOK, Publication, PublicationStatus, Labels, Handling,
         Terminal, ActiveJobStatuses
<1>2. JobsAreKnown'
  BY DEF IInv, TypeOK, JobsAreKnown, Publication, ActiveJobStatuses
<1>3. AttemptsAreAlone'
  BY DEF IInv, TypeOK, AttemptsAreAlone, Publication, Handling
<1>4. ObjectIsAccountedFor'
  BY DEF IInv, TypeOK, AttemptsAreAlone, ObjectIsAccountedFor, Publication,
         Handling
<1>5. StatusIsAccountedFor'
  BY DEF IInv, TypeOK, JobsAreKnown, StatusIsAccountedFor, Publication
<1>. QED
  BY <1>1, <1>2, <1>3, <1>4, <1>5 DEF IInv

LEMMA CancelIInv ==
  ASSUME IInv, NEW j \in Jobs, Cancel(j)
  PROVE  IInv'
<1>. USE DEF Cancel, Go, jobVars, ghostVars, OutsideVars, Job!Cancel,
             Job!Move, Job!Waiting
<1>1. TypeOK'
  BY DEF IInv, TypeOK, Publication, PublicationStatus, Labels, Handling,
         Terminal, ActiveJobStatuses
<1>2. JobsAreKnown'
  BY DEF IInv, TypeOK, JobsAreKnown, Publication, ActiveJobStatuses
<1>3. AttemptsAreAlone'
  BY DEF IInv, TypeOK, AttemptsAreAlone, Publication, Handling
<1>4. ObjectIsAccountedFor'
  BY DEF IInv, TypeOK, AttemptsAreAlone, ObjectIsAccountedFor, Publication,
         Handling
<1>5. StatusIsAccountedFor'
  BY DEF IInv, TypeOK, JobsAreKnown, StatusIsAccountedFor, Publication
<1>. QED
  BY <1>1, <1>2, <1>3, <1>4, <1>5 DEF IInv

LEMMA UndeliverableIInv ==
  ASSUME IInv, NEW j \in Jobs, Undeliverable(j)
  PROVE  IInv'
<1>. USE DEF Undeliverable, Go, jobVars, ghostVars, OutsideVars,
             Job!Undeliverable, Job!Move
<1>1. TypeOK'
  BY DEF IInv, TypeOK, Publication, PublicationStatus, Labels, Handling,
         Terminal, ActiveJobStatuses
<1>2. JobsAreKnown'
  BY DEF IInv, TypeOK, JobsAreKnown, Publication, ActiveJobStatuses
<1>3. AttemptsAreAlone'
  BY DEF IInv, TypeOK, AttemptsAreAlone, Publication, Handling
<1>4. ObjectIsAccountedFor'
  BY DEF IInv, TypeOK, AttemptsAreAlone, ObjectIsAccountedFor, Publication,
         Handling
<1>5. StatusIsAccountedFor'
  BY DEF IInv, TypeOK, JobsAreKnown, StatusIsAccountedFor, Publication
<1>. QED
  BY <1>1, <1>2, <1>3, <1>4, <1>5 DEF IInv

LEMMA BeginPublishIInv ==
  ASSUME IInv, NEW j \in Jobs, BeginPublish(j)
  PROVE  IInv'
<1>. USE DEF BeginPublish, Go, jobVars, ghostVars, Job!Begin, Job!Move
<1>1. TypeOK'
  BY DEF IInv, TypeOK, Publication, PublicationStatus, Labels, Handling,
         Terminal, ActiveJobStatuses
<1>2. JobsAreKnown'
  BY DEF IInv, TypeOK, JobsAreKnown, Publication, ActiveJobStatuses
<1>3. AttemptsAreAlone'
  BY DEF IInv, TypeOK, AttemptsAreAlone, Publication, Handling
<1>4. ObjectIsAccountedFor'
  BY DEF IInv, TypeOK, AttemptsAreAlone, ObjectIsAccountedFor, Publication,
         Handling
<1>5. StatusIsAccountedFor'
  BY DEF IInv, TypeOK, JobsAreKnown, StatusIsAccountedFor, Publication
<1>. QED
  BY <1>1, <1>2, <1>3, <1>4, <1>5 DEF IInv

LEMMA ResolvePublicationIInv ==
  ASSUME IInv, NEW j \in Jobs, ResolvePublication(j)
  PROVE  IInv'
<1>. USE DEF ResolvePublication, Go, jobVars, ghostVars
<1>1. TypeOK'
  BY DEF IInv, TypeOK, Publication, PublicationStatus, Labels, Handling,
         Terminal, ActiveJobStatuses
<1>2. JobsAreKnown'
  BY DEF IInv, TypeOK, JobsAreKnown, Publication, ActiveJobStatuses
<1>3. AttemptsAreAlone'
  BY DEF IInv, TypeOK, AttemptsAreAlone, Publication, Handling
<1>4. ObjectIsAccountedFor'
  BY DEF IInv, TypeOK, AttemptsAreAlone, ObjectIsAccountedFor, Publication,
         Handling
<1>5. StatusIsAccountedFor'
  BY DEF IInv, TypeOK, JobsAreKnown, StatusIsAccountedFor, Publication
<1>. QED
  BY <1>1, <1>2, <1>3, <1>4, <1>5 DEF IInv

LEMMA MarkProcessingIInv ==
  ASSUME IInv, NEW j \in Jobs, MarkProcessing(j)
  PROVE  IInv'
<1>. USE DEF MarkProcessing, Go, jobVars, ghostVars, SetStatus
<1>1. TypeOK'
  <2>1. publication' \in Publication
    BY StatusWritten DEF IInv, TypeOK, PublicationStatus
  <2>2. publication'.status # "ABSENT" /\ publication'.job = publication.job
    BY DEF IInv, TypeOK, Publication
  <2>3. publication.job # NoJob
    BY DEF IInv, JobsAreKnown
  <2>. QED
    BY <2>1, <2>2, <2>3 DEF IInv, TypeOK, Labels, Handling
<1>2. JobsAreKnown'
  BY DEF IInv, TypeOK, JobsAreKnown, Publication, ActiveJobStatuses
<1>3. AttemptsAreAlone'
  BY DEF IInv, TypeOK, AttemptsAreAlone, Publication, Handling
<1>4. ObjectIsAccountedFor'
  BY DEF IInv, TypeOK, AttemptsAreAlone, ObjectIsAccountedFor, Publication,
         Handling
<1>5. StatusIsAccountedFor'
  BY DEF IInv, TypeOK, JobsAreKnown, StatusIsAccountedFor, Publication
<1>. QED
  BY <1>1, <1>2, <1>3, <1>4, <1>5 DEF IInv

LEMMA ConvertToCogIInv ==
  ASSUME IInv, NEW j \in Jobs, ConvertToCog(j)
  PROVE  IInv'
<1>. USE DEF ConvertToCog, Go, jobVars, ghostVars, Reports
<1>1. TypeOK'
  BY DEF IInv, TypeOK, Publication, PublicationStatus, Labels, Handling,
         Terminal, ActiveJobStatuses
<1>2. JobsAreKnown'
  BY DEF IInv, TypeOK, JobsAreKnown, Publication, ActiveJobStatuses
<1>3. AttemptsAreAlone'
  BY DEF IInv, TypeOK, AttemptsAreAlone, Publication, Handling
<1>4. ObjectIsAccountedFor'
  BY DEF IInv, TypeOK, AttemptsAreAlone, ObjectIsAccountedFor, Publication,
         Handling
<1>5. StatusIsAccountedFor'
  BY DEF IInv, TypeOK, JobsAreKnown, StatusIsAccountedFor, Publication
<1>. QED
  BY <1>1, <1>2, <1>3, <1>4, <1>5 DEF IInv

LEMMA PublishFileIInv ==
  ASSUME IInv, NEW j \in Jobs, PublishFile(j)
  PROVE  IInv'
<1>. USE DEF PublishFile, Go, jobVars, ghostVars, Reports
<1>1. TypeOK'
  BY DEF IInv, TypeOK, Publication, PublicationStatus, Labels, Handling,
         Terminal, ActiveJobStatuses
<1>2. JobsAreKnown'
  BY DEF IInv, TypeOK, JobsAreKnown, Publication, ActiveJobStatuses
<1>3. AttemptsAreAlone'
  BY DEF IInv, TypeOK, AttemptsAreAlone, Publication, Handling
<1>4. ObjectIsAccountedFor'
  BY DEF IInv, TypeOK, AttemptsAreAlone, ObjectIsAccountedFor, Publication,
         Handling
<1>5. StatusIsAccountedFor'
  BY DEF IInv, TypeOK, JobsAreKnown, StatusIsAccountedFor, Publication
<1>. QED
  BY <1>1, <1>2, <1>3, <1>4, <1>5 DEF IInv

LEMMA MarkReadyIInv ==
  ASSUME IInv, NEW j \in Jobs, MarkReady(j)
  PROVE  IInv'
<1>. USE DEF MarkReady, Go, jobVars, ghostVars, Reports
<1>1. TypeOK'
  <2>1. publication' \in Publication
    BY ReadyWritten DEF IInv, TypeOK, PublicationStatus
  <2>2. publication'.status # "ABSENT" /\ publication'.job = publication.job
    BY DEF IInv, TypeOK, Publication
  <2>3. publication.job # NoJob
    BY DEF IInv, JobsAreKnown
  <2>. QED
    BY <2>1, <2>2, <2>3 DEF IInv, TypeOK, Labels, Handling
<1>2. JobsAreKnown'
  BY DEF IInv, TypeOK, JobsAreKnown, Publication, ActiveJobStatuses
<1>3. AttemptsAreAlone'
  BY DEF IInv, TypeOK, AttemptsAreAlone, Publication, Handling
<1>4. ObjectIsAccountedFor'
  BY DEF IInv, TypeOK, AttemptsAreAlone, ObjectIsAccountedFor, Publication,
         Handling
<1>5. StatusIsAccountedFor'
  BY DEF IInv, TypeOK, JobsAreKnown, StatusIsAccountedFor, Publication
<1>. QED
  BY <1>1, <1>2, <1>3, <1>4, <1>5 DEF IInv

LEMMA LeaveWorkspaceIInv ==
  ASSUME IInv, NEW j \in Jobs, LeaveWorkspace(j)
  PROVE  IInv'
<1>. USE DEF LeaveWorkspace, Go, jobVars, ghostVars
<1>1. TypeOK'
  BY DEF IInv, TypeOK, Publication, PublicationStatus, Labels, Handling,
         Terminal, ActiveJobStatuses
<1>2. JobsAreKnown'
  BY DEF IInv, TypeOK, JobsAreKnown, Publication, ActiveJobStatuses
<1>3. AttemptsAreAlone'
  BY DEF IInv, TypeOK, AttemptsAreAlone, Publication, Handling
<1>4. ObjectIsAccountedFor'
  BY DEF IInv, TypeOK, AttemptsAreAlone, ObjectIsAccountedFor, Publication,
         Handling
<1>5. StatusIsAccountedFor'
  BY DEF IInv, TypeOK, JobsAreKnown, StatusIsAccountedFor, Publication
<1>. QED
  BY <1>1, <1>2, <1>3, <1>4, <1>5 DEF IInv

LEMMA NoticeCancellationIInv ==
  ASSUME IInv, NEW j \in Jobs, NoticeCancellation(j)
  PROVE  IInv'
<1>. USE DEF NoticeCancellation, Go, jobVars, ghostVars
<1>1. TypeOK'
  BY DEF IInv, TypeOK, Publication, PublicationStatus, Labels, Handling,
         Terminal, ActiveJobStatuses
<1>2. JobsAreKnown'
  BY DEF IInv, TypeOK, JobsAreKnown, Publication, ActiveJobStatuses
<1>3. AttemptsAreAlone'
  BY DEF IInv, TypeOK, AttemptsAreAlone, Publication, Handling
<1>4. ObjectIsAccountedFor'
  BY DEF IInv, TypeOK, AttemptsAreAlone, ObjectIsAccountedFor, Publication,
         Handling
<1>5. StatusIsAccountedFor'
  BY DEF IInv, TypeOK, JobsAreKnown, StatusIsAccountedFor, Publication
<1>. QED
  BY <1>1, <1>2, <1>3, <1>4, <1>5 DEF IInv

LEMMA RaiseInPublishIInv ==
  ASSUME IInv, NEW j \in Jobs, RaiseInPublish(j)
  PROVE  IInv'
<1>. USE DEF RaiseInPublish, Go, jobVars, ghostVars
<1>1. TypeOK'
  <2>1. object' \in BOOLEAN
    BY DEF IInv, TypeOK
  <2>2. pc' \in [Jobs -> Labels]
    BY DEF IInv, TypeOK, Labels
  <2>3. leaked' \in BOOLEAN /\ revoked' \in BOOLEAN
    BY DEF IInv, TypeOK
  <2>4. \A k \in Jobs : Handling(k)' <=> Handling(k)
    BY DEF IInv, TypeOK, Handling
  <2>. QED
    BY <2>1, <2>2, <2>3, <2>4 DEF IInv, TypeOK
<1>2. JobsAreKnown'
  BY DEF IInv, TypeOK, JobsAreKnown, Publication, ActiveJobStatuses
<1>3. AttemptsAreAlone'
  BY DEF IInv, TypeOK, AttemptsAreAlone, Publication, Handling
<1>4. ObjectIsAccountedFor'
  BY DEF IInv, TypeOK, AttemptsAreAlone, ObjectIsAccountedFor, Publication,
         Handling
<1>5. StatusIsAccountedFor'
  BY DEF IInv, TypeOK, JobsAreKnown, StatusIsAccountedFor, Publication
<1>. QED
  BY <1>1, <1>2, <1>3, <1>4, <1>5 DEF IInv

LEMMA RaiseOutsideIInv ==
  ASSUME IInv, NEW j \in Jobs, RaiseOutside(j)
  PROVE  IInv'
<1>. USE DEF RaiseOutside, Go, jobVars, ghostVars
<1>1. TypeOK'
  BY DEF IInv, TypeOK, Publication, PublicationStatus, Labels, Handling,
         Terminal, ActiveJobStatuses
<1>2. JobsAreKnown'
  BY DEF IInv, TypeOK, JobsAreKnown, Publication, ActiveJobStatuses
<1>3. AttemptsAreAlone'
  BY DEF IInv, TypeOK, AttemptsAreAlone, Publication, Handling
<1>4. ObjectIsAccountedFor'
  BY DEF IInv, TypeOK, AttemptsAreAlone, ObjectIsAccountedFor, Publication,
         Handling
<1>5. StatusIsAccountedFor'
  BY DEF IInv, TypeOK, JobsAreKnown, StatusIsAccountedFor, Publication
<1>. QED
  BY <1>1, <1>2, <1>3, <1>4, <1>5 DEF IInv

LEMMA DeletePublishedIInv ==
  ASSUME IInv, NEW j \in Jobs, DeletePublished(j)
  PROVE  IInv'
<1>. USE DEF DeletePublished, Go, jobVars, ghostVars, CleanedUp
<1>1. TypeOK'
  <2>1. object' \in BOOLEAN
    BY DEF IInv, TypeOK
  <2>2. pc' \in [Jobs -> Labels]
    BY DEF IInv, TypeOK, Labels
  <2>3. leaked' \in BOOLEAN /\ revoked' \in BOOLEAN
    BY DEF IInv, TypeOK
  <2>4. \A k \in Jobs : Handling(k)' <=> Handling(k)
    BY DEF IInv, TypeOK, Handling
  <2>. QED
    BY <2>1, <2>2, <2>3, <2>4 DEF IInv, TypeOK
<1>2. JobsAreKnown'
  BY DEF IInv, TypeOK, JobsAreKnown, Publication, ActiveJobStatuses
<1>3. AttemptsAreAlone'
  BY DEF IInv, TypeOK, AttemptsAreAlone, Publication, Handling
<1>4. ObjectIsAccountedFor'
  BY DEF IInv, TypeOK, AttemptsAreAlone, ObjectIsAccountedFor, Publication,
         Handling
<1>5. StatusIsAccountedFor'
  BY DEF IInv, TypeOK, JobsAreKnown, StatusIsAccountedFor, Publication
<1>. QED
  BY <1>1, <1>2, <1>3, <1>4, <1>5 DEF IInv

LEMMA MarkFailedIInv ==
  ASSUME IInv, NEW j \in Jobs, MarkFailed(j)
  PROVE  IInv'
<1>. USE DEF MarkFailed, Go, jobVars, ghostVars, SetStatus
<1>1. TypeOK'
  <2>1. publication' \in Publication
    BY StatusWritten DEF IInv, TypeOK, PublicationStatus
  <2>2. publication'.status # "ABSENT" /\ publication'.job = publication.job
    BY DEF IInv, TypeOK, Publication
  <2>3. publication.job # NoJob
    BY DEF IInv, JobsAreKnown
  <2>. QED
    BY <2>1, <2>2, <2>3 DEF IInv, TypeOK, Labels, Handling
<1>2. JobsAreKnown'
  BY DEF IInv, TypeOK, JobsAreKnown, Publication, ActiveJobStatuses
<1>3. AttemptsAreAlone'
  BY DEF IInv, TypeOK, AttemptsAreAlone, Publication, Handling
<1>4. ObjectIsAccountedFor'
  BY DEF IInv, TypeOK, AttemptsAreAlone, ObjectIsAccountedFor, Publication,
         Handling
<1>5. StatusIsAccountedFor'
  BY DEF IInv, TypeOK, JobsAreKnown, StatusIsAccountedFor, Publication
<1>. QED
  BY <1>1, <1>2, <1>3, <1>4, <1>5 DEF IInv

LEMMA MarkCancelledIInv ==
  ASSUME IInv, NEW j \in Jobs, MarkCancelled(j)
  PROVE  IInv'
<1>. USE DEF MarkCancelled, Go, jobVars, ghostVars, SetStatus
<1>1. TypeOK'
  <2>1. publication' \in Publication
    BY StatusWritten DEF IInv, TypeOK, PublicationStatus
  <2>2. publication'.status # "ABSENT" /\ publication'.job = publication.job
    BY DEF IInv, TypeOK, Publication
  <2>3. publication.job # NoJob
    BY DEF IInv, JobsAreKnown
  <2>. QED
    BY <2>1, <2>2, <2>3 DEF IInv, TypeOK, Labels, Handling
<1>2. JobsAreKnown'
  BY DEF IInv, TypeOK, JobsAreKnown, Publication, ActiveJobStatuses
<1>3. AttemptsAreAlone'
  BY DEF IInv, TypeOK, AttemptsAreAlone, Publication, Handling
<1>4. ObjectIsAccountedFor'
  BY DEF IInv, TypeOK, AttemptsAreAlone, ObjectIsAccountedFor, Publication,
         Handling
<1>5. StatusIsAccountedFor'
  BY DEF IInv, TypeOK, JobsAreKnown, StatusIsAccountedFor, Publication
<1>. QED
  BY <1>1, <1>2, <1>3, <1>4, <1>5 DEF IInv

LEMMA FailToSettleIInv ==
  ASSUME IInv, NEW j \in Jobs, FailToSettle(j)
  PROVE  IInv'
<1>. USE DEF FailToSettle, Go, jobVars, ghostVars
<1>1. TypeOK'
  BY DEF IInv, TypeOK, Publication, PublicationStatus, Labels, Handling
<1>2. JobsAreKnown'
  BY DEF IInv, TypeOK, JobsAreKnown, Publication, ActiveJobStatuses
<1>3. AttemptsAreAlone'
  BY DEF IInv, TypeOK, AttemptsAreAlone, Publication, Handling
<1>4. ObjectIsAccountedFor'
  BY DEF IInv, TypeOK, AttemptsAreAlone, ObjectIsAccountedFor, Publication,
         Handling
<1>5. StatusIsAccountedFor'
  BY DEF IInv, TypeOK, JobsAreKnown, StatusIsAccountedFor, Publication
<1>. QED
  BY <1>1, <1>2, <1>3, <1>4, <1>5 DEF IInv

LEMMA FinishIInv ==
  ASSUME IInv, NEW j \in Jobs, Finish(j)
  PROVE  IInv'
<1>. USE DEF Finish, Go, jobVars, ghostVars, Outcome, Job!Settle, Job!Abandon,
             Job!Move, Job!Terminal
<1>1. TypeOK'
  <2>1. /\ owned' = [owned EXCEPT ![j] = FALSE] /\ UNCHANGED cancel
        /\ \/ UNCHANGED jobStatus
           \/ \E end \in Terminal : jobStatus' = [jobStatus EXCEPT ![j] = end]
    BY DEF Terminal
  <2>2. jobStatus' \in
          [Jobs -> Terminal \union ActiveJobStatuses \union {"ABSENT"}]
    BY <2>1 DEF IInv, TypeOK
  <2>3. pc' \in [Jobs -> Labels]
    BY DEF IInv, TypeOK, Labels
  <2>4. publication.job # NoJob => jobStatus'[publication.job] # "ABSENT"
    BY <2>1 DEF IInv, TypeOK, Publication, Terminal
  <2>5. \A k \in Jobs : owned'[k] <=> Handling(k)'
    BY <2>1 DEF IInv, TypeOK, Handling
  <2>6. owned' \in [Jobs -> BOOLEAN]
    BY <2>1 DEF IInv, TypeOK
  <2>. QED
    BY <2>1, <2>2, <2>3, <2>4, <2>5, <2>6 DEF IInv, TypeOK
<1>2. JobsAreKnown'
  BY DEF IInv, TypeOK, JobsAreKnown, Publication, ActiveJobStatuses
<1>3. AttemptsAreAlone'
  BY DEF IInv, TypeOK, AttemptsAreAlone, Publication, Handling
<1>4. ObjectIsAccountedFor'
  BY DEF IInv, TypeOK, AttemptsAreAlone, ObjectIsAccountedFor, Publication,
         Handling
<1>5. StatusIsAccountedFor'
  BY DEF IInv, TypeOK, JobsAreKnown, StatusIsAccountedFor, Publication
<1>. QED
  BY <1>1, <1>2, <1>3, <1>4, <1>5 DEF IInv

LEMMA DieIInv ==
  ASSUME IInv, NEW j \in Jobs, Die(j)
  PROVE  IInv'
<1>. USE DEF Die, Go, jobVars, ghostVars, Job!Abandon
<1>1. TypeOK'
  BY DEF IInv, TypeOK, Publication, PublicationStatus, Labels, Handling,
         Terminal, ActiveJobStatuses
<1>2. JobsAreKnown'
  BY DEF IInv, TypeOK, JobsAreKnown, Publication, ActiveJobStatuses, Handling
<1>3. AttemptsAreAlone'
  BY DEF IInv, TypeOK, AttemptsAreAlone, Publication, Handling
<1>4. ObjectIsAccountedFor'
  BY DEF IInv, TypeOK, AttemptsAreAlone, ObjectIsAccountedFor, Publication,
         Handling
<1>5. StatusIsAccountedFor'
  BY DEF IInv, TypeOK, JobsAreKnown, StatusIsAccountedFor, Publication
<1>. QED
  BY <1>1, <1>2, <1>3, <1>4, <1>5 DEF IInv

LEMMA InitIInv == Init => IInv
<1>. SUFFICES ASSUME Init PROVE IInv
  OBVIOUS
<1>. USE DEF Init, Job!Init
<1>1. TypeOK
  <2>1. publication \in Publication
    BY DEF Publication, PublicationStatus
  <2>2. 0 \in 0..MaxRevision
    OBVIOUS
  <2>. QED
    BY <2>1, <2>2 DEF TypeOK, Labels, Handling
<1>2. JobsAreKnown /\ AttemptsAreAlone
  BY DEF JobsAreKnown, AttemptsAreAlone, Handling
<1>3. ObjectIsAccountedFor /\ StatusIsAccountedFor
  BY DEF ObjectIsAccountedFor, StatusIsAccountedFor
<1>. QED
  BY <1>1, <1>2, <1>3 DEF IInv

LEMMA StutterIInv ==
  ASSUME IInv, UNCHANGED vars
  PROVE  IInv'
  BY DEF IInv, TypeOK, JobsAreKnown, AttemptsAreAlone, ObjectIsAccountedFor,
         StatusIsAccountedFor, Handling, vars, jobVars, ghostVars

LEMMA HandlerStepIInv ==
  ASSUME IInv, NEW j \in Jobs, HandlerStep(j)
  PROVE  IInv'
  BY ResolvePublicationIInv, MarkProcessingIInv, ConvertToCogIInv,
     PublishFileIInv, MarkReadyIInv, LeaveWorkspaceIInv,
     NoticeCancellationIInv, RaiseInPublishIInv, RaiseOutsideIInv,
     DeletePublishedIInv, MarkFailedIInv, MarkCancelledIInv,
     FailToSettleIInv, FinishIInv
     DEF HandlerStep

LEMMA NextIInv == IInv /\ [Next]_vars => IInv'
<1>. SUFFICES ASSUME IInv, [Next]_vars PROVE IInv'
  OBVIOUS
<1>1. CASE UNCHANGED vars
  BY <1>1, StutterIInv
<1>2. CASE RegisterRaster \/ LoseInitialPublication \/ UpdateRenderSettings
  BY <1>2, RegisterRasterIInv, LoseInitialPublicationIInv,
     UpdateRenderSettingsIInv
<1>3. ASSUME NEW j \in Jobs,
             \/ EnsureInitialPublication(j) \/ PublishRasterDataset(j)
             \/ PostJob(j) \/ Enqueue(j) \/ Cancel(j) \/ Undeliverable(j)
      PROVE  IInv'
  BY <1>3, EnsureInitialPublicationIInv, PublishRasterDatasetIInv,
     PostJobIInv, EnqueueIInv, CancelIInv, UndeliverableIInv
<1>4. ASSUME NEW j \in Jobs, BeginPublish(j) \/ HandlerStep(j) \/ Die(j)
      PROVE  IInv'
  BY <1>4, BeginPublishIInv, HandlerStepIInv, DieIInv
<1>. QED
  BY <1>1, <1>2, <1>3, <1>4 DEF Next

LEMMA Invariance == Spec => []IInv
<1>. QED
  BY InitIInv, NextIInv, PTL DEF Spec

-----------------------------------------------------------------------------
(* What follows.                                                           *)

(* Every variable has its type in every reachable state; a publication     *)
(* names a job that exists, and a handler owns its job.                    *)
THEOREM TypeCorrect == Spec => []TypeOK
<1>1. IInv => TypeOK
  BY DEF IInv
<1>. QED
  BY <1>1, Invariance, PTL

(* Whatever fails, is cancelled or dies: what is served has an object and  *)
(* render settings (raster_handlers.py deletes the key of all attempts),   *)
(* as long as no attempts overlap and none fails after READY.              *)
THEOREM ServedExistsAlways == Spec => []ServedExists
<1>1. IInv => ServedExists
  BY DEF IInv, ObjectIsAccountedFor, ServedExists, Served
<1>. QED
  BY <1>1, Invariance, PTL

(* An object that no publication shows is one that could not be deleted.   *)
THEOREM NoLeftoversAlways == Spec => []NoLeftovers
<1>1. IInv => NoLeftovers
  BY DEF IInv, ObjectIsAccountedFor, NoLeftovers, Handling
<1>. QED
  BY <1>1, Invariance, PTL

(* Any number of requests for publication, in any order with the handlers, *)
(* have one job under way.                                                 *)
THEOREM RequestsDoNotPileAlways == Spec => []RequestsDoNotPile
<1>1. IInv => RequestsDoNotPile
  BY DEF IInv, TypeOK, JobsAreKnown, RequestsDoNotPile
<1>. QED
  BY <1>1, Invariance, PTL

(* A publication that the API shows as under way has a job or a handler    *)
(* that will settle it, unless a worker has died.                          *)
THEOREM ShownIsDrivenAlways == Spec => []ShownIsDriven
<1>1. ASSUME IInv PROVE ShownIsDriven
  <2>. SUFFICES ASSUME EffectiveStatus \in {"PENDING", "PROCESSING"}, ~lost
                PROVE  \E j \in Jobs :
                         jobStatus[j] \in ActiveJobStatuses \/ Handling(j)
    BY DEF ShownIsDriven
  <2>1. CASE publication.status = "PROCESSING"
    BY <1>1, <2>1 DEF IInv, StatusIsAccountedFor, Handling
  <2>2. CASE publication.status = "PENDING"
    <3>1. publication.job \in Jobs
      BY <1>1, <2>2 DEF IInv, TypeOK, Publication
    <3>2. jobStatus[publication.job] \notin {"FAILED", "CANCELLED"}
      BY <2>2, <3>1 DEF EffectiveStatus
    <3>. QED
      BY <1>1, <2>2, <3>1, <3>2
         DEF IInv, TypeOK, StatusIsAccountedFor, Terminal, ActiveJobStatuses
  <2>. QED
    BY <2>1, <2>2 DEF EffectiveStatus
<1>. QED
  BY <1>1, Invariance, PTL

(* The revision of the render settings, which tells tiles in caches apart, *)
(* goes back only when attempts overlap or one fails after READY.          *)
THEOREM RevisionGrowsAlways == Spec => RevisionGrows
<1>1. ASSUME IInv, [Next]_vars
      PROVE  [revision' < revision => overlapped \/ revoked]_vars
  <2>1. revision \in Nat
    BY <1>1 DEF IInv, TypeOK
  <2>2. ASSUME NEW j \in Jobs, MarkReady(j), ~overlapped, ~revoked
        PROVE  revision = 0
    BY <1>1, <2>1, <2>2
       DEF IInv, AttemptsAreAlone, ObjectIsAccountedFor, MarkReady
  <2>3. CASE \E j \in Jobs : MarkReady(j)
    BY <2>1, <2>2, <2>3 DEF MarkReady
  <2>4. CASE UpdateRenderSettings
    BY <2>1, <2>4 DEF UpdateRenderSettings
  <2>5. CASE /\ ~ \E j \in Jobs : MarkReady(j)
             /\ ~UpdateRenderSettings
    <3>1. UNCHANGED revision
      BY <1>1, <2>5, Zenon
         DEF Next, HandlerStep, vars, RegisterRaster, LoseInitialPublication,
             EnsureInitialPublication, PublishRasterDataset,
             RequestPublication, PostJob, Enqueue, Cancel, Undeliverable,
             OutsideVars, BeginPublish, Die, ResolvePublication,
             MarkProcessing, ConvertToCog, PublishFile, LeaveWorkspace,
             NoticeCancellation, RaiseInPublish, RaiseOutside,
             DeletePublished, MarkFailed, MarkCancelled, FailToSettle,
             Finish
    <3>. QED
      BY <2>1, <3>1
  <2>. QED
    BY <2>3, <2>4, <2>5
<1>. QED
  BY <1>1, Invariance, PTL DEF Spec, RevisionGrows

(* Requests, users' own jobs and the handler do nothing to a job but what  *)
(* JobContract allows, the interface that JobLedgerProofs!ContractIsKept   *)
(* shows the ledger to keep: nothing here rests on another kind of job.    *)
THEOREM JobsKeepTheContract == Spec => Job!Spec
<1>1. Init => Job!Init
  BY DEF Init
<1>2. ASSUME [Next]_vars
      PROVE  [Job!Next]_(Job!vars)
  <2>1. CASE \E j \in Jobs :
               \/ EnsureInitialPublication(j) \/ PublishRasterDataset(j)
               \/ PostJob(j) \/ Enqueue(j) \/ Cancel(j) \/ Undeliverable(j)
               \/ BeginPublish(j) \/ Finish(j) \/ Die(j)
    <3>1. PICK j \in Jobs :
            \/ Job!Submit(j) \/ Job!Enqueue(j) \/ Job!Cancel(j)
            \/ Job!Undeliverable(j) \/ Job!Begin(j) \/ Job!Settle(j)
            \/ Job!Abandon(j)
      BY <2>1, Zenon
         DEF EnsureInitialPublication, PublishRasterDataset, RequestPublication,
             PostJob, Enqueue, Cancel, Undeliverable, BeginPublish, Finish, Die
    <3>. QED
      BY <3>1, Zenon DEF Job!Next
  <2>2. CASE \E j \in Jobs : HandlerStep(j) /\ ~Finish(j)
    <3>1. UNCHANGED jobVars
      BY <2>2, Zenon
         DEF HandlerStep, ResolvePublication, MarkProcessing, ConvertToCog,
             PublishFile, MarkReady, LeaveWorkspace, NoticeCancellation,
             RaiseInPublish, RaiseOutside, DeletePublished, MarkFailed,
             MarkCancelled, FailToSettle
    <3>. QED
      BY <3>1 DEF jobVars, Job!vars
  <2>3. CASE RegisterRaster \/ LoseInitialPublication \/ UpdateRenderSettings
             \/ UNCHANGED vars
    <3>1. UNCHANGED jobVars
      BY <2>3, Zenon
         DEF RegisterRaster, LoseInitialPublication, UpdateRenderSettings, vars
    <3>. QED
      BY <3>1 DEF jobVars, Job!vars
  <2>. QED
    BY <1>2, <2>1, <2>2, <2>3, Zenon DEF Next
<1>. QED
  BY <1>1, <1>2, PTL DEF Spec, Job!Spec
=============================================================================
