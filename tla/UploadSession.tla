--------------------------- MODULE UploadSession ---------------------------
(***************************************************************************)
(* Upload sessions (modules/uploads/services.py) over S3 multipart uploads *)
(* (modules/object_storage/services.py). Web requests create, complete and *)
(* abort a session while the browser puts parts straight into the store.   *)
(*                                                                         *)
(* A service is a chain of short transactions with calls to the store in   *)
(* between, made without any lock: one action is one transaction or one    *)
(* call, so requests interleave, or die, wherever the code lets them.      *)
(***************************************************************************)
EXTENDS Naturals

CONSTANTS
  Uploads,       \* sessions that may come to exist
  Requests,      \* web requests served at the same time
  NoUpload,      \* what a request serving no session holds
  MaxLost,       \* bound: calls whose effect the store reports as an error
  MaxAbandoned   \* bound: requests that die, or raise past the service

ASSUME UploadAssumption ==
  /\ NoUpload \notin Uploads
  /\ MaxLost \in Nat /\ MaxAbandoned \in Nat

VARIABLES
  session,    \* the UploadSession rows
  expired,    \* expires_at has passed
  multipart,  \* the store's multipart upload of a session
  parts,      \* what assembling its parts would give
  orphan,     \* another one, that no answer has named, is in the store too
  object,     \* the object under the session's key
  signed,     \* a part URL has been handed to the browser
  pc,         \* where a request stands in its service
  upload,     \* the session it serves
  prev,       \* the status an abort found
  lost,       \* calls whose effect was reported as an error, per session
  abandoned   \* requests that died while driving a session

storeVars   == <<multipart, parts, orphan, object>>
faultVars   == <<lost, abandoned>>
vars == <<session, expired, multipart, parts, orphan, object, signed, pc,
          upload, prev, lost, abandoned>>

-----------------------------------------------------------------------------
UploadStatus == {"ABSENT", "INITIATING", "UPLOADING", "COMPLETING",
                 "ABORTING", "COMPLETED", "ABORTED", "FAILED", "EXPIRED"}

FailureCode == {"NONE", "UPLOAD_INIT_FAILED", "UPLOAD_COMPLETE_FAILED",
                "UPLOAD_VERIFY_FAILED", "UPLOAD_SIZE_MISMATCH",
                "UPLOAD_ABORT_FAILED"}

Row == [status : UploadStatus,
        linked : BOOLEAN,       \* multipart_upload_id is set
        code   : FailureCode]

(* "right" is the declared size, "wrong" any other.                        *)
Content == {"none", "right", "wrong"}

Set(u, status, code) ==
  session' = [session EXCEPT ![u].status = status, ![u].code = code]

Go(r, label) == pc' = [pc EXCEPT ![r] = label]

(* The request answers. *)
Finish(r) ==
  /\ Go(r, "idle")
  /\ upload' = [upload EXCEPT ![r] = NoUpload]
  /\ prev' = [prev EXCEPT ![r] = "ABSENT"]

Serve(r, u, label) ==
  /\ pc[r] = "idle"
  /\ Go(r, label)
  /\ upload' = [upload EXCEPT ![r] = u]

(* The answer to a call that the store has carried out is lost. The client *)
(* library repeats the call: the repetition finds the multipart upload     *)
(* gone, or opens a second one.                                            *)
Misreport(u) ==
  /\ lost[u] < MaxLost
  /\ lost' = [lost EXCEPT ![u] = @ + 1]

Init ==
  /\ session   = [u \in Uploads |->
                    [status |-> "ABSENT", linked |-> FALSE, code |-> "NONE"]]
  /\ expired   = [u \in Uploads |-> FALSE]
  /\ multipart = [u \in Uploads |-> "none"]
  /\ parts     = [u \in Uploads |-> "none"]
  /\ orphan    = [u \in Uploads |-> FALSE]
  /\ object    = [u \in Uploads |-> "none"]
  /\ signed    = [u \in Uploads |-> FALSE]
  /\ pc        = [r \in Requests |-> "idle"]
  /\ upload    = [r \in Requests |-> NoUpload]
  /\ prev      = [r \in Requests |-> "ABSENT"]
  /\ lost      = [u \in Uploads |-> 0]
  /\ abandoned = [u \in Uploads |-> 0]

-----------------------------------------------------------------------------
(* create_upload_session *)

CreateSession(r, u) ==
  /\ session[u].status = "ABSENT"
  /\ Serve(r, u, "initiating")
  /\ Set(u, "INITIATING", "NONE")
  /\ UNCHANGED <<expired, storeVars, signed, prev, faultVars>>

(* The client library repeats the call when its answer is lost, and the    *)
(* store opens one multipart upload for each: of the first nobody has the  *)
(* name.                                                                   *)
InitiateMultipart(r) ==
  /\ pc[r] = "initiating"
  /\ \/ /\ multipart' = [multipart EXCEPT ![upload[r]] = "open"]
        /\ \/ Go(r, "activating") /\ UNCHANGED <<orphan, lost>>
           \/ /\ Go(r, "activating") /\ Misreport(upload[r])
              /\ orphan' = [orphan EXCEPT ![upload[r]] = TRUE]
           \/ /\ Go(r, "uninitiated") /\ Misreport(upload[r])
              /\ UNCHANGED orphan
     \/ Go(r, "uninitiated") /\ UNCHANGED <<multipart, orphan, lost>>
  /\ UNCHANGED <<session, expired, parts, object, signed, upload, prev,
                 abandoned>>

ActivateSession(r) ==
  /\ pc[r] = "activating"
  /\ session' = IF session[upload[r]].status = "INITIATING"
                  THEN [session EXCEPT ![upload[r]] =
                          [status |-> "UPLOADING", linked |-> TRUE,
                           code |-> "NONE"]]
                  ELSE session
  /\ Finish(r)
  /\ UNCHANGED <<expired, storeVars, signed, faultVars>>

(* presign_part, and what the browser does with the URL it gets. *)
PresignPart(u) ==
  /\ session[u].status = "UPLOADING" /\ ~expired[u]
  /\ signed' = [signed EXCEPT ![u] = TRUE]
  /\ UNCHANGED <<session, expired, storeVars, pc, upload, prev, faultVars>>

PutPart(u) ==
  /\ signed[u] /\ multipart[u] = "open"
  /\ \E content \in {"right", "wrong"} :
       parts' = [parts EXCEPT ![u] = content]
  /\ UNCHANGED <<session, expired, multipart, orphan, object, signed, pc,
                 upload, prev, faultVars>>

(* _uploadable_session and _reserve_completion find the session expired:   *)
(* they save EXPIRED and raise inside the same transaction, which undoes   *)
(* the save.                                                               *)
RejectExpired(r, u) ==
  /\ session[u].status = "UPLOADING" /\ expired[u]
  /\ Serve(r, u, "rejected")
  /\ UNCHANGED <<session, expired, storeVars, signed, prev, faultVars>>

AnswerRejected(r) ==
  /\ pc[r] = "rejected"
  /\ Finish(r)
  /\ UNCHANGED <<session, expired, storeVars, signed, faultVars>>

-----------------------------------------------------------------------------
(* complete_upload_session *)

(* Mutant: a completion may join another. *)
ReserveCompletionTwice(r, u) ==
  /\ session[u].status \in {"UPLOADING", "COMPLETING"} /\ ~expired[u]
  /\ Serve(r, u, "assembling")
  /\ Set(u, "COMPLETING", session[u].code)
  /\ UNCHANGED <<expired, storeVars, signed, prev, faultVars>>

ReserveCompletion(r, u) ==
  /\ session[u].status = "UPLOADING" /\ ~expired[u]
  /\ Serve(r, u, "assembling")
  /\ Set(u, "COMPLETING", session[u].code)
  /\ UNCHANGED <<expired, storeVars, signed, prev, faultVars>>

CompleteMultipart(r) ==
  LET u == upload[r]
  IN  /\ pc[r] = "assembling"
      /\ \/ /\ multipart[u] = "open" /\ parts[u] # "none"
            /\ multipart' = [multipart EXCEPT ![u] = "closed"]
            /\ object' = [object EXCEPT ![u] = parts[u]]
            /\ \/ Go(r, "inspecting") /\ UNCHANGED lost
               \/ Go(r, "unassembled") /\ Misreport(u)
         \/ Go(r, "unassembled") /\ UNCHANGED <<multipart, object, lost>>
      /\ UNCHANGED <<session, expired, parts, orphan, signed, upload, prev,
                     abandoned>>

(* Mutant: the size is not compared. *)
InspectObjectAnySize(r) ==
  /\ pc[r] = "inspecting"
  /\ \/ object[upload[r]] # "none" /\ Go(r, "finalizing")
     \/ Go(r, "unverified")
  /\ UNCHANGED <<session, expired, storeVars, signed, upload, prev, faultVars>>

(* HEAD: the size decides, unless the call itself is refused. *)
InspectObject(r) ==
  /\ pc[r] = "inspecting"
  /\ \/ object[upload[r]] = "right" /\ Go(r, "finalizing")
     \/ object[upload[r]] = "wrong" /\ Go(r, "deleting")
     \/ Go(r, "unverified")
  /\ UNCHANGED <<session, expired, storeVars, signed, upload, prev, faultVars>>

(* The object is deleted; an error of this call is suppressed. *)
DeleteMismatched(r) ==
  /\ pc[r] = "deleting"
  /\ \/ object' = [object EXCEPT ![upload[r]] = "none"]
     \/ UNCHANGED object
  /\ Go(r, "mismatched")
  /\ UNCHANGED <<session, expired, multipart, parts, orphan, signed, upload,
                 prev, faultVars>>

FinalizeCompletion(r) ==
  /\ pc[r] = "finalizing"
  /\ IF session[upload[r]].status = "COMPLETING"
       THEN Set(upload[r], "COMPLETED", "NONE")
       ELSE UNCHANGED session
  /\ Finish(r)
  /\ UNCHANGED <<expired, storeVars, signed, faultVars>>

(* _mark_failed looks at no status. *)
MarkFailed(r) ==
  /\ pc[r] \in {"uninitiated", "unverified", "mismatched"}
  /\ Set(upload[r], "FAILED",
         CASE pc[r] = "uninitiated" -> "UPLOAD_INIT_FAILED"
           [] pc[r] = "unverified"  -> "UPLOAD_VERIFY_FAILED"
           [] pc[r] = "mismatched"  -> "UPLOAD_SIZE_MISMATCH")
  /\ Finish(r)
  /\ UNCHANGED <<expired, storeVars, signed, faultVars>>

(* Mutants: every refused abort restores UPLOADING; the statuses expected  *)
(* of the two callers are swapped.                                         *)
RestoreActiveStatusUploading(r) ==
  LET row == session[upload[r]]
  IN  /\ \/ pc[r] = "unassembled" /\ row.status = "COMPLETING"
         \/ pc[r] = "unaborted" /\ row.status = "ABORTING"
      /\ Set(upload[r], "UPLOADING", "UPLOAD_ABORT_FAILED")
      /\ Finish(r)
      /\ UNCHANGED <<expired, storeVars, signed, faultVars>>

RestoreActiveStatusSwapped(r) ==
  LET row == session[upload[r]]
  IN  /\ \/ /\ pc[r] = "unassembled"
            /\ IF row.status = "ABORTING"
                 THEN Set(upload[r], "UPLOADING", "UPLOAD_COMPLETE_FAILED")
                 ELSE UNCHANGED session
         \/ /\ pc[r] = "unaborted"
            /\ IF row.status = "COMPLETING"
                 THEN Set(upload[r], prev[r], "UPLOAD_ABORT_FAILED")
                 ELSE UNCHANGED session
      /\ Finish(r)
      /\ UNCHANGED <<expired, storeVars, signed, faultVars>>

(* _restore_active_status, after a refused completion or a refused abort.  *)
RestoreActiveStatus(r) ==
  LET row == session[upload[r]]
  IN  /\ \/ /\ pc[r] = "unassembled"
            /\ IF row.status = "COMPLETING"
                 THEN Set(upload[r], "UPLOADING", "UPLOAD_COMPLETE_FAILED")
                 ELSE UNCHANGED session
         \/ /\ pc[r] = "unaborted"
            /\ IF row.status = "ABORTING"
                 THEN Set(upload[r], prev[r], "UPLOAD_ABORT_FAILED")
                 ELSE UNCHANGED session
      /\ Finish(r)
      /\ UNCHANGED <<expired, storeVars, signed, faultVars>>

-----------------------------------------------------------------------------
(* abort_upload_session *)

(* Mutant: a completed session is not left alone. *)
ReserveAbortCompleted(r, u) ==
  /\ session[u].status \in {"UPLOADING", "FAILED", "EXPIRED", "COMPLETED"}
  /\ session[u].linked
  /\ Serve(r, u, "aborting")
  /\ prev' = [prev EXCEPT ![r] = session[u].status]
  /\ Set(u, "ABORTING", session[u].code)
  /\ UNCHANGED <<expired, storeVars, signed, faultVars>>

ReserveAbort(r, u) ==
  /\ session[u].status \in {"UPLOADING", "FAILED", "EXPIRED"}
  /\ IF session[u].linked
       THEN /\ Serve(r, u, "aborting")
            /\ prev' = [prev EXCEPT ![r] = session[u].status]
            /\ Set(u, "ABORTING", session[u].code)
       ELSE /\ pc[r] = "idle"
            /\ Set(u, "ABORTED", session[u].code)
            /\ UNCHANGED <<pc, upload, prev>>
  /\ UNCHANGED <<expired, storeVars, signed, faultVars>>

(* Mutant: an error of the store is suppressed. *)
AbortMultipartSuppressed(r) ==
  LET u == upload[r]
  IN  /\ pc[r] = "aborting"
      /\ \/ multipart' = [multipart EXCEPT ![u] = "closed"]
         \/ UNCHANGED multipart
      /\ Go(r, "discarded")
      /\ UNCHANGED <<session, expired, parts, orphan, object, signed, upload,
                     prev, faultVars>>

(* The store refuses to abort a multipart upload it no longer has.         *)
AbortMultipart(r) ==
  LET u == upload[r]
  IN  /\ pc[r] = "aborting"
      /\ \/ /\ multipart[u] = "open"
            /\ multipart' = [multipart EXCEPT ![u] = "closed"]
            /\ \/ Go(r, "discarded") /\ UNCHANGED lost
               \/ Go(r, "unaborted") /\ Misreport(u)
         \/ Go(r, "unaborted") /\ UNCHANGED <<multipart, lost>>
      /\ UNCHANGED <<session, expired, parts, orphan, object, signed, upload,
                     prev, abandoned>>

FinalizeAbort(r) ==
  /\ pc[r] = "discarded"
  /\ IF session[upload[r]].status = "ABORTING"
       THEN Set(upload[r], "ABORTED", "NONE")
       ELSE UNCHANGED session
  /\ Finish(r)
  /\ UNCHANGED <<expired, storeVars, signed, faultVars>>

-----------------------------------------------------------------------------
(* The environment. *)

(* The process dies, or the store does not answer: only ClientError is     *)
(* turned into ObjectStorageError, so a time-out leaves the service.       *)
Abandon(r) ==
  /\ pc[r] # "idle"
  /\ abandoned[upload[r]] < MaxAbandoned
  /\ abandoned' = [abandoned EXCEPT ![upload[r]] = @ + 1]
  /\ Finish(r)
  /\ UNCHANGED <<session, expired, storeVars, signed, lost>>

Expire(u) ==
  /\ session[u].status # "ABSENT" /\ ~expired[u]
  /\ expired' = [expired EXCEPT ![u] = TRUE]
  /\ UNCHANGED <<session, storeVars, signed, pc, upload, prev, faultVars>>

(* The bucket's lifecycle rule, after two days by default: a session lives *)
(* for one.                                                                *)
CleanUpIncomplete(u) ==
  /\ expired[u]
  /\ \/ /\ multipart[u] = "open"
        /\ multipart' = [multipart EXCEPT ![u] = "closed"]
        /\ UNCHANGED orphan
     \/ /\ orphan[u]
        /\ orphan' = [orphan EXCEPT ![u] = FALSE]
        /\ UNCHANGED multipart
  /\ UNCHANGED <<session, expired, parts, object, signed, pc, upload, prev,
                 faultVars>>

-----------------------------------------------------------------------------
Proceed(r) ==
  \/ InitiateMultipart(r) \/ ActivateSession(r) \/ AnswerRejected(r)
  \/ CompleteMultipart(r) \/ InspectObject(r) \/ DeleteMismatched(r)
  \/ FinalizeCompletion(r) \/ MarkFailed(r) \/ RestoreActiveStatus(r)
  \/ AbortMultipart(r) \/ FinalizeAbort(r)

Next ==
  \/ \E r \in Requests, u \in Uploads :
       \/ CreateSession(r, u) \/ ReserveCompletion(r, u)
       \/ ReserveAbort(r, u) \/ RejectExpired(r, u)
  \/ \E r \in Requests : Proceed(r) \/ Abandon(r)
  \/ \E u \in Uploads : \/ PresignPart(u) \/ PutPart(u)
                        \/ Expire(u) \/ CleanUpIncomplete(u)

Spec == Init /\ [][Next]_vars

(* A request that is being served goes on; users promise nothing.          *)
FairSpec == Spec /\ \A r \in Requests : WF_vars(Proceed(r))

-----------------------------------------------------------------------------
(* Properties.                                                             *)

Labels == {"idle", "initiating", "activating", "uninitiated", "rejected",
           "assembling", "unassembled", "inspecting", "deleting",
           "unverified", "mismatched", "finalizing", "aborting",
           "unaborted", "discarded"}

(* Every variable has its type, and a busy request serves a session.       *)
TypeOK ==
  /\ session \in [Uploads -> Row]
  /\ expired \in [Uploads -> BOOLEAN]
  /\ multipart \in [Uploads -> {"none", "open", "closed"}]
  /\ parts \in [Uploads -> Content]
  /\ orphan \in [Uploads -> BOOLEAN]
  /\ object \in [Uploads -> Content]
  /\ signed \in [Uploads -> BOOLEAN]
  /\ pc \in [Requests -> Labels]
  /\ upload \in [Requests -> Uploads \union {NoUpload}]
  /\ prev \in [Requests -> {"ABSENT", "UPLOADING", "FAILED", "EXPIRED"}]
  /\ lost \in [Uploads -> Nat]
  /\ abandoned \in [Uploads -> Nat]
  /\ \A r \in Requests : pc[r] # "idle" => upload[r] \in Uploads

Transient == {"INITIATING", "COMPLETING", "ABORTING"}

(* A request that holds the session between two of its transactions. *)
Drives(r, u) == upload[r] = u /\ pc[r] \notin {"idle", "rejected"}

(* The transient statuses work as a lock: two requests never drive one     *)
(* session at a time, so _mark_failed overwrites nobody's outcome.         *)
SingleDriver ==
  \A u \in Uploads : \A q, r \in Requests :
    Drives(q, u) /\ Drives(r, u) => q = r

(* A completed session has exactly the declared bytes in the store, and no *)
(* multipart upload that could still replace them.                         *)
CompletedVerified ==
  \A u \in Uploads : session[u].status = "COMPLETED" =>
    /\ object[u] = "right" /\ multipart[u] = "closed"
    /\ session[u].code = "NONE"

(* Unless the answer to a call was lost, an aborted session leaves nothing *)
(* behind: neither an object nor an open multipart upload.                 *)
AbortedIsClean ==
  \A u \in Uploads : session[u].status = "ABORTED" /\ lost[u] = 0 =>
    object[u] = "none" /\ multipart[u] # "open" /\ ~orphan[u]

(* A session is stuck in a transient status only if its request died.      *)
StrandedOnlyByDeath ==
  \A u \in Uploads :
    session[u].status \in Transient /\ abandoned[u] = 0 =>
      \E r \in Requests : Drives(r, u)

(* An open multipart upload can be found again from its session, unless    *)
(* the answer that named it was lost on the way.                           *)
OpenIsLinked ==
  \A u \in Uploads : lost[u] = 0 /\ abandoned[u] = 0 =>
    /\ ~orphan[u]
    /\ multipart[u] = "open" =>
         session[u].linked \/ \E r \in Requests : Drives(r, u)

(* A session accepting parts has a multipart upload to put them in, unless *)
(* the store misreported a call: neither a refused completion nor a        *)
(* refused abort brings back a session whose object has been assembled.    *)
UploadingIsOpen ==
  \A u \in Uploads :
    session[u].status = "UPLOADING" /\ ~expired[u] /\ lost[u] = 0 =>
      multipart[u] = "open"

(* Once completed or aborted, a session never changes again.               *)
SettledFrozen ==
  [][\A u \in Uploads : session[u].status \in {"COMPLETED", "ABORTED"}
       => session'[u] = session[u]]_vars

(* Every request that reserved a session settles it, unless it dies.       *)
TransientSettles ==
  \A u \in Uploads :
    session[u].status \in Transient ~>
      session[u].status \notin Transient \/ abandoned[u] > 0

-----------------------------------------------------------------------------
(* The inductive invariant behind the safety properties.                   *)

Starting   == {"initiating", "activating", "uninitiated"}
Assembling == {"assembling", "unassembled"}
Checking   == {"inspecting", "deleting", "unverified", "mismatched",
               "finalizing"}
Discarding == {"aborting", "unaborted", "discarded"}

(* No call about the session was misreported, and nothing was cleaned up.  *)
Undisturbed(u) == lost[u] = 0 /\ ~expired[u]

(* What a request may rely on about its session between two steps.         *)
Held(r) ==
  LET u == upload[r]
  IN  /\ pc[r] \in Starting => session[u].status = "INITIATING"
      /\ pc[r] \in Assembling \union Checking =>
           session[u].status = "COMPLETING"
      /\ pc[r] \in Discarding =>
           /\ session[u].status = "ABORTING"
           /\ prev[r] \in {"UPLOADING", "FAILED", "EXPIRED"}
      /\ pc[r] = "initiating" => multipart[u] = "none"
      /\ pc[r] = "activating" => multipart[u] # "none"
      /\ pc[r] = "activating" /\ ~expired[u] => multipart[u] = "open"
      /\ pc[r] = "uninitiated" /\ lost[u] = 0 => multipart[u] = "none"
      /\ pc[r] \in Assembling /\ Undisturbed(u) => multipart[u] = "open"
      /\ pc[r] \in Checking => multipart[u] = "closed"
      /\ pc[r] = "finalizing" => object[u] = "right"
      /\ pc[r] \in Discarding \ {"discarded"} /\ prev[r] = "UPLOADING"
           /\ Undisturbed(u) => multipart[u] = "open"
      /\ pc[r] = "discarded" => multipart[u] = "closed" /\ object[u] = "none"

(* What holds of a session whoever serves it. *)
Kept(u) ==
  /\ orphan[u] => lost[u] > 0
  /\ session[u].status = "ABSENT" => multipart[u] = "none"
  /\ session[u].status \in {"UPLOADING", "COMPLETING", "ABORTING",
                            "COMPLETED"} => session[u].linked
  /\ ~session[u].linked /\ lost[u] = 0 /\ session[u].status # "INITIATING"
       => multipart[u] = "none"
  /\ multipart[u] # "closed" => object[u] = "none"
  /\ session[u].status = "COMPLETED" =>
       /\ object[u] = "right" /\ multipart[u] = "closed"
       /\ session[u].code = "NONE"
  /\ session[u].status = "ABORTED" /\ lost[u] = 0 =>
       object[u] = "none" /\ multipart[u] # "open"
  /\ session[u].status = "UPLOADING" /\ Undisturbed(u) =>
       multipart[u] = "open"

(* The conjunction that every action preserves. *)
IInv ==
  /\ TypeOK
  /\ SingleDriver
  /\ StrandedOnlyByDeath
  /\ \A r \in Requests : Held(r)
  /\ \A u \in Uploads : Kept(u)
=============================================================================
