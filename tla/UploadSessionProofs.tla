------------------------ MODULE UploadSessionProofs ------------------------
(***************************************************************************)
(* Proofs about UploadSession, for every set of sessions and requests and  *)
(* any number of misreported calls and dying requests.                     *)
(***************************************************************************)
EXTENDS UploadSession, TLAPS

USE UploadAssumption

-----------------------------------------------------------------------------
(* Steps of one request on one session.                                    *)

(* The step touches no other request and no other session. *)
Local(r, u) ==
  /\ \A q \in Requests \ {r} :
       pc'[q] = pc[q] /\ upload'[q] = upload[q] /\ prev'[q] = prev[q]
  /\ \A v \in Uploads \ {u} :
       /\ session'[v] = session[v] /\ expired'[v] = expired[v]
       /\ multipart'[v] = multipart[v] /\ object'[v] = object[v]
       /\ orphan'[v] = orphan[v]
       /\ lost'[v] = lost[v] /\ abandoned'[v] = abandoned[v]

(* A request that is not driving relies on nothing. *)
LEMMA NotDrivingHolds ==
  ASSUME NEW r \in Requests, pc[r] \in {"idle", "rejected"}
  PROVE  Held(r)
  BY DEF Held, Starting, Assembling, Checking, Discarding

(* A request depends only on its own place and its own session. *)
LEMMA HeldUnchanged ==
  ASSUME NEW r \in Requests, Held(r),
         pc'[r] = pc[r], upload'[r] = upload[r], prev'[r] = prev[r],
         session'[upload[r]] = session[upload[r]],
         expired'[upload[r]] = expired[upload[r]],
         multipart'[upload[r]] = multipart[upload[r]],
         object'[upload[r]] = object[upload[r]],
         lost'[upload[r]] = lost[upload[r]]
  PROVE  Held(r)'
  BY DEF Held, Undisturbed

LEMMA KeptUnchanged ==
  ASSUME NEW u \in Uploads, Kept(u),
         session'[u] = session[u], expired'[u] = expired[u],
         multipart'[u] = multipart[u], object'[u] = object[u],
         orphan'[u] = orphan[u], lost'[u] = lost[u]
  PROVE  Kept(u)'
  BY DEF Kept, Undisturbed

(* Nobody drives a session that is not in a transient status. *)
LEMMA DrivenIsTransient ==
  ASSUME IInv, NEW r \in Requests, NEW u \in Uploads, Drives(r, u)
  PROVE  session[u].status \in Transient
<1>1. Held(r) /\ pc[r] \in Labels
  BY DEF IInv, TypeOK
<1>. QED
  BY <1>1 DEF Held, Drives, Transient, Labels, Starting, Assembling,
              Checking, Discarding

(* The invariant survives a local step of the only driver of a session. *)
LEMMA LocalStep ==
  ASSUME NEW r \in Requests, NEW u \in Uploads, IInv, TypeOK',
         Local(r, u),
         pc[r] # "idle" => upload[r] = u,
         pc'[r] # "idle" => upload'[r] = u,
         \A q \in Requests \ {r} : ~Drives(q, u),
         Held(r)', Kept(u)',
         session'[u].status \in Transient /\ abandoned'[u] = 0
           => Drives(r, u)'
  PROVE  IInv'
<1>1. \A q \in Requests \ {r}, v \in Uploads : Drives(q, v)' <=> Drives(q, v)
  BY DEF Local, Drives
<1>2. \A v \in Uploads \ {u} : ~Drives(r, v) /\ ~Drives(r, v)'
  BY DEF Drives
<1>3. SingleDriver'
  BY <1>1, <1>2 DEF IInv, SingleDriver
<1>4. StrandedOnlyByDeath'
  <2>1. ASSUME NEW v \in Uploads, v # u,
               session'[v].status \in Transient /\ abandoned'[v] = 0
        PROVE  \E q \in Requests : Drives(q, v)'
    <3>1. \E q \in Requests : Drives(q, v)
      BY <2>1 DEF Local, IInv, StrandedOnlyByDeath
    <3>. QED BY <3>1, <2>1, <1>1, <1>2
  <2>. QED BY <2>1 DEF StrandedOnlyByDeath
<1>5. ASSUME NEW q \in Requests, q # r PROVE Held(q)'
  <2>1. CASE pc[q] \in {"idle", "rejected"}
    <3>1. pc'[q] \in {"idle", "rejected"}
      BY <2>1, <1>5 DEF Local
    <3>. QED
      BY <3>1 DEF Held, Starting, Assembling, Checking, Discarding
  <2>2. CASE pc[q] \notin {"idle", "rejected"}
    <3>1. upload[q] \in Uploads \ {u}
      BY <2>2, <1>5 DEF Drives, IInv, TypeOK
    <3>. QED
      BY <3>1, <1>5, HeldUnchanged DEF Local, IInv
  <2>. QED BY <2>1, <2>2
<1>6. ASSUME NEW v \in Uploads, v # u PROVE Kept(v)'
  BY <1>6, KeptUnchanged DEF Local, IInv
<1>. QED
  BY <1>3, <1>4, <1>5, <1>6 DEF IInv

LEMMA OnlyDriver ==
  ASSUME IInv, NEW r \in Requests, pc[r] \notin {"idle", "rejected"}
  PROVE  /\ upload[r] \in Uploads
         /\ session[upload[r]] \in Row
         /\ \A q \in Requests \ {r} : ~Drives(q, upload[r])
         /\ Held(r) /\ Kept(upload[r])
  BY DEF IInv, TypeOK, SingleDriver, Drives

LEMMA Undriven ==
  ASSUME IInv, NEW u \in Uploads, session[u].status \notin Transient
  PROVE  session[u] \in Row /\ Kept(u) /\ \A q \in Requests : ~Drives(q, u)
  BY DrivenIsTransient DEF IInv, TypeOK

(* What saving a status and a failure code does to the rows. *)
LEMMA SetFacts ==
  ASSUME session \in [Uploads -> Row], NEW u \in Uploads,
         NEW status \in UploadStatus, NEW code \in FailureCode,
         Set(u, status, code)
  PROVE  /\ session' \in [Uploads -> Row]
         /\ session'[u].status = status /\ session'[u].code = code
         /\ session'[u].linked = session[u].linked
         /\ \A v \in Uploads \ {u} : session'[v] = session[v]
<1> DEFINE mid == [session EXCEPT ![u].status = status]
<1>1. session[u] \in Row
  OBVIOUS
<1>2. /\ mid \in [Uploads -> Row]
      /\ mid[u].status = status /\ mid[u].linked = session[u].linked
      /\ \A v \in Uploads \ {u} : mid[v] = session[v]
  BY <1>1 DEF Row
<1>3. session' = [mid EXCEPT ![u].code = code]
  BY <1>1, Zenon DEF Set
<1>. HIDE DEF mid
<1>4. mid[u] \in Row
  BY <1>2
<1>. QED
  BY <1>2, <1>3, <1>4 DEF Row

-----------------------------------------------------------------------------
(* Creating a session.                                                     *)

LEMMA CreateSessionStep ==
  ASSUME IInv, NEW r \in Requests, NEW u \in Uploads, CreateSession(r, u)
  PROVE  IInv'
<1>0. TypeOK /\ Kept(u) /\ \A q \in Requests : ~Drives(q, u)
  BY Undriven DEF CreateSession, IInv, Transient
<1>s. /\ session' \in [Uploads -> Row] /\ session'[u].status = "INITIATING"
      /\ \A v \in Uploads \ {u} : session'[v] = session[v]
  BY <1>0, SetFacts DEF TypeOK, CreateSession, UploadStatus, FailureCode
<1>1. TypeOK'
  BY <1>0, <1>s DEF TypeOK, CreateSession, Serve, Go, Labels, storeVars,
                    faultVars
<1>2. Local(r, u)
  BY <1>0, <1>s DEF TypeOK, Local, CreateSession, Serve, Go, storeVars,
                    faultVars
<1>3. pc[r] = "idle" /\ pc'[r] = "initiating" /\ upload'[r] = u
  BY <1>0 DEF TypeOK, CreateSession, Serve, Go
<1>4. /\ session[u].status = "ABSENT" /\ session'[u].status = "INITIATING"
      /\ UNCHANGED <<multipart, orphan, object, lost>>
  BY <1>s DEF CreateSession, storeVars, faultVars
<1>5. Held(r)'
  BY <1>0, <1>3, <1>4 DEF Held, Kept, Starting, Assembling, Checking,
                          Discarding
<1>6. Kept(u)'
  BY <1>0, <1>4 DEF Kept
<1>. QED
  BY <1>0, <1>1, <1>2, <1>3, <1>5, <1>6, LocalStep DEF Drives

LEMMA InitiateMultipartStep ==
  ASSUME IInv, NEW r \in Requests, InitiateMultipart(r)
  PROVE  IInv'
<1>u. PICK u \in Uploads : u = upload[r]
  BY OnlyDriver DEF InitiateMultipart
<1>0. /\ TypeOK /\ session[u] \in Row
      /\ Held(r) /\ Kept(u) /\ \A q \in Requests \ {r} : ~Drives(q, u)
  BY <1>u, OnlyDriver DEF InitiateMultipart, IInv
<1>1. TypeOK'
  <2>1. /\ multipart' \in [Uploads -> {"none", "open", "closed"}]
        /\ orphan' \in [Uploads -> BOOLEAN]
    BY <1>u, <1>0 DEF TypeOK, InitiateMultipart
  <2>2. lost' \in [Uploads -> Nat]
    BY <1>u, <1>0 DEF TypeOK, InitiateMultipart, Misreport
  <2>3. /\ pc' \in [Requests -> Labels]
        /\ \A q \in Requests : pc'[q] # "idle" => upload'[q] \in Uploads
    BY <1>u, <1>0 DEF TypeOK, InitiateMultipart, Go, Labels
  <2>. QED
    BY <1>0, <2>1, <2>2, <2>3 DEF TypeOK, InitiateMultipart
<1>2. Local(r, u)
  BY <1>u, <1>0 DEF TypeOK, Local, InitiateMultipart, Misreport, Go
<1>3. /\ pc[r] = "initiating" /\ upload'[r] = u
      /\ session'[u] = session[u] /\ object'[u] = object[u]
      /\ expired'[u] = expired[u]
      /\ \/ /\ pc'[r] = "activating" /\ multipart'[u] = "open"
            /\ \/ orphan'[u] = orphan[u] /\ lost'[u] = lost[u]
               \/ lost'[u] = lost[u] + 1
         \/ /\ pc'[r] = "uninitiated" /\ multipart'[u] = "open"
            /\ lost'[u] = lost[u] + 1
         \/ /\ pc'[r] = "uninitiated" /\ multipart'[u] = multipart[u]
            /\ orphan'[u] = orphan[u] /\ lost'[u] = lost[u]
  BY <1>u, <1>0 DEF TypeOK, InitiateMultipart, Misreport, Go
<1>4. session[u].status = "INITIATING" /\ multipart[u] = "none"
      /\ object[u] = "none" /\ lost[u] \in Nat
  BY <1>u, <1>0, <1>3 DEF Held, Kept, Starting, TypeOK
<1>5. Held(r)'
  BY <1>3, <1>4 DEF Held, Starting, Assembling, Checking, Discarding,
                    Undisturbed
<1>6. Kept(u)'
  BY <1>u, <1>0, <1>3, <1>4 DEF Kept, Undisturbed
<1>. QED
  BY <1>u, <1>0, <1>1, <1>2, <1>3, <1>5, <1>6, LocalStep DEF Drives

-----------------------------------------------------------------------------
(* Requests that settle their session and answer.                          *)

LEMMA FinishStep ==
  ASSUME IInv, NEW r \in Requests, pc[r] \notin {"idle", "rejected"},
         NEW u \in Uploads, u = upload[r], Finish(r),
         UNCHANGED <<expired, storeVars, signed, faultVars>>,
         session' \in [Uploads -> Row],
         \A v \in Uploads \ {u} : session'[v] = session[v],
         session'[u].status \notin Transient,
         Kept(u)'
  PROVE  IInv'
<1>0. TypeOK /\ \A q \in Requests \ {r} : ~Drives(q, u)
  BY OnlyDriver DEF IInv
<1>1. TypeOK'
  BY <1>0 DEF TypeOK, Finish, Go, Labels, storeVars, faultVars
<1>2. Local(r, u)
  BY <1>0 DEF TypeOK, Local, Finish, Go, storeVars, faultVars
<1>3. pc'[r] = "idle"
  BY <1>0 DEF TypeOK, Finish, Go
<1>4. Held(r)'
  BY <1>3 DEF Held, Starting, Assembling, Checking, Discarding
<1>. QED
  BY <1>0, <1>1, <1>2, <1>3, <1>4, LocalStep

LEMMA ActivateSessionStep ==
  ASSUME IInv, NEW r \in Requests, ActivateSession(r)
  PROVE  IInv'
<1>u. PICK u \in Uploads : u = upload[r]
  BY OnlyDriver DEF ActivateSession
<1>0. TypeOK /\ Held(r) /\ Kept(u) /\ pc[r] = "activating"
  BY <1>u, OnlyDriver DEF ActivateSession, IInv
<1>1. session[u].status = "INITIATING" /\ multipart[u] # "none"
      /\ (~expired[u] => multipart[u] = "open")
  BY <1>u, <1>0 DEF Held, Starting
<1>2. /\ session' \in [Uploads -> Row]
      /\ \A v \in Uploads \ {u} : session'[v] = session[v]
      /\ session'[u].status = "UPLOADING" /\ session'[u].linked
      /\ UNCHANGED <<expired, multipart, orphan, object, lost>>
  BY <1>u, <1>0, <1>1 DEF TypeOK, ActivateSession, Row, UploadStatus,
                              FailureCode, storeVars, faultVars
<1>3. Kept(u)'
  BY <1>u, <1>0, <1>1, <1>2 DEF Kept, Undisturbed
<1>. QED
  BY <1>u, <1>0, <1>2, <1>3, FinishStep DEF ActivateSession, Transient

LEMMA FinalizeCompletionStep ==
  ASSUME IInv, NEW r \in Requests, FinalizeCompletion(r)
  PROVE  IInv'
<1>u. PICK u \in Uploads : u = upload[r]
  BY OnlyDriver DEF FinalizeCompletion
<1>0. TypeOK /\ Held(r) /\ Kept(u) /\ pc[r] = "finalizing"
  BY <1>u, OnlyDriver DEF FinalizeCompletion, IInv
<1>1. session[u].status = "COMPLETING" /\ multipart[u] = "closed"
      /\ object[u] = "right"
  BY <1>u, <1>0 DEF Held, Checking
<1>2. /\ session' \in [Uploads -> Row]
      /\ \A v \in Uploads \ {u} : session'[v] = session[v]
      /\ session'[u].status = "COMPLETED" /\ session'[u].code = "NONE"
      /\ session'[u].linked = session[u].linked
  BY <1>u, <1>0, <1>1, SetFacts DEF TypeOK, FinalizeCompletion, UploadStatus,
                              FailureCode
<1>3. UNCHANGED <<expired, multipart, orphan, object, lost>>
  BY DEF FinalizeCompletion, storeVars, faultVars
<1>4. Kept(u)'
  BY <1>u, <1>0, <1>1, <1>2, <1>3 DEF Kept
<1>. QED
  BY <1>u, <1>0, <1>2, <1>4, FinishStep DEF FinalizeCompletion, Transient

LEMMA MarkFailedStep ==
  ASSUME IInv, NEW r \in Requests, MarkFailed(r)
  PROVE  IInv'
<1>u. PICK u \in Uploads : u = upload[r]
  BY OnlyDriver DEF MarkFailed
<1>0. /\ TypeOK /\ Held(r) /\ Kept(u)
      /\ pc[r] \in {"uninitiated", "unverified", "mismatched"}
  BY <1>u, OnlyDriver DEF MarkFailed, IInv
<1>1. \E code \in FailureCode : Set(u, "FAILED", code)
  BY <1>u, <1>0 DEF MarkFailed, FailureCode
<1>2. /\ session' \in [Uploads -> Row]
      /\ \A v \in Uploads \ {u} : session'[v] = session[v]
      /\ session'[u].status = "FAILED"
      /\ session'[u].linked = session[u].linked
  BY <1>u, <1>0, <1>1, SetFacts DEF TypeOK, UploadStatus
<1>3. UNCHANGED <<expired, multipart, orphan, object, lost>>
  BY DEF MarkFailed, storeVars, faultVars
<1>4. ~session[u].linked /\ lost[u] = 0 => multipart[u] = "none"
  <2>1. CASE pc[r] = "uninitiated"
    BY <1>u, <1>0, <2>1 DEF Held
  <2>2. CASE pc[r] # "uninitiated"
    <3>1. session[u].status = "COMPLETING"
      BY <1>u, <1>0, <2>2 DEF Held, Checking
    <3>. QED BY <1>u, <1>0, <3>1 DEF Kept
  <2>. QED BY <2>1, <2>2
<1>5. Kept(u)'
  BY <1>u, <1>0, <1>2, <1>3, <1>4 DEF Kept
<1>. QED
  BY <1>u, <1>0, <1>2, <1>5, FinishStep DEF MarkFailed, Transient

LEMMA RestoreActiveStatusStep ==
  ASSUME IInv, NEW r \in Requests, RestoreActiveStatus(r)
  PROVE  IInv'
<1>u. PICK u \in Uploads : u = upload[r]
  BY OnlyDriver DEF RestoreActiveStatus
<1>0. /\ TypeOK /\ Held(r) /\ Kept(u)
      /\ pc[r] \in {"unassembled", "unaborted"}
  BY <1>u, OnlyDriver DEF RestoreActiveStatus, IInv
<1>1. \E status \in {"UPLOADING", "FAILED", "EXPIRED"}, code \in FailureCode :
        /\ Set(u, status, code)
        /\ status = "UPLOADING" /\ Undisturbed(u) => multipart[u] = "open"
        /\ session[u].linked
  <2>1. CASE pc[r] = "unassembled"
    <3>1. /\ session[u].status = "COMPLETING" /\ session[u].linked
          /\ Undisturbed(u) => multipart[u] = "open"
      BY <1>u, <1>0, <2>1 DEF Held, Kept, Assembling
    <3>2. Set(u, "UPLOADING", "UPLOAD_COMPLETE_FAILED")
      BY <1>u, <3>1, <2>1 DEF RestoreActiveStatus
    <3>. QED BY <3>1, <3>2 DEF FailureCode
  <2>2. CASE pc[r] = "unaborted"
    <3>1. /\ session[u].status = "ABORTING" /\ session[u].linked
          /\ prev[r] \in {"UPLOADING", "FAILED", "EXPIRED"}
          /\ prev[r] = "UPLOADING" /\ Undisturbed(u) => multipart[u] = "open"
      BY <1>u, <1>0, <2>2 DEF Held, Kept, Discarding
    <3>2. Set(u, prev[r], "UPLOAD_ABORT_FAILED")
      BY <1>u, <3>1, <2>2 DEF RestoreActiveStatus
    <3>. QED BY <3>1, <3>2 DEF FailureCode
  <2>. QED BY <1>u, <1>0, <2>1, <2>2
<1>2. PICK status \in {"UPLOADING", "FAILED", "EXPIRED"},
           code \in FailureCode :
        /\ Set(u, status, code)
        /\ status = "UPLOADING" /\ Undisturbed(u) => multipart[u] = "open"
        /\ session[u].linked
  BY <1>1
<1>3. /\ session' \in [Uploads -> Row]
      /\ \A v \in Uploads \ {u} : session'[v] = session[v]
      /\ session'[u].status = status
      /\ session'[u].linked = session[u].linked
  <2>1. session \in [Uploads -> Row] /\ status \in UploadStatus
    BY <1>0 DEF TypeOK, UploadStatus
  <2>2. Set(u, status, code)
    BY <1>2
  <2>. QED BY <2>1, <2>2, SetFacts, Zenon
<1>4. UNCHANGED <<expired, multipart, orphan, object, lost>>
  BY DEF RestoreActiveStatus, storeVars, faultVars
<1>5. /\ session'[u].linked
      /\ session'[u].status \in {"UPLOADING", "FAILED", "EXPIRED"}
      /\ orphan'[u] => lost'[u] > 0
  BY <1>0, <1>2, <1>3, <1>4 DEF Kept
<1>6. /\ multipart'[u] # "closed" => object'[u] = "none"
      /\ session'[u].status = "UPLOADING" /\ Undisturbed(u)'
           => multipart'[u] = "open"
  BY <1>0, <1>2, <1>3, <1>4 DEF Kept, Undisturbed
<1>7. Kept(u)'
  BY <1>5, <1>6 DEF Kept
<1>. QED
  BY <1>u, <1>0, <1>3, <1>7, FinishStep DEF RestoreActiveStatus, Transient

LEMMA FinalizeAbortStep ==
  ASSUME IInv, NEW r \in Requests, FinalizeAbort(r)
  PROVE  IInv'
<1>u. PICK u \in Uploads : u = upload[r]
  BY OnlyDriver DEF FinalizeAbort
<1>0. TypeOK /\ Held(r) /\ Kept(u) /\ pc[r] = "discarded"
  BY <1>u, OnlyDriver DEF FinalizeAbort, IInv
<1>1. /\ session[u].status = "ABORTING" /\ session[u].linked
      /\ multipart[u] = "closed" /\ object[u] = "none"
  BY <1>u, <1>0 DEF Held, Kept, Discarding
<1>2. /\ session' \in [Uploads -> Row]
      /\ \A v \in Uploads \ {u} : session'[v] = session[v]
      /\ session'[u].status = "ABORTED"
      /\ session'[u].linked = session[u].linked
  BY <1>u, <1>0, <1>1, SetFacts DEF TypeOK, FinalizeAbort,
                                    UploadStatus, FailureCode
<1>3. UNCHANGED <<expired, multipart, orphan, object, lost>>
  BY DEF FinalizeAbort, storeVars, faultVars
<1>4. Kept(u)'
  BY <1>0, <1>1, <1>2, <1>3 DEF Kept
<1>. QED
  BY <1>u, <1>0, <1>2, <1>4, FinishStep DEF FinalizeAbort, Transient

-----------------------------------------------------------------------------
(* Requests between two calls to the store.                                *)

(* A request that goes on writes no row; what it relies on next and what   *)
(* holds of its session follow from the call it has just made.             *)
LEMMA ContinueStep ==
  ASSUME IInv, NEW r \in Requests, pc[r] \notin {"idle", "rejected"},
         NEW u \in Uploads, u = upload[r],
         UNCHANGED <<session, expired, parts, orphan, signed, upload, prev,
                     abandoned>>,
         pc' \in [Requests -> Labels],
         pc'[r] \notin {"idle", "rejected"},
         \A q \in Requests \ {r} : pc'[q] = pc[q],
         multipart' \in [Uploads -> {"none", "open", "closed"}],
         object' \in [Uploads -> Content],
         lost' \in [Uploads -> Nat],
         \A v \in Uploads \ {u} :
           /\ multipart'[v] = multipart[v] /\ object'[v] = object[v]
           /\ lost'[v] = lost[v],
         Held(r)', Kept(u)'
  PROVE  IInv'
<1>0. TypeOK /\ \A q \in Requests \ {r} : ~Drives(q, u)
  BY OnlyDriver DEF IInv
<1>1. TypeOK'
  <2>1. \A q \in Requests : pc'[q] # "idle" => upload'[q] \in Uploads
    BY <1>0 DEF TypeOK
  <2>. QED BY <1>0, <2>1 DEF TypeOK
<1>2. Local(r, u)
  BY <1>0 DEF TypeOK, Local
<1>. QED
  BY <1>0, <1>1, <1>2, LocalStep DEF Drives

LEMMA CompleteMultipartStep ==
  ASSUME IInv, NEW r \in Requests, CompleteMultipart(r)
  PROVE  IInv'
<1>u. PICK u \in Uploads : u = upload[r]
  BY OnlyDriver DEF CompleteMultipart
<1>0. TypeOK /\ Held(r) /\ Kept(u) /\ pc[r] = "assembling"
  BY <1>u, OnlyDriver DEF CompleteMultipart, IInv
<1>1. /\ session[u].status = "COMPLETING" /\ session[u].linked
      /\ Undisturbed(u) => multipart[u] = "open"
  BY <1>u, <1>0 DEF Held, Kept, Assembling
<1>2. /\ UNCHANGED <<session, expired, parts, orphan, signed, upload, prev,
                     abandoned>>
      /\ pc' \in [Requests -> Labels]
      /\ \A q \in Requests \ {r} : pc'[q] = pc[q]
      /\ multipart' \in [Uploads -> {"none", "open", "closed"}]
      /\ object' \in [Uploads -> Content]
      /\ lost' \in [Uploads -> Nat]
      /\ \A v \in Uploads \ {u} :
           /\ multipart'[v] = multipart[v] /\ object'[v] = object[v]
           /\ lost'[v] = lost[v]
  BY <1>u, <1>0 DEF TypeOK, CompleteMultipart, Go, Misreport, Labels
<1>3. \/ /\ pc'[r] = "inspecting" /\ multipart'[u] = "closed"
         /\ lost'[u] = lost[u]
      \/ /\ pc'[r] = "unassembled" /\ multipart'[u] = "closed"
         /\ lost'[u] = lost[u] + 1
      \/ /\ pc'[r] = "unassembled" /\ multipart'[u] = multipart[u]
         /\ object'[u] = object[u] /\ lost'[u] = lost[u]
  BY <1>u, <1>0 DEF TypeOK, CompleteMultipart, Go, Misreport
<1>4. lost[u] \in Nat
  BY <1>0 DEF TypeOK
<1>5. Held(r)'
  BY <1>u, <1>1, <1>2, <1>3, <1>4 DEF Held, Starting, Assembling, Checking,
                                      Discarding, Undisturbed
<1>6. Kept(u)'
  BY <1>0, <1>1, <1>2, <1>3, <1>4 DEF Kept
<1>7. pc'[r] \notin {"idle", "rejected"}
  BY <1>3
<1>. QED
  BY <1>u, <1>0, <1>2, <1>5, <1>6, <1>7, ContinueStep

LEMMA InspectObjectStep ==
  ASSUME IInv, NEW r \in Requests, InspectObject(r)
  PROVE  IInv'
<1>u. PICK u \in Uploads : u = upload[r]
  BY OnlyDriver DEF InspectObject
<1>0. TypeOK /\ Held(r) /\ Kept(u) /\ pc[r] = "inspecting"
  BY <1>u, OnlyDriver DEF InspectObject, IInv
<1>1. session[u].status = "COMPLETING" /\ multipart[u] = "closed"
  BY <1>u, <1>0 DEF Held, Checking
<1>2. /\ UNCHANGED <<session, expired, multipart, orphan, parts, object,
                     signed, upload, prev, lost, abandoned>>
      /\ pc' \in [Requests -> Labels]
      /\ \A q \in Requests \ {r} : pc'[q] = pc[q]
  BY <1>0 DEF TypeOK, InspectObject, Go, Labels, storeVars, faultVars
<1>3. \/ pc'[r] = "finalizing" /\ object[u] = "right"
      \/ pc'[r] \in {"deleting", "unverified"}
  BY <1>u, <1>0 DEF TypeOK, InspectObject, Go
<1>4. Held(r)'
  BY <1>u, <1>1, <1>2, <1>3 DEF Held, Starting, Assembling, Checking,
                                Discarding
<1>5. Kept(u)'
  BY <1>0, <1>2, KeptUnchanged
<1>. QED
  BY <1>u, <1>0, <1>2, <1>3, <1>4, <1>5, ContinueStep DEF TypeOK

LEMMA DeleteMismatchedStep ==
  ASSUME IInv, NEW r \in Requests, DeleteMismatched(r)
  PROVE  IInv'
<1>u. PICK u \in Uploads : u = upload[r]
  BY OnlyDriver DEF DeleteMismatched
<1>0. TypeOK /\ Held(r) /\ Kept(u) /\ pc[r] = "deleting"
  BY <1>u, OnlyDriver DEF DeleteMismatched, IInv
<1>1. session[u].status = "COMPLETING" /\ multipart[u] = "closed"
  BY <1>u, <1>0 DEF Held, Checking
<1>2. /\ UNCHANGED <<session, expired, multipart, orphan, parts, signed,
                     upload, prev, lost, abandoned>>
      /\ pc' \in [Requests -> Labels] /\ pc'[r] = "mismatched"
      /\ \A q \in Requests \ {r} : pc'[q] = pc[q]
      /\ object' \in [Uploads -> Content]
      /\ \A v \in Uploads \ {u} : object'[v] = object[v]
  BY <1>u, <1>0 DEF TypeOK, DeleteMismatched, Go, Labels, Content, faultVars
<1>3. Held(r)'
  BY <1>u, <1>1, <1>2 DEF Held, Starting, Assembling, Checking, Discarding
<1>4. Kept(u)'
  BY <1>0, <1>1, <1>2 DEF Kept, Undisturbed
<1>. QED
  BY <1>u, <1>0, <1>2, <1>3, <1>4, ContinueStep DEF TypeOK

LEMMA AbortMultipartStep ==
  ASSUME IInv, NEW r \in Requests, AbortMultipart(r)
  PROVE  IInv'
<1>u. PICK u \in Uploads : u = upload[r]
  BY OnlyDriver DEF AbortMultipart
<1>0. TypeOK /\ Held(r) /\ Kept(u) /\ pc[r] = "aborting"
  BY <1>u, OnlyDriver DEF AbortMultipart, IInv
<1>1. /\ session[u].status = "ABORTING" /\ session[u].linked
      /\ prev[r] \in {"UPLOADING", "FAILED", "EXPIRED"}
      /\ prev[r] = "UPLOADING" /\ Undisturbed(u) => multipart[u] = "open"
      /\ multipart[u] # "closed" => object[u] = "none"
  BY <1>u, <1>0 DEF Held, Kept, Discarding
<1>2. /\ UNCHANGED <<session, expired, parts, orphan, object, signed, upload,
                     prev, abandoned>>
      /\ pc' \in [Requests -> Labels]
      /\ \A q \in Requests \ {r} : pc'[q] = pc[q]
      /\ multipart' \in [Uploads -> {"none", "open", "closed"}]
      /\ lost' \in [Uploads -> Nat]
      /\ \A v \in Uploads \ {u} :
           multipart'[v] = multipart[v] /\ lost'[v] = lost[v]
  BY <1>u, <1>0 DEF TypeOK, AbortMultipart, Go, Misreport, Labels
<1>3. \/ /\ pc'[r] = "discarded" /\ multipart[u] = "open"
         /\ multipart'[u] = "closed" /\ lost'[u] = lost[u]
      \/ /\ pc'[r] = "unaborted" /\ multipart'[u] = "closed"
         /\ lost'[u] = lost[u] + 1
      \/ /\ pc'[r] = "unaborted" /\ multipart'[u] = multipart[u]
         /\ lost'[u] = lost[u]
  BY <1>u, <1>0 DEF TypeOK, AbortMultipart, Go, Misreport
<1>4. lost[u] \in Nat
  BY <1>0 DEF TypeOK
<1>5. Held(r)'
  BY <1>u, <1>1, <1>2, <1>3, <1>4 DEF Held, Starting, Assembling, Checking,
                                      Discarding, Undisturbed
<1>6. Kept(u)'
  BY <1>0, <1>1, <1>2, <1>3, <1>4 DEF Kept
<1>7. pc'[r] \notin {"idle", "rejected"}
  BY <1>3
<1>. QED
  BY <1>u, <1>0, <1>2, <1>5, <1>6, <1>7, ContinueStep DEF TypeOK

-----------------------------------------------------------------------------
(* Requests that reserve a session, and the ones that die.                 *)

LEMMA ReserveCompletionStep ==
  ASSUME IInv, NEW r \in Requests, NEW u \in Uploads, ReserveCompletion(r, u)
  PROVE  IInv'
<1>0. TypeOK /\ Kept(u) /\ \A q \in Requests : ~Drives(q, u)
  BY Undriven DEF ReserveCompletion, IInv, Transient
<1>1. /\ session' \in [Uploads -> Row]
      /\ session'[u].status = "COMPLETING"
      /\ session'[u].linked = session[u].linked
      /\ \A v \in Uploads \ {u} : session'[v] = session[v]
  <2>1. session[u].code \in FailureCode
    BY <1>0 DEF TypeOK, Row
  <2>. QED
    BY <1>0, <2>1, SetFacts DEF TypeOK, ReserveCompletion, UploadStatus
<1>2. TypeOK'
  BY <1>0, <1>1 DEF TypeOK, ReserveCompletion, Serve, Go, Labels, storeVars,
                    faultVars
<1>3. Local(r, u)
  BY <1>0, <1>1 DEF TypeOK, Local, ReserveCompletion, Serve, Go, storeVars,
                    faultVars
<1>4. /\ pc[r] = "idle" /\ pc'[r] = "assembling" /\ upload'[r] = u
      /\ session[u].status = "UPLOADING"
      /\ UNCHANGED <<expired, multipart, orphan, object, lost>>
  BY <1>0 DEF TypeOK, ReserveCompletion, Serve, Go, storeVars, faultVars
<1>5. Held(r)'
  BY <1>0, <1>1, <1>4 DEF Held, Kept, Starting, Assembling, Checking,
                          Discarding, Undisturbed
<1>6. Kept(u)'
  BY <1>0, <1>1, <1>4 DEF Kept
<1>. QED
  BY <1>0, <1>2, <1>3, <1>4, <1>5, <1>6, LocalStep DEF Drives

(* A session without a multipart upload is aborted at once.                *)
LEMMA ReserveAbortUnlinked ==
  ASSUME IInv, NEW r \in Requests, NEW u \in Uploads, ReserveAbort(r, u),
         ~session[u].linked
  PROVE  IInv'
<1>0. TypeOK /\ Kept(u) /\ \A q \in Requests : ~Drives(q, u)
  BY Undriven DEF ReserveAbort, IInv, Transient
<1>1. /\ session' \in [Uploads -> Row]
      /\ session'[u].status = "ABORTED"
      /\ session'[u].linked = session[u].linked
      /\ \A v \in Uploads \ {u} : session'[v] = session[v]
  <2>1. session[u].code \in FailureCode
    BY <1>0 DEF TypeOK, Row
  <2>. QED
    BY <1>0, <2>1, SetFacts DEF TypeOK, ReserveAbort, UploadStatus
<1>2. /\ pc[r] = "idle" /\ UNCHANGED <<pc, upload, prev>>
      /\ session[u].status \in {"UPLOADING", "FAILED", "EXPIRED"}
      /\ UNCHANGED <<expired, storeVars, signed, faultVars>>
  BY DEF ReserveAbort
<1>3. TypeOK'
  BY <1>0, <1>1, <1>2 DEF TypeOK, storeVars, faultVars
<1>4. Local(r, u)
  BY <1>1, <1>2 DEF Local, storeVars, faultVars
<1>5. Held(r)'
  BY <1>2 DEF Held, Starting, Assembling, Checking, Discarding
<1>6. Kept(u)'
  BY <1>0, <1>1, <1>2 DEF Kept, storeVars, faultVars
<1>. QED
  BY <1>0, <1>1, <1>2, <1>3, <1>4, <1>5, <1>6, LocalStep DEF Transient

LEMMA ReserveAbortLinked ==
  ASSUME IInv, NEW r \in Requests, NEW u \in Uploads, ReserveAbort(r, u),
         session[u].linked
  PROVE  IInv'
<1>0. TypeOK /\ Kept(u) /\ \A q \in Requests : ~Drives(q, u)
  BY Undriven DEF ReserveAbort, IInv, Transient
<1>1. /\ session' \in [Uploads -> Row]
      /\ session'[u].status = "ABORTING"
      /\ session'[u].linked = session[u].linked
      /\ \A v \in Uploads \ {u} : session'[v] = session[v]
  <2>1. session[u].code \in FailureCode
    BY <1>0 DEF TypeOK, Row
  <2>. QED
    BY <1>0, <2>1, SetFacts DEF TypeOK, ReserveAbort, UploadStatus
<1>2. /\ Serve(r, u, "aborting")
      /\ prev' = [prev EXCEPT ![r] = session[u].status]
      /\ session[u].status \in {"UPLOADING", "FAILED", "EXPIRED"}
      /\ UNCHANGED <<expired, storeVars, signed, faultVars>>
  BY DEF ReserveAbort
<1>3. TypeOK'
  BY <1>0, <1>1, <1>2 DEF TypeOK, Serve, Go, Labels, storeVars, faultVars
<1>4. Local(r, u)
  BY <1>0, <1>1, <1>2 DEF TypeOK, Local, Serve, Go, storeVars, faultVars
<1>5. /\ pc[r] = "idle" /\ pc'[r] = "aborting" /\ upload'[r] = u
      /\ prev'[r] = session[u].status
      /\ UNCHANGED <<expired, multipart, orphan, object, lost>>
  BY <1>0, <1>2 DEF TypeOK, Serve, Go, storeVars, faultVars
<1>6. Held(r)'
  BY <1>0, <1>1, <1>2, <1>5 DEF Held, Kept, Starting, Assembling, Checking,
                                Discarding, Undisturbed
<1>7. Kept(u)'
  BY <1>0, <1>1, <1>5 DEF Kept
<1>. QED
  BY <1>0, <1>3, <1>4, <1>5, <1>6, <1>7, LocalStep DEF Drives

(* The death of a request leaves its session as it is, and counts.         *)
LEMMA AbandonStep ==
  ASSUME IInv, NEW r \in Requests, Abandon(r)
  PROVE  IInv'
<1>u. PICK u \in Uploads : u = upload[r]
  BY DEF Abandon, IInv, TypeOK
<1>0. TypeOK /\ Kept(u)
  BY DEF IInv
<1>1. TypeOK'
  BY <1>0, <1>u DEF TypeOK, Abandon, Finish, Go, Labels, storeVars
<1>2. /\ \A q \in Requests \ {r} :
           pc'[q] = pc[q] /\ upload'[q] = upload[q] /\ prev'[q] = prev[q]
      /\ pc'[r] = "idle"
      /\ UNCHANGED <<session, expired, multipart, orphan, object, lost>>
      /\ abandoned'[u] > 0
      /\ \A v \in Uploads \ {u} : abandoned'[v] = abandoned[v]
  BY <1>0, <1>u DEF TypeOK, Abandon, Finish, Go, storeVars
<1>3. \A q \in Requests, v \in Uploads :
        Drives(q, v)' <=> Drives(q, v) /\ q # r
  BY <1>2 DEF Drives
<1>4. SingleDriver'
  BY <1>3 DEF IInv, SingleDriver
<1>5. StrandedOnlyByDeath'
  <2>1. ASSUME NEW v \in Uploads,
               session'[v].status \in Transient /\ abandoned'[v] = 0
        PROVE  \E q \in Requests : Drives(q, v)'
    <3>1. v # u
      BY <2>1, <1>2
    <3>2. PICK q \in Requests : Drives(q, v)
      BY <2>1, <3>1, <1>2 DEF IInv, StrandedOnlyByDeath
    <3>3. q # r
      BY <3>1, <3>2, <1>u DEF Drives
    <3>. QED BY <3>2, <3>3, <1>3
  <2>. QED BY <2>1 DEF StrandedOnlyByDeath
<1>6. ASSUME NEW q \in Requests PROVE Held(q)'
  <2>1. CASE q = r
    BY <2>1, <1>2 DEF Held, Starting, Assembling, Checking, Discarding
  <2>2. CASE q # r
    BY <2>2, <1>2, HeldUnchanged DEF IInv
  <2>. QED BY <2>1, <2>2
<1>7. \A v \in Uploads : Kept(v)'
  BY <1>2, KeptUnchanged DEF IInv
<1>. QED
  BY <1>1, <1>4, <1>5, <1>6, <1>7 DEF IInv

-----------------------------------------------------------------------------
(* Steps that change no row and no driver: the browser, the clock, the     *)
(* bucket's clean-up, and requests that are turned away.                   *)

LEMMA QuietStep ==
  ASSUME IInv, TypeOK', UNCHANGED <<session, abandoned>>,
         \A q \in Requests, v \in Uploads : Drives(q, v)' <=> Drives(q, v),
         \A q \in Requests : Held(q)', \A v \in Uploads : Kept(v)'
  PROVE  IInv'
<1>1. SingleDriver' /\ StrandedOnlyByDeath'
  BY DEF IInv, SingleDriver, StrandedOnlyByDeath
<1>. QED
  BY <1>1 DEF IInv

LEMMA PresignPartStep ==
  ASSUME IInv, NEW u \in Uploads, PresignPart(u)
  PROVE  IInv'
<1>1. TypeOK' /\ UNCHANGED <<session, expired, multipart, orphan, object, pc,
                             upload, prev, lost, abandoned>>
  BY DEF IInv, TypeOK, PresignPart, storeVars, faultVars
<1>2. \A q \in Requests, v \in Uploads : Drives(q, v)' <=> Drives(q, v)
  BY <1>1 DEF Drives
<1>3. (\A q \in Requests : Held(q)') /\ (\A v \in Uploads : Kept(v)')
  BY <1>1, HeldUnchanged, KeptUnchanged DEF IInv
<1>. QED BY <1>1, <1>2, <1>3, QuietStep

LEMMA PutPartStep ==
  ASSUME IInv, NEW u \in Uploads, PutPart(u)
  PROVE  IInv'
<1>1. TypeOK' /\ UNCHANGED <<session, expired, multipart, orphan, object, pc,
                             upload, prev, lost, abandoned>>
  BY DEF IInv, TypeOK, PutPart, Content, faultVars
<1>2. \A q \in Requests, v \in Uploads : Drives(q, v)' <=> Drives(q, v)
  BY <1>1 DEF Drives
<1>3. (\A q \in Requests : Held(q)') /\ (\A v \in Uploads : Kept(v)')
  BY <1>1, HeldUnchanged, KeptUnchanged DEF IInv
<1>. QED BY <1>1, <1>2, <1>3, QuietStep

(* A request that is turned away, coming or going. *)
LEMMA RejectionStep ==
  ASSUME IInv, NEW r \in Requests, TypeOK',
         pc[r] \in {"idle", "rejected"}, pc'[r] \in {"idle", "rejected"},
         \A q \in Requests \ {r} :
           pc'[q] = pc[q] /\ upload'[q] = upload[q] /\ prev'[q] = prev[q],
         UNCHANGED <<session, expired, multipart, orphan, object, lost,
                     abandoned>>
  PROVE  IInv'
<1>1. \A q \in Requests, v \in Uploads : Drives(q, v)' <=> Drives(q, v)
  BY DEF Drives
<1>2. Held(r)'
  BY DEF Held, Starting, Assembling, Checking, Discarding
<1>3. (\A q \in Requests : Held(q)') /\ (\A v \in Uploads : Kept(v)')
  BY <1>2, HeldUnchanged, KeptUnchanged DEF IInv
<1>. QED BY <1>1, <1>3, QuietStep

LEMMA RejectExpiredStep ==
  ASSUME IInv, NEW r \in Requests, NEW u \in Uploads, RejectExpired(r, u)
  PROVE  IInv'
<1>1. TypeOK' /\ UNCHANGED <<session, expired, multipart, orphan, object,
                             lost, abandoned>>
  BY DEF IInv, TypeOK, RejectExpired, Serve, Go, Labels, storeVars, faultVars
<1>2. /\ pc[r] = "idle" /\ pc'[r] = "rejected"
      /\ \A q \in Requests \ {r} :
           pc'[q] = pc[q] /\ upload'[q] = upload[q] /\ prev'[q] = prev[q]
  BY DEF IInv, TypeOK, RejectExpired, Serve, Go
<1>. QED BY <1>1, <1>2, RejectionStep

LEMMA AnswerRejectedStep ==
  ASSUME IInv, NEW r \in Requests, AnswerRejected(r)
  PROVE  IInv'
<1>1. TypeOK' /\ UNCHANGED <<session, expired, multipart, orphan, object,
                             lost, abandoned>>
  BY DEF IInv, TypeOK, AnswerRejected, Finish, Go, Labels, storeVars, faultVars
<1>2. /\ pc[r] = "rejected" /\ pc'[r] = "idle"
      /\ \A q \in Requests \ {r} :
           pc'[q] = pc[q] /\ upload'[q] = upload[q] /\ prev'[q] = prev[q]
  BY DEF IInv, TypeOK, AnswerRejected, Finish, Go
<1>. QED BY <1>1, <1>2, RejectionStep

LEMMA ExpireStep ==
  ASSUME IInv, NEW u \in Uploads, Expire(u)
  PROVE  IInv'
<1>1. /\ TypeOK' /\ expired'[u]
      /\ \A v \in Uploads \ {u} : expired'[v] = expired[v]
      /\ UNCHANGED <<session, multipart, orphan, object, pc, upload, prev,
                     lost, abandoned>>
  BY DEF IInv, TypeOK, Expire, storeVars, faultVars
<1>2. \A q \in Requests, v \in Uploads : Drives(q, v)' <=> Drives(q, v)
  BY <1>1 DEF Drives
<1>3. ASSUME NEW q \in Requests PROVE Held(q)'
  <2>1. CASE upload[q] = u
    BY <2>1, <1>1 DEF IInv, Held, Undisturbed
  <2>2. CASE upload[q] # u /\ pc[q] # "idle"
    BY <2>2, <1>1, HeldUnchanged DEF IInv, TypeOK
  <2>3. CASE pc[q] = "idle"
    BY <2>3, <1>1 DEF Held, Starting, Assembling, Checking, Discarding
  <2>. QED BY <2>1, <2>2, <2>3
<1>4. ASSUME NEW v \in Uploads PROVE Kept(v)'
  <2>1. CASE v = u
    BY <2>1, <1>1 DEF IInv, Kept, Undisturbed
  <2>2. CASE v # u
    BY <2>2, <1>1, KeptUnchanged DEF IInv
  <2>. QED BY <2>1, <2>2
<1>. QED BY <1>1, <1>2, <1>3, <1>4, QuietStep

LEMMA CleanUpIncompleteStep ==
  ASSUME IInv, NEW u \in Uploads, CleanUpIncomplete(u)
  PROVE  IInv'
<1>1. /\ TypeOK' /\ expired[u]
      /\ \/ /\ multipart[u] = "open" /\ multipart'[u] = "closed"
            /\ orphan'[u] = orphan[u]
         \/ ~orphan'[u] /\ multipart'[u] = multipart[u]
      /\ \A v \in Uploads \ {u} :
           multipart'[v] = multipart[v] /\ orphan'[v] = orphan[v]
      /\ UNCHANGED <<session, expired, object, pc, upload, prev, lost,
                     abandoned>>
  BY DEF IInv, TypeOK, CleanUpIncomplete, faultVars
<1>2. \A q \in Requests, v \in Uploads : Drives(q, v)' <=> Drives(q, v)
  BY <1>1 DEF Drives
<1>3. ASSUME NEW q \in Requests PROVE Held(q)'
  <2>1. CASE upload[q] = u
    BY <2>1, <1>1 DEF IInv, Held, Undisturbed
  <2>2. CASE upload[q] # u /\ pc[q] # "idle"
    BY <2>2, <1>1, HeldUnchanged DEF IInv, TypeOK
  <2>3. CASE pc[q] = "idle"
    BY <2>3, <1>1 DEF Held, Starting, Assembling, Checking, Discarding
  <2>. QED BY <2>1, <2>2, <2>3
<1>4. ASSUME NEW v \in Uploads PROVE Kept(v)'
  <2>1. CASE v = u
    BY <2>1, <1>1 DEF IInv, Kept, Undisturbed
  <2>2. CASE v # u
    BY <2>2, <1>1, KeptUnchanged DEF IInv
  <2>. QED BY <2>1, <2>2
<1>. QED BY <1>1, <1>2, <1>3, <1>4, QuietStep

-----------------------------------------------------------------------------
(* The theorems.                                                           *)

LEMMA InvInit ==
  ASSUME Init
  PROVE  IInv
<1>1. TypeOK
  BY DEF Init, TypeOK, Row, UploadStatus, FailureCode, Content, Labels
<1>2. SingleDriver /\ StrandedOnlyByDeath
  BY DEF Init, SingleDriver, StrandedOnlyByDeath, Drives, Transient
<1>3. \A r \in Requests : Held(r)
  BY NotDrivingHolds DEF Init
<1>4. \A u \in Uploads : Kept(u)
  BY DEF Init, Kept, Undisturbed
<1>. QED BY <1>1, <1>2, <1>3, <1>4 DEF IInv

LEMMA InvStep ==
  ASSUME IInv, [Next]_vars
  PROVE  IInv'
<1>1. ASSUME NEW r \in Requests, NEW u \in Uploads,
             \/ CreateSession(r, u) \/ ReserveCompletion(r, u)
             \/ ReserveAbort(r, u) \/ RejectExpired(r, u)
      PROVE  IInv'
  BY <1>1, CreateSessionStep, ReserveCompletionStep, ReserveAbortLinked,
     ReserveAbortUnlinked, RejectExpiredStep
<1>2. ASSUME NEW r \in Requests, Proceed(r)
      PROVE  IInv'
  BY <1>2, InitiateMultipartStep, ActivateSessionStep, AnswerRejectedStep,
     CompleteMultipartStep, InspectObjectStep, DeleteMismatchedStep,
     FinalizeCompletionStep, MarkFailedStep, RestoreActiveStatusStep,
     AbortMultipartStep, FinalizeAbortStep DEF Proceed
<1>3. ASSUME NEW r \in Requests, Abandon(r)
      PROVE  IInv'
  BY <1>3, AbandonStep
<1>4. ASSUME NEW u \in Uploads,
             \/ PresignPart(u) \/ PutPart(u)
             \/ Expire(u) \/ CleanUpIncomplete(u)
      PROVE  IInv'
  BY <1>4, PresignPartStep, PutPartStep, ExpireStep, CleanUpIncompleteStep
<1>5. CASE UNCHANGED vars
  <2>1. /\ TypeOK'
        /\ \A q \in Requests, v \in Uploads : Drives(q, v)' <=> Drives(q, v)
    BY <1>5 DEF IInv, TypeOK, Drives, vars
  <2>2. (\A q \in Requests : Held(q)') /\ (\A v \in Uploads : Kept(v)')
    BY <1>5, HeldUnchanged, KeptUnchanged DEF IInv, vars
  <2>. QED
    BY <1>5, <2>1, <2>2, QuietStep DEF vars
<1>. QED
  BY <1>1, <1>2, <1>3, <1>4, <1>5 DEF Next

(* The inductive invariant holds in every reachable state. *)
THEOREM Invariance == Spec => []IInv
  BY InvInit, InvStep, PTL DEF Spec

(* Every variable keeps its type. *)
THEOREM TypeCorrect == Spec => []TypeOK
<1>1. IInv => TypeOK
  BY DEF IInv
<1>. QED BY <1>1, Invariance, PTL

(* The transient statuses work as a lock on a session, although no service *)
(* holds a database lock during its calls to the store.                    *)
THEOREM OneDriver == Spec => []SingleDriver
<1>1. IInv => SingleDriver
  BY DEF IInv
<1>. QED BY <1>1, Invariance, PTL

(* A session is COMPLETED only over an object of the declared size that no *)
(* multipart upload can replace.                                           *)
THEOREM CompletedIsVerified == Spec => []CompletedVerified
<1>1. IInv => CompletedVerified
  BY DEF IInv, CompletedVerified, Kept
<1>. QED BY <1>1, Invariance, PTL

(* An ABORTED session leaves nothing in the store, whatever path led to it.*)
THEOREM AbortedLeavesNothing == Spec => []AbortedIsClean
<1>1. IInv => AbortedIsClean
  BY DEF IInv, AbortedIsClean, Kept
<1>. QED BY <1>1, Invariance, PTL

(* Only the death of a request strands a session in a transient status.    *)
THEOREM StrandedByDeath == Spec => []StrandedOnlyByDeath
<1>1. IInv => StrandedOnlyByDeath
  BY DEF IInv
<1>. QED BY <1>1, Invariance, PTL

(* Without lost answers and dead requests no multipart upload is orphaned. *)
THEOREM NoOrphanUpload == Spec => []OpenIsLinked
<1>1. ASSUME IInv, NEW u \in Uploads, lost[u] = 0, abandoned[u] = 0
      PROVE  /\ ~orphan[u]
             /\ multipart[u] = "open" =>
                  session[u].linked \/ \E r \in Requests : Drives(r, u)
  <2>1. Kept(u)
    BY <1>1 DEF IInv
  <2>2. ~orphan[u]
    BY <1>1, <2>1 DEF Kept
  <2>3. ASSUME multipart[u] = "open"
        PROVE  session[u].linked \/ \E r \in Requests : Drives(r, u)
    <3>1. session[u].linked \/ session[u].status = "INITIATING"
      BY <1>1, <2>1, <2>3 DEF Kept
    <3>. QED
      BY <1>1, <3>1 DEF IInv, StrandedOnlyByDeath, Transient
  <2>. QED BY <2>2, <2>3
<1>2. IInv => OpenIsLinked
  BY <1>1 DEF OpenIsLinked
<1>. QED BY <1>2, Invariance, PTL

(* A session that accepts parts has a multipart upload to put them in.     *)
THEOREM UploadingCanGoOn == Spec => []UploadingIsOpen
<1>1. IInv => UploadingIsOpen
  BY DEF IInv, UploadingIsOpen, Kept, Undisturbed
<1>. QED BY <1>1, Invariance, PTL

(* No service writes the row of a completed or aborted session.            *)
LEMMA SettledStep ==
  ASSUME IInv, [Next]_vars, NEW u \in Uploads,
         session[u].status \in {"COMPLETED", "ABORTED"}
  PROVE  session'[u] = session[u]
<1>0. /\ session \in [Uploads -> Row]
      /\ upload \in [Requests -> Uploads \union {NoUpload}]
  BY DEF IInv, TypeOK
<1>1. \A r \in Requests : ~Drives(r, u)
  BY Undriven DEF Transient
<1>2. ASSUME NEW r \in Requests, upload[r] # u,
             NEW status, NEW code, Set(upload[r], status, code)
      PROVE  session'[u] = session[u]
  BY <1>0, <1>2 DEF Set
<1>3. ASSUME NEW v \in Uploads, v # u, NEW status, NEW code,
             Set(v, status, code)
      PROVE  session'[u] = session[u]
  BY <1>0, <1>3 DEF Set
<1>4. ASSUME NEW r \in Requests, Proceed(r)
      PROVE  session'[u] = session[u]
  <2>1. CASE pc[r] \in {"idle", "rejected"}
    BY <1>4, <2>1 DEF Proceed, InitiateMultipart, ActivateSession,
       AnswerRejected, CompleteMultipart, InspectObject, DeleteMismatched,
       FinalizeCompletion, MarkFailed, RestoreActiveStatus, AbortMultipart,
       FinalizeAbort
  <2>2. CASE pc[r] \notin {"idle", "rejected"}
    <3>1. upload[r] # u
      BY <1>1, <2>2 DEF Drives
    <3>2. CASE ActivateSession(r)
      BY <1>0, <3>1, <3>2 DEF ActivateSession
    <3>3. CASE MarkFailed(r)
      BY <1>2, <3>1, <3>3 DEF MarkFailed
    <3>5. CASE RestoreActiveStatus(r)
      BY <1>2, <3>1, <3>5 DEF RestoreActiveStatus
    <3>6. CASE FinalizeCompletion(r) \/ FinalizeAbort(r)
      BY <1>2, <3>1, <3>6 DEF FinalizeCompletion, FinalizeAbort
    <3>4. CASE InitiateMultipart(r) \/ AnswerRejected(r)
               \/ CompleteMultipart(r) \/ InspectObject(r)
               \/ DeleteMismatched(r) \/ AbortMultipart(r)
      BY <3>4 DEF InitiateMultipart, AnswerRejected, CompleteMultipart,
                  InspectObject, DeleteMismatched, AbortMultipart
    <3>. QED BY <1>4, <3>2, <3>3, <3>4, <3>5, <3>6 DEF Proceed
  <2>. QED BY <2>1, <2>2
<1>5. ASSUME NEW r \in Requests, NEW v \in Uploads,
             \/ CreateSession(r, v) \/ ReserveCompletion(r, v)
             \/ ReserveAbort(r, v) \/ RejectExpired(r, v)
      PROVE  session'[u] = session[u]
  <2>1. session[v].status \in {"COMPLETED", "ABORTED"} => RejectExpired(r, v)
    BY <1>5 DEF CreateSession, ReserveCompletion, ReserveAbort
  <2>2. CASE RejectExpired(r, v)
    BY <2>2 DEF RejectExpired
  <2>3. CASE v # u
    BY <1>3, <1>5, <2>3 DEF CreateSession, ReserveCompletion, ReserveAbort,
                            RejectExpired
  <2>. QED BY <2>1, <2>2, <2>3
<1>6. ASSUME NEW r \in Requests, Abandon(r)
      PROVE  session'[u] = session[u]
  BY <1>6 DEF Abandon
<1>7. ASSUME NEW v \in Uploads,
             \/ PresignPart(v) \/ PutPart(v)
             \/ Expire(v) \/ CleanUpIncomplete(v)
      PROVE  session'[u] = session[u]
  BY <1>7 DEF PresignPart, PutPart, Expire, CleanUpIncomplete
<1>8. CASE UNCHANGED vars
  BY <1>8 DEF vars
<1>. QED
  BY <1>4, <1>5, <1>6, <1>7, <1>8 DEF Next

(* Completed and aborted sessions are final. *)
THEOREM SettledIsFinal == Spec => SettledFrozen
<1>1. IInv /\ [Next]_vars =>
        [\A u \in Uploads : session[u].status \in {"COMPLETED", "ABORTED"}
           => session'[u] = session[u]]_vars
  BY SettledStep
<1>. QED BY <1>1, Invariance, PTL DEF Spec, SettledFrozen
=============================================================================
