------------------------- MODULE VectorImportProofs -------------------------
(***************************************************************************)
(* Proofs about VectorImport, for any number of versions, layers and jobs. *)
(***************************************************************************)
EXTENDS VectorImport, TLAPS

USE ImportAssumption

-----------------------------------------------------------------------------
(* What a part of the invariant does not speak of does not disturb it.     *)

LEMMA RowsFrame ==
  ASSUME RowsAgree, UNCHANGED <<dataset, version, layer, tables, target>>
  PROVE  RowsAgree'
  BY DEF RowsAgree

LEMMA JobsFrame ==
  ASSUME JobsAgree, UNCHANGED <<target, pc, at, jobStatus>>
  PROVE  JobsAgree'
  BY DEF JobsAgree, Agrees

LEMMA AloneFrame ==
  ASSUME AttemptsAreAlone, UNCHANGED <<target, pc, jobStatus>>
  PROVE  AttemptsAreAlone'
  BY DEF AttemptsAreAlone, Busy, Handling

LEMMA GuardedFrame ==
  ASSUME CandidatesAreGuarded,
         UNCHANGED <<dataset, version, revoked, target, pc>>
  PROVE  CandidatesAreGuarded'
  BY DEF CandidatesAreGuarded, Guarded

LEMMA HeldFrame ==
  ASSUME StorageIsHeld,
         UNCHANGED <<tables, leaks, version, target, pc, at, known>>
  PROVE  StorageIsHeld'
  BY DEF StorageIsHeld, HoldsStaging, HoldsFinal, Of

LEMMA DrivenFrame ==
  ASSUME ImportingIsDriven, UNCHANGED <<version, target, pc, jobStatus>>
  PROVE  ImportingIsDriven'
  BY DEF ImportingIsDriven, Lost, Idle, Busy, Handling, Of

LEMMA PublishedFrame ==
  ASSUME ReadyIsPublished, UNCHANGED <<version, layer, tables, target, pc>>
  PROVE  ReadyIsPublished'
  BY DEF ReadyIsPublished, Published, Withdrawing, Of

LEMMA StoredFrame ==
  ASSUME RunningIsStored,
         UNCHANGED <<layer, tables, target, pc, at, jobStatus>>
  PROVE  RunningIsStored'
  BY DEF RunningIsStored, Stored

LEMMA ApartFrame ==
  ASSUME ReconcilerIsApart,
         UNCHANGED <<reconciler, inventory, found, version, layer, target, pc,
                     jobStatus>>
  PROVE  ReconcilerIsApart'
  BY DEF ReconcilerIsApart, Idle, Busy, Handling, Of

-----------------------------------------------------------------------------
(* A table belongs to one layer of one version.                            *)
LEMMA TablesApart ==
  /\ \A v, w, i, k : Staging(v, i) = Staging(w, k) <=> v = w /\ i = k
  /\ \A v, w, i, k : Final(v, i) = Final(w, k) <=> v = w /\ i = k
  /\ \A v, w, i, k : Staging(v, i) # Final(w, k)
  BY DEF Staging, Final

LEMMA TablesTyped ==
  ASSUME NEW v \in Versions, NEW i \in Layers
  PROVE  /\ Staging(v, i) \in Tables
         /\ Final(v, i) \in Tables
         /\ Staging(v, i)[1] = "stg" /\ Final(v, i)[1] = "v"
         /\ Staging(v, i)[2] = v /\ Final(v, i)[2] = v
         /\ Staging(v, i)[3] = i /\ Final(v, i)[3] = i
  BY DEF Staging, Final, Tables

LEMMA TablesNamed ==
  ASSUME NEW t \in Tables
  PROVE  /\ t[1] \in {"stg", "v"} /\ t[2] \in Versions /\ t[3] \in Layers
         /\ t[1] = "stg" => t = Staging(t[2], t[3])
         /\ t[1] = "v" => t = Final(t[2], t[3])
  BY DEF Staging, Final, Tables

(* What is known of a job under way.                                       *)
Typed(j) ==
  /\ target[j] \in Versions /\ target[j] # NoVersion /\ j \in Of(target[j])
  /\ at[j] \in Nat /\ at[j] >= 1 /\ known[j] \subseteq Layers
  /\ pc[j] \in {"staging", "promoting", "publishing"} => at[j] \in Layers
  /\ version[target[j]] # "ABSENT"

LEMMA BusyTyped ==
  ASSUME IInv, NEW j \in Jobs, Busy(j)
  PROVE  Typed(j)
<1>1. target[j] # NoVersion
  BY DEF IInv, TypeOK, JobsAgree, Agrees, Busy, Handling
<1>. QED
  BY <1>1 DEF IInv, TypeOK, RowsAgree, JobsAgree, Agrees, Of, Typed

-----------------------------------------------------------------------------
(* A step of one handler. It touches what belongs to its own version, so   *)
(* each part of the invariant has to be looked at there only.              *)

StepsAlone(j) ==
  /\ Busy(j) /\ target' = target /\ UNCHANGED recVars
  /\ \A k \in Jobs \ {j} : /\ pc'[k] = pc[k] /\ at'[k] = at[k]
                           /\ known'[k] = known[k]
                           /\ jobStatus'[k] = jobStatus[k]
  /\ dataset'.current \in {dataset.current, target[j]}
  /\ dataset'.current = target[j] \/ (revoked' <=> revoked)
  /\ \A v \in Versions \ {target[j]} :
       /\ version'[v] = version[v] /\ layer'[v] = layer[v]
       /\ v \in leaks => v \in leaks'
       /\ \A i \in Layers :
            /\ (Staging(v, i) \in tables') <=> (Staging(v, i) \in tables)
            /\ (Final(v, i) \in tables') <=> (Final(v, i) \in tables)

LEMMA AloneOnVersion ==
  ASSUME IInv, ~SharedImports, NEW j \in Jobs, Busy(j),
         NEW k \in Jobs, k # j, target[k] = target[j]
  PROVE  ~Busy(k)
  BY DEF IInv, AttemptsAreAlone

(* The tables of its version, seen from the handler.                       *)
HoldsOwn(j) ==
  target[j] \notin leaks =>
    \A i \in Layers :
      /\ Staging(target[j], i) \in tables => HoldsStaging(j, i)
      /\ Final(target[j], i) \in tables =>
           \/ /\ version[target[j]] = "READY"
              /\ pc[j] \notin {"activating", "leaving", "failing"}
           \/ HoldsFinal(j, i)

LEMMA HoldersAreBusy ==
  ASSUME NEW j \in Jobs, NEW i,
         HoldsStaging(j, i) \/ HoldsFinal(j, i)
           \/ pc[j] \in {"activating", "leaving", "failing"}
  PROVE  Busy(j)
  BY DEF HoldsStaging, HoldsFinal, Busy, Handling

LEMMA HoldsOwnBefore ==
  ASSUME IInv, ~SharedImports, NEW j \in Jobs, Busy(j)
  PROVE  HoldsOwn(j)
<1>1. target[j] \in Versions /\ j \in Of(target[j])
  BY BusyTyped DEF Typed
<1>. SUFFICES ASSUME target[j] \notin leaks, NEW i \in Layers
              PROVE  /\ Staging(target[j], i) \in tables => HoldsStaging(j, i)
                     /\ Final(target[j], i) \in tables =>
                          \/ /\ version[target[j]] = "READY"
                             /\ pc[j] \notin {"activating", "leaving", "failing"}
                          \/ HoldsFinal(j, i)
  BY DEF HoldsOwn
<1>2. \A k \in Of(target[j]) :
        HoldsStaging(k, i) \/ HoldsFinal(k, i) => k = j
  BY HoldersAreBusy, AloneOnVersion DEF Of
<1>3. /\ Staging(target[j], i) \in tables =>
           \E k \in Of(target[j]) : HoldsStaging(k, i)
      /\ Final(target[j], i) \in tables =>
           \/ /\ version[target[j]] = "READY"
              /\ \A k \in Of(target[j]) : pc[k] \notin {"activating", "leaving", "failing"}
           \/ \E k \in Of(target[j]) : HoldsFinal(k, i)
  BY <1>1 DEF IInv, StorageIsHeld
<1>. QED
  BY <1>1, <1>2, <1>3

LEMMA HeldStep ==
  ASSUME IInv, ~SharedImports, NEW j \in Jobs, StepsAlone(j), HoldsOwn(j)'
  PROVE  StorageIsHeld'
<1>1. /\ Busy(j) /\ target' = target
      /\ target[j] \in Versions /\ j \in Of(target[j])
  BY BusyTyped DEF StepsAlone, Typed
<1>. SUFFICES ASSUME NEW v \in Versions, v \notin leaks', NEW i \in Layers
              PROVE  /\ Staging(v, i) \in tables' =>
                          \E k \in Of(v)' : HoldsStaging(k, i)'
                     /\ Final(v, i) \in tables' =>
                          \/ /\ version'[v] = "READY"
                             /\ \A k \in Of(v)' :
                                  pc'[k] \notin {"activating", "leaving", "failing"}
                          \/ \E k \in Of(v)' : HoldsFinal(k, i)'
  BY DEF StorageIsHeld, Staging, Final
<1>2. Of(v)' = Of(v)
  BY <1>1 DEF Of
<1>3. \A k \in Jobs \ {j} : /\ HoldsStaging(k, i)' <=> HoldsStaging(k, i)
                            /\ HoldsFinal(k, i)' <=> HoldsFinal(k, i)
                            /\ pc'[k] = pc[k]
  BY DEF StepsAlone, HoldsStaging, HoldsFinal
<1>4. CASE v = target[j]
  <2>1. \A k \in Of(v) : k # j => pc[k] \notin {"activating", "leaving", "failing"}
    BY <1>1, <1>4, AloneOnVersion DEF Of, Busy, Handling
  <2>2. /\ Staging(v, i) \in tables' => HoldsStaging(j, i)'
        /\ Final(v, i) \in tables' =>
             \/ /\ version'[v] = "READY"
                /\ pc'[j] \notin {"activating", "leaving", "failing"}
             \/ HoldsFinal(j, i)'
    BY <1>1, <1>4 DEF HoldsOwn, Staging, Final
  <2>. QED
    BY <1>1, <1>2, <1>3, <1>4, <2>1, <2>2 DEF Of
<1>5. CASE v # target[j]
  <2>1. j \notin Of(v)
    BY <1>5 DEF Of
  <2>2. /\ version'[v] = version[v] /\ v \notin leaks
        /\ Staging(v, i) \in tables' => Staging(v, i) \in tables
        /\ Final(v, i) \in tables' => Final(v, i) \in tables
    BY <1>5 DEF StepsAlone
  <2>3. /\ Staging(v, i) \in tables => \E k \in Of(v) : HoldsStaging(k, i)
        /\ Final(v, i) \in tables =>
             \/ /\ version[v] = "READY"
                /\ \A k \in Of(v) : pc[k] \notin {"activating", "leaving", "failing"}
             \/ \E k \in Of(v) : HoldsFinal(k, i)
    BY <2>2 DEF IInv, StorageIsHeld
  <2>. QED
    BY <1>2, <1>3, <2>1, <2>2, <2>3 DEF Of
<1>. QED
  BY <1>4, <1>5

LEMMA PublishedStep ==
  ASSUME IInv, ~SharedImports, ~ReconcileAnytime,
         NEW j \in Jobs, StepsAlone(j),
         \/ version'[target[j]] # "READY"
         \/ pc'[j] \in {"failing", "torn"}
         \/ Published(target[j])'
         \/ /\ pc[j] # "failing" /\ version[target[j]] = "READY"
            /\ Published(target[j]) => Published(target[j])'
  PROVE  ReadyIsPublished'
<1>1. /\ target' = target /\ target[j] \in Versions /\ j \in Of(target[j])
  BY BusyTyped DEF StepsAlone, Typed
<1>. SUFFICES ASSUME NEW v \in Versions, version'[v] = "READY",
                     ~Withdrawing(v)'
              PROVE  Published(v)'
  BY DEF ReadyIsPublished
<1>2. \A k \in Of(v) : pc'[k] \notin {"failing", "torn"}
  BY <1>1 DEF Withdrawing, Of
<1>3. CASE v = target[j]
  <2>1. \A k \in Of(v) : k # j => pc'[k] = pc[k]
    BY <1>1 DEF StepsAlone, Of
  <2>2. pc[j] # "torn"
    BY DEF StepsAlone, Busy, Handling, IInv, JobsAgree, Agrees
  <2>3. pc'[j] \notin {"failing", "torn"}
    BY <1>1, <1>2, <1>3
  <2>4. CASE /\ pc[j] # "failing" /\ version[target[j]] = "READY"
             /\ Published(target[j]) => Published(target[j])'
    <3>1. ~Withdrawing(v)
      BY <1>2, <1>3, <2>1, <2>2, <2>4 DEF Withdrawing
    <3>. QED
      BY <1>1, <1>3, <2>4, <3>1 DEF IInv, ReadyIsPublished, Published
  <2>. QED
    BY <1>1, <1>3, <2>3, <2>4 DEF Published
<1>4. CASE v # target[j]
  <2>1. ~Withdrawing(v)
    BY <1>2, <1>4 DEF StepsAlone, Withdrawing, Of
  <2>2. version'[v] = version[v] /\ (Published(v)' <=> Published(v))
    BY <1>4 DEF StepsAlone, Published
  <2>. QED
    BY <2>1, <2>2 DEF IInv, ReadyIsPublished
<1>. QED
  BY <1>3, <1>4

LEMMA StoredStep ==
  ASSUME IInv, ~SharedImports, ~ReconcileAnytime,
         NEW j \in Jobs, StepsAlone(j), Stored(j)'
  PROVE  RunningIsStored'
<1>1. Busy(j) /\ target' = target
  BY DEF StepsAlone
<1>. SUFFICES ASSUME NEW k \in Jobs, k # j PROVE Stored(k)'
  BY DEF RunningIsStored
<1>2. /\ pc'[k] = pc[k] /\ at'[k] = at[k] /\ jobStatus'[k] = jobStatus[k]
      /\ Stored(k)
  BY DEF StepsAlone, IInv, RunningIsStored
<1>3. CASE Busy(k)
  <2>1. target[k] \in Versions /\ target[k] # target[j]
    BY <1>1, <1>3, AloneOnVersion, BusyTyped DEF Typed
  <2>2. /\ layer'[target[k]] = layer[target[k]]
        /\ \A i \in Layers :
             (Final(target[k], i) \in tables')
               <=> (Final(target[k], i) \in tables)
    BY <2>1 DEF StepsAlone
  <2>3. pc[k] \in {"staging", "promoting", "publishing"} => at[k] \in Layers
    BY DEF IInv, JobsAgree, Agrees
  <2>. QED
    BY <1>1, <1>2, <2>2, <2>3 DEF Stored, Final
<1>4. CASE ~Busy(k)
  BY <1>2, <1>4 DEF Stored, Busy, Handling
<1>. QED
  BY <1>3, <1>4

LEMMA AloneStep ==
  ASSUME IInv, ~SharedImports, NEW j \in Jobs, StepsAlone(j)
  PROVE  AttemptsAreAlone'
<1>1. \A k \in Jobs : Busy(k)' => Busy(k)
  BY DEF StepsAlone, Busy, Handling
<1>. QED
  BY <1>1 DEF IInv, AttemptsAreAlone, StepsAlone

LEMMA GuardedStep ==
  ASSUME IInv, ~SharedImports, NEW j \in Jobs, StepsAlone(j), Guarded(j)',
         dataset'.current = target[j] =>
           revoked' \/ version'[target[j]] = "READY",
         dataset'.current \in Versions \union {NoVersion}
  PROVE  CandidatesAreGuarded'
<1>1. Busy(j) /\ target' = target
  BY DEF StepsAlone
<1>2. dataset'.current # NoVersion /\ ~revoked' =>
        version'[dataset'.current] = "READY"
  BY DEF IInv, CandidatesAreGuarded, StepsAlone
<1>3. ASSUME NEW k \in Jobs, k # j
      PROVE  Guarded(k)'
  <2>1. pc'[k] = pc[k] /\ Guarded(k)
    BY <1>3 DEF StepsAlone, IInv, CandidatesAreGuarded
  <2>2. CASE Busy(k)
    <3>1. target[k] \in Versions /\ target[k] # target[j]
      BY <1>1, <1>3, <2>2, AloneOnVersion, BusyTyped DEF Typed
    <3>2. /\ version'[target[k]] = version[target[k]]
          /\ dataset'.current \in {dataset.current, target[j]}
          /\ dataset'.current = target[j] \/ (revoked' <=> revoked)
      BY <3>1 DEF StepsAlone
    <3>. QED
      BY <1>1, <2>1, <3>1, <3>2 DEF Guarded
  <2>3. CASE ~Busy(k)
    BY <2>1, <2>3 DEF Guarded, Busy, Handling
  <2>. QED
    BY <2>2, <2>3
<1>. QED
  BY <1>2, <1>3 DEF CandidatesAreGuarded

LEMMA DrivenStep ==
  ASSUME IInv, ~SharedImports, NEW j \in Jobs, StepsAlone(j),
         version'[target[j]] = "IMPORTING" =>
           Busy(j)' \/ pc'[j] \in {"refused", "dead", "torn"}
  PROVE  ImportingIsDriven'
<1>1. /\ target' = target /\ target[j] \in Versions /\ j \in Of(target[j])
  BY BusyTyped DEF StepsAlone, Typed
<1>. SUFFICES ASSUME NEW v \in Versions, version'[v] = "IMPORTING", ~Lost(v)'
              PROVE  \E k \in Jobs : target[k] = v /\ Busy(k)'
  BY <1>1 DEF ImportingIsDriven, Idle, Of
<1>2. CASE v = target[j]
  BY <1>1, <1>2 DEF Lost, Of
<1>3. CASE v # target[j]
  <2>1. version[v] = "IMPORTING"
    BY <1>3 DEF StepsAlone
  <2>2. \A k \in Of(v) : /\ pc'[k] = pc[k] /\ jobStatus'[k] = jobStatus[k]
                         /\ Busy(k)' <=> Busy(k)
    BY <1>3 DEF StepsAlone, Of, Busy, Handling
  <2>3. ~Lost(v)
    BY <1>1, <2>2 DEF Lost, Of
  <2>4. PICK k \in Of(v) : Busy(k)
    BY <2>1, <2>3 DEF IInv, ImportingIsDriven, Idle
  <2>. QED
    BY <2>2, <2>4 DEF Of
<1>. QED
  BY <1>2, <1>3

LEMMA ApartStep ==
  ASSUME IInv, ~SharedImports, ~ReconcileAnytime,
         NEW j \in Jobs, StepsAlone(j)
  PROVE  ReconcilerIsApart'
<1>1. Busy(j) /\ target' = target /\ UNCHANGED recVars
  BY DEF StepsAlone
<1>2. ASSUME NEW t \in inventory \union found
      PROVE  /\ version'[t[2]] # "ABSENT" /\ Idle(t[2])'
             /\ layer'[t[2]] = layer[t[2]]
  <2>1. t[2] \in Versions
    BY TablesNamed DEF IInv, TypeOK
  <2>2. version[t[2]] # "ABSENT" /\ Idle(t[2])
    BY DEF IInv, ReconcilerIsApart
  <2>3. t[2] # target[j]
    BY <1>1, <2>2 DEF Idle, Of
  <2>. QED
    BY <1>1, <2>1, <2>2, <2>3 DEF StepsAlone, Idle, Of, Busy, Handling
<1>. QED
  BY <1>1, <1>2 DEF IInv, ReconcilerIsApart, recVars

(* What is left to show of a step of a handler.                            *)
GuardsOwn(j) ==
  /\ Guarded(j)'
  /\ dataset'.current = target[j] =>
       revoked' \/ version'[target[j]] = "READY"
  /\ version'[target[j]] = "IMPORTING" =>
       Busy(j)' \/ pc'[j] \in {"refused", "dead", "torn"}

PublishesOwn(j) ==
  \/ version'[target[j]] # "READY"
  \/ pc'[j] \in {"failing", "torn"}
  \/ Published(target[j])'
  \/ /\ pc[j] # "failing" /\ version[target[j]] = "READY"
     /\ Published(target[j]) => Published(target[j])'

LEMMA OwnStep ==
  ASSUME IInv, NEW j \in Jobs, StepsAlone(j), TypeOK', RowsAgree', Agrees(j)',
         ~SharedImports => GuardsOwn(j) /\ HoldsOwn(j)',
         ~SharedImports /\ ~ReconcileAnytime =>
           Stored(j)' /\ PublishesOwn(j)
  PROVE  IInv'
<1>1. JobsAgree'
  BY DEF IInv, JobsAgree, Agrees, StepsAlone
<1>2. dataset'.current \in Versions \union {NoVersion}
  BY DEF TypeOK, DatasetRow
<1>3. ~SharedImports => /\ AttemptsAreAlone' /\ CandidatesAreGuarded'
                        /\ StorageIsHeld' /\ ImportingIsDriven'
  BY <1>2, AloneStep, GuardedStep, HeldStep, DrivenStep DEF GuardsOwn
<1>4. ~SharedImports /\ ~ReconcileAnytime =>
        ReadyIsPublished' /\ RunningIsStored' /\ ReconcilerIsApart'
  BY PublishedStep, StoredStep, ApartStep DEF PublishesOwn
<1>. QED
  BY <1>1, <1>3, <1>4 DEF IInv

-----------------------------------------------------------------------------
(* Every action preserves the invariant.                                   *)

(* The layers after they have been set back.                               *)
LEMMA Blanked ==
  ASSUME NEW s \in {"REGISTERED", "FAILED"}
  PROVE  /\ Blank(s) \in [Layers -> LayerRow]
         /\ \A i \in Layers : Blank(s)[i].status = s
  BY DEF Blank, LayerRow, VersionStatus

(* The dataset while no version is current.                                *)
LEMMA Marked ==
  ASSUME IInv, NEW s \in {"IMPORTING", "REGISTERED", "FAILED"},
         NEW l \in {"PROCESSING", "DRAFT", "FAILED"}, Mark(s, l)
  PROVE  /\ dataset' \in DatasetRow /\ dataset'.current = dataset.current
         /\ dataset'.status = "READY" <=> dataset.current # NoVersion
         /\ dataset'.lifecycle = "READY" <=> dataset.current # NoVersion
         /\ dataset.status # "ABSENT" => dataset'.status # "ABSENT"
<1>1. dataset \in DatasetRow
  BY DEF IInv, TypeOK
<1>. QED
  BY <1>1 DEF IInv, RowsAgree, Mark, DatasetRow, VersionStatus

(* A job is added for a version, which is new or which nobody imports.      *)
Submitted(j, v) ==
  /\ jobStatus[j] = "ABSENT" /\ UNCHANGED <<cancel, owned>>
  /\ jobStatus' = [jobStatus EXCEPT ![j] = "PENDING"]
  /\ target' = [target EXCEPT ![j] = v]

LEMMA SubmittedJobs ==
  ASSUME IInv, NEW j \in Jobs, NEW v \in Versions, Submitted(j, v)
  PROVE  /\ jobStatus' \in [Jobs -> Terminal \union Active \union {"ABSENT"}]
         /\ target' \in [Jobs -> Versions \union {NoVersion}]
         /\ target[j] = NoVersion /\ target'[j] = v /\ jobStatus'[j] = "PENDING"
         /\ pc[j] = "none" /\ ~owned[j]
         /\ \A k \in Jobs : k # j => /\ target'[k] = target[k]
                                     /\ jobStatus'[k] = jobStatus[k]
         /\ Of(v)' = Of(v) \union {j}
         /\ \A w \in Versions : w # v => Of(w)' = Of(w)
         /\ \A w \in Versions : j \notin Of(w)
<1>1. target[j] = NoVersion /\ pc[j] = "none" /\ ~owned[j]
  BY DEF IInv, TypeOK, JobsAgree, Agrees, Submitted, Handling
<1>2. /\ jobStatus' \in [Jobs -> Terminal \union Active \union {"ABSENT"}]
      /\ target' \in [Jobs -> Versions \union {NoVersion}]
      /\ target'[j] = v /\ jobStatus'[j] = "PENDING"
      /\ \A k \in Jobs : k # j => /\ target'[k] = target[k]
                                  /\ jobStatus'[k] = jobStatus[k]
  BY DEF IInv, TypeOK, Submitted, Active
<1>3. \A w \in Versions : w # NoVersion
  BY DEF Versions, NoVersion
<1>. QED
  BY <1>1, <1>2, <1>3 DEF Of

LEMMA NewVersionEffect ==
  ASSUME IInv, NEW v \in Versions, version[v] = "ABSENT", NewVersion(v)
  PROVE  /\ version' \in [Versions -> VersionStatus]
         /\ version'[v] \in {"REGISTERED", "IMPORTING"}
         /\ \A w \in Versions : w # v => version'[w] = version[w]
         /\ dataset' \in DatasetRow /\ dataset'.current = dataset.current
         /\ dataset'.status = "READY" <=> dataset.current # NoVersion
         /\ dataset'.lifecycle = "READY" <=> dataset.current # NoVersion
         /\ dataset'.status # "ABSENT"
         /\ \/ version'[v] = "REGISTERED" /\ UNCHANGED jobVars
            \/ \E j \in Jobs : Submitted(j, v)
<1>1. /\ version \in [Versions -> VersionStatus] /\ dataset \in DatasetRow
      /\ dataset.status = "READY" <=> dataset.current # NoVersion
      /\ dataset.lifecycle = "READY" <=> dataset.current # NoVersion
  BY DEF IInv, TypeOK, RowsAgree
<1>2. CASE /\ version' = [version EXCEPT ![v] = "REGISTERED"]
           /\ dataset' = [dataset EXCEPT
                            !.status = IF @ = "ABSENT" THEN "REGISTERED" ELSE @]
           /\ UNCHANGED jobVars
  BY <1>1, <1>2 DEF DatasetRow, VersionStatus
<1>3. CASE /\ version' = [version EXCEPT ![v] = "IMPORTING"]
           /\ Mark("IMPORTING", "PROCESSING")
           /\ \E j \in Jobs : CreateJob(j, v)
  <2>1. \E j \in Jobs : Submitted(j, v)
    BY <1>3 DEF CreateJob, Submitted, Job!Submit, Job!Move
  <2>2. dataset'.status # "ABSENT"
    BY <1>1, <1>3 DEF Mark, DatasetRow
  <2>. QED
    BY <1>1, <1>3, <2>1, <2>2, Marked DEF VersionStatus
<1>. QED
  BY <1>2, <1>3 DEF NewVersion

LEMMA NewVersionIInv ==
  ASSUME IInv, NEW v \in Versions, version[v] = "ABSENT", NewVersion(v),
         UNCHANGED <<layer, revoked, storeVars, handlerVars, recVars>>
  PROVE  IInv'
<1>. USE DEF storeVars, handlerVars, recVars
<1>1. /\ version' \in [Versions -> VersionStatus]
      /\ version'[v] \in {"REGISTERED", "IMPORTING"}
      /\ \A w \in Versions : w # v => version'[w] = version[w]
      /\ dataset' \in DatasetRow /\ dataset'.current = dataset.current
      /\ dataset'.status = "READY" <=> dataset.current # NoVersion
      /\ dataset'.lifecycle = "READY" <=> dataset.current # NoVersion
      /\ dataset'.status # "ABSENT"
  BY NewVersionEffect
<1>2. \A k \in Jobs : target[k] # v
  BY DEF IInv, RowsAgree, Versions, NoVersion
<1>3. CASE version'[v] = "REGISTERED" /\ UNCHANGED jobVars
  <2>. USE <1>1, <1>2, <1>3 DEF jobVars
  <2>1. TypeOK' /\ JobsAgree'
    BY DEF IInv, TypeOK, JobsAgree, Agrees, Handling
  <2>2. RowsAgree'
    BY TablesNamed DEF IInv, TypeOK, RowsAgree
  <2>3. /\ ~SharedImports => AttemptsAreAlone'
        /\ ~SharedImports => CandidatesAreGuarded'
    <3>1. \A k \in Jobs : target[k] = NoVersion \/ target[k] \in Versions
      BY DEF IInv, TypeOK
    <3>2. \A k \in Jobs : pc[k] # "none" => target[k] \in Versions
      BY <3>1 DEF IInv, JobsAgree, Agrees
    <3>3. dataset.current = NoVersion \/ dataset.current \in Versions
      BY DEF IInv, TypeOK, DatasetRow
    <3>. QED
      BY <3>2, <3>3, AloneFrame DEF IInv, CandidatesAreGuarded, Guarded
  <2>4. ~SharedImports => StorageIsHeld'
    BY DEF IInv, StorageIsHeld, HoldsStaging, HoldsFinal, Of
  <2>5. ~SharedImports => ImportingIsDriven'
    BY DEF IInv, ImportingIsDriven, Lost, Idle, Busy, Handling, Of
  <2>6. ~SharedImports /\ ~ReconcileAnytime =>
          ReadyIsPublished' /\ RunningIsStored' /\ ReconcilerIsApart'
    <3>1. ~SharedImports /\ ~ReconcileAnytime => ReadyIsPublished'
      BY DEF IInv, ReadyIsPublished, Published, Withdrawing, Of
    <3>2. ~SharedImports /\ ~ReconcileAnytime => ReconcilerIsApart'
      <4>1. \A t \in inventory \union found : t[2] \in Versions
        BY TablesNamed DEF IInv, TypeOK
      <4>. QED
        BY <4>1 DEF IInv, ReconcilerIsApart, Idle, Of, Busy, Handling
    <3>. QED
      BY <3>1, <3>2, StoredFrame DEF IInv
  <2>. QED
    BY <2>1, <2>2, <2>3, <2>4, <2>5, <2>6 DEF IInv
<1>4. ASSUME NEW j \in Jobs, Submitted(j, v)
      PROVE  IInv'
  <2>. USE <1>1, <1>2, <1>4
  <2>1. /\ jobStatus' \in [Jobs -> Terminal \union Active \union {"ABSENT"}]
        /\ target' \in [Jobs -> Versions \union {NoVersion}]
        /\ target'[j] = v /\ jobStatus'[j] = "PENDING"
        /\ pc[j] = "none" /\ ~owned[j]
        /\ \A k \in Jobs : k # j => /\ target'[k] = target[k]
                                    /\ jobStatus'[k] = jobStatus[k]
        /\ Of(v)' = Of(v) \union {j}
        /\ \A w \in Versions : w # v => Of(w)' = Of(w)
        /\ \A w \in Versions : j \notin Of(w)
    BY SubmittedJobs
  <2>2. UNCHANGED <<cancel, owned>>
    BY DEF Submitted
  <2>3. TypeOK'
    <3>1. v # NoVersion
      BY DEF Versions, NoVersion
    <3>2. \A k \in Jobs :
            /\ (jobStatus'[k] # "ABSENT") <=> (target'[k] # NoVersion)
            /\ owned'[k] <=> Handling(k)'
      BY <2>1, <2>2, <3>1 DEF IInv, TypeOK, Handling
    <3>. QED
      BY <2>1, <2>2, <3>2 DEF IInv, TypeOK
  <2>4. JobsAgree'
    BY <2>1 DEF IInv, JobsAgree, Agrees
  <2>5. RowsAgree'
    <3>1. \A k \in Jobs :
            target'[k] # NoVersion => version'[target'[k]] # "ABSENT"
      BY <2>1 DEF IInv, TypeOK, RowsAgree
    <3>2. \A t \in tables : t[2] \in Versions
      BY TablesNamed DEF IInv, TypeOK
    <3>3. \A t \in tables : version'[t[2]] # "ABSENT"
      BY <3>2 DEF IInv, RowsAgree
    <3>. QED
      BY <3>1, <3>3 DEF IInv, RowsAgree
  <2>6. ~SharedImports => AttemptsAreAlone'
    <3>1. \A k \in Jobs : k # j => target'[k] # v /\ (Busy(k)' <=> Busy(k))
      BY <2>1 DEF Busy, Handling
    <3>. QED
      BY <2>1, <3>1 DEF IInv, AttemptsAreAlone
  <2>12. ~SharedImports => CandidatesAreGuarded'
    <3>1. \A k \in Jobs : pc[k] # "none" => target[k] \in Versions
      BY DEF IInv, TypeOK, JobsAgree, Agrees
    <3>2. dataset.current = NoVersion \/ dataset.current \in Versions
      BY DEF IInv, TypeOK, DatasetRow
    <3>. QED
      BY <2>1, <3>1, <3>2 DEF IInv, CandidatesAreGuarded, Guarded
  <2>7. ~SharedImports => StorageIsHeld'
    BY <2>1 DEF IInv, StorageIsHeld, HoldsStaging, HoldsFinal, Of
  <2>8. ~SharedImports => ImportingIsDriven'
    <3>1. \A k \in Jobs : k # j => Busy(k)' <=> Busy(k)
      BY <2>1 DEF Busy, Handling
    <3>2. Busy(j)'
      BY <2>1 DEF Busy
    <3>3. \A w \in Versions : w # v => Lost(w)' <=> Lost(w)
      BY <2>1 DEF Lost, Of
    <3>. QED
      BY <2>1, <3>1, <3>2, <3>3 DEF IInv, ImportingIsDriven, Idle, Of
  <2>9. ~SharedImports /\ ~ReconcileAnytime => ReadyIsPublished'
    BY <2>1 DEF IInv, ReadyIsPublished, Published, Withdrawing, Of
  <2>10. ~SharedImports /\ ~ReconcileAnytime => RunningIsStored'
    BY <2>1 DEF IInv, RunningIsStored, Stored
  <2>11. ~SharedImports /\ ~ReconcileAnytime => ReconcilerIsApart'
    <3>1. \A k \in Jobs : k # j => Busy(k)' <=> Busy(k)
      BY <2>1 DEF Busy, Handling
    <3>2. \A w \in Versions : w # v /\ Idle(w) => Idle(w)'
      BY <2>1, <3>1 DEF Idle, Of
    <3>3. \A t \in inventory \union found : t[2] \in Versions
      BY TablesNamed DEF IInv, TypeOK
    <3>. QED
      BY <3>2, <3>3 DEF IInv, ReconcilerIsApart
  <2>. QED
    BY <2>3, <2>4, <2>5, <2>6, <2>7, <2>8, <2>9, <2>10, <2>11, <2>12
       DEF IInv
<1>. QED
  BY <1>3, <1>4, NewVersionEffect

LEMMA RegisterIInv ==
  ASSUME IInv, Register
  PROVE  IInv'
<1>1. 1 \in Versions /\ version[1] = "ABSENT"
  BY DEF IInv, RowsAgree, Register
<1>. QED
  BY <1>1, NewVersionIInv DEF Register

LEMMA RegisterReplacementIInv ==
  ASSUME IInv, NEW v \in Versions, RegisterReplacement(v)
  PROVE  IInv'
  BY NewVersionIInv DEF RegisterReplacement

LEMMA RunImportIInv ==
  ASSUME IInv, NEW v \in Versions, RunImport(v)
  PROVE  IInv'
<1>. USE DEF rowVars, storeVars, handlerVars, recVars
<1>1. PICK j \in Jobs : Submitted(j, v)
  BY DEF RunImport, CreateJob, Submitted, Job!Submit, Job!Move
<1>2. /\ jobStatus' \in [Jobs -> Terminal \union Active \union {"ABSENT"}]
      /\ target' \in [Jobs -> Versions \union {NoVersion}]
      /\ target'[j] = v /\ jobStatus'[j] = "PENDING"
      /\ pc[j] = "none" /\ ~owned[j]
      /\ \A k \in Jobs : k # j => /\ target'[k] = target[k]
                                  /\ jobStatus'[k] = jobStatus[k]
      /\ Of(v)' = Of(v) \union {j}
      /\ \A w \in Versions : w # v => Of(w)' = Of(w)
      /\ \A w \in Versions : j \notin Of(w)
  BY <1>1, SubmittedJobs
<1>3. /\ UNCHANGED <<cancel, owned, rowVars, storeVars, handlerVars, recVars>>
      /\ version[v] # "ABSENT" /\ (~SharedImports => Idle(v))
      /\ ~ReconcileAnytime => reconciler = "idle"
  BY <1>1 DEF Submitted, RunImport
<1>4. TypeOK'
  <2>1. v # NoVersion
    BY DEF Versions, NoVersion
  <2>2. \A k \in Jobs :
          (jobStatus'[k] # "ABSENT") <=> (target'[k] # NoVersion)
    BY <1>2, <2>1 DEF IInv, TypeOK
  <2>3. \A k \in Jobs : owned'[k] <=> Handling(k)'
    BY <1>3 DEF IInv, TypeOK, Handling
  <2>. QED
    BY <1>2, <1>3, <2>2, <2>3 DEF IInv, TypeOK
<1>5. JobsAgree'
  BY <1>2, <1>3 DEF IInv, JobsAgree, Agrees
<1>6. RowsAgree'
  <2>1. \A k \in Jobs : target'[k] # NoVersion => version[target'[k]] # "ABSENT"
    BY <1>2, <1>3 DEF IInv, RowsAgree
  <2>. QED
    BY <1>3, <2>1 DEF IInv, RowsAgree
<1>7. ~SharedImports => AttemptsAreAlone'
  <2>1. \A k \in Jobs : k # j => Busy(k)' <=> Busy(k)
    BY <1>2, <1>3 DEF Busy, Handling
  <2>. QED
    BY <1>2, <1>3, <2>1 DEF IInv, AttemptsAreAlone, Idle, Of
<1>8. ~SharedImports => CandidatesAreGuarded'
  BY <1>2, <1>3 DEF IInv, CandidatesAreGuarded, Guarded
<1>9. ~SharedImports => StorageIsHeld'
  <2>1. \A k \in Jobs, i \in Layers :
          /\ HoldsStaging(k, i)' <=> HoldsStaging(k, i)
          /\ HoldsFinal(k, i)' <=> HoldsFinal(k, i)
    BY <1>3 DEF HoldsStaging, HoldsFinal
  <2>2. \A i \in Layers : ~HoldsStaging(j, i) /\ ~HoldsFinal(j, i)
    BY <1>2 DEF HoldsStaging, HoldsFinal
  <2>3. \A w \in Versions : Of(w)' \in {Of(w), Of(w) \union {j}}
    BY <1>2
  <2>4. /\ \A w, i : Staging(w, i)' = Staging(w, i)
        /\ \A w, i : Final(w, i)' = Final(w, i)
    BY DEF Staging, Final
  <2>5. \A w \in Versions : Of(w) \subseteq Jobs
    BY DEF Of
  <2>. QED
    BY <1>2, <1>3, <2>1, <2>2, <2>3, <2>4, <2>5 DEF IInv, StorageIsHeld
<1>10. ~SharedImports => ImportingIsDriven'
  <2>1. \A k \in Jobs : k # j => Busy(k)' <=> Busy(k)
    BY <1>2, <1>3 DEF Busy, Handling
  <2>2. Busy(j)'
    BY <1>2 DEF Busy
  <2>3. \A w \in Versions : w # v => Lost(w)' <=> Lost(w)
    BY <1>2, <1>3 DEF Lost, Of
  <2>. QED
    BY <1>2, <1>3, <2>1, <2>2, <2>3 DEF IInv, ImportingIsDriven, Idle, Of
<1>11. ~SharedImports /\ ~ReconcileAnytime => ReadyIsPublished'
  BY <1>2, <1>3 DEF IInv, ReadyIsPublished, Published, Withdrawing, Of
<1>12. ~SharedImports /\ ~ReconcileAnytime => RunningIsStored'
  BY <1>2, <1>3 DEF IInv, RunningIsStored, Stored
<1>13. ~SharedImports /\ ~ReconcileAnytime => ReconcilerIsApart'
  BY <1>3 DEF IInv, ReconcilerIsApart
<1>. QED
  BY <1>4, <1>5, <1>6, <1>7, <1>8, <1>9, <1>10, <1>11, <1>12, <1>13 DEF IInv

LEMMA ActivateVersionIInv ==
  ASSUME IInv, NEW v \in Versions, ActivateVersion(v)
  PROVE  IInv'
<1>. USE DEF ActivateVersion, storeVars, jobVars, handlerVars, recVars
<1>1. /\ version[v] = "READY" /\ (~SharedImports => Idle(v))
      /\ dataset' = [status |-> "READY", lifecycle |-> "READY", current |-> v]
      /\ revoked' = FALSE /\ UNCHANGED <<version, layer>>
  BY DEF ActivateReady
<1>2. TypeOK'
  BY <1>1 DEF IInv, TypeOK, DatasetRow, VersionStatus, Handling
<1>3. RowsAgree'
  BY <1>1 DEF IInv, RowsAgree, Versions, NoVersion
<1>4. ~SharedImports => CandidatesAreGuarded'
  <2>1. ASSUME ~SharedImports, NEW k \in Jobs
        PROVE  Guarded(k)'
    <3>1. pc[k] \in {"activating", "leaving", "failing"} => target[k] # v
      BY <1>1, <2>1 DEF Idle, Of, Busy, Handling
    <3>2. Guarded(k)
      BY <2>1 DEF IInv, CandidatesAreGuarded
    <3>. QED
      BY <1>1, <3>1, <3>2 DEF Guarded
  <2>. QED
    BY <1>1, <2>1 DEF CandidatesAreGuarded
<1>5. /\ JobsAgree'
      /\ ~SharedImports =>
           AttemptsAreAlone' /\ StorageIsHeld' /\ ImportingIsDriven'
      /\ ~SharedImports /\ ~ReconcileAnytime =>
           ReadyIsPublished' /\ RunningIsStored' /\ ReconcilerIsApart'
  BY <1>1, JobsFrame, AloneFrame, HeldFrame, DrivenFrame, PublishedFrame,
     StoredFrame, ApartFrame DEF IInv
<1>. QED
  BY <1>2, <1>3, <1>4, <1>5 DEF IInv

(* Outside the handler a job waits to be picked up or ends.                *)
LEMMA JobRowIInv ==
  ASSUME IInv, NEW j \in Jobs, NEW s \in Terminal \union {"QUEUED", jobStatus[j]},
         jobStatus[j] # "ABSENT", s = "QUEUED" => pc[j] = "none",
         s = "QUEUED" => jobStatus[j] \in {"PENDING", "QUEUED"},
         jobStatus' = [jobStatus EXCEPT ![j] = s], cancel' \in [Jobs -> BOOLEAN],
         UNCHANGED <<owned, target, rowVars, storeVars, handlerVars, recVars>>
  PROVE  IInv'
<1>. USE DEF rowVars, storeVars, handlerVars, recVars
<1>1. /\ jobStatus' \in [Jobs -> Terminal \union Active \union {"ABSENT"}]
      /\ jobStatus'[j] = s
      /\ \A k \in Jobs : k # j => jobStatus'[k] = jobStatus[k]
  BY DEF IInv, TypeOK, Active
<1>2. s # "ABSENT" /\ s # "RETRYING"
  BY DEF IInv, JobsAgree, Agrees, Terminal
<1>3. TypeOK'
  <2>1. \A k \in Jobs :
          /\ (jobStatus'[k] # "ABSENT") <=> (target'[k] # NoVersion)
          /\ owned'[k] <=> Handling(k)'
    BY <1>1, <1>2 DEF IInv, TypeOK, Handling
  <2>. QED
    BY <1>1, <2>1 DEF IInv, TypeOK
<1>4. JobsAgree'
  BY <1>1, <1>2 DEF IInv, JobsAgree, Agrees, Terminal
<1>5. \A k \in Jobs : Busy(k)' => Busy(k)
  BY <1>1 DEF Busy, Handling, Terminal
<1>6. ~SharedImports => AttemptsAreAlone'
  BY <1>5 DEF IInv, AttemptsAreAlone
<1>7. ~SharedImports => ImportingIsDriven'
  <2>1. \A k \in Jobs :
          Busy(k) => Busy(k)' \/ (pc[k] = "none" /\ jobStatus'[k] \in Terminal)
    BY <1>1 DEF IInv, JobsAgree, Agrees, Busy, Handling
  <2>2. \A k \in Jobs : pc[k] = "none" /\ jobStatus[k] \in Terminal =>
                          jobStatus'[k] \in Terminal
    BY <1>1 DEF Terminal
  <2>. QED
    BY <2>1, <2>2 DEF IInv, ImportingIsDriven, Idle, Lost, Of
<1>8. ~SharedImports /\ ~ReconcileAnytime => RunningIsStored'
  BY <1>1 DEF IInv, RunningIsStored, Stored, Terminal, Final
<1>9. ~SharedImports /\ ~ReconcileAnytime => ReconcilerIsApart'
  BY <1>5 DEF IInv, ReconcilerIsApart, Idle, Of
<1>10. /\ RowsAgree'
       /\ ~SharedImports => CandidatesAreGuarded' /\ StorageIsHeld'
       /\ ~SharedImports /\ ~ReconcileAnytime => ReadyIsPublished'
  BY RowsFrame, GuardedFrame, HeldFrame, PublishedFrame DEF IInv
<1>. QED
  BY <1>3, <1>4, <1>6, <1>7, <1>8, <1>9, <1>10 DEF IInv

LEMMA EnqueueIInv ==
  ASSUME IInv, NEW j \in Jobs, Enqueue(j)
  PROVE  IInv'
<1>1. pc[j] = "none"
  BY DEF IInv, JobsAgree, Agrees, Enqueue, Job!Enqueue, Job!Move
<1>2. cancel' \in [Jobs -> BOOLEAN]
  BY DEF IInv, TypeOK, Enqueue, Job!Enqueue
<1>. QED
  BY <1>1, <1>2, JobRowIInv DEF Enqueue, Job!Enqueue, Job!Move

LEMMA CancelIInv ==
  ASSUME IInv, NEW j \in Jobs, Cancel(j)
  PROVE  IInv'
<1>1. cancel' \in [Jobs -> BOOLEAN]
  BY DEF IInv, TypeOK, Cancel, Job!Cancel
<1>2. UNCHANGED <<owned, target, rowVars, storeVars, handlerVars, recVars>>
  BY DEF Cancel, Job!Cancel
<1>3. CASE /\ jobStatus[j] \in Job!Waiting
           /\ jobStatus' = [jobStatus EXCEPT ![j] = "CANCELLED"]
  BY <1>1, <1>2, <1>3, JobRowIInv DEF Terminal, Job!Waiting
<1>4. CASE jobStatus[j] = "RUNNING" /\ UNCHANGED jobStatus
  <2>1. jobStatus' = [jobStatus EXCEPT ![j] = jobStatus[j]]
    BY <1>4 DEF IInv, TypeOK
  <2>. QED
    BY <1>1, <1>2, <1>4, <2>1, JobRowIInv
<1>. QED
  BY <1>3, <1>4 DEF Cancel, Job!Cancel, Job!Move

LEMMA UndeliverableIInv ==
  ASSUME IInv, NEW j \in Jobs, Undeliverable(j)
  PROVE  IInv'
<1>1. cancel' \in [Jobs -> BOOLEAN]
  BY DEF IInv, TypeOK, Undeliverable, Job!Undeliverable
<1>. QED
  BY <1>1, JobRowIInv DEF Undeliverable, Job!Undeliverable, Job!Move, Terminal

LEMMA BeginImportIInv ==
  ASSUME IInv, NEW j \in Jobs, BeginImport(j)
  PROVE  IInv'
<1>. USE DEF BeginImport, Go, Job!Begin, Job!Move, rowVars, storeVars, jobVars,
             handlerVars, recVars, Typed
<1>1. Busy(j) /\ Typed(j)
  BY BusyTyped DEF IInv, JobsAgree, Agrees, Busy
<1>2. TypeOK'
  BY <1>1 DEF IInv, TypeOK, Terminal, Active, Labels, Handling
<1>3. StepsAlone(j)
  BY <1>1 DEF IInv, TypeOK, StepsAlone
<1>4. RowsAgree'
  BY RowsFrame DEF IInv
<1>5. Agrees(j)'
  BY <1>1 DEF IInv, TypeOK, JobsAgree, Agrees
<1>6. ~SharedImports => GuardsOwn(j)
  BY <1>1 DEF IInv, TypeOK, CandidatesAreGuarded, Guarded, GuardsOwn, Busy,
     Handling
<1>7. ASSUME ~SharedImports
      PROVE  HoldsOwn(j)'
  <2>1. HoldsOwn(j)
    BY <1>7, <1>1, HoldsOwnBefore
  <2>. QED
    BY <1>7, <2>1, <1>1 DEF IInv, TypeOK, CandidatesAreGuarded, Guarded,
       HoldsOwn, HoldsStaging, HoldsFinal
<1>8. ~SharedImports /\ ~ReconcileAnytime => Stored(j)'
  BY <1>1 DEF IInv, TypeOK, CandidatesAreGuarded, Guarded, RunningIsStored,
     Stored
<1>9. ~SharedImports /\ ~ReconcileAnytime => PublishesOwn(j)
  BY <1>1 DEF IInv, TypeOK, RowsAgree, CandidatesAreGuarded, Guarded,
     RunningIsStored, Stored, Published, PublishesOwn
<1>. QED
  BY <1>2, <1>3, <1>4, <1>5, <1>6, <1>7, <1>8, <1>9, OwnStep

LEMMA ResolveVersionIInv ==
  ASSUME IInv, NEW j \in Jobs, ResolveVersion(j)
  PROVE  IInv'
<1>. USE DEF ResolveVersion, Go, rowVars, storeVars, jobVars, handlerVars,
             recVars, Typed
<1>1. Busy(j) /\ Typed(j)
  BY BusyTyped DEF Busy, Handling
<1>2. TypeOK'
  BY <1>1 DEF IInv, TypeOK, Labels, Handling
<1>3. StepsAlone(j)
  BY <1>1 DEF IInv, TypeOK, StepsAlone
<1>4. RowsAgree'
  BY RowsFrame DEF IInv
<1>5. Agrees(j)'
  BY <1>1 DEF IInv, TypeOK, JobsAgree, Agrees
<1>6. ~SharedImports => GuardsOwn(j)
  BY <1>1 DEF IInv, TypeOK, CandidatesAreGuarded, Guarded, GuardsOwn, Busy,
     Handling
<1>7. ASSUME ~SharedImports
      PROVE  HoldsOwn(j)'
  <2>1. HoldsOwn(j)
    BY <1>7, <1>1, HoldsOwnBefore
  <2>. QED
    BY <1>7, <2>1, <1>1 DEF IInv, TypeOK, CandidatesAreGuarded, Guarded,
       HoldsOwn, HoldsStaging, HoldsFinal
<1>8. ~SharedImports /\ ~ReconcileAnytime => Stored(j)'
  BY <1>1 DEF IInv, TypeOK, CandidatesAreGuarded, Guarded, RunningIsStored,
     Stored
<1>9. ~SharedImports /\ ~ReconcileAnytime => PublishesOwn(j)
  BY <1>1 DEF IInv, TypeOK, RowsAgree, CandidatesAreGuarded, Guarded,
     RunningIsStored, Stored, Published, PublishesOwn
<1>. QED
  BY <1>2, <1>3, <1>4, <1>5, <1>6, <1>7, <1>8, <1>9, OwnStep

LEMMA ReactivateIInv ==
  ASSUME IInv, NEW j \in Jobs, Reactivate(j)
  PROVE  IInv'
<1>. USE DEF Reactivate, ActivateReady, Go, rowVars, storeVars, jobVars,
             handlerVars, recVars, Typed
<1>1. Busy(j) /\ Typed(j)
  BY BusyTyped DEF Busy, Handling
<1>2. TypeOK'
  <2>1. pc' \in [Jobs -> Labels]
    BY <1>1 DEF IInv, TypeOK, Labels
  <2>2. \A k \in Jobs : owned'[k] <=> Handling(k)'
    BY <1>1 DEF IInv, TypeOK, Handling
  <2>3. dataset' \in DatasetRow
    BY <1>1 DEF DatasetRow, VersionStatus
  <2>. QED
    BY <2>1, <2>2, <2>3 DEF IInv, TypeOK
<1>3. StepsAlone(j)
  BY <1>1 DEF IInv, TypeOK, StepsAlone
<1>4. RowsAgree'
  BY <1>1 DEF IInv, TypeOK, RowsAgree
<1>5. Agrees(j)'
  BY <1>1 DEF IInv, TypeOK, JobsAgree, Agrees
<1>6. ~SharedImports => GuardsOwn(j)
  BY <1>1 DEF IInv, TypeOK, CandidatesAreGuarded, Guarded, GuardsOwn, Busy,
     Handling
<1>7. ASSUME ~SharedImports
      PROVE  HoldsOwn(j)'
  <2>1. HoldsOwn(j)
    BY <1>7, <1>1, HoldsOwnBefore
  <2>. QED
    BY <1>7, <2>1, <1>1 DEF IInv, TypeOK, CandidatesAreGuarded, Guarded,
       HoldsOwn, HoldsStaging, HoldsFinal
<1>8. ~SharedImports /\ ~ReconcileAnytime => Stored(j)'
  BY <1>1 DEF IInv, TypeOK, CandidatesAreGuarded, Guarded, RunningIsStored,
     Stored
<1>9. ~SharedImports /\ ~ReconcileAnytime => PublishesOwn(j)
  BY <1>1 DEF IInv, TypeOK, RowsAgree, CandidatesAreGuarded, Guarded,
     RunningIsStored, Stored, Published, PublishesOwn
<1>. QED
  BY <1>2, <1>3, <1>4, <1>5, <1>6, <1>7, <1>8, <1>9, OwnStep

LEMMA LoadLayersIInv ==
  ASSUME IInv, NEW j \in Jobs, LoadLayers(j)
  PROVE  IInv'
<1>. USE DEF LoadLayers, rowVars, storeVars, jobVars, handlerVars, recVars,
             Typed
<1>1. Busy(j) /\ Typed(j)
  BY BusyTyped DEF Busy, Handling
<1>2. TypeOK'
  <2>1. known' \in [Jobs -> SUBSET Layers]
    BY <1>1 DEF IInv, TypeOK
  <2>2. pc' \in [Jobs -> Labels]
    BY <1>1 DEF IInv, TypeOK, Labels
  <2>3. at' \in [Jobs -> 1..(MaxLayers + 1)]
    BY <1>1 DEF IInv, TypeOK, Layers
  <2>4. \A k \in Jobs :
          /\ (jobStatus'[k] # "ABSENT") <=> (target'[k] # NoVersion)
          /\ owned'[k] <=> Handling(k)'
    BY <1>1 DEF IInv, TypeOK, Handling
  <2>. QED
    BY <2>1, <2>2, <2>3, <2>4 DEF IInv, TypeOK, Handling
<1>3. StepsAlone(j)
  BY <1>1 DEF IInv, TypeOK, StepsAlone
<1>4. RowsAgree'
  BY RowsFrame DEF IInv
<1>5. Agrees(j)'
  BY <1>1 DEF IInv, TypeOK, JobsAgree, Agrees
<1>6. ~SharedImports => GuardsOwn(j)
  BY <1>1 DEF IInv, TypeOK, CandidatesAreGuarded, Guarded, GuardsOwn, Busy,
     Handling
<1>7. ASSUME ~SharedImports
      PROVE  HoldsOwn(j)'
  <2>1. HoldsOwn(j)
    BY <1>7, <1>1, HoldsOwnBefore
  <2>. QED
    BY <1>7, <2>1, <1>1 DEF IInv, TypeOK, CandidatesAreGuarded, Guarded,
       HoldsOwn, HoldsStaging, HoldsFinal
<1>8. ~SharedImports /\ ~ReconcileAnytime => Stored(j)'
  BY <1>1 DEF IInv, TypeOK, CandidatesAreGuarded, Guarded, RunningIsStored,
     Stored
<1>9. ~SharedImports /\ ~ReconcileAnytime => PublishesOwn(j)
  BY <1>1 DEF IInv, TypeOK, RowsAgree, CandidatesAreGuarded, Guarded,
     RunningIsStored, Stored, Published, PublishesOwn
<1>. QED
  BY <1>2, <1>3, <1>4, <1>5, <1>6, <1>7, <1>8, <1>9, OwnStep

LEMMA ClearStorageIInv ==
  ASSUME IInv, NEW j \in Jobs, ClearStorage(j)
  PROVE  IInv'
<1>. USE DEF ClearStorage, Storage, Advance, rowVars, storeVars, jobVars,
             handlerVars, recVars, Typed
<1>1. Busy(j) /\ Typed(j)
  BY BusyTyped DEF Busy, Handling
<1>2. TypeOK'
  BY <1>1, TablesTyped DEF IInv, TypeOK, Layers, Handling
<1>3. StepsAlone(j)
  BY <1>1, TablesApart DEF IInv, TypeOK, StepsAlone
<1>4. RowsAgree'
  BY <1>1, TablesTyped DEF IInv, TypeOK, RowsAgree
<1>5. Agrees(j)'
  BY <1>1 DEF IInv, TypeOK, JobsAgree, Agrees
<1>6. ~SharedImports => GuardsOwn(j)
  BY <1>1 DEF IInv, TypeOK, CandidatesAreGuarded, Guarded, GuardsOwn, Busy,
     Handling
<1>7. ASSUME ~SharedImports
      PROVE  HoldsOwn(j)'
  <2>1. HoldsOwn(j)
    BY <1>7, <1>1, HoldsOwnBefore
  <2>. QED
    BY <1>7, <2>1, <1>1, TablesApart DEF IInv, TypeOK, CandidatesAreGuarded,
       Guarded, HoldsOwn, HoldsStaging, HoldsFinal
<1>8. ~SharedImports /\ ~ReconcileAnytime => Stored(j)'
  BY <1>1, TablesApart DEF IInv, TypeOK, CandidatesAreGuarded, Guarded,
     RunningIsStored, Stored
<1>9. ~SharedImports /\ ~ReconcileAnytime => PublishesOwn(j)
  BY <1>1, TablesApart DEF IInv, TypeOK, RowsAgree, CandidatesAreGuarded,
     Guarded, RunningIsStored, Stored, Published, PublishesOwn
<1>. QED
  BY <1>2, <1>3, <1>4, <1>5, <1>6, <1>7, <1>8, <1>9, OwnStep

LEMMA PrepareImportIInv ==
  ASSUME IInv, NEW j \in Jobs, PrepareImport(j)
  PROVE  IInv'
<1>. USE DEF PrepareImport, Loop, rowVars, storeVars, jobVars, handlerVars,
             recVars, Typed
<1>1. Busy(j) /\ Typed(j)
  BY BusyTyped DEF Busy, Handling
<1>2. /\ dataset' \in DatasetRow /\ dataset'.current = dataset.current
      /\ dataset'.status = "READY" <=> dataset.current # NoVersion
      /\ dataset'.lifecycle = "READY" <=> dataset.current # NoVersion
      /\ dataset'.status # "ABSENT"
      /\ Blank("REGISTERED") \in [Layers -> LayerRow]
      /\ \A i \in Layers : Blank("REGISTERED")[i].status = "REGISTERED"
  <2>1. Mark("IMPORTING", "PROCESSING") /\ dataset.status # "ABSENT"
    BY <1>1 DEF IInv, RowsAgree
  <2>. QED
    BY <2>1, Marked, Blanked
<1>3. TypeOK'
  BY <1>1, <1>2 DEF IInv, TypeOK, VersionStatus, LayerRow, DatasetRow, Labels,
     Layers, Handling
<1>4. StepsAlone(j)
  BY <1>1, <1>2 DEF IInv, TypeOK, StepsAlone
<1>5. RowsAgree'
  BY <1>1, <1>2 DEF IInv, TypeOK, RowsAgree
<1>6. Agrees(j)'
  BY <1>1, <1>2 DEF IInv, TypeOK, JobsAgree, Agrees
<1>7. ~SharedImports => GuardsOwn(j)
  BY <1>1, <1>2 DEF IInv, TypeOK, CandidatesAreGuarded, Guarded, GuardsOwn,
     Busy, Handling
<1>8. ASSUME ~SharedImports
      PROVE  HoldsOwn(j)'
  <2>1. HoldsOwn(j)
    BY <1>8, <1>1, HoldsOwnBefore
  <2>. QED
    BY <1>8, <2>1, <1>1, <1>2 DEF IInv, TypeOK, CandidatesAreGuarded, Guarded,
       HoldsOwn, HoldsStaging, HoldsFinal
<1>9. ~SharedImports /\ ~ReconcileAnytime => Stored(j)'
  BY <1>1, <1>2 DEF IInv, TypeOK, CandidatesAreGuarded, Guarded,
     RunningIsStored, Stored
<1>10. ~SharedImports /\ ~ReconcileAnytime => PublishesOwn(j)
  BY <1>1, <1>2 DEF IInv, TypeOK, RowsAgree, CandidatesAreGuarded, Guarded,
     RunningIsStored, Stored, Published, PublishesOwn
<1>. QED
  BY <1>3, <1>4, <1>5, <1>6, <1>7, <1>8, <1>9, <1>10, OwnStep

LEMMA MaterializeIInv ==
  ASSUME IInv, NEW j \in Jobs, Materialize(j)
  PROVE  IInv'
<1>. USE DEF Materialize, Go, Reports, rowVars, storeVars, jobVars,
             handlerVars, recVars, Typed
<1>1. Busy(j) /\ Typed(j)
  BY BusyTyped DEF Busy, Handling
<1>2. TypeOK'
  BY <1>1 DEF IInv, TypeOK, Labels, Handling
<1>3. StepsAlone(j)
  BY <1>1 DEF IInv, TypeOK, StepsAlone
<1>4. RowsAgree'
  BY RowsFrame DEF IInv
<1>5. Agrees(j)'
  BY <1>1 DEF IInv, TypeOK, JobsAgree, Agrees
<1>6. ~SharedImports => GuardsOwn(j)
  BY <1>1 DEF IInv, TypeOK, CandidatesAreGuarded, Guarded, GuardsOwn, Busy,
     Handling
<1>7. ASSUME ~SharedImports
      PROVE  HoldsOwn(j)'
  <2>1. HoldsOwn(j)
    BY <1>7, <1>1, HoldsOwnBefore
  <2>. QED
    BY <1>7, <2>1, <1>1 DEF IInv, TypeOK, CandidatesAreGuarded, Guarded,
       HoldsOwn, HoldsStaging, HoldsFinal
<1>8. ~SharedImports /\ ~ReconcileAnytime => Stored(j)'
  BY <1>1 DEF IInv, TypeOK, CandidatesAreGuarded, Guarded, RunningIsStored,
     Stored
<1>9. ~SharedImports /\ ~ReconcileAnytime => PublishesOwn(j)
  BY <1>1 DEF IInv, TypeOK, RowsAgree, CandidatesAreGuarded, Guarded,
     RunningIsStored, Stored, Published, PublishesOwn
<1>. QED
  BY <1>2, <1>3, <1>4, <1>5, <1>6, <1>7, <1>8, <1>9, OwnStep

LEMMA MarkLayerImportingIInv ==
  ASSUME IInv, NEW j \in Jobs, MarkLayerImporting(j)
  PROVE  IInv'
<1>. USE DEF MarkLayerImporting, Go, rowVars, storeVars, jobVars, handlerVars,
             recVars, Typed
<1>1. Busy(j) /\ Typed(j)
  BY BusyTyped DEF Busy, Handling
<1>2. TypeOK'
  <2>1. layer' \in [Versions -> [Layers -> LayerRow]]
    <3>1. layer[target[j]][at[j]] \in LayerRow
      BY <1>1 DEF IInv, TypeOK
    <3>2. [layer[target[j]][at[j]] EXCEPT !.status = "IMPORTING"] \in LayerRow
      BY <3>1 DEF LayerRow, VersionStatus
    <3>. QED
      BY <1>1, <3>2 DEF IInv, TypeOK
  <2>2. pc' \in [Jobs -> Labels]
    BY <1>1 DEF IInv, TypeOK, Labels
  <2>3. \A k \in Jobs : owned'[k] <=> Handling(k)'
    BY <1>1 DEF IInv, TypeOK, Handling
  <2>. QED
    BY <2>1, <2>2, <2>3 DEF IInv, TypeOK
<1>3. StepsAlone(j)
  BY <1>1 DEF IInv, TypeOK, StepsAlone
<1>4. RowsAgree'
  <2>1. \A v \in Versions, i \in Layers :
          \/ layer'[v][i] = layer[v][i]
          \/ layer'[v][i].status = "IMPORTING"
    BY <1>2 DEF IInv, TypeOK, LayerRow
  <2>. QED
    BY <2>1 DEF IInv, RowsAgree
<1>5. Agrees(j)'
  BY <1>1 DEF IInv, TypeOK, JobsAgree, Agrees
<1>6. ~SharedImports => GuardsOwn(j)
  BY <1>1 DEF IInv, TypeOK, CandidatesAreGuarded, Guarded, GuardsOwn, Busy,
     Handling
<1>7. ASSUME ~SharedImports
      PROVE  HoldsOwn(j)'
  <2>1. HoldsOwn(j)
    BY <1>7, <1>1, HoldsOwnBefore
  <2>. QED
    BY <1>7, <2>1, <1>1 DEF IInv, TypeOK, CandidatesAreGuarded, Guarded,
       HoldsOwn, HoldsStaging, HoldsFinal
<1>8. ~SharedImports /\ ~ReconcileAnytime => Stored(j)'
  BY <1>1 DEF IInv, TypeOK, CandidatesAreGuarded, Guarded, RunningIsStored,
     Stored
<1>9. ~SharedImports /\ ~ReconcileAnytime => PublishesOwn(j)
  BY <1>1 DEF IInv, TypeOK, RowsAgree, CandidatesAreGuarded, Guarded,
     RunningIsStored, Stored, Published, PublishesOwn
<1>. QED
  BY <1>2, <1>3, <1>4, <1>5, <1>6, <1>7, <1>8, <1>9, OwnStep

LEMMA LoadStagingIInv ==
  ASSUME IInv, NEW j \in Jobs, LoadStaging(j)
  PROVE  IInv'
<1>. USE DEF LoadStaging, Go, Reports, rowVars, storeVars, jobVars,
             handlerVars, recVars, Typed
<1>1. Busy(j) /\ Typed(j)
  BY BusyTyped DEF Busy, Handling
<1>2. TypeOK'
  BY <1>1, TablesTyped DEF IInv, TypeOK, Labels, Handling
<1>3. StepsAlone(j)
  BY <1>1, TablesApart DEF IInv, TypeOK, StepsAlone
<1>4. RowsAgree'
  BY <1>1, TablesTyped DEF IInv, TypeOK, RowsAgree
<1>5. Agrees(j)'
  BY <1>1 DEF IInv, TypeOK, JobsAgree, Agrees
<1>6. ~SharedImports => GuardsOwn(j)
  BY <1>1 DEF IInv, TypeOK, CandidatesAreGuarded, Guarded, GuardsOwn, Busy,
     Handling
<1>7. ASSUME ~SharedImports
      PROVE  HoldsOwn(j)'
  <2>1. HoldsOwn(j)
    BY <1>7, <1>1, HoldsOwnBefore
  <2>. QED
    BY <1>7, <2>1, <1>1, TablesApart DEF IInv, TypeOK, CandidatesAreGuarded,
       Guarded, HoldsOwn, HoldsStaging, HoldsFinal
<1>8. ~SharedImports /\ ~ReconcileAnytime => Stored(j)'
  BY <1>1, TablesApart DEF IInv, TypeOK, CandidatesAreGuarded, Guarded,
     RunningIsStored, Stored
<1>9. ~SharedImports /\ ~ReconcileAnytime => PublishesOwn(j)
  BY <1>1, TablesApart DEF IInv, TypeOK, RowsAgree, CandidatesAreGuarded,
     Guarded, RunningIsStored, Stored, Published, PublishesOwn
<1>. QED
  BY <1>2, <1>3, <1>4, <1>5, <1>6, <1>7, <1>8, <1>9, OwnStep

LEMMA PromoteIInv ==
  ASSUME IInv, NEW j \in Jobs, Promote(j)
  PROVE  IInv'
<1>. USE DEF Promote, Go, rowVars, storeVars, jobVars, handlerVars, recVars,
             Typed
<1>1. Busy(j) /\ Typed(j)
  BY BusyTyped DEF Busy, Handling
<1>2. TypeOK'
  BY <1>1, TablesTyped DEF IInv, TypeOK, Labels, Handling
<1>3. StepsAlone(j)
  BY <1>1, TablesApart DEF IInv, TypeOK, StepsAlone
<1>4. RowsAgree'
  BY <1>1, TablesTyped DEF IInv, TypeOK, RowsAgree
<1>5. Agrees(j)'
  BY <1>1 DEF IInv, TypeOK, JobsAgree, Agrees
<1>6. ~SharedImports => GuardsOwn(j)
  BY <1>1 DEF IInv, TypeOK, CandidatesAreGuarded, Guarded, GuardsOwn, Busy,
     Handling
<1>7. ASSUME ~SharedImports
      PROVE  HoldsOwn(j)'
  <2>1. HoldsOwn(j)
    BY <1>7, <1>1, HoldsOwnBefore
  <2>. QED
    BY <1>7, <2>1, <1>1, TablesApart DEF IInv, TypeOK, CandidatesAreGuarded,
       Guarded, HoldsOwn, HoldsStaging, HoldsFinal
<1>8. ~SharedImports /\ ~ReconcileAnytime => Stored(j)'
  BY <1>1, TablesApart DEF IInv, TypeOK, CandidatesAreGuarded, Guarded,
     RunningIsStored, Stored
<1>9. ~SharedImports /\ ~ReconcileAnytime => PublishesOwn(j)
  BY <1>1, TablesApart DEF IInv, TypeOK, RowsAgree, CandidatesAreGuarded,
     Guarded, RunningIsStored, Stored, Published, PublishesOwn
<1>. QED
  BY <1>2, <1>3, <1>4, <1>5, <1>6, <1>7, <1>8, <1>9, OwnStep

LEMMA MarkLayerReadyIInv ==
  ASSUME IInv, NEW j \in Jobs, MarkLayerReady(j)
  PROVE  IInv'
<1>. USE DEF MarkLayerReady, rowVars, storeVars, jobVars, handlerVars, recVars,
             Typed
<1>1. Busy(j) /\ Typed(j)
  BY BusyTyped DEF Busy, Handling
<1>2. TypeOK'
  BY <1>1 DEF IInv, TypeOK, LayerRow, VersionStatus, Labels, Layers, Handling
<1>3. StepsAlone(j)
  BY <1>1 DEF IInv, TypeOK, StepsAlone
<1>4. RowsAgree'
  BY <1>1 DEF IInv, TypeOK, RowsAgree
<1>5. Agrees(j)'
  BY <1>1 DEF IInv, TypeOK, JobsAgree, Agrees
<1>6. ~SharedImports => GuardsOwn(j)
  BY <1>1 DEF IInv, TypeOK, CandidatesAreGuarded, Guarded, GuardsOwn, Busy,
     Handling
<1>7. ASSUME ~SharedImports
      PROVE  HoldsOwn(j)'
  <2>1. HoldsOwn(j)
    BY <1>7, <1>1, HoldsOwnBefore
  <2>. QED
    BY <1>7, <2>1, <1>1 DEF IInv, TypeOK, CandidatesAreGuarded, Guarded,
       HoldsOwn, HoldsStaging, HoldsFinal
<1>8. ~SharedImports /\ ~ReconcileAnytime => Stored(j)'
  BY <1>1 DEF IInv, TypeOK, CandidatesAreGuarded, Guarded, RunningIsStored,
     Stored
<1>9. ~SharedImports /\ ~ReconcileAnytime => PublishesOwn(j)
  BY <1>1 DEF IInv, TypeOK, RowsAgree, CandidatesAreGuarded, Guarded,
     RunningIsStored, Stored, Published, PublishesOwn
<1>. QED
  BY <1>2, <1>3, <1>4, <1>5, <1>6, <1>7, <1>8, <1>9, OwnStep

LEMMA MarkImportReadyIInv ==
  ASSUME IInv, NEW j \in Jobs, MarkImportReady(j)
  PROVE  IInv'
<1>. USE DEF MarkImportReady, Go, Reports, rowVars, storeVars, jobVars,
             handlerVars, recVars, Typed
<1>1. Busy(j) /\ Typed(j)
  BY BusyTyped DEF Busy, Handling
<1>2. TypeOK'
  BY <1>1 DEF IInv, TypeOK, VersionStatus, Labels, Handling
<1>3. StepsAlone(j)
  BY <1>1 DEF IInv, TypeOK, StepsAlone
<1>4. RowsAgree'
  BY <1>1 DEF IInv, TypeOK, RowsAgree
<1>5. Agrees(j)'
  BY <1>1 DEF IInv, TypeOK, JobsAgree, Agrees
<1>6. ~SharedImports => GuardsOwn(j)
  BY <1>1 DEF IInv, TypeOK, CandidatesAreGuarded, Guarded, GuardsOwn, Busy,
     Handling
<1>7. ASSUME ~SharedImports
      PROVE  HoldsOwn(j)'
  <2>1. HoldsOwn(j)
    BY <1>7, <1>1, HoldsOwnBefore
  <2>. QED
    BY <1>7, <2>1, <1>1 DEF IInv, TypeOK, CandidatesAreGuarded, Guarded,
       HoldsOwn, HoldsStaging, HoldsFinal
<1>8. ~SharedImports /\ ~ReconcileAnytime => Stored(j)'
  BY <1>1 DEF IInv, TypeOK, CandidatesAreGuarded, Guarded, RunningIsStored,
     Stored
<1>9. ~SharedImports /\ ~ReconcileAnytime => PublishesOwn(j)
  BY <1>1 DEF IInv, TypeOK, RowsAgree, CandidatesAreGuarded, Guarded,
     RunningIsStored, Stored, Published, PublishesOwn
<1>. QED
  BY <1>2, <1>3, <1>4, <1>5, <1>6, <1>7, <1>8, <1>9, OwnStep

LEMMA ActivateImportedIInv ==
  ASSUME IInv, NEW j \in Jobs, ActivateImported(j)
  PROVE  IInv'
<1>. USE DEF ActivateImported, ActivateReady, Go, rowVars, storeVars, jobVars,
             handlerVars, recVars, Typed
<1>1. Busy(j) /\ Typed(j)
  BY BusyTyped DEF Busy, Handling
<1>2. TypeOK'
  <2>1. pc' \in [Jobs -> Labels]
    BY <1>1 DEF IInv, TypeOK, Labels
  <2>2. \A k \in Jobs : owned'[k] <=> Handling(k)'
    BY <1>1 DEF IInv, TypeOK, Handling
  <2>3. dataset' \in DatasetRow
    BY <1>1 DEF DatasetRow, VersionStatus
  <2>. QED
    BY <2>1, <2>2, <2>3 DEF IInv, TypeOK
<1>3. StepsAlone(j)
  BY <1>1 DEF IInv, TypeOK, StepsAlone
<1>4. RowsAgree'
  BY <1>1 DEF IInv, TypeOK, RowsAgree
<1>5. Agrees(j)'
  BY <1>1 DEF IInv, TypeOK, JobsAgree, Agrees
<1>6. ~SharedImports => GuardsOwn(j)
  BY <1>1 DEF IInv, TypeOK, CandidatesAreGuarded, Guarded, GuardsOwn, Busy,
     Handling
<1>7. ASSUME ~SharedImports
      PROVE  HoldsOwn(j)'
  <2>1. HoldsOwn(j)
    BY <1>7, <1>1, HoldsOwnBefore
  <2>. QED
    BY <1>7, <2>1, <1>1 DEF IInv, TypeOK, CandidatesAreGuarded, Guarded,
       HoldsOwn, HoldsStaging, HoldsFinal
<1>8. ~SharedImports /\ ~ReconcileAnytime => Stored(j)'
  BY <1>1 DEF IInv, TypeOK, CandidatesAreGuarded, Guarded, RunningIsStored,
     Stored
<1>9. ~SharedImports /\ ~ReconcileAnytime => PublishesOwn(j)
  BY <1>1 DEF IInv, TypeOK, RowsAgree, CandidatesAreGuarded, Guarded,
     RunningIsStored, Stored, Published, PublishesOwn
<1>. QED
  BY <1>2, <1>3, <1>4, <1>5, <1>6, <1>7, <1>8, <1>9, OwnStep

LEMMA NoticeCancellationIInv ==
  ASSUME IInv, NEW j \in Jobs, NoticeCancellation(j)
  PROVE  IInv'
<1>. USE DEF NoticeCancellation, Loop, rowVars, storeVars, jobVars,
             handlerVars, recVars, Typed
<1>1. Busy(j) /\ Typed(j)
  BY BusyTyped DEF Busy, Handling
<1>2. TypeOK'
  BY <1>1 DEF IInv, TypeOK, Labels, Layers, Handling
<1>3. StepsAlone(j)
  BY <1>1 DEF IInv, TypeOK, StepsAlone
<1>4. RowsAgree'
  BY RowsFrame DEF IInv
<1>5. Agrees(j)'
  BY <1>1 DEF IInv, TypeOK, JobsAgree, Agrees
<1>6. ~SharedImports => GuardsOwn(j)
  BY <1>1 DEF IInv, TypeOK, CandidatesAreGuarded, Guarded, GuardsOwn, Busy,
     Handling
<1>7. ASSUME ~SharedImports
      PROVE  HoldsOwn(j)'
  <2>1. HoldsOwn(j)
    BY <1>7, <1>1, HoldsOwnBefore
  <2>2. \A i \in Layers : i \in Nat /\ 1 <= i
    BY DEF Layers
  <2>. QED
    BY <1>1, <2>1, <2>2 DEF HoldsOwn, HoldsStaging, HoldsFinal,
       IInv, TypeOK
<1>8. ~SharedImports /\ ~ReconcileAnytime => Stored(j)'
  BY <1>1 DEF IInv, TypeOK, CandidatesAreGuarded, Guarded, RunningIsStored,
     Stored
<1>9. ~SharedImports /\ ~ReconcileAnytime => PublishesOwn(j)
  BY <1>1 DEF IInv, TypeOK, RowsAgree, CandidatesAreGuarded, Guarded,
     RunningIsStored, Stored, Published, PublishesOwn
<1>. QED
  BY <1>2, <1>3, <1>4, <1>5, <1>6, <1>7, <1>8, <1>9, OwnStep

LEMMA RaiseInImportIInv ==
  ASSUME IInv, NEW j \in Jobs, RaiseInImport(j)
  PROVE  IInv'
<1>. USE DEF RaiseInImport, rowVars, storeVars, jobVars, handlerVars, recVars,
             Typed
<1>1. Busy(j) /\ Typed(j)
  BY BusyTyped DEF Busy, Handling
<1>2. TypeOK'
  <2>1. tables' \subseteq Tables
    BY <1>1, TablesTyped DEF IInv, TypeOK
  <2>2. leaks' \subseteq Versions
    BY <1>1 DEF IInv, TypeOK
  <2>3. known' \in [Jobs -> SUBSET Layers]
    BY <1>1 DEF IInv, TypeOK
  <2>4. pc' \in [Jobs -> Labels]
    BY <1>1 DEF IInv, TypeOK, Labels
  <2>5. at' \in [Jobs -> 1..(MaxLayers + 1)]
    BY <1>1 DEF IInv, TypeOK, Layers
  <2>6. \A k \in Jobs :
          /\ (jobStatus'[k] # "ABSENT") <=> (target'[k] # NoVersion)
          /\ owned'[k] <=> Handling(k)'
    BY <1>1 DEF IInv, TypeOK, Handling
  <2>. QED
    BY <2>1, <2>2, <2>3, <2>4, <2>5, <2>6 DEF IInv, TypeOK, Handling
<1>3. StepsAlone(j)
  BY <1>1, TablesApart DEF IInv, TypeOK, StepsAlone
<1>4. RowsAgree'
  BY <1>1, TablesTyped DEF IInv, TypeOK, RowsAgree
<1>5. Agrees(j)'
  BY <1>1 DEF IInv, TypeOK, JobsAgree, Agrees
<1>6. ~SharedImports => GuardsOwn(j)
  BY <1>1 DEF IInv, TypeOK, CandidatesAreGuarded, Guarded, GuardsOwn, Busy,
     Handling
<1>7. ASSUME ~SharedImports
      PROVE  HoldsOwn(j)'
  <2>1. HoldsOwn(j)
    BY <1>7, <1>1, HoldsOwnBefore
  <2>2. \A i \in Layers : i \in Nat /\ 1 <= i
    BY DEF Layers
  <2>3. /\ pc'[j] = "failing" /\ at'[j] = 1 /\ target' = target
        /\ UNCHANGED version
    BY DEF IInv, TypeOK
  <2>. SUFFICES ASSUME target[j] \notin leaks', NEW i \in Layers
                PROVE  /\ Staging(target[j], i) \in tables' => TRUE
                       /\ Final(target[j], i) \in tables' => i \in known'[j]
    BY <2>2, <2>3 DEF HoldsOwn, HoldsStaging, HoldsFinal, Final, Staging
  <2>. QED
    BY <1>7, <1>1, <2>1, TablesApart DEF IInv, TypeOK,
       CandidatesAreGuarded, Guarded, HoldsOwn, HoldsStaging, HoldsFinal
<1>8. ~SharedImports /\ ~ReconcileAnytime => Stored(j)'
  BY <1>1, TablesApart DEF IInv, TypeOK, CandidatesAreGuarded, Guarded,
     RunningIsStored, Stored
<1>9. ~SharedImports /\ ~ReconcileAnytime => PublishesOwn(j)
  BY <1>1, TablesApart DEF IInv, TypeOK, RowsAgree, CandidatesAreGuarded,
     Guarded, RunningIsStored, Stored, Published, PublishesOwn
<1>. QED
  BY <1>2, <1>3, <1>4, <1>5, <1>6, <1>7, <1>8, <1>9, OwnStep

LEMMA RaiseOutsideIInv ==
  ASSUME IInv, NEW j \in Jobs, RaiseOutside(j)
  PROVE  IInv'
<1>. USE DEF RaiseOutside, Go, rowVars, storeVars, jobVars, handlerVars,
             recVars, Typed
<1>1. Busy(j) /\ Typed(j)
  BY BusyTyped DEF Busy, Handling
<1>2. TypeOK'
  <2>1. pc' \in [Jobs -> Labels]
    BY <1>1 DEF IInv, TypeOK, Labels
  <2>2. \A k \in Jobs : owned'[k] <=> Handling(k)'
    BY <1>1 DEF IInv, TypeOK, Handling
  <2>. QED
    BY <2>1, <2>2 DEF IInv, TypeOK
<1>3. StepsAlone(j)
  BY <1>1 DEF IInv, TypeOK, StepsAlone
<1>4. RowsAgree'
  BY RowsFrame DEF IInv
<1>5. Agrees(j)'
  BY <1>1 DEF IInv, TypeOK, JobsAgree, Agrees
<1>6. ~SharedImports => GuardsOwn(j)
  BY <1>1 DEF IInv, TypeOK, CandidatesAreGuarded, Guarded, GuardsOwn, Busy,
     Handling
<1>7. ASSUME ~SharedImports
      PROVE  HoldsOwn(j)'
  <2>1. HoldsOwn(j)
    BY <1>7, <1>1, HoldsOwnBefore
  <2>. QED
    BY <1>7, <2>1, <1>1 DEF IInv, TypeOK, CandidatesAreGuarded, Guarded,
       HoldsOwn, HoldsStaging, HoldsFinal
<1>8. ~SharedImports /\ ~ReconcileAnytime => Stored(j)'
  BY <1>1 DEF IInv, TypeOK, CandidatesAreGuarded, Guarded, RunningIsStored,
     Stored
<1>9. ~SharedImports /\ ~ReconcileAnytime => PublishesOwn(j)
  BY <1>1 DEF IInv, TypeOK, RowsAgree, CandidatesAreGuarded, Guarded,
     RunningIsStored, Stored, Published, PublishesOwn
<1>. QED
  BY <1>2, <1>3, <1>4, <1>5, <1>6, <1>7, <1>8, <1>9, OwnStep

LEMMA CleanUpIInv ==
  ASSUME IInv, NEW j \in Jobs, CleanUp(j)
  PROVE  IInv'
<1>. USE DEF CleanUp, Storage, Advance, rowVars, storeVars, jobVars,
             handlerVars, recVars, Typed
<1>1. Busy(j) /\ Typed(j)
  BY BusyTyped DEF Busy, Handling
<1>2. TypeOK'
  BY <1>1, TablesTyped DEF IInv, TypeOK, Layers, Handling
<1>3. StepsAlone(j)
  BY <1>1, TablesApart DEF IInv, TypeOK, StepsAlone
<1>4. RowsAgree'
  BY <1>1, TablesTyped DEF IInv, TypeOK, RowsAgree
<1>5. Agrees(j)'
  BY <1>1 DEF IInv, TypeOK, JobsAgree, Agrees
<1>6. ~SharedImports => GuardsOwn(j)
  BY <1>1 DEF IInv, TypeOK, CandidatesAreGuarded, Guarded, GuardsOwn, Busy,
     Handling
<1>7. ASSUME ~SharedImports
      PROVE  HoldsOwn(j)'
  <2>1. HoldsOwn(j)
    BY <1>7, <1>1, HoldsOwnBefore
  <2>2. \A i \in Layers : at[j] <= i /\ i # at[j] => at[j] + 1 <= i
    BY <1>2 DEF Layers
  <2>3. at'[j] = at[j] + 1 /\ UNCHANGED <<pc, known, version, target>>
    BY <1>2 DEF IInv, TypeOK
  <2>4. \A i \in Layers :
          /\ i # at[j] /\ HoldsStaging(j, i) => HoldsStaging(j, i)'
          /\ i # at[j] /\ HoldsFinal(j, i) => HoldsFinal(j, i)'
    BY <2>2, <2>3 DEF HoldsStaging, HoldsFinal
  <2>5. \A i \in Layers : HoldsFinal(j, i) => i \in known[j]
    BY DEF HoldsFinal
  <2>6. target[j] \notin leaks' =>
          \A i \in Layers :
            /\ Staging(target[j], i) \in tables' =>
                 i # at[j] /\ Staging(target[j], i) \in tables
            /\ Final(target[j], i) \in tables' =>
                 /\ Final(target[j], i) \in tables
                 /\ i \in known[j] => i # at[j]
    BY TablesApart
  <2>. QED
    BY <2>1, <2>3, <2>4, <2>5, <2>6 DEF HoldsOwn, Staging, Final
<1>8. ~SharedImports /\ ~ReconcileAnytime => Stored(j)'
  BY <1>1, TablesApart DEF IInv, TypeOK, CandidatesAreGuarded, Guarded,
     RunningIsStored, Stored
<1>9. ~SharedImports /\ ~ReconcileAnytime => PublishesOwn(j)
  BY <1>1, TablesApart DEF IInv, TypeOK, RowsAgree, CandidatesAreGuarded,
     Guarded, RunningIsStored, Stored, Published, PublishesOwn
<1>. QED
  BY <1>2, <1>3, <1>4, <1>5, <1>6, <1>7, <1>8, <1>9, OwnStep

LEMMA MarkImportFailedIInv ==
  ASSUME IInv, NEW j \in Jobs, MarkImportFailed(j)
  PROVE  IInv'
<1>. USE DEF MarkImportFailed, Withdraw, Go, rowVars, storeVars, jobVars,
             handlerVars, recVars, Typed
<1>1. Busy(j) /\ Typed(j)
  BY BusyTyped DEF Busy, Handling
<1>2. /\ dataset' \in DatasetRow /\ dataset'.current = dataset.current
      /\ dataset'.status = "READY" <=> dataset.current # NoVersion
      /\ dataset'.lifecycle = "READY" <=> dataset.current # NoVersion
      /\ dataset'.status # "ABSENT"
      /\ Blank("FAILED") \in [Layers -> LayerRow]
      /\ \A i \in Layers : Blank("FAILED")[i].status = "FAILED"
  <2>1. Mark("FAILED", "FAILED") /\ dataset.status # "ABSENT"
    BY <1>1 DEF IInv, RowsAgree
  <2>. QED
    BY <2>1, Marked, Blanked
<1>3. TypeOK'
  BY <1>1, <1>2 DEF IInv, TypeOK, VersionStatus, LayerRow, DatasetRow, Labels,
     Handling
<1>4. StepsAlone(j)
  BY <1>1, <1>2 DEF IInv, TypeOK, StepsAlone
<1>5. RowsAgree'
  BY <1>1, <1>2 DEF IInv, TypeOK, RowsAgree
<1>6. Agrees(j)'
  BY <1>1, <1>2 DEF IInv, TypeOK, JobsAgree, Agrees
<1>7. ~SharedImports => GuardsOwn(j)
  BY <1>1, <1>2 DEF IInv, TypeOK, CandidatesAreGuarded, Guarded, GuardsOwn,
     Busy, Handling
<1>8. ASSUME ~SharedImports
      PROVE  HoldsOwn(j)'
  <2>1. HoldsOwn(j)
    BY <1>8, <1>1, HoldsOwnBefore
  <2>2. \A i \in Layers : ~(at[j] <= i)
    BY <1>1 DEF Layers
  <2>3. \A i \in Layers : ~HoldsStaging(j, i) /\ ~HoldsFinal(j, i)
    BY <2>2 DEF HoldsStaging, HoldsFinal
  <2>4. target[j] \notin leaks => \A i \in Layers :
          /\ Staging(target[j], i) \notin tables
          /\ Final(target[j], i) \notin tables
    BY <1>8, <2>1, <2>3 DEF HoldsOwn, IInv, CandidatesAreGuarded, Guarded
  <2>. QED
    BY <2>4 DEF HoldsOwn, Staging, Final
<1>9. ~SharedImports /\ ~ReconcileAnytime => Stored(j)'
  BY <1>1, <1>2 DEF IInv, TypeOK, CandidatesAreGuarded, Guarded,
     RunningIsStored, Stored
<1>10. ~SharedImports /\ ~ReconcileAnytime => PublishesOwn(j)
  BY <1>1, <1>2 DEF IInv, TypeOK, RowsAgree, CandidatesAreGuarded, Guarded,
     RunningIsStored, Stored, Published, PublishesOwn
<1>. QED
  BY <1>3, <1>4, <1>5, <1>6, <1>7, <1>8, <1>9, <1>10, OwnStep

LEMMA MarkImportCancelledIInv ==
  ASSUME IInv, NEW j \in Jobs, MarkImportCancelled(j)
  PROVE  IInv'
<1>. USE DEF MarkImportCancelled, Withdraw, Go, rowVars, storeVars, jobVars,
             handlerVars, recVars, Typed
<1>1. Busy(j) /\ Typed(j)
  BY BusyTyped DEF Busy, Handling
<1>2. /\ dataset' \in DatasetRow /\ dataset'.current = dataset.current
      /\ dataset'.status = "READY" <=> dataset.current # NoVersion
      /\ dataset'.lifecycle = "READY" <=> dataset.current # NoVersion
      /\ dataset'.status # "ABSENT"
      /\ Blank("REGISTERED") \in [Layers -> LayerRow]
      /\ \A i \in Layers : Blank("REGISTERED")[i].status = "REGISTERED"
  <2>1. Mark("REGISTERED", "DRAFT") /\ dataset.status # "ABSENT"
    BY <1>1 DEF IInv, RowsAgree
  <2>. QED
    BY <2>1, Marked, Blanked
<1>3. TypeOK'
  BY <1>1, <1>2 DEF IInv, TypeOK, VersionStatus, LayerRow, DatasetRow, Labels,
     Handling
<1>4. StepsAlone(j)
  BY <1>1, <1>2 DEF IInv, TypeOK, StepsAlone
<1>5. RowsAgree'
  BY <1>1, <1>2 DEF IInv, TypeOK, RowsAgree
<1>6. Agrees(j)'
  BY <1>1, <1>2 DEF IInv, TypeOK, JobsAgree, Agrees
<1>7. ~SharedImports => GuardsOwn(j)
  BY <1>1, <1>2 DEF IInv, TypeOK, CandidatesAreGuarded, Guarded, GuardsOwn,
     Busy, Handling
<1>8. ASSUME ~SharedImports
      PROVE  HoldsOwn(j)'
  <2>1. HoldsOwn(j)
    BY <1>8, <1>1, HoldsOwnBefore
  <2>2. \A i \in Layers : ~(at[j] <= i)
    BY <1>1 DEF Layers
  <2>3. \A i \in Layers : ~HoldsStaging(j, i) /\ ~HoldsFinal(j, i)
    BY <2>2 DEF HoldsStaging, HoldsFinal
  <2>4. target[j] \notin leaks => \A i \in Layers :
          /\ Staging(target[j], i) \notin tables
          /\ Final(target[j], i) \notin tables
    BY <1>8, <2>1, <2>3 DEF HoldsOwn, IInv, CandidatesAreGuarded, Guarded
  <2>. QED
    BY <2>4 DEF HoldsOwn, Staging, Final
<1>9. ~SharedImports /\ ~ReconcileAnytime => Stored(j)'
  BY <1>1, <1>2 DEF IInv, TypeOK, CandidatesAreGuarded, Guarded,
     RunningIsStored, Stored
<1>10. ~SharedImports /\ ~ReconcileAnytime => PublishesOwn(j)
  BY <1>1, <1>2 DEF IInv, TypeOK, RowsAgree, CandidatesAreGuarded, Guarded,
     RunningIsStored, Stored, Published, PublishesOwn
<1>. QED
  BY <1>3, <1>4, <1>5, <1>6, <1>7, <1>8, <1>9, <1>10, OwnStep

LEMMA HandlerReturnsIInv ==
  ASSUME IInv, NEW j \in Jobs, HandlerReturns(j)
  PROVE  IInv'
<1>. USE DEF HandlerReturns, Go, rowVars, storeVars, jobVars, handlerVars,
             recVars, Typed
<1>1. Busy(j) /\ Typed(j)
  BY BusyTyped DEF Busy, Handling
<1>2. TypeOK'
  <2>1. pc' \in [Jobs -> Labels]
    BY <1>1 DEF IInv, TypeOK, Labels
  <2>2. \A k \in Jobs : owned'[k] <=> Handling(k)'
    BY <1>1 DEF IInv, TypeOK, Handling
  <2>. QED
    BY <2>1, <2>2 DEF IInv, TypeOK
<1>3. StepsAlone(j)
  BY <1>1 DEF IInv, TypeOK, StepsAlone
<1>4. RowsAgree'
  BY RowsFrame DEF IInv
<1>5. Agrees(j)'
  BY <1>1 DEF IInv, TypeOK, JobsAgree, Agrees
<1>6. ~SharedImports => GuardsOwn(j)
  BY <1>1 DEF IInv, TypeOK, CandidatesAreGuarded, Guarded, GuardsOwn, Busy,
     Handling
<1>7. ASSUME ~SharedImports
      PROVE  HoldsOwn(j)'
  <2>1. HoldsOwn(j)
    BY <1>7, <1>1, HoldsOwnBefore
  <2>. QED
    BY <1>7, <2>1, <1>1 DEF IInv, TypeOK, CandidatesAreGuarded, Guarded,
       HoldsOwn, HoldsStaging, HoldsFinal
<1>8. ~SharedImports /\ ~ReconcileAnytime => Stored(j)'
  BY <1>1 DEF IInv, TypeOK, CandidatesAreGuarded, Guarded, RunningIsStored,
     Stored
<1>9. ~SharedImports /\ ~ReconcileAnytime => PublishesOwn(j)
  BY <1>1 DEF IInv, TypeOK, RowsAgree, CandidatesAreGuarded, Guarded,
     RunningIsStored, Stored, Published, PublishesOwn
<1>. QED
  BY <1>2, <1>3, <1>4, <1>5, <1>6, <1>7, <1>8, <1>9, OwnStep

(* A job ends: its row is settled, or has been ended before.               *)
LEMMA EndEffect ==
  ASSUME IInv, NEW j \in Jobs, Handling(j), NEW outcome \in Terminal,
         NEW label \in {"done", "refused", "torn"}, End(j, outcome, label)
  PROVE  /\ TypeOK' /\ StepsAlone(j) /\ RowsAgree' /\ Agrees(j)'
         /\ pc'[j] = label /\ UNCHANGED <<target, rowVars, storeVars>>
<1>. USE DEF End, Job!Settle, Job!Abandon, Job!Move, Job!Terminal, rowVars,
             storeVars, jobVars, handlerVars, recVars, Typed
<1>1. Busy(j) /\ Typed(j)
  BY BusyTyped DEF Busy
<1>2. TypeOK'
  <2>1. jobStatus' \in [Jobs -> Terminal \union Active \union {"ABSENT"}]
    BY <1>1 DEF IInv, TypeOK, Terminal, Active
  <2>2. owned' \in [Jobs -> BOOLEAN]
    BY <1>1 DEF IInv, TypeOK
  <2>3. pc' \in [Jobs -> Labels]
    BY <1>1 DEF IInv, TypeOK, Labels
  <2>4. at' \in [Jobs -> 1..(MaxLayers + 1)]
    BY <1>1 DEF IInv, TypeOK, Layers
  <2>5. known' \in [Jobs -> SUBSET Layers]
    BY <1>1 DEF IInv, TypeOK
  <2>6. \A k \in Jobs :
          /\ (jobStatus'[k] # "ABSENT") <=> (target'[k] # NoVersion)
          /\ owned'[k] <=> Handling(k)'
    BY <1>1 DEF IInv, TypeOK, Handling
  <2>. QED
    BY <2>1, <2>2, <2>3, <2>4, <2>5, <2>6 DEF IInv, TypeOK, Handling
<1>3. StepsAlone(j)
  BY <1>1 DEF IInv, TypeOK, StepsAlone
<1>4. RowsAgree'
  BY RowsFrame DEF IInv
<1>5. pc'[j] = label
  BY DEF IInv, TypeOK
<1>6. Agrees(j)'
  <2>1. jobStatus'[j] \in {jobStatus[j]} \union Terminal
    BY DEF IInv, TypeOK, Terminal
  <2>2. pc[j] # "none"
    BY DEF Handling
  <2>. QED
    BY <1>1, <1>5, <2>1, <2>2 DEF IInv, JobsAgree, Agrees, Terminal
<1>. QED
  BY <1>2, <1>3, <1>4, <1>5, <1>6

LEMMA FinishIInv ==
  ASSUME IInv, NEW j \in Jobs, Finish(j)
  PROVE  IInv'
<1>. DEFINE label == IF pc[j] = "refusing" THEN "refused" ELSE "done"
<1>1. /\ pc[j] \in {"completing", "raised", "refusing", "acknowledging"}
      /\ Handling(j) /\ Outcome[pc[j]] \in Terminal
      /\ label \in {"done", "refused", "torn"} /\ End(j, Outcome[pc[j]], label)
  BY DEF Finish, Outcome, Handling, Terminal
<1>2. Busy(j) /\ Typed(j)
  BY <1>1, BusyTyped DEF Busy
<1>3. /\ TypeOK' /\ StepsAlone(j) /\ RowsAgree' /\ Agrees(j)'
      /\ pc'[j] = label /\ UNCHANGED <<target, rowVars, storeVars>>
  BY <1>1, EndEffect
<1>. USE DEF rowVars, storeVars, Typed
<1>6. ~SharedImports => GuardsOwn(j)
  BY <1>1, <1>2, <1>3 DEF IInv, CandidatesAreGuarded, Guarded, GuardsOwn
<1>7. ASSUME ~SharedImports
      PROVE  HoldsOwn(j)'
  <2>1. HoldsOwn(j)
    BY <1>7, <1>2, HoldsOwnBefore
  <2>. QED
    BY <1>1, <1>3, <2>1 DEF HoldsOwn, HoldsStaging, HoldsFinal, Staging, Final
<1>8. Stored(j)'
  BY <1>1, <1>3 DEF Stored
<1>9. ~SharedImports /\ ~ReconcileAnytime => PublishesOwn(j)
  BY <1>1, <1>3 DEF Published, PublishesOwn, Final
<1>. QED
  BY <1>3, <1>6, <1>7, <1>8, <1>9, OwnStep

LEMMA FailToSettleIInv ==
  ASSUME IInv, NEW j \in Jobs, FailToSettle(j)
  PROVE  IInv'
<1>. DEFINE label == IF pc[j] = "failing" THEN "torn" ELSE "refused"
<1>1. /\ pc[j] \in {"failing", "cancelling"} /\ at[j] \notin Layers
      /\ Handling(j) /\ "FAILED" \in Terminal
      /\ label \in {"done", "refused", "torn"} /\ End(j, "FAILED", label)
  BY DEF FailToSettle, Handling, Terminal
<1>2. Busy(j) /\ Typed(j)
  BY <1>1, BusyTyped DEF Busy
<1>3. /\ TypeOK' /\ StepsAlone(j) /\ RowsAgree' /\ Agrees(j)'
      /\ pc'[j] = label /\ UNCHANGED <<target, rowVars, storeVars>>
  BY <1>1, EndEffect
<1>. USE DEF rowVars, storeVars, Typed
<1>6. ~SharedImports => GuardsOwn(j)
  BY <1>1, <1>2, <1>3 DEF IInv, CandidatesAreGuarded, Guarded, GuardsOwn
<1>7. ASSUME ~SharedImports
      PROVE  HoldsOwn(j)'
  <2>1. HoldsOwn(j)
    BY <1>7, <1>2, HoldsOwnBefore
  <2>2. \A i \in Layers : ~(at[j] <= i)
    BY <1>1, <1>2 DEF Layers
  <2>3. \A i \in Layers : ~HoldsStaging(j, i) /\ ~HoldsFinal(j, i)
    BY <1>1, <2>2 DEF HoldsStaging, HoldsFinal
  <2>. QED
    BY <1>1, <1>3, <2>1, <2>3 DEF HoldsOwn, Staging, Final
<1>8. Stored(j)'
  BY <1>1, <1>3 DEF Stored
<1>9. ~SharedImports /\ ~ReconcileAnytime => PublishesOwn(j)
  BY <1>1, <1>3 DEF IInv, CandidatesAreGuarded, Guarded, PublishesOwn
<1>. QED
  BY <1>3, <1>6, <1>7, <1>8, <1>9, OwnStep

LEMMA DieIInv ==
  ASSUME IInv, NEW j \in Jobs, Die(j)
  PROVE  IInv'
<1>. USE DEF Die, Job!Abandon, Handling, rowVars, storeVars, jobVars,
             handlerVars, recVars, Typed
<1>1. Busy(j) /\ Typed(j)
  BY BusyTyped DEF Busy, Handling
<1>2. TypeOK'
  BY <1>1 DEF IInv, TypeOK, Labels, Layers, Handling
<1>3. StepsAlone(j)
  BY <1>1 DEF IInv, TypeOK, StepsAlone
<1>4. RowsAgree'
  BY RowsFrame DEF IInv
<1>5. Agrees(j)'
  BY <1>1 DEF IInv, TypeOK, JobsAgree, Agrees
<1>6. ~SharedImports => GuardsOwn(j)
  BY <1>1 DEF IInv, TypeOK, CandidatesAreGuarded, Guarded, GuardsOwn, Busy,
     Handling
<1>7. ASSUME ~SharedImports
      PROVE  HoldsOwn(j)'
  <2>1. HoldsOwn(j)
    BY <1>7, <1>1, HoldsOwnBefore
  <2>. QED
    BY <1>7, <2>1, <1>1 DEF IInv, TypeOK, CandidatesAreGuarded, Guarded,
       HoldsOwn, HoldsStaging, HoldsFinal
<1>8. ~SharedImports /\ ~ReconcileAnytime => Stored(j)'
  BY <1>1 DEF IInv, TypeOK, CandidatesAreGuarded, Guarded, RunningIsStored,
     Stored
<1>9. ~SharedImports /\ ~ReconcileAnytime => PublishesOwn(j)
  BY <1>1 DEF IInv, TypeOK, RowsAgree, CandidatesAreGuarded, Guarded,
     RunningIsStored, Stored, Published, PublishesOwn
<1>. QED
  BY <1>2, <1>3, <1>4, <1>5, <1>6, <1>7, <1>8, <1>9, OwnStep

(* The reconciler only looks until it drops a table.                       *)
LEMMA ReconcilerOnlyIInv ==
  ASSUME IInv, UNCHANGED <<rowVars, storeVars, jobVars, handlerVars>>,
         reconciler' \in {"idle", "layers", "jobs", "dropping"},
         inventory' \subseteq Tables, found' \subseteq Tables,
         stale' \subseteq Versions,
         ~SharedImports /\ ~ReconcileAnytime => ReconcilerIsApart'
  PROVE  IInv'
<1>. USE DEF rowVars, storeVars, jobVars, handlerVars
<1>1. TypeOK'
  BY DEF IInv, TypeOK, Handling
<1>. QED
  BY <1>1, RowsFrame, JobsFrame, AloneFrame, GuardedFrame, HeldFrame,
     DrivenFrame, PublishedFrame, StoredFrame DEF IInv

LEMMA ListTablesIInv ==
  ASSUME IInv, ListTables
  PROVE  IInv'
<1>. USE DEF ListTables
<1>1. ~SharedImports /\ ~ReconcileAnytime => ReconcilerIsApart'
  BY DEF IInv, RowsAgree, ReconcilerIsApart, Idle, Of, Busy, Handling, rowVars,
         jobVars, handlerVars
<1>. QED
  BY <1>1, ReconcilerOnlyIInv DEF IInv, TypeOK

LEMMA ReadLayersIInv ==
  ASSUME IInv, ReadLayers
  PROVE  IInv'
<1>. USE DEF ReadLayers
<1>1. ~SharedImports /\ ~ReconcileAnytime => ReconcilerIsApart'
  BY DEF IInv, ReconcilerIsApart, Idle, Of, Busy, Handling, rowVars, jobVars,
         handlerVars
<1>. QED
  BY <1>1, ReconcilerOnlyIInv DEF IInv, TypeOK

LEMMA ReadJobsIInv ==
  ASSUME IInv, ReadJobs
  PROVE  IInv'
<1>. USE DEF ReadJobs
<1>1. ~SharedImports /\ ~ReconcileAnytime => ReconcilerIsApart'
  BY DEF IInv, ReconcilerIsApart, Idle, Of, Busy, Handling, rowVars, jobVars,
         handlerVars
<1>. QED
  BY <1>1, ReconcilerOnlyIInv DEF IInv, TypeOK

LEMMA DropReportedTableIInv ==
  ASSUME IInv, DropReportedTable
  PROVE  IInv'
<1>. USE DEF DropReportedTable, rowVars, storeVars, jobVars, handlerVars,
             recVars
<1>1. TypeOK'
  <2>1. tables' \subseteq Tables
    BY TablesTyped DEF IInv, TypeOK
  <2>2. found' \subseteq Tables
    BY DEF IInv, TypeOK
  <2>. QED
    BY <2>1, <2>2 DEF IInv, TypeOK, Handling
<1>2. RowsAgree'
  BY DEF IInv, TypeOK, RowsAgree, VersionStatus, LayerRow
<1>3. ~SharedImports => StorageIsHeld'
  BY DEF IInv, TypeOK, StorageIsHeld, HoldsStaging, HoldsFinal, Of
<1>4. ~SharedImports /\ ~ReconcileAnytime => ReadyIsPublished'
  <2>. SUFFICES ASSUME ~SharedImports, ~ReconcileAnytime,
                       NEW v \in Versions, version[v] = "READY",
                       ~Withdrawing(v), NEW i \in Layers
                PROVE  Final(v, i) \in tables'
    BY DEF IInv, ReadyIsPublished, Published, Withdrawing, Of, Final
  <2>1. layer[v][i].status = "READY" /\ Final(v, i) \in tables
    BY DEF IInv, ReadyIsPublished, Published
  <2>2. \A t \in found : t # Final(v, i)
    BY <2>1, TablesTyped DEF IInv, ReconcilerIsApart
  <2>. QED
    BY <2>1, <2>2
<1>5. ~SharedImports /\ ~ReconcileAnytime => RunningIsStored'
  <2>. SUFFICES ASSUME ~SharedImports, ~ReconcileAnytime, NEW j \in Jobs
                PROVE  Stored(j)'
    BY DEF RunningIsStored
  <2>1. Stored(j)
    BY DEF IInv, RunningIsStored
  <2>2. CASE Busy(j)
    <3>1. target[j] \in Versions /\ j \in Of(target[j])
      BY <2>2, BusyTyped DEF Typed
    <3>2. \A t \in found : t[2] # target[j]
      BY <2>2, <3>1 DEF IInv, ReconcilerIsApart, Idle
    <3>3. \A t \in found, i \in Layers : t # Final(target[j], i)
      BY <3>1, <3>2, TablesTyped
    <3>4. pc[j] = "publishing" => at[j] \in Layers
      BY DEF IInv, JobsAgree, Agrees
    <3>. QED
      BY <2>1, <3>3, <3>4 DEF Stored, Final
  <2>3. CASE ~Busy(j)
    BY <2>3 DEF Stored, Busy, Handling
  <2>. QED
    BY <2>2, <2>3
<1>6. ~SharedImports /\ ~ReconcileAnytime => ReconcilerIsApart'
  BY DEF IInv, TypeOK, RowsAgree, JobsAgree, ReconcilerIsApart, Idle, Of, Busy,
     Handling
<1>7. /\ JobsAgree'
      /\ ~SharedImports =>
           AttemptsAreAlone' /\ CandidatesAreGuarded' /\ ImportingIsDriven'
  BY JobsFrame, AloneFrame, GuardedFrame, DrivenFrame DEF IInv
<1>. QED
  BY <1>1, <1>2, <1>3, <1>4, <1>5, <1>6, <1>7 DEF IInv

LEMMA FailVersionIInv ==
  ASSUME IInv, NEW v \in Versions, FailVersion(v)
  PROVE  IInv'
<1>. USE DEF jobVars, handlerVars
<1>1. /\ version' = [version EXCEPT ![v] = "FAILED"]
      /\ version' \in [Versions -> VersionStatus]
      /\ version[v] = "IMPORTING" /\ version'[v] = "FAILED"
      /\ \A w \in Versions : w # v => version'[w] = version[w]
  BY DEF FailVersion, IInv, TypeOK, VersionStatus
<1>2. /\ layer' \in [Versions -> [Layers -> LayerRow]]
      /\ \A i \in Layers : layer'[v][i].status = "FAILED"
      /\ \A w \in Versions : w # v => layer'[w] = layer[w]
  BY Blanked DEF FailVersion, IInv, TypeOK
<1>3. /\ tables' \subseteq tables
      /\ \A i \in Layers : /\ Staging(v, i) \notin tables'
                           /\ Final(v, i) \notin tables'
      /\ \A w \in Versions, i \in Layers :
           w # v /\ Final(w, i) \in tables => Final(w, i) \in tables'
  BY DEF FailVersion, TablesOf, Staging, Final
<1>4. /\ dataset' \in DatasetRow /\ dataset'.status # "ABSENT"
      /\ dataset'.status = "READY" <=> dataset'.current # NoVersion
      /\ dataset'.lifecycle = "READY" <=> dataset'.current # NoVersion
      /\ \/ dataset'.current = dataset.current /\ dataset.current # v
         \/ dataset'.current = NoVersion
  <2>1. dataset \in DatasetRow /\ dataset.status # "ABSENT"
    BY <1>1 DEF IInv, TypeOK, RowsAgree
  <2>. QED
    BY <2>1 DEF FailVersion, IInv, RowsAgree, DatasetRow, VersionStatus
<1>5. /\ UNCHANGED <<reconciler, inventory, found, leaks, jobVars, handlerVars>>
      /\ revoked' = (revoked /\ v # dataset.current)
      /\ stale' \subseteq stale /\ NoActiveJob(v)
  BY DEF FailVersion
<1>6. TypeOK'
  BY <1>1, <1>2, <1>3, <1>4, <1>5 DEF IInv, TypeOK, Handling
<1>7. RowsAgree'
  <2>1. \A k \in Jobs : target[k] # NoVersion => version'[target[k]] # "ABSENT"
    BY <1>1 DEF IInv, TypeOK, RowsAgree
  <2>2. \A t \in tables : t[2] \in Versions
    BY TablesNamed DEF IInv, TypeOK
  <2>3. \A t \in tables' : version'[t[2]] # "ABSENT"
    BY <1>1, <1>3, <2>2 DEF IInv, RowsAgree
  <2>4. \A w \in Versions : \A i \in Layers :
          layer'[w][i].status = "READY" => layer'[w][i].published
    BY <1>2 DEF IInv, RowsAgree
  <2>. QED
    BY <1>4, <1>5, <2>1, <2>3, <2>4 DEF RowsAgree
<1>8. ~SharedImports => CandidatesAreGuarded'
  <2>1. ASSUME ~SharedImports, NEW k \in Jobs
        PROVE  Guarded(k)'
    <3>1. Guarded(k) /\ (pc[k] # "none" => target[k] \in Versions)
      BY <2>1 DEF IInv, TypeOK, JobsAgree, Agrees, CandidatesAreGuarded
    <3>2. \A w \in Versions : w # NoVersion
      BY DEF Versions, NoVersion
    <3>. QED
      BY <1>1, <1>4, <1>5, <3>1, <3>2 DEF Guarded
  <2>2. ~SharedImports /\ dataset'.current # NoVersion /\ ~revoked' =>
          version'[dataset'.current] = "READY"
    BY <1>1, <1>4, <1>5 DEF IInv, TypeOK, DatasetRow, CandidatesAreGuarded
  <2>. QED
    BY <2>1, <2>2 DEF CandidatesAreGuarded
<1>9. ~SharedImports => StorageIsHeld'
  <2>. SUFFICES ASSUME ~SharedImports, NEW w \in Versions, w \notin leaks,
                       NEW i \in Layers, w # v
                PROVE  /\ Staging(w, i) \in tables' =>
                            \E k \in Of(w) : HoldsStaging(k, i)
                       /\ Final(w, i) \in tables' =>
                            \/ /\ version'[w] = "READY"
                               /\ \A k \in Of(w) :
                                    pc[k] \notin
                                      {"activating", "leaving", "failing"}
                            \/ \E k \in Of(w) : HoldsFinal(k, i)
    <3>1. \A k \in Jobs, i \in Layers :
            /\ HoldsStaging(k, i)' <=> HoldsStaging(k, i)
            /\ HoldsFinal(k, i)' <=> HoldsFinal(k, i)
      BY <1>5 DEF HoldsStaging, HoldsFinal
    <3>2. \A w \in Versions : Of(w)' = Of(w) /\ Of(w) \subseteq Jobs
      BY <1>5 DEF Of
    <3>3. /\ \A w, i : Staging(w, i)' = Staging(w, i)
          /\ \A w, i : Final(w, i)' = Final(w, i)
      BY DEF Staging, Final
    <3>. QED
      BY <1>3, <1>5, <3>1, <3>2, <3>3 DEF StorageIsHeld
  <2>. QED
    BY <1>1, <1>3 DEF IInv, StorageIsHeld
<1>10. ~SharedImports => ImportingIsDriven'
  BY <1>1, <1>5 DEF IInv, ImportingIsDriven, Lost, Idle, Busy, Handling, Of
<1>11. ~SharedImports /\ ~ReconcileAnytime => ReadyIsPublished'
  <2>. SUFFICES ASSUME ~SharedImports, ~ReconcileAnytime, NEW w \in Versions,
                       version'[w] = "READY", ~Withdrawing(w)
                PROVE  Published(w)'
    BY <1>5 DEF ReadyIsPublished, Withdrawing, Of
  <2>1. w # v /\ version[w] = "READY" /\ layer'[w] = layer[w]
    BY <1>1, <1>2
  <2>2. Published(w)
    BY <2>1 DEF IInv, ReadyIsPublished
  <2>. QED
    BY <1>3, <2>1, <2>2 DEF Published, Final
<1>12. ~SharedImports /\ ~ReconcileAnytime => RunningIsStored'
  <2>. SUFFICES ASSUME ~SharedImports, ~ReconcileAnytime, NEW k \in Jobs
                PROVE  Stored(k)'
    BY DEF RunningIsStored
  <2>1. /\ Stored(k) /\ (pc[k] # "none" => target[k] \in Versions)
        /\ pc[k] \in {"staging", "publishing"} => at[k] \in Layers
    BY DEF IInv, TypeOK, RunningIsStored, JobsAgree, Agrees
  <2>2. CASE target[k] = v
    <3>1. jobStatus[k] # "RUNNING"
      BY <1>5, <2>2 DEF NoActiveJob, Of, Active
    <3>. QED
      BY <1>2, <1>5, <2>1, <2>2, <3>1 DEF Stored
  <2>3. CASE target[k] # v
    BY <1>2, <1>3, <1>5, <2>1, <2>3 DEF Stored, Final
  <2>. QED
    BY <2>2, <2>3
<1>13. ~SharedImports /\ ~ReconcileAnytime => ReconcilerIsApart'
  <2>. SUFFICES ASSUME ~SharedImports, ~ReconcileAnytime
                PROVE  ReconcilerIsApart'
    OBVIOUS
  <2>1. \A t \in inventory \union found : t[2] \in Versions /\ t[3] \in Layers
    BY TablesNamed DEF IInv, TypeOK
  <2>2. \A w \in Versions : Idle(w) => Idle(w)'
    BY <1>5 DEF Idle, Busy, Handling, Of
  <2>. QED
    BY <1>1, <1>2, <1>5, <2>1, <2>2 DEF IInv, ReconcilerIsApart
<1>14. /\ JobsAgree'
       /\ ~SharedImports => AttemptsAreAlone'
  BY <1>5, JobsFrame, AloneFrame DEF IInv
<1>. QED
  BY <1>6, <1>7, <1>8, <1>9, <1>10, <1>11, <1>12, <1>13, <1>14 DEF IInv

LEMMA StopReconciliationIInv ==
  ASSUME IInv, StopReconciliation
  PROVE  IInv'
<1>. USE DEF StopReconciliation
<1>1. ~SharedImports /\ ~ReconcileAnytime => ReconcilerIsApart'
  BY DEF IInv, ReconcilerIsApart, Idle, Of, Busy, Handling, rowVars, jobVars,
         handlerVars
<1>. QED
  BY <1>1, ReconcilerOnlyIInv DEF IInv, TypeOK

LEMMA InitIInv == Init => IInv
<1>. SUFFICES ASSUME Init PROVE IInv
  OBVIOUS
<1>. USE DEF Init, Job!Init
<1>1. TypeOK
  <2>1. /\ dataset \in DatasetRow /\ version \in [Versions -> VersionStatus]
        /\ layer \in [Versions -> [Layers -> LayerRow]]
    BY Blanked DEF DatasetRow, VersionStatus
  <2>2. /\ pc \in [Jobs -> Labels] /\ at \in [Jobs -> 1..(MaxLayers + 1)]
        /\ known \in [Jobs -> SUBSET Layers]
    BY DEF Labels
  <2>. QED
    BY <2>1, <2>2 DEF TypeOK, Handling
<1>2. RowsAgree /\ JobsAgree
  BY Blanked DEF RowsAgree, JobsAgree, Agrees
<1>3. AttemptsAreAlone /\ CandidatesAreGuarded
  BY DEF AttemptsAreAlone, CandidatesAreGuarded, Guarded, Busy, Handling
<1>4. StorageIsHeld /\ ImportingIsDriven
  BY DEF StorageIsHeld, ImportingIsDriven
<1>5. ReadyIsPublished /\ RunningIsStored /\ ReconcilerIsApart
  BY DEF ReadyIsPublished, RunningIsStored, Stored, ReconcilerIsApart
<1>. QED
  BY <1>1, <1>2, <1>3, <1>4, <1>5 DEF IInv

LEMMA StutterIInv ==
  ASSUME IInv, UNCHANGED vars
  PROVE  IInv'
<1>. USE DEF vars, rowVars, storeVars, jobVars, handlerVars, recVars
<1>1. TypeOK'
  BY DEF IInv, TypeOK, Handling
<1>. QED
  BY <1>1, RowsFrame, JobsFrame, AloneFrame, GuardedFrame, HeldFrame,
     DrivenFrame, PublishedFrame, StoredFrame, ApartFrame DEF IInv

LEMMA HandlerStepIInv ==
  ASSUME IInv, NEW j \in Jobs, HandlerStep(j)
  PROVE  IInv'
  BY ResolveVersionIInv, ReactivateIInv, LoadLayersIInv, ClearStorageIInv,
     PrepareImportIInv, MaterializeIInv, MarkLayerImportingIInv,
     LoadStagingIInv, PromoteIInv, MarkLayerReadyIInv, MarkImportReadyIInv,
     ActivateImportedIInv, NoticeCancellationIInv, RaiseInImportIInv,
     RaiseOutsideIInv, CleanUpIInv, MarkImportFailedIInv,
     MarkImportCancelledIInv, HandlerReturnsIInv, FinishIInv, FailToSettleIInv
     DEF HandlerStep

LEMMA ReconcilerStepIInv ==
  ASSUME IInv, ReconcilerStep
  PROVE  IInv'
  BY ListTablesIInv, ReadLayersIInv, ReadJobsIInv, DropReportedTableIInv,
     StopReconciliationIInv, FailVersionIInv DEF ReconcilerStep

LEMMA NextIInv == IInv /\ [Next]_vars => IInv'
<1>. SUFFICES ASSUME IInv, [Next]_vars PROVE IInv'
  OBVIOUS
<1>1. CASE UNCHANGED vars
  BY <1>1, StutterIInv
<1>2. CASE Register \/ ReconcilerStep
  BY <1>2, RegisterIInv, ReconcilerStepIInv
<1>3. ASSUME NEW v \in Versions,
             RegisterReplacement(v) \/ RunImport(v) \/ ActivateVersion(v)
      PROVE  IInv'
  BY <1>3, RegisterReplacementIInv, RunImportIInv, ActivateVersionIInv
<1>4. ASSUME NEW j \in Jobs,
             \/ Enqueue(j) \/ Cancel(j) \/ Undeliverable(j)
             \/ BeginImport(j) \/ HandlerStep(j) \/ Die(j)
      PROVE  IInv'
  BY <1>4, EnqueueIInv, CancelIInv, UndeliverableIInv, BeginImportIInv,
     HandlerStepIInv, DieIInv
<1>. QED
  BY <1>1, <1>2, <1>3, <1>4 DEF Next

LEMMA Invariance == Spec => []IInv
  BY InitIInv, NextIInv, PTL DEF Spec

-----------------------------------------------------------------------------
(* What follows.                                                           *)

(* Every variable has its type in every reachable state, whoever shares a  *)
(* version and whenever the reconciler runs.                               *)
THEOREM TypeCorrect == Spec => []TypeOK
<1>1. IInv => TypeOK
  BY DEF IInv
<1>. QED
  BY <1>1, Invariance, PTL

(* No import that fails, is cancelled or crashes takes a served dataset    *)
(* offline (_mark_import_failed, _mark_import_cancelled and FailVersion),  *)
(* except one that raises after it made its own version current, at        *)
(* whatever time the reconciler runs, as long as a version is imported by  *)
(* one job at a time.                                                      *)
THEOREM ServedIsReadyAlways ==
  ASSUME ~SharedImports
  PROVE  Spec => []ServedIsReady
<1>1. IInv => ServedIsReady
  BY DEF IInv, RowsAgree, CandidatesAreGuarded, ServedIsReady
<1>. QED
  BY <1>1, Invariance, PTL

(* What a version has in PostGIS when nobody imports it is what it shows,  *)
(* unless a worker died or the database refused to drop a table.           *)
THEOREM NoLeftoversAlways ==
  ASSUME ~SharedImports
  PROVE  Spec => []NoLeftovers
<1>1. ASSUME IInv PROVE NoLeftovers
  <2>. SUFFICES ASSUME NEW v \in Versions, v \notin leaks, Idle(v),
                       NEW i \in Layers
                PROVE  /\ Staging(v, i) \notin tables
                       /\ Final(v, i) \in tables => version[v] = "READY"
    BY DEF NoLeftovers
  <2>1. \A j \in Of(v) : ~HoldsStaging(j, i) /\ ~HoldsFinal(j, i)
    BY HoldersAreBusy DEF Idle, Of
  <2>. QED
    BY <1>1, <2>1 DEF IInv, StorageIsHeld
<1>. QED
  BY <1>1, Invariance, PTL

(* A version is left importing only when a worker died, its job ended      *)
(* before it began or was refused, or the database refused to settle it.   *)
THEOREM ImportingIsDrivenAlways ==
  ASSUME ~SharedImports
  PROVE  Spec => []ImportingIsDriven
<1>1. IInv => ImportingIsDriven
  BY DEF IInv
<1>. QED
  BY <1>1, Invariance, PTL

(* A ready version has all its layers and tables, if moreover the          *)
(* reconciler waits until no import is under way: its reads are not        *)
(* locked (reconciliation.py).                                             *)
THEOREM ReadyIsPublishedAlways ==
  ASSUME ~SharedImports, ~ReconcileAnytime
  PROVE  Spec => []ReadyIsPublished
<1>1. IInv => ReadyIsPublished
  BY DEF IInv
<1>. QED
  BY <1>1, Invariance, PTL

-----------------------------------------------------------------------------
(* The dataset as its readers see it.                                      *)
Ready == {v \in Versions : version[v] = "READY"}

LEMMA UnseenStep ==
  ASSUME UNCHANGED <<version, dataset, revoked>>
  PROVE  UNCHANGED Contract!vars
  BY DEF Contract!vars

LEMMA ServeStep ==
  ASSUME NEW v \in Versions, ActivateReady(v)
  PROVE  Contract!Next
<1>1. /\ v \in Ready /\ dataset'.current = v /\ revoked' = FALSE
      /\ UNCHANGED Ready
  BY DEF ActivateReady, Ready
<1>2. Contract!Serve(v)
  BY <1>1 DEF Contract!Serve, Ready
<1>. QED
  BY <1>2 DEF Contract!Next

LEMMA SameReady ==
  ASSUME NEW v \in Versions, version[v] # "READY", version'[v] # "READY",
         \A w \in Versions : w # v => version'[w] = version[w]
  PROVE  UNCHANGED Ready
  BY DEF Ready

LEMMA SameReadyStep ==
  ASSUME NEW v \in Versions, version[v] # "READY", version'[v] # "READY",
         \A w \in Versions : w # v => version'[w] = version[w],
         dataset'.current = dataset.current, UNCHANGED revoked
  PROVE  UNCHANGED Contract!vars
  BY SameReady DEF Contract!vars, Ready

LEMMA PublishStep ==
  ASSUME NEW v \in Versions, version'[v] = "READY",
         \A w \in Versions : w # v => version'[w] = version[w],
         dataset'.current = dataset.current,
         revoked' = (revoked /\ v # dataset.current)
  PROVE  Contract!Next
<1>1. Ready' = Ready \union {v}
  BY DEF Ready
<1>2. Contract!Publish(v)
  BY <1>1 DEF Contract!Publish, Ready
<1>. QED
  BY <1>2 DEF Contract!Next

LEMMA WithdrawStep ==
  ASSUME NEW v \in Versions, version'[v] # "READY",
         v = dataset.current => revoked,
         \A w \in Versions : w # v => version'[w] = version[w],
         dataset'.current = dataset.current, UNCHANGED revoked
  PROVE  Contract!Next
<1>1. Ready' = Ready \ {v}
  BY DEF Ready
<1>2. Contract!Withdraw(v)
  BY <1>1 DEF Contract!Withdraw, Ready
<1>. QED
  BY <1>2 DEF Contract!Next

(* The steps of a handler that the contract sees.                          *)
LEMMA SettleStep ==
  ASSUME IInv, ~SharedImports, NEW j \in Jobs,
         MarkImportFailed(j) \/ MarkImportCancelled(j)
  PROVE  Contract!Next
<1>1. target[j] \in Versions /\ target[j] # NoVersion
  BY BusyTyped DEF MarkImportFailed, MarkImportCancelled, Busy, Handling, Typed
<1>2. target[j] = dataset.current => revoked
  BY <1>1 DEF IInv, CandidatesAreGuarded, Guarded, MarkImportFailed,
         MarkImportCancelled
<1>3. dataset'.current = dataset.current
  BY Marked DEF MarkImportFailed, MarkImportCancelled
<1>4. /\ \A w \in Versions : w # target[j] => version'[w] = version[w]
      /\ UNCHANGED revoked
  BY DEF IInv, TypeOK, MarkImportFailed, MarkImportCancelled, Withdraw
<1>5. version'[target[j]] # "READY"
  BY <1>1 DEF IInv, TypeOK, MarkImportFailed, MarkImportCancelled, Withdraw
<1>. QED
  BY <1>1, <1>2, <1>3, <1>4, <1>5, WithdrawStep

LEMMA PrepareStep ==
  ASSUME IInv, ~SharedImports, NEW j \in Jobs, PrepareImport(j)
  PROVE  UNCHANGED Contract!vars
<1>1. target[j] \in Versions
  BY BusyTyped DEF PrepareImport, Busy, Handling, Typed
<1>2. version[target[j]] # "READY"
  BY DEF IInv, CandidatesAreGuarded, Guarded, PrepareImport
<1>3. dataset'.current = dataset.current /\ UNCHANGED revoked
  BY Marked DEF PrepareImport
<1>4. /\ version'[target[j]] # "READY"
      /\ \A w \in Versions : w # target[j] => version'[w] = version[w]
  BY <1>1 DEF IInv, TypeOK, PrepareImport
<1>. QED
  BY <1>1, <1>2, <1>3, <1>4, SameReadyStep

LEMMA MarkReadyStep ==
  ASSUME IInv, NEW j \in Jobs, MarkImportReady(j)
  PROVE  Contract!Next
<1>1. target[j] \in Versions
  BY BusyTyped DEF MarkImportReady, Busy, Handling, Typed
<1>. QED
  BY <1>1, PublishStep DEF IInv, TypeOK, MarkImportReady

LEMMA RaiseStep ==
  ASSUME IInv, NEW j \in Jobs, RaiseInImport(j)
  PROVE  [Contract!Next]_Contract!vars
<1>1. target[j] # NoVersion
  BY BusyTyped DEF RaiseInImport, Busy, Handling, Typed
<1>2. /\ UNCHANGED <<version, dataset>>
      /\ revoked' = (revoked \/ target[j] = dataset.current)
  BY DEF RaiseInImport
<1>3. CASE target[j] = dataset.current
  <2>1. Contract!Revoke
    BY <1>1, <1>2, <1>3 DEF Contract!Revoke
  <2>. QED
    BY <2>1 DEF Contract!Next
<1>4. CASE target[j] # dataset.current
  <2>1. revoked' = revoked
    BY <1>2, <1>4 DEF IInv, TypeOK
  <2>. QED
    BY <1>2, <2>1, UnseenStep
<1>. QED
  BY <1>3, <1>4

LEMMA HandlerContract ==
  ASSUME IInv, ~SharedImports, NEW j \in Jobs, HandlerStep(j)
  PROVE  [Contract!Next]_Contract!vars
<1>1. CASE MarkImportFailed(j) \/ MarkImportCancelled(j)
  BY <1>1, SettleStep
<1>2. CASE PrepareImport(j)
  BY <1>2, PrepareStep
<1>3. CASE MarkImportReady(j)
  BY <1>3, MarkReadyStep
<1>4. CASE Reactivate(j) \/ ActivateImported(j)
  <2>1. target[j] \in Versions
    BY <1>4, BusyTyped
       DEF Reactivate, ActivateImported, Busy, Handling, Typed
  <2>. QED
    BY <1>4, <2>1, ServeStep DEF Reactivate, ActivateImported
<1>5. CASE RaiseInImport(j)
  BY <1>5, RaiseStep
<1>6. CASE \/ ResolveVersion(j) \/ LoadLayers(j) \/ ClearStorage(j)
           \/ Materialize(j) \/ MarkLayerImporting(j) \/ LoadStaging(j)
           \/ Promote(j) \/ MarkLayerReady(j) \/ NoticeCancellation(j)
           \/ RaiseOutside(j) \/ CleanUp(j) \/ FailToSettle(j)
           \/ HandlerReturns(j) \/ Finish(j)
  <2>1. UNCHANGED <<version, dataset, revoked>>
    BY <1>6, Zenon
       DEF ResolveVersion, LoadLayers, ClearStorage, Materialize,
           MarkLayerImporting, LoadStaging, Promote, MarkLayerReady,
           NoticeCancellation, RaiseOutside, CleanUp, FailToSettle,
           HandlerReturns, Finish, End, rowVars
  <2>. QED
    BY <2>1, UnseenStep
<1>. QED
  BY <1>1, <1>2, <1>3, <1>4, <1>5, <1>6 DEF HandlerStep

LEMMA FailStep ==
  ASSUME IInv, ~SharedImports, NEW v \in Versions, FailVersion(v)
  PROVE  [Contract!Next]_Contract!vars
<1>1. /\ v # NoVersion /\ revoked' = (revoked /\ v # dataset.current)
      /\ version[v] = "IMPORTING"
  BY DEF FailVersion, Versions, NoVersion
<1>2. UNCHANGED Ready
  BY <1>1, SameReady DEF IInv, TypeOK, FailVersion
<1>3. CASE v = dataset.current
  <2>1. revoked
    BY <1>1, <1>3 DEF IInv, CandidatesAreGuarded
  <2>2. dataset'.current = NoVersion /\ revoked' = FALSE
    BY <1>1, <1>3 DEF FailVersion
  <2>3. dataset.current \notin Ready
    BY <1>1, <1>3 DEF Ready
  <2>4. Contract!GiveUp
    BY <1>2, <2>1, <2>2, <2>3 DEF Contract!GiveUp, Ready
  <2>. QED
    BY <2>4 DEF Contract!Next
<1>4. CASE v # dataset.current
  <2>1. dataset'.current = dataset.current
    BY <1>4 DEF FailVersion
  <2>2. revoked' = revoked
    BY <1>1, <1>4 DEF IInv, TypeOK
  <2>. QED
    BY <1>2, <2>1, <2>2 DEF Contract!vars, Ready
<1>. QED
  BY <1>3, <1>4

LEMMA NextContract ==
  ASSUME IInv, ~SharedImports, [Next]_vars
  PROVE  [Contract!Next]_Contract!vars
<1>1. ASSUME NEW v \in Versions, version[v] = "ABSENT", NewVersion(v),
             UNCHANGED revoked
      PROVE  UNCHANGED Contract!vars
  BY <1>1, NewVersionEffect, SameReadyStep
<1>2. CASE Register
  BY <1>1, <1>2 DEF Register, IInv, RowsAgree
<1>3. ASSUME NEW v \in Versions, RegisterReplacement(v)
      PROVE  UNCHANGED Contract!vars
  BY <1>1, <1>3 DEF RegisterReplacement
<1>4. ASSUME NEW v \in Versions, ActivateVersion(v)
      PROVE  Contract!Next
  BY <1>4, ServeStep DEF ActivateVersion
<1>5. ASSUME NEW v \in Versions, RunImport(v)
      PROVE  UNCHANGED <<version, dataset, revoked>>
  BY <1>5 DEF RunImport, rowVars
<1>6. ASSUME NEW j \in Jobs,
             \/ Enqueue(j) \/ Cancel(j) \/ Undeliverable(j)
             \/ BeginImport(j) \/ Die(j)
      PROVE  UNCHANGED <<version, dataset, revoked>>
  BY <1>6 DEF Enqueue, Cancel, Undeliverable, BeginImport, Die, rowVars
<1>7. CASE \/ ListTables \/ ReadLayers \/ ReadJobs \/ DropReportedTable
           \/ StopReconciliation \/ UNCHANGED vars
  <2>1. UNCHANGED <<version, dataset, revoked>>
    BY <1>7 DEF ListTables, ReadLayers, ReadJobs, DropReportedTable,
           StopReconciliation, rowVars, vars
  <2>. QED
    BY <2>1, UnseenStep
<1>. QED
  BY <1>2, <1>3, <1>4, <1>5, <1>6, <1>7, UnseenStep, HandlerContract, FailStep
     DEF Next, ReconcilerStep

(* Imports, failures, cancellations, crashes, activations and the          *)
(* reconciler only ever move the dataset to a version that is ready, and   *)
(* take the one it is at away only when its own import raises after the    *)
(* activation: the rows of services.py implement the contract its readers  *)
(* rely on.                                                                *)
THEOREM ImplementsDatasetAlways ==
  ASSUME ~SharedImports
  PROVE  Spec => ImplementsDataset
<1>1. Init => Contract!Init
  BY DEF Init, Contract!Init
<1>2. IInv /\ [Next]_vars => [Contract!Next]_Contract!vars
  BY NextContract
<1>. QED
  BY <1>1, <1>2, Invariance, PTL DEF Spec, ImplementsDataset, Contract!Spec

(* Users, importers and the reconciler do nothing to a job but what        *)
(* JobContract allows, the interface that JobLedgerProofs!ContractIsKept   *)
(* shows the ledger to keep.                                               *)
THEOREM JobsKeepTheContract == Spec => Job!Spec
<1>1. Init => Job!Init
  BY DEF Init
<1>2. ASSUME [Next]_vars
      PROVE  [Job!Next]_(Job!vars)
  <2>1. CASE \/ Register
             \/ \E v \in Versions : RegisterReplacement(v) \/ RunImport(v)
    <3>1. (\E j \in Jobs : Job!Submit(j)) \/ UNCHANGED jobVars
      BY <2>1, Zenon
         DEF Register, RegisterReplacement, RunImport, NewVersion, CreateJob
    <3>. QED
      BY <3>1, Zenon DEF Job!Next, Job!vars, jobVars
  <2>2. CASE \E j \in Jobs :
               \/ Enqueue(j) \/ Cancel(j) \/ Undeliverable(j) \/ BeginImport(j)
               \/ Finish(j) \/ FailToSettle(j) \/ Die(j)
    <3>1. PICK j \in Jobs :
            \/ Job!Enqueue(j) \/ Job!Cancel(j) \/ Job!Undeliverable(j)
            \/ Job!Begin(j) \/ Job!Settle(j) \/ Job!Abandon(j)
      BY <2>2, Zenon
         DEF Enqueue, Cancel, Undeliverable, BeginImport, Finish, FailToSettle,
             End, Die
    <3>. QED
      BY <3>1, Zenon DEF Job!Next
  <2>3. CASE \E j \in Jobs : /\ HandlerStep(j)
                             /\ ~Finish(j) /\ ~FailToSettle(j)
    <3>1. UNCHANGED jobVars
      BY <2>3, Zenon
         DEF HandlerStep, ResolveVersion, Reactivate, LoadLayers, ClearStorage,
             PrepareImport, Materialize, MarkLayerImporting, LoadStaging,
             Promote, MarkLayerReady, MarkImportReady, ActivateImported,
             NoticeCancellation, RaiseInImport, RaiseOutside, CleanUp,
             MarkImportFailed, MarkImportCancelled, Withdraw, HandlerReturns
    <3>. QED
      BY <3>1 DEF jobVars, Job!vars
  <2>4. CASE \/ \E v \in Versions : ActivateVersion(v)
             \/ ReconcilerStep \/ UNCHANGED vars
    <3>1. UNCHANGED jobVars
      BY <2>4, Zenon
         DEF ActivateVersion, ReconcilerStep, ListTables, ReadLayers, ReadJobs,
             DropReportedTable, StopReconciliation, FailVersion, vars
    <3>. QED
      BY <3>1 DEF jobVars, Job!vars
  <2>. QED
    BY <1>2, <2>1, <2>2, <2>3, <2>4, Zenon DEF Next
<1>. QED
  BY <1>1, <1>2, PTL DEF Spec, Job!Spec
=============================================================================
