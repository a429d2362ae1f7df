------------------------- MODULE VectorExportProofs -------------------------
(***************************************************************************)
(* Proofs about VectorExport, for any number of exports, readers and       *)
(* creations at once, and any limit.                                       *)
(***************************************************************************)
EXTENDS VectorExport, FiniteSetTheorems, TLAPS

USE ExportAssumption

-----------------------------------------------------------------------------
(* What is counted against the limit, once every row that a late reader    *)
(* has overwritten is left out.                                            *)
Counted == (ActiveExports \union admitted) \ stale

LEMMA CountedFinite ==
  /\ IsFiniteSet(ActiveExports) /\ Cardinality(ActiveExports) \in Nat
  /\ TypeOK => /\ IsFiniteSet(admitted) /\ Cardinality(admitted) \in Nat
               /\ IsFiniteSet(Counted) /\ Cardinality(Counted) \in Nat
<1>1. \A S \in SUBSET Exports : IsFiniteSet(S) /\ Cardinality(S) \in Nat
  BY FS_Subset, FS_CardinalityType
<1>. QED
  BY <1>1 DEF ActiveExports, Counted, TypeOK

(* An export is counted once as active or as admitted. *)
LEMMA BothCounted ==
  ASSUME TypeOK
  PROVE  /\ IsFiniteSet(ActiveExports \union admitted)
         /\ Cardinality(ActiveExports \union admitted) \in Nat
         /\ Cardinality(ActiveExports \union admitted)
              <= Cardinality(ActiveExports) + Cardinality(admitted)
<1>1. /\ IsFiniteSet(ActiveExports) /\ Cardinality(ActiveExports) \in Nat
      /\ IsFiniteSet(admitted) /\ Cardinality(admitted) \in Nat
  BY CountedFinite
<1>2. /\ IsFiniteSet(ActiveExports \cap admitted)
      /\ Cardinality(ActiveExports \cap admitted) \in Nat
  BY <1>1, FS_Intersection, FS_CardinalityType
<1>3. /\ IsFiniteSet(ActiveExports \union admitted)
      /\ Cardinality(ActiveExports \union admitted)
           = Cardinality(ActiveExports) + Cardinality(admitted)
               - Cardinality(ActiveExports \cap admitted)
  BY <1>1, FS_Union
<1>. QED
  BY <1>1, <1>2, <1>3, FS_CardinalityType

(* Nothing is added to what is counted. *)
LEMMA BoundedKept ==
  ASSUME TypeOK, ActiveIsBounded,
         admitted' \subseteq admitted, stale \subseteq stale', others' = others,
         \A f \in Exports \ stale' :
           row'[f].status \in Active =>
             row[f].status \in Active \/ f \in admitted
  PROVE  ActiveIsBounded'
<1>1. Counted' \subseteq Counted
  BY DEF Counted, ActiveExports, TypeOK
<1>2. /\ IsFiniteSet(Counted) /\ Cardinality(Counted) \in Nat
      /\ Cardinality(Counted') <= Cardinality(Counted)
      /\ Cardinality(Counted') \in Nat
  BY <1>1, CountedFinite, FS_Subset, FS_CardinalityType
<1>. QED
  BY <1>2 DEF ActiveIsBounded, Counted, TypeOK

-----------------------------------------------------------------------------
(* Every action preserves the invariant.                                   *)

(* A status is written to a row. *)
LEMMA Written ==
  ASSUME TypeOK, NEW e \in Exports, NEW s \in Status,
         row' = [row EXCEPT ![e].status = s]
  PROVE  /\ row' \in [Exports -> ExportRow]
         /\ row'[e].status = s /\ row'[e].object = row[e].object
         /\ row'[e].expiry = row[e].expiry
         /\ \A f \in Exports \ {e} : row'[f] = row[f]
<1>. DEFINE new == [row[e] EXCEPT !.status = s]
<1>1. row[e] \in ExportRow
  BY DEF TypeOK
<1>2. /\ new \in ExportRow /\ new.status = s
      /\ new.object = row[e].object /\ new.expiry = row[e].expiry
  BY <1>1 DEF ExportRow
<1>3. row' = [row EXCEPT ![e] = new]
  OBVIOUS
<1>. HIDE DEF new
<1>. QED
  BY <1>2, <1>3 DEF TypeOK

(* What Synchronized makes of the status of an export that exists. *)
LEMMA SynchronizedSound ==
  ASSUME NEW status \in Status \ {"ABSENT"}, NEW object \in BOOLEAN,
         NEW expiry, NEW job,
         NEW new, new = Synchronized(status, object, expiry, job)
  PROVE  /\ new \in Status \ {"ABSENT"}
         /\ new = "EXPIRED" => status = "EXPIRED" \/ expiry = "passed"
         /\ new = "READY" => status = "READY"
         /\ status \in {"READY", "EXPIRED"} => new \in {"READY", "EXPIRED"}
         /\ new \in Active => status \in Active
<1>1. CASE status = "READY" /\ expiry = "passed"
  BY <1>1 DEF Synchronized, Status, Settled, Active
<1>2. CASE status = "PENDING" /\ job = "RUNNING"
  BY <1>2 DEF Synchronized, Status, Settled, Active
<1>3. CASE status \in Active /\ job \in {"CANCELLED", "FAILED"}
  BY <1>3 DEF Synchronized, Status, Settled, Active
<1>4. CASE status \in Active /\ job = "SUCCEEDED" /\ ~object
  BY <1>4 DEF Synchronized, Status, Settled, Active
<1>5. CASE /\ ~(status = "READY" /\ expiry = "passed")
           /\ ~(status = "PENDING" /\ job = "RUNNING")
           /\ ~(status \in Active /\ job \in {"CANCELLED", "FAILED"})
           /\ ~(status \in Active /\ job = "SUCCEEDED" /\ ~object)
  BY <1>5 DEF Synchronized
<1>. QED
  BY <1>1, <1>2, <1>3, <1>4, <1>5

ReaderLabels == {"idle", "get", "download", "cancel", "signing", "requesting",
                 "cancelled"}

(* What a reader knows after it has looked at a row and its job. *)
Knows(r, e, status, object, expiry) ==
  /\ reader' \in [Readers -> ReaderLabels] /\ seen' \in [Readers -> Snapshot]
  /\ \A q \in Readers \ {r} : reader'[q] = reader[q] /\ seen'[q] = seen[q]
  /\ seen'[r].export = NoExport <=> reader'[r] = "idle"
  /\ reader'[r] # "idle" =>
       /\ seen'[r].export = e /\ seen'[r].old = status
       /\ seen'[r].object = object /\ seen'[r].new # "ABSENT"
       /\ seen'[r].new = "EXPIRED" => status = "EXPIRED" \/ expiry = "passed"
       /\ seen'[r].new = "READY" => status = "READY"
       /\ status \in {"READY", "EXPIRED"}
            => seen'[r].new \in {"READY", "EXPIRED"}
       /\ seen'[r].new \in Active => status \in Active
       /\ reader'[r] = "signing" => object

LEMMA AfterLabels ==
  ASSUME NEW purpose \in {"get", "download", "cancel", "cancelled"},
         NEW status, NEW object \in BOOLEAN
  PROVE  /\ After(purpose, status, object) \in {"idle", "signing", "requesting"}
         /\ After(purpose, status, object) = "signing" => object
<1>1. CASE purpose = "get"
  BY <1>1 DEF After
<1>2. CASE purpose = "download"
  BY <1>2 DEF After
<1>3. CASE purpose = "cancel"
  BY <1>3 DEF After
<1>4. CASE purpose = "cancelled"
  BY <1>4 DEF After
<1>. QED
  BY <1>1, <1>2, <1>3, <1>4

LEMMA Became ==
  ASSUME TypeOK, NEW r \in Readers, NEW label \in ReaderLabels,
         NEW snapshot \in Snapshot, snapshot.export # NoExport,
         Become(r, label, snapshot)
  PROVE  /\ reader' \in [Readers -> ReaderLabels]
         /\ seen' \in [Readers -> Snapshot]
         /\ \A q \in Readers \ {r} : reader'[q] = reader[q] /\ seen'[q] = seen[q]
         /\ reader'[r] = label
         /\ label # "idle" => seen'[r] = snapshot
         /\ seen'[r].export = NoExport <=> label = "idle"
<1>1. Nothing \in Snapshot /\ Nothing.export = NoExport
  BY DEF Nothing, Snapshot, Status
<1>2. reader' \in [Readers -> ReaderLabels] /\ seen' \in [Readers -> Snapshot]
  BY <1>1 DEF Become, TypeOK, ReaderLabels
<1>. QED
  BY <1>1, <1>2 DEF Become, TypeOK

LEMMA HoldKnows ==
  ASSUME TypeOK, NEW r \in Readers, NEW e \in Exports,
         NEW purpose \in {"get", "download", "cancel", "cancelled"},
         NEW status \in Status \ {"ABSENT"}, NEW object \in BOOLEAN,
         NEW expiry, NEW job, Hold(r, e, purpose, status, object, expiry, job)
  PROVE  Knows(r, e, status, object, expiry)
<1>. DEFINE new == Synchronized(status, object, expiry, job)
            label == IF new # status THEN purpose
                     ELSE After(purpose, status, object)
            snapshot == [export |-> e, old |-> status, new |-> new,
                         object |-> object]
<1>1. /\ new \in Status \ {"ABSENT"}
      /\ new = "EXPIRED" => status = "EXPIRED" \/ expiry = "passed"
      /\ new = "READY" => status = "READY"
      /\ status \in {"READY", "EXPIRED"} => new \in {"READY", "EXPIRED"}
      /\ new \in Active => status \in Active
  BY SynchronizedSound
<1>2. Become(r, label, snapshot)
  BY DEF Hold
<1>. HIDE DEF new
<1>3. label \in ReaderLabels /\ (label = "signing" => object)
  BY AfterLabels DEF ReaderLabels
<1>4. snapshot \in Snapshot /\ snapshot.export # NoExport
  BY <1>1 DEF Snapshot
<1>. HIDE DEF label
<1>5. /\ reader' \in [Readers -> ReaderLabels]
      /\ seen' \in [Readers -> Snapshot]
      /\ \A q \in Readers \ {r} : reader'[q] = reader[q] /\ seen'[q] = seen[q]
      /\ reader'[r] = label
      /\ label # "idle" => seen'[r] = snapshot
      /\ seen'[r].export = NoExport <=> label = "idle"
  BY <1>2, <1>3, <1>4, Became
<1>. QED
  BY <1>1, <1>3, <1>5 DEF Knows

(* One export more is being created. *)
LEMMA CountedAfterOne ==
  ASSUME TypeOK, NEW e \in Exports, UNCHANGED <<row, stale>>,
         admitted' = admitted \union {e}
  PROVE  /\ Cardinality(Counted') \in Nat
         /\ Cardinality(Counted')
              <= Cardinality(ActiveExports) + Cardinality(admitted) + 1
<1>. DEFINE both == ActiveExports \union admitted
<1>1. /\ IsFiniteSet(both)
      /\ Cardinality(both) \in Nat
      /\ Cardinality(both) <= Cardinality(ActiveExports) + Cardinality(admitted)
  BY BothCounted
<1>2. /\ IsFiniteSet(both \union {e})
      /\ Cardinality(both \union {e}) \in {Cardinality(both), Cardinality(both) + 1}
  BY <1>1, FS_AddElement
<1>3. Counted' \subseteq both \union {e}
  BY DEF Counted, ActiveExports
<1>4. /\ Cardinality(Counted') <= Cardinality(both \union {e})
      /\ Cardinality(Counted') \in Nat
  BY <1>2, <1>3, FS_Subset, FS_CardinalityType
<1>. HIDE DEF both
<1>. QED
  BY <1>1, <1>2, <1>4, CountedFinite

(* No export is added to the counted ones, and one creation at most to the *)
(* others, while the limit is not reached.                                 *)
LEMMA OthersBounded ==
  ASSUME TypeOK, ActiveIsBounded, UNCHANGED <<row, stale, admitted>>,
         others' \in [creating : Nat, active : Nat],
         \/ others'.creating + others'.active <= others.creating + others.active
         \/ /\ LimitPassed
            /\ others'.creating + others'.active
                 = others.creating + others.active + 1
  PROVE  ActiveIsBounded'
<1>1. Counted' = Counted
  BY DEF Counted, ActiveExports
<1>2. /\ Cardinality(Counted) \in Nat /\ Cardinality(ActiveExports) \in Nat
      /\ Cardinality(admitted) \in Nat
      /\ others.creating \in Nat /\ others.active \in Nat
      /\ others'.creating \in Nat /\ others'.active \in Nat
  BY CountedFinite DEF TypeOK
<1>3. Cardinality(Counted) <= Cardinality(ActiveExports) + Cardinality(admitted)
  <2>. DEFINE both == ActiveExports \union admitted
  <2>1. /\ IsFiniteSet(both)
        /\ Cardinality(both) <= Cardinality(ActiveExports) + Cardinality(admitted)
    BY BothCounted
  <2>2. Cardinality(Counted) <= Cardinality(both) /\ Cardinality(both) \in Nat
    BY <2>1, FS_Subset, FS_CardinalityType DEF Counted
  <2>. HIDE DEF both
  <2>. QED
    BY <1>2, <2>1, <2>2
<1>4. MaxActive \in Nat /\ Requests \in Nat
  OBVIOUS
<1>5. LimitPassed => /\ Cardinality(admitted) + others.creating < Requests
                     /\ Cardinality(ActiveExports) + others.active < MaxActive
  BY DEF LimitPassed, CreationsUnderWay, ActiveCount
<1>6. Cardinality(Counted) + others.creating + others.active
        <= MaxActive + Requests - 1
  BY DEF ActiveIsBounded, Counted
<1>7. Cardinality(Counted') + others'.creating + others'.active
        <= MaxActive + Requests - 1
  BY <1>1, <1>2, <1>3, <1>4, <1>5, <1>6
<1>. QED
  BY <1>7 DEF ActiveIsBounded, Counted

LEMMA CountActiveIInv ==
  ASSUME IInv, NEW e \in Exports, CountActive(e)
  PROVE  IInv'
<1>. USE DEF CountActive, Go, jobVars, creations, handlerVars, readerVars,
            purgeVars, ghostVars, LimitPassed
<1>1. TypeOK'
  BY DEF IInv, TypeOK, ExportRow, Status, Labels, Handling, Terminal, Active,
         Settled, Existing
<1>2. ASSUME NEW f \in Exports PROVE Timed(f)'
  BY DEF IInv, TypeOK, ExportRow, Timed, Accounted
<1>3. ASSUME NEW f \in Exports PROVE Accounted(f)'
  BY DEF IInv, TypeOK, ExportRow, Timed, Accounted
<1>4. ASSUME NEW f \in Exports PROVE Existing(f)'
  BY DEF IInv, TypeOK, ExportRow, Existing, Absent
<1>5. ASSUME NEW q \in Readers PROVE Informed(q)'
  BY DEF IInv, TypeOK, ExportRow, Informed, Snapshot
<1>6. ActiveIsBounded'
  <2>1. /\ Cardinality(admitted) + others.creating < Requests
        /\ Cardinality(ActiveExports) + others.active < MaxActive
        /\ Cardinality(admitted) \in Nat /\ Cardinality(ActiveExports) \in Nat
        /\ others.creating \in Nat /\ others.active \in Nat
    BY CountedFinite DEF CreationsUnderWay, ActiveCount, IInv, TypeOK
  <2>2. /\ Cardinality(Counted') \in Nat
        /\ Cardinality(Counted')
             <= Cardinality(ActiveExports) + Cardinality(admitted) + 1
    BY CountedAfterOne DEF IInv
  <2>. QED
    BY <2>1, <2>2 DEF ActiveIsBounded, Counted
<1>. QED
  BY <1>1, <1>2, <1>3, <1>4, <1>5, <1>6 DEF IInv

LEMMA OtherExportsIInv ==
  ASSUME IInv, OtherExports
  PROVE  IInv'
<1>. USE DEF OtherExports, Go, jobVars, creations, handlerVars, readerVars,
            purgeVars, ghostVars
<1>0. /\ others' \in [creating : Nat, active : Nat]
      /\ \/ others'.creating + others'.active
              <= others.creating + others.active
         \/ /\ LimitPassed
            /\ others'.creating + others'.active
                 = others.creating + others.active + 1
  <2>0. others.creating \in Nat /\ others.active \in Nat
        /\ others = [creating |-> others.creating, active |-> others.active]
    BY DEF IInv, TypeOK
  <2>1. CASE LimitPassed /\ others' = [others EXCEPT !.creating = @ + 1]
    <3>1. others' = [creating |-> others.creating + 1, active |-> others.active]
      BY <2>0, <2>1
    <3>. QED
      BY <2>0, <2>1, <3>1
  <2>2. CASE /\ others.creating > 0
             /\ \E inserted \in {0, 1} :
                  others' = [creating |-> others.creating - 1,
                             active   |-> others.active + inserted]
    BY <2>0, <2>2
  <2>3. CASE others.active > 0 /\ others' = [others EXCEPT !.active = @ - 1]
    <3>1. others' = [creating |-> others.creating, active |-> others.active - 1]
      BY <2>0, <2>3
    <3>. QED
      BY <2>0, <2>3, <3>1
  <2>. QED
    BY <2>1, <2>2, <2>3
<1>1. TypeOK'
  BY <1>0 DEF IInv, TypeOK, Handling
<1>2. ASSUME NEW f \in Exports PROVE Timed(f)'
  BY DEF IInv, TypeOK, ExportRow, Timed, Accounted
<1>3. ASSUME NEW f \in Exports PROVE Accounted(f)'
  BY DEF IInv, TypeOK, ExportRow, Timed, Accounted
<1>4. ASSUME NEW f \in Exports PROVE Existing(f)'
  BY DEF IInv, TypeOK, ExportRow, Existing
<1>5. ASSUME NEW q \in Readers PROVE Informed(q)'
  BY DEF IInv, TypeOK, ExportRow, Informed, Snapshot
<1>6. ActiveIsBounded'
  BY <1>0, OthersBounded DEF IInv
<1>. QED
  BY <1>1, <1>2, <1>3, <1>4, <1>5, <1>6 DEF IInv

LEMMA CreateVectorExportIInv ==
  ASSUME IInv, NEW e \in Exports, CreateVectorExport(e)
  PROVE  IInv'
<1>. USE DEF CreateVectorExport, Go, jobVars, creations, handlerVars,
            readerVars, purgeVars, ghostVars, Job!Submit, Job!Move
<1>0. \/ /\ row' \in [Exports -> ExportRow]
         /\ row'[e].status = "PENDING"
         /\ row'[e].object = row[e].object /\ row'[e].expiry = row[e].expiry
         /\ \A f \in Exports \ {e} : row'[f] = row[f]
         /\ jobStatus[e] = "ABSENT"
         /\ jobStatus' = [jobStatus EXCEPT ![e] = "PENDING"]
         /\ UNCHANGED <<cancel, owned>>
      \/ UNCHANGED <<row, jobVars>>
  <2>1. CASE row' = [row EXCEPT ![e].status = "PENDING"] /\ Job!Submit(e)
    <3>1. "PENDING" \in Status
      BY DEF Status, Active
    <3>. QED
      BY <2>1, <3>1, Written DEF IInv
  <2>. QED
    BY <2>1
<1>01. /\ e \in admitted /\ admitted' = admitted \ {e}
       /\ UNCHANGED <<store, accessible, others, handlerVars, readerVars, links,
                      purgeVars, ghostVars>>
  OBVIOUS
<1>. HIDE DEF CreateVectorExport
<1>1. TypeOK'
  BY <1>0, <1>01 DEF IInv, TypeOK, Handling
<1>2. ASSUME NEW f \in Exports PROVE Timed(f)'
  BY <1>0, <1>01 DEF IInv, TypeOK, Timed
<1>3. ASSUME NEW f \in Exports PROVE Accounted(f)'
  BY <1>0, <1>01 DEF IInv, TypeOK, Accounted, Timed, Existing
<1>4. ASSUME NEW f \in Exports PROVE Existing(f)'
  BY <1>0, <1>01 DEF IInv, TypeOK, Existing
<1>5. ASSUME NEW q \in Readers PROVE Informed(q)'
  BY <1>0, <1>01 DEF IInv, TypeOK, Informed, Snapshot
<1>6. ActiveIsBounded'
  BY <1>0, <1>01, BoundedKept DEF IInv
<1>. QED
  BY <1>1, <1>2, <1>3, <1>4, <1>5, <1>6 DEF IInv

LEMMA ExpireIInv ==
  ASSUME IInv, NEW e \in Exports, Expire(e)
  PROVE  IInv'
<1>. USE DEF Expire, Go, jobVars, creations, handlerVars, readerVars,
            purgeVars, ghostVars
<1>1. TypeOK'
  BY DEF IInv, TypeOK, ExportRow, Status, Labels, Handling, Terminal, Active,
         Settled, Existing
<1>2. ASSUME NEW f \in Exports PROVE Timed(f)'
  BY DEF IInv, TypeOK, ExportRow, Timed, Accounted
<1>3. ASSUME NEW f \in Exports PROVE Accounted(f)'
  BY DEF IInv, TypeOK, ExportRow, Timed, Accounted
<1>4. ASSUME NEW f \in Exports PROVE Existing(f)'
  BY DEF IInv, TypeOK, ExportRow, Existing
<1>5. ASSUME NEW q \in Readers PROVE Informed(q)'
  BY DEF IInv, TypeOK, ExportRow, Informed, Snapshot
<1>6. ActiveIsBounded'
  BY BoundedKept DEF IInv, TypeOK, Active, ExportRow, Informed, Snapshot
<1>. QED
  BY <1>1, <1>2, <1>3, <1>4, <1>5, <1>6 DEF IInv

LEMMA ReadIInv ==
  ASSUME IInv, NEW r \in Readers, NEW e \in Exports,
         NEW purpose \in {"get", "download", "cancel"}, Read(r, e, purpose)
  PROVE  IInv'
<1>. USE DEF Read, Go, jobVars, creations, handlerVars, readerVars,
            purgeVars, ghostVars
<1>01. UNCHANGED <<row, store, accessible, creations, jobVars, handlerVars,
                   links, purgeVars, ghostVars>>
  BY DEF Read
<1>02. row[e].status # "ABSENT"
  <2>1. pc[e] = "none" => row[e].expiry = "none" /\ ~row[e].object
    BY DEF IInv, Timed, TypeOK, ExportRow
  <2>2. row[e].status = "ABSENT" => pc[e] = "none"
    BY DEF IInv, TypeOK, Existing
  <2>3. row[e] \in ExportRow /\ row[e] # Absent
    BY DEF Read, IInv, TypeOK
  <2>. QED
    BY <2>1, <2>2, <2>3 DEF ExportRow, Absent
<1>0. Knows(r, e, row[e].status, row[e].object, row[e].expiry)
  <2>1. row[e].status \in Status \ {"ABSENT"} /\ row[e].object \in BOOLEAN
    BY <1>02 DEF IInv, TypeOK, ExportRow
  <2>2. /\ Hold(r, e, purpose, row[e].status, row[e].object, row[e].expiry,
                jobStatus[e])
        /\ purpose \in {"get", "download", "cancel", "cancelled"}
    BY DEF Read
  <2>. QED
    BY <2>1, <2>2, HoldKnows DEF IInv
<1>. HIDE DEF Read
<1>1. TypeOK'
  <2>1. /\ reader' \in [Readers -> {"idle", "get", "download", "cancel", "signing",
                                "requesting", "cancelled"}]
        /\ seen' \in [Readers -> Snapshot]
        /\ \A q \in Readers : seen'[q].export = NoExport <=> reader'[q] = "idle"
    BY <1>0 DEF IInv, TypeOK, Knows, ReaderLabels
  <2>. QED
    BY <2>1, <1>01 DEF IInv, TypeOK, Handling
<1>2. ASSUME NEW f \in Exports PROVE Timed(f)'
  BY <1>01 DEF IInv, TypeOK, Timed
<1>3. ASSUME NEW f \in Exports PROVE Accounted(f)'
  BY <1>01 DEF IInv, TypeOK, Accounted, Timed
<1>4. ASSUME NEW f \in Exports PROVE Existing(f)'
  BY <1>01 DEF IInv, TypeOK, Existing
<1>5. ASSUME NEW q \in Readers PROVE Informed(q)'
  BY <1>0, <1>01, <1>02 DEF IInv, TypeOK, ExportRow, Informed, Knows, Timed
<1>6. ActiveIsBounded'
  BY <1>01, BoundedKept DEF IInv
<1>. QED
  BY <1>1, <1>2, <1>3, <1>4, <1>5, <1>6 DEF IInv

LEMMA SynchronizeExportStatusIInv ==
  ASSUME IInv, NEW r \in Readers, SynchronizeExportStatus(r)
  PROVE  IInv'
<1>. USE DEF SynchronizeExportStatus, Go, jobVars, creations, handlerVars,
            readerVars, purgeVars, ghostVars, SaveStatus, Become, After,
            Nothing
<1>. DEFINE e == seen[r].export
            n == seen[r].new
            label == After(reader[r], n, seen[r].object)
            snapshot == [seen[r] EXCEPT !.old = n]
<1>01. /\ reader[r] \in {"get", "download", "cancel", "cancelled"}
       /\ SaveStatus(e, n, seen[r].old)
       /\ Become(r, label, snapshot)
       /\ UNCHANGED <<store, accessible, creations, jobVars, handlerVars, links,
                      purgeVars, revoked, leaks>>
  BY DEF SynchronizeExportStatus
<1>02. /\ e \in Exports /\ n \in Status \ {"ABSENT"}
       /\ seen[r] \in Snapshot /\ seen[r].object \in BOOLEAN
  BY <1>01 DEF IInv, TypeOK, Informed, Snapshot
<1>. HIDE DEF SynchronizeExportStatus, e, n
<1>0. /\ row' \in [Exports -> ExportRow]
      /\ row'[e].status = n /\ row'[e].object = row[e].object
      /\ row'[e].expiry = row[e].expiry
      /\ \A f \in Exports \ {e} : row'[f] = row[f]
      /\ stale \subseteq stale' /\ stale' \subseteq stale \union {e}
      /\ e \notin stale' => row[e].status \in {n, seen[r].old}
  <2>1. /\ row' = [row EXCEPT ![e].status = n]
        /\ stale' = IF row[e].status \in {n, seen[r].old}
                      THEN stale ELSE stale \union {e}
    BY <1>01 DEF SaveStatus
  <2>. QED
    BY <2>1, <1>02, Written DEF IInv
<1>03. /\ snapshot \in Snapshot /\ snapshot.export = e /\ snapshot.old = n
       /\ snapshot.new = n /\ snapshot.object = seen[r].object
  BY <1>02 DEF Snapshot, e, n
<1>04. label \in ReaderLabels /\ (label = "signing" => seen[r].object)
  BY <1>01, <1>02, AfterLabels DEF ReaderLabels
<1>. HIDE DEF label, snapshot
<1>05. /\ reader' \in [Readers -> ReaderLabels]
       /\ seen' \in [Readers -> Snapshot]
       /\ \A q \in Readers \ {r} : reader'[q] = reader[q] /\ seen'[q] = seen[q]
       /\ reader'[r] = label
       /\ label # "idle" => seen'[r] = snapshot
       /\ seen'[r].export = NoExport <=> label = "idle"
  BY <1>01, <1>02, <1>03, <1>04, Became DEF IInv
<1>06. /\ row[e].status # "ABSENT"
       /\ n = "READY" => row[e].expiry # "none"
       /\ n = "EXPIRED" => row[e].expiry = "passed"
       /\ seen[r].old \in {"READY", "EXPIRED"} => n \in {"READY", "EXPIRED"}
       /\ n \in Active => seen[r].old \in Active
       /\ seen[r].object => row[e].expiry # "none"
  BY <1>01 DEF IInv, Informed, e, n
<1>1. TypeOK'
  <2>1. /\ reader' \in [Readers -> {"idle", "get", "download", "cancel", "signing",
                                "requesting", "cancelled"}]
        /\ seen' \in [Readers -> Snapshot]
        /\ \A q \in Readers : seen'[q].export = NoExport <=> reader'[q] = "idle"
    BY <1>05 DEF IInv, TypeOK, ReaderLabels
  <2>2. \A f \in Exports : row'[f].status = "ABSENT" <=> row[f].status = "ABSENT"
    BY <1>0, <1>02, <1>06
  <2>3. stale' \subseteq Exports
    BY <1>0, <1>02 DEF IInv, TypeOK
  <2>. QED
    BY <1>0, <1>01, <2>1, <2>2, <2>3 DEF IInv, TypeOK, Handling
<1>2. ASSUME NEW f \in Exports PROVE Timed(f)'
  BY <1>0, <1>01, <1>02, <1>06 DEF IInv, TypeOK, Timed
<1>3. ASSUME NEW f \in Exports PROVE Accounted(f)'
  BY <1>0, <1>01, <1>02, <1>06 DEF IInv, TypeOK, Accounted, Timed
<1>4. ASSUME NEW f \in Exports PROVE Existing(f)'
  BY <1>0, <1>01, <1>02, <1>06 DEF IInv, TypeOK, Existing
<1>5. ASSUME NEW q \in Readers PROVE Informed(q)'
  <2>1. CASE q = r
    BY <2>1, <1>0, <1>02, <1>03, <1>04, <1>05, <1>06 DEF Informed
  <2>2. CASE q # r
    BY <2>2, <1>0, <1>02, <1>05, <1>06 DEF IInv, Informed, TypeOK, Snapshot
  <2>. QED
    BY <2>1, <2>2
<1>6. ActiveIsBounded'
  BY <1>0, <1>01, <1>02, <1>06, BoundedKept DEF IInv
<1>. QED
  BY <1>1, <1>2, <1>3, <1>4, <1>5, <1>6 DEF IInv

LEMMA CreateDownloadGrantIInv ==
  ASSUME IInv, NEW r \in Readers, CreateDownloadGrant(r)
  PROVE  IInv'
<1>. USE DEF CreateDownloadGrant, Go, jobVars, creations, handlerVars,
            readerVars, purgeVars, ghostVars, SaveStatus, Become, Nothing
<1>. DEFINE e == seen[r].export
<1>01. /\ reader[r] = "signing"
       /\ Become(r, "idle", Nothing)
       /\ IF row[e].expiry = "passed"
            THEN SaveStatus(e, "EXPIRED", "READY") /\ UNCHANGED links
            ELSE links' = links \union {e} /\ UNCHANGED <<row, stale>>
       /\ UNCHANGED <<store, accessible, creations, jobVars, handlerVars,
                      purgeVars, revoked, leaks>>
  BY DEF CreateDownloadGrant
<1>02. /\ e \in Exports /\ row[e].status # "ABSENT" /\ row[e].expiry # "none"
  BY <1>01 DEF IInv, TypeOK, Informed, Snapshot
<1>. HIDE DEF CreateDownloadGrant, e
<1>03. /\ row' \in [Exports -> ExportRow]
       /\ row'[e].status # "ABSENT" /\ row'[e].object = row[e].object
       /\ row'[e].expiry = row[e].expiry
       /\ \A f \in Exports \ {e} : row'[f] = row[f]
       /\ stale \subseteq stale' /\ stale' \subseteq stale \union {e}
       /\ \/ /\ row'[e].status = "EXPIRED" /\ row[e].expiry = "passed"
             /\ e \notin stale' => row[e].status \in {"READY", "EXPIRED"}
             /\ UNCHANGED links
          \/ /\ row'[e] = row[e] /\ row[e].expiry = "ahead"
             /\ links' = links \union {e} /\ UNCHANGED <<row, stale>>
  <2>1. CASE row[e].expiry = "passed"
    <3>1. "EXPIRED" \in Status
      BY DEF Status, Settled
    <3>2. /\ row' = [row EXCEPT ![e].status = "EXPIRED"] /\ UNCHANGED links
          /\ stale' = IF row[e].status \in {"EXPIRED", "READY"}
                        THEN stale ELSE stale \union {e}
      BY <1>01, <2>1 DEF SaveStatus
    <3>. QED
      BY <2>1, <3>1, <3>2, <1>02, Written DEF IInv
  <2>2. CASE row[e].expiry # "passed"
    BY <2>2, <1>01, <1>02 DEF IInv, TypeOK, ExportRow
  <2>. QED
    BY <2>1, <2>2
<1>04. /\ Nothing \in Snapshot /\ Nothing.export = NoExport
  BY DEF Nothing, Snapshot, Status
<1>05. /\ reader' = [reader EXCEPT ![r] = "idle"]
       /\ seen' = [seen EXCEPT ![r] = Nothing]
  BY <1>01 DEF Become
<1>1. TypeOK'
  <2>1. /\ reader' \in [Readers -> {"idle", "get", "download", "cancel", "signing",
                                "requesting", "cancelled"}]
        /\ seen' \in [Readers -> Snapshot]
        /\ \A q \in Readers : seen'[q].export = NoExport <=> reader'[q] = "idle"
    BY <1>04, <1>05 DEF IInv, TypeOK
  <2>2. \A f \in Exports : row'[f].status = "ABSENT" <=> row[f].status = "ABSENT"
    BY <1>02, <1>03
  <2>3. stale' \subseteq Exports /\ links' \subseteq Exports
    BY <1>02, <1>03 DEF IInv, TypeOK
  <2>. QED
    BY <1>01, <1>03, <2>1, <2>2, <2>3 DEF IInv, TypeOK, Handling
<1>2. ASSUME NEW f \in Exports PROVE Timed(f)'
  BY <1>01, <1>02, <1>03 DEF IInv, TypeOK, Timed
<1>3. ASSUME NEW f \in Exports PROVE Accounted(f)'
  BY <1>01, <1>02, <1>03 DEF IInv, TypeOK, Accounted, Timed
<1>4. ASSUME NEW f \in Exports PROVE Existing(f)'
  BY <1>01, <1>02, <1>03 DEF IInv, TypeOK, Existing
<1>5. ASSUME NEW q \in Readers PROVE Informed(q)'
  BY <1>01, <1>02, <1>03, <1>05 DEF IInv, TypeOK, Informed, Snapshot
<1>6. ActiveIsBounded'
  BY <1>01, <1>02, <1>03, BoundedKept DEF IInv, Active
<1>. QED
  BY <1>1, <1>2, <1>3, <1>4, <1>5, <1>6 DEF IInv

LEMMA RequestCancellationIInv ==
  ASSUME IInv, NEW r \in Readers, RequestCancellation(r)
  PROVE  IInv'
<1>. USE DEF RequestCancellation, Go, jobVars, creations, handlerVars,
            readerVars, purgeVars, ghostVars, Job!Cancel, Job!Move,
            Job!Waiting
<1>. DEFINE e == seen[r].export
<1>01. /\ reader[r] = "requesting"
       /\ IF jobStatus[e] \in Terminal THEN UNCHANGED jobVars ELSE Job!Cancel(e)
       /\ Hold(r, e, "cancelled", seen[r].new, seen[r].object, row[e].expiry,
               jobStatus'[e])
       /\ UNCHANGED <<row, store, accessible, creations, handlerVars, links,
                      purgeVars, ghostVars>>
  BY DEF RequestCancellation
<1>02. /\ e \in Exports /\ row[e].status # "ABSENT"
       /\ seen[r].new \in Status \ {"ABSENT"} /\ seen[r].object \in BOOLEAN
       /\ seen[r].object \/ seen[r].new = "READY" => row[e].expiry # "none"
       /\ seen[r].new = "EXPIRED" => row[e].expiry = "passed"
  BY <1>01 DEF IInv, TypeOK, Informed, Snapshot
<1>. HIDE DEF RequestCancellation, e
<1>03. Knows(r, e, seen[r].new, seen[r].object, row[e].expiry)
  BY <1>01, <1>02, HoldKnows DEF IInv
<1>04. \/ UNCHANGED jobVars
       \/ /\ cancel' = [cancel EXCEPT ![e] = TRUE] /\ UNCHANGED owned
          /\ \/ jobStatus' = [jobStatus EXCEPT ![e] = "CANCELLED"]
             \/ UNCHANGED jobStatus
  BY <1>01
<1>1. TypeOK'
  <2>1. /\ reader' \in [Readers -> {"idle", "get", "download", "cancel", "signing",
                                "requesting", "cancelled"}]
        /\ seen' \in [Readers -> Snapshot]
        /\ \A q \in Readers : seen'[q].export = NoExport <=> reader'[q] = "idle"
    BY <1>03 DEF IInv, TypeOK, Knows, ReaderLabels
  <2>2. /\ jobStatus' \in [Exports -> Terminal \union {"ABSENT", "PENDING",
                                       "QUEUED", "RUNNING", "RETRYING"}]
        /\ cancel' \in [Exports -> BOOLEAN] /\ owned' = owned
    <3>1. CASE UNCHANGED jobVars
      BY <3>1 DEF IInv, TypeOK
    <3>2. CASE cancel' = [cancel EXCEPT ![e] = TRUE] /\ UNCHANGED owned
      BY <3>2, <1>02, <1>04 DEF IInv, TypeOK, Terminal
    <3>. QED
      BY <1>04, <3>1, <3>2
  <2>3. \A f \in Exports : row[f].status = "ABSENT" <=> jobStatus'[f] = "ABSENT"
    BY <1>02, <1>04 DEF IInv, TypeOK
  <2>. QED
    BY <1>01, <2>1, <2>2, <2>3 DEF IInv, TypeOK, Handling
<1>2. ASSUME NEW f \in Exports PROVE Timed(f)'
  BY <1>01 DEF IInv, Timed
<1>3. ASSUME NEW f \in Exports PROVE Accounted(f)'
  BY <1>01 DEF IInv, Accounted
<1>4. ASSUME NEW f \in Exports PROVE Existing(f)'
  BY <1>01, <1>02, <1>04 DEF IInv, TypeOK, Existing
<1>5. ASSUME NEW q \in Readers PROVE Informed(q)'
  BY <1>01, <1>02, <1>03 DEF IInv, TypeOK, Informed, Knows
<1>6. ActiveIsBounded'
  BY <1>01, BoundedKept DEF IInv
<1>. QED
  BY <1>1, <1>2, <1>3, <1>4, <1>5, <1>6 DEF IInv

LEMMA ReplaceLayerIInv ==
  ASSUME IInv, ReplaceLayer
  PROVE  IInv'
<1>. USE DEF ReplaceLayer, Go, jobVars, creations, handlerVars, readerVars,
            purgeVars, ghostVars
<1>1. TypeOK'
  BY DEF IInv, TypeOK, ExportRow, Status, Labels, Handling, Terminal, Active,
         Settled, Existing
<1>2. ASSUME NEW f \in Exports PROVE Timed(f)'
  BY DEF IInv, TypeOK, ExportRow, Timed, Accounted
<1>3. ASSUME NEW f \in Exports PROVE Accounted(f)'
  BY DEF IInv, TypeOK, ExportRow, Timed, Accounted
<1>4. ASSUME NEW f \in Exports PROVE Existing(f)'
  BY DEF IInv, TypeOK, ExportRow, Existing
<1>5. ASSUME NEW q \in Readers PROVE Informed(q)'
  BY DEF IInv, TypeOK, ExportRow, Informed, Snapshot
<1>6. ActiveIsBounded'
  BY BoundedKept DEF IInv, TypeOK, Active, ExportRow, Informed, Snapshot
<1>. QED
  BY <1>1, <1>2, <1>3, <1>4, <1>5, <1>6 DEF IInv

LEMMA EnqueueIInv ==
  ASSUME IInv, NEW e \in Exports, Enqueue(e)
  PROVE  IInv'
<1>. USE DEF Enqueue, Go, jobVars, creations, handlerVars, readerVars,
            purgeVars, ghostVars, OutsideVars, Job!Enqueue, Job!Move
<1>1. TypeOK'
  BY DEF IInv, TypeOK, ExportRow, Status, Labels, Handling, Terminal, Active,
         Settled, Existing
<1>2. ASSUME NEW f \in Exports PROVE Timed(f)'
  BY DEF IInv, TypeOK, ExportRow, Timed, Accounted
<1>3. ASSUME NEW f \in Exports PROVE Accounted(f)'
  BY DEF IInv, TypeOK, ExportRow, Timed, Accounted
<1>4. ASSUME NEW f \in Exports PROVE Existing(f)'
  BY DEF IInv, TypeOK, ExportRow, Existing
<1>5. ASSUME NEW q \in Readers PROVE Informed(q)'
  BY DEF IInv, TypeOK, ExportRow, Informed, Snapshot
<1>6. ActiveIsBounded'
  BY BoundedKept DEF IInv, TypeOK, Active, ExportRow, Informed, Snapshot
<1>. QED
  BY <1>1, <1>2, <1>3, <1>4, <1>5, <1>6 DEF IInv

LEMMA CancelJobIInv ==
  ASSUME IInv, NEW e \in Exports, CancelJob(e)
  PROVE  IInv'
<1>. USE DEF CancelJob, Go, jobVars, creations, handlerVars, readerVars,
            purgeVars, ghostVars, OutsideVars, Job!Cancel, Job!Move,
            Job!Waiting
<1>1. TypeOK'
  BY DEF IInv, TypeOK, ExportRow, Status, Labels, Handling, Terminal, Active,
         Settled, Existing
<1>2. ASSUME NEW f \in Exports PROVE Timed(f)'
  BY DEF IInv, TypeOK, ExportRow, Timed, Accounted
<1>3. ASSUME NEW f \in Exports PROVE Accounted(f)'
  BY DEF IInv, TypeOK, ExportRow, Timed, Accounted
<1>4. ASSUME NEW f \in Exports PROVE Existing(f)'
  BY DEF IInv, TypeOK, ExportRow, Existing
<1>5. ASSUME NEW q \in Readers PROVE Informed(q)'
  BY DEF IInv, TypeOK, ExportRow, Informed, Snapshot
<1>6. ActiveIsBounded'
  BY BoundedKept DEF IInv, TypeOK, Active, ExportRow, Informed, Snapshot
<1>. QED
  BY <1>1, <1>2, <1>3, <1>4, <1>5, <1>6 DEF IInv

LEMMA UndeliverableIInv ==
  ASSUME IInv, NEW e \in Exports, Undeliverable(e)
  PROVE  IInv'
<1>. USE DEF Undeliverable, Go, jobVars, creations, handlerVars, readerVars,
            purgeVars, ghostVars, OutsideVars, Job!Undeliverable, Job!Move
<1>1. TypeOK'
  BY DEF IInv, TypeOK, ExportRow, Status, Labels, Handling, Terminal, Active,
         Settled, Existing
<1>2. ASSUME NEW f \in Exports PROVE Timed(f)'
  BY DEF IInv, TypeOK, ExportRow, Timed, Accounted
<1>3. ASSUME NEW f \in Exports PROVE Accounted(f)'
  BY DEF IInv, TypeOK, ExportRow, Timed, Accounted
<1>4. ASSUME NEW f \in Exports PROVE Existing(f)'
  BY DEF IInv, TypeOK, ExportRow, Existing
<1>5. ASSUME NEW q \in Readers PROVE Informed(q)'
  BY DEF IInv, TypeOK, ExportRow, Informed, Snapshot
<1>6. ActiveIsBounded'
  BY BoundedKept DEF IInv, TypeOK, Active, ExportRow, Informed, Snapshot
<1>. QED
  BY <1>1, <1>2, <1>3, <1>4, <1>5, <1>6 DEF IInv

LEMMA BeginExportIInv ==
  ASSUME IInv, NEW e \in Exports, BeginExport(e)
  PROVE  IInv'
<1>. USE DEF BeginExport, Go, jobVars, creations, handlerVars, readerVars,
            purgeVars, ghostVars, AroundHandler, Job!Begin, Job!Move
<1>1. TypeOK'
  BY DEF IInv, TypeOK, ExportRow, Status, Labels, Handling, Terminal, Active,
         Settled, Existing
<1>2. ASSUME NEW f \in Exports PROVE Timed(f)'
  BY DEF IInv, TypeOK, ExportRow, Timed, Accounted
<1>3. ASSUME NEW f \in Exports PROVE Accounted(f)'
  BY DEF IInv, TypeOK, ExportRow, Timed, Accounted
<1>4. ASSUME NEW f \in Exports PROVE Existing(f)'
  BY DEF IInv, TypeOK, ExportRow, Existing
<1>5. ASSUME NEW q \in Readers PROVE Informed(q)'
  BY DEF IInv, TypeOK, ExportRow, Informed, Snapshot
<1>6. ActiveIsBounded'
  BY BoundedKept DEF IInv, TypeOK, Active, ExportRow, Informed, Snapshot
<1>. QED
  BY <1>1, <1>2, <1>3, <1>4, <1>5, <1>6 DEF IInv

LEMMA ResolveExportIInv ==
  ASSUME IInv, NEW e \in Exports, ResolveExport(e)
  PROVE  IInv'
<1>. USE DEF ResolveExport, Go, jobVars, creations, handlerVars, readerVars,
            purgeVars, ghostVars, AroundHandler
<1>1. TypeOK'
  BY DEF IInv, TypeOK, ExportRow, Status, Labels, Handling, Terminal, Active,
         Settled, Existing
<1>2. ASSUME NEW f \in Exports PROVE Timed(f)'
  BY DEF IInv, TypeOK, ExportRow, Timed, Accounted
<1>3. ASSUME NEW f \in Exports PROVE Accounted(f)'
  BY DEF IInv, TypeOK, ExportRow, Timed, Accounted
<1>4. ASSUME NEW f \in Exports PROVE Existing(f)'
  BY DEF IInv, TypeOK, ExportRow, Existing
<1>5. ASSUME NEW q \in Readers PROVE Informed(q)'
  BY DEF IInv, TypeOK, ExportRow, Informed, Snapshot
<1>6. ActiveIsBounded'
  BY BoundedKept DEF IInv, TypeOK, Active, ExportRow, Informed, Snapshot
<1>. QED
  BY <1>1, <1>2, <1>3, <1>4, <1>5, <1>6 DEF IInv

LEMMA MarkRunningIInv ==
  ASSUME IInv, NEW e \in Exports, MarkRunning(e)
  PROVE  IInv'
<1>. USE DEF MarkRunning, Go, jobVars, creations, handlerVars, readerVars,
            purgeVars, ghostVars, AroundHandler
<1>1. TypeOK'
  <2>1. row' \in [Exports -> ExportRow]
    BY Written DEF IInv, Status, Active, Settled
  <2>2. row'[e].status = "RUNNING" /\ row[e].status # "ABSENT"
        /\ \A f \in Exports \ {e} : row'[f] = row[f]
    BY Written DEF IInv, TypeOK, Existing, Status, Active, Settled
  <2>3. pc' \in [Exports -> Labels] /\ \A f \in Exports : Handling(f)' <=> Handling(f)
    BY DEF IInv, TypeOK, Labels, Handling
  <2>. QED
    BY <2>1, <2>2, <2>3 DEF IInv, TypeOK
<1>2. ASSUME NEW f \in Exports PROVE Timed(f)'
  BY DEF IInv, TypeOK, ExportRow, Timed, Accounted
<1>3. ASSUME NEW f \in Exports PROVE Accounted(f)'
  BY DEF IInv, TypeOK, ExportRow, Timed, Accounted
<1>4. ASSUME NEW f \in Exports PROVE Existing(f)'
  BY DEF IInv, TypeOK, ExportRow, Existing
<1>5. ASSUME NEW q \in Readers PROVE Informed(q)'
  BY DEF IInv, TypeOK, ExportRow, Informed, Snapshot
<1>6. ActiveIsBounded'
  BY BoundedKept DEF IInv, TypeOK, Active, ExportRow, Informed, Snapshot
<1>. QED
  BY <1>1, <1>2, <1>3, <1>4, <1>5, <1>6 DEF IInv

LEMMA GenerateVectorExportIInv ==
  ASSUME IInv, NEW e \in Exports, GenerateVectorExport(e)
  PROVE  IInv'
<1>. USE DEF GenerateVectorExport, Go, jobVars, creations, handlerVars,
            readerVars, purgeVars, ghostVars, AroundHandler, Reports
<1>1. TypeOK'
  BY DEF IInv, TypeOK, ExportRow, Status, Labels, Handling, Terminal, Active,
         Settled, Existing
<1>2. ASSUME NEW f \in Exports PROVE Timed(f)'
  BY DEF IInv, TypeOK, ExportRow, Timed, Accounted
<1>3. ASSUME NEW f \in Exports PROVE Accounted(f)'
  BY DEF IInv, TypeOK, ExportRow, Timed, Accounted
<1>4. ASSUME NEW f \in Exports PROVE Existing(f)'
  BY DEF IInv, TypeOK, ExportRow, Existing
<1>5. ASSUME NEW q \in Readers PROVE Informed(q)'
  BY DEF IInv, TypeOK, ExportRow, Informed, Snapshot
<1>6. ActiveIsBounded'
  BY BoundedKept DEF IInv, TypeOK, Active, ExportRow, Informed, Snapshot
<1>. QED
  BY <1>1, <1>2, <1>3, <1>4, <1>5, <1>6 DEF IInv

LEMMA PublishFileIInv ==
  ASSUME IInv, NEW e \in Exports, PublishFile(e)
  PROVE  IInv'
<1>. USE DEF PublishFile, Go, jobVars, creations, handlerVars, readerVars,
            purgeVars, ghostVars, AroundHandler, Reports
<1>1. TypeOK'
  BY DEF IInv, TypeOK, ExportRow, Status, Labels, Handling, Terminal, Active,
         Settled, Existing
<1>2. ASSUME NEW f \in Exports PROVE Timed(f)'
  BY DEF IInv, TypeOK, ExportRow, Timed, Accounted
<1>3. ASSUME NEW f \in Exports PROVE Accounted(f)'
  BY DEF IInv, TypeOK, ExportRow, Timed, Accounted
<1>4. ASSUME NEW f \in Exports PROVE Existing(f)'
  BY DEF IInv, TypeOK, ExportRow, Existing
<1>5. ASSUME NEW q \in Readers PROVE Informed(q)'
  BY DEF IInv, TypeOK, ExportRow, Informed, Snapshot
<1>6. ActiveIsBounded'
  BY BoundedKept DEF IInv, TypeOK, Active, ExportRow, Informed, Snapshot
<1>. QED
  BY <1>1, <1>2, <1>3, <1>4, <1>5, <1>6 DEF IInv

LEMMA PublishUnverifiedIInv ==
  ASSUME IInv, NEW e \in Exports, PublishUnverified(e)
  PROVE  IInv'
<1>. USE DEF PublishUnverified, Go, jobVars, creations, handlerVars,
            readerVars, purgeVars, ghostVars, AroundHandler, Reports
<1>1. TypeOK'
  BY DEF IInv, TypeOK, ExportRow, Status, Labels, Handling, Terminal, Active,
         Settled, Existing
<1>2. ASSUME NEW f \in Exports PROVE Timed(f)'
  BY DEF IInv, TypeOK, ExportRow, Timed, Accounted
<1>3. ASSUME NEW f \in Exports PROVE Accounted(f)'
  BY DEF IInv, TypeOK, ExportRow, Timed, Accounted
<1>4. ASSUME NEW f \in Exports PROVE Existing(f)'
  BY DEF IInv, TypeOK, ExportRow, Existing
<1>5. ASSUME NEW q \in Readers PROVE Informed(q)'
  BY DEF IInv, TypeOK, ExportRow, Informed, Snapshot
<1>6. ActiveIsBounded'
  BY BoundedKept DEF IInv, TypeOK, Active, ExportRow, Informed, Snapshot
<1>. QED
  BY <1>1, <1>2, <1>3, <1>4, <1>5, <1>6 DEF IInv

LEMMA MarkReadyIInv ==
  ASSUME IInv, NEW e \in Exports, MarkReady(e)
  PROVE  IInv'
<1>. USE DEF MarkReady, Go, jobVars, creations, handlerVars, readerVars,
            purgeVars, ghostVars, AroundHandler, Reports
<1>1. TypeOK'
  BY DEF IInv, TypeOK, ExportRow, Status, Labels, Handling, Terminal, Active,
         Settled, Existing
<1>2. ASSUME NEW f \in Exports PROVE Timed(f)'
  BY DEF IInv, TypeOK, ExportRow, Timed, Accounted
<1>3. ASSUME NEW f \in Exports PROVE Accounted(f)'
  BY DEF IInv, TypeOK, ExportRow, Timed, Accounted
<1>4. ASSUME NEW f \in Exports PROVE Existing(f)'
  BY DEF IInv, TypeOK, ExportRow, Existing
<1>5. ASSUME NEW q \in Readers PROVE Informed(q)'
  BY DEF IInv, TypeOK, ExportRow, Informed, Snapshot, Timed
<1>6. ActiveIsBounded'
  BY BoundedKept DEF IInv, TypeOK, Active, ExportRow, Informed, Snapshot
<1>. QED
  BY <1>1, <1>2, <1>3, <1>4, <1>5, <1>6 DEF IInv

LEMMA LeaveWorkspaceIInv ==
  ASSUME IInv, NEW e \in Exports, LeaveWorkspace(e)
  PROVE  IInv'
<1>. USE DEF LeaveWorkspace, Go, jobVars, creations, handlerVars,
            readerVars, purgeVars, ghostVars, AroundHandler
<1>1. TypeOK'
  BY DEF IInv, TypeOK, ExportRow, Status, Labels, Handling, Terminal, Active,
         Settled, Existing
<1>2. ASSUME NEW f \in Exports PROVE Timed(f)'
  BY DEF IInv, TypeOK, ExportRow, Timed, Accounted
<1>3. ASSUME NEW f \in Exports PROVE Accounted(f)'
  BY DEF IInv, TypeOK, ExportRow, Timed, Accounted
<1>4. ASSUME NEW f \in Exports PROVE Existing(f)'
  BY DEF IInv, TypeOK, ExportRow, Existing
<1>5. ASSUME NEW q \in Readers PROVE Informed(q)'
  BY DEF IInv, TypeOK, ExportRow, Informed, Snapshot
<1>6. ActiveIsBounded'
  BY BoundedKept DEF IInv, TypeOK, Active, ExportRow, Informed, Snapshot
<1>. QED
  BY <1>1, <1>2, <1>3, <1>4, <1>5, <1>6 DEF IInv

LEMMA NoticeCancellationIInv ==
  ASSUME IInv, NEW e \in Exports, NoticeCancellation(e)
  PROVE  IInv'
<1>. USE DEF NoticeCancellation, Go, jobVars, creations, handlerVars,
            readerVars, purgeVars, ghostVars, AroundHandler
<1>1. TypeOK'
  BY DEF IInv, TypeOK, ExportRow, Status, Labels, Handling, Terminal, Active,
         Settled, Existing
<1>2. ASSUME NEW f \in Exports PROVE Timed(f)'
  BY DEF IInv, TypeOK, ExportRow, Timed, Accounted
<1>3. ASSUME NEW f \in Exports PROVE Accounted(f)'
  BY DEF IInv, TypeOK, ExportRow, Timed, Accounted
<1>4. ASSUME NEW f \in Exports PROVE Existing(f)'
  BY DEF IInv, TypeOK, ExportRow, Existing
<1>5. ASSUME NEW q \in Readers PROVE Informed(q)'
  BY DEF IInv, TypeOK, ExportRow, Informed, Snapshot
<1>6. ActiveIsBounded'
  BY BoundedKept DEF IInv, TypeOK, Active, ExportRow, Informed, Snapshot
<1>. QED
  BY <1>1, <1>2, <1>3, <1>4, <1>5, <1>6 DEF IInv

LEMMA RaiseInExportIInv ==
  ASSUME IInv, NEW e \in Exports, RaiseInExport(e)
  PROVE  IInv'
<1>. USE DEF RaiseInExport, Go, jobVars, creations, handlerVars, readerVars,
            purgeVars, ghostVars, AroundHandler
<1>1. TypeOK'
  BY DEF IInv, TypeOK, ExportRow, Status, Labels, Handling, Terminal, Active,
         Settled, Existing
<1>2. ASSUME NEW f \in Exports PROVE Timed(f)'
  BY DEF IInv, TypeOK, ExportRow, Timed, Accounted
<1>3. ASSUME NEW f \in Exports PROVE Accounted(f)'
  BY DEF IInv, TypeOK, ExportRow, Timed, Accounted
<1>4. ASSUME NEW f \in Exports PROVE Existing(f)'
  BY DEF IInv, TypeOK, ExportRow, Existing
<1>5. ASSUME NEW q \in Readers PROVE Informed(q)'
  BY DEF IInv, TypeOK, ExportRow, Informed, Snapshot
<1>6. ActiveIsBounded'
  BY BoundedKept DEF IInv, TypeOK, Active, ExportRow, Informed, Snapshot
<1>. QED
  BY <1>1, <1>2, <1>3, <1>4, <1>5, <1>6 DEF IInv

LEMMA RaiseOutsideIInv ==
  ASSUME IInv, NEW e \in Exports, RaiseOutside(e)
  PROVE  IInv'
<1>. USE DEF RaiseOutside, Go, jobVars, creations, handlerVars, readerVars,
            purgeVars, ghostVars, AroundHandler
<1>1. TypeOK'
  BY DEF IInv, TypeOK, ExportRow, Status, Labels, Handling, Terminal, Active,
         Settled, Existing
<1>2. ASSUME NEW f \in Exports PROVE Timed(f)'
  BY DEF IInv, TypeOK, ExportRow, Timed, Accounted
<1>3. ASSUME NEW f \in Exports PROVE Accounted(f)'
  BY DEF IInv, TypeOK, ExportRow, Timed, Accounted
<1>4. ASSUME NEW f \in Exports PROVE Existing(f)'
  BY DEF IInv, TypeOK, ExportRow, Existing
<1>5. ASSUME NEW q \in Readers PROVE Informed(q)'
  BY DEF IInv, TypeOK, ExportRow, Informed, Snapshot
<1>6. ActiveIsBounded'
  BY BoundedKept DEF IInv, TypeOK, Active, ExportRow, Informed, Snapshot
<1>. QED
  BY <1>1, <1>2, <1>3, <1>4, <1>5, <1>6 DEF IInv

LEMMA DeletePublishedIInv ==
  ASSUME IInv, NEW e \in Exports, DeletePublished(e)
  PROVE  IInv'
<1>. USE DEF DeletePublished, Go, jobVars, creations, handlerVars,
            readerVars, purgeVars, ghostVars, AroundHandler
<1>1. TypeOK'
  BY DEF IInv, TypeOK, ExportRow, Status, Labels, Handling, Terminal, Active,
         Settled, Existing
<1>2. ASSUME NEW f \in Exports PROVE Timed(f)'
  BY DEF IInv, TypeOK, ExportRow, Timed, Accounted
<1>3. ASSUME NEW f \in Exports PROVE Accounted(f)'
  BY DEF IInv, TypeOK, ExportRow, Timed, Accounted
<1>4. ASSUME NEW f \in Exports PROVE Existing(f)'
  BY DEF IInv, TypeOK, ExportRow, Existing
<1>5. ASSUME NEW q \in Readers PROVE Informed(q)'
  BY DEF IInv, TypeOK, ExportRow, Informed, Snapshot
<1>6. ActiveIsBounded'
  BY BoundedKept DEF IInv, TypeOK, Active, ExportRow, Informed, Snapshot
<1>. QED
  BY <1>1, <1>2, <1>3, <1>4, <1>5, <1>6 DEF IInv

LEMMA MarkFailedIInv ==
  ASSUME IInv, NEW e \in Exports, MarkFailed(e)
  PROVE  IInv'
<1>. USE DEF MarkFailed, Go, jobVars, creations, handlerVars, readerVars,
            purgeVars, ghostVars, AroundHandler
<1>1. TypeOK'
  <2>1. row' \in [Exports -> ExportRow]
    BY Written DEF IInv, Status, Active, Settled
  <2>2. row'[e].status = "FAILED" /\ row[e].status # "ABSENT"
        /\ \A f \in Exports \ {e} : row'[f] = row[f]
    BY Written DEF IInv, TypeOK, Existing, Status, Active, Settled
  <2>3. pc' \in [Exports -> Labels] /\ \A f \in Exports : Handling(f)' <=> Handling(f)
    BY DEF IInv, TypeOK, Labels, Handling
  <2>. QED
    BY <2>1, <2>2, <2>3 DEF IInv, TypeOK
<1>2. ASSUME NEW f \in Exports PROVE Timed(f)'
  BY DEF IInv, TypeOK, ExportRow, Timed, Accounted
<1>3. ASSUME NEW f \in Exports PROVE Accounted(f)'
  BY DEF IInv, TypeOK, ExportRow, Timed, Accounted
<1>4. ASSUME NEW f \in Exports PROVE Existing(f)'
  BY DEF IInv, TypeOK, ExportRow, Existing
<1>5. ASSUME NEW q \in Readers PROVE Informed(q)'
  BY DEF IInv, TypeOK, ExportRow, Informed, Snapshot
<1>6. ActiveIsBounded'
  BY BoundedKept DEF IInv, TypeOK, Active, ExportRow, Informed, Snapshot
<1>. QED
  BY <1>1, <1>2, <1>3, <1>4, <1>5, <1>6 DEF IInv

LEMMA MarkCancelledIInv ==
  ASSUME IInv, NEW e \in Exports, MarkCancelled(e)
  PROVE  IInv'
<1>. USE DEF MarkCancelled, Go, jobVars, creations, handlerVars, readerVars,
            purgeVars, ghostVars, AroundHandler
<1>1. TypeOK'
  <2>1. row' \in [Exports -> ExportRow]
    BY Written DEF IInv, Status, Active, Settled
  <2>2. row'[e].status = "CANCELLED" /\ row[e].status # "ABSENT"
        /\ \A f \in Exports \ {e} : row'[f] = row[f]
    BY Written DEF IInv, TypeOK, Existing, Status, Active, Settled
  <2>3. pc' \in [Exports -> Labels] /\ \A f \in Exports : Handling(f)' <=> Handling(f)
    BY DEF IInv, TypeOK, Labels, Handling
  <2>. QED
    BY <2>1, <2>2, <2>3 DEF IInv, TypeOK
<1>2. ASSUME NEW f \in Exports PROVE Timed(f)'
  BY DEF IInv, TypeOK, ExportRow, Timed, Accounted
<1>3. ASSUME NEW f \in Exports PROVE Accounted(f)'
  BY DEF IInv, TypeOK, ExportRow, Timed, Accounted
<1>4. ASSUME NEW f \in Exports PROVE Existing(f)'
  BY DEF IInv, TypeOK, ExportRow, Existing
<1>5. ASSUME NEW q \in Readers PROVE Informed(q)'
  BY DEF IInv, TypeOK, ExportRow, Informed, Snapshot
<1>6. ActiveIsBounded'
  BY BoundedKept DEF IInv, TypeOK, Active, ExportRow, Informed, Snapshot
<1>. QED
  BY <1>1, <1>2, <1>3, <1>4, <1>5, <1>6 DEF IInv

LEMMA FailToSettleIInv ==
  ASSUME IInv, NEW e \in Exports, FailToSettle(e)
  PROVE  IInv'
<1>. USE DEF FailToSettle, Go, jobVars, creations, handlerVars, readerVars,
            purgeVars, ghostVars, AroundHandler
<1>1. TypeOK'
  BY DEF IInv, TypeOK, ExportRow, Status, Labels, Handling, Terminal, Active,
         Settled, Existing
<1>2. ASSUME NEW f \in Exports PROVE Timed(f)'
  BY DEF IInv, TypeOK, ExportRow, Timed, Accounted
<1>3. ASSUME NEW f \in Exports PROVE Accounted(f)'
  BY DEF IInv, TypeOK, ExportRow, Timed, Accounted
<1>4. ASSUME NEW f \in Exports PROVE Existing(f)'
  BY DEF IInv, TypeOK, ExportRow, Existing
<1>5. ASSUME NEW q \in Readers PROVE Informed(q)'
  BY DEF IInv, TypeOK, ExportRow, Informed, Snapshot
<1>6. ActiveIsBounded'
  BY BoundedKept DEF IInv, TypeOK, Active, ExportRow, Informed, Snapshot
<1>. QED
  BY <1>1, <1>2, <1>3, <1>4, <1>5, <1>6 DEF IInv

LEMMA FinishIInv ==
  ASSUME IInv, NEW e \in Exports, Finish(e)
  PROVE  IInv'
<1>. USE DEF Finish, Go, jobVars, creations, handlerVars, readerVars,
            purgeVars, ghostVars, AroundHandler, Outcome, Job!Settle,
            Job!Abandon, Job!Move, Job!Terminal
<1>1. TypeOK'
  <2>1. /\ owned' = [owned EXCEPT ![e] = FALSE] /\ UNCHANGED cancel
        /\ \/ UNCHANGED jobStatus
           \/ \E end \in Terminal : jobStatus' = [jobStatus EXCEPT ![e] = end]
    BY DEF Terminal
  <2>2. jobStatus' \in [Exports -> Terminal \union {"ABSENT", "PENDING", "QUEUED",
                                                  "RUNNING", "RETRYING"}]
    BY <2>1 DEF IInv, TypeOK
  <2>3. pc' \in [Exports -> Labels] /\ owned' \in [Exports -> BOOLEAN]
    BY <2>1 DEF IInv, TypeOK, Labels
  <2>4. \A f \in Exports : row[f].status = "ABSENT" <=> jobStatus'[f] = "ABSENT"
    <3>1. jobStatus[e] # "ABSENT"
      BY DEF IInv, Existing
    <3>. QED
      BY <2>1, <3>1 DEF IInv, TypeOK, Terminal
  <2>5. \A f \in Exports : owned'[f] <=> Handling(f)'
    BY <2>1 DEF IInv, TypeOK, Handling
  <2>. QED
    BY <2>1, <2>2, <2>3, <2>4, <2>5 DEF IInv, TypeOK
<1>2. ASSUME NEW f \in Exports PROVE Timed(f)'
  BY DEF IInv, TypeOK, ExportRow, Timed, Accounted
<1>3. ASSUME NEW f \in Exports PROVE Accounted(f)'
  BY DEF IInv, TypeOK, ExportRow, Timed, Accounted
<1>4. ASSUME NEW f \in Exports PROVE Existing(f)'
  BY DEF IInv, TypeOK, ExportRow, Existing
<1>5. ASSUME NEW q \in Readers PROVE Informed(q)'
  BY DEF IInv, TypeOK, ExportRow, Informed, Snapshot
<1>6. ActiveIsBounded'
  BY BoundedKept DEF IInv, TypeOK, Active, ExportRow, Informed, Snapshot
<1>. QED
  BY <1>1, <1>2, <1>3, <1>4, <1>5, <1>6 DEF IInv

LEMMA DieIInv ==
  ASSUME IInv, NEW e \in Exports, Die(e)
  PROVE  IInv'
<1>. USE DEF Die, Go, jobVars, creations, handlerVars, readerVars,
            purgeVars, ghostVars, AroundHandler, Job!Abandon
<1>1. TypeOK'
  BY DEF IInv, TypeOK, ExportRow, Status, Labels, Handling, Terminal, Active,
         Settled, Existing
<1>2. ASSUME NEW f \in Exports PROVE Timed(f)'
  BY DEF IInv, TypeOK, ExportRow, Timed, Accounted
<1>3. ASSUME NEW f \in Exports PROVE Accounted(f)'
  BY DEF IInv, TypeOK, ExportRow, Timed, Accounted
<1>4. ASSUME NEW f \in Exports PROVE Existing(f)'
  BY DEF IInv, TypeOK, ExportRow, Existing, Handling
<1>5. ASSUME NEW q \in Readers PROVE Informed(q)'
  BY DEF IInv, TypeOK, ExportRow, Informed, Snapshot
<1>6. ActiveIsBounded'
  BY BoundedKept DEF IInv, TypeOK, Active, ExportRow, Informed, Snapshot
<1>. QED
  BY <1>1, <1>2, <1>3, <1>4, <1>5, <1>6 DEF IInv

LEMMA ListExpiredIInv ==
  ASSUME IInv, ListExpired
  PROVE  IInv'
<1>. USE DEF ListExpired, Go, jobVars, creations, handlerVars, readerVars,
            purgeVars, ghostVars, AroundPurge
<1>1. TypeOK'
  BY DEF IInv, TypeOK, ExportRow, Status, Labels, Handling, Terminal, Active,
         Settled, Existing
<1>2. ASSUME NEW f \in Exports PROVE Timed(f)'
  BY DEF IInv, TypeOK, ExportRow, Timed, Accounted
<1>3. ASSUME NEW f \in Exports PROVE Accounted(f)'
  BY DEF IInv, TypeOK, ExportRow, Timed, Accounted
<1>4. ASSUME NEW f \in Exports PROVE Existing(f)'
  BY DEF IInv, TypeOK, ExportRow, Existing
<1>5. ASSUME NEW q \in Readers PROVE Informed(q)'
  BY DEF IInv, TypeOK, ExportRow, Informed, Snapshot
<1>6. ActiveIsBounded'
  BY BoundedKept DEF IInv, TypeOK, Active, ExportRow, Informed, Snapshot
<1>. QED
  BY <1>1, <1>2, <1>3, <1>4, <1>5, <1>6 DEF IInv

LEMMA PurgeObjectIInv ==
  ASSUME IInv, NEW e \in Exports, PurgeObject(e)
  PROVE  IInv'
<1>. USE DEF PurgeObject, Go, jobVars, creations, handlerVars, readerVars,
            purgeVars, ghostVars, AroundPurge
<1>1. TypeOK'
  BY DEF IInv, TypeOK, ExportRow, Status, Labels, Handling, Terminal, Active,
         Settled, Existing
<1>2. ASSUME NEW f \in Exports PROVE Timed(f)'
  BY DEF IInv, TypeOK, ExportRow, Timed, Accounted
<1>3. ASSUME NEW f \in Exports PROVE Accounted(f)'
  BY DEF IInv, TypeOK, ExportRow, Timed, Accounted
<1>4. ASSUME NEW f \in Exports PROVE Existing(f)'
  BY DEF IInv, TypeOK, ExportRow, Existing
<1>5. ASSUME NEW q \in Readers PROVE Informed(q)'
  BY DEF IInv, TypeOK, ExportRow, Informed, Snapshot
<1>6. ActiveIsBounded'
  BY BoundedKept DEF IInv, TypeOK, Active, ExportRow, Informed, Snapshot
<1>. QED
  BY <1>1, <1>2, <1>3, <1>4, <1>5, <1>6 DEF IInv

LEMMA SavePurgedIInv ==
  ASSUME IInv, NEW e \in Exports, SavePurged(e)
  PROVE  IInv'
<1>. USE DEF SavePurged, Go, jobVars, creations, handlerVars, readerVars,
            purgeVars, ghostVars, AroundPurge
<1>0. /\ row' \in [Exports -> ExportRow]
      /\ row'[e].status = "EXPIRED" /\ row'[e].object = FALSE
      /\ row'[e].expiry = row[e].expiry
      /\ \A f \in Exports \ {e} : row'[f] = row[f]
  <2>. DEFINE mid == [row EXCEPT ![e].status = "EXPIRED"]
              new == [mid[e] EXCEPT !.object = FALSE]
  <2>1. row[e] \in ExportRow
    BY DEF IInv, TypeOK
  <2>2. /\ mid[e] \in ExportRow /\ mid[e].status = "EXPIRED"
        /\ mid[e].expiry = row[e].expiry
        /\ mid \in [Exports -> ExportRow]
        /\ \A f \in Exports \ {e} : mid[f] = row[f]
    BY <2>1 DEF IInv, TypeOK, ExportRow, Status, Settled
  <2>3. row' = [mid EXCEPT ![e].object = FALSE]
    OBVIOUS
  <2>. HIDE DEF mid
  <2>4. /\ new \in ExportRow /\ new.status = "EXPIRED"
        /\ new.object = FALSE /\ new.expiry = row[e].expiry
    BY <2>2 DEF ExportRow
  <2>5. row' = [mid EXCEPT ![e] = new]
    BY <2>3
  <2>. HIDE DEF new
  <2>. QED
    BY <2>2, <2>4, <2>5
<1>. HIDE DEF SavePurged
<1>01. /\ e \in purged /\ purged' = {}
       /\ UNCHANGED <<store, listed, AroundPurge>>
  BY DEF SavePurged
<1>1. TypeOK'
  <2>1. row[e].status # "ABSENT"
    BY <1>01 DEF IInv, TypeOK, Timed, Existing
  <2>. QED
    BY <1>0, <1>01, <2>1 DEF IInv, TypeOK, Handling
<1>2. ASSUME NEW f \in Exports PROVE Timed(f)'
  BY <1>0, <1>01 DEF IInv, TypeOK, Timed
<1>3. ASSUME NEW f \in Exports PROVE Accounted(f)'
  BY <1>0, <1>01 DEF IInv, TypeOK, Timed, Accounted
<1>4. ASSUME NEW f \in Exports PROVE Existing(f)'
  <2>1. row[e].status # "ABSENT"
    BY <1>01 DEF IInv, TypeOK, Timed, Existing
  <2>. QED
    BY <1>0, <1>01, <2>1 DEF IInv, TypeOK, Existing
<1>5. ASSUME NEW q \in Readers PROVE Informed(q)'
  BY <1>0, <1>01 DEF IInv, TypeOK, Informed, Timed, Snapshot
<1>6. ActiveIsBounded'
  BY <1>0, <1>01, BoundedKept DEF IInv, Active
<1>. QED
  BY <1>1, <1>2, <1>3, <1>4, <1>5, <1>6 DEF IInv

LEMMA StopPurgeIInv ==
  ASSUME IInv, StopPurge
  PROVE  IInv'
<1>. USE DEF StopPurge, Go, jobVars, creations, handlerVars, readerVars,
            purgeVars, ghostVars, AroundPurge
<1>1. TypeOK'
  BY DEF IInv, TypeOK, ExportRow, Status, Labels, Handling, Terminal, Active,
         Settled, Existing
<1>2. ASSUME NEW f \in Exports PROVE Timed(f)'
  BY DEF IInv, TypeOK, ExportRow, Timed, Accounted
<1>3. ASSUME NEW f \in Exports PROVE Accounted(f)'
  BY DEF IInv, TypeOK, ExportRow, Timed, Accounted
<1>4. ASSUME NEW f \in Exports PROVE Existing(f)'
  BY DEF IInv, TypeOK, ExportRow, Existing
<1>5. ASSUME NEW q \in Readers PROVE Informed(q)'
  BY DEF IInv, TypeOK, ExportRow, Informed, Snapshot
<1>6. ActiveIsBounded'
  BY BoundedKept DEF IInv, TypeOK, Active, ExportRow, Informed, Snapshot
<1>. QED
  BY <1>1, <1>2, <1>3, <1>4, <1>5, <1>6 DEF IInv

LEMMA InitIInv == Init => IInv
<1>. SUFFICES ASSUME Init PROVE IInv
  OBVIOUS
<1>1. TypeOK
  <2>1. Absent \in ExportRow /\ Nothing \in Snapshot
    BY DEF Absent, ExportRow, Status, Nothing, Snapshot
  <2>2. Absent.status = "ABSENT" /\ Nothing.export = NoExport
    BY DEF Absent, Nothing
  <2>. QED
    BY <2>1, <2>2 DEF Init, Job!Init, TypeOK, Labels, Handling
<1>2. \A e \in Exports : Timed(e) /\ Accounted(e) /\ Existing(e)
  BY DEF Init, Absent, Timed, Accounted, Existing
<1>3. \A r \in Readers : Informed(r)
  BY DEF Init, Informed
<1>4. ActiveIsBounded
  <2>1. (ActiveExports \union admitted) \ stale = {}
    BY DEF Init, ActiveExports, Absent, Active
  <2>2. others.creating = 0 /\ others.active = 0
    BY DEF Init
  <2>. QED
    BY <2>1, <2>2, FS_EmptySet DEF ActiveIsBounded
<1>. QED
  BY <1>1, <1>2, <1>3, <1>4 DEF IInv

LEMMA StutterIInv ==
  ASSUME IInv, UNCHANGED vars
  PROVE  IInv'
<1>. USE DEF vars, jobVars, creations, handlerVars, readerVars, purgeVars,
             ghostVars
<1>1. TypeOK'
  BY DEF IInv, TypeOK, Handling
<1>2. \A e \in Exports : Timed(e)' /\ Accounted(e)' /\ Existing(e)'
  BY DEF IInv, Timed, Accounted, Existing
<1>3. \A r \in Readers : Informed(r)'
  BY DEF IInv, Informed
<1>4. ActiveIsBounded'
  BY BoundedKept DEF IInv
<1>. QED
  BY <1>1, <1>2, <1>3, <1>4 DEF IInv

LEMMA HandlerStepIInv ==
  ASSUME IInv, NEW e \in Exports, HandlerStep(e)
  PROVE  IInv'
  BY ResolveExportIInv, MarkRunningIInv, GenerateVectorExportIInv,
     PublishFileIInv, PublishUnverifiedIInv, MarkReadyIInv,
     LeaveWorkspaceIInv, NoticeCancellationIInv, RaiseInExportIInv,
     RaiseOutsideIInv, DeletePublishedIInv, MarkFailedIInv, MarkCancelledIInv,
     FailToSettleIInv, FinishIInv
     DEF HandlerStep

LEMMA NextIInv == IInv /\ [Next]_vars => IInv'
<1>. SUFFICES ASSUME IInv, [Next]_vars PROVE IInv'
  OBVIOUS
<1>1. CASE UNCHANGED vars
  BY <1>1, StutterIInv
<1>2. ASSUME NEW e \in Exports,
             \/ CountActive(e) \/ CreateVectorExport(e) \/ Expire(e)
             \/ Enqueue(e) \/ CancelJob(e) \/ Undeliverable(e)
      PROVE  IInv'
  BY <1>2, CountActiveIInv, CreateVectorExportIInv, ExpireIInv, EnqueueIInv,
     CancelJobIInv, UndeliverableIInv
<1>3. ASSUME NEW e \in Exports, NEW r \in Readers,
             NEW purpose \in {"get", "download", "cancel"},
             Read(r, e, purpose)
      PROVE  IInv'
  BY <1>3, ReadIInv
<1>4. ASSUME NEW e \in Exports,
             \/ BeginExport(e) \/ HandlerStep(e) \/ Die(e)
             \/ PurgeObject(e) \/ SavePurged(e)
      PROVE  IInv'
  BY <1>4, BeginExportIInv, HandlerStepIInv, DieIInv, PurgeObjectIInv,
     SavePurgedIInv
<1>5. ASSUME NEW r \in Readers, RequestStep(r)
      PROVE  IInv'
  BY <1>5, SynchronizeExportStatusIInv, CreateDownloadGrantIInv,
     RequestCancellationIInv DEF RequestStep
<1>6. CASE OtherExports \/ ReplaceLayer \/ ListExpired \/ StopPurge
  BY <1>6, OtherExportsIInv, ReplaceLayerIInv, ListExpiredIInv, StopPurgeIInv
<1>. QED
  BY <1>1, <1>2, <1>3, <1>4, <1>5, <1>6 DEF Next

LEMMA Invariance == Spec => []IInv
<1>. QED
  BY InitIInv, NextIInv, PTL DEF Spec

-----------------------------------------------------------------------------
(* What follows.                                                           *)

(* Every variable has its type in every reachable state, exports and jobs  *)
(* exist together, and a handler owns its job.                             *)
THEOREM TypeCorrect == Spec => []TypeOK
<1>1. IInv => TypeOK
  BY DEF IInv
<1>. QED
  BY <1>1, Invariance, PTL

(* For any number of readers, downloads, purges and exports: a link that   *)
(* has been handed out (create_download_grant) leads to an object as long  *)
(* as it lives, unless the handler failed after READY.                     *)
THEOREM LinksLeadAlways == Spec => []LinksLead
<1>1. IInv => LinksLead
  BY DEF IInv, TypeOK, Timed, LinksLead
<1>. QED
  BY <1>1, Invariance, PTL

(* Every object in the store belongs to a handler at work or is named by a *)
(* row that the purge will come to, the named exceptions apart.            *)
THEOREM ObjectsAreKeptAlways == Spec => []ObjectsAreKept
<1>1. IInv => ObjectsAreKept
  BY DEF IInv, TypeOK, Accounted, ObjectsAreKept, Handling
<1>. QED
  BY <1>1, Invariance, PTL

(* The count that create_vector_export makes without a lock exceeds the    *)
(* limit by no more than the creations under way at once, for every limit. *)
THEOREM ActiveIsBoundedAlways == Spec => []ActiveIsBounded
<1>1. IInv => ActiveIsBounded
  BY DEF IInv
<1>. QED
  BY <1>1, Invariance, PTL

(* Requests, readers and the handler do nothing to the job of an export    *)
(* but what JobContract allows, the interface that the ledger is shown to  *)
(* keep (JobLedgerProofs!ContractIsKept).                                  *)
THEOREM JobsKeepTheContract == Spec => Job!Spec
<1>1. Init => Job!Init
  BY DEF Init
<1>2. ASSUME IInv, [Next]_vars
      PROVE  [Job!Next]_(Job!vars)
  <2>1. CASE \E e \in Exports :
               \/ CreateVectorExport(e) \/ Enqueue(e) \/ CancelJob(e)
               \/ Undeliverable(e) \/ BeginExport(e) \/ Finish(e) \/ Die(e)
    <3>1. \/ \E e \in Exports :
               \/ Job!Submit(e) \/ Job!Enqueue(e) \/ Job!Cancel(e)
               \/ Job!Undeliverable(e) \/ Job!Begin(e) \/ Job!Settle(e)
               \/ Job!Abandon(e)
          \/ UNCHANGED jobVars
      BY <2>1, Zenon
         DEF CreateVectorExport, Enqueue, CancelJob, Undeliverable, BeginExport,
             Finish, Die
    <3>. QED
      BY <3>1, Zenon DEF Job!Next, Job!vars, jobVars
  <2>2. CASE \E r \in Readers : RequestStep(r)
    <3>1. PICK r \in Readers :
            \/ UNCHANGED jobVars
            \/ /\ reader[r] = "requesting"
               /\ Job!Cancel(seen[r].export)
      BY <2>2, Zenon
         DEF RequestStep, SynchronizeExportStatus, CreateDownloadGrant,
             RequestCancellation
    <3>2. CASE UNCHANGED jobVars
      BY <3>2 DEF jobVars, Job!vars
    <3>3. CASE reader[r] = "requesting" /\ Job!Cancel(seen[r].export)
      <4>1. seen[r].export \in Exports
        BY <1>2, <3>3 DEF IInv, TypeOK, Snapshot
      <4>. QED
        BY <3>3, <4>1, Zenon DEF Job!Next
    <3>. QED
      BY <3>1, <3>2, <3>3
  <2>3. CASE \E e \in Exports :
               \/ CountActive(e) \/ Expire(e) \/ PurgeObject(e) \/ SavePurged(e)
               \/ HandlerStep(e) /\ ~Finish(e)
               \/ \E r \in Readers, purpose \in {"get", "download", "cancel"} :
                    Read(r, e, purpose)
    <3>1. UNCHANGED jobVars
      BY <2>3, Zenon
         DEF CountActive, Expire, PurgeObject, SavePurged, Read, HandlerStep,
             ResolveExport, MarkRunning, GenerateVectorExport, PublishFile,
             PublishUnverified, MarkReady, LeaveWorkspace, NoticeCancellation,
             RaiseInExport, RaiseOutside, DeletePublished, MarkFailed,
             MarkCancelled, FailToSettle, AroundPurge
    <3>. QED
      BY <3>1 DEF jobVars, Job!vars
  <2>4. CASE \/ OtherExports \/ ReplaceLayer \/ ListExpired \/ StopPurge
             \/ UNCHANGED vars
    <3>1. UNCHANGED jobVars
      BY <2>4, Zenon DEF OtherExports, ReplaceLayer, ListExpired, StopPurge,
                         AroundPurge, vars
    <3>. QED
      BY <3>1 DEF jobVars, Job!vars
  <2>. QED
    BY <1>2, <2>1, <2>2, <2>3, <2>4, Zenon DEF Next
<1>. QED
  BY <1>1, <1>2, Invariance, PTL DEF Spec, Job!Spec
=============================================================================
