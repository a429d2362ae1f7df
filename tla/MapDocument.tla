---------------------------- MODULE MapDocument ----------------------------
(***************************************************************************)
(* A map document, its immutable versions and the record of which of them  *)
(* was published when (modules/maps): requests that create the map, save a *)
(* version, activate one or read the map, each of several queries, while   *)
(* the dataset behind the layers publishes, retires and withdraws versions *)
(* and permissions come and go. A writing request is a transaction: it     *)
(* holds the lock of the MapDocument row, and what it writes is seen when  *)
(* it commits. Documents have one layer.                                   *)
(***************************************************************************)
EXTENDS Naturals, FiniteSets, Sequences, SequencesExt

CONSTANTS
  Requests,        \* requests under way at once, each of an actor of its own
  DatasetVersions, \* versions of the vector dataset behind the layers
  NoVersion,       \* no version: dataset_version_id or current_version is null
  NoDocument,      \* a request has no document yet
  Nobody,          \* the MapDocument row is not locked
  MaxWrites        \* creations, saves and activations stop at this number

ASSUME MapAssumption ==
  /\ NoVersion \notin DatasetVersions /\ Nobody \notin Requests
  /\ MaxWrites \in Nat \ {0}

VARIABLES
  current,    \* Dataset.current_version
  usable,     \* dataset versions that are READY with a READY layer
  viewers,    \* requests under way whose actor may VIEW the dataset
  rows,       \* the MapDocumentVersion rows, as they were inserted
  published,  \* MapDocument.current_version: its place in rows, 0 if null
  history,    \* the MapDocumentVersionActivation rows
  lock,       \* the request that holds the MapDocument row
  call,       \* what a request has read and where it stands
  allowed,    \* requests whose actor could view the dataset while they ran
  conflict    \* an insert has hit map_document_version_number_unique

dataVars == <<current, usable, viewers>>
mapVars  == <<rows, published, history, conflict>>
vars     == <<dataVars, mapVars, lock, call, allowed>>

-----------------------------------------------------------------------------
LayerKinds   == {"VECTOR", "RASTER"}
BindingModes == {"CURRENT", "PINNED"}
Actions      == {"INITIAL", "SAVE", "ROLLBACK", "MANUAL"}

(* What a client may write of a layer; a name that is blank is stripped.   *)
Layers == [kind : LayerKinds, binding : BindingModes,
           version : DatasetVersions \union {NoVersion}, name : {"", "name"}]

(* Mutant: a layer that follows the dataset may name a version. *)
ValidPinnedOrNot(layer) ==
  /\ layer.binding = "PINNED" => layer.version # NoVersion
  /\ layer.kind = "VECTOR" <=> layer.name # ""

(* MapLayerDocument.validate_reference *)
ValidReference(layer) ==
  /\ layer.binding = "CURRENT" <=> layer.version = NoVersion
  /\ layer.kind = "VECTOR" <=> layer.name # ""

Idle == [pc |-> "idle", op |-> "get", document |-> NoDocument, at |-> 0,
         from |-> 0, number |-> 0, count |-> 0, source |-> NoVersion]

Row(number, document) ==
  [number |-> number, document |-> document, activated |-> FALSE,
   deactivated |-> FALSE, count |-> 0]

Init ==
  /\ current \in DatasetVersions /\ usable = DatasetVersions
  /\ viewers = {}
  /\ rows = <<>> /\ published = 0 /\ history = <<>> /\ conflict = FALSE
  /\ lock = Nobody
  /\ call = [r \in Requests |-> Idle]
  /\ allowed = {}

-----------------------------------------------------------------------------
(* The dataset and the permissions.                                        *)

(* Another version of the dataset becomes current, as DatasetContract has  *)
(* it.                                                                     *)
Serve ==
  /\ current' \in usable \ {current}
  /\ UNCHANGED <<usable, viewers, allowed>>

(* A version or its layer ceases to be ready, or becomes it. *)
ChangeUsable ==
  /\ \E v \in DatasetVersions :
       usable' = IF v \in usable THEN usable \ {v} ELSE usable \union {v}
  /\ UNCHANGED <<current, viewers, allowed>>

ChangeViewers ==
  /\ \E r \in Requests :
       \/ r \in viewers /\ viewers' = viewers \ {r} /\ UNCHANGED allowed
       \/ /\ call[r].pc # "idle" /\ r \notin viewers
          /\ viewers' = viewers \union {r} /\ allowed' = allowed \union {r}
  /\ UNCHANGED <<current, usable>>

Environment ==
  /\ Serve \/ ChangeUsable \/ ChangeViewers
  /\ UNCHANGED <<mapVars, lock, call>>

-----------------------------------------------------------------------------
(* A request.                                                              *)

Inserts(r) == call[r].op \in {"create", "save", "keep"}
At(r, label) == call[r].pc = label
Update(r, record) == call' = [call EXCEPT ![r] = record]
Go(r, label) == Update(r, [call[r] EXCEPT !.pc = label])

(* An exception rolls the transaction back, which releases the lock. *)
Refuse(r) ==
  /\ Update(r, Idle)
  /\ lock' = IF lock = r THEN Nobody ELSE lock
  /\ viewers' = viewers \ {r} /\ allowed' = allowed \ {r}
  /\ UNCHANGED <<current, usable, mapVars>>

Doing(ops) == {r \in Requests : call[r].op \in ops}

Recorded(actions) ==
  Cardinality({k \in DOMAIN history : history[k].action \in actions})

Room(op) ==
  op # "get" =>
    Len(rows) + Recorded({"ROLLBACK", "MANUAL"})
      + Cardinality(Doing({"create", "save", "keep", "activate"})) < MaxWrites

(* A request comes in, of an actor who may or may not view the dataset.    *)
Arrive(r, record) ==
  /\ At(r, "idle") /\ Room(record.op)
  /\ Update(r, record)
  /\ \/ viewers' = viewers \union {r} /\ allowed' = allowed \union {r}
     \/ UNCHANGED <<viewers, allowed>>
  /\ UNCHANGED <<current, usable, mapVars, lock>>

(* create_map, whose document is valid *)
CreateMap(r) ==
  /\ rows = <<>> /\ Doing({"create"}) = {}
  /\ \E document \in Layers :
       /\ ValidReference(document)
       /\ Arrive(r, [Idle EXCEPT !.op = "create", !.document = document,
                                 !.pc = "datasets"])

(* create_map_version, to be published at once or not *)
CreateMapVersion(r) ==
  /\ rows # <<>>
  /\ \E op \in {"save", "keep"}, document \in Layers :
       Arrive(r, [Idle EXCEPT !.op = op, !.document = document,
                              !.pc = "locking"])

(* activate_map_version *)
ActivateMapVersion(r) ==
  \E at \in DOMAIN rows :
    Arrive(r, [Idle EXCEPT !.op = "activate", !.at = at, !.pc = "locking"])

(* get_map *)
GetMap(r) ==
  /\ rows # <<>>
  /\ Arrive(r, [Idle EXCEPT !.pc = "reloading"])

(* What the transaction goes on with once it has the row: the document of  *)
(* the request, or that of the version to activate, which is checked again.*)
Found(r) ==
  IF call[r].op = "activate"
    THEN [call[r] EXCEPT !.document = rows[call[r].at].document,
                         !.count = rows[call[r].at].count,
                         !.from = published]
    ELSE [call[r] EXCEPT !.from = published]

(* Mutant: the row is read without select_for_update. *)
LockUnlocked(r) ==
  /\ At(r, "locking")
  /\ call[r].op # "activate" => ValidReference(call[r].document)
  /\ Update(r, [Found(r) EXCEPT !.pc = "datasets"])
  /\ UNCHANGED <<dataVars, mapVars, lock, allowed>>

(* Mutant: a version is activated again without another look at its        *)
(* sources.                                                                *)
LockUnchecked(r) ==
  /\ At(r, "locking") /\ lock = Nobody
  /\ call[r].op # "activate" => ValidReference(call[r].document)
  /\ lock' = r
  /\ Update(r, [Found(r) EXCEPT
       !.pc = IF call[r].op = "activate" THEN "committing" ELSE "datasets"])
  /\ UNCHANGED <<dataVars, mapVars, allowed>>

(* _locked_editable_map, and what is read under the lock.                  *)
LockedEditableMap(r) ==
  /\ At(r, "locking") /\ lock = Nobody
  /\ call[r].op # "activate" => ValidReference(call[r].document)
  /\ lock' = r
  /\ Update(r, [Found(r) EXCEPT !.pc = "datasets"])
  /\ UNCHANGED <<dataVars, mapVars, allowed>>

(* The map may not be edited or is archived, the document is not valid or  *)
(* the version is not one of the map.                                      *)
NotEditable(r) == At(r, "locking") /\ lock = Nobody /\ Refuse(r)

Resolved(layer) ==
  IF layer.binding = "CURRENT" THEN current ELSE layer.version

DatasetKind == "VECTOR"

(* Mutant: the sources are looked up whoever asks. *)
ReadForAnybody(r) ==
  /\ At(r, "datasets")
  /\ call[r].document.kind = DatasetKind
  /\ Update(r, [call[r] EXCEPT !.pc = "layers",
                               !.source = Resolved(call[r].document)])
  /\ UNCHANGED <<dataVars, mapVars, lock, allowed>>

(* _validate_source_references: the datasets and who may view them, ...    *)
ReadDatasets(r) ==
  /\ At(r, "datasets")
  /\ r \in viewers
  /\ call[r].document.kind = DatasetKind
  /\ Update(r, [call[r] EXCEPT !.pc = "layers",
                               !.source = Resolved(call[r].document)])
  /\ UNCHANGED <<dataVars, mapVars, lock, allowed>>

Maximum == IF rows = <<>> THEN 0
           ELSE CHOOSE n \in {rows[i].number : i \in DOMAIN rows} :
                  \A i \in DOMAIN rows : rows[i].number <= n

(* ... and, queries later, the versions and their layers; a new version    *)
(* then takes the next number.                                             *)
ReadLayers(r) ==
  /\ At(r, "layers")
  /\ call[r].source \in usable
  /\ Update(r, [call[r] EXCEPT
       !.pc = IF call[r].op = "get" THEN "shown" ELSE "committing",
       !.number = IF Inserts(r) THEN Maximum + 1 ELSE 0])
  /\ UNCHANGED <<dataVars, mapVars, lock, allowed>>

Raises(r) ==
  /\ \/ At(r, "datasets") /\ ~ (r \in viewers
                                 /\ call[r].document.kind = DatasetKind)
     \/ At(r, "layers") /\ call[r].source \notin usable
  /\ Refuse(r)

Inserted(r) ==
  IF ~Inserts(r) THEN rows
  ELSE Append(rows, Row(call[r].number, call[r].document))

ActionOf(r) ==
  CASE call[r].op = "create" -> "INITIAL"
    [] call[r].op = "save"   -> "SAVE"
    [] OTHER -> IF call[r].from # 0
                     /\ rows[call[r].at].number < rows[call[r].from].number
                  THEN "ROLLBACK" ELSE "MANUAL"

(* What _activate_version writes to the version that is published, ...     *)
Shown(row, count) ==
  [row EXCEPT !.activated = TRUE, !.deactivated = FALSE, !.count = count + 1]

(* ... and to the one that was.                                            *)
Retired(row) == [row EXCEPT !.deactivated = TRUE]

(* Mutant: a version that is published again stays deactivated. *)
ActivatedStale(table, to, from, count) ==
  [i \in DOMAIN table |->
     IF i = to THEN [table[i] EXCEPT !.activated = TRUE, !.count = count + 1]
     ELSE IF i = from THEN Retired(table[i]) ELSE table[i]]

Activated(table, to, from, count) ==
  [i \in DOMAIN table |->
     IF i = to THEN Shown(table[i], count)
     ELSE IF i = from THEN Retired(table[i]) ELSE table[i]]

(* _activate_version *)
Activate(r) ==
  LET table == Inserted(r)
      to    == IF call[r].op = "activate" THEN call[r].at ELSE Len(table)
  IN  /\ rows' = Activated(table, to, call[r].from, call[r].count)
      /\ published' = to
      /\ history' = Append(history, [from |-> call[r].from, to |-> to,
                                     action |-> ActionOf(r)])

(* The numbers of the versions of a map are unique: the insert would fail. *)
Taken(r) == /\ Inserts(r)
            /\ \E i \in DOMAIN rows : rows[i].number = call[r].number

Commit(r) ==
  /\ At(r, "committing")
  /\ CASE Taken(r) -> UNCHANGED <<rows, published, history>>
       [] ~Taken(r) /\ call[r].op = "keep" ->
            rows' = Inserted(r) /\ UNCHANGED <<published, history>>
       [] OTHER -> Activate(r)
  /\ conflict' = (conflict \/ Taken(r))
  /\ lock' = IF lock = r THEN Nobody ELSE lock
  /\ Update(r, [Idle EXCEPT !.pc = "reloading"])
  /\ UNCHANGED <<dataVars, allowed>>

(* _accessible_map_detail: the map with its current version is read first, *)
(* and what was read is checked and shown.                                 *)
Reload(r) ==
  /\ At(r, "reloading")
  /\ Update(r, [Idle EXCEPT !.document = rows[published].document,
                            !.pc = "datasets"])
  /\ UNCHANGED <<dataVars, mapVars, lock, allowed>>

Reply(r) ==
  /\ At(r, "shown")
  /\ Update(r, Idle)
  /\ viewers' = viewers \ {r} /\ allowed' = allowed \ {r}
  /\ UNCHANGED <<current, usable, mapVars, lock>>

Step(r) ==
  \/ LockedEditableMap(r) \/ NotEditable(r) \/ ReadDatasets(r)
  \/ ReadLayers(r) \/ Raises(r) \/ Commit(r) \/ Reload(r) \/ Reply(r)

Next ==
  \/ Environment
  \/ \E r \in Requests :
       \/ CreateMap(r) \/ CreateMapVersion(r) \/ ActivateMapVersion(r)
       \/ GetMap(r) \/ Step(r)

Spec == Init /\ [][Next]_vars

-----------------------------------------------------------------------------
(* Properties.                                                             *)

Labels == {"idle", "locking", "datasets", "layers", "committing",
           "reloading", "shown"}
Operations == {"create", "save", "keep", "activate", "get"}

VersionRow ==
  [number : Nat, document : Layers, activated : BOOLEAN, deactivated : BOOLEAN,
   count : Nat]

Call ==
  [pc : Labels, op : Operations, document : Layers \union {NoDocument},
   at : Nat, from : Nat, number : Nat, count : Nat,
   source : DatasetVersions \union {NoVersion}]

(* Every variable has its type, and what refers to a version of the map    *)
(* refers to one there is.                                                 *)
TypeOK ==
  /\ current \in DatasetVersions /\ usable \subseteq DatasetVersions
  /\ viewers \subseteq Requests /\ allowed \subseteq Requests
  /\ rows \in Seq(VersionRow) /\ published \in 0..Len(rows)
  /\ history \in Seq([from : Nat, to : Nat, action : Actions])
  /\ \A k \in DOMAIN history :
       history[k].from \in 0..Len(rows) /\ history[k].to \in DOMAIN rows
  /\ lock \in Requests \union {Nobody} /\ conflict \in BOOLEAN
  /\ call \in [Requests -> Call]

(* Two saves never take the same number and no number is left out:         *)
(* versions are numbered as they were inserted.                            *)
VersionsAreNumbered ==
  ~conflict /\ \A i \in DOMAIN rows : rows[i].number = i

(* Each activation departs from where the one before it arrived, the last  *)
(* is what is published, and only going back to a lower number is called a *)
(* rollback.                                                               *)
Chain(place, record) ==
  /\ place = IF record = <<>> THEN 0 ELSE Last(record).to
  /\ \A i \in DOMAIN record :
       /\ record[i].from = IF i = 1 THEN 0 ELSE record[i - 1].to
       /\ record[i].action = "INITIAL" <=> i = 1
       /\ record[i].action = "ROLLBACK" <=> record[i].to < record[i].from

Times(record, i) == Cardinality({k \in DOMAIN record : record[k].to = i})

(* A version was activated as often as it is recorded, and the published   *)
(* one and no other activated version is without a deactivation.           *)
Counted(table, place, record) ==
  \A i \in DOMAIN table :
    /\ table[i].count = Times(record, i)
    /\ table[i].activated <=> table[i].count > 0
    /\ table[i].activated /\ ~table[i].deactivated <=> place = i

(* The record of activations tells the whole story of a map, whatever      *)
(* requests met on the way.                                                *)
ActivationsChain ==
  Chain(published, history) /\ Counted(rows, published, history)

(* A map never grants access to a dataset: whoever is shown a document, or *)
(* publishes one, was allowed to view its dataset at some moment of the    *)
(* request, whatever was granted, revoked or published meanwhile.          *)
GrantsNothing ==
  \A r \in Requests :
    call[r].pc \in {"committing", "shown"} => r \in allowed

(* What the schema accepts, the constraints of MapLayerReference accept:   *)
(* no stored layer follows a dataset and is pinned, or is neither, and     *)
(* exactly the vector layers name a source layer.                          *)
ReferencesAreSound ==
  \A i \in DOMAIN rows : LET layer == rows[i].document IN
    /\ layer.binding = "CURRENT" => layer.version = NoVersion
    /\ layer.binding = "PINNED" => layer.version # NoVersion
    /\ layer.kind = "VECTOR" => layer.name # ""
    /\ layer.kind = "RASTER" => layer.name = ""

(* Versions are snapshots: no step replaces a document or drops a version  *)
(* or a recorded activation, and none changes what is published without    *)
(* recording it.                                                           *)
SnapshotsAreKept ==
  [][/\ \A i \in DOMAIN rows :
          i \in DOMAIN rows' /\ rows'[i].document = rows[i].document
     /\ IsPrefix(history, history')
     /\ published' # published => Len(history') = Len(history) + 1]_vars

-----------------------------------------------------------------------------
(* The inductive invariant of MapDocumentProofs.                           *)

Working(r) == call[r].pc \in {"datasets", "layers", "committing"}

(* A request that is past the lock holds it; a map being created is nobody *)
(* else's; and what a request read under the lock is still so.             *)
LockIsHeld ==
  \A r \in Requests :
    /\ call[r].pc = "idle" => call[r] = Idle
    /\ call[r].op \in {"save", "keep", "activate"} /\ Working(r) => lock = r
    /\ call[r].op \in {"save", "keep", "activate"} =>
         Working(r) \/ At(r, "locking")
    /\ call[r].op = "create" =>
         rows = <<>> /\ Working(r) /\ \A q \in Requests \ {r} : At(q, "idle")
    /\ call[r].op = "get" => ~At(r, "committing") /\ ~At(r, "locking")
    /\ call[r].op # "get" /\ Working(r) => call[r].from = published

(* What a request is about to write: a valid document, under the next      *)
(* number, or a version of the map as it is now.                           *)
WritesAreSound ==
  \A r \in Requests :
    /\ Working(r) => call[r].document \in Layers
    /\ Inserts(r) => /\ call[r].document \in Layers /\ call[r].count = 0
                     /\ ~At(r, "locking") => ValidReference(call[r].document)
                     /\ At(r, "committing") => call[r].number = Len(rows) + 1
    /\ call[r].op = "activate" =>
         /\ call[r].at \in DOMAIN rows
         /\ Working(r) => /\ call[r].document = rows[call[r].at].document
                          /\ call[r].count = rows[call[r].at].count

(* A map that exists has published a version, and nobody reads one that    *)
(* does not.                                                               *)
MapIsPublished ==
  /\ (rows = <<>>) = (published = 0) /\ (rows = <<>>) = (history = <<>>)
  /\ \A r \in Requests :
       ~At(r, "idle") /\ call[r].op # "create" => rows # <<>>

ViewersAreKnown ==
  /\ viewers \subseteq allowed
  /\ \A r \in Requests : At(r, "layers") => r \in allowed

IInv ==
  /\ TypeOK /\ LockIsHeld /\ WritesAreSound /\ MapIsPublished
  /\ ViewersAreKnown /\ VersionsAreNumbered /\ GrantsNothing
  /\ ReferencesAreSound /\ ActivationsChain
=============================================================================
