------------------------- MODULE MapDocumentProofs -------------------------
(***************************************************************************)
(* Proofs about MapDocument, for any number of requests, of versions of    *)
(* the dataset and of writes.                                              *)
(***************************************************************************)
EXTENDS MapDocument, FiniteSetTheorems, TLAPS

USE MapAssumption

-----------------------------------------------------------------------------
(* A step that leaves the map as it is keeps what the invariant says of it.*)
LEMMA MapIsKept ==
  ASSUME IInv, UNCHANGED mapVars
  PROVE  VersionsAreNumbered' /\ ReferencesAreSound' /\ ActivationsChain'
<1>1. rows' = rows /\ published' = published /\ history' = history
      /\ conflict' = conflict
  BY DEF mapVars
<1>2. VersionsAreNumbered'
  BY <1>1 DEF IInv, VersionsAreNumbered
<1>3. ReferencesAreSound'
  BY <1>1 DEF IInv, ReferencesAreSound
<1>4. ActivationsChain'
  BY <1>1 DEF IInv, ActivationsChain
<1>. QED
  BY <1>2, <1>3, <1>4

LEMMA Places ==
  ASSUME TypeOK
  PROVE  /\ Len(rows) \in Nat /\ DOMAIN rows = 1..Len(rows)
         /\ \A i \in DOMAIN rows : /\ i \in Nat /\ rows[i] \in VersionRow
                                   /\ rows[i].document \in Layers
                                   /\ rows[i].number \in Nat
                                   /\ rows[i].count \in Nat
<1>1. rows \in Seq(VersionRow)
  BY DEF TypeOK
<1>2. \A i \in DOMAIN rows : rows[i] \in VersionRow /\ i \in Nat
  BY <1>1
<1>. QED
  BY <1>1, <1>2 DEF VersionRow

(* A request that comes in keeps the types.                                *)
LEMMA ArriveTypeOK ==
  ASSUME TypeOK, NEW r \in Requests, NEW record \in Call, Arrive(r, record)
  PROVE  TypeOK'
  BY DEF TypeOK, Arrive, Update, mapVars

(* What a request does next has its type.                                  *)
LEMMA UpdateTyped ==
  ASSUME TypeOK, NEW r \in Requests, NEW record \in Call, Update(r, record)
  PROVE  call' \in [Requests -> Call]
  BY DEF TypeOK, Update

(* The dataset and the permissions change. *)
LEMMA EnvironmentIInv ==
  ASSUME IInv, Environment
  PROVE  IInv'
<1>. USE DEF Environment, Serve, ChangeUsable, ChangeViewers, mapVars
<1>1. TypeOK'
  BY DEF IInv, TypeOK, Call, Labels, Operations
<1>2. LockIsHeld'
  BY DEF IInv, TypeOK, LockIsHeld, MapIsPublished, Working, At, Call,
         Labels
<1>3. WritesAreSound'
  BY DEF IInv, TypeOK, LockIsHeld, WritesAreSound, MapIsPublished, Working, At,
         Inserts, Call
<1>4. MapIsPublished'
  BY DEF IInv, TypeOK, MapIsPublished, LockIsHeld, At, Working, Call
<1>5. ViewersAreKnown' /\ GrantsNothing'
  BY DEF IInv, TypeOK, ViewersAreKnown, GrantsNothing, At, Call
<1>. QED
  BY <1>1, <1>2, <1>3, <1>4, <1>5, MapIsKept DEF IInv

(* A request ends by an exception. *)
LEMMA RefuseIInv ==
  ASSUME NEW r \in Requests, IInv, Refuse(r)
  PROVE  IInv'
<1>. USE DEF Refuse, Update, mapVars, Idle
<1>1. TypeOK'
  BY DEF IInv, TypeOK, Call, Labels, Operations, Idle
<1>2. LockIsHeld'
  BY DEF IInv, TypeOK, LockIsHeld, MapIsPublished, Working, At, Call,
         Labels, Idle
<1>3. WritesAreSound'
  BY DEF IInv, TypeOK, LockIsHeld, WritesAreSound, MapIsPublished, Working, At,
         Inserts, Call, Idle
<1>4. MapIsPublished'
  BY DEF IInv, TypeOK, MapIsPublished, LockIsHeld, At, Working, Call, Idle
<1>5. ViewersAreKnown' /\ GrantsNothing'
  BY DEF IInv, TypeOK, ViewersAreKnown, GrantsNothing, At, Call, Idle
<1>. QED
  BY <1>1, <1>2, <1>3, <1>4, <1>5, MapIsKept DEF IInv

(* A map is to be created. *)
LEMMA CreateMapIInv ==
  ASSUME NEW r \in Requests, IInv, CreateMap(r)
  PROVE  IInv'
<1>. USE DEF CreateMap, Arrive, Update, mapVars, Idle, Doing
<1>1. TypeOK'
  <2>1. PICK document \in Layers :
          Arrive(r, [Idle EXCEPT !.op = "create", !.document = document,
                                 !.pc = "datasets"])
    BY DEF CreateMap
  <2>2. [Idle EXCEPT !.op = "create", !.document = document,
                     !.pc = "datasets"] \in Call
    BY DEF Idle, Call, Labels, Operations
  <2>. QED
    BY <2>1, <2>2, ArriveTypeOK DEF IInv
<1>2. LockIsHeld'
  BY DEF IInv, TypeOK, LockIsHeld, MapIsPublished, Working, At, Call,
         Labels, Idle
<1>3. WritesAreSound'
  BY DEF IInv, TypeOK, LockIsHeld, WritesAreSound, MapIsPublished, Working, At,
         Inserts, Call, Idle
<1>4. MapIsPublished'
  BY DEF IInv, TypeOK, MapIsPublished, LockIsHeld, At, Working, Call, Idle
<1>5. ViewersAreKnown' /\ GrantsNothing'
  BY DEF IInv, TypeOK, ViewersAreKnown, GrantsNothing, At, Call, Idle
<1>. QED
  BY <1>1, <1>2, <1>3, <1>4, <1>5, MapIsKept DEF IInv

(* A version is to be saved. *)
LEMMA CreateMapVersionIInv ==
  ASSUME NEW r \in Requests, IInv, CreateMapVersion(r)
  PROVE  IInv'
<1>. USE DEF CreateMapVersion, Arrive, Update, mapVars, Idle, Doing
<1>1. TypeOK'
  <2>1. PICK op \in {"save", "keep"}, document \in Layers :
          Arrive(r, [Idle EXCEPT !.op = op, !.document = document,
                                 !.pc = "locking"])
    BY DEF CreateMapVersion
  <2>2. [Idle EXCEPT !.op = op, !.document = document,
                     !.pc = "locking"] \in Call
    BY DEF Idle, Call, Labels, Operations
  <2>. QED
    BY <2>1, <2>2, ArriveTypeOK DEF IInv
<1>2. LockIsHeld'
  BY SMTT(30) DEF IInv, TypeOK, LockIsHeld, MapIsPublished, Working, At, Call,
         Labels, Idle
<1>3. WritesAreSound'
  BY SMTT(30)
     DEF IInv, TypeOK, LockIsHeld, WritesAreSound, MapIsPublished, Working, At,
         Inserts, Call, Idle
<1>4. MapIsPublished'
  BY DEF IInv, TypeOK, MapIsPublished, LockIsHeld, At, Working, Call, Idle
<1>5. ViewersAreKnown' /\ GrantsNothing'
  BY DEF IInv, TypeOK, ViewersAreKnown, GrantsNothing, At, Call, Idle
<1>. QED
  BY <1>1, <1>2, <1>3, <1>4, <1>5, MapIsKept DEF IInv

(* A map is to be read. *)
LEMMA GetMapIInv ==
  ASSUME NEW r \in Requests, IInv, GetMap(r)
  PROVE  IInv'
<1>. USE DEF GetMap, Arrive, Update, mapVars, Idle, Doing
<1>1. TypeOK'
  BY DEF IInv, TypeOK, Call, Labels, Operations, Idle
<1>2. LockIsHeld'
  BY DEF IInv, TypeOK, LockIsHeld, MapIsPublished, Working, At, Call,
         Labels, Idle
<1>3. WritesAreSound'
  BY DEF IInv, TypeOK, LockIsHeld, WritesAreSound, MapIsPublished, Working, At,
         Inserts, Call, Idle
<1>4. MapIsPublished'
  BY DEF IInv, TypeOK, MapIsPublished, LockIsHeld, At, Working, Call, Idle
<1>5. ViewersAreKnown' /\ GrantsNothing'
  BY DEF IInv, TypeOK, ViewersAreKnown, GrantsNothing, At, Call, Idle
<1>. QED
  BY <1>1, <1>2, <1>3, <1>4, <1>5, MapIsKept DEF IInv

(* A version is to be activated. *)
LEMMA ActivateMapVersionIInv ==
  ASSUME NEW r \in Requests, IInv, ActivateMapVersion(r)
  PROVE  IInv'
<1>1. call \in [Requests -> Call]
  BY DEF IInv, TypeOK
<1>0. PICK at \in DOMAIN rows :
        Arrive(r, [Idle EXCEPT !.op = "activate", !.at = at, !.pc = "locking"])
  BY DEF ActivateMapVersion
<1>. DEFINE new == [Idle EXCEPT !.op = "activate", !.at = at, !.pc = "locking"]
<1>2. new \in Call
  BY <1>0, Places DEF IInv, Idle, Call, Labels, Operations
<1>4. /\ At(r, "idle")
      /\ \A q \in Requests : call'[q] = IF q = r THEN new ELSE call[q]
      /\ call' = [call EXCEPT ![r] = new]
      /\ \/ viewers' = viewers \union {r} /\ allowed' = allowed \union {r}
         \/ UNCHANGED <<viewers, allowed>>
      /\ UNCHANGED <<current, usable, lock>> /\ UNCHANGED mapVars
  BY <1>0, <1>1 DEF Arrive, Update
<1>3. new.pc = "locking" /\ new.op = "activate" /\ new.at = at
      /\ new.document = NoDocument
  BY <1>1 DEF Call, Idle
<1>. HIDE DEF new
<1>5. TypeOK'
  BY <1>1, <1>2, <1>4 DEF IInv, TypeOK, mapVars
<1>6. LockIsHeld'
  BY <1>1, <1>2, <1>3, <1>4, SMTT(30)
     DEF IInv, LockIsHeld, MapIsPublished, Working, At,
         Labels, Operations, mapVars, Call
<1>7. WritesAreSound'
  BY <1>1, <1>2, <1>3, <1>4, <1>0 DEF IInv, LockIsHeld, WritesAreSound,
         MapIsPublished, Working, At, Inserts, mapVars
<1>8. MapIsPublished'
  BY <1>1, <1>2, <1>3, <1>4 DEF IInv, MapIsPublished, LockIsHeld, At, Working,
         mapVars
<1>9. ViewersAreKnown' /\ GrantsNothing'
  BY <1>1, <1>2, <1>3, <1>4 DEF IInv, ViewersAreKnown, GrantsNothing, At,
         dataVars
<1>. QED
  BY <1>4, <1>5, <1>6, <1>7, <1>8, <1>9, MapIsKept DEF IInv

(* A request takes the lock. *)
LEMMA LockedEditableMapIInv ==
  ASSUME NEW r \in Requests, IInv, LockedEditableMap(r)
  PROVE  IInv'
<1>. DEFINE new == [Found(r) EXCEPT !.pc = "datasets"]
<1>1. call \in [Requests -> Call]
  BY DEF IInv, TypeOK
<1>0. Found(r) \in Call
  <2>1. published \in Nat
    BY DEF IInv, TypeOK
  <2>2. CASE call[r].op = "activate"
    <3>1. /\ rows[call[r].at].document \in Layers
          /\ rows[call[r].at].count \in Nat
      BY <2>2, Places DEF IInv, WritesAreSound
    <3>. QED
      BY <1>1, <2>1, <2>2, <3>1 DEF Found, Call
  <2>3. CASE call[r].op # "activate"
    BY <1>1, <2>1, <2>3 DEF Found, Call
  <2>. QED
    BY <2>2, <2>3
<1>2. new \in Call
  BY <1>0 DEF Call, Labels
<1>10. new.document \in Layers
  <2>1. call[r].op \in Operations \ {"get", "create"}
    BY <1>1 DEF IInv, LockIsHeld, LockedEditableMap, At, Working, Call
  <2>2. CASE call[r].op = "activate"
    BY <1>0, <2>2, Places DEF IInv, WritesAreSound, Found, Call
  <2>3. CASE call[r].op # "activate"
    BY <1>0, <1>1, <2>1, <2>3 DEF IInv, WritesAreSound, Found, Call, Inserts,
       Operations
  <2>. QED
    BY <2>2, <2>3
<1>4. /\ At(r, "locking") /\ lock = Nobody /\ lock' = r
      /\ call[r].op # "activate" => ValidReference(call[r].document)
      /\ \A q \in Requests : call'[q] = IF q = r THEN new ELSE call[q]
      /\ call' = [call EXCEPT ![r] = new]
      /\ UNCHANGED dataVars /\ UNCHANGED mapVars /\ UNCHANGED allowed
  BY <1>1 DEF LockedEditableMap, Update
<1>3. /\ new.pc = "datasets" /\ new.op = call[r].op /\ new.at = call[r].at
      /\ new.from = published
      /\ call[r].op # "activate" => /\ new.document = call[r].document
                                    /\ new.number = call[r].number
                                    /\ new.count = call[r].count
      /\ call[r].op = "activate" =>
           /\ new.document = rows[call[r].at].document
           /\ new.count = rows[call[r].at].count
  BY <1>1 DEF Call, Idle, Found
<1>. HIDE DEF new
<1>5. TypeOK'
  BY <1>1, <1>2, <1>4 DEF IInv, TypeOK, dataVars, mapVars
<1>6. LockIsHeld'
  BY <1>1, <1>2, <1>3, <1>4 DEF IInv, LockIsHeld, MapIsPublished, Working, At,
         Labels, Operations, mapVars
<1>7. WritesAreSound'
  BY <1>1, <1>2, <1>3, <1>4, <1>10 DEF IInv, LockIsHeld, WritesAreSound,
         MapIsPublished, Working, At, Inserts, mapVars
<1>8. MapIsPublished'
  BY <1>1, <1>2, <1>3, <1>4 DEF IInv, MapIsPublished, LockIsHeld, At, Working,
         mapVars
<1>9. ViewersAreKnown' /\ GrantsNothing'
  BY <1>1, <1>2, <1>3, <1>4 DEF IInv, ViewersAreKnown, GrantsNothing, At,
         dataVars
<1>. QED
  BY <1>4, <1>5, <1>6, <1>7, <1>8, <1>9, MapIsKept DEF IInv

(* A request reads the datasets it refers to. *)
LEMMA ReadDatasetsIInv ==
  ASSUME NEW r \in Requests, IInv, ReadDatasets(r)
  PROVE  IInv'
<1>. DEFINE new == [call[r] EXCEPT !.pc = "layers",
                            !.source = Resolved(call[r].document)]
<1>1. call \in [Requests -> Call]
  BY DEF IInv, TypeOK
<1>0. Resolved(call[r].document) \in DatasetVersions \union {NoVersion}
  BY DEF IInv, TypeOK, WritesAreSound, Working, At, Resolved, Layers,
         ReadDatasets
<1>2. new \in Call
  BY <1>0, <1>1 DEF Call, Labels
<1>4. /\ At(r, "datasets") /\ r \in viewers
      /\ \A q \in Requests : call'[q] = IF q = r THEN new ELSE call[q]
      /\ call' = [call EXCEPT ![r] = new]
      /\ UNCHANGED dataVars /\ UNCHANGED mapVars /\ UNCHANGED <<lock, allowed>>
  BY <1>1 DEF ReadDatasets, Update
<1>3. /\ new.pc = "layers" /\ new.op = call[r].op
      /\ new.document = call[r].document /\ new.at = call[r].at
      /\ new.count = call[r].count /\ new.from = call[r].from
  BY <1>1 DEF Call, Idle
<1>. HIDE DEF new
<1>5. TypeOK'
  BY <1>1, <1>2, <1>4 DEF IInv, TypeOK, dataVars, mapVars
<1>6. LockIsHeld'
  BY <1>1, <1>2, <1>3, <1>4 DEF IInv, LockIsHeld, MapIsPublished, Working, At,
         Labels, Operations, mapVars
<1>7. WritesAreSound'
  BY <1>1, <1>2, <1>3, <1>4 DEF IInv, LockIsHeld, WritesAreSound,
         MapIsPublished, Working, At, Inserts, mapVars
<1>8. MapIsPublished'
  BY <1>1, <1>2, <1>3, <1>4 DEF IInv, MapIsPublished, LockIsHeld, At, Working,
         mapVars
<1>9. ViewersAreKnown' /\ GrantsNothing'
  BY <1>1, <1>2, <1>3, <1>4 DEF IInv, ViewersAreKnown, GrantsNothing, At,
         dataVars
<1>. QED
  BY <1>4, <1>5, <1>6, <1>7, <1>8, <1>9, MapIsKept DEF IInv

(* Numbers being places, the highest is that of the last version.          *)
LEMMA MaximumIs ==
  ASSUME IInv
  PROVE  Maximum = Len(rows)
<1>1. CASE rows = <<>>
  BY <1>1 DEF Maximum
<1>2. CASE rows # <<>>
  <2>1. Len(rows) \in DOMAIN rows
    BY <1>2 DEF IInv, TypeOK
  <2>2. {rows[i].number : i \in DOMAIN rows} = DOMAIN rows
    BY DEF IInv, VersionsAreNumbered
  <2>3. \A i \in DOMAIN rows : rows[i].number <= Len(rows)
    BY DEF IInv, TypeOK, VersionsAreNumbered
  <2>4. \A n \in DOMAIN rows :
          (\A i \in DOMAIN rows : rows[i].number <= n) => n = Len(rows)
    BY <2>1 DEF IInv, TypeOK, VersionsAreNumbered
  <2>. QED
    BY <1>2, <2>1, <2>2, <2>3, <2>4 DEF Maximum
<1>. QED
  BY <1>1, <1>2

(* A request reads the versions and layers it refers to. *)
LEMMA ReadLayersIInv ==
  ASSUME NEW r \in Requests, IInv, ReadLayers(r)
  PROVE  IInv'
<1>. DEFINE new == [call[r] EXCEPT
                    !.pc = IF call[r].op = "get" THEN "shown"
                           ELSE "committing",
                    !.number = IF Inserts(r) THEN Maximum + 1 ELSE 0]
<1>1. call \in [Requests -> Call]
  BY DEF IInv, TypeOK
<1>0. Maximum + 1 = Len(rows) + 1 /\ Len(rows) + 1 \in Nat
  BY MaximumIs, Places DEF IInv
<1>2. new \in Call
  BY <1>0, <1>1 DEF Call, Labels
<1>4. /\ At(r, "layers")
      /\ \A q \in Requests : call'[q] = IF q = r THEN new ELSE call[q]
      /\ call' = [call EXCEPT ![r] = new]
      /\ UNCHANGED dataVars /\ UNCHANGED mapVars /\ UNCHANGED <<lock, allowed>>
  BY <1>1 DEF ReadLayers, Update
<1>3. /\ new.pc = IF call[r].op = "get" THEN "shown" ELSE "committing"
      /\ new.op = call[r].op /\ new.document = call[r].document
      /\ new.at = call[r].at /\ new.count = call[r].count
      /\ new.from = call[r].from
      /\ Inserts(r) => new.number = Maximum + 1
  BY <1>1 DEF Call, Idle
<1>. HIDE DEF new
<1>5. TypeOK'
  BY <1>1, <1>2, <1>4 DEF IInv, TypeOK, dataVars, mapVars
<1>6. LockIsHeld'
  BY <1>1, <1>2, <1>3, <1>4 DEF IInv, LockIsHeld, MapIsPublished, Working, At,
         Labels, Operations, mapVars
<1>7. WritesAreSound'
  BY <1>1, <1>2, <1>3, <1>4, <1>0 DEF IInv, LockIsHeld, WritesAreSound,
         MapIsPublished, Working, At, Inserts, mapVars
<1>8. MapIsPublished'
  BY <1>1, <1>2, <1>3, <1>4 DEF IInv, MapIsPublished, LockIsHeld, At, Working,
         mapVars
<1>9. ViewersAreKnown' /\ GrantsNothing'
  BY <1>1, <1>2, <1>3, <1>4 DEF IInv, ViewersAreKnown, GrantsNothing, At,
         dataVars
<1>. QED
  BY <1>4, <1>5, <1>6, <1>7, <1>8, <1>9, MapIsKept DEF IInv

(* A request reads the published version. *)
LEMMA ReloadIInv ==
  ASSUME NEW r \in Requests, IInv, Reload(r)
  PROVE  IInv'
<1>. DEFINE new == [Idle EXCEPT !.document = rows[published].document,
                         !.pc = "datasets"]
<1>1. call \in [Requests -> Call]
  BY DEF IInv, TypeOK
<1>0. rows[published].document \in Layers
  <2>1. rows # <<>>
    BY DEF IInv, MapIsPublished, LockIsHeld, Working, At, Reload
  <2>2. published \in DOMAIN rows
    BY <2>1, Places DEF IInv, TypeOK, MapIsPublished
  <2>. QED
    BY <2>2, Places DEF IInv
<1>2. new \in Call
  BY <1>0 DEF Idle, Call, Labels, Operations
<1>4. /\ At(r, "reloading")
      /\ \A q \in Requests : call'[q] = IF q = r THEN new ELSE call[q]
      /\ call' = [call EXCEPT ![r] = new]
      /\ UNCHANGED dataVars /\ UNCHANGED mapVars /\ UNCHANGED <<lock, allowed>>
  BY <1>1 DEF Reload, Update
<1>3. /\ new.pc = "datasets" /\ new.op = "get"
      /\ new.document = rows[published].document
  BY <1>1 DEF Call, Idle
<1>. HIDE DEF new
<1>5. TypeOK'
  BY <1>1, <1>2, <1>4 DEF IInv, TypeOK, dataVars, mapVars
<1>6. LockIsHeld'
  BY <1>1, <1>2, <1>3, <1>4 DEF IInv, LockIsHeld, MapIsPublished, Working, At,
         Labels, Operations, mapVars
<1>7. WritesAreSound'
  BY <1>1, <1>2, <1>3, <1>4, <1>0 DEF IInv, LockIsHeld, WritesAreSound,
         MapIsPublished, Working, At, Inserts, mapVars
<1>8. MapIsPublished'
  BY <1>1, <1>2, <1>3, <1>4 DEF IInv, MapIsPublished, LockIsHeld, At, Working,
         mapVars
<1>9. ViewersAreKnown' /\ GrantsNothing'
  BY <1>1, <1>2, <1>3, <1>4 DEF IInv, ViewersAreKnown, GrantsNothing, At,
         dataVars
<1>. QED
  BY <1>4, <1>5, <1>6, <1>7, <1>8, <1>9, MapIsKept DEF IInv

(* A request shows what it read. *)
LEMMA ReplyIInv ==
  ASSUME NEW r \in Requests, IInv, Reply(r)
  PROVE  IInv'
<1>. USE DEF Reply, Update, mapVars, Idle
<1>1. TypeOK'
  BY DEF IInv, TypeOK, Call, Labels, Operations, Idle
<1>2. LockIsHeld'
  BY DEF IInv, TypeOK, LockIsHeld, MapIsPublished, Working, At, Call,
         Labels, Idle
<1>3. WritesAreSound'
  BY DEF IInv, TypeOK, LockIsHeld, WritesAreSound, MapIsPublished, Working, At,
         Inserts, Call, Idle
<1>4. MapIsPublished'
  BY DEF IInv, TypeOK, MapIsPublished, LockIsHeld, At, Working, Call, Idle
<1>5. ViewersAreKnown' /\ GrantsNothing'
  BY DEF IInv, TypeOK, ViewersAreKnown, GrantsNothing, At, Call, Idle
<1>. QED
  BY <1>1, <1>2, <1>3, <1>4, <1>5, MapIsKept DEF IInv

(* The writes of a transaction.                                            *)

Activations == Seq([from : Nat, to : Nat, action : Actions])

LEMMA ChainGrows ==
  ASSUME NEW record \in Activations, NEW place, Chain(place, record),
         NEW to \in Nat, NEW action \in Actions, place \in Nat,
         action = "INITIAL" <=> record = <<>>,
         action = "ROLLBACK" <=> to < place
  PROVE  Chain(to, Append(record,
                          [from |-> place, to |-> to, action |-> action]))
<1>. DEFINE T == [from : Nat, to : Nat, action : Actions]
            e == [from |-> place, to |-> to, action |-> action]
            next == Append(record, e)
<1>1. /\ e \in T /\ e.from = place /\ e.to = to /\ e.action = action
      /\ record \in Seq(T)
  BY DEF Activations
<1>. HIDE DEF e, T
<1>2. /\ Len(record) \in Nat /\ DOMAIN record = 1..Len(record)
      /\ (record = <<>>) = (Len(record) = 0)
  BY <1>1
<1>3. /\ next # <<>> /\ Len(next) = Len(record) + 1
      /\ DOMAIN next = 1..(Len(record) + 1)
      /\ \A i \in 1..Len(record) : next[i] = record[i]
      /\ next[Len(record) + 1] = e
  BY <1>1
<1>. HIDE DEF next
<1>4. to = Last(next).to
  BY <1>1, <1>3 DEF Last
<1>5. ASSUME NEW i \in DOMAIN next
      PROVE  /\ next[i].from = IF i = 1 THEN 0 ELSE next[i - 1].to
             /\ next[i].action = "INITIAL" <=> i = 1
             /\ next[i].action = "ROLLBACK" <=> next[i].to < next[i].from
  <2>1. CASE i \in 1..Len(record)
    BY <1>2, <1>3, <2>1 DEF Chain
  <2>2. CASE i = Len(record) + 1
    <3>1. place = IF i = 1 THEN 0 ELSE next[i - 1].to
      BY <1>2, <1>3, <2>2 DEF Chain, Last
    <3>. QED
      BY <1>1, <1>2, <1>3, <2>2, <3>1
  <2>. QED
    BY <1>2, <1>3, <2>1, <2>2
<1>. QED
  BY <1>3, <1>4, <1>5 DEF Chain, e, next

LEMMA TimesIsNat ==
  ASSUME NEW record \in Activations, NEW i
  PROVE  /\ IsFiniteSet({k \in DOMAIN record : record[k].to = i})
         /\ Times(record, i) \in Nat
<1>1. DOMAIN record = 1..Len(record) /\ Len(record) \in Nat
  BY DEF Activations
<1>2. IsFiniteSet(DOMAIN record)
  BY <1>1, FS_Interval
<1>3. {k \in DOMAIN record : record[k].to = i} \in SUBSET DOMAIN record
  OBVIOUS
<1>4. IsFiniteSet({k \in DOMAIN record : record[k].to = i})
  BY <1>2, <1>3, FS_Subset
<1>. QED
  BY <1>4, FS_CardinalityType DEF Times

(* One more activation is counted for the version it arrives at.           *)
LEMMA TimesGrows ==
  ASSUME NEW record \in Activations, NEW i \in Nat,
         NEW e \in [from : Nat, to : Nat, action : Actions]
  PROVE  Times(Append(record, e), i)
           = Times(record, i) + (IF e.to = i THEN 1 ELSE 0)
<1>. DEFINE old == {k \in DOMAIN record : record[k].to = i}
            new == {k \in DOMAIN Append(record, e) :
                      Append(record, e)[k].to = i}
<1>1. new = IF e.to = i THEN old \union {Len(record) + 1} ELSE old
  BY DEF Activations
<1>2. Len(record) + 1 \notin old
  BY DEF Activations
<1>3. IsFiniteSet(old) /\ Cardinality(old) \in Nat
  BY TimesIsNat DEF Times
<1>4. Times(Append(record, e), i) = Cardinality(new)
      /\ Times(record, i) = Cardinality(old)
  BY DEF Times
<1>. HIDE DEF old, new
<1>5. Cardinality(old \union {Len(record) + 1}) = Cardinality(old) + 1
  BY <1>2, <1>3, FS_AddElement
<1>. QED
  BY <1>1, <1>3, <1>4, <1>5

(* What _activate_version does to the versions.                            *)
LEMMA ShownIs ==
  ASSUME NEW row \in VersionRow
  PROVE  LET next == Shown(row, row.count) IN
         /\ next \in VersionRow /\ next.number = row.number
         /\ next.document = row.document /\ next.count = row.count + 1
         /\ next.activated = TRUE /\ next.deactivated = FALSE
<1>1. row.count + 1 \in Nat
  BY DEF VersionRow
<1>. QED
  BY <1>1 DEF VersionRow, Shown

LEMMA RetiredIs ==
  ASSUME NEW row \in VersionRow
  PROVE  LET next == Retired(row) IN
         /\ next \in VersionRow /\ next.number = row.number
         /\ next.document = row.document /\ next.count = row.count
         /\ next.activated = row.activated /\ next.deactivated = TRUE
  BY DEF VersionRow, Retired

(* What an activation of place "to" makes of the row at place i.            *)
Moved(next, row, i, to, from) ==
  /\ next \in VersionRow
  /\ next.number = row.number /\ next.document = row.document
  /\ next.count = row.count + (IF i = to THEN 1 ELSE 0)
  /\ next.activated <=> i = to \/ row.activated
  /\ next.deactivated <=> i # to /\ (i = from \/ row.deactivated)

LEMMA ActivatedAt ==
  ASSUME NEW table \in Seq(VersionRow), NEW to \in DOMAIN table,
         NEW from \in Nat, NEW i \in DOMAIN table
  PROVE  Moved(Activated(table, to, from, table[to].count)[i], table[i],
               i, to, from)
<1>. DEFINE next == Activated(table, to, from, table[to].count)[i]
<1>1. table[i] \in VersionRow
  OBVIOUS
<1>2. CASE i = to
  <2>0. next = Shown(table[i], table[to].count)
    BY <1>2 DEF Activated
  <2>. HIDE DEF next
  <2>1. next = Shown(table[i], table[i].count)
    BY <1>2, <2>0
  <2>. QED
    BY <1>1, <1>2, <2>1, ShownIs DEF next, Moved
<1>3. CASE i # to /\ i = from
  <2>1. next = Retired(table[i])
    BY <1>3 DEF Activated
  <2>. HIDE DEF next
  <2>2. table[i].count + 0 = table[i].count
    BY <1>1 DEF VersionRow
  <2>. QED
    BY <1>1, <1>3, <2>1, <2>2, RetiredIs DEF next, Moved
<1>4. CASE i # to /\ i # from
  <2>1. next = table[i]
    BY <1>4 DEF Activated
  <2>. HIDE DEF next
  <2>. QED
    BY <1>1, <1>4, <2>1 DEF VersionRow, next, Moved
<1>. QED
  BY <1>2, <1>3, <1>4

LEMMA ActivatedIsSeq ==
  ASSUME NEW table \in Seq(VersionRow), NEW to \in DOMAIN table,
         NEW from \in Nat, NEW next,
         next = Activated(table, to, from, table[to].count)
  PROVE  /\ next \in Seq(VersionRow) /\ Len(next) = Len(table)
         /\ DOMAIN next = DOMAIN table
<1>1. next = [i \in DOMAIN table |-> next[i]] /\ DOMAIN next = DOMAIN table
  BY DEF Activated
<1>2. \A i \in DOMAIN table : next[i] \in VersionRow
  BY ActivatedAt DEF Moved
<1>. QED
  BY <1>1, <1>2, SMTT(30)

LEMMA ActivatedKeeps ==
  ASSUME NEW table \in Seq(VersionRow), NEW to \in DOMAIN table,
         NEW from \in Nat, NEW next,
         next = Activated(table, to, from, table[to].count),
         NEW i \in DOMAIN table
  PROVE  /\ next[i].number = table[i].number
         /\ next[i].document = table[i].document
  BY ActivatedAt DEF Moved

LEMMA ActivatedIsCounted ==
  ASSUME NEW table \in Seq(VersionRow), NEW record \in Activations,
         NEW place \in Nat, Counted(table, place, record),
         NEW to \in DOMAIN table, NEW action \in Actions
  PROVE  Counted(Activated(table, to, place, table[to].count), to,
                 Append(record,
                        [from |-> place, to |-> to, action |-> action]))
<1>. DEFINE e == [from |-> place, to |-> to, action |-> action]
            next == Append(record, e)
            result == Activated(table, to, place, table[to].count)
<1>0. to \in Nat
  OBVIOUS
<1>1. e \in [from : Nat, to : Nat, action : Actions] /\ e.to = to
  BY <1>0
<1>. HIDE DEF e
<1>2. \A i \in Nat : Times(next, i)
                       = Times(record, i) + (IF to = i THEN 1 ELSE 0)
  BY <1>1, TimesGrows
<1>. HIDE DEF result, next
<1>3. \A i \in DOMAIN table : i \in Nat /\ table[i] \in VersionRow
  OBVIOUS
<1>4. /\ DOMAIN result = DOMAIN table
      /\ \A i \in DOMAIN table :
           /\ result[i].count = table[i].count + (IF i = to THEN 1 ELSE 0)
           /\ result[i].activated <=> i = to \/ table[i].activated
           /\ result[i].deactivated <=>
                i # to /\ (i = place \/ table[i].deactivated)
  <2>1. DOMAIN result = DOMAIN table
    BY ActivatedIsSeq DEF result
  <2>2. ASSUME NEW i \in DOMAIN table
        PROVE  /\ result[i].count = table[i].count + (IF i = to THEN 1 ELSE 0)
               /\ result[i].activated <=> i = to \/ table[i].activated
               /\ result[i].deactivated <=>
                    i # to /\ (i = place \/ table[i].deactivated)
    <3>1. Moved(result[i], table[i], i, to, place)
      BY ActivatedAt DEF result
    <3>. QED
      BY <3>1, Zenon DEF Moved
  <2>. QED
    BY <2>1, <2>2
<1>5. ASSUME NEW i \in DOMAIN table
      PROVE  /\ result[i].count = Times(next, i)
             /\ result[i].activated <=> result[i].count > 0
             /\ result[i].activated /\ ~result[i].deactivated <=> to = i
  <2>1. Times(record, i) \in Nat /\ table[i].count = Times(record, i)
    BY TimesIsNat DEF Counted
  <2>2. result[i].count = Times(next, i)
    BY <1>2, <1>3, <1>4, <2>1
  <2>3. result[i].activated <=> result[i].count > 0
    <3>1. table[i].activated <=> table[i].count > 0
      BY DEF Counted
    <3>2. table[i].count \in Nat
      BY <1>3 DEF VersionRow
    <3>. QED
      BY <1>4, <3>1, <3>2
  <2>4. result[i].activated /\ ~result[i].deactivated <=> to = i
    BY <1>3, <1>4, <2>1 DEF Counted, VersionRow
  <2>. QED
    BY <2>2, <2>3, <2>4
<1>. QED
  BY <1>4, <1>5 DEF Counted, e, next, result

(* A version nobody has activated yet.                                     *)
LEMMA InsertedIsCounted ==
  ASSUME IInv, NEW document \in Layers
  PROVE  LET table == Append(rows, Row(Len(rows) + 1, document)) IN
         /\ table \in Seq(VersionRow) /\ Len(table) = Len(rows) + 1
         /\ \A i \in DOMAIN rows : table[i] = rows[i]
         /\ table[Len(rows) + 1] = Row(Len(rows) + 1, document)
         /\ Counted(table, published, history)
<1>. DEFINE row == Row(Len(rows) + 1, document)
            table == Append(rows, row)
<1>1. row \in VersionRow /\ row.count = 0 /\ row.activated = FALSE
  BY DEF Row, VersionRow, IInv, TypeOK
<1>2. rows \in Seq(VersionRow)
  BY DEF IInv, TypeOK
<1>. HIDE DEF row
<1>3. /\ table \in Seq(VersionRow) /\ Len(table) = Len(rows) + 1
      /\ \A i \in DOMAIN rows : table[i] = rows[i]
      /\ table[Len(rows) + 1] = row
      /\ DOMAIN table = DOMAIN rows \union {Len(rows) + 1}
  BY <1>1, <1>2
<1>4. Counted(rows, published, history)
  BY DEF IInv, ActivationsChain
<1>5. Times(history, Len(rows) + 1) = 0
  <2>1. {k \in DOMAIN history : history[k].to = Len(rows) + 1} = {}
    BY DEF IInv, TypeOK
  <2>. QED
    BY <2>1, FS_EmptySet DEF Times
<1>6. published # Len(rows) + 1
  BY DEF IInv, TypeOK
<1>7. Counted(table, published, history)
  BY <1>1, <1>3, <1>4, <1>5, <1>6 DEF Counted
<1>. QED
  BY <1>3, <1>7 DEF row

(* Nobody else is past the lock when a request commits.                    *)
LEMMA CommitsAlone ==
  ASSUME IInv, NEW r \in Requests, At(r, "committing")
  PROVE  \A q \in Requests \ {r} :
           /\ call[q].op # "create"
           /\ call[q].op \in {"save", "keep", "activate"} => At(q, "locking")
<1>1. Working(r)
  BY DEF At, Working
<1>2. call[r].op \in Operations \ {"get"} /\ call[r].pc # "idle"
  BY DEF IInv, TypeOK, LockIsHeld, At, Call
<1>3. ASSUME NEW q \in Requests \ {r}
      PROVE  /\ call[q].op # "create"
             /\ call[q].op \in {"save", "keep", "activate"} =>
                  At(q, "locking")
  <2>1. call[q].op # "create"
    BY <1>2, <1>3 DEF IInv, LockIsHeld, At
  <2>2. CASE call[r].op = "create"
    BY <2>2, <1>3 DEF IInv, LockIsHeld, At, Idle
  <2>3. CASE call[r].op # "create"
    BY <2>1, <2>3, <1>1, <1>2, <1>3 DEF IInv, LockIsHeld, Operations
  <2>. QED
    BY <2>1, <2>2, <2>3
<1>. QED
  BY <1>3

(* The number is never taken.                                              *)
LEMMA NumberIsFree ==
  ASSUME IInv, NEW r \in Requests, At(r, "committing")
  PROVE  ~Taken(r)
  BY DEF IInv, TypeOK, Taken, WritesAreSound, VersionsAreNumbered

(* What an insert writes.                                                  *)
LEMMA InsertedIs ==
  ASSUME IInv, NEW r \in Requests, At(r, "committing"), Inserts(r)
  PROVE  /\ Inserted(r) = Append(rows, Row(Len(rows) + 1, call[r].document))
         /\ call[r].document \in Layers /\ ValidReference(call[r].document)
  BY DEF IInv, WritesAreSound, Inserted, At

(* The versions as they are when one of them is activated.                 *)
LEMMA TableIs ==
  ASSUME IInv, NEW r \in Requests, At(r, "committing"),
         NEW table, table = Inserted(r)
  PROVE  /\ table \in Seq(VersionRow) /\ Len(rows) <= Len(table)
         /\ \A i \in DOMAIN rows : i \in DOMAIN table
                                   /\ table[i].document = rows[i].document
         /\ Counted(table, published, history)
         /\ \A i \in DOMAIN table : /\ table[i].number = i
                                    /\ ValidReference(table[i].document)
         /\ Inserts(r) => /\ Len(table) = Len(rows) + 1
                          /\ table[Len(table)].count = 0
         /\ ~Inserts(r) => table = rows
<1>1. /\ rows \in Seq(VersionRow) /\ Len(rows) \in Nat
      /\ DOMAIN rows = 1..Len(rows)
  BY Places DEF IInv, TypeOK
<1>2. \A i \in DOMAIN rows : /\ rows[i].number = i
                             /\ ValidReference(rows[i].document)
  BY Places DEF IInv, VersionsAreNumbered, ReferencesAreSound, ValidReference,
                Layers, LayerKinds, BindingModes
<1>3. CASE ~Inserts(r)
  <2>1. table = rows
    BY <1>3 DEF Inserted
  <2>2. Counted(rows, published, history)
    BY DEF IInv, ActivationsChain
  <2>3. Len(rows) <= Len(table)
    BY <1>1, <2>1
  <2>. QED
    BY <1>1, <1>2, <1>3, <2>1, <2>2, <2>3, Zenon
<1>4. CASE Inserts(r)
  <2>. DEFINE row == Row(Len(rows) + 1, call[r].document)
  <2>1. /\ table = Append(rows, row)
        /\ call[r].document \in Layers /\ ValidReference(call[r].document)
    BY <1>4, InsertedIs
  <2>2. /\ table \in Seq(VersionRow) /\ Len(table) = Len(rows) + 1
        /\ \A i \in DOMAIN rows : table[i] = rows[i]
        /\ table[Len(rows) + 1] = row
        /\ Counted(table, published, history)
    BY <2>1, InsertedIsCounted
  <2>3. /\ row.number = Len(rows) + 1 /\ row.document = call[r].document
        /\ row.count = 0
    BY DEF Row
  <2>4. \A i \in DOMAIN table : i \in DOMAIN rows \/ i = Len(rows) + 1
    BY <1>1, <2>2
  <2>. HIDE DEF row
  <2>5. \A i \in DOMAIN rows : i \in DOMAIN table
                               /\ table[i].document = rows[i].document
    BY <1>1, <2>2
  <2>6. \A i \in DOMAIN table : table[i].number = i
    BY <1>2, <2>2, <2>3, <2>4
  <2>7. \A i \in DOMAIN table : ValidReference(table[i].document)
    <3>1. table[Len(rows) + 1].document = call[r].document
      BY <2>2, <2>3
    <3>. QED
      BY <1>2, <2>1, <2>2, <2>4, <3>1
  <2>8. table[Len(table)].count = 0
    BY <2>2, <2>3
  <2>9. Len(rows) <= Len(table)
    BY <1>1, <2>2
  <2>. QED
    BY <1>4, <2>2, <2>5, <2>6, <2>7, <2>8, <2>9, Zenon
<1>. QED
  BY <1>3, <1>4

(* An activation recorded between versions there are.                      *)
LEMMA HistoryReaches ==
  ASSUME NEW record \in Activations, NEW n \in Nat, NEW m \in Nat, n <= m,
         \A k \in DOMAIN record : /\ record[k].from \in 0..n
                                   /\ record[k].to \in 1..n,
         NEW from \in 0..n, NEW to \in 1..m, NEW action \in Actions,
         NEW next,
         next = Append(record, [from |-> from, to |-> to, action |-> action])
  PROVE  /\ next \in Activations /\ next # <<>>
         /\ \A k \in DOMAIN next : next[k].from \in 0..m /\ next[k].to \in 1..m
<1>. DEFINE T == [from : Nat, to : Nat, action : Actions]
            e == [from |-> from, to |-> to, action |-> action]
<1>1. e \in T /\ e.from = from /\ e.to = to /\ record \in Seq(T)
  BY DEF Activations
<1>. HIDE DEF e, T
<1>2. /\ next \in Seq(T) /\ next # <<>> /\ Len(record) \in Nat
      /\ DOMAIN next = 1..(Len(record) + 1) /\ DOMAIN record = 1..Len(record)
      /\ \A i \in 1..Len(record) : next[i] = record[i]
      /\ next[Len(record) + 1] = e
  BY <1>1 DEF e
<1>3. next \in Activations
  BY <1>2 DEF Activations, T
<1>. QED
  BY <1>1, <1>2, <1>3

(* What a commit writes, which the three next lemmas say in parts.          *)
LEMMA CommitWrites ==
  ASSUME IInv, NEW r \in Requests, Commit(r), call[r].op # "keep"
  PROVE  \E table \in Seq(VersionRow), action \in Actions :
         \E to \in DOMAIN table :
           /\ table = Inserted(r)
           /\ rows' = Activated(table, to, published, table[to].count)
           /\ published' = to
           /\ history' = Append(history, [from |-> published, to |-> to,
                                          action |-> action])
           /\ action = "INITIAL" <=> history = <<>>
           /\ action = "ROLLBACK" <=> to < published
<1>1. At(r, "committing") /\ ~Taken(r)
  BY NumberIsFree DEF Commit
<1>2. Activate(r)
  BY <1>1 DEF Commit
<1>. DEFINE table == Inserted(r)
            to == IF call[r].op = "activate" THEN call[r].at ELSE Len(table)
            action == ActionOf(r)
<1>3. /\ table \in Seq(VersionRow)
      /\ Inserts(r) => /\ Len(table) = Len(rows) + 1
                       /\ table[Len(table)].count = 0
      /\ ~Inserts(r) => table = rows
  BY <1>1, TableIs
<1>4. /\ call[r] \in Call /\ Len(rows) \in Nat /\ DOMAIN rows = 1..Len(rows)
      /\ published \in 0..Len(rows)
  BY Places DEF IInv, TypeOK
<1>5. call[r].op \in {"create", "save", "activate"}
  BY <1>1, <1>4 DEF IInv, LockIsHeld, At, Call, Operations
<1>6. call[r].from = published
  BY <1>1, <1>5 DEF IInv, LockIsHeld, Working, At
<1>7. to \in Nat /\ to \in DOMAIN table /\ call[r].count = table[to].count
  <2>1. CASE call[r].op = "activate"
    BY <1>1, <1>3, <1>4, <2>1 DEF IInv, WritesAreSound, Working, At, Inserts
  <2>2. CASE call[r].op # "activate"
    BY <1>1, <1>3, <1>4, <1>5, <2>2 DEF IInv, WritesAreSound, Inserts
  <2>. QED
    BY <2>1, <2>2
<1>8. /\ rows' = Activated(table, to, published, table[to].count)
      /\ published' = to
      /\ history' = Append(history, [from |-> published, to |-> to,
                                     action |-> action])
  BY <1>2, <1>6, <1>7 DEF Activate
<1>9. /\ action \in Actions
      /\ action = "INITIAL" <=> history = <<>>
      /\ action = "ROLLBACK" <=> to < published
  <2>1. CASE call[r].op = "create"
    <3>1. rows = <<>> /\ published = 0 /\ history = <<>>
      BY <2>1 DEF IInv, LockIsHeld, MapIsPublished
    <3>. QED
      BY <1>7, <2>1, <3>1 DEF ActionOf, Actions
  <2>2. CASE call[r].op # "create"
    <3>1. rows # <<>> /\ history # <<>> /\ published # 0
      BY <1>1, <2>2 DEF IInv, MapIsPublished, At
    <3>2. CASE call[r].op = "save"
      BY <1>3, <1>4, <3>1, <3>2 DEF ActionOf, Actions, Inserts
    <3>3. CASE call[r].op = "activate"
      <4>1. to \in DOMAIN rows /\ published \in DOMAIN rows /\ to = call[r].at
        BY <1>3, <1>4, <1>7, <3>1, <3>3 DEF Inserts
      <4>2. rows[to].number = to /\ rows[published].number = published
        BY <4>1 DEF IInv, VersionsAreNumbered
      <4>. QED
        BY <1>6, <3>1, <3>3, <4>1, <4>2 DEF ActionOf, Actions
    <3>. QED
      BY <1>5, <2>2, <3>2, <3>3
  <2>. QED
    BY <2>1, <2>2
<1>. HIDE DEF table, to, action
<1>. QED
  BY <1>3, <1>7, <1>8, <1>9 DEF table

LEMMA CommitIInv ==
  ASSUME NEW r \in Requests, IInv, Commit(r)
  PROVE  IInv'
<1>. DEFINE new == [Idle EXCEPT !.pc = "reloading"]
<1>1. /\ At(r, "committing") /\ ~Taken(r) /\ conflict = FALSE
      /\ call \in [Requests -> Call] /\ call[r] \in Call
  BY NumberIsFree DEF Commit, IInv, TypeOK, VersionsAreNumbered
<1>2. new \in Call /\ new.pc = "reloading" /\ new.op = "get"
  BY DEF Idle, Call, Labels, Operations
<1>3. /\ conflict' = FALSE
      /\ lock' = IF lock = r THEN Nobody ELSE lock
      /\ call' = [call EXCEPT ![r] = new]
      /\ \A q \in Requests : call'[q] = IF q = r THEN new ELSE call[q]
      /\ UNCHANGED <<current, usable, viewers, allowed>>
  BY <1>1 DEF Commit, Update, dataVars
<1>. HIDE DEF new
<1>4. call[r].op \in {"create", "save", "keep", "activate"}
  BY <1>1 DEF IInv, LockIsHeld, At, Call, Operations
<1>5. \A q \in Requests \ {r} :
        /\ call[q].op # "create"
        /\ call[q].op \in {"save", "keep", "activate"} => At(q, "locking")
  BY <1>1, CommitsAlone
<1>6. /\ rows \in Seq(VersionRow) /\ Len(rows) \in Nat
      /\ DOMAIN rows = 1..Len(rows) /\ published \in 0..Len(rows)
      /\ history \in Activations /\ published \in Nat
  BY Places DEF IInv, TypeOK, Activations
<1>7. /\ rows' \in Seq(VersionRow) /\ Len(rows') \in Nat
      /\ DOMAIN rows' = 1..Len(rows') /\ rows' # <<>>
      /\ Len(rows) <= Len(rows')
      /\ published' \in DOMAIN rows'
      /\ history' \in Activations /\ history' # <<>>
      /\ \A k \in DOMAIN history' : history'[k].from \in 0..Len(rows')
                                    /\ history'[k].to \in DOMAIN rows'
      /\ \A i \in DOMAIN rows' : /\ rows'[i].number = i
                                 /\ ValidReference(rows'[i].document)
      /\ Chain(published', history') /\ Counted(rows', published', history')
  <2>1. CASE call[r].op = "keep"
    <3>1. rows' = Inserted(r) /\ published' = published /\ history' = history
      BY <1>1, <2>1 DEF Commit
    <3>2. /\ rows' \in Seq(VersionRow) /\ Len(rows) <= Len(rows')
          /\ Counted(rows', published, history)
          /\ \A i \in DOMAIN rows' : /\ rows'[i].number = i
                                     /\ ValidReference(rows'[i].document)
      BY <1>1, <3>1, TableIs
    <3>3. rows # <<>> /\ published # 0 /\ history # <<>>
      BY <1>1, <2>1 DEF IInv, MapIsPublished, At
    <3>4. \A k \in DOMAIN history : history[k].from \in 0..Len(rows)
                                    /\ history[k].to \in DOMAIN rows
      BY DEF IInv, TypeOK
    <3>5. Chain(published, history)
      BY DEF IInv, ActivationsChain
    <3>6. Len(rows') \in Nat /\ DOMAIN rows' = 1..Len(rows') /\ rows' # <<>>
      BY <1>6, <3>2, <3>3
    <3>. HIDE DEF Activations
    <3>. QED
      BY <1>6, <3>1, <3>2, <3>3, <3>4, <3>5, <3>6
  <2>2. CASE call[r].op # "keep"
    <3>0. PICK table \in Seq(VersionRow), action \in Actions :
            \E to \in DOMAIN table :
              /\ table = Inserted(r)
              /\ rows' = Activated(table, to, published, table[to].count)
              /\ published' = to
              /\ history' = Append(history, [from |-> published, to |-> to,
                                             action |-> action])
              /\ action = "INITIAL" <=> history = <<>>
              /\ action = "ROLLBACK" <=> to < published
      BY <2>2, CommitWrites
    <3>1. PICK to \in DOMAIN table :
            /\ table = Inserted(r)
            /\ rows' = Activated(table, to, published, table[to].count)
            /\ published' = to
            /\ history' = Append(history, [from |-> published, to |-> to,
                                           action |-> action])
            /\ action = "INITIAL" <=> history = <<>>
            /\ action = "ROLLBACK" <=> to < published
      BY <3>0
    <3>2. /\ Len(rows) <= Len(table) /\ Counted(table, published, history)
          /\ \A i \in DOMAIN table : /\ table[i].number = i
                                     /\ ValidReference(table[i].document)
      BY <1>1, <3>1, TableIs
    <3>3. /\ rows' \in Seq(VersionRow) /\ Len(rows') = Len(table)
          /\ DOMAIN rows' = DOMAIN table
          /\ \A i \in DOMAIN table : /\ rows'[i].number = table[i].number
                                     /\ rows'[i].document = table[i].document
      <4>1. published \in Nat
            /\ rows' = Activated(table, to, published, table[to].count)
        BY <1>6, <3>1
      <4>2. rows' \in Seq(VersionRow) /\ Len(rows') = Len(table)
            /\ DOMAIN rows' = DOMAIN table
        BY <4>1, ActivatedIsSeq
      <4>3. ASSUME NEW i \in DOMAIN table
            PROVE  /\ rows'[i].number = table[i].number
                   /\ rows'[i].document = table[i].document
        BY <4>1, ActivatedKeeps
      <4>. QED
        BY <4>2, <4>3
    <3>4. Chain(published, history)
      BY DEF IInv, ActivationsChain
    <3>5. Chain(published', history')
      BY <1>6, <3>1, <3>4, ChainGrows
    <3>6. Counted(rows', published', history')
      BY <1>6, <3>1, <3>2, ActivatedIsCounted
    <3>7. Len(table) \in Nat /\ DOMAIN table = 1..Len(table)
      OBVIOUS
    <3>8. /\ history' \in Activations /\ history' # <<>>
          /\ \A k \in DOMAIN history' : history'[k].from \in 0..Len(rows')
                                        /\ history'[k].to \in DOMAIN rows'
      <4>1. \A k \in DOMAIN history : history[k].from \in 0..Len(rows)
                                      /\ history[k].to \in 1..Len(rows)
        BY <1>6 DEF IInv, TypeOK
      <4>2. to \in 1..Len(table)
        BY <3>1, <3>7
      <4>3. /\ history' \in Activations /\ history' # <<>>
            /\ \A k \in DOMAIN history' : history'[k].from \in 0..Len(table)
                                          /\ history'[k].to \in 1..Len(table)
        <5>1. history \in Activations /\ Len(rows) \in Nat
              /\ published \in 0..Len(rows) /\ Len(rows) <= Len(table)
              /\ history' = Append(history, [from |-> published, to |-> to,
                                             action |-> action])
          BY <1>6, <3>1, <3>2
        <5>. QED
          BY <3>7, <4>1, <4>2, <5>1, HistoryReaches
      <4>. QED
        BY <3>3, <3>7, <4>3
    <3>9. published' \in DOMAIN rows' /\ rows' # <<>>
      BY <3>1, <3>3, <3>7
    <3>10. \A i \in DOMAIN rows' : /\ rows'[i].number = i
                                   /\ ValidReference(rows'[i].document)
      BY <3>2, <3>3
    <3>. HIDE DEF Activations
    <3>. QED
      BY <3>2, <3>3, <3>5, <3>6, <3>7, <3>8, <3>9, <3>10
  <2>. QED
    BY <2>1, <2>2
<1>8. TypeOK'
  <2>1. call' \in [Requests -> Call]
    BY <1>1, <1>2, <1>3
  <2>2. published' \in 0..Len(rows')
    BY <1>7
  <2>. QED
    BY <1>3, <1>7, <2>1, <2>2 DEF IInv, TypeOK, Activations
<1>9. LockIsHeld'
  <2>1. ASSUME NEW q \in Requests
        PROVE  /\ call'[q].pc = "idle" => call'[q] = Idle
               /\ call'[q].op # "create"
               /\ call'[q].op \in {"save", "keep", "activate"} =>
                    At(q, "locking")'
               /\ call'[q].op = "get" =>
                    ~At(q, "committing")' /\ ~At(q, "locking")'
               /\ call'[q].op # "get" => ~Working(q)'
    <3>1. CASE q = r
      BY <1>2, <1>3, <3>1 DEF At, Working
    <3>2. CASE q # r
      <4>1. call'[q] = call[q] /\ call[q] \in Call
        BY <1>1, <1>3, <3>2
      <4>2. call[q].op # "create" /\ call[q].op \in Operations
            /\ (call[q].op \in {"save", "keep", "activate"} =>
                  At(q, "locking"))
        BY <1>5, <3>2, <4>1 DEF Call
      <4>. QED
        BY <4>1, <4>2 DEF IInv, LockIsHeld, At, Working, Operations
    <3>. QED
      BY <3>1, <3>2
  <2>. QED
    BY <2>1 DEF LockIsHeld, At, Working
<1>10. WritesAreSound'
  BY <1>1, <1>2, <1>3, <1>5, <1>6, <1>7
     DEF IInv, WritesAreSound, Working, At, Inserts
<1>11. MapIsPublished'
  BY <1>7 DEF MapIsPublished
<1>12. ViewersAreKnown' /\ GrantsNothing'
  BY <1>1, <1>2, <1>3 DEF IInv, ViewersAreKnown, GrantsNothing, At
<1>13. VersionsAreNumbered' /\ ReferencesAreSound' /\ ActivationsChain'
  BY <1>3, <1>7 DEF VersionsAreNumbered, ReferencesAreSound, ActivationsChain,
                    ValidReference
<1>. QED
  BY <1>8, <1>9, <1>10, <1>11, <1>12, <1>13 DEF IInv

-----------------------------------------------------------------------------
(* The invariant.                                                          *)

LEMMA InitIInv == Init => IInv
<1>. SUFFICES ASSUME Init PROVE IInv
  OBVIOUS
<1>. USE DEF Init
<1>0. Idle \in Call
  BY DEF Idle, Call, Labels, Operations
<1>1. TypeOK
  <2>1. /\ rows \in Seq(VersionRow) /\ published \in 0..Len(rows)
        /\ history \in Seq([from : Nat, to : Nat, action : Actions])
        /\ DOMAIN history = {}
    OBVIOUS
  <2>. QED
    BY <1>0, <2>1 DEF TypeOK
<1>2. LockIsHeld /\ WritesAreSound /\ MapIsPublished /\ ViewersAreKnown
  BY DEF LockIsHeld, WritesAreSound, MapIsPublished, ViewersAreKnown, Idle,
         Working, At, Inserts
<1>3. VersionsAreNumbered /\ GrantsNothing /\ ReferencesAreSound
  BY DEF VersionsAreNumbered, GrantsNothing, ReferencesAreSound, Idle
<1>4. ActivationsChain
  BY DEF ActivationsChain, Chain, Counted
<1>. QED
  BY <1>1, <1>2, <1>3, <1>4 DEF IInv

LEMMA NextIInv == IInv /\ [Next]_vars => IInv'
<1>. SUFFICES ASSUME IInv, [Next]_vars PROVE IInv'
  OBVIOUS
<1>1. CASE Environment
  BY <1>1, EnvironmentIInv
<1>2. ASSUME NEW r \in Requests, CreateMap(r) PROVE IInv'
  BY <1>2, CreateMapIInv
<1>3. ASSUME NEW r \in Requests, CreateMapVersion(r) PROVE IInv'
  BY <1>3, CreateMapVersionIInv
<1>4. ASSUME NEW r \in Requests, ActivateMapVersion(r) PROVE IInv'
  BY <1>4, ActivateMapVersionIInv
<1>5. ASSUME NEW r \in Requests, GetMap(r) PROVE IInv'
  BY <1>5, GetMapIInv
<1>6. ASSUME NEW r \in Requests, Step(r) PROVE IInv'
  <2>1. CASE LockedEditableMap(r)
    BY <2>1, LockedEditableMapIInv
  <2>2. CASE NotEditable(r)
    BY <2>2, RefuseIInv DEF NotEditable
  <2>3. CASE ReadDatasets(r)
    BY <2>3, ReadDatasetsIInv
  <2>4. CASE ReadLayers(r)
    BY <2>4, ReadLayersIInv
  <2>5. CASE Raises(r)
    BY <2>5, RefuseIInv DEF Raises
  <2>6. CASE Commit(r)
    BY <2>6, CommitIInv
  <2>7. CASE Reload(r)
    BY <2>7, ReloadIInv
  <2>8. CASE Reply(r)
    BY <2>8, ReplyIInv
  <2>. QED
    BY <1>6, <2>1, <2>2, <2>3, <2>4, <2>5, <2>6, <2>7, <2>8 DEF Step
<1>7. CASE UNCHANGED vars
  <2>1. UNCHANGED mapVars
    BY <1>7 DEF vars
  <2>2. TypeOK' /\ LockIsHeld' /\ WritesAreSound' /\ MapIsPublished'
    BY <1>7 DEF IInv, TypeOK, LockIsHeld, WritesAreSound, MapIsPublished,
                Working, At, Inserts, vars, dataVars, mapVars
  <2>3. ViewersAreKnown' /\ GrantsNothing'
    BY <1>7 DEF IInv, ViewersAreKnown, GrantsNothing, At, vars, dataVars
  <2>. QED
    BY <2>1, <2>2, <2>3, MapIsKept DEF IInv
<1>. QED
  BY <1>1, <1>2, <1>3, <1>4, <1>5, <1>6, <1>7 DEF Next

LEMMA Invariance == Spec => []IInv
  BY InitIInv, NextIInv, PTL DEF Spec

-----------------------------------------------------------------------------
(* The properties.                                                         *)

(* Every variable keeps its type, and what refers to a version refers to   *)
(* one there is: an activation, the published version, a request.          *)
THEOREM TypeCorrect == Spec => []TypeOK
  BY Invariance, PTL DEF IInv

(* Whatever saves meet, no number is taken twice and none is left out: the *)
(* lock on the map is held from the query for the highest number to the    *)
(* insert.                                                                 *)
THEOREM VersionsAreNumberedAlways == Spec => []VersionsAreNumbered
  BY Invariance, PTL DEF IInv

(* The record of activations, the counters and the dates of the versions   *)
(* and the published version always tell the same story.                   *)
THEOREM ActivationsChainAlways == Spec => []ActivationsChain
  BY Invariance, PTL DEF IInv

(* Nobody is shown, or publishes, a document whose dataset he was not      *)
(* allowed to view at any moment of the request.                           *)
THEOREM GrantsNothingAlways == Spec => []GrantsNothing
  BY Invariance, PTL DEF IInv

(* No stored layer breaks the constraints of MapLayerReference.            *)
THEOREM ReferencesAreSoundAlways == Spec => []ReferencesAreSound
  BY Invariance, PTL DEF IInv

(* Versions are snapshots: no step changes a document, loses a version or  *)
(* a recorded activation, or publishes without recording it.               *)
THEOREM SnapshotsAreKeptAlways == Spec => SnapshotsAreKept
<1>1. ASSUME IInv, NEW r \in Requests, Commit(r)
      PROVE  /\ \A i \in DOMAIN rows : i \in DOMAIN rows'
                  /\ rows'[i].document = rows[i].document
             /\ \/ history' = history /\ published' = published
                \/ \E e : history' = Append(history, e)
  <2>1. At(r, "committing") /\ ~Taken(r) /\ DOMAIN rows = 1..Len(rows)
    BY <1>1, NumberIsFree, Places DEF Commit, IInv
  <2>2. \A i \in DOMAIN rows : i \in DOMAIN Inserted(r)
                               /\ Inserted(r)[i].document = rows[i].document
    BY <1>1, <2>1, TableIs
  <2>3. CASE call[r].op = "keep"
    BY <1>1, <2>1, <2>2, <2>3 DEF Commit
  <2>4. CASE call[r].op # "keep"
    <3>0. PICK table \in Seq(VersionRow), action \in Actions :
            \E to \in DOMAIN table :
              /\ table = Inserted(r)
              /\ rows' = Activated(table, to, published, table[to].count)
              /\ history' = Append(history, [from |-> published, to |-> to,
                                             action |-> action])
      BY <1>1, <2>4, CommitWrites
    <3>1. PICK to \in DOMAIN table :
            /\ table = Inserted(r)
            /\ rows' = Activated(table, to, published, table[to].count)
            /\ history' = Append(history, [from |-> published, to |-> to,
                                           action |-> action])
      BY <3>0
    <3>2. /\ DOMAIN rows' = DOMAIN table
          /\ \A i \in DOMAIN table : rows'[i].document = table[i].document
      <4>1. published \in Nat
            /\ rows' = Activated(table, to, published, table[to].count)
        BY <1>1, <3>1 DEF IInv, TypeOK
      <4>2. DOMAIN rows' = DOMAIN table
        BY <4>1, ActivatedIsSeq
      <4>3. ASSUME NEW i \in DOMAIN table
            PROVE  rows'[i].document = table[i].document
        BY <4>1, ActivatedKeeps
      <4>. QED
        BY <4>2, <4>3
    <3>. QED
      BY <2>2, <3>1, <3>2
  <2>. QED
    BY <2>3, <2>4
<1>2. ASSUME IInv, [Next]_vars
      PROVE  /\ \A i \in DOMAIN rows : i \in DOMAIN rows'
                  /\ rows'[i].document = rows[i].document
             /\ \/ history' = history /\ published' = published
                \/ \E e : history' = Append(history, e)
  <2>1. CASE \E r \in Requests : Commit(r)
    BY <1>1, <1>2, <2>1
  <2>2. CASE ~ \E r \in Requests : Commit(r)
    <3>1. UNCHANGED mapVars
      BY <1>2, <2>2 DEF Next, Environment, CreateMap, CreateMapVersion,
         ActivateMapVersion, GetMap, Arrive, Step, LockedEditableMap,
         NotEditable, Refuse, ReadDatasets, ReadLayers, Raises, Reload, Reply,
         vars
    <3>. QED
      BY <3>1 DEF mapVars
  <2>. QED
    BY <2>1, <2>2
<1>3. ASSUME IInv, [Next]_vars
      PROVE  /\ IsPrefix(history, history')
             /\ published' # published => Len(history') = Len(history) + 1
  <2>1. history \in Activations
    BY <1>3 DEF IInv, TypeOK, Activations
  <2>2. CASE history' = history /\ published' = published
    BY <2>1, <2>2 DEF IsPrefix, Activations
  <2>3. CASE \E e : history' = Append(history, e)
    BY <2>1, <2>3 DEF IsPrefix, Activations
  <2>. QED
    BY <1>2, <1>3, <2>2, <2>3
<1>4. IInv /\ [Next]_vars =>
        [/\ \A i \in DOMAIN rows :
              i \in DOMAIN rows' /\ rows'[i].document = rows[i].document
         /\ IsPrefix(history, history')
         /\ published' # published => Len(history') = Len(history) + 1]_vars
  BY <1>2, <1>3
<1>. QED
  BY <1>4, Invariance, PTL DEF Spec, SnapshotsAreKept
=============================================================================
