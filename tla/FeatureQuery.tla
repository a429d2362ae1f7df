--------------------------- MODULE FeatureQuery ----------------------------
(***************************************************************************)
(* A client that walks through the features of a layer page by page        *)
(* (modules/vector_tiles/queries.py, api.py): each page is a request that  *)
(* first looks whether the layer is READY, of the current version and      *)
(* accessible, and then queries the table, with the last gx_fid of a page  *)
(* as the cursor of the next. The table of a version is never written      *)
(* again, but it may be dropped when the import is withdrawn.              *)
(***************************************************************************)
EXTENDS Ordering, SequencesExt

CONSTANTS
  MaxLimit, \* VECTOR_FEATURE_MAX_LIMIT
  NoCursor  \* no cursor is given, or none is returned

ASSUME QueryAssumption == MaxLimit \in Nat \ {0} /\ NoCursor \notin Int

VARIABLES
  fids,    \* gx_fid of the rows of the table; {} once it is dropped
  served,  \* vector_layer_accessible_to finds the layer
  walk     \* the walk: what is asked for, what has come, where it stands

Resting == [pc |-> "resting", limit |-> 0, wanted |-> {}, cursor |-> NoCursor,
            seen |-> <<>>]

QueryInit == walk = Resting

(* A walk starts, over the features within a bbox or all of them. *)
StartWalk ==
  /\ walk.pc = "resting"
  /\ \E limit \in 1..MaxLimit, wanted \in SUBSET fids :
       walk' = [Resting EXCEPT !.pc = "asking", !.limit = limit,
                               !.wanted = wanted]
  /\ UNCHANGED <<fids, served>>

(* _get_layer *)
GetLayer ==
  /\ walk.pc = "asking" /\ served
  /\ walk' = [walk EXCEPT !.pc = "querying"]
  /\ UNCHANGED <<fids, served>>

Give(pc) == walk' = [Resting EXCEPT !.pc = pc]

NotFound ==
  /\ walk.pc = "asking" /\ ~served
  /\ Give("resting")
  /\ UNCHANGED <<fids, served>>

(* ORDER BY gx_fid *)
InOrder(S) == Ordered(S, <)

(* WHERE gx_fid > cursor ORDER BY gx_fid LIMIT limit + 1 *)
Rows ==
  LET after == {f \in walk.wanted \cap fids :
                  f > IF walk.cursor = NoCursor THEN -1 ELSE walk.cursor}
  IN  Take(InOrder(after), walk.limit + 1)

Visible == Take(Rows, walk.limit)

(* Mutant: the cursor is the row that was read to see that there is more. *)
NextCursorBeyond ==
  IF Len(Rows) > walk.limit THEN Rows[Len(Rows)] ELSE NoCursor

NextCursor ==
  IF Len(Rows) > walk.limit THEN Last(Visible) ELSE NoCursor

(* list_layer_features *)
ListLayerFeatures ==
  /\ walk.pc = "querying" /\ fids # {}
  /\ walk' = [walk EXCEPT !.seen = @ \o Visible, !.cursor = NextCursor,
                          !.pc = IF NextCursor = NoCursor THEN "complete"
                                                          ELSE "asking"]
  /\ UNCHANGED <<fids, served>>

(* The table is gone, the query times out or the response is too large.    *)
FailQuery ==
  /\ walk.pc = "querying" /\ Give("resting")
  /\ UNCHANGED <<fids, served>>

EndWalk ==
  /\ walk.pc = "complete" /\ Give("resting")
  /\ UNCHANGED <<fids, served>>

WalkStep ==
  \/ StartWalk \/ GetLayer \/ NotFound \/ ListLayerFeatures \/ FailQuery
  \/ EndWalk

-----------------------------------------------------------------------------
(* Properties.                                                             *)

(* The pages give every feature asked for once and in order, however the   *)
(* pages fall: all of them in a walk that came to its end, and none left   *)
(* out on the way.                                                         *)
PagesAreComplete ==
  LET sorted == InOrder(walk.wanted) IN
  /\ IsPrefix(walk.seen, sorted)
  /\ walk.pc = "complete" => walk.seen = sorted

(* Where a walk stands: it has seen the first of the features it asks for, *)
(* and its cursor, while it goes on, is the last it has seen.              *)
WalkIsInOrder ==
  LET sorted == InOrder(walk.wanted) IN
  /\ walk \in [pc : {"resting", "asking", "querying", "complete"},
               limit : 0..MaxLimit, wanted : SUBSET Int,
               cursor : Int \union {NoCursor}, seen : Seq(Int)]
  /\ walk.seen = Take(sorted, Len(walk.seen))
  /\ walk.pc = "complete" => walk.seen = sorted
  /\ walk.pc \in {"asking", "querying"} =>
       /\ walk.limit > 0
       /\ walk.cursor = IF walk.seen = <<>> THEN NoCursor ELSE Last(walk.seen)
=============================================================================
