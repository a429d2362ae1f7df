--------------------------- MODULE PublishedLayer --------------------------
(***************************************************************************)
(* A vector layer from its import on: profiled and given its first style   *)
(* when it becomes READY, then styled by its editors and read by clients,  *)
(* while it may be withdrawn from a reader, because permission is revoked  *)
(* or another version becomes current, and its table dropped. VectorStyle  *)
(* and FeatureQuery are what the requests do.                              *)
(***************************************************************************)
EXTENDS VectorStyle, FeatureQuery

CONSTANTS
  Tables,   \* the tables that may be imported
  FirstFid  \* gx_fid of the first row

ASSUME TablesAssumption ==
  /\ Tables \subseteq Seq(Values \union {Null})
  /\ \A column \in Tables : \/ ValuesIn(column) \subseteq Int
                           \/ ValuesIn(column) \intersect Int = {}
  /\ FirstFid \in Nat

VARIABLE table   \* the column of the imported rows, by gx_fid

vars == <<table, profile, styleVars, fids, served, walk>>

(* gx_fid of the rows that were imported. *)
Fids == {FirstFid + (i - 1) : i \in DOMAIN table}

NoProfile == [minimum |-> Null, maximum |-> Null, top |-> <<>>]

Init ==
  /\ table \in Tables /\ fids = Fids
  /\ profile = NoProfile /\ served = FALSE
  /\ StyleInit /\ QueryInit

(* The import handler profiles the table and saves the layer READY, which  *)
(* the signal hears. The version becomes ready and current in transactions *)
(* of their own, after which the layer may be served.                      *)
Publish ==
  /\ style.revision = 0
  /\ profile' = ProfileField(table)
  /\ EnsureVectorStyle
  /\ UNCHANGED <<table, update, fids, served, walk>>

(* The version becomes current, permission is given; either comes and goes.*)
Turn ==
  /\ style.revision > 0 /\ fids # {}
  /\ served' = ~served
  /\ UNCHANGED <<table, profile, styleVars, fids, walk>>

(* The table of a version that is not current is dropped. *)
DropTable ==
  /\ style.revision > 0 /\ ~served /\ fids # {}
  /\ fids' = {}
  /\ UNCHANGED <<table, profile, styleVars, served, walk>>

(* Those who read the style need not be those who read features. *)
Style(r) ==
  /\ style.revision > 0
  /\ UpdateVectorStyle(r)
  /\ UNCHANGED <<table, profile, fids, served, walk>>

Walk == WalkStep /\ UNCHANGED <<table, profile, styleVars>>

Next == Publish \/ Turn \/ DropTable \/ Walk \/ \E r \in Requests : Style(r)

Spec == Init /\ [][Next]_vars

-----------------------------------------------------------------------------
(* Properties.                                                             *)

(* Every variable has its type: the style of the layer, and whatever a     *)
(* request is about to write, is one its profile allows. A layer is not    *)
(* served, or styled by anybody, before it has a style.                    *)
TypeOK ==
  /\ StyleTypeOK
  /\ fids \subseteq Fids /\ served \in BOOLEAN
  /\ style.revision = 0 => ~served /\ \A r \in Requests : update[r] = Idle

(* The legend has null in its last row, with other values. The map paints  *)
(* it there unless it takes it for a number or for a class of empty texts. *)
NullIsOther(row) ==
  /\ row.mode # "GRADUATED"
  /\ row.mode = "CATEGORICAL" =>
       \A i \in DOMAIN row.classes : row.classes[i].value # Empty

(* The value is at a bound of a class as far as the label shows it.        *)
OnBound(row, value) ==
  row.mode = "GRADUATED" /\ \A i \in DOMAIN row.classes :
    ~ (Label(row, i).lower < 1000 * value /\ 1000 * value < Label(row, i).upper)

(* The legend tells the colour: a row that was profiled is painted in a    *)
(* colour that the legend has for its value although its labels are        *)
(* rounded, and in the only one unless the value is on a bound of a label. *)
LegendTellsTheColor ==
  \A i \in DOMAIN Sample(table) :
    style.revision > 0 /\ (table[i] = Null => NullIsOther(style.drawn)) =>
      LET painted == Painted(style.drawn, table[i])
          told    == LegendColors(style.drawn, table[i])
      IN  /\ painted # {} /\ painted \subseteq told
          /\ ~OnBound(style.drawn, table[i]) =>
               \A color, other \in told : color = other

(* The inductive invariant of PublishedLayerProofs: with the profile being *)
(* that of the table, and a walk being where its last page left it.        *)
ProfileIsOfTable ==
  /\ table \in Tables /\ fids \in {{}, Fids}
  /\ profile = IF style.revision = 0 THEN NoProfile ELSE ProfileField(table)

WalkIsOverTable == walk.wanted \subseteq Fids

IInv ==
  /\ TypeOK /\ LockIsExclusive
  /\ ProfileIsOfTable /\ WalkIsOverTable /\ WalkIsInOrder
=============================================================================
