---------------------------- MODULE VectorStyle ----------------------------
(***************************************************************************)
(* The default style of a published vector layer (modules/vector_styles):  *)
(* the classes made from the profile of the layer's column, the colour the *)
(* map paints a value in, the legend, and requests that update the style,  *)
(* of which several may be under way. A colour is its place in the nine    *)
(* colours of a palette; FallbackColor and SymbolColor are in none.        *)
(***************************************************************************)
EXTENDS VectorProfile

CONSTANTS
  Requests,    \* update requests under way at once
  ClassCounts, \* the class counts that are asked for
  MaxRevision  \* updates stop at this revision

ASSUME StyleAssumption == ClassCounts \subseteq Int /\ MaxRevision \in Nat \ {0}

VARIABLES
  profile, \* VectorLayer.field_statistics of the column
  style,   \* the VectorStyle row; revision 0 without a row
  update   \* what a request is about to write and where it stands

styleVars == <<style, update>>

-----------------------------------------------------------------------------
(* Classification.                                                         *)

MaxClasses    == 9
PaletteSize   == 9
FallbackColor == -1
SymbolColor   == -2

Modes == {"SIMPLE", "CATEGORICAL", "GRADUATED"}

(* round() of Python: halves go to the even neighbour. *)
Round(n, d) ==
  LET down == n \div d IN
  CASE 2 * (n % d) < d -> down
    [] 2 * (n % d) > d -> down + 1
    [] OTHER           -> IF down % 2 = 0 THEN down ELSE down + 1

(* Mutant: the colours are spread as if there were one class more. *)
PaletteColorsNarrow(count) ==
  [i \in 1..count |-> Round((i - 1) * (PaletteSize - 1), count + 1)]

(* _palette_colors *)
PaletteColors(count) ==
  IF count = 1 THEN <<PaletteSize \div 2>>
  ELSE [i \in 1..count |-> Round((i - 1) * (PaletteSize - 1), count - 1)]

CategoricalClasses(count) ==
  LET selected == Take(profile.top, count)
      colors   == PaletteColors(Len(selected))
  IN  [i \in DOMAIN selected |-> [value |-> selected[i], color |-> colors[i]]]

(* Mutant: a class ends where it begins. *)
GraduatedShort(count) ==
  LET width  == profile.maximum - profile.minimum
      colors == PaletteColors(count)
  IN  [i \in 1..count |->
        [min   |-> profile.minimum * count + width * (i - 1),
         max   |-> profile.minimum * count + width * (i - 1),
         color |-> colors[i]]]

(* Bounds are in units of one count-th, which keeps them whole: the class  *)
(* is a width of maximum - minimum.                                        *)
GraduatedClasses(count) ==
  LET width  == profile.maximum - profile.minimum
      colors == PaletteColors(count)
  IN  [i \in 1..count |->
        [min   |-> profile.minimum * count + width * (i - 1),
         max   |-> IF i = count THEN profile.maximum * count
                   ELSE profile.minimum * count + width * i,
         color |-> colors[i]]]

Simple == [mode |-> "SIMPLE", classes |-> <<>>, count |-> 1]

(* What update_vector_style does not refuse.                               *)
Drawable(mode, count) ==
  /\ count \in 1..MaxClasses
  /\ mode = "CATEGORICAL" => profile.top # <<>>
  /\ mode = "GRADUATED" => /\ count >= 2 /\ profile.minimum # Null
                           /\ profile.maximum > profile.minimum

(* The style a request comes to; the count is that of the classes found.   *)
Drawn(mode, count) ==
  CASE mode = "SIMPLE"      -> Simple
    [] mode = "CATEGORICAL" -> [mode    |-> mode,
                                classes |-> CategoricalClasses(count),
                                count   |-> Len(CategoricalClasses(count))]
    [] OTHER                -> [mode    |-> mode, count |-> count,
                                classes |-> GraduatedClasses(count)]

-----------------------------------------------------------------------------
(* What the map paints, and what its legend says.                          *)

(* Where the classes of a graduated style meet is computed in floating     *)
(* point: a value that meets it exactly may fall on either side. The       *)
(* expression is a "step" on the value as a number, 0 for null.            *)
Reached(row, i, value) ==
  LET place == (IF value = Null THEN 0 ELSE value) * row.count
  IN  /\ i = 1 \/ row.classes[i].min <= place
      /\ i = Len(row.classes) \/ place <= row.classes[i + 1].min

(* _color_expression: the colours a value may be painted in. "match" takes *)
(* the value as text, which null is the empty one of.                      *)
Painted(row, value) ==
  LET text  == IF value = Null THEN Empty ELSE value
      found == {i \in DOMAIN row.classes : row.classes[i].value = text}
  IN  CASE row.mode = "SIMPLE" -> {SymbolColor}
        [] row.mode = "CATEGORICAL" ->
             IF found = {} THEN {FallbackColor}
             ELSE {row.classes[i].color : i \in found}
        [] OTHER ->
             {row.classes[i].color :
                i \in {i \in DOMAIN row.classes : Reached(row, i, value)}}

(* _format_number of n / d, in thousandths: the larger, the fewer digits.  *)
Format(n, d) ==
  LET magnitude == IF n < 0 THEN -n ELSE n IN
  CASE magnitude >= 1000 * d -> 1000 * Round(n, d)
    [] magnitude >= 10 * d /\ magnitude < 1000 * d -> 100 * Round(10 * n, d)
    [] OTHER -> Round(1000 * n, d)

(* The label of class i, "lower – upper" in thousandths.                   *)
Label(row, i) == [lower |-> Format(row.classes[i].min, row.count),
                  upper |-> Format(row.classes[i].max, row.count)]

(* The row of class i says of itself that it is for the value.             *)
LabelFits(row, i, value) ==
  CASE row.mode = "CATEGORICAL" -> value # Null /\ row.classes[i].value = value
    [] OTHER -> /\ value # Null
                /\ Label(row, i).lower <= 1000 * value
                /\ 1000 * value <= Label(row, i).upper

(* _legend: the colours a value has by it; a row has a label and a colour  *)
(* and nothing else, and the last one is for other values and null.        *)
LegendColors(row, value) ==
  LET told == {row.classes[i].color :
                 i \in {i \in DOMAIN row.classes : LabelFits(row, i, value)}}
  IN  CASE row.mode = "SIMPLE" -> {SymbolColor}
        [] OTHER -> IF told = {} THEN {FallbackColor} ELSE told

-----------------------------------------------------------------------------
(* The row and the requests that update it.                                *)

Idle == [pc |-> "idle", drawn |-> Simple, revision |-> 0]

(* Another request has locked the row. *)
Locked == \E r \in Requests : update[r].pc = "locked"

StyleInit ==
  /\ style = [drawn |-> Simple, revision |-> 0]
  /\ update = [r \in Requests |-> Idle]

(* The signal of a layer that is saved READY, and ensure_vector_style of a *)
(* layer that has no style: get_or_create.                                 *)
EnsureVectorStyle ==
  style' = IF style.revision = 0 THEN [drawn |-> Simple, revision |-> 1]
           ELSE style

(* update_vector_style: the layer has been read before, ...                *)
Classify(r) ==
  /\ update[r].pc = "idle" /\ style.revision < MaxRevision
  /\ \E mode \in Modes, count \in ClassCounts :
       /\ Drawable(mode, count)
       /\ update' = [update EXCEPT ![r] =
                       [pc |-> "classified", drawn |-> Drawn(mode, count),
                        revision |-> 0]]
  /\ UNCHANGED style

(* Mutant: the row is read without select_for_update. *)
ReadStyle(r) ==
  /\ update[r].pc = "classified"
  /\ update' = [update EXCEPT ![r] =
                  [pc |-> "locked", drawn |-> update[r].drawn,
                   revision |-> style.revision]]
  /\ UNCHANGED style

(* ... the row is locked only now, ...                                     *)
LockStyle(r) ==
  /\ update[r].pc = "classified" /\ ~Locked
  /\ update' = [update EXCEPT ![r] =
                  [pc |-> "locked", drawn |-> update[r].drawn,
                   revision |-> style.revision]]
  /\ UNCHANGED style

(* ... and what was drawn replaces whatever is there.                      *)
SaveStyle(r) ==
  /\ update[r].pc = "locked"
  /\ style' = [drawn |-> update[r].drawn, revision |-> update[r].revision + 1]
  /\ update' = [update EXCEPT ![r] = Idle]

UpdateVectorStyle(r) == Classify(r) \/ LockStyle(r) \/ SaveStyle(r)

-----------------------------------------------------------------------------
(* Properties.                                                             *)

(* The styles the profile of the layer allows.                             *)
Drawings ==
  {Drawn(d[1], d[2]) : d \in {d \in Modes \X (1..MaxClasses) :
                                Drawable(d[1], d[2])}}

StyleTypeOK ==
  /\ style \in [drawn : Drawings, revision : Nat]
  /\ update \in [Requests -> [pc : {"idle", "classified", "locked"},
                              drawn : Drawings, revision : Nat]]

(* Two classes are told apart: no two have the same colour, however many   *)
(* there are, and the one for all else has none of theirs.                 *)
ClassesAreTold ==
  LET classes == style.drawn.classes IN
  \A i, j \in DOMAIN classes :
    /\ classes[i].color \in 0..(PaletteSize - 1)
    /\ classes[i].color = classes[j].color => i = j

(* What is drawn changes with the revision only, which grows: two updates  *)
(* at once do not end in two styles of one revision.                       *)
StyleIsRevised == [][style' # style => style'.revision > style.revision]_style

(* Of the requests one at most has locked the row, and it has read the     *)
(* revision the row still has.                                             *)
LockIsExclusive ==
  /\ \A r \in Requests :
       update[r].pc = "locked" => update[r].revision = style.revision
  /\ \A r, q \in Requests :
       update[r].pc = "locked" /\ update[q].pc = "locked" => r = q
=============================================================================
