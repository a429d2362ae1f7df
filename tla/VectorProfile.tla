--------------------------- MODULE VectorProfile ---------------------------
(***************************************************************************)
(* The bounded profile of one column of an imported table                  *)
(* (modules/datasets/profiling.py): what styles are classified by. A row   *)
(* is its value in the column, or Null; a column holds integers, or it     *)
(* holds texts, for which other types without a numeric range stand. The   *)
(* sample is a prefix of the table, which no query orders.                 *)
(***************************************************************************)
EXTENDS Ordering

CONSTANTS
  Null,                 \* a value that is null
  Empty,                \* the text without characters
  Values,               \* what columns may hold, integers and texts
  Collation,            \* which of two values comes first as a text
  SampleSize,           \* VECTOR_PROFILE_SAMPLE_SIZE
  TopValues,            \* VECTOR_PROFILE_TOP_VALUES
  TopValuesMaxDistinct  \* VECTOR_PROFILE_TOP_VALUES_MAX_DISTINCT

(* R is a strict order of all of S. *)
Orders(R, S) ==
  /\ \A x \in S : <<x, x>> \notin R
  /\ \A x, y, z \in S : <<x, y>> \in R /\ <<y, z>> \in R => <<x, z>> \in R
  /\ \A x, y \in S : x # y => <<x, y>> \in R \/ <<y, x>> \in R

ASSUME ProfileAssumption ==
  /\ SampleSize \in Nat \ {0}
  /\ TopValues \in Nat /\ TopValuesMaxDistinct \in Nat
  /\ Null \notin Values /\ Null \notin Int /\ Empty \notin Int
  /\ Orders(Collation, Values)

Sample(table) == Take(table, SampleSize)

ValuesIn(rows) == {rows[i] : i \in DOMAIN rows} \ {Null}

Count(rows, value) == Cardinality({i \in DOMAIN rows : rows[i] = value})

(* The most frequent values; equally frequent ones in the order of their   *)
(* texts, numbers among them.                                              *)
Commonest(rows) ==
  LET before(v, w) == \/ Count(rows, v) > Count(rows, w)
                      \/ Count(rows, v) = Count(rows, w)
                         /\ <<v, w>> \in Collation
  IN  Take(Ordered(ValuesIn(rows), before), TopValues)

(* _profile_field: only numbers have a minimum and a maximum that is one,  *)
(* null without a value; there are no common values when too many are      *)
(* distinct.                                                               *)
ProfileField(table) ==
  LET rows    == Sample(table)
      values  == ValuesIn(rows)
      numeric == values # {} /\ values \subseteq Int
  IN  [minimum |-> IF numeric THEN CHOOSE v \in values :
                                      \A w \in values : v <= w
                   ELSE Null,
       maximum |-> IF numeric THEN CHOOSE v \in values :
                                      \A w \in values : v >= w
                   ELSE Null,
       top     |-> IF Cardinality(values) > TopValuesMaxDistinct THEN <<>>
                   ELSE Commonest(rows)]
=============================================================================
