------------------------ MODULE PublishedLayerProofs -----------------------
(***************************************************************************)
(* Proofs about PublishedLayer, for any tables, any number of requests and *)
(* of revisions and any page size.                                         *)
(***************************************************************************)
EXTENDS PublishedLayer, TLAPS, FiniteSetTheorems

USE ProfileAssumption, StyleAssumption, QueryAssumption

-----------------------------------------------------------------------------
(* The one symbol of a new layer needs no profile.                         *)
LEMMA SimpleIsDrawn == Simple \in Drawings
<1>1. <<"SIMPLE", 1>> \in {d \in Modes \X (1..MaxClasses) :
                             Drawable(d[1], d[2])}
  BY DEF Drawable, Modes, MaxClasses
<1>2. Drawn(<<"SIMPLE", 1>>[1], <<"SIMPLE", 1>>[2]) = Simple
  BY DEF Drawn
<1>. QED
  BY <1>1, <1>2 DEF Drawings

(* What a request draws is what the profile allows.                        *)
LEMMA DrawnIsAllowed ==
  ASSUME NEW mode \in Modes, NEW count, Drawable(mode, count)
  PROVE  Drawn(mode, count) \in Drawings
<1>1. <<mode, count>> \in {d \in Modes \X (1..MaxClasses) :
                             Drawable(d[1], d[2])}
  BY DEF Drawable
<1>2. Drawn(<<mode, count>>[1], <<mode, count>>[2]) = Drawn(mode, count)
  OBVIOUS
<1>. QED
  BY <1>1, <1>2 DEF Drawings

(* The profile being the same, so is what it allows.                       *)
LEMMA DrawingsAreKept ==
  ASSUME profile' = profile
  PROVE  Drawings' = Drawings
<1>1. ASSUME NEW mode, NEW count
      PROVE  Drawable(mode, count)' = Drawable(mode, count)
  BY <1>1, Zenon DEF Drawable
<1>2. ASSUME NEW mode, NEW count
      PROVE  Drawn(mode, count)' = Drawn(mode, count)
  BY Zenon DEF Drawn, CategoricalClasses, GraduatedClasses
<1>. QED
  BY <1>1, <1>2 DEF Drawings

-----------------------------------------------------------------------------
(* Sets in order. R is a strict order of S, as a set of pairs; the rank of *)
(* an element is the number of those before it.                            *)

Rank(R, S, x) == Cardinality({y \in S : <<y, x>> \in R})

(* The ranks are 0 up to the size of the set, each taken once.             *)
Ranked(R, S) ==
  /\ Cardinality(S) \in Nat
  /\ \A x \in S : Rank(R, S, x) \in 0..(Cardinality(S) - 1)
  /\ \A x, y \in S : <<x, y>> \in R => Rank(R, S, x) < Rank(R, S, y)
  /\ \A x, y \in S : Rank(R, S, x) = Rank(R, S, y) => x = y
  /\ \A k \in 0..(Cardinality(S) - 1) : \E x \in S : Rank(R, S, x) = k

LEMMA RanksAreTaken ==
  ASSUME NEW S, IsFiniteSet(S), NEW R, Orders(R, S)
  PROVE  Ranked(R, S)
<1> DEFINE n == Cardinality(S)
           Before(x) == {y \in S : <<y, x>> \in R}
<1>0. n \in Nat
  BY FS_CardinalityType
<1>1. ASSUME NEW x \in S
      PROVE  IsFiniteSet(Before(x)) /\ Cardinality(Before(x)) \in Nat
  <2>1. Before(x) \in SUBSET S
    OBVIOUS
  <2>2. IsFiniteSet(Before(x))
    BY <2>1, FS_Subset
  <2>. QED
    BY <2>2, FS_CardinalityType
<1>2. ASSUME NEW x \in S
      PROVE  Cardinality(Before(x)) \in 0..(n - 1)
  <2>1. Before(x) \in SUBSET S /\ x \notin Before(x)
    BY DEF Orders
  <2>2. Cardinality(Before(x)) <= n /\ Cardinality(Before(x)) # n
    BY <2>1, FS_Subset
  <2>. QED
    BY <1>0, <1>1, <2>2
<1>3. ASSUME NEW x \in S, NEW y \in S, <<x, y>> \in R
      PROVE  Cardinality(Before(x)) < Cardinality(Before(y))
  <2>1. Before(x) \in SUBSET Before(y) /\ x \in Before(y) /\ x \notin Before(x)
    BY <1>3 DEF Orders
  <2>2. /\ Cardinality(Before(x)) <= Cardinality(Before(y))
        /\ Cardinality(Before(x)) # Cardinality(Before(y))
    BY <1>1, <2>1, FS_Subset
  <2>. QED
    BY <1>1, <2>2
<1>4. ASSUME NEW x \in S, NEW y \in S, Cardinality(Before(x)) = Cardinality(Before(y))
      PROVE  x = y
  <2>1. ASSUME x # y PROVE <<x, y>> \in R \/ <<y, x>> \in R
    BY <2>1 DEF Orders
  <2>2. /\ ~(Cardinality(Before(x)) < Cardinality(Before(y)))
        /\ ~(Cardinality(Before(y)) < Cardinality(Before(x)))
    BY <1>1, <1>4
  <2>. QED
    BY <1>3, <2>1, <2>2
<1> DEFINE r == [x \in S |-> Cardinality(Before(x))]
<1>5. r \in Injection(S, 0..(n - 1))
  BY <1>2, <1>4 DEF Injection, IsInjective
<1>6. IsFiniteSet(0..(n - 1)) /\ Cardinality(0..(n - 1)) = n
  <2> HIDE DEF n
  <2>1. n - 1 \in Int
    BY <1>0
  <2>2. /\ IsFiniteSet(0..(n - 1))
        /\ Cardinality(0..(n - 1)) = IF 0 > n - 1 THEN 0 ELSE (n - 1) - 0 + 1
    BY <2>1, FS_Interval
  <2>. QED
    BY <1>0, <2>2
<1>7. r \in Surjection(S, 0..(n - 1))
  BY <1>5, <1>6, FS_Injection
<1>8. ASSUME NEW k \in 0..(n - 1) PROVE \E x \in S : Cardinality(Before(x)) = k
  BY <1>7 DEF Surjection
<1>. QED
  BY <1>0, <1>2, <1>3, <1>4, <1>8 DEF Rank, Ranked

(* Numbers in their order. *)
Less(S) == {p \in S \X S : p[1] < p[2]}

LEMMA OrderedNumbers ==
  ASSUME NEW S \in SUBSET Int, IsFiniteSet(S)
  PROVE  /\ Cardinality(S) \in Nat
         /\ InOrder(S) \in [1..Cardinality(S) -> S]
         /\ \A k, l \in 1..Cardinality(S) :
              k < l <=> InOrder(S)[k] < InOrder(S)[l]
         /\ \A x \in S : \E k \in 1..Cardinality(S) : InOrder(S)[k] = x
<1> DEFINE R == Less(S)
           n == Cardinality(S)
           o == InOrder(S)
<1>1. Orders(R, S)
  BY DEF Orders, Less
<1>2. \A x \in S : Cardinality({y \in S : y < x}) = Rank(R, S, x)
  BY DEF Rank, Less
<1>4. o = [k \in 1..n |-> CHOOSE x \in S : Cardinality({y \in S : y < x}) = k - 1]
  BY DEF InOrder, Ordered
<1>9. \A x, y \in S : x < y => <<x, y>> \in R
  BY DEF Less
<1> HIDE DEF R, o
<1> HIDE DEF n
<1>3. /\ n \in Nat
      /\ \A x \in S : Rank(R, S, x) \in 0..(n - 1)
      /\ \A x, y \in S : <<x, y>> \in R => Rank(R, S, x) < Rank(R, S, y)
      /\ \A x, y \in S : Rank(R, S, x) = Rank(R, S, y) => x = y
      /\ \A k \in 0..(n - 1) : \E x \in S : Rank(R, S, x) = k
  <2>1. Ranked(R, S)
    BY <1>1, RanksAreTaken
  <2>. QED
    BY <2>1 DEF n, Ranked
<1>5. ASSUME NEW k \in 1..n PROVE o[k] \in S /\ Rank(R, S, o[k]) = k - 1
  <2>1. \E x \in S : Cardinality({y \in S : y < x}) = k - 1
    BY <1>2, <1>3
  <2>. QED
    BY <1>2, <1>4, <2>1
<1>6. ASSUME NEW x \in S, NEW y \in S
      PROVE  x < y <=> Rank(R, S, x) < Rank(R, S, y)
  <2>1. x < y \/ x = y \/ y < x
    OBVIOUS
  <2>2. Rank(R, S, x) \in Int /\ Rank(R, S, y) \in Int
    BY <1>3
  <2>3. CASE x < y
    <3>1. Rank(R, S, x) < Rank(R, S, y)
      BY <1>3, <1>9, <2>3
    <3>. QED
      BY <2>3, <3>1
  <2>4. CASE x = y
    BY <2>2, <2>4
  <2>5. CASE y < x
    <3>1. Rank(R, S, y) < Rank(R, S, x)
      BY <1>3, <1>9, <2>5
    <3>. QED
      BY <2>2, <2>5, <3>1
  <2>. QED
    BY <2>1, <2>3, <2>4, <2>5
<1>7. ASSUME NEW k \in 1..n, NEW l \in 1..n PROVE k < l <=> o[k] < o[l]
  <2>1. /\ o[k] \in S /\ Rank(R, S, o[k]) = k - 1
        /\ o[l] \in S /\ Rank(R, S, o[l]) = l - 1
    BY <1>5
  <2>2. o[k] < o[l] <=> Rank(R, S, o[k]) < Rank(R, S, o[l])
    BY <1>6, <2>1
  <2>3. k < l <=> k - 1 < l - 1
    BY <1>3
  <2>. QED
    BY <2>1, <2>2, <2>3
<1>8. ASSUME NEW x \in S PROVE \E k \in 1..n : o[k] = x
  <2> DEFINE k == Rank(R, S, x) + 1
  <2>1. k \in 1..n /\ Rank(R, S, x) = k - 1
    BY <1>3
  <2>2. o[k] \in S /\ Rank(R, S, o[k]) = k - 1
    BY <1>5, <2>1
  <2>3. o[k] = x
    BY <1>3, <2>1, <2>2
  <2>. QED
    BY <2>1, <2>3
<1>10. o \in [1..n -> S]
  BY <1>4, <1>5
<1>. QED
  BY <1>3, <1>7, <1>8, <1>10 DEF n, o

(* The first n of a sequence are a sequence. *)
LEMMA TakenSequence ==
  ASSUME NEW T, NEW s \in Seq(T), NEW n \in Nat
  PROVE  /\ Take(s, n) \in Seq(T)
         /\ Len(Take(s, n)) = IF Len(s) < n THEN Len(s) ELSE n
         /\ Len(Take(s, n)) <= n /\ Len(Take(s, n)) <= Len(s)
         /\ \A i \in 1..Len(Take(s, n)) : i \in 1..Len(s) /\ Take(s, n)[i] = s[i]
<1> DEFINE m == IF Len(s) < n THEN Len(s) ELSE n
<1>1. m \in 0..Len(s) /\ m <= n
  OBVIOUS
<1>2. Take(s, n) = SubSeq(s, 1, m)
  BY DEF Take
<1> HIDE DEF m
<1>3. /\ SubSeq(s, 1, m) \in Seq(T) /\ Len(SubSeq(s, 1, m)) = m
      /\ \A i \in 1..m : i \in 1..Len(s) /\ SubSeq(s, 1, m)[i] = s[i]
  BY <1>1
<1>. QED
  BY <1>1, <1>2, <1>3 DEF m

LEMMA FunctionIsSequence ==
  ASSUME NEW T, NEW n \in Nat, NEW f \in [1..n -> T]
  PROVE  f \in Seq(T) /\ Len(f) = n /\ DOMAIN f = 1..n
  OBVIOUS

(* Whatever runs through a set of numbers in their order is that order.    *)
Runs(f, n, T) ==
  /\ T \subseteq Int /\ n \in Nat /\ f \in [1..n -> T]
  /\ \A k, l \in 1..n : k < l <=> f[k] < f[l]
  /\ \A x \in T : \E k \in 1..n : f[k] = x

LEMMA OrderedIsOnly ==
  ASSUME NEW T, NEW n, NEW f, Runs(f, n, T)
  PROVE  IsFiniteSet(T) /\ Cardinality(T) = n /\ InOrder(T) = f
<1> DEFINE Below(k) == {y \in T : y < f[k]}
<1>0. /\ T \subseteq Int /\ n \in Nat /\ f \in [1..n -> T]
      /\ \A x \in T : \E k \in 1..n : f[k] = x
  BY DEF Runs
<1>1. \A k, l \in 1..n : k < l <=> f[k] < f[l]
  BY DEF Runs
<1>2. \A k, l \in 1..n : f[k] = f[l] => k = l
  <2>. SUFFICES ASSUME NEW k \in 1..n, NEW l \in 1..n, f[k] = f[l]
                PROVE  k = l
    OBVIOUS
  <2>1. f[k] \in Int /\ f[l] \in Int
    BY <1>0
  <2>2. ~(k < l) /\ ~(l < k)
    BY <1>1, <2>1
  <2>. QED
    BY <1>0, <2>2
<1>3. IsFiniteSet(T) /\ Cardinality(T) = n
  <2>1. f \in Surjection(1..n, T) /\ f \in Injection(1..n, T)
    BY <1>0, <1>2 DEF Surjection, Injection, IsInjective
  <2>2. IsFiniteSet(1..n) /\ Cardinality(1..n) = n
    BY <1>0, FS_Interval
  <2>. QED
    BY <2>1, <2>2, FS_Surjection
<1>4. ASSUME NEW k \in 1..n PROVE Cardinality(Below(k)) = k - 1
  <2> DEFINE g == [j \in 1..(k - 1) |-> f[j]]
             B == Below(k)
  <2>1. \A j \in 1..(k - 1) : j \in 1..n /\ j < k
    BY <1>0
  <2>2. \A j \in 1..(k - 1) : f[j] \in B
    BY <1>0, <1>1, <2>1
  <2>3. ASSUME NEW y \in B PROVE \E j \in 1..(k - 1) : f[j] = y
    <3>1. PICK j \in 1..n : f[j] = y
      BY <1>0
    <3>2. j < k
      BY <1>1, <3>1
    <3>. QED
      BY <3>1, <3>2
  <2> HIDE DEF B
  <2>4. g \in [1..(k - 1) -> B]
    BY <2>2
  <2>5. g \in Surjection(1..(k - 1), B)
    BY <2>3, <2>4 DEF Surjection
  <2>6. g \in Injection(1..(k - 1), B)
    BY <1>0, <1>2, <2>1, <2>4 DEF Injection, IsInjective
  <2>7. IsFiniteSet(1..(k - 1)) /\ Cardinality(1..(k - 1)) = k - 1
    BY <1>0, FS_Interval
  <2>8. Cardinality(B) = k - 1
    BY <2>5, <2>6, <2>7, FS_Surjection
  <2>. QED
    BY <2>8 DEF B
<1> DEFINE o == InOrder(T)
<1>5. o = [k \in 1..n |-> CHOOSE x \in T : Cardinality({y \in T : y < x}) = k - 1]
  BY <1>3 DEF InOrder, Ordered
<1> HIDE DEF o
<1>6. ASSUME NEW k \in 1..n PROVE o[k] = f[k]
  <2>1. \E x \in T : Cardinality({y \in T : y < x}) = k - 1
    BY <1>0, <1>4
  <2>2. o[k] \in T /\ Cardinality({y \in T : y < o[k]}) = k - 1
    BY <1>5, <2>1
  <2>3. PICK l \in 1..n : f[l] = o[k]
    BY <1>0, <2>2
  <2>4. Cardinality({y \in T : y < o[k]}) = l - 1
    BY <1>4, <2>3
  <2>5. l - 1 = k - 1
    BY <2>2, <2>4
  <2>6. l = k
    BY <1>0, <2>5
  <2>. QED
    BY <2>3, <2>6
<1>7. o = f
  BY <1>0, <1>5, <1>6
<1>. QED
  BY <1>3, <1>7 DEF o

(* What follows the m-th of a set of numbers is in order, too.             *)
Beyond(T, S, o, m) == \A x : x \in T <=> x \in S /\ (m > 0 => x > o[m])

LEMMA TailIsOrdered ==
  ASSUME NEW S, NEW n, NEW o, Runs(o, n, S), NEW m \in Nat, m <= n,
         NEW T, Beyond(T, S, o, m)
  PROVE  /\ InOrder(T) \in Seq(Int) /\ Len(InOrder(T)) = n - m
         /\ \A k \in 1..(n - m) : InOrder(T)[k] = o[m + k]
<1>1. /\ S \subseteq Int /\ n \in Nat /\ o \in [1..n -> S]
      /\ \A k, l \in 1..n : k < l <=> o[k] < o[l]
      /\ \A x \in S : \E k \in 1..n : o[k] = x
  BY DEF Runs
<1>2. \A x : x \in T <=> x \in S /\ (m > 0 => x > o[m])
  BY DEF Beyond
<1>3. n \in Nat /\ m \in Nat /\ m <= n
  BY <1>1
<1> DEFINE f == [k \in 1..(n - m) |-> o[m + k]]
<1>4. \A k \in 1..(n - m) : m + k \in 1..n /\ m < m + k
  BY <1>1, <1>3
<1>5. \A k \in 1..(n - m) : o[m + k] \in S /\ o[m + k] \in T
  <2>. SUFFICES ASSUME NEW k \in 1..(n - m) PROVE o[m + k] \in S /\ o[m + k] \in T
    OBVIOUS
  <2>1. m + k \in 1..n /\ o[m + k] \in S
    BY <1>1, <1>4
  <2>2. ASSUME m > 0 PROVE o[m + k] > o[m]
    <3>0. m \in 1..n /\ m < m + k
      BY <1>3, <1>4, <2>2
    <3>1. o[m] \in Int /\ o[m + k] \in Int
      BY <1>1, <2>1, <3>0
    <3>2. o[m] < o[m + k]
      BY <1>1, <2>1, <3>0
    <3>. QED
      BY <3>1, <3>2
  <2>. QED
    BY <1>2, <2>1, <2>2
<1>6. T \in SUBSET Int
  BY <1>1, <1>2
<1>12. n - m \in Nat
  BY <1>3
<1>7. f \in [1..(n - m) -> T]
  BY <1>5
<1>8. ASSUME NEW k \in 1..(n - m), NEW l \in 1..(n - m)
      PROVE  k < l <=> f[k] < f[l]
  <2>1. m + k \in 1..n /\ m + l \in 1..n
    BY <1>4
  <2>2. m + k < m + l <=> o[m + k] < o[m + l]
    BY <1>1, <2>1
  <2>3. k < l <=> m + k < m + l
    BY <1>3
  <2>. QED
    BY <2>2, <2>3
<1>9. ASSUME NEW x \in T PROVE \E k \in 1..(n - m) : f[k] = x
  <2>1. PICK i \in 1..n : o[i] = x
    BY <1>1, <1>2
  <2>2. m < i
    <3>1. CASE m = 0
      BY <3>1
    <3>2. CASE m > 0
      <4>0. m \in 1..n
        BY <1>3, <3>2
      <4>1. o[m] \in Int /\ o[i] \in Int
        BY <1>1, <4>0
      <4>2. x > o[m]
        BY <1>2, <3>2
      <4>3. o[m] < o[i]
        BY <2>1, <4>1, <4>2
      <4>. QED
        BY <1>1, <4>0, <4>3
    <3>. QED
      BY <1>3, <3>1, <3>2
  <2>3. i - m \in 1..(n - m) /\ m + (i - m) = i
    BY <1>1, <1>3, <2>2
  <2>4. f[i - m] = x
    BY <2>1, <2>3
  <2>. QED
    BY <2>3, <2>4
<1>10. InOrder(T) = f
  <2> DEFINE d == n - m
  <2>1. d \in Nat /\ f \in [1..d -> T] /\ T \in SUBSET Int
    BY <1>6, <1>7, <1>12
  <2>2. \A k, l \in 1..d : k < l <=> f[k] < f[l]
    BY <1>8
  <2>3. \A x \in T : \E k \in 1..d : f[k] = x
    BY <1>9
  <2> HIDE DEF f, d
  <2>4. Runs(f, d, T)
    BY <2>1, <2>2, <2>3 DEF Runs
  <2>. QED
    BY <2>4, OrderedIsOnly
<1>11. f \in Seq(Int) /\ Len(f) = n - m
  <2>1. f \in [1..(n - m) -> Int]
    BY <1>6, <1>7
  <2> HIDE DEF f
  <2>. QED
    BY <1>12, <2>1, FunctionIsSequence
<1>. QED
  BY <1>10, <1>11

(* The values of a column, and how common they are. *)
LEMMA CountedValues ==
  ASSUME NEW rows \in Seq(Values \union {Null})
  PROVE  /\ ValuesIn(rows) \subseteq Values /\ IsFiniteSet(ValuesIn(rows))
         /\ \A v : Count(rows, v) \in Nat
<1>1. IsFiniteSet(DOMAIN rows)
  <2>1. DOMAIN rows = 1..Len(rows) /\ Len(rows) \in Nat
    OBVIOUS
  <2>. QED
    BY <2>1, FS_Interval
<1>2. ASSUME NEW v PROVE Count(rows, v) \in Nat
  <2>1. {i \in DOMAIN rows : rows[i] = v} \in SUBSET DOMAIN rows
    OBVIOUS
  <2>2. IsFiniteSet({i \in DOMAIN rows : rows[i] = v})
    BY <1>1, <2>1, FS_Subset
  <2>. QED
    BY <2>2, FS_CardinalityType DEF Count
<1>3. ValuesIn(rows) \subseteq Values
  BY DEF ValuesIn
<1>4. IsFiniteSet({rows[i] : i \in DOMAIN rows})
  <2> DEFINE f == [i \in DOMAIN rows |-> rows[i]]
             T == {rows[i] : i \in DOMAIN rows}
  <2>1. f \in Surjection(DOMAIN rows, T)
    BY DEF Surjection
  <2> HIDE DEF f, T
  <2>2. IsFiniteSet(T)
    BY <1>1, <2>1, FS_Surjection
  <2>. QED
    BY <2>2 DEF T
<1>5. IsFiniteSet(ValuesIn(rows))
  <2>1. ValuesIn(rows) \in SUBSET {rows[i] : i \in DOMAIN rows}
    BY DEF ValuesIn
  <2>. QED
    BY <1>4, <2>1, FS_Subset
<1>. QED
  BY <1>2, <1>3, <1>5

(* More common, or as common and before it as a text. *)
Commoner(rows, v, w) ==
  \/ Count(rows, v) > Count(rows, w)
  \/ Count(rows, v) = Count(rows, w) /\ <<v, w>> \in Collation

LEMMA CommonerOrders ==
  ASSUME NEW rows \in Seq(Values \union {Null})
  PROVE  Orders({p \in ValuesIn(rows) \X ValuesIn(rows) : Commoner(rows, p[1], p[2])},
                ValuesIn(rows))
<1> DEFINE S == ValuesIn(rows)
           R == {p \in S \X S : Commoner(rows, p[1], p[2])}
<1>1. \A v \in S : v \in Values /\ Count(rows, v) \in Int
  BY CountedValues
<1>2. \A v, w \in S : <<v, w>> \in R <=> Commoner(rows, v, w)
  OBVIOUS
<1>7. /\ \A v \in Values : <<v, v>> \notin Collation
      /\ \A u, v, w \in Values :
           <<u, v>> \in Collation /\ <<v, w>> \in Collation
             => <<u, w>> \in Collation
      /\ \A v, w \in Values :
           v # w => <<v, w>> \in Collation \/ <<w, v>> \in Collation
  BY DEF Orders
<1> HIDE DEF R, S
<1>3. ASSUME NEW v \in S PROVE <<v, v>> \notin R
  <2>1. Count(rows, v) \in Int /\ <<v, v>> \notin Collation
    BY <1>1, <1>7
  <2>2. ~ Commoner(rows, v, v)
    BY <2>1 DEF Commoner
  <2>. QED
    BY <1>2, <2>2
<1>4. ASSUME NEW u \in S, NEW v \in S, NEW w \in S, <<u, v>> \in R, <<v, w>> \in R
      PROVE  <<u, w>> \in R
  BY <1>1, <1>2, <1>4, <1>7 DEF Commoner
<1>5. ASSUME NEW v \in S, NEW w \in S, v # w
      PROVE  <<v, w>> \in R \/ <<w, v>> \in R
  BY <1>1, <1>2, <1>5, <1>7 DEF Commoner
<1>6. Orders(R, S)
  BY <1>3, <1>4, <1>5 DEF Orders
<1>. QED
  BY <1>6 DEF R, S

(* The common values of a column are values of it, each named once.        *)
LEMMA CommonestValues ==
  ASSUME NEW rows \in Seq(Values \union {Null})
  PROVE  /\ Commonest(rows) \in Seq(Values)
         /\ \A i, j \in 1..Len(Commonest(rows)) :
              Commonest(rows)[i] = Commonest(rows)[j] => i = j
<1> DEFINE S == ValuesIn(rows)
           R == {p \in S \X S : Commoner(rows, p[1], p[2])}
           n == Cardinality(S)
           before(v, w) == \/ Count(rows, v) > Count(rows, w)
                           \/ Count(rows, v) = Count(rows, w)
                              /\ <<v, w>> \in Collation
           o == Ordered(S, before)
<1>1. S \subseteq Values /\ IsFiniteSet(S)
  BY CountedValues
<1>2. Ranked(R, S)
  BY <1>1, CommonerOrders, RanksAreTaken, Zenon
<1>3. Commonest(rows) = Take(o, TopValues)
  BY DEF Commonest
<1>4. o = [k \in 1..n |->
             CHOOSE x \in S : Cardinality({y \in S : before(y, x)}) = k - 1]
  BY DEF Ordered
<1>5. \A x \in S : Cardinality({y \in S : before(y, x)}) = Rank(R, S, x)
  <2>1. \A x, y \in S : <<y, x>> \in R <=> before(y, x)
    BY DEF Commoner
  <2> HIDE DEF before, R, S
  <2>2. ASSUME NEW x \in S
        PROVE  {y \in S : before(y, x)} = {y \in S : <<y, x>> \in R}
    BY <2>1
  <2>. QED
    BY <2>2 DEF Rank
<1> HIDE DEF R, o, n, before, S
<1>6. /\ n \in Nat
      /\ \A k \in 0..(n - 1) : \E x \in S : Rank(R, S, x) = k
  BY <1>2 DEF Ranked, n
<1>7. ASSUME NEW k \in 1..n PROVE o[k] \in S /\ Rank(R, S, o[k]) = k - 1
  <2>1. \E x \in S : Cardinality({y \in S : before(y, x)}) = k - 1
    BY <1>5, <1>6
  <2>. QED
    BY <1>4, <1>5, <2>1
<1>8. o \in [1..n -> Values]
  BY <1>1, <1>4, <1>7
<1>9. o \in Seq(Values) /\ Len(o) = n
  BY <1>6, <1>8, FunctionIsSequence
<1>10. ASSUME NEW i \in 1..n, NEW j \in 1..n, o[i] = o[j] PROVE i = j
  <2>1. i - 1 = j - 1
    BY <1>7, <1>10
  <2>. QED
    BY <2>1
<1>11. /\ Take(o, TopValues) \in Seq(Values)
       /\ \A i \in 1..Len(Take(o, TopValues)) :
            i \in 1..Len(o) /\ Take(o, TopValues)[i] = o[i]
  BY <1>9, TakenSequence
<1>. QED
  BY <1>3, <1>9, <1>10, <1>11

-----------------------------------------------------------------------------
(* The walk: the features asked for, in order, and how far it has come.    *)

LEMMA SameSequence ==
  ASSUME NEW s \in Seq(Int), NEW t \in Seq(Int), Len(s) = Len(t),
         \A i \in 1..Len(s) : s[i] = t[i]
  PROVE  s = t
<1>1. DOMAIN s = 1..Len(s) /\ DOMAIN t = 1..Len(t)
  OBVIOUS
<1>2. s = [i \in DOMAIN s |-> s[i]] /\ t = [i \in DOMAIN t |-> t[i]]
  OBVIOUS
<1>. QED
  BY <1>1, <1>2, Zenon

LEMMA JoinedSequence ==
  ASSUME NEW s \in Seq(Int), NEW t \in Seq(Int)
  PROVE  /\ s \o t \in Seq(Int) /\ Len(s \o t) = Len(s) + Len(t)
         /\ \A i \in 1..Len(s) : (s \o t)[i] = s[i]
         /\ \A i \in 1..Len(t) : (s \o t)[Len(s) + i] = t[i]
  OBVIOUS

LEMMA WantedInOrder ==
  ASSUME table \in Tables, NEW W, W \subseteq Fids
  PROVE  /\ W \subseteq Nat /\ Cardinality(W) \in Nat
         /\ InOrder(W) \in Seq(Int) /\ Len(InOrder(W)) = Cardinality(W)
         /\ InOrder(W) \in [1..Cardinality(W) -> W]
         /\ \A k, l \in 1..Cardinality(W) : k < l <=> InOrder(W)[k] < InOrder(W)[l]
         /\ \A x \in W : \E k \in 1..Cardinality(W) : InOrder(W)[k] = x
<1>1. DOMAIN table = 1..Len(table) /\ Len(table) \in Nat
  BY TablesAssumption
<1>2. /\ W \in SUBSET (FirstFid..(FirstFid + Len(table)))
      /\ IsFiniteSet(FirstFid..(FirstFid + Len(table)))
  <2>1. FirstFid \in Int /\ FirstFid + Len(table) \in Int
    BY <1>1, TablesAssumption
  <2>2. Fids \subseteq FirstFid..(FirstFid + Len(table))
    BY <1>1, TablesAssumption DEF Fids
  <2>. QED
    BY <2>1, <2>2, FS_Interval
<1>3. IsFiniteSet(W)
  BY <1>2, FS_Subset
<1>4. W \in SUBSET Int /\ W \subseteq Nat
  BY <1>1, <1>2, TablesAssumption
<1>5. /\ Cardinality(W) \in Nat
      /\ InOrder(W) \in [1..Cardinality(W) -> W]
      /\ \A k, l \in 1..Cardinality(W) : k < l <=> InOrder(W)[k] < InOrder(W)[l]
      /\ \A x \in W : \E k \in 1..Cardinality(W) : InOrder(W)[k] = x
  BY <1>3, <1>4, OrderedNumbers
<1>6. InOrder(W) \in [1..Cardinality(W) -> Int]
  BY <1>4, <1>5
<1>7. InOrder(W) \in Seq(Int) /\ Len(InOrder(W)) = Cardinality(W)
  BY <1>5, <1>6, FunctionIsSequence
<1>. QED
  BY <1>4, <1>5, <1>7

(* Before its first page a walk has seen nothing.                          *)
LEMMA NoneTaken ==
  ASSUME NEW s \in Seq(Int)
  PROVE  Take(s, 0) = <<>>
<1>1. Take(s, 0) \in Seq(Int) /\ Len(Take(s, 0)) = 0
  BY TakenSequence
<1>. QED
  BY <1>1

(* A page carries the walk on from where it stands.                        *)
First(seen, m, o) ==
  /\ o \in Seq(Int) /\ m \in Nat /\ m <= Len(o)
  /\ seen \in Seq(Int) /\ Len(seen) = m /\ \A i \in 1..m : seen[i] = o[i]

Rest(q, m, o) ==
  /\ q \in Seq(Int) /\ Len(q) = Len(o) - m
  /\ \A k \in 1..(Len(o) - m) : q[k] = o[m + k]

Continued(seen, rows, visible, limit, o) ==
  /\ seen \o visible \in Seq(Int)
  /\ seen \o visible = Take(o, Len(seen \o visible))
  /\ Len(rows) > limit => /\ Last(visible) \in Int /\ seen \o visible # <<>>
                          /\ Last(visible) = Last(seen \o visible)
  /\ ~(Len(rows) > limit) => seen \o visible = o

LEMMA PageIsNext ==
  ASSUME NEW seen, NEW m, NEW o, First(seen, m, o), NEW q, Rest(q, m, o),
         NEW limit \in Nat, limit > 0
  PROVE  Continued(seen, Take(q, limit + 1), Take(Take(q, limit + 1), limit),
                   limit, o)
<1> DEFINE n == Len(o)
<1>0. /\ n \in Nat /\ o \in Seq(Int) /\ Len(o) = n /\ m \in Nat /\ m <= n
      /\ seen \in Seq(Int) /\ Len(seen) = m /\ \A i \in 1..m : seen[i] = o[i]
  BY DEF First
<1>11. /\ q \in Seq(Int) /\ Len(q) = n - m
       /\ \A k \in 1..(n - m) : q[k] = o[m + k]
  BY DEF Rest
<1> HIDE DEF n
<1> DEFINE rows    == Take(q, limit + 1)
           visible == Take(rows, limit)
           v       == IF n - m < limit THEN n - m ELSE limit
           next    == seen \o visible
<1>1. v \in Nat /\ v <= n - m /\ m + v \in Nat /\ m + v <= n
  BY <1>0
<1>2. /\ rows \in Seq(Int)
      /\ Len(rows) = IF n - m < limit + 1 THEN n - m ELSE limit + 1
      /\ \A i \in 1..Len(rows) : i \in 1..Len(q) /\ rows[i] = q[i]
  <2>1. limit + 1 \in Nat /\ q \in Seq(Int) /\ Len(q) = n - m
    BY <1>11
  <2>. QED
    BY <2>1, TakenSequence
<1> HIDE DEF rows
<1>3. /\ visible \in Seq(Int)
      /\ Len(visible) = IF Len(rows) < limit THEN Len(rows) ELSE limit
      /\ \A i \in 1..Len(visible) : i \in 1..Len(rows) /\ visible[i] = rows[i]
  <2>1. rows \in Seq(Int) /\ limit \in Nat
    BY <1>2
  <2>2. \A s \in Seq(Int), k \in Nat :
          /\ Take(s, k) \in Seq(Int)
          /\ Len(Take(s, k)) = IF Len(s) < k THEN Len(s) ELSE k
          /\ \A i \in 1..Len(Take(s, k)) : i \in 1..Len(s) /\ Take(s, k)[i] = s[i]
    BY TakenSequence
  <2>. QED
    BY <2>1, <2>2
<1> HIDE DEF visible
<1>4. Len(visible) = v
  BY <1>0, <1>2, <1>3, <1>11
<1>5. \A i \in 1..v : visible[i] = o[m + i]
  <2>. SUFFICES ASSUME NEW i \in 1..v PROVE visible[i] = o[m + i]
    OBVIOUS
  <2>1. i \in 1..Len(visible) /\ i \in 1..(n - m)
    BY <1>0, <1>1, <1>4
  <2>2. visible[i] = q[i]
    BY <1>2, <1>3, <2>1
  <2>. QED
    BY <1>11, <2>1, <2>2
<1>6. /\ next \in Seq(Int) /\ Len(next) = m + v
      /\ \A i \in 1..m : next[i] = seen[i]
      /\ \A i \in 1..v : next[m + i] = visible[i]
  <2>1. visible \in Seq(Int)
    BY <1>3
  <2>2. /\ next \in Seq(Int) /\ Len(next) = Len(seen) + Len(visible)
        /\ \A i \in 1..Len(seen) : next[i] = seen[i]
        /\ \A i \in 1..Len(visible) : next[Len(seen) + i] = visible[i]
    BY <1>0, <2>1, JoinedSequence
  <2> HIDE DEF next, v
  <2>. QED
    BY <1>0, <1>4, <2>2
<1> HIDE DEF next
<1>7. \A i \in 1..(m + v) : next[i] = o[i]
  <2>. SUFFICES ASSUME NEW i \in 1..(m + v) PROVE next[i] = o[i]
    OBVIOUS
  <2>1. CASE i <= m
    <3>1. i \in 1..m
      BY <1>0, <2>1
    <3>. QED
      BY <1>0, <1>6, <3>1
  <2>2. CASE i > m
    <3>1. PICK j \in 1..v : i = m + j
      <4>1. i - m \in 1..v /\ i = m + (i - m)
        BY <1>0, <1>1, <2>2
      <4>. QED
        BY <4>1
    <3>2. next[m + j] = visible[j] /\ visible[j] = o[m + j]
      BY <1>5, <1>6
    <3>. QED
      BY <3>1, <3>2
  <2>. QED
    BY <1>0, <2>1, <2>2
<1>8. next = Take(o, Len(next))
  <2> DEFINE k == m + v
             t == Take(o, k)
  <2>1. /\ t \in Seq(Int) /\ Len(t) = IF Len(o) < k THEN Len(o) ELSE k
        /\ \A i \in 1..Len(t) : t[i] = o[i]
    BY <1>0, <1>1, TakenSequence
  <2>2. Len(t) = k
    BY <1>0, <1>1, <2>1
  <2>3. Len(next) = k
    BY <1>6
  <2>4. \A i \in 1..Len(next) : next[i] = t[i]
    BY <1>7, <2>1, <2>2, <2>3
  <2> HIDE DEF t, k
  <2>5. next = t
    BY <1>6, <2>1, <2>2, <2>3, <2>4, SameSequence
  <2>. QED
    BY <2>3, <2>5 DEF t
<1>9. ASSUME Len(rows) > limit
      PROVE  /\ Last(visible) \in Int /\ next # <<>>
             /\ Last(visible) = Last(next)
  <2>1. v = limit
    BY <1>0, <1>2, <1>9
  <2>2. Last(visible) = visible[v] /\ Last(next) = next[m + v]
    BY <1>4, <1>6 DEF Last
  <2>6. m + v \in 1..n /\ v \in 1..v /\ m + v \in 1..(m + v)
    BY <1>0, <1>1, <2>1
  <2>3. visible[v] = o[m + v] /\ next[m + v] = o[m + v]
    BY <1>5, <1>7, <2>6
  <2>4. o[m + v] \in Int
    BY <1>0, <2>6
  <2>5. next # <<>>
    <3>1. m + v > 0
      BY <1>0, <2>1
    <3>. QED
      BY <1>6, <3>1
  <2>. QED
    BY <2>2, <2>3, <2>4, <2>5
<1>10. ASSUME ~(Len(rows) > limit)
       PROVE  next = o
  <2>1. m + v = n
    BY <1>0, <1>2, <1>10
  <2>2. Len(next) = Len(o) /\ \A i \in 1..Len(next) : next[i] = o[i]
    BY <1>0, <1>6, <1>7, <2>1
  <2>. QED
    BY <1>0, <1>6, <2>2, SameSequence
<1>. QED
  BY <1>6, <1>8, <1>9, <1>10 DEF Continued, rows, visible, next

LEMMA ListIInv ==
  ASSUME IInv, ListLayerFeatures, UNCHANGED table
  PROVE  WalkIsInOrder'
<1> DEFINE W == walk.wanted
           o == InOrder(W)
           n == Cardinality(W)
           m == Len(walk.seen)
           after == {f \in W \cap fids :
                      f > IF walk.cursor = NoCursor THEN -1 ELSE walk.cursor}
           q == InOrder(after)
<1>1. /\ W \subseteq Nat /\ n \in Nat /\ o \in Seq(Int) /\ Len(o) = n
      /\ o \in [1..n -> W]
      /\ \A k, l \in 1..n : k < l <=> o[k] < o[l]
      /\ \A x \in W : \E k \in 1..n : o[k] = x
  <2>1. table \in Tables /\ W \subseteq Fids
    BY DEF IInv, ProfileIsOfTable, WalkIsOverTable
  <2>. QED
    BY <2>1, WantedInOrder
<1>2. /\ walk \in [pc : {"resting", "asking", "querying", "complete"},
                   limit : 0..MaxLimit, wanted : SUBSET Int,
                   cursor : Int \union {NoCursor}, seen : Seq(Int)]
      /\ walk.seen = Take(o, m) /\ m \in Nat /\ walk.limit > 0
      /\ walk.cursor = IF walk.seen = <<>> THEN NoCursor ELSE Last(walk.seen)
  BY DEF IInv, WalkIsInOrder, ListLayerFeatures
<1>3. W \cap fids = W
  BY DEF IInv, ProfileIsOfTable, WalkIsOverTable, ListLayerFeatures
<1>4. Rows = Take(q, walk.limit + 1)
  BY DEF Rows
<1> HIDE DEF o, n, q
<1>5. m <= n /\ \A i \in 1..m : i \in 1..n /\ walk.seen[i] = o[i]
  <2>1. /\ Len(Take(o, m)) = IF Len(o) < m THEN Len(o) ELSE m
        /\ \A i \in 1..Len(Take(o, m)) : i \in 1..Len(o) /\ Take(o, m)[i] = o[i]
    <3>1. o \in Seq(Int) /\ m \in Nat
      BY <1>1, <1>2
    <3> HIDE DEF m
    <3>. QED
      BY <3>1, TakenSequence
  <2>. QED
    BY <1>1, <1>2, <2>1
<1>6. \A x : x \in after <=> x \in W /\ (m > 0 => x > o[m])
  <2>1. CASE m = 0
    <3>1. walk.cursor = NoCursor
      BY <1>2, <2>1
    <3>. QED
      BY <1>1, <1>3, <2>1, <3>1
  <2>2. CASE m > 0
    <3>1. m \in 1..m /\ o[m] \in Int
      BY <1>1, <1>2, <1>5, <2>2
    <3>2. Last(walk.seen) = o[m] /\ walk.seen # <<>>
      BY <1>2, <1>5, <2>2, <3>1 DEF Last
    <3>3. walk.cursor = o[m] /\ walk.cursor # NoCursor
      BY <1>2, <3>1, <3>2
    <3>. QED
      BY <1>1, <1>3, <2>2, <3>3
  <2>. QED
    BY <1>2, <2>1, <2>2
<1> HIDE DEF m, after, W
<1>7. /\ q \in Seq(Int) /\ Len(q) = n - m
      /\ \A k \in 1..(n - m) : q[k] = o[m + k]
  <2>1. Runs(o, n, W)
    BY <1>1 DEF Runs
  <2>2. Beyond(after, W, o, m)
    BY <1>6 DEF Beyond
  <2>3. m \in Nat /\ m <= n
    BY <1>2, <1>5 DEF m
  <2>. QED
    BY <2>1, <2>2, <2>3, TailIsOrdered DEF q
<1> DEFINE next == walk.seen \o Visible
<1>8. /\ next \in Seq(Int) /\ next = Take(o, Len(next))
      /\ Len(Rows) > walk.limit =>
           Last(Visible) \in Int /\ next # <<>> /\ Last(Visible) = Last(next)
      /\ ~(Len(Rows) > walk.limit) => next = o
  <2>1. /\ walk.seen \in Seq(Int) /\ Len(walk.seen) = m /\ m \in Nat
        /\ walk.limit \in Nat /\ walk.limit > 0
    BY <1>2 DEF m
  <2>2. First(walk.seen, m, o)
    BY <1>1, <1>5, <2>1 DEF First
  <2>3. Rest(q, m, o)
    BY <1>1, <1>7 DEF Rest
  <2>4. Continued(walk.seen, Rows, Visible, walk.limit, o)
    BY <1>4, <2>1, <2>2, <2>3, PageIsNext DEF Visible
  <2>. QED
    BY <2>4 DEF Continued
<1>9. walk' = [walk EXCEPT !.seen = next, !.cursor = NextCursor,
                 !.pc = IF NextCursor = NoCursor THEN "complete" ELSE "asking"]
  BY DEF ListLayerFeatures
<1>10. InOrder(walk'.wanted) = o
  BY <1>2, <1>9 DEF o, W
<1> HIDE DEF next
<1>11. CASE Len(Rows) > walk.limit
  <2>1. NextCursor = Last(next) /\ NextCursor \in Int /\ next # <<>>
    BY <1>8, <1>11 DEF NextCursor
  <2>. QED
    BY <1>2, <1>8, <1>9, <1>10, <2>1 DEF WalkIsInOrder
<1>12. CASE ~(Len(Rows) > walk.limit)
  <2>1. NextCursor = NoCursor
    BY <1>12 DEF NextCursor
  <2>. QED
    BY <1>2, <1>8, <1>9, <1>10, <1>12, <2>1 DEF WalkIsInOrder
<1>. QED
  BY <1>11, <1>12

-----------------------------------------------------------------------------
(* Every step preserves the invariant.                                     *)

(* What is neither of the walk nor of the table leaves the walk in order.  *)
LEMMA WalkIsKept ==
  ASSUME WalkIsOverTable, WalkIsInOrder, UNCHANGED walk, UNCHANGED table
  PROVE  WalkIsOverTable' /\ WalkIsInOrder'
  BY DEF WalkIsOverTable, WalkIsInOrder, Fids

(* A walk that has not asked yet has seen the first none.                  *)
LEMMA WalkIsFresh ==
  ASSUME table \in Tables, UNCHANGED table,
         walk' \in [pc : {"resting", "asking"}, limit : 0..MaxLimit,
                    wanted : SUBSET Fids, cursor : {NoCursor},
                    seen : {<<>>}],
         walk'.pc = "asking" => walk'.limit > 0
  PROVE  WalkIsOverTable' /\ WalkIsInOrder'
<1>1. walk'.wanted \subseteq Fids
  OBVIOUS
<1>2. walk'.wanted \subseteq Nat /\ InOrder(walk'.wanted) \in Seq(Int)
  BY <1>1, WantedInOrder
<1>3. Take(InOrder(walk'.wanted), 0) = <<>>
  BY <1>2, NoneTaken
<1>4. Len(<<>>) = 0 /\ <<>> \in Seq(Int)
  OBVIOUS
<1>5. walk'.wanted \in SUBSET Int
  BY <1>2
<1>6. walk' \in [pc : {"resting", "asking", "querying", "complete"},
                 limit : 0..MaxLimit, wanted : SUBSET Int,
                 cursor : Int \union {NoCursor}, seen : Seq(Int)]
  BY <1>4, <1>5
<1>7. /\ walk'.seen = <<>> /\ walk'.cursor = NoCursor
      /\ walk'.pc \in {"resting", "asking"}
  OBVIOUS
<1>8. walk'.seen = Take(InOrder(walk'.wanted), Len(walk'.seen))
  BY <1>3, <1>4, <1>7
<1>. QED
  BY <1>1, <1>6, <1>7, <1>8 DEF WalkIsOverTable, WalkIsInOrder, Fids

LEMMA PublishIInv ==
  ASSUME IInv, Publish
  PROVE  IInv'
<1>0. (Simple \in Drawings)'
  BY SimpleIsDrawn, PTL
<1>1. Simple \in Drawings'
  BY <1>0 DEF Simple
<1>2. /\ style' = [drawn |-> Simple, revision |-> 1] /\ update' = update
      /\ update = [r \in Requests |-> Idle]
      /\ Fids' = Fids
  BY DEF Fids, IInv, TypeOK, StyleTypeOK, Publish, EnsureVectorStyle
<1>3. StyleTypeOK'
  BY <1>1, <1>2 DEF StyleTypeOK, Idle
<1>4. TypeOK'
  BY <1>2, <1>3 DEF IInv, TypeOK, Publish
<1>5. LockIsExclusive'
  BY <1>2 DEF LockIsExclusive, Idle
<1>6. ProfileIsOfTable'
  <2>1. table \in Tables /\ fids \in {{}, Fids}
    BY DEF IInv, ProfileIsOfTable
  <2>2. /\ table' = table /\ fids' = fids /\ profile' = ProfileField(table)
        /\ style'.revision # 0
    BY <1>2 DEF Publish
  <2>. QED
    BY <1>2, <2>1, <2>2 DEF ProfileIsOfTable
<1>7. WalkIsOverTable' /\ WalkIsInOrder'
  BY WalkIsKept DEF IInv, Publish
<1>. QED
  BY <1>4, <1>5, <1>6, <1>7 DEF IInv

(* The rows that may be read come and go.                                  *)
LEMMA StyleIsKept ==
  ASSUME IInv, UNCHANGED styleVars, UNCHANGED profile, UNCHANGED table,
         fids' \in {{}, fids}, served' \in BOOLEAN,
         served' => style.revision > 0 \/ served
  PROVE  TypeOK' /\ LockIsExclusive' /\ ProfileIsOfTable'
<1>1. /\ UNCHANGED <<style, update>> /\ Drawings' = Drawings
      /\ Fids' = Fids
  BY DrawingsAreKept DEF styleVars, Fids
<1>2. StyleTypeOK'
  BY <1>1 DEF IInv, TypeOK, StyleTypeOK
<1>3. TypeOK'
  BY <1>1, <1>2 DEF IInv, TypeOK, StyleTypeOK
<1>4. LockIsExclusive'
  BY <1>1 DEF IInv, LockIsExclusive
<1>5. ProfileIsOfTable'
  <2>1. /\ table \in Tables /\ fids \in {{}, Fids}
        /\ profile = IF style.revision = 0 THEN NoProfile ELSE ProfileField(table)
    BY DEF IInv, ProfileIsOfTable
  <2>2. NoProfile' = NoProfile /\ ProfileField(table)' = ProfileField(table)
    BY DEF NoProfile
  <2>. QED
    BY <1>1, <2>1, <2>2, Zenon DEF ProfileIsOfTable
<1>. QED
  BY <1>3, <1>4, <1>5

LEMMA WalkIInv ==
  ASSUME IInv, Walk
  PROVE  IInv'
<1>1. /\ UNCHANGED styleVars /\ UNCHANGED profile /\ UNCHANGED table
      /\ fids' = fids /\ served' = served /\ WalkStep
  BY DEF Walk, WalkStep, StartWalk, GetLayer, NotFound, ListLayerFeatures,
         FailQuery, EndWalk
<1>2. TypeOK' /\ LockIsExclusive' /\ ProfileIsOfTable'
  <2>1. fids' \in {{}, fids} /\ served' \in BOOLEAN
    BY <1>1 DEF IInv, TypeOK
  <2>. QED
    BY <1>1, <2>1, StyleIsKept
<1>3. /\ table \in Tables /\ fids \subseteq Fids
      /\ WalkIsOverTable /\ WalkIsInOrder
  BY DEF IInv, TypeOK, ProfileIsOfTable
<1>4. ASSUME NEW pc, pc \in {"resting"}, Give(pc)
      PROVE  WalkIsOverTable' /\ WalkIsInOrder'
  <2>1. /\ walk' \in [pc : {"resting", "asking"}, limit : 0..MaxLimit,
                      wanted : SUBSET Fids, cursor : {NoCursor},
                      seen : {<<>>}]
        /\ walk'.pc # "asking"
    BY <1>4 DEF Give, Resting
  <2>. QED
    BY <1>1, <1>3, <2>1, WalkIsFresh
<1>5. WalkIsOverTable' /\ WalkIsInOrder'
  <2>1. CASE StartWalk
    <3>1. PICK limit \in 1..MaxLimit, wanted \in SUBSET fids :
            walk' = [Resting EXCEPT !.pc = "asking", !.limit = limit,
                                    !.wanted = wanted]
      BY <2>1 DEF StartWalk
    <3>2. /\ walk' \in [pc : {"resting", "asking"}, limit : 0..MaxLimit,
                        wanted : SUBSET Fids, cursor : {NoCursor},
                        seen : {<<>>}]
          /\ walk'.limit > 0
      <4>1. /\ limit \in 0..MaxLimit /\ limit > 0
            /\ wanted \in SUBSET Fids
        BY <1>3
      <4>2. walk' = [pc |-> "asking", limit |-> limit, wanted |-> wanted,
                     cursor |-> NoCursor, seen |-> <<>>]
        BY <3>1 DEF Resting
      <4>. QED
        BY <4>1, <4>2
    <3>. QED
      BY <1>1, <1>3, <3>2, WalkIsFresh
  <2>2. CASE GetLayer
    BY <1>1, <1>3, <2>2 DEF GetLayer, WalkIsOverTable, WalkIsInOrder, Fids
  <2>3. CASE ListLayerFeatures
    <3>1. walk'.wanted = walk.wanted
      BY <1>3, <2>3 DEF ListLayerFeatures, WalkIsInOrder
    <3>. QED
      BY <1>1, <1>3, <2>3, <3>1, ListIInv DEF WalkIsOverTable, Fids
  <2>4. CASE NotFound \/ FailQuery \/ EndWalk
    BY <1>4, <2>4 DEF NotFound, FailQuery, EndWalk
  <2>. QED
    BY <1>1, <2>1, <2>2, <2>3, <2>4 DEF WalkStep
<1>. QED
  BY <1>2, <1>5 DEF IInv

LEMMA StyleIInv ==
  ASSUME IInv, NEW r \in Requests, Style(r)
  PROVE  IInv'
<1>1. /\ Drawings' = Drawings /\ UNCHANGED <<table, profile, fids, served, walk>>
      /\ style.revision > 0 /\ Fids' = Fids
  BY DrawingsAreKept DEF Style, Fids
<1>2. TypeOK' /\ LockIsExclusive' /\ style'.revision > 0
  <2>1. CASE Classify(r)
    <3>1. PICK mode \in Modes, count \in ClassCounts :
            /\ Drawable(mode, count)
            /\ update' = [update EXCEPT ![r] =
                            [pc |-> "classified", drawn |-> Drawn(mode, count),
                             revision |-> 0]]
      BY <2>1 DEF Classify
    <3>2. Drawn(mode, count) \in Drawings
      BY <3>1, DrawnIsAllowed
    <3>. QED
      BY <1>1, <2>1, <3>1, <3>2
         DEF IInv, TypeOK, StyleTypeOK, LockIsExclusive, Classify
  <2>2. CASE LockStyle(r)
    <3>1. update[r] \in [pc : {"idle", "classified", "locked"},
                         drawn : Drawings, revision : Nat]
      BY DEF IInv, TypeOK, StyleTypeOK
    <3>2. StyleTypeOK'
      BY <1>1, <2>2, <3>1 DEF IInv, TypeOK, StyleTypeOK, LockStyle
    <3>. QED
      BY <1>1, <2>2, <3>2 DEF IInv, TypeOK, StyleTypeOK, LockIsExclusive,
                              LockStyle, Locked
  <2>3. CASE SaveStyle(r)
    <3>1. \A q \in Requests : update'[q].pc # "locked"
      BY <2>3 DEF IInv, TypeOK, StyleTypeOK, LockIsExclusive, SaveStyle, Idle
    <3>2. StyleTypeOK'
      BY <1>1, <2>3, SimpleIsDrawn DEF IInv, TypeOK, StyleTypeOK, SaveStyle, Idle
    <3>3. style'.revision > 0
      BY <1>1, <2>3 DEF IInv, TypeOK, StyleTypeOK, LockIsExclusive, SaveStyle
    <3>. QED
      BY <1>1, <3>1, <3>2, <3>3 DEF IInv, TypeOK, LockIsExclusive
  <2>. QED
    BY <2>1, <2>2, <2>3 DEF Style, UpdateVectorStyle
<1>3. ProfileIsOfTable'
  <2>1. /\ table \in Tables /\ fids \in {{}, Fids}
        /\ profile = ProfileField(table)
    BY <1>1 DEF IInv, ProfileIsOfTable
  <2>. QED
    BY <1>1, <1>2, <2>1 DEF ProfileIsOfTable
<1>4. WalkIsOverTable' /\ WalkIsInOrder'
  BY <1>1, WalkIsKept DEF IInv
<1>. QED
  BY <1>2, <1>3, <1>4 DEF IInv

LEMMA InitIInv == Init => IInv
<1>. SUFFICES ASSUME Init PROVE IInv
  OBVIOUS
<1>1. StyleTypeOK
  BY SimpleIsDrawn DEF Init, StyleInit, StyleTypeOK, Idle
<1>2. TypeOK /\ LockIsExclusive /\ ProfileIsOfTable
  BY <1>1 DEF Init, StyleInit, TypeOK, LockIsExclusive, ProfileIsOfTable, Idle
<1>3. /\ walk.wanted = {} /\ walk.seen = <<>> /\ walk.pc = "resting"
      /\ walk \in [pc : {"resting"}, limit : 0..MaxLimit, wanted : {{}},
                   cursor : {NoCursor}, seen : {<<>>}]
  BY DEF Init, QueryInit, Resting
<1>4. Take(InOrder({}), 0) = <<>>
  <2>1. {} \subseteq Fids /\ table \in Tables
    BY DEF Init
  <2>2. InOrder({}) \in Seq(Int)
    BY <2>1, WantedInOrder
  <2>. QED
    BY <2>2, NoneTaken
<1>5. Len(<<>>) = 0 /\ <<>> \in Seq(Int)
  OBVIOUS
<1>6. WalkIsInOrder
  BY <1>3, <1>4, <1>5 DEF WalkIsInOrder
<1>7. WalkIsOverTable
  BY <1>3 DEF WalkIsOverTable
<1>. QED
  BY <1>2, <1>6, <1>7 DEF IInv

LEMMA NextIInv == IInv /\ [Next]_vars => IInv'
<1>. SUFFICES ASSUME IInv, [Next]_vars PROVE IInv'
  OBVIOUS
<1>1. CASE Publish
  BY <1>1, PublishIInv
<1>2. ASSUME UNCHANGED styleVars, UNCHANGED profile, UNCHANGED table,
             UNCHANGED walk, fids' \in {{}, fids}, served' \in BOOLEAN,
             served' => style.revision > 0 \/ served
      PROVE  IInv'
  BY <1>2, StyleIsKept, WalkIsKept DEF IInv
<1>3. CASE Turn
  BY <1>2, <1>3 DEF Turn, IInv, TypeOK
<1>4. CASE DropTable
  BY <1>2, <1>4 DEF DropTable, IInv, TypeOK
<1>5. CASE Walk
  BY <1>5, WalkIInv
<1>6. ASSUME NEW r \in Requests, Style(r) PROVE IInv'
  BY <1>6, StyleIInv
<1>7. CASE UNCHANGED vars
  BY <1>2, <1>7 DEF vars, IInv, TypeOK
<1>. QED
  BY <1>1, <1>3, <1>4, <1>5, <1>6, <1>7 DEF Next

LEMMA Invariance == Spec => []IInv
  BY InitIInv, NextIInv, PTL DEF Spec

-----------------------------------------------------------------------------
(* Classes and their colours.                                              *)

(* A rounded quotient is half a unit off at most.                          *)
LEMMA RoundIsNear ==
  ASSUME NEW n \in Int, NEW d \in Nat \ {0}
  PROVE  /\ Round(n, d) \in Int
         /\ 2 * d * Round(n, d) <= 2 * n + d
         /\ 2 * d * Round(n, d) >= 2 * n - d
  BY DEF Round

(* No two of a palette of nine are alike, however many of them are taken.  *)
LEMMA PaletteIsToldApart ==
  ASSUME NEW count \in 0..9, NEW i \in 1..count, NEW j \in 1..count
  PROVE  /\ PaletteColors(count)[i] \in 0..8
         /\ PaletteColors(count)[i] = PaletteColors(count)[j] => i = j
<1>1. CASE count = 1
  <2>1. i = 1 /\ j = 1 /\ PaletteColors(count) = <<4>>
    BY <1>1 DEF PaletteColors, PaletteSize
  <2>. QED
    BY <2>1
<1>2. CASE count # 1
  <2> DEFINE d == count - 1
             a == i - 1
             b == j - 1
  <2>1. /\ PaletteColors(count)[i] = Round(8 * a, d)
        /\ PaletteColors(count)[j] = Round(8 * b, d)
    <3>1. PaletteSize - 1 = 8
      BY DEF PaletteSize
    <3>2. PaletteColors(count) = [k \in 1..count |-> Round((k - 1) * 8, count - 1)]
      BY <1>2, <3>1 DEF PaletteColors
    <3>3. (i - 1) * 8 = 8 * a /\ (j - 1) * 8 = 8 * b
      OBVIOUS
    <3>. QED
      BY <3>2, <3>3
  <2>2. d \in 1..8 /\ a \in 0..d /\ b \in 0..d /\ (a = b => i = j)
    BY <1>2
  <2> HIDE DEF d, a, b
  <2> DEFINE r == Round(8 * a, d)
             s == Round(8 * b, d)
  <2>3. /\ r \in Int /\ 2 * d * r <= 16 * a + d /\ 2 * d * r >= 16 * a - d
        /\ s \in Int /\ 2 * d * s <= 16 * b + d /\ 2 * d * s >= 16 * b - d
    <3>1. 8 * a \in Nat /\ 8 * b \in Nat /\ d \in Nat \ {0}
      BY <2>2
    <3> DEFINE x == 8 * a
               y == 8 * b
    <3>2. x \in Nat /\ y \in Nat /\ 2 * x = 16 * a /\ 2 * y = 16 * b
      BY <2>2
    <3> HIDE DEF x, y
    <3>3. /\ Round(x, d) \in Int
          /\ 2 * d * Round(x, d) <= 2 * x + d /\ 2 * d * Round(x, d) >= 2 * x - d
          /\ Round(y, d) \in Int
          /\ 2 * d * Round(y, d) <= 2 * y + d /\ 2 * d * Round(y, d) >= 2 * y - d
      <4>1. x \in Int /\ y \in Int
        BY <3>2
      <4>2. /\ Round(x, d) \in Int
            /\ 2 * d * Round(x, d) <= 2 * x + d
            /\ 2 * d * Round(x, d) >= 2 * x - d
        BY <3>1, <4>1, RoundIsNear
      <4>3. /\ Round(y, d) \in Int
            /\ 2 * d * Round(y, d) <= 2 * y + d
            /\ 2 * d * Round(y, d) >= 2 * y - d
        BY <3>1, <4>1, RoundIsNear
      <4>. QED
        BY <4>2, <4>3
    <3>4. r = Round(x, d) /\ s = Round(y, d)
      BY DEF x, y
    <3> HIDE DEF r, s
    <3>. QED
      BY <2>2, <3>2, <3>3, <3>4
  <2> HIDE DEF r, s
  <2>4. r \in 0..8 /\ (r = s => a = b)
    <3>1. CASE d = 1
      BY <2>2, <2>3, <3>1
    <3>2. CASE d = 2
      BY <2>2, <2>3, <3>2
    <3>3. CASE d = 3
      BY <2>2, <2>3, <3>3
    <3>4. CASE d = 4
      BY <2>2, <2>3, <3>4
    <3>5. CASE d = 5
      BY <2>2, <2>3, <3>5
    <3>6. CASE d = 6
      BY <2>2, <2>3, <3>6
    <3>7. CASE d = 7
      BY <2>2, <2>3, <3>7
    <3>8. CASE d = 8
      BY <2>2, <2>3, <3>8
    <3>. QED
      BY <2>2, <3>1, <3>2, <3>3, <3>4, <3>5, <3>6, <3>7, <3>8
  <2>. QED
    BY <2>1, <2>2, <2>4 DEF r, s
<1>. QED
  BY <1>1, <1>2

(* Of n classes of one width a value within their bounds is in one, and    *)
(* the classes that begin below it are those up to that one.               *)
LEMMA Quotient ==
  ASSUME NEW t \in Nat, NEW w \in Nat \ {0}
  PROVE  \E q \in Nat : w * q <= t /\ t < w * (q + 1)
<1>1. /\ t \div w \in Nat /\ w * (t \div w) <= t
      /\ t < w * ((t \div w) + 1)
  OBVIOUS
<1>. QED
  BY <1>1

LEMMA Scaled ==
  ASSUME NEW w \in Nat \ {0}, NEW a \in Int, NEW b \in Int
  PROVE  /\ w * a \in Int /\ w * b \in Int
         /\ w * a < w * b <=> a < b
  OBVIOUS

IsClassOf(k, n, w, t) ==
  /\ \A i \in 1..n : w * (i - 1) <= t <=> i <= k
  /\ \A i \in 1..n :
       (/\ w * (i - 1) <= t
        /\ \/ t < w * i
           \/ i = n /\ t = w * n) <=> i = k

LEMMA OneClass ==
  ASSUME NEW n \in Nat \ {0}, NEW w \in Nat \ {0}, NEW t \in Nat, t <= w * n
  PROVE  \E k \in 1..n : IsClassOf(k, n, w, t)
<1>1. PICK q \in Nat : w * q <= t /\ t < w * (q + 1)
  BY Quotient
<1>2. ASSUME NEW i \in Int
      PROVE  /\ w * i \in Int /\ w * (i - 1) \in Int
             /\ i <= q => w * i <= t
             /\ i > q => t < w * i
  <2>1. w * i \in Int /\ w * (i - 1) \in Int /\ w * q \in Int /\ w * (q + 1) \in Int
    OBVIOUS
  <2>2. (w * q < w * i <=> q < i) /\ (w * i < w * (q + 1) <=> i < q + 1)
    BY Scaled
  <2>. QED
    BY <1>1, <2>1, <2>2
<1>3. CASE q < n
  <2>1. q + 1 \in 1..n
    BY <1>3
  <2>2. ASSUME NEW i \in 1..n PROVE w * (i - 1) <= t <=> i <= q + 1
    <3>1. i - 1 \in Int /\ w * (i - 1) \in Int
      BY <1>2
    <3>2. (i - 1 <= q => w * (i - 1) <= t) /\ (i - 1 > q => t < w * (i - 1))
      BY <1>2, <3>1
    <3>. QED
      BY <3>1, <3>2
  <2>3. ASSUME NEW i \in 1..n PROVE w * i \in Int /\ (t < w * i <=> i >= q + 1)
    BY <1>2
  <2>4. w * n \in Int /\ t < w * n
    BY <1>2, <1>3
  <2>5. ASSUME NEW i \in 1..n
        PROVE  (/\ w * (i - 1) <= t
                /\ \/ t < w * i
                   \/ i = n /\ t = w * n) <=> i = q + 1
    <3>1. w * (i - 1) <= t <=> i <= q + 1
      BY <2>2
    <3>2. t < w * i <=> i >= q + 1
      BY <2>3
    <3>3. t # w * n
      BY <2>4
    <3>4. i <= q + 1 /\ i >= q + 1 <=> i = q + 1
      BY <1>1
    <3>. QED
      BY <3>1, <3>2, <3>3, <3>4, Zenon
  <2>. QED
    BY <2>1, <2>2, <2>5 DEF IsClassOf
<1>4. CASE q >= n
  <2>1. w * n \in Int /\ t = w * n
    BY <1>2, <1>4
  <2>2. ASSUME NEW i \in 1..n
        PROVE  /\ w * i \in Int /\ w * i <= t
               /\ w * (i - 1) \in Int /\ w * (i - 1) <= t
    <3>1. i - 1 \in Int /\ i - 1 <= q /\ i <= q
      BY <1>4
    <3>2. w * i <= t /\ w * (i - 1) <= t
      BY <1>2, <3>1
    <3>. QED
      BY <1>2, <3>2
  <2>3. \A i \in 1..n : w * (i - 1) <= t <=> i <= n
    BY <2>2
  <2>4. ASSUME NEW i \in 1..n
        PROVE  (/\ w * (i - 1) <= t
                /\ \/ t < w * i
                   \/ i = n /\ t = w * n) <=> i = n
    BY <2>1, <2>2
  <2>5. n \in 1..n
    OBVIOUS
  <2>. QED
    BY <2>3, <2>4, <2>5 DEF IsClassOf
<1>. QED
  BY <1>3, <1>4

(* Rounding keeps order, and leaves whole numbers as they are.             *)
LEMMA RoundGrows ==
  ASSUME NEW n \in Int, NEW m \in Int, NEW d \in Nat \ {0}, n <= m
  PROVE  Round(n, d) <= Round(m, d)
<1> DEFINE r == Round(n, d)
           s == Round(m, d)
<1>1. /\ r \in Int /\ 2 * d * r <= 2 * n + d
      /\ s \in Int /\ 2 * d * s >= 2 * m - d
  BY RoundIsNear
<1>2. CASE n = m
  BY <1>1, <1>2
<1>3. CASE n < m
  <2> HIDE DEF r, s
  <2>1. 2 * d \in Nat \ {0} /\ (2 * d) * r < (2 * d) * (s + 1)
    BY <1>1, <1>3
  <2>2. (2 * d) * r < (2 * d) * (s + 1) <=> r < s + 1
    BY <1>1, <2>1, Scaled
  <2>3. r <= s
    BY <1>1, <2>1, <2>2
  <2>. QED
    BY <2>3 DEF r, s
<1>. QED
  BY <1>2, <1>3

LEMMA RoundOfWhole ==
  ASSUME NEW v \in Int, NEW d \in Nat \ {0}
  PROVE  Round(v * d, d) = v
<1>1. v * d \in Int
  OBVIOUS
<1> DEFINE r == Round(v * d, d)
<1>2. /\ r \in Int /\ 2 * d * r <= 2 * (v * d) + d
      /\ 2 * d * r >= 2 * (v * d) - d
  BY <1>1, RoundIsNear
<1> HIDE DEF r
<1>3. (2 * d) * r < (2 * d) * (v + 1) /\ (2 * d) * (v - 1) < (2 * d) * r
  BY <1>2
<1>4. 2 * d \in Nat \ {0} /\ v + 1 \in Int /\ v - 1 \in Int
  OBVIOUS
<1>5. r < v + 1 /\ v - 1 < r
  BY <1>2, <1>3, <1>4, Scaled
<1>. QED
  BY <1>2, <1>5 DEF r

(* A label keeps a bound on its side of any whole number, however it is    *)
(* rounded.                                                                *)
LEMMA FormatAtWhole ==
  ASSUME NEW n \in Int, NEW d \in Nat \ {0}, NEW v \in Int
  PROVE  /\ Format(n, d) \in Int
         /\ n <= v * d => Format(n, d) <= 1000 * v
         /\ n >= v * d => Format(n, d) >= 1000 * v
<1>1. ASSUME NEW k \in {1, 10, 1000}
      PROVE  /\ Round(k * n, d) \in Int
             /\ n <= v * d => Round(k * n, d) <= k * v
             /\ n >= v * d => Round(k * n, d) >= k * v
  <2> DEFINE a == k * n
             b == k * v
  <2>1. /\ a \in Int /\ b \in Int /\ b * d \in Int
        /\ n <= v * d => a <= b * d
        /\ n >= v * d => a >= b * d
    <3>1. CASE k = 1
      BY <3>1
    <3>2. CASE k = 10
      BY <3>2
    <3>3. CASE k = 1000
      BY <3>3
    <3>. QED
      BY <3>1, <3>2, <3>3
  <2> HIDE DEF a, b
  <2>2. Round(b * d, d) = b /\ Round(a, d) \in Int
    BY <2>1, RoundOfWhole, RoundIsNear
  <2>3. /\ a <= b * d => Round(a, d) <= Round(b * d, d)
        /\ a >= b * d => Round(b * d, d) <= Round(a, d)
    BY <2>1, RoundGrows
  <2>4. /\ Round(a, d) \in Int
        /\ n <= v * d => Round(a, d) <= b
        /\ n >= v * d => Round(a, d) >= b
    BY <2>1, <2>2, <2>3
  <2>. QED
    BY <2>4 DEF a, b
<1>2. \/ Format(n, d) = 1000 * Round(n, d)
      \/ Format(n, d) = 100 * Round(10 * n, d)
      \/ Format(n, d) = Round(1000 * n, d)
  BY DEF Format
<1>3. 1 * n = n /\ 1 * v = v
  OBVIOUS
<1> DEFINE r == Round(n, d)
           s == Round(10 * n, d)
           t == Round(1000 * n, d)
           c == v * d
<1>4. /\ r \in Int /\ (n <= c => r <= v) /\ (n >= c => r >= v)
      /\ s \in Int /\ (n <= c => s <= 10 * v) /\ (n >= c => s >= 10 * v)
      /\ t \in Int /\ (n <= c => t <= 1000 * v) /\ (n >= c => t >= 1000 * v)
  <2>1. /\ Round(1 * n, d) \in Int
        /\ n <= c => Round(1 * n, d) <= 1 * v
        /\ n >= c => Round(1 * n, d) >= 1 * v
    BY <1>1
  <2>2. r \in Int /\ (n <= c => r <= v) /\ (n >= c => r >= v)
    BY <1>3, <2>1
  <2>. QED
    BY <1>1, <2>2
<1> HIDE DEF r, s, t, c
<1>5. \/ Format(n, d) = 1000 * r
      \/ Format(n, d) = 100 * s
      \/ Format(n, d) = t
  BY <1>2 DEF r, s, t
<1>6. /\ Format(n, d) \in Int
      /\ n <= c => Format(n, d) <= 1000 * v
      /\ n >= c => Format(n, d) >= 1000 * v
  BY <1>4, <1>5
<1>. QED
  BY <1>6 DEF c

(* Of two bounds the greater has no smaller a label, with whichever digits.*)
LEMMA FormatGrows ==
  ASSUME NEW n \in Int, NEW m \in Int, NEW d \in Nat \ {0}, n <= m
  PROVE  Format(n, d) <= Format(m, d)
<1>2. \/ \E v \in {-1000, -10, 10, 1000} : n <= v * d /\ v * d <= m
      \/ \A x \in {n, m} : 1000 * d < x
      \/ \A x \in {n, m} : 10 * d < x /\ x < 1000 * d
      \/ \A x \in {n, m} : -(10 * d) < x /\ x < 10 * d
      \/ \A x \in {n, m} : -(1000 * d) < x /\ x < -(10 * d)
      \/ \A x \in {n, m} : x < -(1000 * d)
  OBVIOUS
<1>3. ASSUME NEW k \in {1, 10, 1000} PROVE Round(k * n, d) <= Round(k * m, d)
  <2>1. k * n \in Int /\ k * m \in Int /\ k * n <= k * m
    OBVIOUS
  <2>. QED
    BY <2>1, RoundGrows
<1>4. /\ Round(n, d) \in Int /\ Round(m, d) \in Int
      /\ Round(10 * n, d) \in Int /\ Round(10 * m, d) \in Int
  BY RoundIsNear
<1>5. /\ Round(n, d) <= Round(m, d)
      /\ Round(10 * n, d) <= Round(10 * m, d)
      /\ Round(1000 * n, d) <= Round(1000 * m, d)
  <2>1. 1 * n = n /\ 1 * m = m /\ Round(1 * n, d) <= Round(1 * m, d)
    BY <1>3
  <2>. QED
    BY <1>3, <2>1
<1>6. \/ \A x \in {n, m} : Format(x, d) = 1000 * Round(x, d)
      \/ \A x \in {n, m} : Format(x, d) = 100 * Round(10 * x, d)
      \/ \A x \in {n, m} : Format(x, d) = Round(1000 * x, d)
      \/ \E v \in {-1000, -10, 10, 1000} : n <= v * d /\ v * d <= m
  BY <1>2 DEF Format
<1>7. CASE \E v \in {-1000, -10, 10, 1000} : n <= v * d /\ v * d <= m
  <2>1. PICK v \in {-1000, -10, 10, 1000} : n <= v * d /\ v * d <= m
    BY <1>7
  <2>2. v \in Int
    OBVIOUS
  <2>3. Format(n, d) \in Int /\ Format(n, d) <= 1000 * v
    BY <2>1, <2>2, FormatAtWhole
  <2>4. Format(m, d) \in Int /\ Format(m, d) >= 1000 * v
    BY <2>1, <2>2, FormatAtWhole
  <2>. QED
    BY <2>2, <2>3, <2>4
<1>8. CASE \/ \A x \in {n, m} : Format(x, d) = 1000 * Round(x, d)
           \/ \A x \in {n, m} : Format(x, d) = 100 * Round(10 * x, d)
           \/ \A x \in {n, m} : Format(x, d) = Round(1000 * x, d)
  BY <1>4, <1>5, <1>8
<1>. QED
  BY <1>6, <1>7, <1>8

(* The least and the greatest value of a column.                           *)
LEMMA BoundsOfColumn ==
  ASSUME NEW rows \in Seq(Values \union {Null}), ValuesIn(rows) # {},
         ValuesIn(rows) \subseteq Int
  PROVE  \E lo, hi \in ValuesIn(rows) :
           \A w \in ValuesIn(rows) : lo <= w /\ w <= hi
<1> DEFINE S == ValuesIn(rows)
           n == Cardinality(S)
           o == InOrder(S)
<1>1. S \in SUBSET Int /\ IsFiniteSet(S)
  BY CountedValues
<1>2. /\ n \in Nat /\ o \in [1..n -> S]
      /\ \A k, l \in 1..n : k < l <=> o[k] < o[l]
      /\ \A x \in S : \E k \in 1..n : o[k] = x
  BY <1>1, OrderedNumbers
<1>3. S # {} /\ S \in SUBSET Int
  BY <1>1
<1> HIDE DEF S, n, o
<1>4. 1 \in 1..n /\ n \in 1..n
  <2>1. PICK x \in S : TRUE
    BY <1>3
  <2>2. PICK k \in 1..n : o[k] = x
    BY <1>2
  <2>. QED
    BY <1>2, <2>2
<1>5. o[1] \in S /\ o[n] \in S
  BY <1>2, <1>4
<1>6. ASSUME NEW x \in S PROVE o[1] <= x /\ x <= o[n]
  <2>1. PICK k \in 1..n : o[k] = x
    BY <1>2
  <2>2. o[1] \in Int /\ o[n] \in Int /\ x \in Int
    BY <1>3, <1>5
  <2>3. ~(k < 1) /\ ~(n < k)
    BY <1>2
  <2>4. ~(o[k] < o[1]) /\ ~(o[n] < o[k])
    BY <1>2, <1>4, <2>3
  <2>. QED
    BY <2>1, <2>2, <2>4
<1>. QED
  BY <1>5, <1>6 DEF S

(* What the profile of a layer says in any reachable state.                *)
LEMMA ProfileFacts ==
  ASSUME IInv
  PROVE  /\ profile.top \in Seq(Values)
         /\ \A i, j \in 1..Len(profile.top) :
              profile.top[i] = profile.top[j] => i = j
         /\ Sample(table) \in Seq(Values \union {Null})
         /\ \A i \in DOMAIN Sample(table) : Sample(table)[i] = table[i]
<1>1. Sample(table) \in Seq(Values \union {Null})
      /\ \A i \in DOMAIN Sample(table) : Sample(table)[i] = table[i]
  <2>1. table \in Seq(Values \union {Null}) /\ SampleSize \in Nat
    BY TablesAssumption DEF IInv, ProfileIsOfTable
  <2>2. /\ Take(table, SampleSize) \in Seq(Values \union {Null})
        /\ \A i \in 1..Len(Take(table, SampleSize)) :
             Take(table, SampleSize)[i] = table[i]
    <3> DEFINE T == Values \union {Null}
    <3>1. table \in Seq(T) /\ SampleSize \in Nat
      BY <2>1
    <3> HIDE DEF T
    <3>2. /\ Take(table, SampleSize) \in Seq(T)
          /\ \A i \in 1..Len(Take(table, SampleSize)) :
               Take(table, SampleSize)[i] = table[i]
      BY <3>1, TakenSequence
    <3>. QED
      BY <3>2 DEF T
  <2>3. DOMAIN Take(table, SampleSize) = 1..Len(Take(table, SampleSize))
    BY <2>2
  <2>. QED
    BY <2>2, <2>3 DEF Sample
<1>2. \/ profile.top = <<>>
      \/ profile.top = Commonest(Sample(table))
  BY DEF IInv, ProfileIsOfTable, NoProfile, ProfileField
<1>3. /\ Commonest(Sample(table)) \in Seq(Values)
      /\ \A i, j \in 1..Len(Commonest(Sample(table))) :
           Commonest(Sample(table))[i] = Commonest(Sample(table))[j] => i = j
  BY <1>1, CommonestValues
<1>4. <<>> \in Seq(Values) /\ \A i, j \in 1..Len(<<>>) : i = j
  OBVIOUS
<1>. QED
  BY <1>1, <1>2, <1>3, <1>4

LEMMA DrawnByWhat ==
  ASSUME IInv
  PROVE  \E mode \in Modes, count \in 1..9 :
           Drawable(mode, count) /\ style.drawn = Drawn(mode, count)
<1>1. style.drawn \in Drawings
  BY DEF IInv, TypeOK, StyleTypeOK
<1>2. PICK d \in Modes \X (1..MaxClasses) :
        Drawable(d[1], d[2]) /\ style.drawn = Drawn(d[1], d[2])
  BY <1>1 DEF Drawings
<1>3. d[1] \in Modes /\ d[2] \in 1..9
  BY DEF MaxClasses
<1>. QED
  BY <1>2, <1>3

(* The classes of a categorical style: one for each of the first values.   *)
LEMMA CategoricalFacts ==
  ASSUME IInv, NEW count \in 1..9
  PROVE  \E n \in 0..9 :
           /\ DOMAIN CategoricalClasses(count) = 1..n
           /\ \A i \in 1..n :
                CategoricalClasses(count)[i] = [value |-> profile.top[i],
                                                color |-> PaletteColors(n)[i]]
           /\ \A i, j \in 1..n : profile.top[i] = profile.top[j] => i = j
<1> DEFINE s == Take(profile.top, count)
           n == Len(s)
<1>1. count \in Nat /\ profile.top \in Seq(Values)
  BY ProfileFacts
<1>2. /\ s \in Seq(Values) /\ n <= count /\ n <= Len(profile.top)
      /\ \A i \in 1..n : i \in 1..Len(profile.top) /\ s[i] = profile.top[i]
  BY <1>1, TakenSequence
<1>3. CategoricalClasses(count) =
        [i \in DOMAIN s |-> [value |-> s[i], color |-> PaletteColors(n)[i]]]
  BY DEF CategoricalClasses
<1> HIDE DEF s
<1>4. DOMAIN s = 1..n /\ n \in 0..9
  <2>1. DOMAIN s = 1..Len(s) /\ Len(s) \in Nat /\ Len(s) <= count
    BY <1>2
  <2> HIDE DEF n
  <2>2. \A l \in Nat : l <= count => l \in 0..9
    OBVIOUS
  <2>3. Len(s) \in 0..9
    BY <2>1, <2>2
  <2>. QED
    BY <2>1, <2>3 DEF n
<1>5. \A i, j \in 1..n : profile.top[i] = profile.top[j] => i = j
  BY <1>2, ProfileFacts
<1> HIDE DEF n
<1>6. DOMAIN CategoricalClasses(count) = 1..n
  BY <1>3, <1>4
<1>7. \A i \in 1..n :
        CategoricalClasses(count)[i] = [value |-> profile.top[i],
                                        color |-> PaletteColors(n)[i]]
  BY <1>2, <1>3, <1>4
<1>. QED
  BY <1>4, <1>5, <1>6, <1>7

(* What LegendTellsTheColor says of one style and one value.               *)
Legible(row, value) ==
  /\ Painted(row, value) # {}
  /\ Painted(row, value) \subseteq LegendColors(row, value)
  /\ ~OnBound(row, value) =>
       \A color, other \in LegendColors(row, value) : color = other

(* The legend of a categorical style: a value is that of one class or of   *)
(* none, and so is a null that is not taken for an empty text.             *)
LEMMA CategoricalLegend ==
  ASSUME IInv, NEW count \in 1..9, NEW value,
         NEW row, row = [mode    |-> "CATEGORICAL",
                         classes |-> CategoricalClasses(count),
                         count   |-> Len(CategoricalClasses(count))],
         value = Null => NullIsOther(row)
  PROVE  Legible(row, value)
<1> DEFINE classes == row.classes
           text == IF value = Null THEN Empty ELSE value
           found == {i \in DOMAIN classes : classes[i].value = text}
           fits == {i \in DOMAIN classes : LabelFits(row, i, value)}
           told == {classes[i].color : i \in found}
           named == {classes[i].color : i \in fits}
<1>1. row.mode = "CATEGORICAL" /\ row.mode # "SIMPLE"
      /\ classes = CategoricalClasses(count)
  OBVIOUS
<1>2. Painted(row, value) = IF found = {} THEN {FallbackColor} ELSE told
  BY <1>1, Zenon DEF Painted
<1>3. LegendColors(row, value) = IF named = {} THEN {FallbackColor} ELSE named
  BY <1>1, Zenon DEF LegendColors
<1>4. PICK n \in 0..9 :
        /\ DOMAIN classes = 1..n
        /\ \A i \in 1..n : classes[i] = [value |-> profile.top[i],
                                        color |-> PaletteColors(n)[i]]
        /\ \A i, j \in 1..n : profile.top[i] = profile.top[j] => i = j
  <2> DEFINE c == CategoricalClasses(count)
  <2>1. \E n \in 0..9 :
          /\ DOMAIN c = 1..n
          /\ \A i \in 1..n : c[i] = [value |-> profile.top[i],
                                    color |-> PaletteColors(n)[i]]
          /\ \A i, j \in 1..n : profile.top[i] = profile.top[j] => i = j
    BY CategoricalFacts
  <2>2. classes = c
    BY <1>1
  <2> HIDE DEF c, classes
  <2>. QED
    BY <2>1, <2>2
<1>5. \A i, j \in found : i = j
  <2>1. ASSUME NEW i \in found PROVE i \in 1..n /\ profile.top[i] = text
    <3>1. i \in 1..n /\ classes[i].value = text
      BY <1>4
    <3>2. classes[i] = [value |-> profile.top[i], color |-> PaletteColors(n)[i]]
      BY <1>4, <3>1
    <3> HIDE DEF classes, text, found
    <3>. QED
      BY <3>1, <3>2
  <2> HIDE DEF classes, text, found
  <2>. QED
    BY <1>4, <2>1
<1>6. ASSUME NEW i \in DOMAIN classes
      PROVE  classes[i].value # Null
  <2>1. profile.top \in Seq(Values)
    BY ProfileFacts
  <2>2. classes[i].value \in Values
    <3>1. /\ Take(profile.top, count) \in Seq(Values)
          /\ classes = [k \in DOMAIN Take(profile.top, count) |->
                          [value |-> Take(profile.top, count)[k],
                           color |-> PaletteColors(Len(Take(profile.top, count)))[k]]]
      BY <1>1, <2>1, TakenSequence DEF CategoricalClasses
    <3> HIDE DEF classes
    <3>. QED
      BY <3>1
  <2>. QED
    BY <2>2
<1>7. fits = found
  <2>1. \A i \in DOMAIN classes :
          LabelFits(row, i, value) <=> value # Null /\ classes[i].value = value
    BY <1>1 DEF LabelFits
  <2>2. CASE value = Null
    <3>1. \A i \in DOMAIN classes : classes[i].value # Empty
      BY <1>1, <2>2 DEF NullIsOther
    <3>. QED
      BY <2>1, <2>2, <3>1
  <2>3. CASE value # Null
    BY <2>1, <2>3
  <2>. QED
    BY <2>2, <2>3
<1> HIDE DEF classes, found, fits
<1>8. named = told
  BY <1>7
<1>10. \A c, d \in told : c = d
  BY <1>5
<1>11. told = {} <=> found = {}
  OBVIOUS
<1> HIDE DEF told, named
<1>9. LegendColors(row, value) = Painted(row, value)
  BY <1>2, <1>3, <1>8, <1>11
<1>12. /\ Painted(row, value) # {}
       /\ \A c, d \in Painted(row, value) : c = d
  BY <1>2, <1>10, <1>11
<1>. QED
  BY <1>9, <1>12 DEF Legible

(* A value that was profiled lies between the bounds of the profile.       *)
LEMMA ProfiledValue ==
  ASSUME IInv, style.revision > 0, profile.minimum # Null,
         NEW i \in DOMAIN Sample(table), table[i] # Null
  PROVE  /\ profile.minimum \in Int /\ profile.maximum \in Int
         /\ table[i] \in Int
         /\ profile.minimum <= table[i] /\ table[i] <= profile.maximum
<1> DEFINE rows == Sample(table)
           S == ValuesIn(rows)
           value == table[i]
           lo == profile.minimum
           hi == profile.maximum
<1>1. value \in S /\ rows \in Seq(Values \union {Null})
  BY ProfileFacts DEF ValuesIn
<1>2. /\ S # {} /\ S \subseteq Int
      /\ lo = CHOOSE v \in S : \A x \in S : v <= x
      /\ hi = CHOOSE v \in S : \A x \in S : v >= x
  <2> DEFINE numeric == S # {} /\ S \subseteq Int
  <2>1. profile = ProfileField(table)
    BY DEF IInv, ProfileIsOfTable
  <2>2. /\ lo = IF numeric THEN CHOOSE v \in S : \A x \in S : v <= x ELSE Null
        /\ hi = IF numeric THEN CHOOSE v \in S : \A x \in S : v >= x ELSE Null
    BY <2>1, Zenon DEF ProfileField
  <2> HIDE DEF S
  <2>3. numeric
    BY <2>2
  <2>. QED
    BY <2>2, <2>3
<1>3. /\ \E v \in S : \A x \in S : v <= x
      /\ \E v \in S : \A x \in S : v >= x
  <2>1. PICK l \in S, h \in S : \A x \in S : l <= x /\ x <= h
    BY <1>1, <1>2, BoundsOfColumn
  <2> HIDE DEF S
  <2>2. \A x \in S : h >= x
    BY <1>2, <2>1
  <2>. QED
    BY <2>1, <2>2
<1> HIDE DEF S, value, lo, hi
<1>4. /\ lo \in S /\ \A x \in S : lo <= x
      /\ hi \in S /\ \A x \in S : hi >= x
  BY <1>2, <1>3
<1>5. /\ lo \in Int /\ hi \in Int /\ value \in Int
      /\ lo <= value /\ value <= hi
  BY <1>1, <1>2, <1>4
<1>. QED
  BY <1>5 DEF lo, hi, value

(* n classes of width w, in units of one n-th, one after the other from b. *)
Adjacent(row, n, b, w) ==
  /\ row.mode = "GRADUATED" /\ row.count = n
  /\ DOMAIN row.classes = 1..n /\ Len(row.classes) = n
  /\ \A k \in 1..n : /\ row.classes[k].min = b + w * (k - 1)
                     /\ row.classes[k].max = b + w * k

(* A value within adjacent classes reaches one, and the labels of all it   *)
(* reaches fit it; two labels that fit it meet in it.                      *)
LEMMA AdjacentLegend ==
  ASSUME NEW n \in Nat \ {0}, NEW b \in Int, NEW w \in Nat \ {0},
         NEW row, Adjacent(row, n, b, w), NEW value \in Int,
         b <= value * n, value * n <= b + w * n
  PROVE  Legible(row, value)
<1> DEFINE x == value * n
           t == x - b
           min(k) == row.classes[k].min
           max(k) == row.classes[k].max
<1>0. value # Null
  OBVIOUS
<1>1. /\ row.mode = "GRADUATED" /\ row.count = n
      /\ DOMAIN row.classes = 1..n /\ Len(row.classes) = n
  BY DEF Adjacent
<1>2. ASSUME NEW k \in 1..n
      PROVE  /\ min(k) = b + w * (k - 1) /\ max(k) = b + w * k
             /\ min(k) \in Int /\ max(k) \in Int
             /\ k # n => min(k + 1) = max(k)
  <2>1. min(k) = b + w * (k - 1) /\ max(k) = b + w * k
    BY DEF Adjacent
  <2>2. ASSUME k # n PROVE min(k + 1) = b + w * k
    <3>1. k + 1 \in 1..n /\ (k + 1) - 1 = k
      BY <2>2
    <3>2. min(k + 1) = b + w * ((k + 1) - 1)
      BY <3>1 DEF Adjacent
    <3>. QED
      BY <3>1, <3>2
  <2>. QED
    BY <2>1, <2>2
<1>3. ASSUME NEW k \in 1..n
      PROVE  Reached(row, k, value) <=> /\ k = 1 \/ min(k) <= x
                                        /\ k = n \/ x <= min(k + 1)
  BY <1>0, <1>1 DEF Reached
<1>4. \E k \in 1..n : Reached(row, k, value)
  <2>1. t \in Nat /\ t <= w * n
    OBVIOUS
  <2>2. PICK k \in 1..n : IsClassOf(k, n, w, t)
    BY <2>1, OneClass
  <2>3. /\ w * (k - 1) <= t
        /\ t < w * k \/ k = n
    BY <2>2 DEF IsClassOf
  <2>4. min(k) <= x /\ (k = n \/ x <= max(k))
    <3>1. w * (k - 1) \in Int /\ w * k \in Int /\ x = b + t /\ t \in Int
      OBVIOUS
    <3>2. min(k) = b + w * (k - 1) /\ max(k) = b + w * k
      BY <1>2
    <3> HIDE DEF x, t, min, max
    <3>. QED
      BY <2>3, <3>1, <3>2
  <2>5. Reached(row, k, value)
    BY <1>2, <1>3, <2>4
  <2>. QED
    BY <2>5
<1>5. ASSUME NEW k \in 1..n
      PROVE  /\ Label(row, k).lower = Format(min(k), n)
             /\ Label(row, k).upper = Format(max(k), n)
             /\ Label(row, k).lower \in Int /\ Label(row, k).upper \in Int
             /\ LabelFits(row, k, value) <=>
                  /\ Label(row, k).lower <= 1000 * value
                  /\ 1000 * value <= Label(row, k).upper
  <2>1. /\ Label(row, k).lower = Format(min(k), n)
        /\ Label(row, k).upper = Format(max(k), n)
    BY <1>1 DEF Label
  <2>2. min(k) \in Int /\ max(k) \in Int
    BY <1>2
  <2> HIDE DEF min, max
  <2>3. Format(min(k), n) \in Int /\ Format(max(k), n) \in Int
    BY <2>2, FormatAtWhole
  <2>4. LabelFits(row, k, value) <=>
                  /\ Label(row, k).lower <= 1000 * value
                  /\ 1000 * value <= Label(row, k).upper
    BY <1>0, <1>1 DEF LabelFits
  <2>. QED
    BY <2>1, <2>3, <2>4
<1>6. ASSUME NEW k \in 1..n, Reached(row, k, value)
      PROVE  LabelFits(row, k, value)
  <2>1. min(k) <= x
    <3>1. CASE k = 1
      <4>1. min(k) = b + w * 0
        BY <1>2, <3>1
      <4>. QED
        BY <4>1
    <3>2. CASE k # 1
      BY <1>3, <1>6, <3>2
    <3>. QED
      BY <3>1, <3>2
  <2>2. x <= max(k)
    <3>1. CASE k = n
      BY <1>2, <3>1
    <3>2. CASE k # n
      BY <1>2, <1>3, <1>6, <3>2
    <3>. QED
      BY <3>1, <3>2
  <2>3. min(k) \in Int /\ max(k) \in Int
    BY <1>2
  <2> HIDE DEF min, max
  <2>4. Format(min(k), n) <= 1000 * value /\ Format(max(k), n) >= 1000 * value
    BY <2>1, <2>2, <2>3, FormatAtWhole
  <2>5. Format(max(k), n) \in Int
    BY <2>3, FormatAtWhole
  <2>. QED
    BY <1>5, <2>4, <2>5
<1>7. ASSUME NEW j \in 1..n, NEW k \in 1..n, j < k
      PROVE  Label(row, j).upper <= Label(row, k).lower
  <2>1. max(j) <= min(k)
    <3>1. max(j) = b + w * j /\ min(k) = b + w * (k - 1)
      BY <1>2
    <3>2. w * j <= w * (k - 1)
      <4>1. j = k - 1 \/ j < k - 1
        BY <1>7
      <4>2. j < k - 1 => w * j < w * (k - 1)
        BY Scaled
      <4>3. w * j \in Int /\ w * (k - 1) \in Int
        OBVIOUS
      <4>. QED
        BY <4>1, <4>2, <4>3
    <3>3. w * j \in Int /\ w * (k - 1) \in Int
      OBVIOUS
    <3>. QED
      BY <3>1, <3>2, <3>3
  <2>2. max(j) \in Int /\ min(k) \in Int
    BY <1>2
  <2> HIDE DEF min, max
  <2>3. Format(max(j), n) <= Format(min(k), n)
    BY <2>1, <2>2, FormatGrows
  <2>. QED
    BY <1>5, <2>3
<1>8. ASSUME ~OnBound(row, value)
      PROVE  \A i, j \in 1..n :
               LabelFits(row, i, value) /\ LabelFits(row, j, value) => i = j
  <2>1. PICK k \in 1..n : /\ Label(row, k).lower < 1000 * value
                         /\ 1000 * value < Label(row, k).upper
    BY <1>1, <1>8 DEF OnBound
  <2>2. ASSUME NEW j \in 1..n, LabelFits(row, j, value) PROVE j = k
    <3>1. /\ Label(row, j).lower <= 1000 * value
          /\ 1000 * value <= Label(row, j).upper
          /\ Label(row, j).lower \in Int /\ Label(row, j).upper \in Int
          /\ Label(row, k).lower \in Int /\ Label(row, k).upper \in Int
      BY <1>5, <2>2
    <3>2. ~(j < k)
      BY <1>7, <2>1, <3>1
    <3>3. ~(k < j)
      BY <1>7, <2>1, <3>1
    <3>. QED
      BY <3>2, <3>3
  <2>. QED
    BY <2>2
<1> DEFINE reached == {k \in DOMAIN row.classes : Reached(row, k, value)}
           fits == {k \in DOMAIN row.classes : LabelFits(row, k, value)}
           colors == {row.classes[k].color : k \in reached}
           told == {row.classes[k].color : k \in fits}
<1>9. /\ Painted(row, value) = colors
      /\ LegendColors(row, value) = IF told = {} THEN {FallbackColor} ELSE told
  <2>1. row.mode # "SIMPLE" /\ row.mode # "CATEGORICAL"
    BY <1>1
  <2>2. Painted(row, value) = colors
    BY <2>1, Zenon DEF Painted
  <2>3. LegendColors(row, value) = IF told = {} THEN {FallbackColor} ELSE told
    BY <2>1, Zenon DEF LegendColors
  <2>. QED
    BY <2>2, <2>3
<1>10. reached # {} /\ reached \subseteq fits
  BY <1>1, <1>4, <1>6
<1>11. ~OnBound(row, value) => \A i, j \in fits : i = j
  BY <1>1, <1>8
<1> HIDE DEF reached, fits
<1>12. /\ colors # {} /\ colors \subseteq told /\ told # {}
       /\ ~OnBound(row, value) => \A c, d \in told : c = d
  BY <1>10, <1>11
<1> HIDE DEF colors, told
<1>. QED
  BY <1>9, <1>12 DEF Legible

LEMMA GraduatedLegend ==
  ASSUME IInv, NEW count \in 1..9, Drawable("GRADUATED", count),
         style.revision > 0,
         NEW i \in DOMAIN Sample(table), table[i] # Null,
         NEW row, row = [mode    |-> "GRADUATED", count |-> count,
                         classes |-> GraduatedClasses(count)]
  PROVE  Legible(row, table[i])
<1> DEFINE value == table[i]
           lo == profile.minimum
           hi == profile.maximum
           w == hi - lo
           b == lo * count
           classes == GraduatedClasses(count)
<1>1. profile.minimum # Null /\ hi > lo
  BY DEF Drawable
<1>2. lo \in Int /\ hi \in Int /\ value \in Int /\ lo <= value /\ value <= hi
  BY <1>1, ProfiledValue
<1>3. /\ DOMAIN classes = 1..count /\ Len(classes) = count
      /\ \A k \in 1..count :
           /\ classes[k].min = lo * count + w * (k - 1)
           /\ classes[k].max = IF k = count THEN hi * count
                               ELSE lo * count + w * k
  BY DEF GraduatedClasses
<1>4. hi * count = lo * count + w * count
  BY <1>2
<1>5. /\ row.mode = "GRADUATED" /\ row.count = count /\ row.classes = classes
  OBVIOUS
<1> HIDE DEF value, lo, hi, classes
<1>6. \A k \in 1..count : /\ classes[k].min = b + w * (k - 1)
                         /\ classes[k].max = b + w * k
  BY <1>3, <1>4
<1>7. Adjacent(row, count, b, w)
  BY <1>3, <1>5, <1>6 DEF Adjacent
<1>8. /\ count \in Nat \ {0} /\ b \in Int /\ w \in Nat \ {0}
      /\ b <= value * count /\ value * count <= b + w * count
  BY <1>1, <1>2, <1>4 DEF lo, hi
<1> HIDE DEF b, w
<1>9. Legible(row, value)
  BY <1>2, <1>7, <1>8, AdjacentLegend
<1>. QED
  BY <1>9 DEF value

-----------------------------------------------------------------------------
(* The properties.                                                         *)

(* The style of a layer, and whatever is about to be written to it, is one *)
(* its profile allows, and there is one before the layer is served.        *)
THEOREM TypeCorrect == Spec => []TypeOK
  BY Invariance, PTL DEF IInv

(* However the pages of a walk fall, and whenever the layer is withdrawn   *)
(* in between, the features it has been given are the first of those it    *)
(* asked for, in order and each once, and all of them at its end.          *)
THEOREM PagesAreAlwaysComplete == Spec => []PagesAreComplete
<1>1. IInv => PagesAreComplete
  <2>. SUFFICES ASSUME IInv PROVE PagesAreComplete
    OBVIOUS
  <2> DEFINE o == InOrder(walk.wanted)
             s == walk.seen
  <2>1. o \in Seq(Int)
    <3>1. table \in Tables /\ walk.wanted \subseteq Fids
      BY DEF IInv, ProfileIsOfTable, WalkIsOverTable
    <3>. QED
      BY <3>1, WantedInOrder
  <2>2. /\ s \in Seq(Int) /\ s = Take(o, Len(s))
        /\ walk.pc = "complete" => s = o
    BY DEF IInv, WalkIsInOrder
  <2> HIDE DEF o, s
  <2>3. Len(s) \in Nat /\ Len(Take(o, Len(s))) <= Len(o)
    BY <2>1, <2>2, TakenSequence
  <2>4. Len(s) <= Len(o) /\ Take(o, Len(s)) = SubSeq(o, 1, Len(s))
    BY <2>1, <2>2, <2>3 DEF Take
  <2>5. SubSeq(s, 1, Len(s)) = s
    BY <2>2
  <2>6. IsPrefix(s, o)
    BY <2>2, <2>4, <2>5 DEF IsPrefix
  <2>. QED
    BY <2>2, <2>6 DEF PagesAreComplete, o, s
<1>. QED
  BY <1>1, Invariance, PTL

(* Whatever the profile and however many classes are asked for, no two     *)
(* classes of a style have the same colour of the palette.                 *)
THEOREM ClassesAreAlwaysTold == Spec => []ClassesAreTold
<1>1. IInv => ClassesAreTold
  <2>. SUFFICES ASSUME IInv,
                       NEW i \in DOMAIN style.drawn.classes,
                       NEW j \in DOMAIN style.drawn.classes
                PROVE  /\ style.drawn.classes[i].color \in 0..(PaletteSize - 1)
                       /\ style.drawn.classes[i].color
                            = style.drawn.classes[j].color => i = j
    BY DEF ClassesAreTold
  <2>1. PICK mode \in Modes, count \in 1..9 :
          Drawable(mode, count) /\ style.drawn = Drawn(mode, count)
    BY DrawnByWhat
  <2>2. \E n \in 0..9 :
          /\ DOMAIN style.drawn.classes \subseteq 1..n
          /\ \A k \in DOMAIN style.drawn.classes :
               style.drawn.classes[k].color = PaletteColors(n)[k]
    <3>1. CASE mode = "SIMPLE"
      <4>1. style.drawn.classes = <<>>
        BY <2>1, <3>1 DEF Drawn, Simple
      <4>2. DOMAIN style.drawn.classes = {}
        BY <4>1
      <4>. QED
        BY <4>2
    <3>2. CASE mode = "CATEGORICAL"
      <4>1. style.drawn.classes = CategoricalClasses(count)
        BY <2>1, <3>2 DEF Drawn
      <4>2. PICK n \in 0..9 :
              /\ DOMAIN CategoricalClasses(count) = 1..n
              /\ \A k \in 1..n :
                   CategoricalClasses(count)[k] = [value |-> profile.top[k],
                                                   color |-> PaletteColors(n)[k]]
        BY CategoricalFacts
      <4>3. \A k \in 1..n :
              CategoricalClasses(count)[k].color = PaletteColors(n)[k]
        BY <4>2
      <4>. QED
        BY <4>1, <4>2, <4>3
    <3>3. CASE mode = "GRADUATED"
      <4>1. style.drawn.classes = GraduatedClasses(count)
        BY <2>1, <3>3 DEF Drawn
      <4>2. /\ DOMAIN GraduatedClasses(count) = 1..count
            /\ \A k \in 1..count :
                 GraduatedClasses(count)[k].color = PaletteColors(count)[k]
        BY DEF GraduatedClasses
      <4>3. count \in 0..9
        OBVIOUS
      <4>. QED
        BY <4>1, <4>2, <4>3
    <3>. QED
      BY <3>1, <3>2, <3>3 DEF Modes
  <2>3. PICK n \in 0..9 :
          /\ DOMAIN style.drawn.classes \subseteq 1..n
          /\ \A k \in DOMAIN style.drawn.classes :
               style.drawn.classes[k].color = PaletteColors(n)[k]
    BY <2>2
  <2>4. i \in 1..n /\ j \in 1..n /\ PaletteSize - 1 = 8
    BY <2>3 DEF PaletteSize
  <2>5. /\ PaletteColors(n)[i] \in 0..8
        /\ PaletteColors(n)[i] = PaletteColors(n)[j] => i = j
    BY <2>4, PaletteIsToldApart
  <2>. QED
    BY <2>3, <2>4, <2>5
<1>. QED
  BY <1>1, Invariance, PTL

(* A row that was profiled is painted in a colour that the legend has for  *)
(* its value, in a style of any mode and any number of classes whose       *)
(* labels are rounded, and the legend has only that one unless the value   *)
(* is on a bound of a label.                                               *)
THEOREM LegendAlwaysTellsTheColor == Spec => []LegendTellsTheColor
<1>1. IInv => LegendTellsTheColor
  <2>. SUFFICES ASSUME IInv, NEW i \in DOMAIN Sample(table),
                       style.revision > 0,
                       table[i] = Null => NullIsOther(style.drawn)
                PROVE  Legible(style.drawn, table[i])
    BY DEF LegendTellsTheColor, Legible
  <2>1. PICK mode \in Modes, count \in 1..9 :
          Drawable(mode, count) /\ style.drawn = Drawn(mode, count)
    BY DrawnByWhat
  <2>2. CASE mode = "SIMPLE"
    <3>1. style.drawn.mode = "SIMPLE"
      BY <2>1, <2>2 DEF Drawn, Simple
    <3>2. /\ Painted(style.drawn, table[i]) = {SymbolColor}
          /\ LegendColors(style.drawn, table[i]) = {SymbolColor}
      BY <3>1, Zenon DEF Painted, LegendColors
    <3>. QED
      BY <3>2 DEF Legible
  <2>3. CASE mode = "CATEGORICAL"
    <3>1. style.drawn = [mode    |-> "CATEGORICAL",
                         classes |-> CategoricalClasses(count),
                         count   |-> Len(CategoricalClasses(count))]
      BY <2>1, <2>3 DEF Drawn
    <3>. QED
      BY <3>1, CategoricalLegend
  <2>4. CASE mode = "GRADUATED"
    <3>1. style.drawn = [mode |-> "GRADUATED", count |-> count,
                         classes |-> GraduatedClasses(count)]
      BY <2>1, <2>4 DEF Drawn
    <3>2. table[i] # Null
      BY <3>1 DEF NullIsOther
    <3>. QED
      BY <2>1, <2>4, <3>1, <3>2, GraduatedLegend
  <2>. QED
    BY <2>2, <2>3, <2>4 DEF Modes
<1>. QED
  BY <1>1, Invariance, PTL

(* However many editors save a style at once, what is drawn never changes  *)
(* without a higher revision: the row is locked before its revision is     *)
(* read.                                                                   *)
THEOREM StyleIsRevisedAlways == Spec => StyleIsRevised
<1>1. IInv /\ [Next]_vars =>
        [style' # style => style'.revision > style.revision]_style
  <2>. SUFFICES ASSUME IInv, [Next]_vars, style' # style
                PROVE  style'.revision > style.revision
    OBVIOUS
  <2>1. style.revision \in Nat
    BY DEF IInv, TypeOK, StyleTypeOK
  <2>2. CASE Publish
    BY <2>1, <2>2 DEF Publish, EnsureVectorStyle
  <2>3. CASE \E r \in Requests : Style(r)
    <3>1. PICK r \in Requests : SaveStyle(r)
      BY <2>3 DEF Style, UpdateVectorStyle, Classify, LockStyle
    <3>2. update[r].revision = style.revision
      BY <3>1 DEF IInv, LockIsExclusive, SaveStyle
    <3>. QED
      BY <2>1, <3>1, <3>2 DEF SaveStyle
  <2>. QED
    BY <2>2, <2>3 DEF Next, Turn, DropTable, Walk, vars, styleVars
<1>. QED
  BY <1>1, Invariance, PTL DEF Spec, StyleIsRevised
=============================================================================
