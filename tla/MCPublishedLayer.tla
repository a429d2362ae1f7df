------------------------- MODULE MCPublishedLayer --------------------------
(* Checking PublishedLayer with TLC: columns of three numbers or texts,    *)
(* whose order makes no difference to a profile, and interchangeable       *)
(* requests. As a text 8 comes last of the numbers.                        *)
EXTENDS PublishedLayer, TLC

CONSTANT Word  \* a text with characters

Numbers == {8, 1000, 1005}

Texts == {Empty, Word}

SmallValues == Numbers \union Texts

InTextOrder == <<Empty, 1000, 1005, 8, Word>>

TextOrder == {<<InTextOrder[i], InTextOrder[j]>> :
                <<i, j>> \in {p \in (1..5) \X (1..5) : p[1] < p[2]}}

SmallTables ==
  {column \in [1..3 -> Numbers \union {Null}] \union [1..3 -> Texts \union {Null}] :
     \A i, j \in 1..3 :
       i < j => \/ column[j] \in {Null, column[i]}
                \/ <<column[i], column[j]>> \in TextOrder}

StyleSymmetry == Permutations(Requests)
=============================================================================
