------------------------------ MODULE MpsFiles ------------------------------
(***************************************************************************)
(* The files the reader is checked with, and what its memory may hold.     *)
(***************************************************************************)
EXTENDS Integers, Sequences

(* MPS files: rows of every pair of senses, without or with two objectives,*)
(* with a name twice, more of them than the dictionary takes; columns with *)
(* entries out of order, twice in a place, broken off and resumed, of an   *)
(* unknown row; and so on for right-hand sides and bounds.                 *)
RowLine(sense, name) == [sense |-> sense, name |-> name]
ColLine(c, r, v) == [col |-> c, row |-> r, val |-> v]
RhsLine(r, v) == [row |-> r, val |-> v]
BoundLine(t, c, v) == [type |-> t, col |-> c, val |-> v]

RowSections ==
  {<<RowLine("N", "c"), RowLine(a, "r1"), RowLine(b, "r2")>> : a, b \in {"E", "L", "G"}}
  \cup {<<RowLine("L", "r1"), RowLine("N", "c"), RowLine("E", "r2")>>,
        <<RowLine("N", "c"), RowLine("N", "d"), RowLine("E", "r1")>>,
        <<RowLine("N", "c"), RowLine("L", "r1"), RowLine("L", "r1")>>,
        <<RowLine("E", "r1"), RowLine("L", "r2")>>,
        [k \in 1..5 |-> RowLine("L", <<"r1", "r2", "r3", "r4", "r5">>[k])]}

ColSections ==
  {<<ColLine("x", "c", 3), ColLine("x", "r2", 2), ColLine("x", "r1", 1), ColLine("y", "r1", 5)>>,
   <<ColLine("x", "r1", 2), ColLine("x", "r1", 4), ColLine("y", "c", 1), ColLine("y", "r2", 1)>>,
   <<ColLine("x", "r1", 2), ColLine("y", "r2", 1), ColLine("x", "r2", 4)>>,
   <<ColLine("x", "r9", 2)>>}

RhsSections ==
  {<< >>, <<RhsLine("r2", 6), RhsLine("c", 8)>>, <<RhsLine("r1", 6), RhsLine("r2", 7)>>,
   <<RhsLine("r9", 8)>>}

BoundSections ==
  {<< >>, <<BoundLine("UP", "y", 4)>>, <<BoundLine("UP", "x", 99), BoundLine("UP", "y", 4)>>,
   <<BoundLine("LO", "x", 0)>>, <<BoundLine("LO", "x", 1)>>, <<BoundLine("UP", "z", 1)>>}

MCFiles ==
  [rows : RowSections, cols : ColSections, rhs : RhsSections, ranges : {FALSE},
   bounds : BoundSections]
  \cup [rows : RowSections, cols : ColSections, rhs : {<< >>}, ranges : {TRUE}, bounds : {<< >>}]

MCJunk == {{}} \cup {{a} : a \in {"hash", "key", "Bp", "rowSenses", "rowRHS", "colObj"}}
=============================================================================
