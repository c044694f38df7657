------------------------------ MODULE MpsReader ------------------------------
(***************************************************************************)
(* The reader of standard-form MPS files, cupdlpMpsRead (cupdlp_mps.c).    *)
(* It goes through the file twice: first to count rows, columns and        *)
(* bounds, then to fill arrays of these sizes; two dictionaries turn names *)
(* into indices, and at the end the rows are split into equations and      *)
(* inequalities.                                                           *)
(*                                                                         *)
(* A file is given by its sections, a line by its fields.  Most arrays     *)
(* come from malloc and are not written in full; `junk` says which of them *)
(* held something else than zeros, and what follows from that is open: the *)
(* run goes astray ("Stray") or takes the junk for data.                   *)
(***************************************************************************)
EXTENDS SparseOps, FiniteSetsExt

CONSTANTS
  Files,     \* [rows, cols, rhs, ranges, bounds]: sequences of lines, a flag for ranges
  Infinite,  \* the value of a bound that is not finite
  Garbage,   \* a number found in memory that was not written
  JunkSets   \* which arrays may hold junk

VARIABLES
  file,
  pc,        \* the section, "Split", "Done", "Failed", "Aborted" (an assertion), "Stray"
  at,        \* the line in the section
  n,         \* the sizes from the first pass: nRow (no objective), nCol, nBound
  row, col,  \* rowHash and colHash: index by name
  added,     \* iRhs and iCol: how many went into each
  rowSenses, rowRHS, objname, colObj,
  colMat,    \* the entries of the triplet matrix
  ub,        \* colUbIdx and colUbElem
  out,       \* what is returned
  junk

vars == <<file, pc, at, n, row, col, added, rowSenses, rowRHS, objname, colObj, colMat, ub,
          out, junk>>

More(section) == at <= Len(file[section])
Line(section) == file[section][at]

(* A column begins where the name is not that of the line before.          *)
Begins(k) == k = 1 \/ file.cols[k].col # file.cols[k - 1].col

Unwritten(array) == IF array \in junk THEN Garbage ELSE 0

(* nMaxElem is n / 0.7, cut to an integer.                                 *)
cupdlpDictAddElem(dict, count, size, key) ==
  IF count >= (10 * size) \div 7 THEN "Failed"
  ELSE IF "hash" \in junk THEN "Stray"
  ELSE IF key \in DOMAIN dict THEN "Failed"
  ELSE "ok"

(* The key is copied without its end: behind junk it is never found again. *)
Added(dict, key, val) ==
  IF "key" \in junk THEN dict ELSE [k \in DOMAIN dict \cup {key} |-> IF k = key THEN val ELSE dict[k]]

cupdlpDictMapElem(dict, key) == IF key \in DOMAIN dict THEN dict[key] ELSE -1

(* What the checks and assertions make of the next line, or of the end of  *)
(* the section.                                                            *)
VerdictOnRow ==
  IF ~More("rows") THEN IF added.row = n.row THEN "ok" ELSE "Aborted"
  ELSE IF Line("rows").sense = "N" THEN "ok"
  ELSE LET add == cupdlpDictAddElem(row, added.row, n.row, Line("rows").name)
       IN IF add = "ok" /\ Line("rows").sense # "E" /\ added.row >= n.row THEN "Stray" ELSE add

VerdictOnColumn ==
  LET add == cupdlpDictAddElem(col, added.col, n.col, Line("cols").col)
  IN IF ~More("cols") THEN "ok"
     ELSE IF Begins(at) /\ add # "ok" THEN add
     ELSE IF Line("cols").row = objname THEN IF "key" \in junk THEN "Stray" ELSE "ok"
     ELSE IF "key" \in junk \/ cupdlpDictMapElem(row, Line("cols").row) < 0 THEN "Aborted"
     ELSE "ok"

VerdictOnRhs ==
  IF ~More("rhs") THEN IF file.ranges THEN "Failed" ELSE "ok"
  ELSE IF Line("rhs").row # objname /\ cupdlpDictMapElem(row, Line("rhs").row) < 0 THEN "Stray"
  ELSE "ok"

(* First pass: what is not an upper bound has to be zero.                  *)
VerdictOnCounts ==
  IF \A k \in DOMAIN file.bounds : file.bounds[k].type = "UP" \/ file.bounds[k].val = 0
  THEN "ok" ELSE "Failed"

VerdictOnBound ==
  IF ~More("bounds") /\ Len(ub) # n.bound THEN "Aborted" ELSE "ok"

Verdict ==
  CASE pc = "NAME"    -> VerdictOnCounts
    [] pc = "ROWS"    -> VerdictOnRow
    [] pc = "COLUMNS" -> VerdictOnColumn
    [] pc = "RHS"     -> VerdictOnRhs
    [] pc = "BOUNDS"  -> VerdictOnBound
    [] OTHER          -> "ok"
-----------------------------------------------------------------------------
Init ==
  /\ file \in Files /\ junk \in JunkSets
  /\ pc = "NAME" /\ at = 1
  /\ n = [row |-> 0, col |-> 0, bound |-> 0]
  /\ row = << >> /\ col = << >> /\ added = [row |-> 0, col |-> 0]
  /\ rowSenses = << >> /\ rowRHS = << >> /\ objname = "*" /\ colObj = << >>
  /\ colMat = << >> /\ ub = << >> /\ out = << >>

Section(name) == pc' = name /\ at' = 1
NextLine == at' = at + 1 /\ UNCHANGED pc

(* One row is taken for the objective, whatever the senses are; the arrays *)
(* are allocated, not cleared.                                             *)
Count ==
  /\ pc = "NAME" /\ Verdict = "ok"
  /\ n' = [row |-> Len(file.rows) - 1,
           col |-> Cardinality({k \in DOMAIN file.cols : Begins(k)}),
           bound |-> Len(file.bounds)]
  /\ rowRHS' = [k \in 0..n'.row-1 |-> Unwritten("rowRHS")]
  /\ colObj' = [k \in 0..n'.col-1 |-> Unwritten("colObj")]
  /\ Section("ROWS")
  /\ UNCHANGED <<file, row, col, added, rowSenses, objname, colMat, ub, out, junk>>

(* The sense of an equation is not written.                                *)
ReadRow ==
  /\ pc = "ROWS" /\ Verdict = "ok" /\ More("rows")
  /\ LET line == Line("rows")
         r == added.row
     IN IF line.sense = "N"
        THEN objname' = line.name /\ UNCHANGED <<row, added, rowSenses>>
        ELSE /\ row' = Added(row, line.name, r)
             /\ added' = [added EXCEPT !.row = r + 1]
             /\ \E s \in CASE line.sense = "G" -> {-1}
                           [] line.sense = "L" -> {1}
                           [] OTHER -> IF "rowSenses" \in junk THEN {-1, 0, 1} ELSE {0} :
                  rowSenses' = [k \in DOMAIN rowSenses \cup {r} |-> IF k = r THEN s ELSE rowSenses[k]]
             /\ UNCHANGED objname
  /\ NextLine
  /\ UNCHANGED <<file, n, col, rowRHS, colObj, colMat, ub, out, junk>>

Signed_Kept(r, val) == val    \* fault: a >= row is not turned to <=
Signed(r, val) == IF rowSenses[r] = -1 THEN -val ELSE val

ReadColumn ==
  /\ pc = "COLUMNS" /\ Verdict = "ok" /\ More("cols")
  /\ LET line == Line("cols")
     IN /\ col' = IF Begins(at) THEN Added(col, line.col, added.col) ELSE col
        /\ added' = [added EXCEPT !.col = IF Begins(at) THEN @ + 1 ELSE @]
        /\ IF line.row = objname
           THEN colObj' = [colObj EXCEPT ![col'[line.col]] = line.val] /\ UNCHANGED colMat
           ELSE /\ colMat' = Append(colMat, [i |-> row[line.row], j |-> col'[line.col],
                                             x |-> Signed(row[line.row], line.val)])
                /\ UNCHANGED colObj
  /\ NextLine
  /\ UNCHANGED <<file, n, row, rowSenses, rowRHS, objname, ub, out, junk>>

(* A right-hand side of the objective is reported and dropped.             *)
ReadRhs ==
  /\ pc = "RHS" /\ Verdict = "ok" /\ More("rhs")
  /\ LET line == Line("rhs")
     IN rowRHS' = IF line.row = objname THEN rowRHS
                  ELSE [rowRHS EXCEPT ![row[line.row]] = Signed(row[line.row], line.val)]
  /\ NextLine
  /\ UNCHANGED <<file, n, row, col, added, rowSenses, objname, colObj, colMat, ub, out, junk>>

(* The second pass does not look at the type of a bound.                   *)
ReadBound ==
  /\ pc = "BOUNDS" /\ Verdict = "ok" /\ More("bounds")
  /\ LET line == Line("bounds")
     IN ub' = IF line.val = Infinite THEN ub
              ELSE Append(ub, <<cupdlpDictMapElem(col, line.col), line.val>>)
  /\ NextLine
  /\ UNCHANGED <<file, n, row, col, added, rowSenses, rowRHS, objname, colObj, colMat, out, junk>>

EndOfSection ==
  /\ Verdict = "ok"
  /\ \/ pc = "ROWS" /\ ~More("rows") /\ Section("COLUMNS")
     \/ pc = "COLUMNS" /\ ~More("cols") /\ Section("RHS")
     \/ pc = "RHS" /\ ~More("rhs") /\ Section("BOUNDS")
     \/ pc = "BOUNDS" /\ ~More("bounds") /\ Section("Split")
  /\ UNCHANGED <<file, n, row, col, added, rowSenses, rowRHS, objname, colObj, colMat, ub, out, junk>>

Quit ==
  /\ Verdict # "ok"
  /\ Section(Verdict)
  /\ UNCHANGED <<file, n, row, col, added, rowSenses, rowRHS, objname, colObj, colMat, ub, out, junk>>
-----------------------------------------------------------------------------
Rank(r, S) == Cardinality({k \in S : k < r})

(* rowIdxsplit: the rows of S, renumbered, with the columns as they were.  *)
(* The first column pointer is not written.                                *)
Part(csc, S) ==
  LET of(j) == SelectSeq(Column(csc, j), LAMBDA c : c.i \in S)
      all == FlattenSeq([j \in 1..n.col |-> of(j - 1)])
      p == cumsum([j \in 0..n.col-1 |-> Len(of(j))], n.col)
  IN [p |-> [p EXCEPT ![0] = Unwritten("Bp")],
      i |-> [k \in 0..Len(all)-1 |-> Rank(all[k + 1].i, S)],
      x |-> [k \in 0..Len(all)-1 |-> all[k + 1].x]]

rowIdxsplit ==
  /\ pc = "Split"
  /\ LET csc == cupdlp_dcs_compress(colMat, n.col)
         B == {r \in DOMAIN rowSenses : rowSenses[r] = 0}
         C == DOMAIN rowSenses \ B
         moved(r) == IF r \in B THEN Rank(r, B) ELSE Cardinality(B) + Rank(r, C)
     IN out' = [eq |-> Part(csc, B), ineq |-> Part(csc, C),
                rhs |-> [q \in DOMAIN rowRHS |-> rowRHS[CHOOSE r \in DOMAIN rowSenses : moved(r) = q]],
                nEqRow |-> Cardinality({k \in DOMAIN file.rows : file.rows[k].sense = "E"}),
                nElem |-> csc.p[n.col]]
  /\ Section("Done")
  /\ UNCHANGED <<file, n, row, col, added, rowSenses, rowRHS, objname, colObj, colMat, ub, junk>>

Next == Count \/ ReadRow \/ ReadColumn \/ ReadRhs \/ ReadBound \/ EndOfSection \/ Quit
        \/ rowIdxsplit

Spec == Init /\ [][Next]_vars
-----------------------------------------------------------------------------
(* The file as it is meant.                                                *)
Constraints(senses) == SelectSeq(file.rows, LAMBDA l : l.sense \in senses)
Columns == SelectSeq([k \in DOMAIN file.cols |-> IF Begins(k) THEN file.cols[k].col ELSE "-"],
                     LAMBDA c : c # "-")

Written(section, r, c) ==
  LET here == SelectSeq(file[section], LAMBDA l : l.row = r /\ (section = "cols" => l.col = c))
  IN [k \in DOMAIN here |-> here[k].val]

LastOr0(s) == IF s = << >> THEN 0 ELSE Last(s)

(* The column entries of one row of a part, in the order they came.        *)
Coefficients(part, r, j) ==
  LET here == SelectSeq(Column(part, j), LAMBDA c : c.i = r)
  IN [k \in DOMAIN here |-> here[k].x]

RowIs(part, q, rhs, line, sign) ==
  /\ \A j \in DOMAIN Columns :
       Coefficients(part, q, j - 1) = [k \in DOMAIN Written("cols", line.name, Columns[j]) |->
                                        sign * Written("cols", line.name, Columns[j])[k]]
  /\ rhs = sign * LastOr0(Written("rhs", line.name, ""))

(* Which arrays have to have held zeros for this file.                     *)
MustBeZero ==
  {"hash", "key", "Bp"}
  \cup {a \in {"rowSenses"} : Constraints({"E"}) # << >>}
  \cup {a \in {"rowRHS"} : \E l \in ToSet(Constraints({"E", "L", "G"})) : Written("rhs", l.name, "") = << >>}
  \cup {a \in {"colObj"} : \E c \in ToSet(Columns) : Written("cols", objname, c) = << >>}

(* A file that leaves the reader nothing to refuse: one objective, names   *)
(* that occur once and are known where they are used, the lines of a       *)
(* column together, no ranges, and finite upper bounds.                    *)
Named(names, name) == name \in ToSet(names)

WellFormed ==
  LET names == [k \in DOMAIN file.rows |-> file.rows[k].name]
  IN /\ Len(Constraints({"N"})) = 1 /\ IsInjective(names) /\ IsInjective(Columns)
     /\ \A section \in {"cols", "rhs"} : \A l \in ToSet(file[section]) : Named(names, l.row)
     /\ ~file.ranges
     /\ \A l \in ToSet(file.bounds) :
          l.type = "UP" /\ Named(Columns, l.col) /\ l.val # Infinite

(* A file that is accepted is returned as it was meant: the two passes     *)
(* agree on every size, equations come first and inequalities after them,  *)
(* each with its own entries and its own right-hand side, >= turned to <=, *)
(* costs and upper bounds with the columns of the file they name; and a    *)
(* well-formed file is accepted.  This takes memory that held zeros where  *)
(* the reader relies on it, and for the bounds a section of upper bounds   *)
(* on columns of the file: another bound of zero and a bound on a name     *)
(* that is no column are let through (see BoundsNameColumns).  Memory that *)
(* did not hold zeros is no part of it: then a well-formed file can end in *)
(* the assertion of line 608, or in an array out of bounds.                *)
ReadsWhatIsWritten ==
  junk \cap MustBeZero = {} =>
    /\ WellFormed => pc \notin {"Failed", "Aborted", "Stray"}
    /\ pc = "Done" =>
       /\ added = [row |-> n.row, col |-> n.col] /\ Len(ub) = n.bound /\ out.nElem = Len(colMat)
       /\ LET eqs == Constraints({"E"})
              ineqs == Constraints({"L", "G"})
          IN /\ out.nEqRow = Len(eqs)
             /\ \A k \in DOMAIN eqs : RowIs(out.eq, k - 1, out.rhs[k - 1], eqs[k], 1)
             /\ \A k \in DOMAIN ineqs :
                  RowIs(out.ineq, k - 1, out.rhs[Len(eqs) + k - 1], ineqs[k],
                        IF ineqs[k].sense = "G" THEN -1 ELSE 1)
       /\ \A j \in DOMAIN Columns : colObj[j - 1] = LastOr0(Written("cols", objname, Columns[j]))
       /\ (\A l \in ToSet(file.bounds) : l.type = "UP" /\ Named(Columns, l.col)) =>
            ub = [k \in DOMAIN file.bounds |->
                    <<CHOOSE j \in 0..n.col-1 : Columns[j + 1] = file.bounds[k].col,
                      file.bounds[k].val>>]

(* What line 608 asserts of a column looked up by its name, at the other   *)
(* place where the reader looks one up: an upper bound that is returned    *)
(* belongs to a column.                                                    *)
BoundsNameColumns == pc = "Done" => \A k \in DOMAIN ub : ub[k][1] \in 0..n.col-1
=============================================================================
