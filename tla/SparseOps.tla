------------------------------ MODULE SparseOps ------------------------------
(***************************************************************************)
(* The sparse matrices of cupdlp_cs.c and their conversions, as operators. *)
(* A triplet matrix is a sequence of entries in the order they were added. *)
(* A compressed one has the arrays of the source: p[k] is where column k   *)
(* (row k, for rows) begins, i and x are functions on 0..p[n]-1.           *)
(***************************************************************************)
EXTENDS Integers, Sequences, FiniteSets, SequencesExt

(* An entry by what it is sorted by (major) and the index that is kept.    *)
Item(major, minor, x) == [major |-> major, minor |-> minor, x |-> x]

(* How often each of 0..n-1 occurs: the workspace w.                       *)
counts(items, n) == [k \in 0..n-1 |-> Cardinality({e \in DOMAIN items : items[e].major = k})]

cumsum_Inclusive(c, n) ==    \* fault: p[i] is set after c[i] is added
  LET total[k \in 0..n] == IF k = 0 THEN 0 ELSE total[k - 1] + c[k - 1]
  IN [k \in 0..n |-> total[IF k < n THEN k + 1 ELSE k]]

(* cupdlp_dcs_cumsum: p[k] is the sum of c before k, p[n] of all of it.    *)
cumsum(c, n) ==
  LET total[k \in 0..n] == IF k = 0 THEN 0 ELSE total[k - 1] + c[k - 1]
  IN total

(* The loop that both functions end with: every entry goes to the next     *)
(* free place w of its column (row) and moves that place on.               *)
place(s, e) ==
  [w |-> [s.w EXCEPT ![e.major] = @ + 1],
   i |-> [s.i EXCEPT ![s.w[e.major]] = e.minor],
   x |-> [s.x EXCEPT ![s.w[e.major]] = e.x]]

sorted(items, n) ==
  LET p == cumsum(counts(items, n), n)
      blank == [k \in 0..p[n]-1 |-> 0]
      done == FoldLeft(place, [w |-> p, i |-> blank, x |-> blank], items)
  IN [p |-> p, i |-> done.i, x |-> done.x]

(* T: entries [i, j, x] of an m x n matrix.                                *)
cupdlp_dcs_compress(T, n) ==
  sorted([k \in DOMAIN T |-> Item(T[k].j, T[k].i, T[k].x)], n)

(* The entries of column j of C, in order.                                 *)
Column(C, j) == [k \in 1..C.p[j + 1] - C.p[j] |->
                  [i |-> C.i[C.p[j] + k - 1], x |-> C.x[C.p[j] + k - 1]]]

(* Of an m x n matrix C: column by column, every entry goes to its row.    *)
cupdlp_dcs_transpose(C, m, n) ==
  LET of(j) == [k \in DOMAIN Column(C, j) |-> Item(Column(C, j)[k].i, j, Column(C, j)[k].x)]
  IN sorted(FlattenSeq([j \in 1..n |-> of(j - 1)]), m)

(* A dense matrix is stored by columns; both loops drop the zeros.         *)
Dense(data, nRows, iRow, iCol) == data[iCol * nRows + iRow]

compressed(lines, n) ==
  LET kept(k) == SelectSeq(lines[k + 1], LAMBDA e : e.x # 0)
      all == FlattenSeq([k \in 1..n |-> kept(k - 1)])
  IN [p |-> cumsum([k \in 0..n-1 |-> Len(kept(k))], n),
      i |-> [k \in 0..Len(all)-1 |-> all[k + 1].minor],
      x |-> [k \in 0..Len(all)-1 |-> all[k + 1].x]]

dense2csr(data, nRows, nCols) ==
  compressed([r \in 1..nRows |-> [c \in 1..nCols |->
                Item(r - 1, c - 1, Dense(data, nRows, r - 1, c - 1))]], nRows)

dense2csc(data, nRows, nCols) ==
  compressed([c \in 1..nCols |-> [r \in 1..nRows |->
                Item(c - 1, r - 1, Dense(data, nRows, r - 1, c - 1))]], nCols)
=============================================================================
