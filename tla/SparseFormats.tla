---------------------------- MODULE SparseFormats ----------------------------
(***************************************************************************)
(* How a matrix gets into the formats of cuPDLP-C: entries are added to a  *)
(* triplet matrix that grows by doubling (cupdlp_cs.c), which is then      *)
(* compressed by columns and transposed to rows (csc2csr, cupdlp_utils.c); *)
(* or a dense matrix is converted to both.                                 *)
(***************************************************************************)
EXTENDS SparseOps

CONSTANTS
  Entries,     \* the entries [i, j, x] that may be added, some rejected
  Shapes,      \* what the triplet matrix is created with: [m, n, nzmax]
  Matrices,    \* dense matrices [nRows, nCols, data]
  MaxEntries   \* bounds the number of entries

VARIABLES
  made,     \* "triplet", "csc", "csr", "dense"
  T,        \* the triplet matrix: m, n, nzmax and its entries
  size,     \* the elements its arrays i, p and x have room for
  csc, csr  \* the compressed formats

vars == <<made, T, size, csc, csr>>

Larger(a, b) == IF a > b THEN a ELSE b

Init ==
  /\ csc = << >> /\ csr = << >>
  /\ \/ /\ made = "triplet"
        /\ \E s \in Shapes : T = [m |-> s.m, n |-> s.n, nzmax |-> Larger(s.nzmax, 1), e |-> << >>]
        /\ size = [a \in {"i", "p", "x"} |-> T.nzmax]
     \/ /\ made = "dense"
        /\ \E d \in Matrices : T = d
        /\ size = << >>

(* cupdlp_dcs_sprealloc: i, p and x one after another; when one of them    *)
(* fails the others may have grown, but nzmax has not.                     *)
Grown(ok) == [a \in DOMAIN size |-> IF ok[a] THEN 2 * T.nzmax ELSE size[a]]

Full_Late == Len(T.e) > T.nzmax    \* fault: grows one entry too late
Full == Len(T.e) >= T.nzmax

Store(e, nzmax) ==
  T' = [m |-> Larger(T.m, e.i + 1), n |-> Larger(T.n, e.j + 1), nzmax |-> nzmax,
        e |-> Append(T.e, e)]

cupdlp_dcs_entry(e) ==
  /\ made = "triplet" /\ Len(T.e) < MaxEntries
  /\ e.i >= 0 /\ e.j >= 0
  /\ \/ /\ ~Full
        /\ Store(e, T.nzmax) /\ UNCHANGED size
     \/ \E ok \in [DOMAIN size -> BOOLEAN] :
          /\ Full
          /\ size' = Grown(ok)
          /\ IF \A a \in DOMAIN size : ok[a] THEN Store(e, 2 * T.nzmax) ELSE UNCHANGED T
  /\ UNCHANGED <<made, csc, csr>>

Compress ==
  /\ made = "triplet"
  /\ made' = "csc"
  /\ csc' = cupdlp_dcs_compress(T.e, T.n)
  /\ UNCHANGED <<T, size, csr>>

(* The transposed matrix has room for at least one entry, and its nzmax is *)
(* taken for the number of entries.                                        *)
csc2csr ==
  /\ made = "csc"
  /\ made' = "csr"
  /\ csr' = [nMatElem |-> Larger(csc.p[T.n], 1)] @@ cupdlp_dcs_transpose(csc, T.m, T.n)
  /\ UNCHANGED <<T, size, csc>>

FromDense ==
  /\ made = "dense"
  /\ made' = "converted"
  /\ csr' = dense2csr(T.data, T.nRows, T.nCols)
  /\ csc' = dense2csc(T.data, T.nRows, T.nCols)
  /\ UNCHANGED <<T, size>>

Next == (\E e \in Entries : cupdlp_dcs_entry(e)) \/ Compress \/ csc2csr \/ FromDense

Spec == Init /\ [][Next]_vars
-----------------------------------------------------------------------------
(* The entries of T in one column and in one row, in the order they came.  *)
InColumn(j) == SelectSeq(T.e, LAMBDA e : e.j = j)
InRow(r) == SelectSeq(T.e, LAMBDA e : e.i = r)

(* The matrix a compressed format stands for, as a set of places.          *)
Cells(M, n) ==
  LET ofColumn(k) == {q \in DOMAIN M.i : M.p[k] <= q /\ q < M.p[k + 1]}
  IN UNION {{<<k, M.i[q], M.x[q]>> : q \in ofColumn(k)} : k \in 0..n-1}

(* Whatever was added, and whichever growth failed on the way, the entries *)
(* fit their arrays, a column holds its entries in the order they came,    *)
(* and a row those of its columns from left to right, none lost or doubled *)
(* (only a matrix without entries is counted to have one); a dense matrix  *)
(* is the same by rows as by columns.                                      *)
ConversionsAgree ==
  /\ made = "triplet" => \A a \in DOMAIN size : Len(T.e) <= size[a] /\ T.nzmax <= size[a]
  /\ made \in {"csc", "csr"} =>
       \A j \in 0..T.n-1 :
         Column(csc, j) = [k \in DOMAIN InColumn(j) |->
                            [i |-> InColumn(j)[k].i, x |-> InColumn(j)[k].x]]
  /\ made = "csr" =>
       /\ csr.nMatElem = Larger(Len(T.e), 1)
       /\ \A r \in 0..T.m-1 :
            /\ \A k \in 1..Len(Column(csr, r)) - 1 : Column(csr, r)[k].i <= Column(csr, r)[k + 1].i
            /\ \A j \in 0..T.n-1 :
                 LET here == SelectSeq(Column(csr, r), LAMBDA e : e.i = j)
                     came == SelectSeq(InRow(r), LAMBDA e : e.j = j)
                 IN [k \in DOMAIN here |-> here[k].x] = [k \in DOMAIN came |-> came[k].x]
  /\ made = "converted" =>
       /\ Cells(csr, T.nRows) = {<<c[2], c[1], c[3]>> : c \in Cells(csc, T.nCols)}
       /\ csr.p[T.nRows] = Cardinality({k \in DOMAIN T.data : T.data[k] # 0})
=============================================================================
