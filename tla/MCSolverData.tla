---------------------------- MODULE MCSolverData ----------------------------
(***************************************************************************)
(* The parts of the solver program, checked in one run: the initial state  *)
(* chooses which of them runs, and the variables of the others stay as     *)
(* they are.                                                               *)
(***************************************************************************)
EXTENDS SolverInput, MpsFiles, SolverLoop

VARIABLES
  unit,                                                     \* the part that runs
  phase, mAt, ptr, freed, stopped, ifPresolve,              \* SolverMemory
  made, T, size, cscOf, csrOf,                              \* SparseFormats
  file, rPc, rAt, n, row, col, added, rowSenses, rowRHS, objname, colObj, colMat, ub, out, junk
                                                            \* MpsReader

memoryVars == <<phase, mAt, ptr, freed, stopped, ifPresolve>>
sparseVars == <<made, T, size, cscOf, csrOf>>
mpsVars    == <<file, rPc, rAt, n, row, col, added, rowSenses, rowRHS, objname, colObj, colMat,
                ub, out, junk>>
-----------------------------------------------------------------------------
(* Programs of three rows, each of every kind of bounds (only the second   *)
(* may have none), over two matrices of two columns whose entries are not  *)
(* in row order.  The second column has no lower bound.  The solver may    *)
(* return any of the values Xs and Ys that its projections allow.          *)
E(idx, v) == [idx |-> idx, val |-> v]

Col(cost, lo, up, entries) == [cost |-> cost, lo |-> lo, up |-> up, entries |-> entries]

Entries ==
  [full  |-> <<  <<E(0, 1), E(1, 2), E(2, -1)>>, <<E(2, 1), E(0, -1)>>  >>,
   empty |-> <<  << >>, <<E(2, 1), E(1, 3)>>  >>]

Inf == 1000
Xs == {0, 1}
Ys == {-1, 1}

Free == [lo |-> -Inf, up |-> Inf]
Bounds ==
  {[lo |-> 1, up |-> 1], [lo |-> -Inf, up |-> 1], [lo |-> 0, up |-> Inf], [lo |-> 0, up |-> 1]}
RowBounds == {b \in [0..2 -> Bounds \cup {Free}] : b[0] # Free /\ b[2] # Free}

Model(sense, bounds, m) ==
  [sense |-> sense, offset |-> 3, row |-> bounds,
   col |-> [j \in 0..1 |-> IF j = 0 THEN Col(1, 0, 1, Entries[m][1])
                                    ELSE Col(-2, -Inf, 1, Entries[m][2])]]

MCModels == {Model(1, b, m) : b \in RowBounds, m \in DOMAIN Entries}
            \cup {Model(-1, b, "full") : b \in RowBounds}

(* No scaling; two passes that scale even and odd rows and columns.        *)
Every(even, odd) == [k \in 0..4 |-> IF k % 2 = 0 THEN even ELSE odd]
MCPasses ==
  {<<>>, <<[col |-> Every(1, 2), row |-> Every(2, 1)], [col |-> Every(2, 2), row |-> Every(1, 2)]>>}
-----------------------------------------------------------------------------
Memory == INSTANCE SolverMemory WITH at <- mAt

(* Command lines of up to four words: flags that both readers, one of them *)
(* or neither knows, and numbers; any word may stand where a value should. *)
Words == {"-h", "-ifPre", "-ifScaling", "-dTimeLim", "-out", "0", "1"}
Lines == UNION {[1..k -> Words] : k \in 0..4}
Num   == [w \in {"0", "1"} |-> IF w = "0" THEN 0 ELSE 1]

(* Three entries, some in a place taken or outside the shape so far, some  *)
(* refused; and all dense 2 x 3 matrices of zeros and sevens.              *)
Triplets == [i : {0, 2}, j : 0..2, x : {1, 2}] \cup {[i |-> -1, j |-> 0, x |-> 1]}
SomeShapes == {[m |-> 0, n |-> 0, nzmax |-> 0], [m |-> 3, n |-> 2, nzmax |-> 2]}
DenseOnes == {[nRows |-> 2, nCols |-> 3, data |-> d] : d \in [0..5 -> {0, 7}]}

Sparse == INSTANCE SparseFormats WITH
            Entries <- Triplets, Shapes <- SomeShapes, Matrices <- DenseOnes, MaxEntries <- 3,
            csc <- cscOf, csr <- csrOf
-----------------------------------------------------------------------------
Mps == INSTANCE MpsReader WITH
         Files <- MCFiles, Infinite <- 99, Garbage <- 7, JunkSets <- MCJunk, pc <- rPc, at <- rAt
-----------------------------------------------------------------------------
AFile == CHOOSE f \in MCFiles : TRUE

Only(part, initially) == IF unit = part THEN TRUE ELSE initially

UnitsInit ==
  /\ unit \in {"standard_form", "memory", "params", "sparse", "mps", "pdhg"}
  /\ Only("standard_form", lp = Model(1, [r \in 0..2 |-> [lo |-> 1, up |-> 1]], "full"))
  /\ Only("params", argv = << >>)
  /\ Only("mps", file = AFile /\ junk = {})
  /\ Only("memory", ifPresolve = FALSE)
  /\ Only("sparse", made = "triplet")
  /\ Init /\ Memory!Init /\ User!Init /\ Sparse!Init /\ Mps!Init /\ Loop!Init
  /\ unit # "memory" => ptr[<<"scaling">>] = "null"
  /\ unit # "sparse" => T.m = 0

UnitsNext ==
  /\ UNCHANGED unit
  /\ IF unit = "standard_form" THEN Next ELSE UNCHANGED vars
  /\ IF unit = "memory" THEN Memory!Next ELSE UNCHANGED memoryVars
  /\ IF unit = "params" THEN User!Next ELSE UNCHANGED paramVars
  /\ IF unit = "sparse" THEN Sparse!Next ELSE UNCHANGED sparseVars
  /\ IF unit = "mps" THEN Mps!Next ELSE UNCHANGED mpsVars
  /\ IF unit = "pdhg" THEN Loop!Next ELSE UNCHANGED loopVars

UnitsSpec ==
  /\ UnitsInit
  /\ [][UnitsNext]_<<unit, vars, memoryVars, paramVars, sparseVars, mpsVars, loopVars>>
  /\ unit = "pdhg" => Loop!Fairness

(* See SolverMemory, SparseFormats and MpsReader: no block is freed twice  *)
(* or lost; the sparse formats hold the same matrix; an accepted file is   *)
(* returned as meant.  (SolvesAsAsked is in SolverInput.)                  *)
MemoryIsReturned   == Memory!MemoryIsReturned
ConversionsAgree   == Sparse!ConversionsAgree
ReadsWhatIsWritten == Mps!ReadsWhatIsWritten

(* See PdhgSolve: the loop ends, however often a step is rejected.         *)
LoopTerminates == unit = "pdhg" => Loop!Terminates
=============================================================================
