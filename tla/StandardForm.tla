---------------------------- MODULE StandardForm ----------------------------
(***************************************************************************)
(* How the HiGHS front end of cuPDLP-C turns a linear program into the     *)
(* form the solver works on, and how the solver's answer is turned back:   *)
(* formulateLP_highs (wrapper_highs.cpp), PDHG_Scale_Data                  *)
(* (cupdlp_scaling.c), csc2csr (cupdlp_utils.c), the residuals and         *)
(* PDHG_PostSolve (cupdlp_solver.c).                                       *)
(*                                                                         *)
(* Rows with two different bounds get a slack column, rows with an upper   *)
(* bound only change sign, and all rows are permuted so that equations     *)
(* come first.  Arrays are functions on 0..n-1 as in C; the entries of a   *)
(* sparse matrix are a sequence, and beg counts the entries before a       *)
(* column (csc) or a row (csr).                                            *)
(*                                                                         *)
(* Costs, right-hand sides and entries of the matrix are counted in units  *)
(* of 1/Unit, so that dividing them by scale factors stays exact.          *)
(***************************************************************************)
EXTENDS Integers, Sequences, FiniteSets, SequencesExt

CONSTANTS
  Models,      \* the programs that HiGHS may hand over
  Infinity,    \* a bound this large in magnitude (1e20) is none
  XValues,     \* the values the solver may return for a column
  YValues,     \* ... and for a row's multiplier, both before scaling
  Unit,        \* the denominator of scaled numbers
  Passes       \* sequences of scaling passes: the factors each computes

(* A program: sense 1 (min) or -1 (max), rows and columns with bounds      *)
(* lo..up, and for each column its entries [idx, val] in any order.  A     *)
(* bound stays one in every scale.                                         *)
HasBounds(b) ==
  /\ b.lo \in Int /\ (b.lo > -Infinity => Unit * b.lo > -Infinity)
  /\ b.up \in Int /\ (b.up < Infinity => Unit * b.up < Infinity)

ASSUME UnitsAssumption == Infinity \in Nat /\ Unit \in Nat \ {0}

ASSUME ModelsAssumption ==
  \A lp \in Models :
    /\ lp.sense \in {1, -1} /\ lp.offset \in Int
    /\ IsFiniteSet(DOMAIN lp.row) /\ DOMAIN lp.row = 0..Cardinality(DOMAIN lp.row)-1
    /\ IsFiniteSet(DOMAIN lp.col) /\ DOMAIN lp.col = 0..Cardinality(DOMAIN lp.col)-1
    /\ \A r \in DOMAIN lp.row : HasBounds(lp.row[r])
    /\ \A j \in DOMAIN lp.col :
         LET c == lp.col[j]
         IN /\ HasBounds(c) /\ c.cost \in Int /\ c.entries \in Seq(ToSet(c.entries))
            /\ \A p \in DOMAIN c.entries :
                 c.entries[p].idx \in DOMAIN lp.row /\ c.entries[p].val \in Int

(* A program that is scaled has a row: with none the L2 and the Pock-      *)
(* Chambolle pass leave every column factor at zero (cupdlp_scaling.c:137  *)
(* and 193), and divide by it.  Otherwise a pass computes a positive       *)
(* factor for every row, column and slack, and numbers counted in units    *)
(* can be divided by all of them in turn.                                  *)
IsPass(f, lp) ==
  LET rows == Cardinality(DOMAIN lp.row)
      cols == Cardinality(DOMAIN lp.col)
  IN /\ rows > 0
     /\ \A r \in 0..rows-1 : f.row[r] \in Nat \ {0}
     /\ \A j \in 0..cols+rows-1 : f.col[j] \in Nat \ {0}

Leaves(left, passes, r, j) ==
  /\ left[0] = Unit
  /\ \A k \in 1..Len(passes) : left[k-1] = left[k] * (passes[k].row[r] * passes[k].col[j])

ASSUME PassesAssumption ==
  \A passes \in Passes :
    /\ passes \in Seq(ToSet(passes))
    /\ \A lp \in Models :
         LET rows == Cardinality(DOMAIN lp.row)
             cols == Cardinality(DOMAIN lp.col)
         IN /\ \A f \in ToSet(passes) : IsPass(f, lp)
            /\ \A r \in 0..rows-1, j \in 0..cols+rows-1 :
                 \E left \in [0..Len(passes) -> {d \in 1..Unit : Unit % d = 0}] :
                   Leaves(left, passes, r, j)

ASSUME ValuesAssumption == XValues \subseteq Int /\ YValues \subseteq Int

VARIABLES
  lp,    \* the program that was loaded
  pc,    \* "Loaded", "Formulated", "Scaled" or "Solved"
  std,   \* what formulateLP_highs, then scaling and csc2csr leave behind
  sol    \* what is judged and what PDHG_PostSolve returns

vars == <<lp, pc, std, sol>>

Nothing == <<>>

-----------------------------------------------------------------------------
Rows == DOMAIN lp.row
Cols == DOMAIN lp.col
nRows == Cardinality(Rows)
nColsOrigin == Cardinality(Cols)

(* constraint_type.  A row without any bound is treated as BOUND.          *)
constraint_type(i) ==
  LET has_lower == lp.row[i].lo > -Infinity
      has_upper == lp.row[i].up < Infinity
  IN IF has_lower /\ has_upper /\ lp.row[i].lo = lp.row[i].up THEN "EQ"
     ELSE IF has_lower /\ ~has_upper THEN "GEQ"
     ELSE IF has_upper /\ ~has_lower THEN "LEQ"
     ELSE "BOUND"

OfType(types) == {i \in Rows : constraint_type(i) \in types}

Rank(i, S) == Cardinality({k \in S : k < i})

nEqs_EqOnly == Cardinality(OfType({"EQ"}))   \* fault: BOUND rows not counted
nEqs == Cardinality(OfType({"EQ", "BOUND"}))
nCols == nColsOrigin + Cardinality(OfType({"BOUND"}))

(* The column of row i's slack, for a BOUND row i.                         *)
Slack(i) == nColsOrigin + Rank(i, OfType({"BOUND"}))

(* EQ and BOUND rows first, then LEQ and GEQ, each in their order.         *)
constraint_new_idx(i) ==
  IF i \in OfType({"EQ", "BOUND"}) THEN Rank(i, OfType({"EQ", "BOUND"}))
  ELSE nEqs + Rank(i, OfType({"LEQ", "GEQ"}))

Sign_Kept(i) == 1    \* fault: LEQ rows are not multiplied by -1
Sign(i) == IF constraint_type(i) = "LEQ" THEN -1 ELSE 1

rhs_UpperKept(i) ==    \* fault: the bound of a LEQ row is not negated
  IF constraint_type(i) = "LEQ" THEN lp.row[i].up
  ELSE IF constraint_type(i) = "BOUND" THEN 0 ELSE lp.row[i].lo

rhs(i) ==
  CASE constraint_type(i) = "EQ"    -> lp.row[i].lo
    [] constraint_type(i) = "BOUND" -> 0
    [] constraint_type(i) = "LEQ"   -> -lp.row[i].up
    [] constraint_type(i) = "GEQ"   -> lp.row[i].lo

(* The members of the finite set E in order: R holds the pairs <<e, f>>    *)
(* where e comes before f.                                                 *)
InOrder(E, R) ==
  [k \in 1..Cardinality(E) |->
    CHOOSE e \in E : Cardinality({f \in E : <<f, e>> \in R}) = k - 1]

(* The entries of the new matrix by column and place in it: those of the   *)
(* program, with their new row and sign, and one for every slack.          *)
SlackRow(j) == CHOOSE i \in OfType({"BOUND"}) : Slack(i) = j

Nonzeros == (UNION {{j} \X (DOMAIN lp.col[j].entries) : j \in Cols})
            \cup ((nColsOrigin..nCols-1) \X {1})

Entry(e) ==
  IF e[1] \in Cols
  THEN LET old == lp.col[e[1]].entries[e[2]]
       IN [idx |-> constraint_new_idx(old.idx), val |-> Unit * Sign(old.idx) * old.val]
  ELSE [idx |-> constraint_new_idx(SlackRow(e[1])), val |-> -Unit]

(* Column by column, equations before inequalities, each in its order.     *)
CscOrder ==
  LET ineq(e) == Entry(e).idx >= nEqs
  IN {q \in Nonzeros \X Nonzeros :
       LET e == q[1]  f == q[2]
       IN \/ e[1] < f[1]
          \/ e[1] = f[1] /\ ~ineq(e) /\ ineq(f)
          \/ e[1] = f[1] /\ (ineq(e) <=> ineq(f)) /\ e[2] < f[2]}

(* How many entries the columns before j have: A_csc_beg[j], then one more *)
(* for each slack.                                                         *)
csc_beg(j) == Cardinality({e \in Nonzeros : e[1] < j})

csc == LET order == InOrder(Nonzeros, CscOrder)
       IN [beg  |-> [j \in 0..nCols |-> csc_beg(j)],
           elem |-> [k \in DOMAIN order |-> Entry(order[k])]]

(* The column an entry is in, and cupdlp_dcs_transpose, a counting sort:   *)
(* row by row, the entries of a row in the order of the columns.           *)
Major(m) ==
  [p \in DOMAIN m.elem |-> CHOOSE k \in DOMAIN m.beg : m.beg[k] < p /\ p <= m.beg[k + 1]]

RowOrder(m) ==
  LET row(p) == m.elem[p].idx
  IN {q \in (DOMAIN m.elem) \X (DOMAIN m.elem) :
       \/ row(q[1]) < row(q[2])
       \/ row(q[1]) = row(q[2]) /\ q[1] < q[2]}

transpose(m, rows) ==
  LET major == Major(m)
      order == InOrder(DOMAIN m.elem, RowOrder(m))
  IN [beg  |-> [r \in 0..rows |-> Cardinality({p \in DOMAIN m.elem : m.elem[p].idx < r})],
      elem |-> [k \in DOMAIN order |->
                 [idx |-> major[order[k]], val |-> m.elem[order[k]].val]]]

Init ==
  /\ lp \in Models
  /\ pc = "Loaded"
  /\ std = Nothing
  /\ sol = Nothing

(* The columns keep their cost (times sense) and bounds; a slack costs     *)
(* nothing and has the bounds of its row.  Init_Scaling: all factors are 1.*)
Formulate ==
  /\ pc = "Loaded"
  /\ pc' = "Formulated"
  /\ LET slack(j) == lp.row[SlackRow(j)]
         old(j) == j \in Cols
         new == [i \in Rows |-> constraint_new_idx(i)]
     IN std' =
          [nEqs  |-> nEqs,
           type  |-> [i \in Rows |-> constraint_type(i)],
           new   |-> new,
           slack |-> [i \in Rows |-> Slack(i)],
           cost  |-> [j \in 0..nCols-1 |->
                       IF old(j) THEN Unit * lp.sense * lp.col[j].cost ELSE 0],
           lower |-> [j \in 0..nCols-1 |-> IF old(j) THEN lp.col[j].lo ELSE slack(j).lo],
           upper |-> [j \in 0..nCols-1 |-> IF old(j) THEN lp.col[j].up ELSE slack(j).up],
           rhs   |-> [r \in {new[i] : i \in Rows} |->
                       Unit * rhs(CHOOSE i \in Rows : new[i] = r)],
           csc   |-> csc,
           colScale |-> [j \in 0..nCols-1 |-> 1],
           rowScale |-> [r \in 0..nRows-1 |-> 1],
           csr      |-> Nothing,
           ifScaled |-> FALSE]
  /\ UNCHANGED <<lp, sol>>

-----------------------------------------------------------------------------
(* The factors that a pass (Ruiz, L2 or Pock-Chambolle) computes from the  *)
(* matrix are left open, except that an empty column or row keeps its      *)
(* scale.                                                                  *)
Factors(p, f) ==
  LET major == Major(p.csc)
      used  == {major[k] : k \in DOMAIN major}
      hit   == {p.csc.elem[k].idx : k \in DOMAIN p.csc.elem}
  IN [col |-> [j \in DOMAIN p.cost |-> IF j \in used THEN f.col[j] ELSE 1],
      row |-> [r \in DOMAIN p.rhs |-> IF r \in hit THEN f.row[r] ELSE 1]]

(* One pass: divide, multiply, and remember the factors.                   *)
scale_problem(p, f) ==
  LET col == Factors(p, f).col
      row == Factors(p, f).row
      major == Major(p.csc)
      divided(k) ==
        LET e == p.csc.elem[k]
        IN [idx |-> e.idx, val |-> (e.val \div row[e.idx]) \div col[major[k]]]
  IN [p EXCEPT
       !.cost  = [j \in DOMAIN @ |-> @[j] \div col[j]],
       !.lower = [j \in DOMAIN @ |-> @[j] * col[j]],
       !.upper = [j \in DOMAIN @ |-> @[j] * col[j]],
       !.rhs   = [r \in DOMAIN @ |-> @[r] \div row[r]],
       !.csc = [beg |-> @.beg, elem |-> [k \in DOMAIN @.elem |-> divided(k)]],
       !.colScale = [j \in DOMAIN @ |-> @[j] * col[j]],
       !.rowScale = [r \in DOMAIN @ |-> @[r] * row[r]]]

(* PDHG_Scale_Data, then problem_alloc, which transposes what was scaled.  *)
(* ifScaled is set by a pass only: without one it is what malloc left.     *)
Scale(passes, ifScaled) ==
  LET scaled == FoldLeft(scale_problem, std, passes)
  IN  /\ pc = "Formulated"
      /\ pc' = "Scaled"
      /\ passes # <<>> => ifScaled
      /\ std' = [scaled EXCEPT !.csr = transpose(scaled.csc, nRows), !.ifScaled = ifScaled]
      /\ UNCHANGED <<lp, sol>>

-----------------------------------------------------------------------------
(* AxCPU scatters the columns of csc, ATyCPU the rows of csr.              *)
Scatter(m, v, n) ==
  LET major == Major(m)
      term(p) == m.elem[p].val * v[major[p]]
  IN [r \in 0..n-1 |-> MapThenSumSet(term, {p \in DOMAIN m.elem : m.elem[p].idx = r})]

Ax(x)  == Scatter(std.csc, x, nRows)
ATy(y) == Scatter(std.csr, y, nCols)

Dot(f, g) == SumFunction([k \in DOMAIN f |-> f[k] * g[k]])

(* PDHG_Compute_Primal_Feasibility: what ax lacks or exceeds, brought back *)
(* to the rows as they were before scaling.                                *)
Unscaled_NotAtAll(v, scale) == v   \* fault
Unscaled(v, scale) == [k \in DOMAIN v |-> IF std.ifScaled THEN v[k] * scale[k] ELSE v[k]]

PrimalResidual(x) ==
  LET ax == Ax(x)
      over(r) == ax[r] - std.rhs[r]
  IN Unscaled([r \in DOMAIN ax |->
                 IF r >= std.nEqs /\ over(r) > 0 THEN 0 ELSE over(r)], std.rowScale)

PrimalFeasible(x) == \A r \in DOMAIN std.rhs : PrimalResidual(x)[r] = 0

hasLower(j) == std.lower[j] > -Infinity
hasUpper(j) == std.upper[j] < Infinity

(* The iterates that the solver's projections leave possible.              *)
InBounds(x) ==
  \A j \in DOMAIN x :
    (hasLower(j) => std.lower[j] <= x[j]) /\ (hasUpper(j) => x[j] <= std.upper[j])
InCone(y)   == \A r \in DOMAIN y : r >= std.nEqs => y[r] >= 0

(* How PDHG_PostSolve un-permutes the rows: ax, x and y are unscaled.      *)
RowValue_FirstSlack(i, ax, x) ==      \* fault: the slack counter never advances
  CASE std.type[i] = "LEQ"   -> -ax[std.new[i]]
    [] std.type[i] = "BOUND" -> ax[std.new[i]] + Unit * x[nColsOrigin]
    [] OTHER -> ax[std.new[i]]

RowValue(i, ax, x) ==
  CASE std.type[i] = "LEQ"   -> -ax[std.new[i]]
    [] std.type[i] = "BOUND" -> ax[std.new[i]] + Unit * x[std.slack[i]]
    [] OTHER -> ax[std.new[i]]

RowDual_SenseOnly(i, y) == lp.sense * y[std.new[i]]  \* fault
RowDual(i, y) == (IF std.type[i] = "LEQ" THEN -1 ELSE 1) * lp.sense * y[std.new[i]]

(* PDHG_Compute_Dual_Feasibility: what the multipliers leave of the costs  *)
(* is put down to the bounds of the columns, as far as they have bounds.   *)
DualSide(y) ==
  LET aty == ATy(y)
      reduced == [j \in DOMAIN std.cost |-> std.cost[j] - aty[j]]
      slackPos == [j \in DOMAIN std.cost |->
                    IF reduced[j] > 0 /\ hasLower(j) THEN reduced[j] ELSE 0]
      slackNeg == [j \in DOMAIN std.cost |->
                    IF reduced[j] < 0 /\ hasUpper(j) THEN -reduced[j] ELSE 0]
      dLowerFiltered == [j \in DOMAIN std.cost |-> IF hasLower(j) THEN std.lower[j] ELSE 0]
      dUpperFiltered == [j \in DOMAIN std.cost |-> IF hasUpper(j) THEN std.upper[j] ELSE 0]
  IN [slackPos |-> slackPos,
      slackNeg |-> slackNeg,
      residual |-> Unscaled([j \in DOMAIN std.cost |->
                     reduced[j] - slackPos[j] + slackNeg[j]], std.colScale),
      obj      |-> Unit * lp.offset + lp.sense * (Dot(std.rhs, y)
                     + Dot(slackPos, dLowerFiltered) - Dot(slackNeg, dUpperFiltered))]

(* What is judged of x and y, and PDHG_PostSolve of them: x and y are      *)
(* divided by the scale factors, ax and the slacks multiplied by them.     *)
Divided(v, scale) ==
  [k \in DOMAIN v |-> IF std.ifScaled THEN v[k] \div scale[k] ELSE v[k]]

PostSolve(x, y) ==
  LET dual == DualSide(y)
      x0 == Divided(x, std.colScale)
      y0 == Divided(y, std.rowScale)
      ax == Unscaled(Ax(x), std.rowScale)
      slackPos == Unscaled(dual.slackPos, std.colScale)
      slackNeg == Unscaled(dual.slackNeg, std.colScale)
  IN [primalResidual |-> PrimalResidual(x),
      dualResidual   |-> dual.residual,
      dualObj   |-> dual.obj,
      slack     |-> [i \in Rows |-> IF std.type[i] = "BOUND" THEN x0[std.slack[i]] ELSE 0],
      col_value |-> [j \in Cols |-> x0[j]],
      row_value |-> [i \in Rows |-> RowValue(i, ax, x0)],
      col_dual  |-> [j \in Cols |-> lp.sense * (slackPos[j] - slackNeg[j])],
      row_dual  |-> [i \in Rows |-> RowDual(i, y0)]]

(* PDHG_Solve returns some point within the scaled bounds and cone.        *)
Solve ==
  /\ pc = "Scaled"
  /\ pc' = "Solved"
  /\ \E x0 \in [DOMAIN std.cost -> XValues], y0 \in [DOMAIN std.rhs -> YValues] :
       LET x == [j \in DOMAIN x0 |-> x0[j] * std.colScale[j]]
           y == [r \in DOMAIN y0 |-> y0[r] * std.rowScale[r]]
       IN InBounds(x) /\ InCone(y) /\ sol' = PostSolve(x, y)
  /\ UNCHANGED <<lp, std>>

Next ==
  \/ Formulate
  \/ \E passes \in Passes, ifScaled \in BOOLEAN : Scale(passes, ifScaled)
  \/ Solve

Spec == Init /\ [][Next]_vars

-----------------------------------------------------------------------------
(* The program itself, for comparison: the value of row i at x, the        *)
(* coefficient of column j in row i, and the points that satisfy it.       *)
Coefficient(i, j) ==
  LET e == lp.col[j].entries
      val(p) == e[p].val
  IN MapThenSumSet(val, {p \in DOMAIN e : e[p].idx = i})

Activity(i, x) == SumFunction([j \in Cols |-> Coefficient(i, j) * x[j]])

Within(v, b) == (b.lo > -Infinity => b.lo <= v) /\ (b.up < Infinity => v <= b.up)

Satisfies(x) ==
  /\ \A j \in Cols : Within(x[j], lp.col[j])
  /\ \A i \in Rows : Within(Activity(i, x), lp.row[i])

(* The point x with its slacks, in the solver's scale.                     *)
WithSlacks(x) ==
  [j \in DOMAIN std.cost |->
    std.colScale[j] * IF j \in Cols THEN x[j] ELSE Activity(SlackRow(j), x)]

(* Every row has a place of its own, equations and rows with slacks before *)
(* the others and each kind in the order it had; the slacks follow the     *)
(* columns of the program, one for each BOUND row.                         *)
RowsPlaced ==
  LET first(r) == std.type[r] \in {"EQ", "BOUND"}
      bound == {r \in Rows : std.type[r] = "BOUND"}
  IN /\ {std.new[r] : r \in Rows} = 0..nRows-1
     /\ \A r, s \in Rows : r # s => std.new[r] # std.new[s]
     /\ \A r \in Rows : first(r) <=> std.new[r] < std.nEqs
     /\ \A r, s \in Rows : r < s /\ (first(r) <=> first(s)) => std.new[r] < std.new[s]
     /\ {std.slack[r] : r \in bound} = nColsOrigin..nCols-1
     /\ \A r, s \in bound : r # s => std.slack[r] # std.slack[s]

(* Type invariant, and the shape of the arrays: the permutation of the     *)
(* rows is one, and the two sparse matrices have the same entries, each    *)
(* counted by beg.                                                         *)
TypeOK ==
  /\ pc \in {"Loaded", "Formulated", "Scaled", "Solved"}
  /\ pc # "Loaded" =>
       /\ RowsPlaced
       /\ DOMAIN std.rhs = 0..nRows-1
       /\ std.csc.beg[nCols] = Len(std.csc.elem)
  /\ pc \in {"Scaled", "Solved"} =>
       /\ std.csr.beg[nRows] = Len(std.csr.elem)
       /\ Len(std.csc.elem) = Len(std.csr.elem)

IsZero(v) == \A k \in DOMAIN v : v[k] = 0

(* What PDHG_PostSolve returns lies within the columns' bounds.            *)
WithinBounds == \A j \in Cols : Within(sol.col_value[j], lp.col[j])

(* The row duals push the way their rows allow: an inequality is not       *)
(* relaxed by pushing it further.                                          *)
DualsOnTheirSide ==
  \A i \in Rows :
    /\ constraint_type(i) = "GEQ" => lp.sense * sol.row_dual[i] >= 0
    /\ constraint_type(i) = "LEQ" => lp.sense * sol.row_dual[i] <= 0

(* No point of the program is lost and none is added: a point that         *)
(* satisfies the program satisfies the standard form together with its     *)
(* slacks; what is returned is within its bounds, and without residual it  *)
(* satisfies the program.                                                  *)
SamePoints ==
  /\ pc = "Scaled" => \A x \in [Cols -> XValues] : Satisfies(x) =>
       InBounds(WithSlacks(x)) /\ PrimalFeasible(WithSlacks(x))
  /\ pc = "Solved" =>
       WithinBounds /\ (IsZero(sol.primalResidual) => Satisfies(sol.col_value))

(* The row values returned are those of the returned point, row by row of  *)
(* the program that was loaded, also when the solver's slacks are off.     *)
RowValuesReturned ==
  pc = "Solved" => \A i \in Rows : sol.row_value[i] = Unit * Activity(i, sol.col_value)

(* What the row duals returned leave of column j's cost.                   *)
Unexplained(j) ==
  Unit * lp.col[j].cost - SumFunction([i \in Rows |-> Unit * Coefficient(i, j) * sol.row_dual[i]])

(* The duals returned fit the program that was loaded: the reduced cost of *)
(* a column with two bounds is its cost less what the row duals explain,   *)
(* and a row's dual has the sign that its bounds allow.                    *)
DualsReturned ==
  pc = "Solved" =>
    /\ \A j \in Cols : -Infinity < lp.col[j].lo /\ lp.col[j].up < Infinity =>
         sol.col_dual[j] = Unexplained(j)
    /\ DualsOnTheirSide

(* Weak duality across the translation: the dual objective the solver      *)
(* reports bounds the program's own objective at every point of it.        *)
DualObjectiveBounds ==
  pc = "Solved" /\ IsZero(sol.dualResidual) =>
    \A x \in [Cols -> XValues] : Satisfies(x) =>
      lp.sense * sol.dualObj <= Unit * lp.sense *
        (lp.offset + SumFunction([j \in Cols |-> lp.col[j].cost * x[j]]))

(* The residuals that the tolerances are compared with are those of the    *)
(* point and the duals that are returned, in the units of the program that *)
(* was loaded, whatever passes scaled the data: by how much a row is       *)
(* violated (or its value differs from its slack), and what is left of a   *)
(* column's cost.                                                          *)
Violation(i) ==
  LET a == Activity(i, sol.col_value)
  IN CASE std.type[i] = "EQ"    -> a - lp.row[i].lo
       [] std.type[i] = "BOUND" -> a - sol.slack[i]
       [] std.type[i] = "LEQ"   -> IF a > lp.row[i].up THEN lp.row[i].up - a ELSE 0
       [] std.type[i] = "GEQ"   -> IF a < lp.row[i].lo THEN a - lp.row[i].lo ELSE 0

JudgedUnscaled ==
  pc = "Solved" =>
    /\ \A i \in Rows : sol.primalResidual[std.new[i]] = Unit * Violation(i)
    /\ \A j \in Cols : sol.dualResidual[j] = lp.sense * (Unexplained(j) - sol.col_dual[j])
=============================================================================
