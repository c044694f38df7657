---------------------------- MODULE SolverMemory ----------------------------
(***************************************************************************)
(* The memory of one run of the cupdlp program in its CPU build, from      *)
(* main's first malloc to the return from main: which blocks a run of      *)
(* mps_highs.c allocates, in which order, and what its clean-up frees when *)
(* the run ends early, when an allocation fails, or after the solve.       *)
(*                                                                         *)
(* A block is named by the path of pointers that leads to it: "w",         *)
(* "iterates", "x0", "data" is pdhg->iterates->x[0]->data.  A block of     *)
(* malloc has fields that are unset until they are assigned; freeing or    *)
(* following an unset pointer is undefined, so the run then either goes    *)
(* wrong ("Stray") or, when the memory held zeros, sees NULL.              *)
(***************************************************************************)
EXTENDS Naturals, Sequences, SequencesExt, FiniteSets

VARIABLES
  phase,    \* the call main is in, the clean-up, "Exit", or "Stray"
  at,       \* the next allocation of that call
  ptr,      \* what the pointer to each block holds: "unset", "null", "block"
  freed,    \* how often each block was freed
  stopped,  \* the call that failed or ended the run early, "" if none did
  ifPresolve

vars == <<phase, at, ptr, freed, stopped, ifPresolve>>

-----------------------------------------------------------------------------
(* What each call allocates, in order.  A struct's fields are under it.    *)

Names(path, names) == [k \in DOMAIN names |-> path \o <<names[k]>>]

(* wrapper_highs.cpp: constraint types first, they size the rest.          *)
formulateLP_highs ==
  Names(<< >>, <<"constraint_type", "constraint_new_idx", "cost", "lower", "upper",
                 "csc_beg", "csc_idx", "csc_val", "rhs">>)

Init_Scaling == Names(<<"scaling">>, <<"colScale", "rowScale">>)

(* csc_create and the three arrays that main copies the matrix into.       *)
csc_cpu == <<<<"csc_cpu">>>> \o Names(<<"csc_cpu">>, <<"colMatBeg", "colMatIdx", "colMatElem">>)

problem_alloc ==
  Names(<<"prob">>, <<"data", "cost", "rhs", "lower", "upper", "hasLower", "hasUpper">>)

csc_alloc_matrix(csc) == <<csc>> \o Names(csc, <<"colMatBeg", "colMatIdx", "colMatElem">>)
csr_alloc_matrix(csr) == <<csr>> \o Names(csr, <<"rowMatBeg", "rowMatIdx", "rowMatElem">>)

(* The format asked for is CSR_CSC: both copies, the columns first.        *)
data_alloc == csc_alloc_matrix(<<"prob", "data", "csc_matrix">>)
              \o csr_alloc_matrix(<<"prob", "data", "csr_matrix">>)

resobj_Alloc ==
  Names(<<"w", "resobj">>,
    <<"primalResidual", "dualResidual", "primalResidualAverage", "dualResidualAverage",
      "dSlackPos", "dSlackNeg", "dSlackPosAverage", "dSlackNegAverage", "dLowerFiltered",
      "dUpperFiltered", "primalInfeasRay", "primalInfeasConstr", "primalInfeasBound",
      "dualInfeasRay", "dualInfeasLbRay", "dualInfeasUbRay", "dualInfeasConstr">>)

vec_Alloc(vec) == vec \o <<"data">>

(* Four arrays, then twelve vector structs, then the data of each.         *)
iterates_Alloc ==
  LET vecs == Names(<<"w", "iterates">>,
                <<"x0", "x1", "xAverage", "y0", "y1", "yAverage", "ax0", "ax1", "axAverage",
                  "aty0", "aty1", "atyAverage">>)
  IN Names(<<"w", "iterates">>, <<"xSum", "ySum", "xLastRestart", "yLastRestart">>)
     \o vecs \o [k \in DOMAIN vecs |-> vec_Alloc(vecs[k])]

PDHG_Alloc ==
  Names(<<"w">>, <<"settings", "resobj", "iterates", "stepsize", "timers", "buffer">>)
  \o <<vec_Alloc(<<"w", "buffer">>)>>
  \o Names(<<"w">>, <<"buffer2", "buffer3", "colScale", "rowScale">>)
  \o resobj_Alloc \o iterates_Alloc

solutions(presolved) ==
  Names(<< >>, <<"col_value_org", "col_dual_org", "row_value_org", "row_dual_org">>)
  \o (IF presolved
      THEN Names(<< >>, <<"col_value_pre", "col_dual_pre", "row_value_pre", "row_dual_pre">>)
      ELSE << >>)

PDHG_PostSolve == Names(<< >>, <<"col_buffer", "row_buffer", "col_buffer2">>)

(* The calls of main, and what each allocates.                             *)
Calls == <<"getUserParam", "loadMps", "presolve", "formulateLP", "Init_Scaling", "work",
           "problem_create", "csc_cpu", "PDHG_Scale_Data", "problem_alloc", "data_alloc",
           "PDHG_Alloc", "solutions", "LP_SolvePDHG">>

Allocations(call, presolved) ==
  CASE call = "formulateLP"    -> formulateLP_highs
    [] call = "Init_Scaling"   -> Init_Scaling
    [] call = "work"           -> <<<<"w">>>>
    [] call = "problem_create" -> <<<<"prob">>>>
    [] call = "csc_cpu"        -> csc_cpu
    [] call = "problem_alloc"  -> problem_alloc
    [] call = "data_alloc"     -> data_alloc
    [] call = "PDHG_Alloc"     -> PDHG_Alloc
    [] call = "solutions"      -> solutions(presolved)
    [] call = "LP_SolvePDHG"   -> PDHG_PostSolve
    [] OTHER                   -> << >>

Blocks == {<<"scaling">>} \cup UNION {ToSet(Allocations(Calls[k], TRUE)) : k \in DOMAIN Calls}

(* Fields a call sets to NULL before it allocates any.                     *)
Nulls(call) ==
  CASE call = "Init_Scaling"  -> ToSet(Init_Scaling)
    [] call = "problem_alloc" -> {b \in ToSet(problem_alloc) : Last(b) \notin {"hasLower", "hasUpper"}}
    [] call = "data_alloc"    -> {<<"prob", "data", "csc_matrix">>, <<"prob", "data", "csr_matrix">>}
    [] OTHER                  -> {}
-----------------------------------------------------------------------------
(* What the clean-up functions free: the fields each of them names.        *)

Fields(path, names) == {path \o <<n>> : n \in names}

scaling_clear == {<<"scaling">>} \cup Fields(<<"scaling">>, {"colScale", "rowScale"})

csc_clear(csc) == {csc} \cup Fields(csc, {"colMatBeg", "colMatIdx", "colMatElem"})
csr_clear(csr) == {csr} \cup Fields(csr, {"rowMatBeg", "rowMatIdx", "rowMatElem"})

(* By the format, which is CSR_CSC once data_alloc has run.                *)
data_clear == {<<"prob", "data">>} \cup csr_clear(<<"prob", "data", "csr_matrix">>)
                                   \cup csc_clear(<<"prob", "data", "csc_matrix">>)

problem_clear ==
  {<<"prob">>} \cup data_clear \cup
  Fields(<<"prob">>, {"lower", "upper", "cost", "rhs", "hasLower", "hasUpper"})

vec_clear(vec) == {vec, vec \o <<"data">>}

iterates_clear ==
  LET i == <<"w", "iterates">>
      vecs == Fields(i, {"x0", "x1", "y0", "y1", "xAverage", "yAverage", "ax0", "ax1",
                         "axAverage", "aty0", "aty1", "atyAverage"})
  IN {i} \cup UNION {vec_clear(v) : v \in vecs}
     \cup Fields(i, {"xSum", "ySum", "xLastRestart", "yLastRestart"})

resobj_clear ==
  {<<"w", "resobj">>} \cup
  Fields(<<"w", "resobj">>,
    {"primalResidual", "dualResidual", "primalResidualAverage", "dualResidualAverage",
     "dSlackPos", "dSlackNeg", "dSlackPosAverage", "dSlackNegAverage", "dLowerFiltered",
     "dUpperFiltered", "primalInfeasRay", "primalInfeasConstr", "primalInfeasBound",
     "dualInfeasRay", "dualInfeasLbRay", "dualInfeasUbRay", "dualInfeasConstr"})

PDHG_Clear_WithScaling ==   \* fault: also what w shares with main
  {<<"w">>} \cup scaling_clear \cup vec_clear(<<"w", "buffer">>) \cup iterates_clear
  \cup resobj_clear \cup Fields(<<"w">>, {"colScale", "rowScale", "settings", "stepsize", "timers"})

(* PDHG_Destroy: problem and scaling stay main's; buffer2 and buffer3 are  *)
(* freed in the GPU build only.                                            *)
PDHG_Clear ==
  {<<"w">>} \cup vec_clear(<<"w", "buffer">>) \cup iterates_clear \cup resobj_clear \cup
  Fields(<<"w">>, {"colScale", "rowScale", "settings", "stepsize", "timers"})

(* exit_cleanup of main.                                                   *)
exit_cleanup ==
  scaling_clear \cup csc_clear(<<"csc_cpu">>) \cup problem_clear \cup ToSet(solutions(ifPresolve))
  \cup Fields(<< >>, {"cost", "csc_beg", "csc_idx", "csc_val", "rhs", "lower", "upper",
                      "constraint_new_idx", "constraint_type"})
-----------------------------------------------------------------------------
Init ==
  /\ phase = Calls[1] /\ at = 1
  /\ freed = [b \in Blocks |-> 0]
  /\ ifPresolve \in BOOLEAN
  \* main's own pointers are NULL and w is zeroed; what malloc returns is not.
  /\ \E scaling \in {"block", "null"} :
       /\ stopped = IF scaling = "null" THEN "main" ELSE ""
       /\ ptr = [b \in Blocks |-> IF b = <<"scaling">> THEN scaling
                                 ELSE IF Len(b) = 1 \/ Front(b) = <<"w">> THEN "null" ELSE "unset"]

Pending == at <= Len(Allocations(phase, ifPresolve))
Block == Allocations(phase, ifPresolve)[at]

Goto(call) ==
  /\ phase' = call /\ at' = 1

Holds(b) == \A k \in 1..Len(b) : ptr[SubSeq(b, 1, k)] = "block"

(* What freeing the blocks of S one after another reaches, and the unset   *)
(* pointers it reads on the way.                                           *)
Reached(S) == {b \in S \cap Blocks : Holds(b)}
Unset(S) == {b \in S \cap Blocks : ptr[b] = "unset" /\ Front(b) \in Reached(S)}

Free(S) == freed' = [b \in Blocks |-> freed[b] + (IF b \in Reached(S) THEN 1 ELSE 0)]

InMain == phase \in ToSet(Calls)

(* scaling is not checked, so Init_Scaling may write through NULL; the     *)
(* result of PDHG_Alloc is ignored, so the solver may run on half of w.    *)
Sound == /\ phase = "Init_Scaling" => ptr[<<"scaling">>] = "block"
         /\ phase = "LP_SolvePDHG" => stopped # "PDHG_Alloc"

Allocate ==
  /\ InMain /\ Sound /\ Pending
  /\ ptr' = [ptr EXCEPT ![Block] = "block"]
  /\ at' = at + 1
  /\ UNCHANGED <<phase, freed, stopped, ifPresolve>>

Continue ==
  /\ InMain /\ Sound /\ ~Pending /\ phase # "LP_SolvePDHG"
  /\ \E k \in DOMAIN Calls :
       /\ Calls[k] = phase
       /\ Goto(Calls[k + 1])
       /\ ptr' = [b \in Blocks |-> IF b \in Nulls(Calls[k + 1]) THEN "null" ELSE ptr[b]]
  /\ UNCHANGED <<freed, stopped, ifPresolve>>

(* An allocation fails, a call fails, or presolving settles the model:     *)
(* everywhere but in PDHG_Alloc and in the solver main goes to its clean-up. *)
Stop ==
  /\ InMain /\ Sound
  /\ \/ Pending
     \/ phase \in {"getUserParam", "loadMps", "PDHG_Scale_Data"}
     \/ phase = "presolve" /\ ifPresolve
  /\ phase # "LP_SolvePDHG"
  /\ ptr' = IF Pending THEN [ptr EXCEPT ![Block] = "null"] ELSE ptr
  /\ stopped' = IF stopped = "" THEN phase ELSE stopped
  /\ IF phase = "PDHG_Alloc"
     THEN Goto(IF Holds(<<"w", "rowScale">>) THEN "solutions" ELSE "Stray")
     ELSE Goto("exit_cleanup")
  /\ UNCHANGED <<freed, ifPresolve>>

(* The solver returns, or its post-solve lacks a buffer: it frees those it *)
(* has, and then w.                                                        *)
LP_SolvePDHG ==
  /\ phase = "LP_SolvePDHG" /\ Sound
  /\ Free(ToSet(PDHG_PostSolve) \cup PDHG_Clear)
  /\ stopped' = IF Pending THEN phase ELSE stopped
  /\ Goto("exit_cleanup")
  /\ UNCHANGED <<ptr, ifPresolve>>

Cleanup ==
  /\ phase = "exit_cleanup"
  /\ Free(exit_cleanup)
  /\ Goto("Exit")
  /\ UNCHANGED <<ptr, stopped, ifPresolve>>

(* An unset pointer need not be NULL, and a NULL one is not memory.        *)
GoWrong ==
  /\ \/ phase = "exit_cleanup" /\ Unset(exit_cleanup) # {}
     \/ ~Sound
  /\ Goto("Stray")
  /\ UNCHANGED <<ptr, freed, stopped, ifPresolve>>

Next == Allocate \/ Continue \/ Stop \/ LP_SolvePDHG \/ Cleanup \/ GoWrong

Spec == Init /\ [][Next]_vars
-----------------------------------------------------------------------------
Leaked == {b \in Blocks : Holds(b) /\ freed[b] = 0}

(* The ends at which every pointer the clean-up reads is set: the solver's *)
(* own, and those between the clearing of the scale fields and the making  *)
(* of the problem, or after its arrays.                                    *)
AllSet == {"", "Init_Scaling", "work", "problem_create", "solutions", "LP_SolvePDHG"}

(* Wherever an allocation fails or a run ends early, no block is freed     *)
(* twice; a run that the solver has returned from leaves the two work      *)
(* buffers of the CPU build behind and any other just what it has of w;    *)
(* and an unset pointer is not used after the ends named above.            *)
MemoryIsReturned ==
  /\ \A b \in Blocks : freed[b] <= 1
  /\ phase = "Exit" =>
       Leaked = IF stopped \in {"", "LP_SolvePDHG"}
                THEN {<<"w", "buffer2">>, <<"w", "buffer3">>}
                ELSE {b \in Blocks : b[1] = "w" /\ Holds(b)}
  /\ phase = "Stray" => stopped \notin AllSet

(* What main says of w where it is made ("free inside cuPDLP"): no run     *)
(* comes to its end with memory of the work object still held.             *)
WorkIsFreed == phase = "Exit" => \A b \in Leaked : b[1] # "w"

(* -h and "Solved by HiGHS presolver" are ends main provides for: no       *)
(* allocation has failed, and the clean-up is meant to find only pointers  *)
(* that are NULL or point to memory.                                       *)
OrdinaryEndsAreClean == stopped \in {"getUserParam", "presolve"} => phase # "Stray"
=============================================================================
