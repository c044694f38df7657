----------------------------- MODULE UserParams -----------------------------
(***************************************************************************)
(* The command line of the cupdlp program: main (mps_highs.c) reads it     *)
(* once itself and once through getUserParam, scales the data by what it   *)
(* read, and hands the parameters to PDHG_SetUserParam (cupdlp_utils.c),   *)
(* which the solver and its report go by.                                  *)
(*                                                                         *)
(* Both readers look at every word but the last as if it were a flag and   *)
(* at the word behind it as its value, so the value of one flag may itself *)
(* be read as a flag.                                                      *)
(***************************************************************************)
EXTENDS Integers, Sequences, SequencesExt, FiniteSetsExt

CONSTANTS
  CommandLines,  \* the words behind the program's name
  Numeral        \* the words that are numbers, and what atoi makes of them

VARIABLES
  argv,     \* the command line
  pc,       \* "main", "getUserParam", "Init_Scaling", "LP_SolvePDHG", "Solving", "Usage"
  i,        \* the word both readers stop at in turn
  mine,     \* what main itself read: file names, and whether to presolve
  change,   \* ifChangeIntParam and ifChangeFloatParam
  param,    \* intParam and floatParam
  scaling,  \* main's ifScaling and the scaling object it shares with the solver
  scaled,   \* what scaling was when the data was scaled
  work      \* the parameters in the solver's work object

vars == <<argv, pc, i, mine, change, param, scaling, scaled, work>>

Atoi(word) == IF word \in DOMAIN Numeral THEN Numeral[word] ELSE 0

(* Flags of getUserParam and the parameter each sets.                      *)
Flag ==
  [N_ITER_LIM |-> "-nIterLim", IF_SCALING |-> "-ifScaling",
   I_SCALING_METHOD |-> "-iScalingMethod", E_LINE_SEARCH_METHOD |-> "-eLineSearchMethod",
   E_RESTART_METHOD |-> "-eRestartMethod", IF_RUIZ_SCALING |-> "-ifRuizScaling",
   IF_L2_SCALING |-> "-ifL2Scaling", IF_PC_SCALING |-> "-ifPcScaling",
   N_LOG_INTERVAL |-> "-nLogInt", IF_PRESOLVE |-> "-ifPre",
   D_SCALING_LIMIT |-> "-dScalingLimit", D_PRIMAL_TOL |-> "-dPrimalTol",
   D_DUAL_TOL |-> "-dDualTol", D_GAP_TOL |-> "-dGapTol", D_FEAS_TOL |-> "-dFeasTol",
   D_TIME_LIM |-> "-dTimeLim"]

Params == DOMAIN Flag

(* What Init_Scaling and main start from, and the flags whose parameters   *)
(* are in the scaling object.                                              *)
ScalingDefault ==
  [IF_SCALING |-> 1, IF_RUIZ_SCALING |-> 1, IF_L2_SCALING |-> 0, IF_PC_SCALING |-> 1]
Shared == {"IF_RUIZ_SCALING", "IF_L2_SCALING", "IF_PC_SCALING"}

(* settings_Alloc scales; the other defaults are all alike here, a number  *)
(* that no command line asks for.                                          *)
WorkDefault ==
  [p \in Params \ (Shared \cup {"IF_PRESOLVE"}) |-> IF p = "IF_SCALING" THEN 1 ELSE -1]

-----------------------------------------------------------------------------
Init ==
  /\ argv \in CommandLines
  /\ pc = "main" /\ i = 1
  /\ mine = [fname |-> "", out |-> "", savesol |-> 0, ifPresolve |-> 0, outSol |-> ""]
  /\ change = [p \in Params |-> FALSE]
  /\ param = [p \in Params |-> 0]
  /\ scaling = ScalingDefault /\ scaled = << >>
  /\ work = WorkDefault

HasValue == i < Len(argv)
Value == argv[i + 1]

(* main's loop; -h ends it, and getUserParam will then refuse to go on.    *)
ReadOwn ==
  /\ pc = "main" /\ HasValue /\ argv[i] # "-h"
  /\ mine' = CASE argv[i] = "-fname"   -> [mine EXCEPT !.fname = Value]
               [] argv[i] = "-out"     -> [mine EXCEPT !.out = Value]
               [] argv[i] = "-savesol" -> [mine EXCEPT !.savesol = Atoi(Value)]
               [] argv[i] = "-ifPre"   -> [mine EXCEPT !.ifPresolve = Atoi(Value)]
               [] argv[i] = "-outSol"  -> [mine EXCEPT !.outSol = Value]
               [] OTHER                -> mine
  /\ i' = i + 1
  /\ UNCHANGED <<argv, pc, change, param, scaling, scaled, work>>

OwnRead ==
  /\ pc = "main" /\ (HasValue => argv[i] = "-h")
  /\ pc' = "getUserParam" /\ i' = 1
  /\ UNCHANGED <<argv, mine, change, param, scaling, scaled, work>>

getUserParam ==
  /\ pc = "getUserParam" /\ HasValue /\ argv[i] # "-h"
  /\ change' = [p \in Params |-> Flag[p] = argv[i] \/ change[p]]
  /\ param' = [p \in Params |-> IF Flag[p] = argv[i] THEN Atoi(Value) ELSE param[p]]
  /\ i' = i + 1
  /\ UNCHANGED <<argv, pc, mine, scaling, scaled, work>>

(* -h anywhere, the last word included, ends the run.                      *)
Usage ==
  /\ pc = "getUserParam" /\ i <= Len(argv) /\ argv[i] = "-h"
  /\ pc' = "Usage"
  /\ UNCHANGED <<argv, i, mine, change, param, scaling, scaled, work>>

Given_Always(default, p) == param[p]   \* fault: the ifChange flag is not consulted

Given(default, p) == IF change[p] THEN param[p] ELSE default

ParamsRead ==
  /\ pc = "getUserParam" /\ ~HasValue /\ (i <= Len(argv) => argv[i] # "-h")
  /\ pc' = "Init_Scaling"
  /\ mine' = [mine EXCEPT !.ifPresolve = Given(@, "IF_PRESOLVE")]
  /\ UNCHANGED <<argv, i, change, param, scaling, scaled, work>>

(* main: the data is scaled by what was read.                              *)
ScaleData ==
  /\ pc = "Init_Scaling"
  /\ pc' = "LP_SolvePDHG"
  /\ scaling' = [p \in DOMAIN scaling |-> Given(scaling[p], p)]
  /\ scaled' = scaling'
  /\ UNCHANGED <<argv, i, mine, change, param, work>>

(* settings_, stepsize_, resobj_ and scaling_SetUserParam.                 *)
PDHG_SetUserParam ==
  /\ pc = "LP_SolvePDHG"
  /\ pc' = "Solving"
  /\ work' = [p \in DOMAIN work |-> Given(work[p], p)]
  /\ scaling' = [p \in DOMAIN scaling |-> IF p \in Shared THEN Given(scaling[p], p) ELSE scaling[p]]
  /\ UNCHANGED <<argv, i, mine, change, param, scaled>>

Next == ReadOwn \/ OwnRead \/ getUserParam \/ Usage \/ ParamsRead \/ ScaleData
        \/ PDHG_SetUserParam

Spec == Init /\ [][Next]_vars
-----------------------------------------------------------------------------
(* What a command line asks of a parameter: the word behind the last place *)
(* its flag stands, and its default when the flag stands nowhere.          *)
Places(p) == {k \in 1..Len(argv) - 1 : argv[k] = Flag[p]}
Asked(default, p) == IF Places(p) = {} THEN default ELSE Atoi(argv[Max(Places(p)) + 1])

(* A run that is not refused solves with what was asked for: the two       *)
(* readers of the command line agree on presolving, and what the solver    *)
(* goes by and reports is what the data was scaled by before.              *)
SolvesAsAsked ==
  pc = "Solving" =>
    /\ "-h" \notin ToSet(argv)
    /\ mine.ifPresolve = Asked(0, "IF_PRESOLVE")
    /\ scaling = [p \in DOMAIN scaling |-> Asked(ScalingDefault[p], p)]
    /\ work = [p \in DOMAIN work |-> Asked(WorkDefault[p], p)]
    /\ scaled = [scaling EXCEPT !.IF_SCALING = work.IF_SCALING]
=============================================================================
