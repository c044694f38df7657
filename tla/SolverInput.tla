----------------------------- MODULE SolverInput -----------------------------
(***************************************************************************)
(* What the solver program is given: the program to solve, which it brings *)
(* into standard form, and its command line, which is read twice.          *)
(***************************************************************************)
EXTENDS StandardForm

CONSTANTS
  CommandLines,  \* UserParams: the words behind the program's name,
  Numeral        \* and what the words that are numbers stand for

ASSUME CommandLinesAssumption == \A line \in CommandLines : line \in Seq(ToSet(line))

VARIABLES argv, uPc, i, mine, change, param, scaling, scaled, work   \* UserParams

paramVars == <<argv, uPc, i, mine, change, param, scaling, scaled, work>>

User == INSTANCE UserParams WITH pc <- uPc

(* See UserParams: the solver goes by what was asked for.                  *)
SolvesAsAsked == User!SolvesAsAsked
=============================================================================
