----------------------------- MODULE SolverLoop -----------------------------
(***************************************************************************)
(* PdhgSolve as a part of the solver program: its parameters, with what is *)
(* assumed of them, and what is said of it.                                *)
(***************************************************************************)
EXTENDS Naturals

CONSTANTS nIterLim, AlwaysChecked, CheckInterval, Adaptive, GpuRestart, ZeroInBounds

ASSUME PdhgAssumption ==
  /\ nIterLim \in Nat /\ AlwaysChecked \in Nat /\ CheckInterval \in Nat \ {0}
  /\ {Adaptive, GpuRestart, ZeroInBounds} \subseteq BOOLEAN

VARIABLES
  lPc, nIter, buf, sum, avg, res, infeas, term, iLastRestartIter, last, late, over

loopVars == <<lPc, nIter, buf, sum, avg, res, infeas, term, iLastRestartIter, last, late, over>>

Loop == INSTANCE PdhgSolve WITH pc <- lPc

(* See PdhgSolve: types and the iteration limit; products, verdicts and    *)
(* scores belong to the iterates they are used with; the sum is since the  *)
(* last restart; no update after the time limit was seen.                  *)
LoopTypeOK           == Loop!TypeOK
ProductsMatch        == Loop!ProductsMatch
ReturnedWasJudged    == Loop!ReturnedWasJudged
InfeasibleWasJudged  == Loop!InfeasibleWasJudged
DecayFromLastRestart == Loop!DecayFromLastRestart
SumSinceRestart      == Loop!SumSinceRestart
NoUpdateWhenOver     == Loop!NoUpdateWhenOver
=============================================================================
