------------------------------ MODULE PdhgSolve ------------------------------
(***************************************************************************)
(* The main loop of cuPDLP-C: PDHG_Solve with its periodic checks, the     *)
(* restart scheme, the adaptive line search and the averaging, up to the   *)
(* iterate PDHG_PostSolve reads.                                           *)
(*                                                                         *)
(* Vectors are abstracted to what they are: an iterate (x, y) is a name    *)
(* for the step that computed it, a product (ax, aty) is the iterate it    *)
(* was computed from, a sum is the set of iterates added to it.  What the  *)
(* residuals say of an iterate (optimal, infeasible, which score is lower) *)
(* is left open.  One step is one phase of an iteration of the loop.       *)
(***************************************************************************)
EXTENDS Naturals, FiniteSets

CONSTANTS
  nIterLim,          \* settings->nIterLim
  AlwaysChecked,     \* the first iterations, all checked (10 in the code)
  CheckInterval,     \* CUPDLP_RELEASE_INTERVAL (40 in the code)
  Adaptive,          \* PDHG_ADAPTIVE_LINESEARCH, else PDHG_FIXED_LINESEARCH
  GpuRestart,        \* PDHG_GPU_RESTART, else PDHG_WITHOUT_RESTART
  ZeroInBounds       \* is the zero vector its own projection on the bounds?

VARIABLES
  pc,        \* the phase the loop is in
  nIter,     \* timers->nIter
  buf,       \* buf[0], buf[1]: the double buffers x, y, ax, aty
  sum,       \* xSum, ySum and dSumPrimalStep, dSumDualStep
  avg,       \* xAverage, yAverage, axAverage, atyAverage
  res,       \* resobj: what its residuals and slacks were computed from
  infeas,    \* resobj: what its infeasibility residuals were computed from
  term,      \* resobj: the codes and the iterates they name
  iLastRestartIter,
  last,      \* xLastRestart, yLastRestart, of which iterates the residuals
             \* kept as ...LastRestart and ...LastCandidate are, and between
             \* which iterates the primal weight dBeta was last measured
  late,      \* has the wall clock passed dTimeLim?
  over       \* dSolvingTime > dTimeLim, as last computed

vars == <<pc, nIter, buf, sum, avg, res, infeas, term, iLastRestartIter, last, late, over>>

-----------------------------------------------------------------------------
(* Iterates.                                                               *)
Nothing  == [extra |-> FALSE, of |-> {}]
Start    == [kind |-> "start", at |-> 0, of |-> Nothing]      \* Project_Bounds(0)
Step(k)  == [kind |-> "step", at |-> k, of |-> Nothing]       \* accepted at nIter = k
Rejected(k) == [kind |-> "rejected", at |-> k, of |-> Nothing]
Mean(s)  == [kind |-> "mean", at |-> 0, of |-> s]        \* of the sum s
Zero     == [kind |-> "zero", at |-> 0, of |-> Nothing]       \* the zero vector
Junk     == [kind |-> "junk", at |-> 0, of |-> Nothing]       \* never computed

Iterate == {Start, Zero, Junk} \cup {Step(k) : k \in 0..nIterLim}
             \cup {Rejected(k) : k \in 0..nIterLim}

Buffer(i) == [xy |-> i, prod |-> i]

(* xSum starts as Project_Bounds(0), which no step size weighs: `extra`.   *)
NoSum(e) == [extra |-> e, of |-> {}, weights |-> 0]

cur == nIter % 2
upd == (nIter + 1) % 2

-----------------------------------------------------------------------------
(* Without a line search PDHG_Init_Step_Sizes iterates the power method,    *)
(* which has the current products for its scratch memory.                  *)
PowerMethod(b) == [b EXCEPT ![0].prod = Junk]
InitStepSizes(b) == IF Adaptive THEN b ELSE PowerMethod(b)

(* PDHG_Init_Variables comes after it and computes the products.           *)
InitVariables(b) == [b EXCEPT ![0] = Buffer(Start)]

(* Both buffers hold what the allocation left there.                       *)
Init ==
  /\ pc = "Head"
  /\ nIter = 0
  /\ buf = InitVariables(InitStepSizes([b \in {0, 1} |-> Buffer(Junk)]))
  /\ sum = NoSum(~ZeroInBounds)
  /\ avg = Buffer(Start)
  /\ res = [last |-> Junk, average |-> Junk, slack |-> Junk, slackAverage |-> Junk]
  /\ infeas = [last |-> {}, average |-> {}]
  /\ term = [code |-> "TIMELIMIT_OR_ITERLIMIT", iterate |-> "LAST_ITERATE",
             primalCode |-> "FEASIBLE", dualCode |-> "FEASIBLE",
             infeasIterate |-> "LAST_ITERATE"]
  /\ iLastRestartIter = 0
  /\ last = [xy |-> IF ZeroInBounds THEN Start ELSE Zero, score |-> Junk,
             candidate |-> Junk, ratio |-> [from |-> Junk, to |-> Junk]]
  /\ late = FALSE
  /\ over = FALSE

(* The clock passes the time limit, at any moment.                         *)
TimePasses ==
  /\ ~late /\ pc # "Done"
  /\ late' = TRUE
  /\ UNCHANGED <<pc, nIter, buf, sum, avg, res, infeas, term, iLastRestartIter, last, over>>

-----------------------------------------------------------------------------
Checking(now) == \/ nIter < AlwaysChecked \/ nIter = nIterLim - 1
                 \/ now \/ nIter % CheckInterval = 0

(* The loop test, PDHG_Compute_SolvingTime and bool_checking.              *)
Head ==
  /\ pc = "Head"
  /\ IF nIter < nIterLim
     THEN /\ over' = late
          /\ pc' = IF Checking(late) THEN "Check" ELSE "Update"
     ELSE /\ pc' = "Done"
          /\ UNCHANGED over
  /\ UNCHANGED <<nIter, buf, sum, avg, res, infeas, term, iLastRestartIter, last, late>>

(* PDHG_Compute_Average_Iterate: an empty sum is scaled by 1, not divided. *)
Average ==
  Buffer(IF sum.of = {} /\ (sum.extra \/ ZeroInBounds) THEN Start
         ELSE Mean([extra |-> sum.extra, of |-> sum.of]))

(* PDHG_Compute_Residuals: both iterates, through the stored products.     *)
Residuals(b, a) ==
  [last |-> b.prod, average |-> a.prod, slack |-> b.prod, slackAverage |-> a.prod]

(* What the two certificates are computed from.  Primal infeasibility: y as *)
(* the ray, its product, the slacks and the dual objective left by         *)
(* PDHG_Compute_Residuals; dual: x as the ray, ax, the primal objective.   *)
PrimalInfeasibility(i, judged, slack) == {i.xy, i.prod, judged, slack}
DualInfeasibility(i, judged)          == {i.xy, i.prod, judged}

InfeasResiduals_Early(b, a, r) ==   \* fault: called before Compute_Residuals
  [last    |-> PrimalInfeasibility(b, res.last, res.slack) \cup DualInfeasibility(b, res.last),
   average |-> PrimalInfeasibility(a, res.average, res.slackAverage)
                 \cup DualInfeasibility(a, res.average)]

(* PDHG_Compute_Infeas_Residuals.                                          *)
InfeasResiduals(b, a, r) ==
  [last    |-> PrimalInfeasibility(b, r.last, r.slack) \cup DualInfeasibility(b, r.last),
   average |-> PrimalInfeasibility(a, r.average, r.slackAverage)
                 \cup DualInfeasibility(a, r.average)]

(* PDHG_Check_Infeasibility: four tests in a row, and a later one that     *)
(* fires overwrites the iterate that an earlier one named.                 *)
Test == {"primal", "dual"} \X {"LAST_ITERATE", "AVERAGE_ITERATE"}

CheckInfeasibility(fired) ==
  LET code(t, old) == IF fired \cap ({t} \X {"LAST_ITERATE", "AVERAGE_ITERATE"}) # {}
                      THEN "INFEASIBLE" ELSE old
      of(i) == fired \cap ({"primal", "dual"} \X {i}) # {}
  IN [term EXCEPT
       !.primalCode = code("primal", @), !.dualCode = code("dual", @),
       !.infeasIterate = IF of("AVERAGE_ITERATE") THEN "AVERAGE_ITERATE"
                         ELSE IF of("LAST_ITERATE") THEN "LAST_ITERATE" ELSE @]

Verdict_OneTooMany(optimal, optimalAverage, infeasible) ==  \* fault
  IF optimal THEN "Optimal"
  ELSE IF optimalAverage THEN "OptimalAverage"
  ELSE IF infeasible THEN "Infeasible"
  ELSE IF over \/ nIter >= nIterLim THEN "Limit" ELSE "None"

Verdict_NoTimeLimit(optimal, optimalAverage, infeasible) ==  \* fault
  IF optimal THEN "Optimal"
  ELSE IF optimalAverage THEN "OptimalAverage"
  ELSE IF infeasible THEN "Infeasible"
  ELSE IF nIter >= nIterLim - 1 THEN "Limit" ELSE "None"

(* The ladder of tests after the residuals; the first that holds decides.  *)
Verdict(optimal, optimalAverage, infeasible) ==
  IF optimal THEN "Optimal"
  ELSE IF optimalAverage THEN "OptimalAverage"
  ELSE IF infeasible THEN "Infeasible"
  ELSE IF over \/ nIter >= nIterLim - 1 THEN "Limit" ELSE "None"

CopyAverage_NotProducts(a) == [xy |-> a.xy, prod |-> buf[cur].prod]  \* fault
CopyAverage(a) == a   \* x, y, ax and aty are all copied

StopOnAverage_KeepsSlack(r) == r    \* fault: the slacks are not copied
StopOnAverage(r) == [r EXCEPT !.slack = r.slackAverage]

Check(optimal, optimalAverage, fired) ==
  LET r == Residuals(buf[cur], Average)
      v == Verdict(optimal, optimalAverage, fired # {})
      stop(t) == pc' = "Done" /\ term' = t
  IN  /\ pc = "Check"
      /\ avg' = Average
      /\ infeas' = InfeasResiduals(buf[cur], Average, r)
      /\ CASE v = "Optimal" ->
                /\ stop([term EXCEPT !.code = "OPTIMAL", !.iterate = "LAST_ITERATE"])
                /\ res' = r /\ UNCHANGED buf
           [] v = "OptimalAverage" ->
                /\ stop([term EXCEPT !.code = "OPTIMAL", !.iterate = "AVERAGE_ITERATE"])
                /\ buf' = [buf EXCEPT ![cur] = CopyAverage(Average)]
                /\ res' = StopOnAverage(r)
           [] v = "Infeasible" ->
                /\ stop([CheckInfeasibility(fired) EXCEPT !.code = "INFEASIBLE_OR_UNBOUNDED"])
                /\ res' = r /\ UNCHANGED buf
           [] v = "Limit" ->
                /\ stop([term EXCEPT !.code = "TIMELIMIT_OR_ITERLIMIT"])
                /\ res' = r /\ UNCHANGED buf
           [] OTHER -> pc' = "Restart" /\ res' = r /\ UNCHANGED <<term, buf>>
      /\ UNCHANGED <<nIter, sum, iLastRestartIter, last, late, over>>

(* PDHG_Check_Restart_GPU: never at the iterate restarted to last, always  *)
(* after 36% of the run, and in between when the score decayed enough.     *)
Artificial == 100 * (nIter - iLastRestartIter) >= 36 * nIter

(* The better of the two iterates is the candidate.  Sufficient: below a   *)
(* fifth of the score of the last restart.  Necessary: below four fifths   *)
(* of it, and above the score of the last candidate, which then is not the *)
(* iterate of the last restart itself.                                     *)
Decayed(decay, grew) ==
  \/ decay = "sufficient"
  \/ decay = "necessary" /\ grew /\ last.candidate # last.score

RestartChoice(averageIsBetter, decay, grew) ==
  IF ~GpuRestart \/ nIter = iLastRestartIter \/ ~(Artificial \/ Decayed(decay, grew))
  THEN "NO_RESTART"
  ELSE IF averageIsBetter THEN "TO_AVERAGE" ELSE "TO_CURRENT"

(* Whose residuals the next decision compares with: those of this call's   *)
(* candidate, and in the first iteration of all those of the start.        *)
Recorded(averageIsBetter) ==
  IF nIter = iLastRestartIter
  THEN [last EXCEPT !.score = res.last, !.candidate = res.last]
  ELSE [last EXCEPT !.candidate = IF averageIsBetter THEN res.average ELSE res.last]

ForgetSum_KeepsWeights == [NoSum(FALSE) EXCEPT !.weights = sum.weights]  \* fault
ForgetSum == NoSum(FALSE)

(* Whose residuals are kept as those of the last restart.                  *)
LastScore_OfCurrent(choice) == res.last   \* fault
LastScore(choice) == IF choice = "TO_AVERAGE" THEN res.average ELSE res.last

(* PDHG_Compute_Step_Size_Ratio: how far x and y moved since the iterate   *)
(* restarted to before.                                                    *)
StepSizeRatio(i) == [from |-> last.xy, to |-> i]

Restart(averageIsBetter, decay, grew) ==
  LET choice == RestartChoice(averageIsBetter, decay, grew)
      now == IF choice = "TO_AVERAGE" THEN CopyAverage(avg) ELSE buf[cur]
  IN  /\ pc = "Restart"
      /\ pc' = "Update"
      /\ IF choice = "NO_RESTART"
         THEN /\ last' = IF GpuRestart THEN Recorded(averageIsBetter) ELSE last
              /\ UNCHANGED <<buf, sum, iLastRestartIter, res>>
         ELSE /\ buf' = [buf EXCEPT ![cur] = now]
              /\ sum' = ForgetSum
              /\ iLastRestartIter' = nIter
              /\ last' = [Recorded(averageIsBetter) EXCEPT
                            !.xy = now.xy, !.score = LastScore(choice),
                            !.ratio = StepSizeRatio(now.xy)]
              /\ res' = Residuals(now, avg)
      /\ UNCHANGED <<nIter, avg, infeas, term, late, over>>

-----------------------------------------------------------------------------
(* PDHG_Update_Iterate.  The candidate goes to the other buffer, with its  *)
(* products; PDHG_Update_Average adds it to the sum.                       *)
AddToSum(i) == [sum EXCEPT !.of = @ \cup {i}, !.weights = @ + 1]

Accept ==
  /\ pc = "Update"
  /\ buf' = [buf EXCEPT ![upd] = Buffer(Step(nIter)),
               ![cur].prod = IF Adaptive THEN buf[cur].prod ELSE buf[cur].xy]
  /\ sum' = AddToSum(Step(nIter))
  /\ nIter' = nIter + 1
  /\ pc' = "Head"
  /\ UNCHANGED <<avg, res, infeas, term, iLastRestartIter, last, late, over>>

(* CUPDLP_CHECK_TIMEOUT, after each candidate of the line search.          *)
TimeIsUp_NeverLooks == FALSE   \* fault
TimeIsUp == late

(* The step size was above its limit: look at the clock and try again.     *)
Reject ==
  /\ pc = "Update" /\ Adaptive /\ ~TimeIsUp
  /\ buf' = [buf EXCEPT ![upd] = Buffer(Rejected(nIter))]
  /\ over' = FALSE
  /\ UNCHANGED <<pc, nIter, sum, avg, res, infeas, term, iLastRestartIter, last, late>>

(* The clock ran out inside the search.  CUPDLP_CALL leaves with           *)
(* RETCODE_FAILED before PDHG_Update_Average, but PDHG_Update_Iterate      *)
(* returns RETCODE_OK: the loop goes on to nIter + 1, whose current buffer *)
(* is the rejected candidate.                                              *)
GiveUp ==
  /\ pc = "Update" /\ Adaptive /\ TimeIsUp
  /\ buf' = [buf EXCEPT ![upd] = Buffer(Rejected(nIter))]
  /\ over' = TRUE
  /\ nIter' = nIter + 1
  /\ pc' = "Head"
  /\ UNCHANGED <<sum, avg, res, infeas, term, iLastRestartIter, last, late>>

UpdateIterate == Accept \/ Reject \/ GiveUp

Stopped == pc = "Done" /\ UNCHANGED vars

Decays == {"none", "necessary", "sufficient"}

Next ==
  \/ Head \/ UpdateIterate \/ TimePasses \/ Stopped
  \/ \E a, b \in BOOLEAN, fired \in SUBSET Test : Check(a, b, fired)
  \/ \E a, b \in BOOLEAN, d \in Decays : Restart(a, d, b)

Spec == Init /\ [][Next]_vars

(* The loop runs, and the clock does not stand still.  Nothing makes the   *)
(* adaptive search accept a candidate: it may reject for ever (a repeated  *)
(* rejection is a stutter) until the clock stops it.                       *)
Fairness ==
  /\ WF_vars(Head) /\ WF_vars(TimePasses)
  /\ WF_vars(IF Adaptive THEN Reject \/ GiveUp ELSE Accept)
  /\ WF_vars(\E a, b \in BOOLEAN, fired \in SUBSET Test : Check(a, b, fired))
  /\ WF_vars(\E a, b \in BOOLEAN, d \in Decays : Restart(a, d, b))
FairSpec == Spec /\ Fairness

-----------------------------------------------------------------------------
(* What is said of the run when it has ended: the iterate whose objectives *)
(* and residuals PDHG_Solve prints, the iterate whose residuals writeJson  *)
(* saves, which looks at the iterate and not at the code, and the limit    *)
(* that is named when a limit ended it.                                    *)
Printed == IF term.code = "OPTIMAL" /\ term.iterate = "AVERAGE_ITERATE"
           THEN res.average ELSE res.last
Saved == IF term.iterate = "AVERAGE_ITERATE" THEN res.average ELSE res.last
LimitNamed == IF over THEN "time" ELSE IF nIter >= nIterLim - 1 THEN "iterations" ELSE "none"

-----------------------------------------------------------------------------
(* Type invariant, and nIter stays below nIterLim: the loop is left by a    *)
(* verdict and never by its own condition, which would return an iterate   *)
(* that was never judged.                                                  *)
IsIterate(i) == i \in Iterate \/ (i.kind = "mean" /\ i = Mean(i.of))
TypeOK ==
  /\ pc \in {"Head", "Check", "Restart", "Update", "Done"}
  /\ nIter \in Nat /\ (nIterLim > 0 => nIter < nIterLim)
  /\ iLastRestartIter \in 0..nIter
  /\ \A b \in {buf[0], buf[1], avg} : IsIterate(b.xy) /\ IsIterate(b.prod)
  /\ \A i \in {last.xy, last.score, last.candidate, last.ratio.from, last.ratio.to} :
       IsIterate(i)
  /\ {late, over} \subseteq BOOLEAN

(* ax and aty are those of the current x and y wherever they are used: the *)
(* adaptive step does not recompute them, it relies on the step or the     *)
(* restart before it.                                                      *)
ProductsMatch ==
  pc \in {"Check", "Restart", "Update", "Done"} => buf[cur].prod = buf[cur].xy

(* What is returned is what was judged: when the loop has stopped, the     *)
(* residuals that are printed and saved and the slacks PDHG_PostSolve      *)
(* reads are those of the iterate it reads at nIter % 2, and a run that a  *)
(* limit ended names one.                                                  *)
ReturnedWasJudged ==
  pc = "Done" /\ nIterLim > 0 =>
    /\ Printed = buf[cur].xy /\ Saved = buf[cur].xy
    /\ res.slack = buf[cur].xy
    /\ term.code = "TIMELIMIT_OR_ITERLIMIT" => LimitNamed # "none"

(* A verdict of infeasibility rests on one iterate: the test that fired    *)
(* used the ray, the products, the slacks and the objective of the very    *)
(* iterate that termInfeasIterate names, and a code says which test it     *)
(* was.  (The iterate returned is the last one even if that was not it.)   *)
InfeasibleWasJudged ==
  LET named == IF term.infeasIterate = "LAST_ITERATE" THEN buf[cur].xy ELSE avg.xy
      tests == IF term.infeasIterate = "LAST_ITERATE" THEN infeas.last ELSE infeas.average
  IN /\ term.code = "INFEASIBLE_OR_UNBOUNDED" =>
          tests = {named} /\ "INFEASIBLE" \in {term.primalCode, term.dualCode}
     /\ term.code # "INFEASIBLE_OR_UNBOUNDED" =>
          "INFEASIBLE" \notin {term.primalCode, term.dualCode}

(* Decay is measured from the iterate restarted to: when a restart is      *)
(* decided, the residuals kept as ...LastRestart are those of the iterate  *)
(* in xLastRestart.  (Before the first restart they are the start's, while *)
(* xLastRestart is zero, which the bounds may exclude.)  The candidate it  *)
(* is compared with is of this epoch too, and the primal weight is of the  *)
(* way from one restart to the next, never of no way at all.               *)
SinceRestart(i) ==
  \/ i.kind = "step" /\ i.at >= iLastRestartIter
  \/ i.kind = "mean" /\ i.of.of # {} /\ \A s \in i.of.of : s.at >= iLastRestartIter
DecayFromLastRestart ==
  pc = "Restart" /\ GpuRestart /\ nIter # iLastRestartIter =>
    /\ last.score = IF iLastRestartIter = 0 THEN Start ELSE last.xy
    /\ last.candidate = last.score \/ SinceRestart(last.candidate)
    /\ iLastRestartIter > 0 => last.ratio.to = last.xy /\ last.ratio.from # last.xy

(* The sum holds the accepted iterates since the last restart, each once,  *)
(* and has a weight for each of them.                                      *)
SumSinceRestart ==
  /\ sum.weights = Cardinality(sum.of)
  /\ sum.of = {Step(k) : k \in iLastRestartIter..(nIter - 1)}
               \ (IF late THEN {Step(nIter - 1)} \ sum.of ELSE {})

(* Once the loop has seen the time limit passed it never computes another  *)
(* step: no update starts with dSolvingTime over the limit.                *)
NoUpdateWhenOver == pc \in {"Restart", "Update"} => ~over

(* The loop ends, also when the line search keeps rejecting.               *)
Terminates == <>(pc = "Done")

(* What the code does not keep.  PDHG_Solve means to stop where the line   *)
(* search timed out; the iterate it returns is never one that the line     *)
(* search rejected.                                                        *)
NoRejectedIterate == pc = "Done" => buf[cur].xy.kind # "rejected"
=============================================================================
