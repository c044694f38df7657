--------------------------- MODULE PdhgSolveProofs ---------------------------
(***************************************************************************)
(* The safety invariants of PDHG_Solve for every iteration limit, check    *)
(* interval and choice of methods.                                         *)
(*                                                                         *)
(* None of them is inductive by itself.  They hold together (IInv), each   *)
(* resting on where the loop is: what was judged matches what is returned  *)
(* because products match iterates (Matching) and the verdict leaves the   *)
(* loop at once; the limit is met because no update starts in the last     *)
(* iteration (Limits); scores and sums agree with iLastRestartIter because *)
(* an update lies between two restarts (Scored, Summed), and an iterate of *)
(* this epoch is not one of an earlier epoch (Epoch).                      *)
(***************************************************************************)
EXTENDS SolverLoop, FiniteSetTheorems, TLAPS

Steps == {Loop!Step(k) : k \in 0..nIterLim}
Sums == [extra : BOOLEAN, of : SUBSET Steps]
All == Loop!Iterate \cup {Loop!Mean(s) : s \in Sums}
Buffers == [xy : All, prod : All]
Ratios == [from : All, to : All]
Iterates == {"LAST_ITERATE", "AVERAGE_ITERATE"}
Codes == {"FEASIBLE", "INFEASIBLE"}
Terms == [code : {"OPTIMAL", "INFEASIBLE_OR_UNBOUNDED", "TIMELIMIT_OR_ITERLIMIT"},
          iterate : Iterates, primalCode : Codes, dualCode : Codes,
          infeasIterate : Iterates]
Current == buf[Loop!cur]

Types ==
  /\ lPc \in {"Head", "Check", "Restart", "Update", "Done"}
  /\ nIter \in Nat /\ iLastRestartIter \in 0..nIter
  /\ buf \in [{0, 1} -> Buffers]
  /\ avg \in Buffers
  /\ sum \in [extra : BOOLEAN, of : SUBSET Steps, weights : Nat]
  /\ res \in [last : All, average : All, slack : All, slackAverage : All]
  /\ term \in Terms
  /\ last \in [xy : All, score : All, candidate : All, ratio : Ratios]
  /\ late \in BOOLEAN /\ over \in BOOLEAN

(* No update in the last iteration, none after the time limit was seen.    *)
Limits ==
  /\ nIterLim > 0 => nIter < nIterLim
  /\ nIterLim = 0 => nIter = 0 /\ lPc \in {"Head", "Done"}
  /\ lPc \in {"Restart", "Update"} => nIter + 1 < nIterLim /\ ~over

Matching ==
  /\ Current.prod = Current.xy /\ avg.prod = avg.xy
  /\ lPc = "Restart" => res.last = Current.prod /\ res.average = avg.prod

Undecided ==
  lPc # "Done" => /\ term.code = "TIMELIMIT_OR_ITERLIMIT" /\ term.iterate = "LAST_ITERATE"
                 /\ term.primalCode = "FEASIBLE" /\ term.dualCode = "FEASIBLE"
                 /\ term.infeasIterate = "LAST_ITERATE"

(* The first iteration is checked, so the start's score is taken there.    *)
Scored ==
  /\ nIter = 0 /\ lPc # "Done" => Current.prod = Loop!Start
  /\ iLastRestartIter > 0 /\ lPc \in {"Head", "Check", "Restart"} => iLastRestartIter < nIter
  /\ GpuRestart /\ (nIter > 0 \/ lPc = "Update") =>
       last.score = IF iLastRestartIter = 0 THEN Loop!Start ELSE last.xy

(* The second case is what a time-out in the line search leaves behind.    *)
Accepted(a, b) == {Loop!Step(k) : k \in a..b}
Summed ==
  /\ IsFiniteSet(sum.of) /\ sum.weights = Cardinality(sum.of)
  /\ \/ sum.of = Accepted(iLastRestartIter, nIter - 1)
     \/ /\ late /\ over /\ lPc \in {"Head", "Check", "Done"} /\ iLastRestartIter < nIter
        /\ sum.of = Accepted(iLastRestartIter, nIter - 2)

(* Everything computed before iteration n, and what this epoch knows: its  *)
(* current iterate is a step of its own unless the search timed out.       *)
Before(i, n) ==
  \/ i.kind \in {"start", "zero"}
  \/ i.kind = "step" /\ i.at < n
  \/ i.kind = "mean" /\ \A s \in i.of.of : s.at < n
Epoch ==
  /\ Before(last.xy, iLastRestartIter)
  /\ lPc = "Restart" => avg = Loop!Average
  /\ iLastRestartIter < nIter /\ lPc # "Done" =>
       Current.xy = Loop!Step(nIter - 1) \/ (late /\ over /\ lPc \in {"Head", "Check"})
  /\ GpuRestart /\ (nIter > 0 \/ lPc = "Update") =>
       last.candidate = last.score \/ Loop!SinceRestart(last.candidate)
  /\ iLastRestartIter > 0 => last.ratio.to = last.xy /\ last.ratio.from # last.xy

IInv == /\ Types /\ Limits /\ Matching /\ Undecided /\ Scored /\ Summed /\ Epoch
        /\ ReturnedWasJudged /\ InfeasibleWasJudged

-----------------------------------------------------------------------------
LEMMA AllFacts ==
  /\ Loop!Start \in All /\ Loop!Zero \in All /\ Loop!Junk \in All
  /\ \A k \in 0..nIterLim : Loop!Step(k) \in All /\ Loop!Rejected(k) \in All /\ Loop!Step(k) \in Steps
  /\ \A s \in Sums : Loop!Mean(s) \in All
<1>1. /\ Loop!Start \in All /\ Loop!Zero \in All /\ Loop!Junk \in All
      /\ \A k \in 0..nIterLim : Loop!Step(k) \in All /\ Loop!Rejected(k) \in All /\ Loop!Step(k) \in Steps
  BY DEF All, Loop!Iterate, Steps
<1>2. \A s \in Sums : Loop!Mean(s) \in All
  BY DEF All
<1>3. QED
  BY <1>1, <1>2

LEMMA AllAreIterates == \A i \in All : Loop!IsIterate(i)
BY DEF All, Loop!IsIterate, Loop!Mean

LEMMA CurFacts ==
  ASSUME nIter \in Nat
  PROVE  /\ Loop!cur \in {0, 1} /\ Loop!upd \in {0, 1} /\ Loop!cur # Loop!upd
         /\ nIter' = nIter => Loop!cur' = Loop!cur
         /\ nIter' = nIter + 1 => Loop!cur' = Loop!upd
         /\ nIter = 0 => Loop!cur = 0
BY DEF Loop!cur, Loop!upd

LEMMA AverageFacts ==
  ASSUME Types
  PROVE  Loop!Average \in Buffers /\ Loop!Average.prod = Loop!Average.xy
<1>1. [extra |-> sum.extra, of |-> sum.of] \in Sums
  <2> DEFINE e == sum.extra
  <2>1. e \in BOOLEAN /\ sum.of \in SUBSET Steps
    BY DEF Types
  <2> HIDE DEF e
  <2>2. [extra |-> e, of |-> sum.of] \in Sums
    BY <2>1 DEF Sums
  <2>3. QED
    BY <2>2 DEF e
<1> DEFINE m == Loop!Mean([extra |-> sum.extra, of |-> sum.of])
<1>2. m \in All
  BY <1>1, AllFacts
<1> HIDE DEF m
<1>3. PICK i \in All : Loop!Average = Loop!Buffer(i)
  <2>1. Loop!Average \in {Loop!Buffer(Loop!Start), Loop!Buffer(m)}
    BY DEF Loop!Average, m
  <2>2. QED
    BY <2>1, <1>2, AllFacts
<1>4. QED
  BY <1>3 DEF Loop!Buffer, Buffers

-----------------------------------------------------------------------------
LEMMA InitIInv == Loop!Init => IInv
<1> SUFFICES ASSUME Loop!Init PROVE IInv
  OBVIOUS
<1> USE PdhgAssumption DEF PdhgAssumption
<1>1. /\ nIter = 0 /\ Loop!cur = 0 /\ Current = Loop!Buffer(Loop!Start) /\ avg = Loop!Buffer(Loop!Start)
      /\ buf = [b \in {0, 1} |-> Loop!Buffer(IF b = 0 THEN Loop!Start ELSE Loop!Junk)]
  <2>1. Loop!InitStepSizes([b \in {0, 1} |-> Loop!Buffer(Loop!Junk)]) \in
          {[b \in {0, 1} |-> Loop!Buffer(Loop!Junk)], Loop!PowerMethod([b \in {0, 1} |-> Loop!Buffer(Loop!Junk)])}
    BY DEF Loop!InitStepSizes
  <2>2. buf = [b \in {0, 1} |-> Loop!Buffer(IF b = 0 THEN Loop!Start ELSE Loop!Junk)]
    BY <2>1 DEF Loop!Init, Loop!InitVariables, Loop!PowerMethod, Loop!Buffer
  <2>3. QED
    BY <2>2 DEF Loop!Init, Loop!cur, Current
<1>2. Types
  <2>1. buf \in [{0, 1} -> Buffers] /\ avg \in Buffers
    BY <1>1, AllFacts DEF Loop!Buffer, Buffers
  <2>2. sum \in [extra : BOOLEAN, of : SUBSET Steps, weights : Nat]
    <3>1. (~ZeroInBounds) \in BOOLEAN
      OBVIOUS
    <3>2. sum = [extra |-> ~ZeroInBounds, of |-> {}, weights |-> 0]
      BY Zenon DEF Loop!Init, Loop!NoSum
    <3> DEFINE e == ~ZeroInBounds
    <3> HIDE DEF e
    <3>3. e \in BOOLEAN /\ sum = [extra |-> e, of |-> {}, weights |-> 0]
      BY <3>1, <3>2, Zenon DEF e
    <3>4. QED
      BY <3>1, <3>3
  <2>3. res \in [last : All, average : All, slack : All, slackAverage : All]
    BY AllFacts DEF Loop!Init
  <2>4. last \in [xy : All, score : All, candidate : All, ratio : Ratios]
    BY AllFacts DEF Loop!Init, Ratios
  <2>5. term \in Terms
    BY DEF Loop!Init, Terms, Iterates, Codes
  <2>6. late \in BOOLEAN /\ over \in BOOLEAN
    BY Zenon DEF Loop!Init
  <2>7. lPc = "Head" /\ nIter \in Nat /\ iLastRestartIter \in 0..nIter
    BY DEF Loop!Init
  <2>8. QED
    BY <2>1, <2>2, <2>3, <2>4, <2>5, <2>6, <2>7 DEF Types
<1>3. Limits
  BY DEF Loop!Init, Limits
<1>4. Matching /\ Undecided
  BY <1>1 DEF Loop!Init, Matching, Undecided, Loop!Buffer
<1>5. Scored
  BY <1>1 DEF Loop!Init, Scored, Loop!Buffer
<1>6. Summed
  <2>1. sum.of = {} /\ sum.weights = 0
    BY DEF Loop!Init, Loop!NoSum
  <2>2. Accepted(iLastRestartIter, nIter - 1) = {}
    BY DEF Loop!Init, Accepted
  <2>3. QED
    BY <2>1, <2>2, FS_EmptySet DEF Summed
<1>7. ReturnedWasJudged /\ InfeasibleWasJudged
  BY DEF Loop!Init, ReturnedWasJudged, Loop!ReturnedWasJudged, InfeasibleWasJudged, Loop!InfeasibleWasJudged
<1>8. Epoch
  BY <1>1 DEF Loop!Init, Epoch, Before, Loop!Start, Loop!Zero
<1>9. QED
  BY <1>2, <1>3, <1>4, <1>5, <1>6, <1>7, <1>8 DEF IInv

(* Nothing the invariant speaks of moves with the clock but late itself.   *)
LEMMA TimePassesIInv == IInv /\ Loop!TimePasses => IInv'
<1> SUFFICES ASSUME IInv, Loop!TimePasses PROVE IInv'
  OBVIOUS
<1>1. Loop!cur' = Loop!cur /\ Current' = Current
  BY DEF Loop!TimePasses, Loop!cur, Current
<1>2. Types'
  BY DEF IInv, Types, Loop!TimePasses
<1>3. Limits' /\ Matching' /\ Undecided' /\ Scored'
  BY <1>1 DEF IInv, Loop!TimePasses, Limits, Matching, Undecided, Scored
<1>4. Summed'
  BY DEF IInv, Loop!TimePasses, Summed
<1>5. ReturnedWasJudged' /\ InfeasibleWasJudged'
  BY <1>1 DEF IInv, Loop!TimePasses, ReturnedWasJudged, Loop!ReturnedWasJudged, InfeasibleWasJudged, Loop!InfeasibleWasJudged
<1>6. Epoch'
  BY <1>1 DEF IInv, Loop!TimePasses, Epoch, Loop!SinceRestart, Loop!Average
<1>7. QED
  BY <1>2, <1>3, <1>4, <1>5, <1>6 DEF IInv

-----------------------------------------------------------------------------
(* The loop test.  An unchecked iteration is neither the first nor the     *)
(* last, and the clock has not run out.                                    *)
LEMMA Unchecked ==
  ASSUME Types, Limits, lPc = "Head", nIter < nIterLim, ~Loop!Checking(late)
  PROVE  nIter > 0 /\ nIter + 1 < nIterLim /\ ~late
<1> USE PdhgAssumption DEF PdhgAssumption
<1>1. 0 % CheckInterval = 0
  OBVIOUS
<1>2. QED
  BY <1>1 DEF Types, Loop!Checking

LEMMA HeadIInv == IInv /\ Loop!Head => IInv'
<1> SUFFICES ASSUME IInv, Loop!Head PROVE IInv'
  OBVIOUS
<1> USE PdhgAssumption DEF PdhgAssumption
<1>1. Loop!cur' = Loop!cur /\ Current' = Current
  BY DEF Loop!Head, Loop!cur, Current
<1>2. \/ lPc' = "Check" /\ over' = late /\ nIter < nIterLim
      \/ lPc' = "Update" /\ over' = late /\ nIter > 0 /\ nIter + 1 < nIterLim /\ ~late
      \/ lPc' = "Done" /\ over' = over /\ nIterLim = 0
  <2>1. Types /\ Limits /\ lPc = "Head"
    BY DEF IInv, Loop!Head
  <2>2. CASE nIter < nIterLim
    <3>1. over' = late /\ lPc' = IF Loop!Checking(late) THEN "Check" ELSE "Update"
      BY <2>2 DEF Loop!Head
    <3>2. QED
      BY <2>1, <2>2, <3>1, Unchecked
  <2>3. CASE ~(nIter < nIterLim)
    BY <2>1, <2>3 DEF Loop!Head, Limits
  <2>4. QED
    BY <2>2, <2>3
<1>3. Types'
  <2>1. over' \in BOOLEAN
    BY <1>2 DEF IInv, Types
  <2>2. lPc' \in {"Head", "Check", "Restart", "Update", "Done"}
    BY <1>2
  <2>3. QED
    BY <2>1, <2>2 DEF IInv, Types, Loop!Head
<1>4. Limits'
  BY <1>2 DEF IInv, Limits, Loop!Head
<1>5. Matching' /\ Undecided'
  BY <1>1, <1>2 DEF IInv, Matching, Undecided, Loop!Head
<1>6. Scored'
  BY <1>1, <1>2 DEF IInv, Scored, Loop!Head
<1>7. Summed'
  BY <1>2 DEF IInv, Summed, Loop!Head
<1>8. ReturnedWasJudged' /\ InfeasibleWasJudged'
  BY <1>1, <1>2 DEF IInv, ReturnedWasJudged, Loop!ReturnedWasJudged, InfeasibleWasJudged, Loop!InfeasibleWasJudged, Undecided, Loop!Head
<1>9. Epoch'
  BY <1>1, <1>2 DEF IInv, Epoch, Loop!SinceRestart, Loop!Head
<1>10. QED
  BY <1>3, <1>4, <1>5, <1>6, <1>7, <1>8, <1>9 DEF IInv

-----------------------------------------------------------------------------
(* The check leaves the loop with one of four verdicts, or goes on.        *)
LEMMA CheckCases ==
  ASSUME NEW o \in BOOLEAN, NEW oa \in BOOLEAN, NEW fired \in SUBSET Loop!Test,
         Loop!Check(o, oa, fired),
         NEW r, r = Loop!Residuals(Current, Loop!Average)
  PROVE  \/ /\ lPc' = "Done" /\ res' = r /\ buf' = buf
            /\ term' = [term EXCEPT !.code = "OPTIMAL", !.iterate = "LAST_ITERATE"]
         \/ /\ lPc' = "Done" /\ res' = Loop!StopOnAverage(r) /\ buf' = [buf EXCEPT ![Loop!cur] = Loop!Average]
            /\ term' = [term EXCEPT !.code = "OPTIMAL", !.iterate = "AVERAGE_ITERATE"]
         \/ /\ lPc' = "Done" /\ res' = r /\ buf' = buf /\ fired # {}
            /\ term' = [Loop!CheckInfeasibility(fired) EXCEPT !.code = "INFEASIBLE_OR_UNBOUNDED"]
         \/ /\ lPc' = "Done" /\ res' = r /\ buf' = buf
            /\ term' = [term EXCEPT !.code = "TIMELIMIT_OR_ITERLIMIT"]
            /\ over \/ nIter >= nIterLim - 1
         \/ /\ lPc' = "Restart" /\ res' = r /\ buf' = buf /\ term' = term
            /\ ~over /\ ~(nIter >= nIterLim - 1)
<1> DEFINE v == Loop!Verdict(o, oa, fired # {})
<1>1. /\ v \in {"Optimal", "OptimalAverage", "Infeasible", "Limit", "None"}
      /\ v = "Infeasible" => fired # {}
      /\ v = "Limit" => over \/ nIter >= nIterLim - 1
      /\ v = "None" => ~over /\ ~(nIter >= nIterLim - 1)
  BY DEF Loop!Verdict
<1> HIDE DEF v
<1>2. CASE v = "Optimal"
  BY <1>2 DEF Loop!Check, Current, v
<1>3. CASE v = "OptimalAverage"
  BY <1>3 DEF Loop!Check, Current, v, Loop!CopyAverage
<1>4. CASE v = "Infeasible"
  BY <1>1, <1>4 DEF Loop!Check, Current, v
<1>5. CASE v = "Limit"
  BY <1>1, <1>5 DEF Loop!Check, Current, v
<1>6. CASE v = "None"
  BY <1>1, <1>6 DEF Loop!Check, Current, v
<1>7. QED
  BY <1>1, <1>2, <1>3, <1>4, <1>5, <1>6

(* What the check computes of the two iterates, when products match.       *)
LEMMA CheckValues ==
  ASSUME IInv, NEW o, NEW oa, NEW fired, Loop!Check(o, oa, fired),
         NEW r, r = Loop!Residuals(Current, Loop!Average)
  PROVE  /\ lPc = "Check" /\ Loop!cur' = Loop!cur /\ avg' = Loop!Average /\ nIter' = nIter
         /\ sum' = sum /\ last' = last /\ late' = late /\ over' = over
         /\ iLastRestartIter' = iLastRestartIter
         /\ r = [last |-> Current.xy, average |-> Loop!Average.xy,
                 slack |-> Current.xy, slackAverage |-> Loop!Average.xy]
         /\ infeas' = [last |-> {Current.xy}, average |-> {Loop!Average.xy}]
         /\ Loop!cur \in {0, 1} /\ Current \in Buffers /\ Loop!Average \in Buffers
         /\ Current.prod = Current.xy /\ Loop!Average.prod = Loop!Average.xy
<1>1. Types /\ nIter \in Nat /\ Current.prod = Current.xy /\ nIter' = nIter /\ lPc = "Check"
  BY DEF IInv, Types, Matching, Loop!Check
<1>2. /\ Loop!cur \in {0, 1} /\ Loop!cur' = Loop!cur
      /\ Loop!Average \in Buffers /\ Loop!Average.prod = Loop!Average.xy
  BY <1>1, CurFacts, AverageFacts
<1>3. Current \in Buffers
  BY <1>1, <1>2 DEF Types, Current
<1>4. r = [last |-> Current.xy, average |-> Loop!Average.xy,
           slack |-> Current.xy, slackAverage |-> Loop!Average.xy]
  BY <1>1, <1>2 DEF Loop!Residuals
<1>5. infeas' = Loop!InfeasResiduals(Current, Loop!Average, r)
  BY DEF Loop!Check, Current
<1>6. infeas' = [last |-> {Current.xy}, average |-> {Loop!Average.xy}]
  BY <1>1, <1>2, <1>4, <1>5 DEF Loop!InfeasResiduals, Loop!PrimalInfeasibility, Loop!DualInfeasibility
<1>7. /\ avg' = Loop!Average
      /\ sum' = sum /\ last' = last /\ late' = late /\ over' = over
      /\ iLastRestartIter' = iLastRestartIter
  BY DEF Loop!Check
<1>8. QED
  BY <1>1, <1>2, <1>3, <1>4, <1>6, <1>7

(* A test that fired sets its code, and names an iterate.                  *)
LEMMA FiredFacts ==
  ASSUME term \in Terms, NEW fired \in SUBSET Loop!Test
  PROVE  /\ Loop!CheckInfeasibility(fired) \in Terms
         /\ Loop!CheckInfeasibility(fired).iterate = term.iterate
         /\ fired # {} =>
              "INFEASIBLE" \in {Loop!CheckInfeasibility(fired).primalCode,
                                Loop!CheckInfeasibility(fired).dualCode}
<1>1. fired # {} => \/ fired \cap ({"primal"} \X {"LAST_ITERATE", "AVERAGE_ITERATE"}) # {}
                    \/ fired \cap ({"dual"} \X {"LAST_ITERATE", "AVERAGE_ITERATE"}) # {}
  BY DEF Loop!Test
<1> DEFINE p == fired \cap ({"primal"} \X {"LAST_ITERATE", "AVERAGE_ITERATE"}) # {}
           d == fired \cap ({"dual"} \X {"LAST_ITERATE", "AVERAGE_ITERATE"}) # {}
           a == fired \cap ({"primal", "dual"} \X {"AVERAGE_ITERATE"}) # {}
           l == fired \cap ({"primal", "dual"} \X {"LAST_ITERATE"}) # {}
<1>2. Loop!CheckInfeasibility(fired) =
        [term EXCEPT !.primalCode = IF p THEN "INFEASIBLE" ELSE @,
                     !.dualCode = IF d THEN "INFEASIBLE" ELSE @,
                     !.infeasIterate = IF a THEN "AVERAGE_ITERATE"
                                       ELSE IF l THEN "LAST_ITERATE" ELSE @]
  BY Zenon DEF Loop!CheckInfeasibility
<1>3. fired # {} => p \/ d
  BY <1>1
<1> HIDE DEF p, d, a, l
<1>4. QED
  BY <1>2, <1>3 DEF Terms, Codes, Iterates

(* Whatever the verdict, what leaves the loop is what was judged.          *)
LEMMA CheckIInv ==
  ASSUME IInv, NEW o \in BOOLEAN, NEW oa \in BOOLEAN, NEW fired \in SUBSET Loop!Test,
         Loop!Check(o, oa, fired)
  PROVE  IInv'
<1> USE PdhgAssumption DEF PdhgAssumption
<1>1. PICK r : r = Loop!Residuals(Current, Loop!Average)
  OBVIOUS
<1>2. /\ lPc = "Check" /\ Loop!cur' = Loop!cur /\ avg' = Loop!Average /\ nIter' = nIter
      /\ sum' = sum /\ last' = last /\ late' = late /\ over' = over
      /\ iLastRestartIter' = iLastRestartIter
  BY <1>1, CheckValues
<1>3. /\ r = [last |-> Current.xy, average |-> Loop!Average.xy,
              slack |-> Current.xy, slackAverage |-> Loop!Average.xy]
      /\ infeas' = [last |-> {Current.xy}, average |-> {Loop!Average.xy}]
      /\ Loop!cur \in {0, 1} /\ Current \in Buffers /\ Loop!Average \in Buffers
      /\ Current.prod = Current.xy /\ Loop!Average.prod = Loop!Average.xy
  BY <1>1, CheckValues
<1>4. Types /\ Limits /\ Undecided /\ Scored /\ Summed /\ Epoch /\ term \in Terms
  BY DEF IInv, Types
<1>5. /\ term.code = "TIMELIMIT_OR_ITERLIMIT" /\ term.infeasIterate = "LAST_ITERATE"
      /\ term.iterate = "LAST_ITERATE"
      /\ term.primalCode = "FEASIBLE" /\ term.dualCode = "FEASIBLE"
  BY <1>2, <1>4 DEF Undecided
<1> DEFINE Results == [last : All, average : All, slack : All, slackAverage : All]
(* What is the same whatever the verdict: only the rest of the loop's      *)
(* state decides it.                                                       *)
<1>6. ASSUME lPc' \in {"Restart", "Done"},
             buf' \in [{0, 1} -> Buffers], res' \in Results, term' \in Terms,
             lPc' = "Restart" => /\ nIter + 1 < nIterLim /\ ~over /\ term' = term
                                /\ res' = r /\ buf' = buf,
             Current'.prod = Current'.xy,
             ReturnedWasJudged', InfeasibleWasJudged'
      PROVE  IInv'
  <2>1. Types'
    BY <1>2, <1>3, <1>4, <1>6 DEF Types
  <2>2. Limits'
    BY <1>2, <1>4, <1>6 DEF Limits
  <2>3. Matching'
    BY <1>2, <1>3, <1>6 DEF Matching, Current
  <2>4. Undecided'
    BY <1>4, <1>5, <1>6 DEF Undecided
  <2>5. Scored'
    BY <1>2, <1>4, <1>6 DEF Scored, Current
  <2>6. Summed'
    BY <1>2, <1>4, <1>6 DEF Summed
  <2>7. Epoch'
    <3>1. Loop!Average' = Loop!Average
      BY <1>2 DEF Loop!Average
    <3>2. QED
      BY <1>2, <1>4, <1>6, <3>1 DEF Epoch, Loop!SinceRestart, Current
  <2>8. QED
    BY <1>6, <2>1, <2>2, <2>3, <2>4, <2>5, <2>6, <2>7 DEF IInv
<1>7. r \in Results /\ Loop!StopOnAverage(r) \in Results
  BY <1>3 DEF Buffers, Loop!StopOnAverage
<1>8. CASE /\ lPc' = "Done" /\ res' = r /\ buf' = buf
           /\ term' = [term EXCEPT !.code = "OPTIMAL", !.iterate = "LAST_ITERATE"]
  <2>1. term' \in Terms /\ term'.code = "OPTIMAL" /\ term'.iterate = "LAST_ITERATE"
        /\ term'.primalCode = "FEASIBLE" /\ term'.dualCode = "FEASIBLE"
    BY <1>4, <1>5, <1>8 DEF Terms, Iterates
  <2>2. Current' = Current
    BY <1>2, <1>8 DEF Current
  <2>3. ReturnedWasJudged'
    BY <1>2, <1>3, <1>8, <2>1, <2>2 DEF ReturnedWasJudged, Loop!ReturnedWasJudged, Current, Loop!Printed, Loop!Saved
  <2>4. InfeasibleWasJudged'
    BY <2>1 DEF InfeasibleWasJudged, Loop!InfeasibleWasJudged
  <2>5. QED
    BY <1>3, <1>4, <1>6, <1>7, <1>8, <2>1, <2>2, <2>3, <2>4 DEF Types
<1>9. CASE /\ lPc' = "Done" /\ res' = Loop!StopOnAverage(r) /\ buf' = [buf EXCEPT ![Loop!cur] = Loop!Average]
           /\ term' = [term EXCEPT !.code = "OPTIMAL", !.iterate = "AVERAGE_ITERATE"]
  <2>1. term' \in Terms /\ term'.code = "OPTIMAL" /\ term'.iterate = "AVERAGE_ITERATE"
        /\ term'.primalCode = "FEASIBLE" /\ term'.dualCode = "FEASIBLE"
    BY <1>4, <1>5, <1>9 DEF Terms, Iterates
  <2>2. Current' = Loop!Average /\ buf' \in [{0, 1} -> Buffers]
    BY <1>2, <1>3, <1>4, <1>9 DEF Current, Types
  <2>3. res'.average = Loop!Average.xy /\ res'.slack = Loop!Average.xy
    BY <1>3, <1>9 DEF Loop!StopOnAverage
  <2>4. ReturnedWasJudged'
    BY <2>1, <2>2, <2>3 DEF ReturnedWasJudged, Loop!ReturnedWasJudged, Current, Loop!Printed, Loop!Saved
  <2>5. InfeasibleWasJudged'
    BY <2>1 DEF InfeasibleWasJudged, Loop!InfeasibleWasJudged
  <2>6. QED
    BY <1>3, <1>6, <1>7, <1>9, <2>1, <2>2, <2>4, <2>5
<1>10. CASE /\ lPc' = "Done" /\ res' = r /\ buf' = buf /\ fired # {}
            /\ term' = [Loop!CheckInfeasibility(fired) EXCEPT !.code = "INFEASIBLE_OR_UNBOUNDED"]
  <2>1. /\ term' \in Terms /\ term'.code = "INFEASIBLE_OR_UNBOUNDED"
        /\ "INFEASIBLE" \in {term'.primalCode, term'.dualCode}
        /\ term'.infeasIterate \in Iterates /\ term'.iterate = "LAST_ITERATE"
    BY <1>4, <1>5, <1>10, FiredFacts DEF Terms
  <2>2. Current' = Current
    BY <1>2, <1>10 DEF Current
  <2>3. ReturnedWasJudged'
    BY <1>2, <1>3, <1>10, <2>1, <2>2 DEF ReturnedWasJudged, Loop!ReturnedWasJudged, Current, Loop!Printed, Loop!Saved
  <2>4. InfeasibleWasJudged'
    BY <1>2, <1>3, <2>1, <2>2 DEF InfeasibleWasJudged, Loop!InfeasibleWasJudged, Iterates, Current
  <2>5. QED
    BY <1>3, <1>4, <1>6, <1>7, <1>10, <2>1, <2>2, <2>3, <2>4 DEF Types
<1>11. CASE /\ lPc' = "Done" /\ res' = r /\ buf' = buf
            /\ term' = [term EXCEPT !.code = "TIMELIMIT_OR_ITERLIMIT"]
            /\ over \/ nIter >= nIterLim - 1
  <2>1. term' = term
    BY <1>4, <1>5, <1>11 DEF Terms
  <2>2. Current' = Current
    BY <1>2, <1>11 DEF Current
  <2>3. ReturnedWasJudged'
    BY <1>2, <1>3, <1>5, <1>11, <2>1, <2>2
       DEF ReturnedWasJudged, Loop!ReturnedWasJudged, Current, Loop!Printed, Loop!Saved, Loop!LimitNamed
  <2>4. InfeasibleWasJudged'
    BY <1>5, <2>1 DEF InfeasibleWasJudged, Loop!InfeasibleWasJudged
  <2>5. QED
    BY <1>3, <1>4, <1>6, <1>7, <1>11, <2>1, <2>2, <2>3, <2>4 DEF Types
<1>12. CASE /\ lPc' = "Restart" /\ res' = r /\ buf' = buf /\ term' = term
            /\ ~over /\ ~(nIter >= nIterLim - 1)
  <2>1. Current' = Current
    BY <1>2, <1>12 DEF Current
  <2>2. nIter + 1 < nIterLim
    BY <1>2, <1>4, <1>12 DEF Limits, Types
  <2>3. ReturnedWasJudged' /\ InfeasibleWasJudged'
    BY <1>5, <1>12 DEF ReturnedWasJudged, Loop!ReturnedWasJudged, InfeasibleWasJudged, Loop!InfeasibleWasJudged
  <2>4. QED
    BY <1>3, <1>4, <1>6, <1>7, <1>12, <2>1, <2>2, <2>3 DEF Types
<1>13. QED
  BY <1>1, <1>8, <1>9, <1>10, <1>11, <1>12, CheckCases

-----------------------------------------------------------------------------
(* What belongs to an earlier epoch is no iterate of this one.             *)
LEMMA EpochsDiffer ==
  ASSUME nIter \in Nat, iLastRestartIter \in 0..nIter, NEW i \in All, NEW j \in All,
         Before(i, iLastRestartIter), Loop!SinceRestart(j)
  PROVE  i # j
<1> SUFFICES ASSUME i = j PROVE FALSE
  OBVIOUS
<1>1. CASE j.kind = "step" /\ j.at >= iLastRestartIter
  <2>1. j.at \in Nat
    <3>1. \A k \in Nat : Loop!Step(k).at = k /\ Loop!Rejected(k).at = k
      BY DEF Loop!Step, Loop!Rejected
    <3>2. 0..nIterLim \subseteq Nat
      OBVIOUS
    <3>3. QED
      BY <1>1, <3>1, <3>2 DEF All, Loop!Iterate, Loop!Start, Loop!Zero, Loop!Junk, Loop!Step, Loop!Rejected, Loop!Mean
  <2>2. QED
    BY <1>1, <2>1 DEF Before
<1>2. CASE j.kind = "mean" /\ j.of.of # {} /\ \A s \in j.of.of : s.at >= iLastRestartIter
  <2>1. PICK sm \in Sums : j = Loop!Mean(sm)
    BY <1>2 DEF All, Loop!Iterate, Loop!Start, Loop!Zero, Loop!Junk, Loop!Step, Loop!Rejected
  <2>2. j.of = sm
    BY <2>1 DEF Loop!Mean
  <2>3. PICK s \in Steps : s \in sm.of
    BY <1>2, <2>2 DEF Sums
  <2>4. s.at \in Nat
    BY DEF Steps, Loop!Step
  <2>5. s.at >= iLastRestartIter /\ s.at < iLastRestartIter
    BY <1>2, <2>2, <2>3 DEF Before
  <2>6. QED
    BY <2>4, <2>5
<1>3. QED
  BY <1>1, <1>2 DEF Loop!SinceRestart

(* The two iterates that a restart chooses from are of this epoch.         *)
LEMMA ChoiceFacts ==
  ASSUME IInv, lPc = "Restart", nIter # iLastRestartIter, NEW i \in {Current.xy, avg.xy}
  PROVE  Loop!SinceRestart(i) /\ Before(i, nIter)
<1>1. Types /\ Summed /\ Epoch
  BY DEF IInv
<1>2. nIter \in Nat /\ iLastRestartIter \in 0..(nIter - 1)
  BY <1>1 DEF Types
<1>3. Current.xy = Loop!Step(nIter - 1) /\ avg = Loop!Average
      /\ sum.of = Accepted(iLastRestartIter, nIter - 1)
  BY <1>1, <1>2 DEF Epoch, Summed
<1>4. CASE i = Current.xy
  <2>1. i.kind = "step" /\ i.at = nIter - 1
    BY <1>3, <1>4 DEF Loop!Step
  <2>2. QED
    BY <1>2, <2>1 DEF Loop!SinceRestart, Before
<1>5. CASE i = avg.xy
  <2>1. \A s \in sum.of : s.at \in iLastRestartIter..(nIter - 1)
    BY <1>3 DEF Accepted, Loop!Step
  <2>2. Loop!Step(iLastRestartIter) \in sum.of
    BY <1>2, <1>3 DEF Accepted
  <2>3. i = Loop!Mean([extra |-> sum.extra, of |-> sum.of])
    BY <1>3, <1>5, <2>2 DEF Loop!Average, Loop!Buffer
  <2>4. i.kind = "mean" /\ i.of.of = sum.of
    BY <2>3 DEF Loop!Mean
  <2>5. Loop!SinceRestart(i)
    BY <1>2, <2>1, <2>2, <2>4 DEF Loop!SinceRestart
  <2>6. Before(i, nIter)
    BY <1>2, <2>1, <2>4 DEF Before
  <2>7. QED
    BY <2>5, <2>6
<1>6. QED
  BY <1>4, <1>5

(* A restart: never in the iteration restarted to last, so that the score  *)
(* and the iterate kept as the last restart's change together.             *)
LEMMA RestartIInv ==
  ASSUME IInv, NEW better \in BOOLEAN, NEW decay \in Loop!Decays, NEW grew \in BOOLEAN,
         Loop!Restart(better, decay, grew)
  PROVE  IInv'
<1> USE PdhgAssumption DEF PdhgAssumption
<1> DEFINE choice == Loop!RestartChoice(better, decay, grew)
           now == IF choice = "TO_AVERAGE" THEN Loop!CopyAverage(avg) ELSE buf[Loop!cur]
<1>1. /\ lPc = "Restart" /\ lPc' = "Update" /\ nIter' = nIter /\ Loop!cur' = Loop!cur
      /\ avg' = avg /\ infeas' = infeas /\ term' = term /\ late' = late /\ over' = over
  BY DEF Loop!Restart, Loop!cur
<1>2. Types /\ Limits /\ Matching /\ Undecided /\ Scored /\ Summed /\ Epoch
  BY DEF IInv
<1>3. /\ Loop!cur \in {0, 1} /\ Current \in Buffers /\ avg \in Buffers
      /\ Current.prod = Current.xy /\ avg.prod = avg.xy
      /\ res.last = Current.xy /\ res.average = avg.xy
      /\ sum.of = Accepted(iLastRestartIter, nIter - 1)
  BY <1>1, <1>2, CurFacts DEF Types, Matching, Summed, Current
<1>4. Undecided' /\ Limits' /\ ReturnedWasJudged' /\ InfeasibleWasJudged'
  BY <1>1, <1>2 DEF Undecided, Limits, ReturnedWasJudged, Loop!ReturnedWasJudged, InfeasibleWasJudged, Loop!InfeasibleWasJudged
<1>5. /\ choice \in {"NO_RESTART", "TO_AVERAGE", "TO_CURRENT"}
      /\ choice # "NO_RESTART" => /\ GpuRestart /\ nIter # iLastRestartIter
                                  /\ choice = IF better THEN "TO_AVERAGE" ELSE "TO_CURRENT"
  BY DEF Loop!RestartChoice
<1>6. last \in [xy : All, score : All, candidate : All, ratio : Ratios]
  BY <1>2 DEF Types
<1>7. CASE choice # "NO_RESTART"
  <2>1. /\ buf' = [buf EXCEPT ![Loop!cur] = now]
        /\ sum' = Loop!ForgetSum /\ iLastRestartIter' = nIter
        /\ last' = [Loop!Recorded(better) EXCEPT !.xy = now.xy, !.score = Loop!LastScore(choice),
                                            !.ratio = Loop!StepSizeRatio(now.xy)]
        /\ res' = Loop!Residuals(now, avg)
    BY <1>7 DEF Loop!Restart
  <2>2. /\ now \in Buffers /\ now.prod = now.xy /\ now.xy \in {Current.xy, avg.xy}
        /\ Loop!LastScore(choice) = now.xy
        /\ Loop!Recorded(better) = [last EXCEPT !.candidate = now.xy]
    BY <1>3, <1>5, <1>7 DEF Loop!CopyAverage, Loop!LastScore, Loop!Recorded, Current
  <2>3. Loop!SinceRestart(now.xy) /\ Before(now.xy, nIter)
    BY <1>1, <1>5, <1>7, <2>2, ChoiceFacts
  <2> HIDE DEF now, choice
  <2>4. last.xy # now.xy
    BY <1>2, <1>6, <2>2, <2>3, EpochsDiffer DEF Types, Epoch, Buffers
  <2>5. /\ last' = [xy |-> now.xy, score |-> now.xy, candidate |-> now.xy,
                    ratio |-> [from |-> last.xy, to |-> now.xy]]
        /\ now.xy \in All
    BY <1>6, <2>1, <2>2 DEF Loop!StepSizeRatio, Buffers
  <2>6. Current' = now /\ nIter > 0
    BY <1>1, <1>2, <1>3, <1>5, <1>7, <2>1 DEF Current, Types
  <2>7. Types'
    <3>1. sum' \in [extra : BOOLEAN, of : SUBSET Steps, weights : Nat]
      BY <2>1 DEF Loop!ForgetSum, Loop!NoSum
    <3>2. res' \in [last : All, average : All, slack : All, slackAverage : All]
      BY <1>3, <2>1, <2>2 DEF Loop!Residuals, Buffers
    <3>3. last' \in [xy : All, score : All, candidate : All, ratio : Ratios]
      BY <1>6, <2>5 DEF Ratios
    <3>4. buf' \in [{0, 1} -> Buffers]
      BY <1>2, <1>3, <2>1, <2>2 DEF Types
    <3>5. iLastRestartIter' \in 0..nIter'
      BY <1>1, <1>2, <2>1 DEF Types
    <3>6. QED
      BY <1>1, <1>2, <3>1, <3>2, <3>3, <3>4, <3>5 DEF Types
  <2>8. Matching'
    BY <1>1, <1>3, <2>2, <2>6 DEF Matching, Current
  <2>9. Scored'
    <3>1. iLastRestartIter' = nIter' /\ nIter' # 0 /\ lPc' = "Update"
      BY <1>1, <2>1, <2>6
    <3>2. last'.score = last'.xy
      BY <2>5
    <3>3. QED
      BY <3>1, <3>2 DEF Scored
  <2>10. Summed'
    <3>1. sum'.of = {} /\ sum'.weights = 0
      BY <2>1 DEF Loop!ForgetSum, Loop!NoSum
    <3>2. Accepted(nIter, nIter - 1) = {}
      BY <1>2 DEF Accepted, Types
    <3>3. QED
      BY <1>1, <2>1, <3>1, <3>2, FS_EmptySet DEF Summed
  <2>11. Epoch'
    <3>1. /\ last'.xy = now.xy /\ last'.candidate = last'.score
          /\ last'.ratio.to = last'.xy /\ last'.ratio.from # last'.xy
      BY <2>4, <2>5
    <3>2. Before(last'.xy, iLastRestartIter') /\ ~(iLastRestartIter' < nIter')
      BY <1>1, <1>2, <2>1, <2>3, <3>1 DEF Types
    <3>3. QED
      BY <1>1, <3>1, <3>2 DEF Epoch
  <2>12. QED
    BY <1>4, <2>7, <2>8, <2>9, <2>10, <2>11 DEF IInv
<1>8. CASE choice = "NO_RESTART"
  <2>1. /\ buf' = buf /\ sum' = sum /\ res' = res /\ Current' = Current
        /\ iLastRestartIter' = iLastRestartIter
        /\ last' = IF GpuRestart THEN Loop!Recorded(better) ELSE last
    BY <1>1, <1>8 DEF Loop!Restart, Current
  <2> HIDE DEF now, choice
  <2>2. /\ res.last \in All /\ res.average \in All
        /\ Loop!Recorded(better) \in [xy : All, score : All, candidate : All, ratio : Ratios]
        /\ Loop!Recorded(better).xy = last.xy /\ Loop!Recorded(better).ratio = last.ratio
        /\ nIter = iLastRestartIter =>
             Loop!Recorded(better).score = res.last /\ Loop!Recorded(better).candidate = res.last
        /\ nIter # iLastRestartIter =>
             /\ Loop!Recorded(better).score = last.score
             /\ Loop!Recorded(better).candidate \in {res.last, res.average}
    BY <1>3, <1>6 DEF Loop!Recorded, Buffers
  <2>3. /\ last' \in [xy : All, score : All, candidate : All, ratio : Ratios]
        /\ last'.xy = last.xy /\ last'.ratio = last.ratio
    BY <1>6, <2>1, <2>2
  <2>4. Types'
    BY <1>1, <1>2, <2>1, <2>3 DEF Types
  <2>5. Matching'
    BY <1>1, <1>2, <2>1 DEF Matching
  <2>6. nIter = iLastRestartIter => nIter = 0 /\ Current.prod = Loop!Start
    BY <1>1, <1>2 DEF Scored, Types
  <2>7. Scored'
    <3>1. GpuRestart => last'.score = IF iLastRestartIter = 0 THEN Loop!Start ELSE last'.xy
      <4>1. CASE nIter = iLastRestartIter
        BY <1>3, <2>1, <2>2, <2>6, <4>1
      <4>2. CASE nIter # iLastRestartIter
        BY <1>1, <1>2, <2>1, <2>2, <4>2 DEF Scored, Types
      <4>3. QED
        BY <4>1, <4>2
    <3>2. QED
      BY <1>1, <1>2, <2>1, <3>1 DEF Scored
  <2>8. Summed'
    BY <1>1, <1>2, <1>3, <2>1 DEF Summed, Accepted
  <2>9. Epoch'
    <3>1. GpuRestart => last'.candidate = last'.score \/ Loop!SinceRestart(last'.candidate)
      <4>1. CASE nIter = iLastRestartIter
        BY <2>1, <2>2, <4>1
      <4>2. CASE nIter # iLastRestartIter
        BY <1>1, <1>3, <2>1, <2>2, <4>2, ChoiceFacts
      <4>3. QED
        BY <4>1, <4>2
    <3>2. QED
      BY <1>1, <1>2, <2>1, <2>3, <3>1 DEF Epoch, Loop!SinceRestart
  <2>10. QED
    BY <1>4, <2>4, <2>5, <2>7, <2>8, <2>9 DEF IInv
<1>9. QED
  BY <1>5, <1>7, <1>8

-----------------------------------------------------------------------------
(* What the three outcomes of a candidate share: they start with the sum   *)
(* complete, and leave the iterate they start from to the other buffer.    *)
LEMMA UpdateFacts ==
  ASSUME IInv, lPc = "Update"
  PROVE  /\ nIter \in 0..nIterLim /\ nIter + 1 < nIterLim /\ ~over
         /\ Loop!cur \in {0, 1} /\ Loop!upd \in {0, 1} /\ Loop!cur # Loop!upd
         /\ buf \in [{0, 1} -> Buffers]
         /\ Loop!Step(nIter) \in All /\ Loop!Rejected(nIter) \in All /\ Loop!Step(nIter) \in Steps
         /\ sum.of = Accepted(iLastRestartIter, nIter - 1)
<1> USE PdhgAssumption DEF PdhgAssumption
<1>1. Types /\ Limits /\ Summed
  BY DEF IInv
<1>2. nIter \in 0..nIterLim /\ nIter + 1 < nIterLim /\ ~over
  BY <1>1 DEF Types, Limits
<1>3. Loop!cur \in {0, 1} /\ Loop!upd \in {0, 1} /\ Loop!cur # Loop!upd
  BY <1>1, CurFacts DEF Types
<1>4. QED
  BY <1>1, <1>2, <1>3, AllFacts DEF Types, Summed

(* An accepted candidate becomes the current iterate and joins the sum.    *)
LEMMA AcceptIInv == IInv /\ Loop!Accept => IInv'
<1> SUFFICES ASSUME IInv, Loop!Accept PROVE IInv'
  OBVIOUS
<1> USE PdhgAssumption DEF PdhgAssumption
<1>1. /\ lPc = "Update" /\ lPc' = "Head" /\ nIter' = nIter + 1
      /\ avg' = avg /\ res' = res /\ infeas' = infeas /\ term' = term
      /\ iLastRestartIter' = iLastRestartIter /\ last' = last
      /\ late' = late /\ over' = over
  BY DEF Loop!Accept
<1>2. Types /\ Limits /\ Matching /\ Undecided /\ Scored /\ Summed /\ Epoch
  BY DEF IInv
<1>3. /\ nIter \in 0..nIterLim /\ nIter + 1 < nIterLim
      /\ Loop!cur \in {0, 1} /\ Loop!upd \in {0, 1} /\ Loop!cur # Loop!upd
      /\ buf \in [{0, 1} -> Buffers]
      /\ Loop!Step(nIter) \in All /\ Loop!Step(nIter) \in Steps
      /\ sum.of = Accepted(iLastRestartIter, nIter - 1)
  BY <1>1, UpdateFacts
<1>4. Loop!cur' = Loop!upd
  BY <1>1, <1>3 DEF Loop!cur, Loop!upd
<1>5. buf' \in [{0, 1} -> Buffers] /\ Current' = Loop!Buffer(Loop!Step(nIter))
  <2> DEFINE p == IF Adaptive THEN buf[Loop!cur].prod ELSE buf[Loop!cur].xy
             b == [buf EXCEPT ![Loop!upd] = Loop!Buffer(Loop!Step(nIter))]
  <2>1. p \in All
    BY <1>3 DEF Buffers
  <2>2. b \in [{0, 1} -> Buffers] /\ b[Loop!upd] = Loop!Buffer(Loop!Step(nIter))
    BY <1>3 DEF Loop!Buffer, Buffers
  <2>3. buf' = [b EXCEPT ![Loop!cur].prod = p]
    BY Zenon DEF Loop!Accept
  <2> HIDE DEF b, p
  <2>4. QED
    BY <1>3, <1>4, <2>1, <2>2, <2>3 DEF Buffers, Current
<1>6. sum' = [sum EXCEPT !.of = @ \cup {Loop!Step(nIter)}, !.weights = @ + 1]
  BY DEF Loop!Accept, Loop!AddToSum
<1>7. /\ sum'.of = sum.of \cup {Loop!Step(nIter)} /\ sum'.weights = sum.weights + 1
      /\ sum' \in [extra : BOOLEAN, of : SUBSET Steps, weights : Nat]
  <2>1. sum \in [extra : BOOLEAN, of : SUBSET Steps, weights : Nat]
    BY <1>2 DEF Types
  <2> DEFINE of == sum.of \cup {Loop!Step(nIter)}
             w == sum.weights + 1
  <2>2. of \in SUBSET Steps /\ w \in Nat
    BY <1>3, <2>1
  <2>3. sum' = [sum EXCEPT !.of = of, !.weights = w]
    BY <1>6
  <2> HIDE DEF of, w
  <2>4. /\ sum'.of = of /\ sum'.weights = w
        /\ sum' \in [extra : BOOLEAN, of : SUBSET Steps, weights : Nat]
    BY <2>1, <2>2, <2>3
  <2>5. QED
    BY <2>4 DEF of, w
<1>8. Types'
  BY <1>1, <1>2, <1>3, <1>5, <1>7 DEF Types
<1>9. Limits' /\ Undecided' /\ ReturnedWasJudged' /\ InfeasibleWasJudged'
  BY <1>1, <1>2, <1>3 DEF Limits, Undecided, ReturnedWasJudged, Loop!ReturnedWasJudged, InfeasibleWasJudged, Loop!InfeasibleWasJudged
<1>10. Matching'
  BY <1>1, <1>2, <1>5 DEF Matching, Loop!Buffer
<1>11. Scored'
  BY <1>1, <1>2, <1>3 DEF Scored, Types
<1>12. Summed'
  <2>1. sum'.of = Accepted(iLastRestartIter', nIter' - 1)
    <3>1. iLastRestartIter \in 0..nIter /\ nIter' - 1 = nIter
      BY <1>1, <1>2, <1>3 DEF Types
    <3>2. Accepted(iLastRestartIter, nIter) =
            Accepted(iLastRestartIter, nIter - 1) \cup {Loop!Step(nIter)}
      BY <1>3, <3>1 DEF Accepted
    <3>3. QED
      BY <1>1, <1>3, <1>7, <3>1, <3>2
  <2>2. Loop!Step(nIter) \notin sum.of
    <3>1. \A k \in iLastRestartIter..(nIter - 1) : k # nIter
      BY <1>2 DEF Types
    <3>2. \A k : Loop!Step(k).at = k
      BY DEF Loop!Step
    <3>3. \A k \in iLastRestartIter..(nIter - 1) : Loop!Step(k) # Loop!Step(nIter)
      BY <3>1, <3>2
    <3>4. QED
      BY <1>3, <3>3, Zenon DEF Accepted
  <2>3. IsFiniteSet(sum.of) /\ sum.weights = Cardinality(sum.of)
    BY <1>2 DEF Summed
  <2>4. /\ IsFiniteSet(sum.of \cup {Loop!Step(nIter)})
        /\ Cardinality(sum.of \cup {Loop!Step(nIter)}) = Cardinality(sum.of) + 1
    BY <2>2, <2>3, FS_AddElement
  <2>5. QED
    BY <1>7, <2>1, <2>3, <2>4 DEF Summed
<1>13. Epoch'
  <2>1. Current'.xy = Loop!Step(nIter' - 1)
    BY <1>1, <1>3, <1>5 DEF Loop!Buffer
  <2>2. QED
    BY <1>1, <1>2, <2>1 DEF Epoch, Loop!SinceRestart
<1>14. QED
  BY <1>8, <1>9, <1>10, <1>11, <1>12, <1>13 DEF IInv

(* A rejected candidate only touches the other buffer.                     *)
LEMMA RejectIInv == IInv /\ Loop!Reject => IInv'
<1> SUFFICES ASSUME IInv, Loop!Reject PROVE IInv'
  OBVIOUS
<1>1. /\ lPc = "Update" /\ lPc' = "Update" /\ nIter' = nIter /\ sum' = sum /\ Loop!cur' = Loop!cur
      /\ avg' = avg /\ res' = res /\ infeas' = infeas /\ term' = term
      /\ iLastRestartIter' = iLastRestartIter /\ last' = last
      /\ late' = late /\ over' = FALSE
      /\ buf' = [buf EXCEPT ![Loop!upd] = Loop!Buffer(Loop!Rejected(nIter))]
  BY DEF Loop!Reject, Loop!cur
<1>2. Types /\ Limits /\ Matching /\ Undecided /\ Scored /\ Summed /\ Epoch
  BY DEF IInv
<1>3. /\ Loop!cur \in {0, 1} /\ Loop!upd \in {0, 1} /\ Loop!cur # Loop!upd
      /\ buf \in [{0, 1} -> Buffers] /\ Loop!Rejected(nIter) \in All
      /\ sum.of = Accepted(iLastRestartIter, nIter - 1)
  BY <1>1, UpdateFacts
<1>4. buf' \in [{0, 1} -> Buffers] /\ Current' = Current
  BY <1>1, <1>3 DEF Current, Loop!Buffer, Buffers
<1>5. Types'
  BY <1>1, <1>2, <1>4 DEF Types
<1>6. Limits' /\ Undecided' /\ ReturnedWasJudged' /\ InfeasibleWasJudged'
  BY <1>1, <1>2 DEF Limits, Undecided, ReturnedWasJudged, Loop!ReturnedWasJudged, InfeasibleWasJudged, Loop!InfeasibleWasJudged
<1>7. Matching' /\ Scored'
  BY <1>1, <1>2, <1>4 DEF Matching, Scored
<1>8. Summed'
  BY <1>1, <1>2, <1>3 DEF Summed, Accepted
<1>9. Epoch'
  BY <1>1, <1>2, <1>4 DEF Epoch, Loop!SinceRestart
<1>10. QED
  BY <1>5, <1>6, <1>7, <1>8, <1>9 DEF IInv

(* Giving up makes the rejected candidate the current iterate, and leaves  *)
(* the sum without it: the second case of Summed.                          *)
LEMMA GiveUpIInv == IInv /\ Loop!GiveUp => IInv'
<1> SUFFICES ASSUME IInv, Loop!GiveUp PROVE IInv'
  OBVIOUS
<1> USE PdhgAssumption DEF PdhgAssumption
<1>1. /\ lPc = "Update" /\ lPc' = "Head" /\ nIter' = nIter + 1 /\ sum' = sum
      /\ avg' = avg /\ res' = res /\ infeas' = infeas /\ term' = term
      /\ iLastRestartIter' = iLastRestartIter /\ last' = last
      /\ late /\ late' = late /\ over' = TRUE
      /\ buf' = [buf EXCEPT ![Loop!upd] = Loop!Buffer(Loop!Rejected(nIter))]
  BY DEF Loop!GiveUp, Loop!TimeIsUp
<1>2. Types /\ Limits /\ Matching /\ Undecided /\ Scored /\ Summed /\ Epoch
  BY DEF IInv
<1>3. /\ nIter \in 0..nIterLim /\ nIter + 1 < nIterLim
      /\ Loop!cur \in {0, 1} /\ Loop!upd \in {0, 1} /\ Loop!cur # Loop!upd
      /\ buf \in [{0, 1} -> Buffers] /\ Loop!Rejected(nIter) \in All
      /\ sum.of = Accepted(iLastRestartIter, nIter - 1)
  BY <1>1, UpdateFacts
<1>4. buf' \in [{0, 1} -> Buffers] /\ Current' = Loop!Buffer(Loop!Rejected(nIter))
  <2>1. Loop!cur' = Loop!upd
    BY <1>1, <1>3 DEF Loop!cur, Loop!upd
  <2>2. QED
    BY <1>1, <1>3, <2>1 DEF Current, Loop!Buffer, Buffers
<1>5. Types'
  BY <1>1, <1>2, <1>3, <1>4 DEF Types
<1>6. Limits' /\ Undecided' /\ ReturnedWasJudged' /\ InfeasibleWasJudged'
  BY <1>1, <1>2, <1>3 DEF Limits, Undecided, ReturnedWasJudged, Loop!ReturnedWasJudged, InfeasibleWasJudged, Loop!InfeasibleWasJudged
<1>7. Matching'
  BY <1>1, <1>2, <1>4 DEF Matching, Loop!Buffer
<1>8. Scored'
  BY <1>1, <1>2, <1>3 DEF Scored, Types
<1>9. Summed'
  <2>1. nIter' - 2 = nIter - 1 /\ iLastRestartIter' < nIter'
    BY <1>1, <1>2, <1>3 DEF Types
  <2>2. sum'.of = Accepted(iLastRestartIter', nIter' - 2)
    BY <1>1, <1>3, <2>1 DEF Accepted
  <2>3. QED
    BY <1>1, <1>2, <2>1, <2>2 DEF Summed
<1>10. Epoch'
  <2>1. late' /\ over' /\ lPc' = "Head"
    BY <1>1
  <2>2. QED
    BY <1>1, <1>2, <2>1 DEF Epoch, Loop!SinceRestart
<1>11. QED
  BY <1>5, <1>6, <1>7, <1>8, <1>9, <1>10 DEF IInv

LEMMA StutterIInv == IInv /\ UNCHANGED Loop!vars => IInv'
<1> SUFFICES ASSUME IInv, UNCHANGED Loop!vars PROVE IInv'
  OBVIOUS
<1>1. Loop!cur' = Loop!cur /\ Current' = Current
  BY DEF Loop!vars, Loop!cur, Current
<1>2. Types'
  BY DEF IInv, Types, Loop!vars
<1>3. Limits' /\ Matching' /\ Undecided' /\ Scored' /\ Summed'
  BY <1>1 DEF IInv, Loop!vars, Limits, Matching, Undecided, Scored, Summed
<1>4. ReturnedWasJudged' /\ InfeasibleWasJudged'
  BY <1>1 DEF IInv, Loop!vars, ReturnedWasJudged, Loop!ReturnedWasJudged, InfeasibleWasJudged, Loop!InfeasibleWasJudged, Loop!Printed, Loop!Saved, Loop!LimitNamed
<1>5. Epoch'
  BY <1>1 DEF IInv, Loop!vars, Epoch, Loop!SinceRestart, Loop!Average
<1>6. QED
  BY <1>2, <1>3, <1>4, <1>5 DEF IInv

-----------------------------------------------------------------------------
(* IInv holds in every state of the loop: one step per action.             *)
THEOREM Invariant == Loop!Spec => []IInv
<1>1. IInv /\ [Loop!Next]_(Loop!vars) => IInv'
  <2> SUFFICES ASSUME IInv, [Loop!Next]_(Loop!vars) PROVE IInv'
    OBVIOUS
  <2>1. CASE Loop!Stopped \/ UNCHANGED Loop!vars
    BY <2>1, StutterIInv DEF Loop!Stopped
  <2>2. CASE Loop!Head
    BY <2>2, HeadIInv
  <2>3. CASE Loop!Accept
    BY <2>3, AcceptIInv
  <2>4. CASE Loop!Reject
    BY <2>4, RejectIInv
  <2>5. CASE Loop!GiveUp
    BY <2>5, GiveUpIInv
  <2>6. CASE Loop!TimePasses
    BY <2>6, TimePassesIInv
  <2>7. ASSUME NEW a \in BOOLEAN, NEW b \in BOOLEAN, NEW fired \in SUBSET Loop!Test,
               Loop!Check(a, b, fired)
        PROVE  IInv'
    BY <2>7, CheckIInv
  <2>8. ASSUME NEW a \in BOOLEAN, NEW b \in BOOLEAN, NEW d \in Loop!Decays, Loop!Restart(a, d, b)
        PROVE  IInv'
    BY <2>8, RestartIInv
  <2>9. QED
    BY <2>1, <2>2, <2>3, <2>4, <2>5, <2>6, <2>7, <2>8, Zenon DEF Loop!Next, Loop!UpdateIterate
<1>2. QED
  BY <1>1, InitIInv, PTL DEF Loop!Spec

-----------------------------------------------------------------------------
(* The loop is never left by its own condition: nIter stays below          *)
(* nIterLim.  With it, the types of all the variables.                     *)
THEOREM TypeCorrect == Loop!Spec => []LoopTypeOK
<1>1. IInv => LoopTypeOK
  <2> SUFFICES ASSUME IInv PROVE LoopTypeOK
    OBVIOUS
  <2>1. Types /\ Limits
    BY DEF IInv
  <2>2. \A b \in Buffers : Loop!IsIterate(b.xy) /\ Loop!IsIterate(b.prod)
    BY AllAreIterates DEF Buffers
  <2>3. \A i \in {last.xy, last.score, last.candidate, last.ratio.from, last.ratio.to} :
          Loop!IsIterate(i)
    BY <2>1, AllAreIterates DEF Types, Ratios
  <2>4. {late, over} \subseteq BOOLEAN
    BY <2>1, Zenon DEF Types
  <2>5. /\ lPc \in {"Head", "Check", "Restart", "Update", "Done"}
        /\ nIter \in Nat /\ (nIterLim > 0 => nIter < nIterLim)
        /\ iLastRestartIter \in 0..nIter
        /\ buf[0] \in Buffers /\ buf[1] \in Buffers /\ avg \in Buffers
    BY <2>1 DEF Types, Limits
  <2>6. \A b \in {buf[0], buf[1], avg} : Loop!IsIterate(b.xy) /\ Loop!IsIterate(b.prod)
    BY <2>2, <2>5
  <2>7. QED
    BY <2>3, <2>4, <2>5, <2>6 DEF LoopTypeOK, Loop!TypeOK
<1>2. QED
  BY <1>1, Invariant, PTL

(* ax and aty belong to the current x and y wherever the loop uses them.   *)
THEOREM ProductsAreCurrent == Loop!Spec => []ProductsMatch
<1>1. IInv => ProductsMatch
  BY DEF IInv, Matching, ProductsMatch, Loop!ProductsMatch, Current
<1>2. QED
  BY <1>1, Invariant, PTL

(* The iterate, the slacks and the residuals that leave PDHG_Solve are     *)
(* those the verdict was reached on.                                       *)
THEOREM ReturnedIsJudged == Loop!Spec => []ReturnedWasJudged
<1>1. IInv => ReturnedWasJudged
  BY DEF IInv
<1>2. QED
  BY <1>1, Invariant, PTL

(* A certificate of infeasibility is computed from one iterate, the one    *)
(* that is named with the verdict.                                         *)
THEOREM InfeasibleIsJudged == Loop!Spec => []InfeasibleWasJudged
<1>1. IInv => InfeasibleWasJudged
  BY DEF IInv
<1>2. QED
  BY <1>1, Invariant, PTL

(* The decay that decides a restart is measured from the iterate of the    *)
(* last restart, a candidate is compared with one of the same epoch, and   *)
(* the primal weight is measured between two different iterates.           *)
THEOREM DecayIsFromLastRestart == Loop!Spec => []DecayFromLastRestart
<1>1. IInv => DecayFromLastRestart
  BY DEF IInv, Types, Scored, Epoch, DecayFromLastRestart, Loop!DecayFromLastRestart
<1>2. QED
  BY <1>1, Invariant, PTL

(* The average is over the accepted iterates since the last restart.       *)
THEOREM SumIsSinceRestart == Loop!Spec => []SumSinceRestart
<1>1. IInv => SumSinceRestart
  <2> SUFFICES ASSUME IInv PROVE SumSinceRestart
    OBVIOUS
  <2>1. Types /\ Summed
    BY DEF IInv
  <2> DEFINE all == Accepted(iLastRestartIter, nIter - 1)
             missing == {Loop!Step(nIter - 1)} \ sum.of
  <2>2. sum.of = all \ (IF late THEN missing ELSE {})
    <3>1. CASE sum.of = all
      <4>1. all \ missing = all
        BY <3>1
      <4>2. QED
        BY <3>1, <4>1
    <3>2. CASE /\ late /\ iLastRestartIter < nIter
               /\ sum.of = Accepted(iLastRestartIter, nIter - 2)
      <4>1. iLastRestartIter \in Nat /\ nIter \in Nat /\ iLastRestartIter <= nIter - 1
        BY <2>1, <3>2 DEF Types
      <4>2. all = sum.of \cup {Loop!Step(nIter - 1)}
        BY <3>2, <4>1 DEF Accepted
      <4>3. Loop!Step(nIter - 1) \notin sum.of
        <5>1. \A k \in iLastRestartIter..(nIter - 2) : k # nIter - 1
          BY <4>1
        <5>2. \A k : Loop!Step(k).at = k
          BY DEF Loop!Step
        <5>3. \A k \in iLastRestartIter..(nIter - 2) : Loop!Step(k) # Loop!Step(nIter - 1)
          BY <5>1, <5>2
        <5>4. QED
          BY <3>2, <5>3, Zenon DEF Accepted
      <4>4. all \ missing = sum.of
        BY <4>2, <4>3
      <4>5. QED
        BY <3>2, <4>4
    <3>3. QED
      BY <2>1, <3>1, <3>2 DEF Summed
  <2>3. QED
    BY <2>1, <2>2, Zenon DEF SumSinceRestart, Loop!SumSinceRestart, Summed, Accepted,
                             Loop!Cardinality, Cardinality
<1>2. QED
  BY <1>1, Invariant, PTL

(* No step is computed once the loop has seen the time limit passed.       *)
THEOREM NoUpdateIsLate == Loop!Spec => []NoUpdateWhenOver
<1>1. IInv => NoUpdateWhenOver
  BY DEF IInv, Limits, NoUpdateWhenOver, Loop!NoUpdateWhenOver
<1>2. QED
  BY <1>1, Invariant, PTL
=============================================================================
