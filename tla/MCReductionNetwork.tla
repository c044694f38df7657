------------------------- MODULE MCReductionNetwork -------------------------
(***************************************************************************)
(* The network with four lanes, the smallest that has two layers and a row *)
(* of skid buffers between them, and with six, the smallest in which two   *)
(* layers share one combinational section.  The initial state chooses      *)
(* which of them is clocked; the other stays idle.                         *)
(***************************************************************************)
EXTENDS ReductionNetwork

CONSTANT SixWords   \* words offered to the network of six lanes in all (bound)

VARIABLES
  lanes,                        \* of the network that is clocked
  pipe6, idOf6, delivered6      \* the network of six

sixVars == <<pipe6, idOf6, delivered6>>

Six == INSTANCE ReductionNetwork WITH
         N <- 6, MaxWords <- SixWords, pipe <- pipe6, idOf <- idOf6, delivered <- delivered6

WidthsInit == lanes \in {N, 6} /\ Init /\ Six!Init

WidthsNext ==
  /\ UNCHANGED lanes
  /\ IF lanes = 6 THEN Six!Next ELSE UNCHANGED sixVars
  /\ IF lanes = 6 THEN UNCHANGED vars ELSE Next

(* Fairness of ReductionNetwork, for the network of six when it is clocked. *)
WidthsSpec ==
  /\ WidthsInit /\ [][WidthsNext]_<<lanes, vars, sixVars>>
  /\ WF_sixVars(lanes = 6 /\ Six!Quiet({})) /\ \A k \in Six!Lane : Six!KeepsPopping(k)

(* See ReductionNetwork: six lanes lose no word either, whichever of them  *)
(* stall, and always become empty again.                                   *)
SixConserve == Six!Conservation
SixDrain == Six!AlwaysDrains
=============================================================================
