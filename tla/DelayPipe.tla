------------------------------ MODULE DelayPipe ------------------------------
(***************************************************************************)
(* fproduct.sv and float_to_fixed.sv: an arithmetic function behind a      *)
(* delay line (delay.sv) that shifts at every edge and never stalls, with  *)
(* in_ready wired to the consumer's ready.  The results are left out: what *)
(* a register holds is whether it holds a word.                            *)
(***************************************************************************)
EXTENDS Naturals

CONSTANTS
  DELAY,     \* parameter DELAY
  None       \* in_valid low

VARIABLES
  regs,      \* the registers of delay.sv, youngest first
  ready,     \* the consumer's ready in the current cycle
  late       \* observation: words that came out since ready fell

vars == <<regs, ready, late>>

-----------------------------------------------------------------------------
(* regs[0] of the source is a wire: DELAY cycles are DELAY - 1 registers.  *)
Stages_OneMore == DELAY   \* fault: regs[0] registered as well
Stages == IF DELAY = 0 THEN 0 ELSE DELAY - 1

(* The word shown in a cycle in which `in` is offered.                     *)
out(in) == IF Stages = 0 THEN in ELSE regs[Stages]

Init ==
  /\ regs = [i \in 1..Stages |-> None]
  /\ ready = TRUE
  /\ late = 0

(* One clock edge: a producer that respects in_ready offers a word or not. *)
in_ready == ready

Clock(in_valid, nextReady) ==
  LET in == IF in_valid THEN TRUE ELSE None
  IN  /\ in_valid => in_ready
      /\ regs' = [i \in 1..Stages |-> IF i = 1 THEN in ELSE regs[i - 1]]
      /\ ready' = nextReady
      /\ late' = IF ready THEN 0
                 ELSE IF out(in) # None THEN late + 1 ELSE late

Next == \E in_valid, nextReady \in BOOLEAN : Clock(in_valid, nextReady)

Spec == Init /\ [][Next]_vars

-----------------------------------------------------------------------------
(* The line cannot hold its words back, so a consumer that lowers ready    *)
(* still receives what is in it.  At most DELAY - 1 words come out after   *)
(* ready fell: that much room behind the line makes the handshake safe.    *)
SlackSuffices == late < DELAY
=============================================================================
