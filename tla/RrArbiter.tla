------------------------------ MODULE RrArbiter ------------------------------
(***************************************************************************)
(* so_rr_arbiter.sv: NUM_INPUTS ports, each with a basic_sync_fifo of its  *)
(* own, share one output.  The bit trick on double_req picks the first     *)
(* non-empty port at or after base.  The words themselves are left to      *)
(* SyncFifo: a port is the number of words its queue holds.                *)
(***************************************************************************)
EXTENDS Integers, FiniteSets, FiniteSetsExt

CONSTANTS
  NUM_INPUTS,   \* parameter NUM_INPUTS
  FIFO_DEPTH,   \* parameter FIFO_DEPTH
  ReadyHeld     \* does the consumer keep ready high?

ASSUME ArbiterAssumption ==
  /\ NUM_INPUTS \in Nat /\ NUM_INPUTS >= 2    \* base_r[NUM_INPUTS-2:0]
  /\ FIFO_DEPTH \in Nat /\ FIFO_DEPTH >= 2
  /\ ReadyHeld \in BOOLEAN

VARIABLES
  level,    \* words in each input FIFO
  base_r,   \* the position of the one bit of base_r
  served,   \* ports whose head was shifted out at the last edge
  waited    \* ready edges each waiting port has been passed over

vars == <<level, base_r, served, waited>>

Port == 0..(NUM_INPUTS - 1)

-----------------------------------------------------------------------------
fifo_req == {i \in Port : level[i] > 0}
in_ready_Always == Port   \* fault: a full port still takes words

in_ready == {i \in Port : level[i] < FIFO_DEPTH - 1}   \* ~fifo_full, see SyncFifo

(* Vectors of 2 * NUM_INPUTS bits as sets of positions, and the numbers    *)
(* they stand for: Low[k][X] is what the lowest k bits of X are worth.     *)
Bit == 0..(2 * NUM_INPUTS - 1)
Weight[k \in Nat] == IF k = 0 THEN 1 ELSE 2 * Weight[k - 1]
Low[k \in Nat] ==
  [X \in SUBSET Bit |->
    IF k = 0 THEN 0 ELSE Low[k - 1][X] + (IF k - 1 \in X THEN Weight[k - 1] ELSE 0)]
Value == [X \in SUBSET Bit |-> Low[2 * NUM_INPUTS][X]]
Bits == [x \in 0..(Weight[2 * NUM_INPUTS] - 1) |-> CHOOSE X \in SUBSET Bit : Value[X] = x]
Minus(x, y, width) == (x + Weight[width] - y) % Weight[width]

double_req == fifo_req \cup {i + NUM_INPUTS : i \in fifo_req}

Grant_NoDouble ==  \* fault: requests below base are not seen
  {i \in fifo_req : i \notin Bits[Minus(Value[fifo_req], Value[{base_r}], NUM_INPUTS)]}

Grant ==
  LET minus == Minus(Value[double_req], Value[{base_r}], 2 * NUM_INPUTS)
      double_grant == IF fifo_req = {} THEN {} ELSE double_req \ Bits[minus]
  IN  {i \in Port : {i, i + NUM_INPUTS} \cap double_grant # {}}

NextBase_Fixed == base_r   \* fault: base is never rotated

NextBase == IF Grant # {} THEN (base_r + 1) % NUM_INPUTS ELSE base_r

fifo_shift_out(ready) == IF ready THEN Grant \cap fifo_req ELSE {}

-----------------------------------------------------------------------------
Init ==
  /\ level = [i \in Port |-> 0]
  /\ base_r = 0
  /\ served = {}
  /\ waited = [i \in Port |-> 0]

Reset ==
  /\ level' = [i \in Port |-> 0]
  /\ base_r' = 0
  /\ served' = {}
  /\ waited' = [i \in Port |-> 0]

(* One clock edge: the ports in req offer a word, the consumer shows ready. *)
Clock(req, ready) ==
  /\ ReadyHeld => ready
  /\ served' = fifo_shift_out(ready)
  /\ level' = [i \in Port |->
       level[i] + (IF i \in req \cap in_ready THEN 1 ELSE 0)
                - (IF i \in fifo_shift_out(ready) THEN 1 ELSE 0)]
  /\ base_r' = NextBase
  /\ waited' = [i \in Port |->
       IF i \notin fifo_req \/ i \in fifo_shift_out(ready) THEN 0
       ELSE IF ready THEN Min({waited[i] + 1, NUM_INPUTS}) ELSE waited[i]]

Next ==
  \/ \E req \in SUBSET Port, ready \in BOOLEAN : Clock(req, ready)
  \/ Reset

Spec == Init /\ [][Next]_vars

-----------------------------------------------------------------------------
(* Type invariant: no port ever holds more than its FIFO's DEPTH - 1 words. *)
TypeOK ==
  /\ level \in [Port -> 0..(FIFO_DEPTH - 1)]
  /\ base_r \in Port
  /\ served \subseteq Port
  /\ waited \in [Port -> 0..NUM_INPUTS]

(* The subtraction picks exactly the first requester at or after base,     *)
(* going round: one word leaves a cycle.  The output loop keeps only the   *)
(* last granted port's word, so a second grant would lose a word.          *)
Distance(i) == (i + NUM_INPUTS - base_r) % NUM_INPUTS
GrantsFirstFromBase ==
  Grant = {i \in fifo_req : \A j \in fifo_req : Distance(i) <= Distance(j)}

(* With the consumer always ready no port is passed over NUM_INPUTS times  *)
(* in a row, whatever the other ports offer.  (base moves on a grant that  *)
(* ready does not complete, so this needs ReadyHeld.)                      *)
WaitIsBounded == ReadyHeld => \A i \in Port : waited[i] < NUM_INPUTS
=============================================================================
