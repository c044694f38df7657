--------------------------- MODULE FlowController ---------------------------
(***************************************************************************)
(* flow_controller.sv: input ports write words into output registers that  *)
(* they address, and the registers are shown as one set once every one of  *)
(* them has been written.  Several inputs may name one register in one     *)
(* cycle: the highest port wins.                                           *)
(***************************************************************************)
EXTENDS Naturals, FiniteSets, FiniteSetsExt

CONSTANTS
  INPUT_PORTS, OUTPUT_PORTS,   \* parameters of the same names
  Data,                        \* the values of a din/dout word
  None

VARIABLES
  dout,            \* the output registers
  current_valid,   \* the registers written since the last shift_out
  valid,           \* the set is complete (registered, one cycle late)
  lastSent         \* observation: per register, the last word that was
                   \* accepted for it after the last shift_out, or None

vars == <<dout, current_valid, valid, lastSent>>

In  == 0..(INPUT_PORTS - 1)
Out == 0..(OUTPUT_PORTS - 1)

-----------------------------------------------------------------------------
ready_Always(shift_out) == TRUE   \* fault: writes pass while the set is shown
ready(shift_out) == shift_out \/ ~valid

(* The loop over the inputs: req[i] is [to, word], or None if not valid_in. *)
Writers(req, o) == {i \in In : req[i] # None /\ req[i].to = o}

dout_b(req, shift_out) ==
  [o \in Out |-> IF ready(shift_out) /\ Writers(req, o) # {}
                 THEN req[Max(Writers(req, o))].word ELSE dout[o]]

current_valid_b(req, shift_out) ==
  current_valid \cup {o \in Out : ready(shift_out) /\ Writers(req, o) # {}}

Init ==
  /\ dout \in [Out -> Data]
  /\ current_valid = {}
  /\ valid = FALSE
  /\ lastSent = [o \in Out |-> None]

(* One clock edge.  The registers are not cleared by rst_n, and a word     *)
(* accepted in a cycle with shift_out is written but not marked.           *)
Clock(rst_n, req, shift_out) ==
  LET cleared == ~rst_n \/ shift_out
  IN  /\ dout' = dout_b(req, shift_out)
      /\ current_valid' = IF cleared THEN {} ELSE current_valid_b(req, shift_out)
      /\ valid' = (~cleared /\ current_valid = Out)
      /\ lastSent' = [o \in Out |->
           IF cleared THEN None
           ELSE IF Writers(req, o) # {} /\ ~valid THEN req[Max(Writers(req, o))].word
           ELSE lastSent[o]]

Request == [to : Out, word : Data]

Next == \E rst_n, shift_out \in BOOLEAN, req \in [In -> Request \cup {None}] :
          Clock(rst_n, req, shift_out)

Spec == Init /\ [][Next]_vars

-----------------------------------------------------------------------------
(* What is shown as a complete set is one: every word in it was sent after *)
(* the previous set was taken, is the last one sent to its register before *)
(* the set was shown, and stays until it is taken.                         *)
ShownSetIsFresh == valid => dout = lastSent
=============================================================================
