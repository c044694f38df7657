----------------------------- MODULE SkidStage -----------------------------
(***************************************************************************)
(* The two register stages of pipeline.sv as functions of the registers    *)
(* and of the inputs sampled at a clock edge.  The state machines of the   *)
(* datapath (Pipeline, ReductionNetwork, RowDecoder) are built from them.  *)
(*                                                                         *)
(* A stage is a record of its registers:                                   *)
(*   state  "PIPE" or "SKID"       data, spare  the two word registers     *)
(*   valid  out_valid              ready        in_ready (registered)      *)
(* The plain register (PIPE_LINE = 0) uses valid and data only.            *)
(***************************************************************************)

StageType(Word) ==
  [state : {"PIPE", "SKID"}, data : Word, spare : Word,
   valid : BOOLEAN, ready : BOOLEAN]

(* Registers as rst_n leaves them; data_r and spare_r are not reset.       *)
AfterReset(word, spare) ==
  [state |-> "PIPE", data |-> word, spare |-> spare,
   valid |-> FALSE, ready |-> FALSE]

PipeReady(s, out_ready) == out_ready \/ ~s.valid

(* Fault: in_ready is not raised when the spare register drains.           *)
SkidNext_ReadyStaysLow(s, in_valid, in_data, out_ready) ==
  IF s.state = "PIPE"
  THEN IF PipeReady(s, out_ready)
       THEN [s EXCEPT !.data = in_data, !.valid = in_valid, !.ready = TRUE]
       ELSE IF in_valid
            THEN [s EXCEPT !.spare = in_data, !.ready = FALSE, !.state = "SKID"]
            ELSE s
  ELSE IF out_ready
       THEN [s EXCEPT !.data = s.spare, !.valid = TRUE, !.state = "PIPE"]
       ELSE s

(* Fault: SKID is left on a full handshake, which in_ready low prevents.   *)
SkidNext_WaitsForHandshake(s, in_valid, in_data, out_ready) ==
  IF s.state = "PIPE"
  THEN IF PipeReady(s, out_ready)
       THEN [s EXCEPT !.data = in_data, !.valid = in_valid, !.ready = TRUE]
       ELSE IF in_valid
            THEN [s EXCEPT !.spare = in_data, !.ready = FALSE, !.state = "SKID"]
            ELSE s
  ELSE IF out_ready /\ s.ready
       THEN [s EXCEPT !.data = s.spare, !.valid = TRUE, !.ready = TRUE,
                      !.state = "PIPE"]
       ELSE s

(* Fault: the word that arrives during a stall is dropped.                 *)
SkidNext_DropsSpare(s, in_valid, in_data, out_ready) ==
  IF PipeReady(s, out_ready)
  THEN [s EXCEPT !.data = in_data, !.valid = in_valid, !.ready = TRUE]
  ELSE s

(* PIPE_LINE = 1, the skid buffer: the always_comb case of skid_gen.       *)
SkidNext(s, in_valid, in_data, out_ready) ==
  IF s.state = "PIPE"
  THEN IF PipeReady(s, out_ready)
       THEN [s EXCEPT !.data = in_data, !.valid = in_valid, !.ready = TRUE]
       ELSE IF in_valid
            THEN [s EXCEPT !.spare = in_data, !.ready = FALSE, !.state = "SKID"]
            ELSE s
  ELSE IF out_ready
       THEN [s EXCEPT !.data = s.spare, !.valid = TRUE, !.ready = TRUE,
                      !.state = "PIPE"]
       ELSE s

(* PIPE_LINE = 0, the plain register of pipe_gen.                          *)
RegNext(s, in_valid, in_data, out_ready) ==
  IF PipeReady(s, out_ready)
  THEN [s EXCEPT !.data = in_data, !.valid = in_valid]
  ELSE s

(* The words a skid stage holds, oldest first.                             *)
SkidContents(s) ==
  IF ~s.valid THEN <<>>
  ELSE IF s.state = "SKID" THEN <<s.data, s.spare>> ELSE <<s.data>>

(* What the registers of a skid stage always satisfy: it is in SKID only   *)
(* with both words valid and in_ready low, and a word never waits in the   *)
(* PIPE state while in_ready is low.                                       *)
SkidShape(s) ==
  /\ s.state = "SKID" => s.valid /\ ~s.ready
  /\ s.state = "PIPE" /\ s.valid => s.ready
=============================================================================
