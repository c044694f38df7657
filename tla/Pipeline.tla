------------------------------ MODULE Pipeline ------------------------------
(***************************************************************************)
(* pipeline.sv as a state machine: one stage between a producer and a      *)
(* consumer that stall independently.  PIPE_LINE selects the skid buffer   *)
(* (1) or the plain register (0).  One step is one rising clock edge.      *)
(***************************************************************************)
EXTENDS Naturals, Sequences, SkidStage

CONSTANTS
  PIPE_LINE,   \* parameter PIPE_LINE
  Data,        \* the values of in_data/out_data
  None         \* "no word at this edge"

VARIABLES
  stage,     \* the registers, a record of StageType(Data)
  offered,   \* in_data at an edge with in_valid, else None
  taken,     \* out_data at an edge with out_valid && out_ready, else None
  refused    \* in_valid && !in_ready at the last edge

vars == <<stage, offered, taken, refused>>

-----------------------------------------------------------------------------
InReady(out_ready) ==
  IF PIPE_LINE = 1 THEN stage.ready ELSE PipeReady(stage, out_ready)

StageNext(in_valid, in_data, out_ready) ==
  IF PIPE_LINE = 1
  THEN SkidNext(stage, in_valid, in_data, out_ready)
  ELSE RegNext(stage, in_valid, in_data, out_ready)

(* For one cycle after a reset the skid buffer stores what is offered but  *)
(* shows in_ready low.  Its environment offers nothing in that cycle: the  *)
(* stages upstream are being reset too and the testbenches idle there.     *)
ProducerMayOffer == PIPE_LINE = 1 => stage.ready \/ stage.state = "SKID"

Init ==
  /\ \E word, spare \in Data : stage = AfterReset(word, spare)
  /\ offered = None
  /\ taken = None
  /\ refused = FALSE

(* rst_n low at the edge.                                                  *)
Reset ==
  /\ \E word, spare \in Data : stage' = AfterReset(word, spare)
  /\ offered' = None
  /\ taken' = None
  /\ refused' = FALSE

(* rst_n high at the edge.                                                 *)
Clock(in_valid, in_data, out_ready) ==
  /\ in_valid => ProducerMayOffer
  /\ stage' = StageNext(in_valid, in_data, out_ready)
  /\ offered' = IF in_valid THEN in_data ELSE None
  /\ taken' = IF stage.valid /\ out_ready THEN stage.data ELSE None
  /\ refused' = (in_valid /\ ~InReady(out_ready))

Next ==
  \/ \E in_valid, out_ready \in BOOLEAN, in_data \in Data :
       Clock(in_valid, in_data, out_ready)
  \/ Reset

Spec == Init /\ [][Next]_vars

(* The consumer does not stall for ever: it is ready again and again.      *)
ConsumerFairness ==
  WF_vars(\E in_valid \in BOOLEAN, in_data \in Data :
            Clock(in_valid, in_data, TRUE))

FairSpec == Spec /\ ConsumerFairness

-----------------------------------------------------------------------------
(* Type invariant, with the shape of the skid buffer's registers: both     *)
(* words are valid in SKID and in_ready is low exactly there.              *)
TypeOK ==
  /\ stage \in StageType(Data)
  /\ {offered, taken} \subseteq Data \cup {None}
  /\ refused \in BOOLEAN
  /\ PIPE_LINE = 1 => SkidShape(stage)
  /\ PIPE_LINE = 0 => stage.state = "PIPE"

(* The words in the stage, oldest first.                                   *)
Contents == SkidContents(stage)

(* The skid buffer is a queue of two words and the plain register one of   *)
(* one word that refills while it is popped: whatever the pattern of       *)
(* stalls, words leave in order, none is lost or duplicated, and in_ready  *)
(* is low only when the stage has no room.                                 *)
Fifo == INSTANCE BoundedFifo WITH
          Capacity <- 1 + PIPE_LINE, FlowThrough <- (PIPE_LINE = 0),
          q <- Contents

ImplementsFifo == Fifo!Spec

(* A stall is never permanent: as long as the consumer keeps becoming      *)
(* ready, a stage that holds a word accepts a new one again.               *)
ReadyReturns == stage.valid ~> InReady(TRUE)
=============================================================================
