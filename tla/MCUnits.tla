------------------------------ MODULE MCUnits ------------------------------
(***************************************************************************)
(* The units that buffer words (basic_sync_fifo, ctrl_data_fifo,           *)
(* flow_controller), register a stream on its way (pipeline, delay) and    *)
(* supply operands (so_rr_arbiter, vector_ping_pong, uram), checked in one *)
(* run: the initial state chooses which of them is clocked, and the others *)
(* stay as they are.                                                       *)
(***************************************************************************)
EXTENDS RrArbiter, Sequences

CONSTANTS
  DEPTH,                      \* parameter of basic_sync_fifo
  INPUT_PORTS, OUTPUT_PORTS,  \* parameters of flow_controller
  PIPE_LINE, DELAY,           \* parameters of pipeline and of fproduct
  Data,                       \* the words of a stream
  Word,                       \* the words of a memory
  None,                       \* no word
  LENGTH, PARALLELISM,        \* parameters of the vectors
  XRequests, NextRequests, RomRequests,
  UramAddr, NBPIPE            \* addresses and parameter of the URAM

(* PTR_WIDTH = $clog2(DEPTH): the pointers count modulo 2^PTR_WIDTH and    *)
(* index mem[DEPTH-1:0], so only powers of two stay inside the memory.     *)
ASSUME DepthAssumption == DEPTH \in Nat \ {0, 1}
ASSUME DepthIsPowerOfTwo == \E w \in 1..DEPTH : DEPTH = 2^w
ASSUME PipelineAssumption == PIPE_LINE \in {0, 1}
ASSUME DataAssumption == None \notin Data /\ Data # {}

VARIABLES
  unit,                                              \* the unit that is clocked
  mem, rd_ptr_r, wr_ptr_r, offered, taken, overflow_r,                 \* SyncFifo
  dataQ, dataIn, dataOut, data_overflow,
  ctrlQ, ctrlIn, ctrlOut, ctrl_overflow, nData, nCtrl,             \* CtrlDataFifo
  fcDout, current_valid, fcValid, lastSent,                      \* FlowController
  stage, stageIn, stageOut, refused,                                   \* Pipeline
  regs, ready, late,                                                  \* DelayPipe
  ping_r, ram, req, rom,                                         \* VectorPingPong
  uramMem, path, due                                                       \* Uram

ringVars   == <<mem, rd_ptr_r, wr_ptr_r, offered, taken, overflow_r>>
pairVars   == <<dataQ, dataIn, dataOut, data_overflow,
                ctrlQ, ctrlIn, ctrlOut, ctrl_overflow, nData, nCtrl>>
flowVars   == <<fcDout, current_valid, fcValid, lastSent>>
stageVars  == <<stage, stageIn, stageOut, refused>>
lineVars   == <<regs, ready, late>>
vectorVars == <<ping_r, ram, req, rom>>
memoryVars == <<uramMem, path, due>>
allVars    == <<unit, vars, ringVars, pairVars, flowVars, stageVars, lineVars,
                vectorVars, memoryVars>>

Ring    == INSTANCE SyncFifo
Pair    == INSTANCE CtrlDataFifo WITH PopOnValid <- TRUE
Flow    == INSTANCE FlowController WITH dout <- fcDout, valid <- fcValid
Stage   == INSTANCE Pipeline WITH offered <- stageIn, taken <- stageOut
Line    == INSTANCE DelayPipe
Vectors == INSTANCE VectorPingPong WITH Data <- Word
Memory  == INSTANCE Uram WITH Data <- Word, Addr <- UramAddr, mem <- uramMem
-----------------------------------------------------------------------------
First == CHOOSE w \in Word : TRUE
Other == CHOOSE w \in Word : w # First

(* Requests of two ports over two addresses.  What goes to x writes First, *)
(* one word at both ports, and what goes to x_n writes Other: both words,  *)
(* or both ports one address with different words.                         *)
Both(a, b) == [j \in 0..1 |-> IF j = 0 THEN a ELSE b]
Request(valid, write, addr, wdata) ==
  [valid |-> valid, write |-> write, addr |-> addr, wdata |-> wdata]
Idle    == Request(FALSE, FALSE, Both(0, 0), Both(First, First))
ReadAll == Request(TRUE, FALSE, Both(0, 1), Both(First, First))
MCXRequests == {Idle, ReadAll, Request(TRUE, TRUE, Both(0, 1), Both(First, First))}
MCNextRequests == {Idle, ReadAll, Request(TRUE, TRUE, Both(0, 1), Both(Other, Other)),
                   Request(TRUE, TRUE, Both(1, 1), Both(First, Other))}

MCRomRequests == {ReadAll}
MCUramAddr == {0}
-----------------------------------------------------------------------------
SomeWord == CHOOSE d \in Data : TRUE

UnitsInit ==
  /\ unit \in {"basic_sync_fifo", "ctrl_data_fifo", "flow_controller", "pipeline", "delay",
               "rr_arbiter", "vector_ping_pong", "uram"}
  /\ Ring!Init /\ Pair!Init /\ Flow!Init /\ Stage!Init /\ Line!Init
  /\ Init /\ Vectors!Init /\ Memory!Init
  /\ unit # "basic_sync_fifo" => mem = [p \in Ring!Ptr |-> SomeWord]
  /\ unit # "flow_controller" => fcDout = [o \in Flow!Out |-> SomeWord]
  /\ unit # "pipeline" => stage = Stage!AfterReset(SomeWord, SomeWord)
  /\ unit # "vector_ping_pong" => ram = [b \in {0, 1} |-> [a \in Vectors!Addr |-> First]]
  /\ unit # "uram" => uramMem = [a \in UramAddr |-> First] /\ path["a"].dout = First

UnitsNext ==
  /\ UNCHANGED unit
  /\ IF unit = "basic_sync_fifo" THEN Ring!Next ELSE UNCHANGED ringVars
  /\ IF unit = "ctrl_data_fifo" THEN Pair!Next ELSE UNCHANGED pairVars
  /\ IF unit = "flow_controller" THEN Flow!Next ELSE UNCHANGED flowVars
  /\ IF unit = "pipeline" THEN Stage!Next ELSE UNCHANGED stageVars
  /\ IF unit = "delay" THEN Line!Next ELSE UNCHANGED lineVars
  /\ IF unit = "rr_arbiter" THEN Next ELSE UNCHANGED vars
  /\ IF unit = "vector_ping_pong" THEN Vectors!Next ELSE UNCHANGED vectorVars
  /\ IF unit = "uram" THEN Memory!Next ELSE UNCHANGED memoryVars

(* ConsumerFairness of Pipeline, when the stage is clocked.                *)
UnitsSpec ==
  /\ UnitsInit /\ [][UnitsNext]_allVars
  /\ WF_stageVars(unit = "pipeline" /\ \E in_valid \in BOOLEAN, in_data \in Data :
                                       Stage!Clock(in_valid, in_data, TRUE))

(* See SyncFifo: the pointers stay inside the memory; the ring buffer is a *)
(* queue of DEPTH - 1 words.                                               *)
RingTypeOK == Ring!TypeOK
RingImplementsFifo == Ring!ImplementsFifo

(* See CtrlDataFifo and FlowController: no pop takes half a pair; a set    *)
(* that is shown is complete and the newest that was sent.                 *)
PairsStayTogether == Pair!PairsStayTogether
ShownSetIsFresh == Flow!ShownSetIsFresh

(* See Pipeline and DelayPipe: the stage keeps its shape; it is a queue of *)
(* two words (one with PIPE_LINE = 0) that accepts words again and again;  *)
(* DELAY - 1 free places behind the line are enough.                       *)
StageTypeOK == Stage!TypeOK
StageImplementsFifo == Stage!ImplementsFifo
ReadyReturns == Stage!ReadyReturns
SlackSuffices == Line!SlackSuffices

(* See VectorPingPong and Uram: the two RAMs and the ping bit are a double *)
(* buffer; an enabled read arrives a fixed number of edges later.          *)
ImplementsDoubleBuffer == Vectors!ImplementsDoubleBuffer
LatencyIsFixed == Memory!LatencyIsFixed
=============================================================================
