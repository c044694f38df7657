---------------------------- MODULE CtrlDataFifo ----------------------------
(***************************************************************************)
(* ctrl_data_fifo.sv: a FIFO of data words and a FIFO of control words,    *)
(* filled independently and popped by one shift_out.  Both are             *)
(* basic_sync_fifo instances, which SyncFifo shows to be BoundedFifo       *)
(* queues of DEPTH - 1 words; this module composes two of those queues.    *)
(*                                                                         *)
(* Words are numbered modulo DEPTH in the order in which they are stored,  *)
(* so that the n-th data word can be told to meet the n-th control word.   *)
(***************************************************************************)
EXTENDS Naturals, Sequences

CONSTANTS
  DEPTH,       \* parameter DEPTH
  None,        \* "no word at this edge"
  PopOnValid   \* the consumer pops when valid is high, else when empty is low

VARIABLES
  dataQ, dataIn, dataOut, data_overflow,   \* data_fifo_i
  ctrlQ, ctrlIn, ctrlOut, ctrl_overflow,   \* ctrl_fifo_i
  nData, nCtrl                             \* the numbers of the next words

dataVars == <<dataQ, dataIn, dataOut, data_overflow>>
ctrlVars == <<ctrlQ, ctrlIn, ctrlOut, ctrl_overflow>>
vars == <<dataVars, ctrlVars, nData, nCtrl>>

Number == 0..(DEPTH - 1)

DataFifo == INSTANCE BoundedFifo WITH
              Data <- Number, Capacity <- DEPTH - 1, FlowThrough <- FALSE,
              q <- dataQ, offered <- dataIn, taken <- dataOut, refused <- data_overflow
CtrlFifo == INSTANCE BoundedFifo WITH
              Data <- Number, Capacity <- DEPTH - 1, FlowThrough <- FALSE,
              q <- ctrlQ, offered <- ctrlIn, taken <- ctrlOut, refused <- ctrl_overflow

-----------------------------------------------------------------------------
data_ready == Len(dataQ) < DEPTH - 1   \* ~data_full
ctrl_ready == Len(ctrlQ) < DEPTH - 1   \* ~ctrl_full

valid_Either == dataQ # <<>> \/ ctrlQ # <<>>   \* fault: one word is enough
valid == dataQ # <<>> /\ ctrlQ # <<>>
empty == dataQ = <<>> /\ ctrlQ = <<>>

Init ==
  /\ DataFifo!Init /\ CtrlFifo!Init
  /\ nData = 0 /\ nCtrl = 0

Reset ==
  /\ DataFifo!Reset /\ CtrlFifo!Reset
  /\ nData' = 0 /\ nCtrl' = 0

NextNumber(n, stored) == IF stored THEN (n + 1) % DEPTH ELSE n

(* One clock edge.  The two producers are independent, and what they offer *)
(* to a full FIFO they offer again.                                        *)
Clock(data_valid, ctrl_valid, shift_out) ==
  /\ shift_out => IF PopOnValid THEN valid ELSE ~empty
  /\ DataFifo!Cycle(data_valid, shift_out, nData)
  /\ CtrlFifo!Cycle(ctrl_valid, shift_out, nCtrl)
  /\ nData' = NextNumber(nData, data_valid /\ data_ready)
  /\ nCtrl' = NextNumber(nCtrl, ctrl_valid /\ ctrl_ready)

Next ==
  \/ \E data_valid, ctrl_valid, shift_out \in BOOLEAN :
       Clock(data_valid, ctrl_valid, shift_out)
  \/ Reset

Spec == Init /\ [][Next]_vars

-----------------------------------------------------------------------------
(* The two FIFOs stay in step although they fill at their own pace: a pop  *)
(* hands over both words or none, and the words it hands over were stored  *)
(* at the same position of their streams.  A consumer that pops whenever   *)
(* `empty` is low (PopOnValid = FALSE) breaks this, since empty is raised  *)
(* only when both FIFOs are empty.                                         *)
PairsStayTogether == dataOut = ctrlOut
=============================================================================
