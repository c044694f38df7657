------------------------------ MODULE SyncFifo ------------------------------
(***************************************************************************)
(* basic_sync_fifo.sv with READ_LATENCY = 1: a ring buffer of DEPTH words  *)
(* with a read and a write pointer.  One step of the model is one rising   *)
(* clock edge.  The combinational outputs (full, empty, valid, dout,       *)
(* overflow) are functions of the registers and of this cycle's inputs.    *)
(***************************************************************************)
EXTENDS Naturals, Sequences

CONSTANTS
  DEPTH,   \* parameter DEPTH, a power of two (see MCUnits)
  Data,    \* the values of a din/dout word
  None     \* "no word at this edge"

VARIABLES
  mem,        \* logic [DATA_WIDTH-1:0] mem [DEPTH-1:0]
  rd_ptr_r,   \* index of the oldest stored word
  wr_ptr_r,   \* index of the next free slot
  offered,    \* din at an edge with shift_in, else None
  taken,      \* dout at an edge with shift_out && !empty, else None
  overflow_r  \* the overflow output as sampled at the last edge

vars == <<mem, rd_ptr_r, wr_ptr_r, offered, taken, overflow_r>>

-----------------------------------------------------------------------------
Ptr == 0..DEPTH-1

(* PTR_WIDTH-bit addition: DEPTH - 1 wraps to 0.                           *)
Inc(p) == IF p = DEPTH - 1 THEN 0 ELSE p + 1

empty == rd_ptr_r = wr_ptr_r
full  == Inc(wr_ptr_r) = rd_ptr_r
dout  == mem[rd_ptr_r]

NextWrPtr_Ungated(shift_in) ==   \* fault: the full flag is not consulted
  IF shift_in THEN Inc(wr_ptr_r) ELSE wr_ptr_r

NextWrPtr(shift_in) ==
  IF shift_in /\ ~full THEN Inc(wr_ptr_r) ELSE wr_ptr_r

NextRdPtr(shift_out) ==
  IF shift_out /\ ~empty THEN Inc(rd_ptr_r) ELSE rd_ptr_r

(* The memory is not reset: it holds arbitrary words at power-up.          *)
Init ==
  /\ mem \in [Ptr -> Data]
  /\ rd_ptr_r = 0
  /\ wr_ptr_r = 0
  /\ offered = None
  /\ taken = None
  /\ overflow_r = FALSE

(* rst_n low at the edge: the pointers are cleared, the memory is kept.    *)
Reset ==
  /\ rd_ptr_r' = 0
  /\ wr_ptr_r' = 0
  /\ offered' = None
  /\ taken' = None
  /\ overflow_r' = FALSE
  /\ UNCHANGED mem

(* rst_n high: din is written at wr_ptr_r at every edge, whether it was    *)
(* shifted in or not.                                                      *)
Clock(shift_in, shift_out, din) ==
  /\ rd_ptr_r' = NextRdPtr(shift_out)
  /\ wr_ptr_r' = NextWrPtr(shift_in)
  /\ mem' = [mem EXCEPT ![wr_ptr_r] = din]
  /\ offered' = IF shift_in THEN din ELSE None
  /\ taken' = IF shift_out /\ ~empty THEN dout ELSE None
  /\ overflow_r' = (shift_in /\ full)

Next ==
  \/ \E shift_in, shift_out \in BOOLEAN, din \in Data :
       Clock(shift_in, shift_out, din)
  \/ Reset

Spec == Init /\ [][Next]_vars

-----------------------------------------------------------------------------
(* Both pointers stay inside the memory and only words of the data type    *)
(* are ever stored or handed over.                                         *)
TypeOK ==
  /\ mem \in [Ptr -> Data]
  /\ rd_ptr_r \in Ptr
  /\ wr_ptr_r \in Ptr
  /\ {offered, taken} \subseteq Data \cup {None}
  /\ overflow_r \in BOOLEAN

(* The number of words from rd up to wr, and the slot of the i-th of them. *)
Count(rd, wr) == IF rd <= wr THEN wr - rd ELSE wr + DEPTH - rd

Slot(rd, i) == IF rd + i - 1 < DEPTH THEN rd + i - 1 ELSE rd + i - 1 - DEPTH

(* The words of memory m between the pointers, oldest first.               *)
Stored(m, rd, wr) == [i \in 1..Count(rd, wr) |-> m[Slot(rd, i)]]

(* The FIFO implements a queue of DEPTH - 1 words: one slot of the memory  *)
(* is never counted, which is also what makes the unconditional write at   *)
(* wr_ptr_r harmless.  Words leave in the order they came, none is lost,   *)
(* duplicated or overwritten, and overflow is raised exactly when a word   *)
(* is offered to a full queue.                                             *)
Fifo == INSTANCE BoundedFifo WITH
          Capacity <- DEPTH - 1, FlowThrough <- FALSE,
          q <- Stored(mem, rd_ptr_r, wr_ptr_r), refused <- overflow_r

ImplementsFifo == Fifo!Spec
=============================================================================
