----------------------------- MODULE RowDecoder -----------------------------
(***************************************************************************)
(* row_decoder.sv: a vector of row offsets r_0 <= r_1 <= ... arrives in    *)
(* chunks of IN_PAR, and row i leaves r_{i+1} - r_i times, OUT_PAR lanes a *)
(* word.  An input skid buffer, a controller that replays each chunk once  *)
(* per output word, and three skid buffers with the position arithmetic    *)
(* between them.  One step is one rising clock edge.                       *)
(***************************************************************************)
EXTENDS Naturals, Sequences, SequencesExt, FiniteSetsExt, SkidStage

CONSTANTS
  IN_PAR,          \* r_beg.PARALLELISM
  OUT_PAR,         \* row_ids.PARALLELISM
  ID_WIDTH,        \* row_ids.DATA_WIDTH
  OFFSET,          \* parameter OFFSET
  Offsets,         \* row offsets the producer sends (bound)
  MaxChunks,       \* chunks the producer sends in all (bound)
  UpstreamStalls,  \* may in_valid drop inside a vector?
  ResetAnywhere    \* may rst_n fall inside a vector?

ASSUME RowDecoderAssumption ==
  /\ IN_PAR \in Nat \ {0}
  /\ \E w \in 1..ID_WIDTH : OUT_PAR = 2^w
  /\ OFFSET \in Nat
  /\ Offsets \subseteq 0..(2^ID_WIDTH - 1)

(* Follows from the above; the provers have no rules for powers.           *)
ASSUME PowersAssumption ==
  /\ OUT_PAR \in Nat \ {0}
  /\ 2^ID_WIDTH \in Nat \ {0}
  /\ 2^ID_WIDTH % OUT_PAR = 0

VARIABLES
  in_r,      \* input_fifo_I: words [data, n (of entries in mask), last]
  ctl,       \* the controller's registers and latches
  p0, p1,    \* pipeline_0_I, pipeline_1_I
  out_r,     \* pipe_out_I; its data register is row_ids
  vec,       \* the vector the producer is in the middle of
  owed,      \* row ids of the chunks taken in and not yet sent out
  row_word   \* the row ids that left at the last edge

vars == <<in_r, ctl, p0, p1, out_r, vec, owed, row_word>>

Wrap(x) == x % 2^ID_WIDTH
Minus(a, b) == (a + 2^ID_WIDTH - b) % 2^ID_WIDTH
Id == 0..(2^ID_WIDTH - 1)
Boundary == 0..IN_PAR
Lane == 0..(OUT_PAR - 1)

(* Registers nothing reads until they are written again are set to these:  *)
(* a spare in PIPE, the chunk of an idle controller, the word of a bubble. *)
(* Two are read while invalid and are kept: offset_r and row_ids.data.     *)
Zeros == [i \in Boundary |-> 0]
NoChunk == [data |-> [i \in 0..(IN_PAR - 1) |-> 0], n |-> 1, last |-> FALSE]
NoWord0 == [ids |-> Zeros, last |-> FALSE, mask |-> 0, offset |-> 0, sofar |-> 0]
NoWord1 == [subs |-> Zeros, last |-> FALSE, mask |-> 0, offset |-> 0]
NoRowIds == [ids |-> [j \in Lane |-> 0], last |-> FALSE, mask |-> 0]
NoTask == [ids |-> Zeros, number |-> 0, mask |-> 0, total |-> 0]

StageNext(s, in_valid, in_data, out_ready) ==
  LET next == SkidNext(s, in_valid, in_data, out_ready)
  IN  IF next.state = "PIPE" THEN [next EXCEPT !.spare = next.data] ELSE next

-----------------------------------------------------------------------------
(* The controller, always_comb of the two states.                          *)
FifoReady == ctl.state = "IDLE" /\ p0.ready
Pop == in_r.valid /\ FifoReady
WordTaken == ctl.state = "BUSY" /\ p0.ready
ChunkDone == WordTaken /\ ctl.task.number = 0

(* Where the first boundary of the chunk is: its own first entry in the    *)
(* first chunk of a vector, the last entry of the chunk before otherwise.  *)
LastOffset == IF ctl.bias = "BIAS_0" THEN in_r.data.data[0] ELSE ctl.last_offset

(* offset_b, a latch: assigned in IDLE only, from offset_r, which is the   *)
(* data register of pipeline_0 whether or not that register is valid.      *)
Offset_Accumulates ==   \* fault: the row count is not restarted
  IF ctl.state = "IDLE" THEN Wrap(p0.data.offset + IN_PAR) ELSE ctl.offset

Offset ==
  IF ctl.state # "IDLE" THEN ctl.offset
  ELSE IF ctl.bias = "BIAS_0" THEN 0 ELSE Wrap(p0.data.offset + IN_PAR)

(* bias_state_b, a latch too: it keeps its value unless a chunk is popped  *)
(* or the last chunk of a vector is done.  rst_n does not reach it.        *)
Bias ==
  IF Pop THEN "PREV_BIAS"
  ELSE IF ChunkDone /\ ctl.last THEN "BIAS_0" ELSE ctl.bias_latch

ChunkIds(chunk) ==
  [i \in Boundary |->
     IF i = 0 THEN LastOffset
     ELSE IF i <= chunk.n THEN chunk.data[i - 1] ELSE 2^ID_WIDTH - 1]

(* diff_id: the ids the chunk stands for.                                  *)
Total(chunk) == Minus(chunk.data[chunk.n - 1], LastOffset)

FullWords_RoundsDown(total) ==   \* fault: a full last word loses its word
  IF total = 0 THEN 0 ELSE (total - 1) \div OUT_PAR

FullWords(total) == total \div OUT_PAR   \* diff_id >> OUT_PAR_WIDTH

Task(chunk) ==
  [ids |-> ChunkIds(chunk), number |-> FullWords(Total(chunk)),
   mask |-> Total(chunk) % OUT_PAR, total |-> Total(chunk)]

Controller ==
  LET next == [ctl EXCEPT !.bias = Bias, !.bias_latch = Bias, !.offset = Offset]
  IN  IF Pop
      THEN [next EXCEPT !.state = "BUSY", !.last = in_r.data.last,
                        !.task = Task(in_r.data), !.last_offset = 0]
      ELSE IF ctl.state = "IDLE" THEN [next EXCEPT !.last_offset = LastOffset]
      ELSE IF ChunkDone
      THEN [next EXCEPT !.state = "IDLE", !.task = NoTask,
              !.last_offset = IF ctl.last THEN in_r.data.data[0]
                                          ELSE ctl.task.ids[IN_PAR]]
      ELSE IF WordTaken THEN [next EXCEPT !.task.number = ctl.task.number - 1]
      ELSE next

(* What the controller shows pipeline_0: the whole chunk, once per word.   *)
ToP0 ==
  IF ctl.state = "BUSY"
  THEN [ids |-> ctl.task.ids, last |-> ChunkDone, mask |-> ctl.task.mask,
        offset |-> Offset,
        sofar |-> Minus(ctl.task.total,
                        Wrap(ctl.task.number * OUT_PAR + ctl.task.mask))]
  ELSE [NoWord0 EXCEPT !.offset = Offset]

(* PIPE0: the lane of every boundary relative to this word.  nw_comp is    *)
(* subs < OUT_PAR, registered with subs.                                   *)
ToP1 ==
  IF p0.valid
  THEN [subs |-> [i \in Boundary |->
                    Minus(Minus(p0.data.ids[i], p0.data.ids[0]), p0.data.sofar)],
        last |-> p0.data.last, mask |-> p0.data.mask, offset |-> p0.data.offset]
  ELSE NoWord1

(* PIPE1: a lane gets the row of the last boundary at or before it, or,    *)
(* when the row started in an earlier word, what row_ids shows in lane     *)
(* IN_PAR-1.  When a chunk has more lanes than a word there is no such     *)
(* lane, and the value read, beyond, is left to the build: any id.         *)
Reached(j) == {i \in Boundary : p1.data.subs[i] < OUT_PAR /\ j >= p1.data.subs[i]}

Beyond == IF IN_PAR <= OUT_PAR THEN {0} ELSE Id
Carried(beyond) == IF IN_PAR <= OUT_PAR THEN out_r.data.ids[IN_PAR - 1] ELSE beyond

Payload(beyond) ==
  IF p1.valid /\ out_r.ready
  THEN [j \in Lane |-> IF Reached(j) = {} THEN Carried(beyond)
                       ELSE Minus(Wrap(p1.data.offset + OFFSET + Max(Reached(j))), 1)]
  ELSE out_r.data.ids

ToOut(beyond) == [ids |-> Payload(beyond), last |-> p1.data.last, mask |-> p1.data.mask]

(* The ids of an output word: every lane, or on last the lanes of the mask *)
(* ((1 << mask) - 1 in IN_PAR + 1 bits, then cut to OUT_PAR).              *)
Delivered(word) ==
  LET lanes == IF word.last THEN Min({word.mask, IN_PAR + 1}) ELSE OUT_PAR
  IN  [j \in 1..lanes |-> word.ids[j - 1]]

-----------------------------------------------------------------------------
(* The producer.  A chunk continues the offsets in order; only the last    *)
(* chunk of a vector may be partly filled.                                 *)
Closed(sent) == [open |-> FALSE, prev |-> 0, chunks |-> 0, sent |-> sent]

Chunk ==
  {c \in [data : [0..(IN_PAR - 1) -> Offsets \cup {0}], n : 1..IN_PAR,
          last : BOOLEAN] :
     /\ ~c.last => c.n = IN_PAR
     /\ \A i \in 0..(c.n - 1) : c.data[i] \in Offsets
     /\ \A i \in 1..(c.n - 1) : c.data[i - 1] <= c.data[i]
     /\ \A i \in c.n..(IN_PAR - 1) : c.data[i] = 0}

Continues(c) ==
  /\ vec.open => vec.prev <= c.data[0]
  /\ vec.sent < MaxChunks
  /\ vec.sent + 1 = MaxChunks => c.last

(* What the chunk owes: row k of the vector, once for every unit between   *)
(* offset k and offset k+1.                                                *)
Repeat(row, n) == [x \in 1..n |-> row]
RowsOf(c) ==
  LET before(k) == IF k > 0 THEN c.data[k - 1]
                   ELSE IF vec.open THEN vec.prev ELSE c.data[0]
      row(k) == Minus(Wrap(OFFSET + vec.chunks * IN_PAR + k), 1)
  IN  FlattenSeq([k \in 1..c.n |-> Repeat(row(k - 1), c.data[k - 1] - before(k - 1))])

After(c) ==
  IF c.last THEN Closed(vec.sent + 1)
  ELSE [open |-> TRUE, prev |-> c.data[IN_PAR - 1],
        chunks |-> vec.chunks + 1, sent |-> vec.sent + 1]

-----------------------------------------------------------------------------
Init ==
  /\ in_r = AfterReset(NoChunk, NoChunk)
  /\ ctl = [state |-> "IDLE", bias |-> "BIAS_0", bias_latch |-> "BIAS_0",
            last |-> FALSE, last_offset |-> 0, task |-> NoTask, offset |-> 0]
  /\ p0 = AfterReset(NoWord0, NoWord0)
  /\ p1 = AfterReset(NoWord1, NoWord1)
  /\ out_r = AfterReset(NoRowIds, NoRowIds)
  /\ vec = Closed(0)
  /\ owed = <<>>
  /\ row_word = <<>>

(* rst_n low at the edge: the data registers and the latches are not reset. *)
Reset ==
  /\ ResetAnywhere \/ (~vec.open /\ ~in_r.valid /\ ctl.state = "IDLE")
  /\ in_r'  = AfterReset(NoChunk, NoChunk)
  /\ p0'    = AfterReset(p0.data, p0.data)
  /\ p1'    = AfterReset(NoWord1, NoWord1)
  /\ out_r' = AfterReset(out_r.data, out_r.data)
  /\ ctl' = [ctl EXCEPT !.state = "IDLE", !.bias = "BIAS_0", !.last = FALSE,
                        !.task = NoTask, !.bias_latch = Bias, !.offset = Offset]
  /\ vec' = Closed(vec.sent)
  /\ owed' = <<>>
  /\ row_word' = <<>>

(* rst_n high at the edge; idle in the cycle after a reset as in Pipeline. *)
Clock(in_valid, chunk, out_ready) ==
  LET accepted == in_valid /\ in_r.ready
      leaving  == IF out_r.valid /\ out_ready THEN Delivered(out_r.data) ELSE <<>>
  IN  /\ in_valid => (in_r.ready \/ in_r.state = "SKID")
      /\ in_valid => Continues(chunk)
      /\ vec.open /\ ~UpstreamStalls => in_valid
      /\ in_r'  = StageNext(in_r, in_valid, chunk, FifoReady)
      /\ ctl'   = Controller
      /\ p0'    = StageNext(p0, ctl.state = "BUSY", ToP0, p1.ready)
      /\ p1'    = StageNext(p1, p0.valid, ToP1, out_r.ready)
      /\ \E beyond \in Beyond :
           out_r' = StageNext(out_r, p1.valid, ToOut(beyond), out_ready)
      /\ vec' = IF accepted THEN After(chunk) ELSE vec
      /\ owed' = SubSeq(owed, Len(leaving) + 1, Len(owed))
                   \o (IF accepted THEN RowsOf(chunk) ELSE <<>>)
      /\ row_word' = leaving

Next ==
  \/ \E out_ready \in BOOLEAN :
       \/ Clock(FALSE, NoChunk, out_ready)
       \/ \E chunk \in Chunk : Clock(TRUE, chunk, out_ready)
  \/ Reset

Spec == Init /\ [][Next]_vars

(* The consumer is ready again and again, as the test's driver is.         *)
ConsumerFairness ==
  WF_vars(\/ Clock(FALSE, NoChunk, TRUE)
          \/ \E chunk \in Chunk : Clock(TRUE, chunk, TRUE))

FairSpec == Spec /\ ConsumerFairness

-----------------------------------------------------------------------------
(* Type invariant, with the shape of the four skid buffers.                *)
TypeOK ==
  /\ ctl.state \in {"IDLE", "BUSY"}
  /\ {ctl.bias, ctl.bias_latch} \subseteq {"BIAS_0", "PREV_BIAS"}
  /\ ctl.task.ids \in [Boundary -> Id] /\ ctl.task.mask \in Lane
  /\ {ctl.task.number, ctl.task.total, ctl.offset, ctl.last_offset} \subseteq Id
  /\ p0.data.ids \in [Boundary -> Id] /\ p1.data.subs \in [Boundary -> Id]
  /\ out_r.data.ids \in [Lane -> Id]
  /\ \A s \in {in_r, p0, p1, out_r} : SkidShape(s)
  /\ owed \in Seq(Id) /\ row_word \in Seq(Id)

(* The decoder's contract, end to end: what leaves is exactly the next of  *)
(* the row ids the accepted offsets stand for, in order, whatever the      *)
(* consumer's stalls.  A word that skips, repeats or misnumbers a row      *)
(* breaks it, however long after the chunk was taken in.                   *)
RowIdsInOrder == [][IsPrefix(row_word', owed)]_vars

(* What every width keeps of it, also the ones whose carry reads a lane    *)
(* that does not exist: no lane too many leaves, and in a word every row   *)
(* but the first is in its lanes.  Only the first, which may be a row that *)
(* began in an earlier word, can be shown as something else.               *)
RowsBeginInPlace ==
  [][/\ Len(row_word') <= Len(owed)
     /\ \A x \in 1..Len(row_word') : owed[x] # owed[1] => row_word'[x] = owed[x]]_vars

(* Nothing is forgotten: when no stage holds anything and the controller   *)
(* is idle, every row id owed has left.                                    *)
Empty == ctl.state = "IDLE" /\ ~(in_r.valid \/ p0.valid \/ p1.valid \/ out_r.valid)
NothingForgotten == Empty => owed = <<>>

(* The chunk replay and the four stages never block each other: row ids    *)
(* that are owed come out (or a reset forgets them).                       *)
RowsComeOut == owed # <<>> ~> (row_word # <<>> \/ owed = <<>>)
=============================================================================
