# Mudkip: verification development

Mudkip is a linear-programming solver with an FPGA accelerator.  The repository
holds two programs that do not yet call each other:

* `src/hw/rtl`: a SystemVerilog sparse matrix-vector unit (row decoder,
  products, reduction network, vector memories), simulated with Verilator;
* `src/sw/cupdlp`: cuPDLP-C, a first-order LP solver (PDHG with restarts,
  averaging and an adaptive line search), its front ends and its file reader.

This directory holds TLA+ models of both, TLC configurations that check them on
small instances, and TLAPS proofs for every value of the parameters: for the
hardware buffers, memories, the arbiter, the reduction network and the row
decoder, and for the solver's main loop, its parameters and its standard form.

## 1. Inventory

| part | source | state | operations | module |
|---|---|---|---|---|
| synchronous FIFO | `basic_sync_fifo.sv` | memory, two pointers | push, pop, reset | `SyncFifo` |
| pipeline stage, skid buffer | `decoder/pipeline.sv` | two words, valid, ready, state | one clock edge, reset | `SkidStage`, `Pipeline` |
| stream FIFO | `decoder/axi_stream_fifo.sv` | one of the two above | | (same) |
| data and control FIFO | `ctrl_data_fifo.sv` | two FIFOs | push either, pop both | `CtrlDataFifo` |
| flow controller | `flow_controller.sv` | output registers, their valid bits | write any, shift the set out | `FlowController` |
| product and conversion pipes | `fproduct.sv`, `float_to_fixed.sv`, `delay.sv` | a delay line | one edge, stalled or not | `DelayPipe` |
| vector memories | `vector_ram.sv`, `vector_ping_pong.sv`, `vector_ping_pong_ld_wrapper.sv` | two RAMs, the ping bit, read registers | read, write, load, swap | `VectorRam`, `VectorPingPong` |
| URAM | `uram.sv` | memory, read pipes and enables of two ports | access at either port | `Uram` |
| reduction network | `spmv_reduction_network.sv`, `spmv_network_op.sv`, `network_if_copier.sv` | three rows of skid buffers | merge, route, pass, stall per lane | `ReductionNetwork` |
| row decoder | `decoder/row_decoder.sv` | controller, latches, four stages | take chunk, replay, number rows | `RowDecoder` |
| arbiter | `so_rr_arbiter.sv` | queues, base | request, grant, rotate | `RrArbiter` |
| RAM adapter | `network_ram_adapter.sv` | a queue per lane | offer, claim, take | `NetworkRamAdapter` |
| PDHG loop | `cupdlp_solver.c`, `cupdlp_step.c`, `cupdlp_proj.c`, `cupdlp_restart.c` | double-buffered iterates, sums, averages, residuals, timers | check, restart, step, line search, stop | `PdhgSolve` |
| formulation, scaling, post-solve | `wrapper_highs.cpp`, `cupdlp_scaling.c`, `cupdlp_linalg.c`, `cupdlp_solver.c` | the program, its standard form in two sparse formats, the solution | formulate, scale, transpose, judge, post-solve | `StandardForm` |
| sparse formats | `cupdlp_cs.c`, `cupdlp_utils.c` | triplet, compressed and dense matrices | add an entry, grow, compress, transpose, convert | `SparseOps`, `SparseFormats` |
| program memory | `mps_highs.c`, `mps_lp.c`, `cupdlp_utils.c` | which pointer holds a block | allocate, fail, clean up | `SolverMemory` |
| parameters | `mps_highs.c`, `cupdlp_utils.c` | command line, parameters, the shared scaling object | read twice, apply | `UserParams` |
| MPS reader | `cupdlp_mps.c` | position in the file, two dictionaries, arrays | count, read each section, split | `MpsReader` |

How they interact.  The hardware units are joined by valid/ready streams; a
unit's only knowledge of its neighbour is the other side of that handshake, and
all units step on one clock.  Every register stage in the decoder and the
network is `pipeline.sv`, and every queue is `basic_sync_fifo.sv`, which is why
their contracts are proved and not only checked; `CtrlDataFifo` is composed of
two of the abstract queues that `basic_sync_fifo.sv` is proved to implement.
In the solver the command line decides what is read, the standard form is built
and scaled, the loop runs on it, and post-solve undoes both; each part reads
what the one before left in shared structures.

What is hard.  Hardware: stalls that arrive in any pattern on any lane, resets
in the middle of a transfer, values of registers that are read while they are
not valid, latches, paths of different length that have to stay in step.
Software: cached products that must belong to the vector they are used with, a
time-out half way through an update, the order of the termination tests,
permutations, signs and scale factors that are undone far from where they were
applied, an exit from any allocation.  `PROJECT.json` lists each hazard at its
line.

## 2. Modelling conventions

**Hardware.**  One step of a model is one rising clock edge.  Registers are
variables; combinational signals are operators of the registers and of the
inputs sampled at the edge.  The inputs of a step are chosen by `\E`.
`pipeline.sv` is used in three units, so its registers are a record and its
next-state function (`SkidNext`) an operator in `SkidStage`.  Registers whose
contents nobody reads (a spare in state PIPE, the data of an invalid stage) are
set to a fixed value; the row decoder reads two registers while they are
invalid, and there they are kept.

Each unit carries observation variables where a property needs them: `offered`,
`taken` and `refused` (what a handshake did), `delivered` and `idOf` (what entered and
left the network), `owed` (the row ids that are still due), `waited`, `late` (words
that came out of a stalled pipe), `lastSent`, `due` (what a memory still has to
show).

Units that do not talk to each other are checked in one run: an MC module
(`MCUnits`, `MCSolverData`) chooses in its initial state which `unit` steps, and
the variables of the others stay as they are.  In the same way
`MCReductionNetwork` and `MCRowDecoder` start one of two widths of their unit.  A
property of an instantiated unit has a name of its own in such a module
(`RingImplementsFifo` is `ImplementsFifo` of `SyncFifo`); `SolverLoop` holds those of
`PdhgSolve` with its constants and what is assumed of them.

**Software.**  A step is one phase of an iteration of `PDHG_Solve`.  Vectors are
abstracted to their provenance: which step, average or projection produced
them.  What the floating-point tests answer is chosen nondeterministically.
In `StandardForm` numbers are integers in units of `1/Unit`, so that dividing
by the scale factors of the instance is exact.

**Reset of the skid buffer.**  For one cycle after a reset `ready_r` is low while
the buffer would load what is offered.  All models assume that producers are
idle in that cycle; this is named (`ProducerMayOffer`) and listed as a hazard.

## 3. Modules

* **BoundedFifo**: the abstract queue: capacity, refill while popped or not,
  order, refusals.  The word offered and the word taken at each edge are part of
  its state, so an implementation that loses an accepted word does not refine it.
* **SyncFifo**: `basic_sync_fifo.sv` with `READ_LATENCY = 1`.  Variables have the
  names of the registers.  `Clock(shift_in, shift_out, din)` is the `always_ff`
  block with the combinational next pointers; the unconditional
  `mem[wr_ptr_r] <= din` is kept.  Refinement mapping: the queue is
  `Stored(mem, rd_ptr_r, wr_ptr_r)`.
* **SkidStage**, **Pipeline**: `PIPE_LINE = 1` (`SkidNext`) and `0` (`RegNext`),
  and the stage between a producer and a consumer.
* **ReductionNetwork**: `Border`, `IsOp` and `IsCopied` are the generate loops;
  `OpOut` and `OpReady` the operator's `always_comb`; `Before` and `BackThrough`
  carry valid and data forward and ready backward through the layers between
  two rows of buffers.  A value is the set of the input words it sums.  The
  loops drive most lanes twice (operator and copier); `CopierDrives` chooses
  which drive prevails, and all passing runs take the one where the operator does.
* **RowDecoder**: the controller with its two inferred latches (`offset`,
  `bias_latch`), the four stages, the position arithmetic modulo `2^ID_WIDTH`,
  the masks, for any numbers of lanes.  Line 263 carries a row from one word into
  the next by reading lane `IN_PAR - 1` of the output.  Where there are fewer lanes
  out than in, that lane does not exist, and what is read is left to the build:
  any id (`Beyond`).  The environment has the form of the repository's testbench:
  offsets in order, `last` on the last chunk, `RowsOf` the ids it expects.  The
  testbench instantiates 16 lanes in and 8 out; the runs have 2 and 2, and 4 and 2.
* **RrArbiter**: the grant by subtraction on two copies of the requests, base
  rotation, queues as counters.
* **NetworkRamAdapter**: lane queues with the id an empty queue still shows,
  `Shown` the last-lane-wins loop.
* **CtrlDataFifo**: the two queues, `valid`, `empty` and the readies.  Words are
  numbered in the order they are stored, so that a mismatched pair is visible.
  `PopOnValid` names the consumer's rule; popping whenever `empty` is low
  (`FALSE`) loses the pairing, since `empty` needs both queues empty.
* **FlowController**: `dout_b` and `current_valid_b` are the loop over the
  inputs (the highest port wins), `valid` is one cycle late, the registers are
  not reset.  A word accepted in the cycle of `shift_out` is written but not
  marked, and so belongs to no set.
* **DelayPipe**: the delay line and the wired-through ready of `fproduct` and
  `float_to_fixed`; what a register holds is whether it holds a word.
* **VectorRam**, **VectorPingPong**, **DoubleBuffer**: write priority and
  read-first RAMs, the crossbar on `ping_r ^ ping`, the load wrapper; the
  abstract double buffer has two vectors by name and swaps the names.
* **Uram**: both ports with their read pipes and enable copies; two writes to one
  address leave either word.
* **StandardForm**: `Formulate` is `formulateLP_highs`: types of rows,
  permutation with equations first, slack columns, signs, compressed columns.
  The loops that fill the arrays of a matrix put its entries in an order, and
  the model says which (`CscOrder`, and `RowOrder` for the transposition).
  `Scale` is `PDHG_Scale_Data` and `scale_problem` for any sequence of passes
  (`Passes` gives their factors, which are positive) and then `csc2csr`.  `Solve` lets the solver
  return any iterate its projections allow and applies the residuals with
  their unscaling, `PDHG_Compute_Dual_Feasibility` and `PDHG_PostSolve`.  The
  reference is the loaded program itself (`Activity`, `Satisfies`).
* **SparseOps**, **SparseFormats**: prefix sums, compression, transposition and
  dense conversion as operators; the triplet matrix that grows, may fail to
  grow, and is compressed, step by step.
* **SolverMemory**: a block is the path of pointers that leads to it; every
  allocation of a run in order, its failure, the early exits, and the clean-up
  that follows the pointers, set or not.  `stopped` is the first call that failed or
  ended the run, and only that; a run that then follows an unset pointer is `Stray`.
* **UserParams**: the loops of `main` and `getUserParam` over the same words,
  the defaults, the scaling object both share, `PDHG_SetUserParam`.  The command
  lines and the words that are numbers are constants.  **SolverInput** puts it
  beside `StandardForm`: what the solver program is given.
* **MpsReader**: the counting pass, then one step per line.  Arrays come from
  `malloc`; `junk` says which of them did not hold zeros.  **MpsFiles** has the
  files it is given, **MCMpsReader** runs it by itself.
* **PdhgSolve**: see the table below.  `res` and `infeas` record what the
  residuals and the infeasibility certificates were computed from; `last` which
  iterate was restarted to, whose residuals are kept as its score and as the
  last candidate's, and between which two iterates the primal weight was last
  measured.  `Init` is the start-up in its order: the power method of
  `PDHG_Init_Step_Sizes`, which leaves its scratch in the current products, and
  then `PDHG_Init_Variables`, which computes them.

| action | code |
|---|---|
| `Head` | loop test, `PDHG_Compute_SolvingTime`, `bool_checking` |
| `Check` | averages, residuals, infeasibility residuals and their four tests, the ladder of termination tests, the copies made when the average is returned |
| `Restart` | `PDHG_Restart_Iterate`, `PDHG_Check_Restart_GPU` (which of the two iterates is the candidate, sufficient and necessary decay, artificial restarts), `PDHG_Compute_Step_Size_Ratio` |
| `Accept` | `PDHG_Update_Iterate` with an accepted step, `PDHG_Update_Average` |
| `Reject` | one turn of the line search |
| `GiveUp` | `CUPDLP_CHECK_TIMEOUT` inside the line search |
| `TimePasses` | the clock passes `dTimeLim` |

## 4. Runs

Bounds are named constants of each `.cfg`, or definitions of its MC module.

| run | what it shows | bounds and why they suffice |
|---|---|---|
| `units` | the FIFO is a queue of `DEPTH-1` words; paired queues stay in step; a set that is shown is complete and fresh | depth 4 (testbench), 3 words: both pointers wrap at every fill level, either queue may run ahead by all of it.  2 inputs and 2 outputs: both may name one register, or neither, in any cycle |
| (same) | the skid buffer is a queue of two words; ready returns; at most `DELAY-1` words leave a stalled pipe | 3 words, more than the stage holds.  The plain register (`PIPE_LINE = 0`) is covered by the proof, which is for both variants.  Delay 4: a line with gaps in every position |
| (same) | one grant, the right one, bounded waiting; the ping-pong memory is a double buffer; the URAM answers on time | 4 ports.  2 addresses and 2 ports: both ports at one address and at two; requests that write one word everywhere, another everywhere, or two words at one address.  One address and one pipe register: reads and writes meet, and any gap pattern shorter and longer than the pipe occurs |
| `network` | conservation, one id per sum | 4 lanes: two layers and a row of buffers between; 5 words, so a second input row overlaps the first |
| (same) | conservation (`SixConserve`); the network always drains (`SixDrain`) | 6 lanes, the smallest width with two layers in one combinational section; 3 words: one held at an output, one in the spare register behind it, one to merge with either |
| `network_adder_tree` (violation) | one row with one id does not leave as one sum | 4 lanes, one input row |
| `row_decoder` | row ids complete, in order, and they come out | 2 lanes in and 2 out, 3-bit ids, offsets 0, 1, 4, 7: empty rows, rows over several words, exact multiples and the largest id; 3 chunks: a vector of three, or several vectors |
| (same) | no row id lost or added (`WideNothingForgotten`), and every row of a word but its first in its lanes (`WideRowsBeginInPlace`), when a chunk has more lanes than a word | 4 lanes in and 2 out, the testbench's ratio; offsets 0, 1, 3: empty rows, rows over two words, words with two rows, words of several chunks; 2 chunks: a vector of two, or two vectors; the lane that does not exist may show any id in every word anew |
| `row_decoder_lanes` (violation) | a row that goes on in a second word is misnumbered there | the wide instance, by itself |
| `row_decoder_stall` (violation) | rows misnumbered after a pause inside a vector | 3 chunks |
| `ram_adapter` (violation) | words are popped without being taken | 2 lanes, 2 ports |
| `pdhg_timeout` (violation) | a rejected iterate is returned | 15 iterations, checked as the code does it (the first 10, then every 40th) |
| `solver` | main loop: cached products, verdicts, scores, sums, time limit; the loop ends | 40 iterations, of which the first 4 and every 6th are checked: five periodic checks past the first four, before and after the point from which a restart is no longer forced at each (36% of the run)  |
| (same) | the translation loses no point, and what is judged and returned fits the loaded program, scaled or not | 3 rows in every combination of four kinds of bounds, the middle one also without any; 2 matrices (unordered columns, an empty column), both senses; no scaling, and two passes with different factors by row and column: several slacks, both sign changes and a permutation that is not its own inverse occur together |
| (same) | a run returns its memory | the allocations of the code, each of which may fail |
| (same) | the solver goes by the command line | all lines of up to four words over seven (flags of either reader, of both, of neither, numbers) |
| (same) | sparse formats agree | all sequences of three entries (in a place taken, outside the shape, refused) from an empty and a small triplet matrix; all dense 2 by 3 matrices of two values |
| (same) | an accepted MPS file is read as meant | sections with every pair of senses, repeated names, columns broken off and resumed, unknown names, bounds of two kinds; at most one array that did not hold zeros |
| `memory_work` (violation) | `w` and its buffers are not always freed | as above, `SolverMemory` by itself |
| `memory_ends` (violation) | `-h` and a model solved by the presolver reach unset pointers | as above |
| `mps_bounds` (violation) | a bound on an unknown name is returned for column -1 | the files above, memory of zeros |

`RowValuesReturned` and `DualsReturned` are checked for every iterate the
solver's projections allow, not only for optimal ones: PDHG stops at its limits
with iterates that are neither feasible nor complementary.  Three parts have
names of their own because they are also proved: `RowsPlaced` (in `TypeOK`),
`WithinBounds` (in `SamePoints`) and `DualsOnTheirSide` (in `DualsReturned`).

`CHECK_DEADLOCK FALSE` is set only for `solver` and the runs of its parts, whose
programs end.  (The main loop, which ends in a state that repeats, could not
deadlock unseen: `LoopTerminates` says that it gets there.)

The two widths of the decoder divide one contract.  With as many lanes out as
in, the ids leave in order (`RowIdsInOrder`, run `row_decoder`).  With fewer lanes
out than in they do not (`row_decoder_lanes`): line 263 reads beyond the word.
The cause is that line alone: the instance still fails when the read yields zero,
and keeps the order when the lane read is `OUT_PAR - 1`.  What remains true at such
widths is `RowsBeginInPlace` (`WideRowsBeginInPlace` in the run), that the ids are right in number and that each row
is right in the word it begins in, unless it is continued from an earlier one.

`SolvesAsAsked` speaks of runs that get to the solver.

`MemoryIsReturned` says exactly what a run leaves behind: after the solver has
returned the work buffers `buffer2` and `buffer3`, which only the GPU build frees,
and after any other end all that exists of the work object `w`.  It also says
which ends meet no unset pointer (`AllSet`); every other end that the model has,
and TLC confirms it of each, can become `Stray`: those before `Init_Scaling`
clears the scale fields, those between the creation of `csc_cpu` or the problem and
the end of `data_alloc`, a short `PDHG_Alloc`, and a failed `malloc` of `scaling`.
Two statements in the source say otherwise and are runs of their own: `w` is
"free inside cuPDLP" (`memory_work`), and `-h` and "Solved by HiGHS presolver" are
ordinary ends (`memory_ends`).

`ReadsWhatIsWritten` holds for memory that held zeros where the reader relies on
it (`MustBeZero` lists where); there a file that is well-formed (`WellFormed`) is
accepted, and an accepted file is returned with every entry, right-hand side and
cost in its place and each upper bound at the position that its column has in the
file.  Bounds are compared when the section has upper bounds on columns of the
file only: a bound of another kind whose value is zero passes the first pass and
is stored as an upper bound, and a bound on an unknown name is stored for column
-1 (`mps_bounds`).  What memory that did not hold zeros does to the reader is
modelled too, but no property holds of it: `cupdlpDictAddElem` takes an entry from
`malloc` and copies a name without its end (line 260), so when the next byte was
not zero the name is not found again, and a well-formed file ends in the assertion
of line 608; without the condition on `junk` TLC finds that at once.

The violation runs are disagreements between the code and its own comments,
assertions and tests; `PROJECT.json` "findings" quotes both.  Three constants make choices under which
a passing run would fail, and the runs take the other value: `CopierDrives`
(which of two drivers of a network lane prevails; `TRUE` breaks `Conservation`),
`ResetAnywhere` (a reset inside a vector; `TRUE` breaks `RowIdsInOrder`, because
a latch survives the reset) and `UpstreamStalls` (the subject of
`row_decoder_stall`).  The corresponding hazards say so at their lines.

## 5. Fairness

* `Pipeline`, `RowDecoder`: weak fairness of the edges at which the consumer is
  ready.  The clock never stops, and the drivers of the testbenches raise ready
  again and again.  Nothing is assumed of the producer.
* `ReductionNetwork`: the clock runs, and every output lane that shows a word is
  popped eventually; the consumer may pop any other lanes at the same time or
  none.
* A run of several units assumes this of the one that steps.
* `PdhgSolve`: the program runs and the wall clock passes the limit eventually.
  Without the second the line search need not end; nothing makes the adaptive
  search accept a candidate.

## 6. Proofs

TLAPS proves, for every value of the constants that satisfies the assumptions
named:

**Queues** (`FifosProofs`)

* `TypeCorrect`, `FifoRefinement`: for every power-of-two
  `DEPTH`.  `RingTypeOK` is inductive as it stands.  The refinement rests on three
  lemmas about the stored sequence: its length agrees with the flags
  (`FlagsOfCount`), how the count moves at an edge (`EdgeOnCount`), and that
  each stored slot keeps its word although `mem[wr_ptr_r]` is written at every
  edge (`EdgeOnSlot`: the free slot is never a stored one).
* `PairsMatch`: for every `DEPTH >= 2` and a consumer that
  pops on `valid`.  `PairsStayTogether` looks at one edge; the invariant
  (`InStep`) is that each queue holds consecutive numbers and that the two
  heads have the same one.
* `SetIsFresh`: for any ports and words.  `valid` is
  registered a cycle late, so the invariant (`Fresh`) speaks of the registers
  that `current_valid` marks.

**Stages** (`StreamsProofs`)

* `TypeCorrect`, `PipelineRefinement`: for both variants of `pipeline.sv`.
  The inductive invariant is `StageTypeOK` with `SkidShape`: without "in SKID both
  words are valid and in_ready is low" a step could not be matched, since the
  stage would refuse a word it has room for.
* `SlackIsEnough`: for every `DELAY >= 1`.  The count of late
  words is bounded because each of them leaves one more empty register at the
  young end (`Drained`).

**Operands and arbiter** (`OperandsProofs`)

* `PingPongRefinement`: the two RAMs and the ping bit
  implement the double buffer; the mapping names the RAMs by the bit, and each
  edge keeps or swaps the names before the accesses are routed.
* `LatencyHolds`: for every `NBPIPE >= 1`, memory and access pattern.
  The invariant (`InStep`) compares every register of the read path with what
  is due: a register whose enable copy is set holds the word of that access.
* `ArbiterTypeCorrect`, `FirstFromBase`, `WaitBound`: for every number of ports.
  `FirstFromBase` is a theorem of binary arithmetic: a bit vector is a set of
  bits and its number the sum of their weights (`Low`), the numbers determine
  the sets (`LowInjective`), and subtracting one bit clears it, or else borrows from
  the first bit above it that is set and sets those between (`Borrow`, `Wraps`);
  therefore `a & ~(a - base)` is the first request at or after base, and
  folding the two halves goes round.  `WaitBound` needs `WaitFits`: a port that
  has waited `w` edges is at most `NUM_INPUTS - 1 - w` places from base.

**Reduction network** (`ReductionNetworkProofs`), for every width, number of
stages, input and stall pattern:

* `NetworkTypeCorrect`, `OneId`: whichever of two drivers of a lane prevails.  A
  row of operators and copiers is a function of the layers before it, so that
  the argument is one about a layer (`LayerType`, `LayerKeepsIds`), one by
  induction over the layers between two rows of buffers (`BeforeFacts`), and one
  about a register stage (`LoadOne`).  `NetInv` says of each register its type,
  its shape, and that the words of a sum entered with the id of the sum.
* `WordsConserved`: when the operator drives a shared lane (`~CopierDrives`;
  otherwise the property is false, which a hazard records).  `PlaceInv` says
  that an accepted word is in exactly one register or was delivered exactly
  once, and one that was not accepted is nowhere.  What carries it through a
  section is `Carries`: a word that is shown at the far end of a layer, and
  taken there, is taken at exactly one lane at the near end, so that the ready
  signals going back and the words going forward agree (`LayerCarries`,
  `SectionCarries`).

**Row decoder** (`RowDecoderProofs`)

* `DecoderTypeCorrect`: for all parameters, any numbers of lanes, upstream gaps
  and resets at any time included.  `Typed` adds to `TypeOK` that a spare register
  in PIPE equals the data register, which the numbering of the next chunk relies
  on.
* `DecoderRowsBeginInPlace`, `DecoderForgetsNothing`: for every `IN_PAR`, `OUT_PAR`,
  `ID_WIDTH`, `OFFSET`, vector and pattern of stalls of the consumer, under `Gapless`:
  no gap inside a vector (one is the run `row_decoder_stall`), resets between
  vectors (one inside leaves the latch `bias_state_b` behind, a hazard), and
  `OUT_PAR <= IN_PAR + 2`, since the mask of a last word is built in `IN_PAR + 1` bits.
  The repository's 16 and 8 satisfy the last condition.
* `DecoderSendsInOrder`: under `Gapless` and `IN_PAR = OUT_PAR`.  The condition on the
  lanes is the subject of the run `row_decoder_lanes`, and the theorem is about
  the widths at which the code's carry is the right one; with `IN_PAR = 2`,
  `OUT_PAR = 4` TLC finds the order broken as well.

  The invariant, `DecoderInv`, says that what is owed is what the stages
  hold (`Held`): the rows of the output register, what the words of
  `pipeline_1` and `pipeline_0` will become, the rest of the chunk in the
  controller, and the chunks in the input buffer, each placed in its vector
  (`Place0`, `Place1`, `Place2`) by the registers the controller will number it from.
  The output register cannot itself be compared with what is owed, since it may
  show a wrong id.  `Accounted` therefore says that there are the rows `o1`, `o2` which
  its two words ought to show and the row `c` that ought to be carried into the
  next (`Owing`), and what they have to do with what is shown (`Shows`): the number of
  lanes and every row but the first, and all of it when `IN_PAR = OUT_PAR`.  The steps
  of the argument are: a word's lanes are rows of its chunk (`LanesAreRows`, from
  the wrapped differences of `Positions`), a chunk's rows are the reference
  `RowsOf` (`RowsOfChunk`, through `FlattenRuns`), each stage passes on what the next
  takes in (`OutMoves` to `InMoves`), and neighbours compose (`Passing`).
  `Controlling` is what makes the stale reads harmless: between two chunks of a
  vector `pipeline_0` still holds the word with the offset that is read.

**PDHG main loop** (`PdhgSolveProofs`)

* `TypeCorrect`, `ProductsAreCurrent`, `ReturnedIsJudged`,
  `InfeasibleIsJudged`, `DecayIsFromLastRestart`, `SumIsSinceRestart`,
  `NoUpdateIsLate`: the seven invariants of the loop in the run `solver` for every iteration
  limit, number of first checks, check interval, line search, restart method
  and bounds (`PdhgAssumption`).  They follow from one inductive invariant,
  `IInv`.  Its parts: `Limits` (no update starts in the last iteration, because
  that one is always checked, nor after the limit was seen); `Matching` (products
  belong to iterates, residuals to both when a restart is decided);
  `Undecided` (no verdict is recorded before the loop is left); `Scored`
  (iteration 0 is always checked, so the start's score is taken there, and an
  update lies between two restarts); `Summed` (the sum is complete, or a
  time-out in the line search has just lost one step); `Epoch` (the
  iterate restarted to is older than `iLastRestartIter` and what was computed since
  is not, so the last candidate is either the restart's own iterate or of this
  epoch, and the two between which the weight is measured are different).

**Parameters** (`SolverDataProofs`)

* `SolvedAsAsked`: for every set of command lines and whatever words are
  numbers.  `ParamsInv` says what both readers know at the word they are at
  (`ReadSoFar`: the last place of a flag so far is what counts) and that a line
  on which the first reader stops early is one that the other refuses.

**Standard form** (`SolverDataProofs`)

The seven theorems that follow hold for every program, every sequence of scaling
passes, scaled or not, and every iterate that the solver's projections allow.

* `RowsKeepTheirPlaces`, `TypeCorrect`: `constraint_new_idx` permutes the
  rows, equations and rows with slacks first, each kind in its order; the
  slacks follow the columns one to one with the BOUND rows; both matrices list
  as many entries as their `beg` counts.  A row's place is its rank among the
  rows of its kind, and `RankIsPlace` says that ranks in a finite set count from
  zero without a gap.
* `FormHasSamePoints`: a point that satisfies the program satisfies the
  standard form with its slacks; the point returned is within the bounds of
  the program, and satisfies it when no residual is left.
* `RowValuesOfPoint`: the row values returned are those of the point returned.
* `DualsFitProgram`: the reduced cost of a column with two bounds is what the
  row duals leave of its cost, and a row's dual has the sign its kind and the
  sense allow.  The sign needs the permutation: the solver keeps the
  multipliers of the rows from `nEqs` on non-negative, and these are the
  inequalities.  `ReturnedWithinBounds` states the bounds and signs alone.
* `JudgedInOwnUnits`: the residuals that the tolerances are compared with are
  those of the point and the duals returned, in the program's own units.
* `DualObjectiveIsBound`: weak duality across the translation.  When no dual
  residual is left, the dual objective reported bounds the objective of every
  point that satisfies the program.

They follow from one inductive invariant, `FormInv`, which TLC checked on the
instance of the run first.  It says that numbers, types and slacks are those of
the formulation and the bounds those of the program times the scale factors so
far (`Formed`), that an entry, a cost or a right-hand side times its factors is
what the formulation made of the program (`Exactly`), that `csr` is `csc`
transposed, and that what is returned was computed from an iterate the
projections allow.  `AllPasses` carries it through the fold over the passes.
The rest of the argument has three parts:

* *A matrix is a list of entries.*  `csc` lists the entries of the program and
  the slacks in one order (`OrderLists`, `CscIs`), `csr` the same ones in
  another, each once, and `beg` tells from a place which row it belongs to
  (`TransposeIs`, from `InLineIsList` and `GroupOfPlace`).
* *A sum over a matrix is a sum over the program.*  The sums of the community
  modules choose the order they add in; `SumFacts` says that it does not
  matter, and `SumRenamed`, `SumFibres` and `SumScaled` that members may be
  renamed, grouped and scaled.  So what `AxCPU` adds up for a row
  and `ATyCPU` for a column is what the row and the column come to in the program
  (`RowSumIs`, `ColSumIs`), and adding up row by row or column by column comes
  to the same (`SumsCross`).
* *The answer in terms of the program.*  `PointReturned`, `JudgedReturned` and
  `OneAnswer` say each part of what `PDHG_PostSolve` returns without scale or
  permutation, and each property is then a comparison of such
  terms; `WeakDuality` adds up its inequality column by column
  (`ColumnWeighs`) and row by row (`RowWeighs`).

Assumed of the constants: rows and columns are numbered from zero; bounds,
costs, entries and iterates are integers (in units of `1/Unit`), and a bound that
is finite stays so in every scale (`UnitsAssumption`, `ModelsAssumption`,
`ValuesAssumption`); a program that is scaled has a row, factors are positive
integers, and the factors of all passes together divide a unit
(`PassesAssumption`), so that dividing by them in turn is exact, as it is taken to
be in the code's floating-point arithmetic.  The first of these leaves out a
boundary case in which the code divides by zero: with no rows the L2 and the
Pock-Chambolle pass skip the loops that compute their factors
(`cupdlp_scaling.c:137` and `193`), which stay zero.  It is listed as a hazard.

**Induction over data.**  The library's induction theorems take an operator as a
parameter, which the provers here cannot instantiate.  `DataInduction` states
them with a set instead (`SetInduction`, `IntervalInduction`, `LeastNatural`),
proved from the natural numbers, and `PrimitiveRecursion` says that a function
defined by recursion over the naturals exists and satisfies its equations.  The
weights of bits, the layers of the network and the values of bit vectors are
such functions.  The fold over scaling passes is unfolded in the same way
(`RunsExists`), and so are sums over finite sets
(`SumsExist`).  The facts about remainders the decoder's arithmetic needs are
proved there too (`RemainderFacts`, `RemainderOfSum`).

The provers have no rules for powers, so `RowDecoder` states as
`PowersAssumption` what follows from `OUT_PAR = 2^w` and `w <= ID_WIDTH`: the
modulus of the row ids is positive and a multiple of `OUT_PAR`.

Theorems about a unit that an MC module starts beside others are about the
unit's own specification.  Each step of such a run is one of a unit or leaves
its variables as they are, so what the unit keeps, the run keeps.  Units that
are instantiated have their assumptions on the constants in the theorem
(`CtrlDataFifo`, `DelayPipe`, `Uram`) or in the module that instantiates them
(`MCUnits` for `SyncFifo` and `Pipeline`, `SolverLoop` for `PdhgSolve`): TLC evaluates
assumptions of modules that are extended.

**Only model-checked:**

* all liveness properties and the fairness they rest on (outside the prover's
  reach here);
* `SolverMemory`: it has no parameters, and TLC visits all its states;
* `ConversionsAgree` and `ReadsWhatIsWritten`: `SparseFormats` and `MpsReader`
  fold sequences into records and arrays entry by entry, and compare the result
  with the same read another way.  The folds of the library are recursive functions whose
  equations would have to be proved for each step function first, and the file
  sections of `MpsReader` have no other bound than the instance's.

## 7. What could come next

That compression and dense conversion keep the entries of a matrix of any size;
for the transposition `StandardForm` needs, `TransposeIs` says it.

## 8. Not modelled, and why

* **basic_sync_fifo, `READ_LATENCY = 0`**: its pointers move only on a push
  without a pop, so a pop removes nothing; no comment or test says what the
  mode promises, and there is nothing to check it against.
* **s2mm** drives none of its bus outputs and uses an interface (`ps_if`) that the
  repository does not define; **spmv_kernel** never leaves `IDLE`; **fixed_acc** is
  an adder without state or instance; **r1w1_ram** and **rw_2d_ram** are one array with
  one registered read; **oh_to_binary** and the wrappers of the testbenches have no
  state.
* **Value widths and sign extension** in the network and what a floating-point
  unit computes: the values are abstracted.  `spmv_network_op.sv:35` is listed as
  a hazard without a property.
* **What a residual, a norm, a scale factor or a step size evaluates to**: left
  open; no finite instance says anything about them.  The GPU kernels repeat
  the CPU code.
* **csr2csc** reads fields its callers do not set, **csr2dense** and **csc2dense** are
  unused, printing has no effect on the state.
* **HiGHS**: presolve, its model and file output happen in the library, which is
  not in the repository.  `cupdlpMpsRead` is modelled, but no program of the
  repository calls it.
* **The simulation harness**: test code; the form of what the row decoder's
  testbench sends and expects is the environment of `RowDecoder`.  **Vendored headers and generated IP.**

`PROJECT.json` "components" gives the reason for each.
