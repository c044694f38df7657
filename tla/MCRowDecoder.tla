---------------------------- MODULE MCRowDecoder ----------------------------
(***************************************************************************)
(* The row decoder with as many lanes out as in, and one with the ratio of *)
(* the repository's testbench, two lanes in for each lane out.  The        *)
(* initial state chooses which of them is clocked.                         *)
(***************************************************************************)
EXTENDS RowDecoder

CONSTANTS WideOffsets, WideChunks   \* bounds of the second, as of the first

VARIABLES
  wide,                                                  \* which is clocked
  w_in_r, w_ctl, w_p0, w_p1, w_out_r, w_vec, w_owed, w_row_word

wideVars == <<w_in_r, w_ctl, w_p0, w_p1, w_out_r, w_vec, w_owed, w_row_word>>

Wide == INSTANCE RowDecoder WITH
          IN_PAR <- 2 * OUT_PAR, Offsets <- WideOffsets, MaxChunks <- WideChunks,
          in_r <- w_in_r, ctl <- w_ctl, p0 <- w_p0, p1 <- w_p1, out_r <- w_out_r,
          vec <- w_vec, owed <- w_owed, row_word <- w_row_word

BothInit == wide \in BOOLEAN /\ Init /\ Wide!Init

BothNext ==
  /\ UNCHANGED wide
  /\ IF wide THEN Wide!Next ELSE UNCHANGED wideVars
  /\ IF wide THEN UNCHANGED vars ELSE Next

(* ConsumerFairness of RowDecoder, for the first when it is clocked.       *)
BothSpec ==
  /\ BothInit /\ [][BothNext]_<<wide, vars, wideVars>>
  /\ WF_vars(/\ ~wide
             /\ \/ Clock(FALSE, NoChunk, TRUE)
                \/ \E chunk \in Chunk : Clock(TRUE, chunk, TRUE))

(* See RowDecoder: with the testbench's ratio too the ids are right in     *)
(* number, and every row of a word but its first is in its lanes.          *)
WideNothingForgotten == Wide!NothingForgotten
WideRowsBeginInPlace == Wide!RowsBeginInPlace
=============================================================================
