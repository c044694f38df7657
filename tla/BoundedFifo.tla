----------------------------- MODULE BoundedFifo -----------------------------
(***************************************************************************)
(* What every buffer of the datapath promises: a bounded queue that is     *)
(* clocked.  In one cycle a producer may offer a word and a consumer may   *)
(* be ready for one; the queue hands over its head, stores the offered     *)
(* word when it has room and tells the producer when it has not.           *)
(*                                                                         *)
(* basic_sync_fifo.sv and both variants of pipeline.sv are shown to        *)
(* implement this module (modules SyncFifo and Pipeline).                  *)
(***************************************************************************)
EXTENDS Naturals, Sequences

CONSTANTS
  Data,         \* the words that travel through the buffer
  Capacity,     \* how many words it holds, at least one
  FlowThrough,  \* TRUE: a full buffer that is being popped accepts a word
  None          \* "no word", not an element of Data

VARIABLES
  q,        \* the words stored, oldest first
  offered,  \* the word the producer offered at the last clock edge, or None
  taken,    \* the word the consumer got at the same edge, or None
  refused   \* TRUE iff the offered word was not stored

fifoVars == <<q, offered, taken, refused>>

Room(pop) == Len(q) < Capacity \/ (FlowThrough /\ pop)

AfterPop(pop) == IF pop /\ q # <<>> THEN Tail(q) ELSE q

(* One clock edge: `push` offers the word d, `pop` asks for the head.      *)
Cycle(push, pop, d) ==
  /\ offered' = IF push THEN d ELSE None
  /\ taken' = IF pop /\ q # <<>> THEN Head(q) ELSE None
  /\ refused' = (push /\ ~Room(pop))
  /\ q' = IF push /\ Room(pop) THEN Append(AfterPop(pop), d) ELSE AfterPop(pop)

(* A synchronous reset forgets every stored word.                          *)
Reset ==
  /\ q' = <<>>
  /\ offered' = None
  /\ taken' = None
  /\ refused' = FALSE

Init ==
  /\ q = <<>>
  /\ offered = None
  /\ taken = None
  /\ refused = FALSE

Next ==
  \/ \E push, pop \in BOOLEAN, d \in Data : Cycle(push, pop, d)
  \/ Reset

Spec == Init /\ [][Next]_fifoVars
=============================================================================
