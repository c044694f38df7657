-------------------------- MODULE NetworkRamAdapter --------------------------
(***************************************************************************)
(* network_ram_adapter.sv: NUM_INPUTS lanes of the reduction network, each *)
(* with a FIFO of (id, value) words, write to NUM_OUTPUTS vector ports.    *)
(* One step is one rising clock edge.                                      *)
(***************************************************************************)
EXTENDS Naturals, Sequences, FiniteSets, FiniteSetsExt

CONSTANTS NUM_INPUTS, NUM_OUTPUTS, FIFO_DEPTH   \* the parameters

VARIABLES
  q,      \* the id of every word in every input FIFO, oldest first
  taken,  \* lanes whose head a port took at the last edge
  popped, \* lanes whose FIFO dropped its head at the last edge
  stale   \* the id in the slot an empty FIFO shows on dout

vars == <<q, taken, popped, stale>>

Lane == 0..(NUM_INPUTS - 1)
Port == 0..(NUM_OUTPUTS - 1)

-----------------------------------------------------------------------------
fifo_valid == {i \in Lane : q[i] # <<>>}
in_ready == {i \in Lane : Len(q[i]) < FIFO_DEPTH - 1}

(* An empty basic_sync_fifo shows the slot it wrote at the last edge, and  *)
(* it writes at every edge: the id offered then.                           *)
fifo_out_id(i) == IF q[i] # <<>> THEN Head(q[i]) ELSE stale[i]

(* The loop over the lanes: the last lane that names a port decides what   *)
(* the port shows, and whether it is valid.                                *)
Shown(port) ==
  LET claims == {i \in Lane : fifo_out_id(i) = port}
  IN  IF claims = {} THEN {} ELSE {Max(claims)} \cap fifo_valid

(* shift_out of lane i is ready[in_id[i]]: the id being offered, not the   *)
(* id of the head.                                                         *)
ShiftOut(i, in_id, ready) == in_id[i] \in ready

-----------------------------------------------------------------------------
Init ==
  /\ q = [i \in Lane |-> <<>>]
  /\ taken = {}
  /\ popped = {}
  /\ stale \in [Lane -> Port]

Reset ==
  /\ q' = [i \in Lane |-> <<>>]
  /\ taken' = {}
  /\ popped' = {}
  /\ stale' \in [Lane -> Port]

Clock(in_valid, in_id, ready) ==
  LET drop == {i \in fifo_valid : ShiftOut(i, in_id, ready)}
      rest == [i \in Lane |-> IF i \in drop THEN Tail(q[i]) ELSE q[i]]
  IN  /\ q' = [i \in Lane |-> IF i \in in_valid \cap in_ready
                              THEN Append(rest[i], in_id[i]) ELSE rest[i]]
      /\ taken' = UNION {Shown(port) : port \in ready}
      /\ popped' = drop
      /\ stale' = in_id

Next ==
  \/ \E in_valid \in SUBSET Lane, in_id \in [Lane -> Port], ready \in SUBSET Port :
       Clock(in_valid, in_id, ready)
  \/ Reset

Spec == Init /\ [][Next]_vars

-----------------------------------------------------------------------------
(* A word leaves its FIFO at the edge its port takes it and at no other:   *)
(* popped without being taken it is lost, taken without being popped it    *)
(* reaches the port again.                                                 *)
TakenExactlyOnce == popped = taken
=============================================================================
