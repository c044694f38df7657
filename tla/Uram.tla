-------------------------------- MODULE Uram --------------------------------
(***************************************************************************)
(* uram.sv: a memory with two ports, each with an enable, a write enable   *)
(* and a read path of NBPIPE + 2 registers.  A copy of the enable travels  *)
(* along the path, and a register loads only when its copy is set.         *)
(***************************************************************************)
EXTENDS Naturals, Sequences, SequencesExt

CONSTANTS
  Addr,      \* the addresses
  Data,      \* the words
  NBPIPE     \* parameter NBPIPE

VARIABLES
  mem,       \* the memory
  path,      \* per port: memreg, mem_pipe_reg, dout and mem_en_pipe_reg
  due        \* observation: what each port has to show, see Due

vars == <<mem, path, due>>

Port == {"a", "b"}

-----------------------------------------------------------------------------
(* en[i] is mem_en_pipe_reg[i - 1].                                        *)
Init ==
  /\ mem \in [Addr -> Data]
  /\ \E d \in Data :
       /\ path = [p \in Port |-> [memreg |-> d, pipe |-> [i \in 1..NBPIPE |-> d],
                                  dout |-> d, en |-> [i \in 1..(NBPIPE + 1) |-> FALSE]]]
       /\ due = [p \in Port |-> [queue |-> [i \in 1..(NBPIPE + 1) |-> <<>>], shown |-> d]]

Access == [ena : BOOLEAN, we : BOOLEAN, addr : Addr, din : Data]

(* A write leaves the read register alone ("no change").                   *)
MemReg(p, r) == IF r.ena /\ ~r.we THEN mem[r.addr] ELSE path[p].memreg

Stage_NextGate(s, i) ==   \* fault: gated by the copy of the next register
  IF ~s.en[i + 1] THEN s.pipe[i] ELSE IF i = 1 THEN s.memreg ELSE s.pipe[i - 1]

(* Register i of the pipe loads its predecessor when enable copy i is set. *)
Stage(s, i) ==
  IF ~s.en[i] THEN s.pipe[i] ELSE IF i = 1 THEN s.memreg ELSE s.pipe[i - 1]

NextPath(p, r) ==
  LET s == path[p]
  IN  [memreg |-> MemReg(p, r),
       pipe   |-> [i \in 1..NBPIPE |-> Stage(s, i)],
       dout   |-> IF s.en[NBPIPE + 1] THEN s.pipe[NBPIPE] ELSE s.dout,
       en     |-> [i \in 1..(NBPIPE + 1) |-> IF i = 1 THEN r.ena ELSE s.en[i - 1]]]

(* What the port owes: an access shows NBPIPE + 1 edges later the word     *)
(* that was read last, and nothing changes without an access.              *)
Due(p, r) ==
  LET ripe == Last(due[p].queue)
  IN  [queue |-> <<IF r.ena THEN <<MemReg(p, r)>> ELSE <<>> >> \o Front(due[p].queue),
       shown |-> IF ripe = <<>> THEN due[p].shown ELSE Head(ripe)]

(* Both ports may write one address in one cycle: either word may stay.    *)
Written(ra, rb) ==
  LET wr(r, a) == r.ena /\ r.we /\ r.addr = a
  IN  {m \in [Addr -> Data] : \A a \in Addr :
        IF wr(ra, a) \/ wr(rb, a)
        THEN (wr(ra, a) /\ m[a] = ra.din) \/ (wr(rb, a) /\ m[a] = rb.din)
        ELSE m[a] = mem[a]}

Clock(ra, rb) ==
  LET of(p) == IF p = "a" THEN ra ELSE rb
  IN  /\ mem' \in Written(ra, rb)
      /\ path' = [p \in Port |-> NextPath(p, of(p))]
      /\ due' = [p \in Port |-> Due(p, of(p))]

Next == \E ra, rb \in Access : Clock(ra, rb)

Spec == Init /\ [][Next]_vars

-----------------------------------------------------------------------------
(* The enables keep data and latency together: whatever the gaps between   *)
(* accesses, each port shows the word of an access NBPIPE + 1 edges after  *)
(* it was read, and holds it until the next access is due.                 *)
LatencyIsFixed == \A p \in Port : path[p].dout = due[p].shown
=============================================================================
