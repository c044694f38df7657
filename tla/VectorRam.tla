------------------------------ MODULE VectorRam ------------------------------
(***************************************************************************)
(* vector_ram.sv as functions of its memory and of one request: PORTS      *)
(* words written or read in one cycle.  A vector is a function from        *)
(* addresses to words, a request the record of the vector_ram_if inputs:   *)
(*   valid, write   BOOLEAN                                                *)
(*   addr, wdata    one address and one word for each port                 *)
(***************************************************************************)
EXTENDS Naturals

CONSTANTS
  LENGTH,        \* vector_ram_if parameter LENGTH
  PARALLELISM,   \* vector_ram_if parameter PARALLELISM
  None           \* rvalid low

Addr == 0..(LENGTH - 1)
Port == 0..(PARALLELISM - 1)

Writes(r, j, a) == r.valid /\ r.write /\ r.addr[j] = a

(* Several ports may write one address: the loop's last assignment stays.  *)
Written(m, r) ==
  [a \in Addr |->
    IF \E j \in Port : Writes(r, j, a)
    THEN r.wdata[CHOOSE j \in Port : Writes(r, j, a)
                   /\ \A k \in (j + 1)..(PARALLELISM - 1) : ~Writes(r, k, a)]
    ELSE m[a]]

(* rdata is registered from the memory as it was before the edge.          *)
ReadOut(m, r) == IF r.valid /\ ~r.write THEN [j \in Port |-> m[r.addr[j]]] ELSE None
=============================================================================
