--------------------------- MODULE VectorPingPong ---------------------------
(***************************************************************************)
(* vector_ping_pong.sv behind vector_ping_pong_ld_wrapper.sv: two          *)
(* vector_ram instances and one bit that says which of them x addresses.   *)
(* The wrapper lets a configuration port take the place of x (ping high)   *)
(* or of x_n (ping low), and holds ping back while it does.  With cfg_en   *)
(* low the wrapper is the bare vector_ping_pong of RELEASE_MODE.           *)
(*                                                                         *)
(* The source copies the requests to the RAMs but no answer back to x and  *)
(* x_n; the answers are modelled where they are, at the RAMs.              *)
(***************************************************************************)
EXTENDS VectorRam

CONSTANTS
  Data,          \* the values of a word
  XRequests,     \* the requests that may be offered at x
  NextRequests,  \* ... at x_n; what is stored tells the two apart when the
                 \* words that they write differ
  RomRequests    \* ... at a read-only port

VARIABLES
  ping_r,      \* the register behind ping
  ram,         \* ram[0] is ping_ram_I, ram[1] is pong_ram_I
  req, rom     \* rdata (or None) of the two ports of each RAM

vars == <<ping_r, ram, req, rom>>

Idle == [valid |-> FALSE, write |-> FALSE,
         addr |-> [j \in Port |-> 0], wdata |-> [j \in Port |-> CHOOSE d \in Data : TRUE]]

Vector == [Addr -> Data]

-----------------------------------------------------------------------------
Flip(b) == 1 - b

current_ping_Late(ping) == ping_r   \* fault: the swap is seen one cycle late
current_ping(ping) == IF ping THEN Flip(ping_r) ELSE ping_r

(* The crossbar: what reaches RAM b of the pair (of x, of x_n).            *)
Routed(b, cp, ofX, ofXn) == IF b = cp THEN ofX ELSE ofXn

Init ==
  /\ ping_r = 0
  /\ ram \in [{0, 1} -> Vector]
  /\ req = [b \in {0, 1} |-> None]
  /\ rom = [b \in {0, 1} |-> None]

(* vector_ping_pong: one clock edge with rst_n high.                       *)
PingPong(ping, rx, rn, romx, romn) ==
  LET cp == current_ping(ping)
      r(b) == Routed(b, cp, rx, rn)
  IN  /\ ping_r' = IF ping THEN Flip(ping_r) ELSE ping_r
      /\ ram' = [b \in {0, 1} |-> Written(ram[b], r(b))]
      /\ req' = [b \in {0, 1} |-> ReadOut(ram[b], r(b))]
      /\ rom' = [b \in {0, 1} |-> ReadOut(ram[b], Routed(b, cp, romx, romn))]

(* The wrapper: with cfg_en the request at cfg replaces one of the two.    *)
Clock(ping, cfg_en, rx, rn, cfg, romx, romn) ==
  PingPong(ping /\ ~cfg_en,
           IF cfg_en /\ ping THEN cfg ELSE rx,
           IF cfg_en /\ ~ping THEN cfg ELSE rn, romx, romn)

(* rst_n low: ping_r is cleared, the memories are kept; nobody accesses    *)
(* them then (the testbench drives idle requests).                         *)
Reset ==
  /\ ping_r' = 0
  /\ req' = [b \in {0, 1} |-> None]
  /\ rom' = [b \in {0, 1} |-> None]
  /\ UNCHANGED ram

Next ==
  \/ \E ping, cfg_en \in BOOLEAN,
        rx \in XRequests, rn \in NextRequests, romx, romn \in RomRequests :
       \E cfg \in IF ~cfg_en THEN {Idle} ELSE IF ping THEN XRequests ELSE NextRequests :
         Clock(ping, cfg_en, rx, rn, cfg, romx, romn)
  \/ Reset

Spec == Init /\ [][Next]_vars

-----------------------------------------------------------------------------
(* The two RAMs and the bit are a double buffer: no write reaches the      *)
(* other iterate, what was written to x_n is read at x after a ping, also  *)
(* in the very cycle of the ping, and the configuration port loads the     *)
(* vector that ping names.                                                 *)
Buffer == INSTANCE DoubleBuffer WITH
            x <- ram[ping_r], x_n <- ram[Flip(ping_r)],
            got <- [x |-> req[ping_r], x_n |-> req[Flip(ping_r)],
                    rom_x |-> rom[ping_r], rom_x_n |-> rom[Flip(ping_r)]]

ImplementsDoubleBuffer == Buffer!Spec
=============================================================================
