---------------------------- MODULE DoubleBuffer ----------------------------
(***************************************************************************)
(* What the vector ping-pong promises: two vectors, the current iterate x  *)
(* and the next one x_n.  A ping makes the next iterate the current one    *)
(* before the accesses of that cycle; a write reaches the vector it was    *)
(* addressed to and only that one; a read returns the words that vector    *)
(* had before the cycle's writes.                                          *)
(***************************************************************************)
EXTENDS VectorRam

CONSTANTS
  XRequests,         \* the requests that may be made of x
  NextRequests,      \* ... of x_n
  RomRequests        \* ... of either vector through its read-only port

VARIABLES
  x, x_n,            \* the two vectors
  got                \* what the reads of the last cycle returned

bufferVars == <<x, x_n, got>>

NoReads == [x |-> None, x_n |-> None, rom_x |-> None, rom_x_n |-> None]

Swapped(ping) == IF ping THEN <<x_n, x>> ELSE <<x, x_n>>

Cycle(ping, rx, rn, romx, romn) ==
  LET now == Swapped(ping)
  IN  /\ x' = Written(now[1], rx)
      /\ x_n' = Written(now[2], rn)
      /\ got' = [x |-> ReadOut(now[1], rx), x_n |-> ReadOut(now[2], rn),
                 rom_x |-> ReadOut(now[1], romx), rom_x_n |-> ReadOut(now[2], romn)]

(* A reset forgets which vector is which, and nothing else.                *)
Reset == /\ \E swap \in BOOLEAN : <<x', x_n'>> = Swapped(swap)
         /\ got' = NoReads

Init == got = NoReads

Next ==
  \/ \E ping \in BOOLEAN, rx \in XRequests, rn \in NextRequests, romx, romn \in RomRequests :
       Cycle(ping, rx, rn, romx, romn)
  \/ Reset

Spec == Init /\ [][Next]_bufferVars
=============================================================================
