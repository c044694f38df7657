---------------------------- MODULE OperandsProofs ---------------------------
(***************************************************************************)
(* The units that supply operands: that vector_ping_pong.sv, with the      *)
(* wrapper that fills it, is a double buffer; that uram.sv returns each    *)
(* access a fixed number of edges later; that so_rr_arbiter.sv grants the  *)
(* first requester at or after base and starves none, with what its        *)
(* subtraction of bit vectors does proved from binary arithmetic.          *)
(***************************************************************************)
EXTENDS MCUnits, SequenceTheorems, DataInduction, TLAPS

(* The bit's complement is the other RAM, and its complement the first.    *)
LEMMA FlipTwice ==
  \A b \in {0, 1} : /\ Vectors!Flip(b) \in {0, 1} /\ Vectors!Flip(b) # b
                    /\ Vectors!Flip(Vectors!Flip(b)) = b
BY DEF Vectors!Flip

(* One edge of the inner module, by which RAM it selects before.           *)
LEMMA PingPongIsCycle ==
  ASSUME ping_r \in {0, 1}, NEW ping \in BOOLEAN,
         NEW rx, NEW rn, NEW romx, NEW romn,
         Vectors!PingPong(ping, rx, rn, romx, romn)
  PROVE  ping_r' \in {0, 1} /\ Vectors!Buffer!Cycle(ping, rx, rn, romx, romn)
<1>1. ping_r' = Vectors!current_ping(ping) /\ ping_r' \in {0, 1}
  BY FlipTwice DEF Vectors!PingPong, Vectors!current_ping
<1>2. Vectors!Buffer!Swapped(ping) = <<ram[ping_r'], ram[Vectors!Flip(ping_r')]>>
  BY <1>1, FlipTwice DEF Vectors!Buffer!Swapped, Vectors!current_ping
<1>3. /\ ram'[ping_r'] = Vectors!Written(ram[ping_r'], rx)
      /\ ram'[Vectors!Flip(ping_r')] = Vectors!Written(ram[Vectors!Flip(ping_r')], rn)
  BY <1>1, FlipTwice DEF Vectors!PingPong, Vectors!Routed
<1>4. /\ req'[ping_r'] = Vectors!ReadOut(ram[ping_r'], rx)
      /\ req'[Vectors!Flip(ping_r')] = Vectors!ReadOut(ram[Vectors!Flip(ping_r')], rn)
      /\ rom'[ping_r'] = Vectors!ReadOut(ram[ping_r'], romx)
      /\ rom'[Vectors!Flip(ping_r')] = Vectors!ReadOut(ram[Vectors!Flip(ping_r')], romn)
  BY <1>1, FlipTwice DEF Vectors!PingPong, Vectors!Routed
<1>5. QED
  BY <1>1, <1>2, <1>3, <1>4
     DEF Vectors!Buffer!Cycle, Vectors!Flip, Vectors!Written, Vectors!ReadOut, Vectors!Writes,
         Vectors!Port, Vectors!Addr,
         Vectors!Buffer!Written, Vectors!Buffer!ReadOut, Vectors!Buffer!Writes,
         Vectors!Buffer!Port, Vectors!Buffer!Addr

(* The wrapper changes who is asking, not what an edge does: with cfg_en   *)
(* the bit is held, and the request at cfg is one that x or x_n could have *)
(* made.                                                                   *)
LEMMA ClockIsCycle ==
  ASSUME ping_r \in {0, 1}, NEW ping \in BOOLEAN, NEW cfg_en \in BOOLEAN,
         NEW rx \in XRequests, NEW rn \in NextRequests,
         NEW romx \in RomRequests, NEW romn \in RomRequests,
         NEW cfg \in IF ~cfg_en THEN {Vectors!Idle}
                     ELSE IF ping THEN XRequests ELSE NextRequests,
         Vectors!Clock(ping, cfg_en, rx, rn, cfg, romx, romn)
  PROVE  ping_r' \in {0, 1} /\ Vectors!Buffer!Next
<1> DEFINE p == ping /\ ~cfg_en
           x == IF cfg_en /\ ping THEN cfg ELSE rx
           n == IF cfg_en /\ ~ping THEN cfg ELSE rn
<1>1. p \in BOOLEAN /\ x \in XRequests /\ n \in NextRequests
  OBVIOUS
<1>2. Vectors!PingPong(p, x, n, romx, romn)
  BY DEF Vectors!Clock
<1> HIDE DEF p, x, n
<1>3. ping_r' \in {0, 1} /\ Vectors!Buffer!Cycle(p, x, n, romx, romn)
  BY <1>1, <1>2, PingPongIsCycle
<1>4. QED
  BY <1>1, <1>3 DEF Vectors!Buffer!Next

(* A reset clears the bit: the mapped vectors change places or stay.       *)
LEMMA ResetIsReset ==
  ASSUME ping_r \in {0, 1}, Vectors!Reset
  PROVE  ping_r' \in {0, 1} /\ Vectors!Buffer!Reset
<1>1. /\ ping_r' = 0 /\ ram' = ram
      /\ req' = [b \in {0, 1} |-> None] /\ rom' = [b \in {0, 1} |-> None]
  BY DEF Vectors!Reset
<1>2. \E swap \in BOOLEAN :
        <<ram'[ping_r'], ram'[Vectors!Flip(ping_r')]>> = Vectors!Buffer!Swapped(swap)
  <2>1. CASE ping_r = 0
    BY <1>1, <2>1 DEF Vectors!Buffer!Swapped, Vectors!Flip
  <2>2. CASE ping_r = 1
    <3>1. <<ram'[ping_r'], ram'[Vectors!Flip(ping_r')]>> = Vectors!Buffer!Swapped(TRUE)
      BY <1>1, <2>2 DEF Vectors!Buffer!Swapped, Vectors!Flip
    <3>2. QED
      BY <3>1
  <2>3. QED
    BY <2>1, <2>2
<1>3. QED
  BY <1>1, <1>2 DEF Vectors!Buffer!Reset, Vectors!Buffer!NoReads, Vectors!Flip

-----------------------------------------------------------------------------
(* vector_ping_pong.sv implements the double buffer: for every LENGTH and  *)
(* PARALLELISM, every behaviour of the two RAMs, the bit, the crossbar and *)
(* the configuration port is a behaviour of two vectors that swap.         *)
THEOREM PingPongRefinement == Vectors!Spec => ImplementsDoubleBuffer
<1> DEFINE IsBit == ping_r \in {0, 1}
<1>1. Vectors!Init => IsBit /\ Vectors!Buffer!Init
  BY DEF Vectors!Init, Vectors!Buffer!Init, Vectors!Buffer!NoReads, Vectors!Flip
<1>2. IsBit /\ [Vectors!Next]_(Vectors!vars)
        => IsBit' /\ [Vectors!Buffer!Next]_(Vectors!Buffer!bufferVars)
  <2> SUFFICES ASSUME IsBit, [Vectors!Next]_(Vectors!vars)
               PROVE  IsBit' /\ [Vectors!Buffer!Next]_(Vectors!Buffer!bufferVars)
    OBVIOUS
  <2>1. CASE Vectors!Reset
    BY <2>1, ResetIsReset DEF Vectors!Buffer!Next
  <2>2. CASE UNCHANGED Vectors!vars
    BY <2>2 DEF Vectors!vars, Vectors!Buffer!bufferVars, Vectors!Flip
  <2>3. ASSUME NEW ping \in BOOLEAN, NEW cfg_en \in BOOLEAN,
               NEW rx \in XRequests, NEW rn \in NextRequests,
               NEW romx \in RomRequests, NEW romn \in RomRequests,
               NEW cfg \in IF ~cfg_en THEN {Vectors!Idle}
                           ELSE IF ping THEN XRequests ELSE NextRequests,
               Vectors!Clock(ping, cfg_en, rx, rn, cfg, romx, romn)
        PROVE  IsBit' /\ Vectors!Buffer!Next
    BY <2>3, ClockIsCycle
  <2>4. QED
    BY <2>1, <2>2, <2>3 DEF Vectors!Next
<1>3. QED
  BY <1>1, <1>2, PTL DEF Vectors!Spec, ImplementsDoubleBuffer,
                           Vectors!ImplementsDoubleBuffer, Vectors!Buffer!Spec

-----------------------------------------------------------------------------
(* Register i of the path, the memory's own read register being the first. *)
Before(s, i) == IF i = 1 THEN s.memreg ELSE s.pipe[i - 1]

Paths == [memreg : Word, pipe : [1..NBPIPE -> Word], dout : Word,
          en : [1..(NBPIPE + 1) -> BOOLEAN]]
Dues == [queue : {q \in Seq(Seq(Word)) : Len(q) = NBPIPE + 1}, shown : Word]

Matches(s, d) ==
  /\ s.dout = d.shown
  /\ \A i \in 1..(NBPIPE + 1) : d.queue[i] = IF s.en[i] THEN <<Before(s, i)>> ELSE <<>>

InStep ==
  /\ uramMem \in [UramAddr -> Word]
  /\ path \in [Memory!Port -> Paths]
  /\ due \in [Memory!Port -> Dues]
  /\ \A p \in Memory!Port : Matches(path[p], due[p])

(* A queue that takes one at the front and gives up its last.              *)
LEMMA Shifted ==
  ASSUME NEW S, NEW x \in S, NEW q \in Seq(S), Len(q) > 0
  PROVE  /\ <<x>> \o Memory!Front(q) \in Seq(S)
         /\ Len(<<x>> \o Memory!Front(q)) = Len(q)
         /\ \A i \in 1..Len(q) : (<<x>> \o Memory!Front(q))[i] = IF i = 1 THEN x ELSE q[i - 1]
<1>1. /\ Memory!Front(q) \in Seq(S) /\ Len(Memory!Front(q)) = Len(q) - 1
      /\ \A i \in 1..(Len(q) - 1) : Memory!Front(q)[i] = q[i]
  <2>1. PICK n \in Nat \ {0} : Len(q) = n
    BY LenProperties
  <2>2. QED
    BY <2>1, SubSeqProperties DEF Memory!Front
<1>2. <<x>> \in Seq(S) /\ Len(<<x>>) = 1 /\ <<x>>[1] = x
  OBVIOUS
<1>3. QED
  BY <1>1, <1>2, ConcatProperties

(* One edge of one port.                                                   *)
LEMMA PortEdge ==
  ASSUME NBPIPE \in Nat \ {0}, InStep, NEW p \in Memory!Port, NEW r \in Memory!Access
  PROVE  /\ Memory!NextPath(p, r) \in Paths
         /\ Memory!Due(p, r) \in Dues
         /\ Matches(Memory!NextPath(p, r), Memory!Due(p, r))
<1> DEFINE s == path[p]
           d == due[p]
           n == NBPIPE + 1
           t == Memory!NextPath(p, r)
           u == Memory!Due(p, r)
           new == IF r.ena THEN <<Memory!MemReg(p, r)>> ELSE <<>>
<1>1. /\ n \in Nat \ {0} /\ s \in Paths /\ d \in Dues /\ Matches(s, d)
      /\ r.ena \in BOOLEAN /\ uramMem \in [UramAddr -> Word] /\ (r.addr \in UramAddr)
  BY DEF InStep, Memory!Access
<1>2. Memory!MemReg(p, r) \in Word
  BY <1>1 DEF Memory!MemReg, Paths
<1>3. t \in Paths
  <2>1. \A i \in 1..NBPIPE : Memory!Stage(s, i) \in Word
    BY <1>1 DEF Memory!Stage, Paths
  <2>2. QED
    BY <1>1, <1>2, <2>1 DEF Memory!NextPath, Paths
<1>4. new \in Seq(Word)
  BY <1>2
<1>5. /\ u.queue \in Seq(Seq(Word)) /\ Len(u.queue) = n
      /\ \A i \in 1..n : u.queue[i] = IF i = 1 THEN new ELSE d.queue[i - 1]
  <2>1. d.queue \in Seq(Seq(Word)) /\ Len(d.queue) = n
    BY <1>1 DEF Dues
  <2>2. u.queue = <<new>> \o Memory!Front(d.queue)
    BY DEF Memory!Due
  <2>3. new \in Seq(Word) /\ Len(d.queue) > 0
    BY <1>1, <1>4, <2>1
  <2> DEFINE old == d.queue
  <2> HIDE DEF new, old
  <2>4. /\ <<new>> \o Memory!Front(old) \in Seq(Seq(Word))
        /\ Len(<<new>> \o Memory!Front(old)) = Len(old)
        /\ \A i \in 1..Len(old) :
             (<<new>> \o Memory!Front(old))[i] = IF i = 1 THEN new ELSE old[i - 1]
    <3>1. old \in Seq(Seq(Word)) /\ Len(old) > 0
      BY <2>1, <2>3 DEF old
    <3>2. QED
      BY <2>3, <3>1, Shifted
  <2>5. QED
    BY <2>1, <2>2, <2>4 DEF old
<1>6. Memory!Last(d.queue) = IF s.en[n] THEN <<s.pipe[NBPIPE]>> ELSE <<>>
  BY <1>1 DEF Matches, Before, Memory!Last, Dues
<1>7. t.dout = u.shown /\ u.shown \in Word
  <2>1. t.dout = IF s.en[n] THEN s.pipe[NBPIPE] ELSE s.dout
    BY DEF Memory!NextPath
  <2>2. u.shown = IF Memory!Last(d.queue) = <<>> THEN d.shown ELSE Head(Memory!Last(d.queue))
    BY DEF Memory!Due
  <2>3. QED
    BY <1>1, <1>3, <1>6, <2>1, <2>2 DEF Matches, Paths
<1>8. ASSUME NEW i \in 1..n
      PROVE  u.queue[i] = IF t.en[i] THEN <<Before(t, i)>> ELSE <<>>
  <2>1. t.en[i] = IF i = 1 THEN r.ena ELSE s.en[i - 1]
    BY Zenon DEF Memory!NextPath
  <2>2. CASE i = 1
    <3>1. t.memreg = Memory!MemReg(p, r)
      BY DEF Memory!NextPath
    <3>2. QED
      BY <1>5, <2>1, <2>2, <3>1 DEF Before
  <2>3. CASE i # 1
    <3>1. i - 1 \in 1..NBPIPE /\ i - 1 \in 1..n
      BY <1>1, <2>3
    <3>2. t.pipe[i - 1] = Memory!Stage(s, i - 1)
      BY <3>1 DEF Memory!NextPath
    <3>3. s.en[i - 1] => Memory!Stage(s, i - 1) = Before(s, i - 1)
      BY <3>1 DEF Memory!Stage, Before
    <3>4. u.queue[i] = IF s.en[i - 1] THEN <<Before(s, i - 1)>> ELSE <<>>
      BY <1>1, <1>5, <2>3, <3>1 DEF Matches
    <3>5. QED
      BY <2>1, <2>3, <3>2, <3>3, <3>4 DEF Before
  <2>4. QED
    BY <2>2, <2>3
<1>9. QED
  <2>1. u = [queue |-> u.queue, shown |-> u.shown]
    BY DEF Memory!Due
  <2> HIDE DEF t, u
  <2>2. u \in Dues
    BY <1>5, <1>7, <2>1 DEF Dues
  <2>3. QED
    BY <1>3, <1>7, <1>8, <2>2 DEF Matches, t, u

-----------------------------------------------------------------------------
(* Whatever the gaps between accesses and whatever both ports do, each     *)
(* port shows the word of an access NBPIPE + 1 edges after it was read and *)
(* holds it until the next one is due: for every memory and every NBPIPE.  *)
THEOREM LatencyHolds == ASSUME NBPIPE \in Nat \ {0} PROVE Memory!Spec => []LatencyIsFixed
<1>1. Memory!Init => InStep
  <2> SUFFICES ASSUME Memory!Init PROVE InStep
    OBVIOUS
  <2>1. PICK w \in Word :
          /\ path = [p \in Memory!Port |-> [memreg |-> w, pipe |-> [i \in 1..NBPIPE |-> w],
                                     dout |-> w, en |-> [i \in 1..(NBPIPE + 1) |-> FALSE]]]
          /\ due = [p \in Memory!Port |->
                      [queue |-> [i \in 1..(NBPIPE + 1) |-> <<>>], shown |-> w]]
    BY DEF Memory!Init
  <2> DEFINE q == [i \in 1..(NBPIPE + 1) |-> <<>>]
  <2>2. q \in Seq(Seq(Word)) /\ Len(q) = NBPIPE + 1
    <3>1. q \in [1..(NBPIPE + 1) -> Seq(Word)] /\ NBPIPE + 1 \in Nat
      OBVIOUS
    <3>2. QED
      BY <3>1, SeqDef, LenProperties
  <2>3. [queue |-> q, shown |-> w] \in Dues
    BY <2>2 DEF Dues
  <2>4. due \in [Memory!Port -> Dues]
    BY <2>1, <2>3
  <2>5. path \in [Memory!Port -> Paths]
    BY <2>1 DEF Paths
  <2>6. \A p \in Memory!Port : Matches(path[p], due[p])
    BY <2>1 DEF Matches
  <2>7. QED
    BY <2>4, <2>5, <2>6 DEF Memory!Init, InStep
<1>2. InStep /\ [Memory!Next]_(Memory!vars) => InStep'
  <2> SUFFICES ASSUME InStep, [Memory!Next]_(Memory!vars) PROVE InStep'
    OBVIOUS
  <2>1. CASE UNCHANGED Memory!vars
    BY <2>1 DEF Memory!vars, InStep
  <2>2. ASSUME NEW ra \in Memory!Access, NEW rb \in Memory!Access, Memory!Clock(ra, rb)
        PROVE  InStep'
    <3> DEFINE of(p) == IF p = "a" THEN ra ELSE rb
    <3>1. /\ uramMem' \in [UramAddr -> Word]
          /\ path' = [p \in Memory!Port |-> Memory!NextPath(p, of(p))]
          /\ due' = [p \in Memory!Port |-> Memory!Due(p, of(p))]
      BY <2>2 DEF Memory!Clock, Memory!Written
    <3>2. \A p \in Memory!Port : of(p) \in Memory!Access
      OBVIOUS
    <3> HIDE DEF of
    <3>3. \A p \in Memory!Port : /\ Memory!NextPath(p, of(p)) \in Paths
                          /\ Memory!Due(p, of(p)) \in Dues
                          /\ Matches(Memory!NextPath(p, of(p)), Memory!Due(p, of(p)))
      BY <3>2, PortEdge
    <3>4. QED
      BY <3>1, <3>3 DEF InStep
  <2>3. QED
    BY <2>1, <2>2 DEF Memory!Next
<1>3. InStep => LatencyIsFixed
  BY DEF InStep, Matches, LatencyIsFixed, Memory!LatencyIsFixed
<1>4. QED
  BY <1>1, <1>2, <1>3, PTL DEF Memory!Spec

-----------------------------------------------------------------------------
(***************************************************************************)
(* so_rr_arbiter.sv.                                                       *)
(***************************************************************************)
(* The weights of the bits, by their recursion.                            *)
LEMMA WeightFacts ==
  /\ Weight[0] = 1
  /\ \A k \in Nat : Weight[k] \in Nat \ {0} /\ Weight[k + 1] = 2 * Weight[k]
<1> DEFINE step == [n \in Nat |-> [x \in Nat \ {0} |-> 2 * x]]
           Defines(w) == w = [k \in Nat |-> IF k = 0 THEN 1 ELSE 2 * w[k - 1]]
<1>1. step \in Steps(Nat \ {0}) /\ 1 \in Nat \ {0}
  BY DEF Steps
<1> HIDE DEF step
<1>2. PICK f : Recurses(f, Nat \ {0}, 1, step)
  BY <1>1, PrimitiveRecursion
<1>3. /\ f \in [Nat -> Nat \ {0}] /\ f[0] = 1
      /\ \A n \in Nat : f[n + 1] = 2 * f[n]
  BY <1>2 DEF step, Recurses
<1>4. Defines(f)
  <2>1. \A k \in Nat : f[k] = IF k = 0 THEN 1 ELSE 2 * f[k - 1]
    <3> SUFFICES ASSUME NEW k \in Nat, k # 0 PROVE f[k] = 2 * f[k - 1]
      BY <1>3
    <3>1. k - 1 \in Nat /\ (k - 1) + 1 = k
      OBVIOUS
    <3>2. QED
      BY <1>3, <3>1
  <2>2. QED
    BY <1>3, <2>1
<1>5. Defines(Weight)
  <2>1. Weight = CHOOSE w : Defines(w)
    BY DEF Weight
  <2> HIDE DEF Defines
  <2>2. QED
    BY <1>4, <2>1
<1> HIDE DEF Defines
<1>6. Weight[0] = 1 /\ \A n \in Nat : Weight[n + 1] = 2 * Weight[n]
  BY <1>5 DEF Defines
<1>7. \A k \in Nat : Weight[k] \in Nat \ {0}
  <2> DEFINE T == {k \in Nat : Weight[k] \in Nat \ {0}}
  <2>1. 0 \in T /\ \A n \in Nat : n \in T => n + 1 \in T
    BY <1>6
  <2> HIDE DEF T
  <2>2. Nat \subseteq T
    BY <2>1, SetInduction
  <2>3. QED
    BY <2>2 DEF T
<1>8. QED
  BY <1>6, <1>7

(* What the lowest bits of a vector are worth, by its recursion.           *)
LEMMA LowFacts ==
  \A X \in SUBSET Bit :
    /\ Low[0][X] = 0
    /\ \A k \in Nat : /\ Low[k][X] \in Nat
                      /\ Low[k + 1][X] = Low[k][X] + (IF k \in X THEN Weight[k] ELSE 0)
<1> DEFINE S == [SUBSET Bit -> Nat]
           Worth(k, X) == IF k \in X THEN Weight[k] ELSE 0
           zero == [X \in SUBSET Bit |-> 0]
           step == [n \in Nat |-> [g \in S |-> [X \in SUBSET Bit |-> g[X] + Worth(n, X)]]]
           Defines(l) == l = [k \in Nat |-> [X \in SUBSET Bit |->
                               IF k = 0 THEN 0 ELSE l[k - 1][X] + Worth(k - 1, X)]]
<1>1. \A k \in Nat, X \in SUBSET Bit : Worth(k, X) \in Nat
  BY WeightFacts
<1>2. zero \in S
  OBVIOUS
<1>3. step \in Steps(S)
  <2> HIDE DEF Worth
  <2>1. ASSUME NEW n \in Nat, NEW g \in S
        PROVE  [X \in SUBSET Bit |-> g[X] + Worth(n, X)] \in S
    BY <1>1
  <2>2. QED
    BY <2>1 DEF Steps
<1>4. PICK f : Recurses(f, S, zero, step)
  <2> HIDE DEF S, zero, step
  <2>1. QED
    BY <1>2, <1>3, PrimitiveRecursion
<1>5. /\ f \in [Nat -> S] /\ f[0] = zero
      /\ \A n \in Nat : f[n + 1] = [X \in SUBSET Bit |-> f[n][X] + Worth(n, X)]
  <2> HIDE DEF Worth
  <2>1. QED
    BY <1>4 DEF Recurses
<1>6. Defines(f)
  <2> HIDE DEF Worth
  <2>1. ASSUME NEW k \in Nat
        PROVE  f[k] = [X \in SUBSET Bit |->
                        IF k = 0 THEN 0 ELSE f[k - 1][X] + Worth(k - 1, X)]
    <3>1. CASE k = 0
      BY <1>5, <3>1
    <3>2. CASE k # 0
      <4>1. k - 1 \in Nat /\ (k - 1) + 1 = k
        BY <3>2
      <4>2. f[(k - 1) + 1] = [X \in SUBSET Bit |-> f[k - 1][X] + Worth(k - 1, X)]
        BY <1>5, <4>1
      <4>3. QED
        BY <3>2, <4>1, <4>2
    <3>3. QED
      BY <3>1, <3>2
  <2>2. QED
    BY <1>5, <2>1
<1>7. Defines(Low)
  <2>1. Low = CHOOSE l : Defines(l)
    BY DEF Low
  <2> HIDE DEF Defines
  <2>2. QED
    BY <1>6, <2>1
<1>8. ASSUME NEW X \in SUBSET Bit
      PROVE  Low[0][X] = 0 /\ \A k \in Nat : Low[k + 1][X] = Low[k][X] + Worth(k, X)
  <2> HIDE DEF Worth
  <2>1. QED
    BY <1>7
<1>9. ASSUME NEW X \in SUBSET Bit PROVE \A k \in Nat : Low[k][X] \in Nat
  <2> DEFINE T == {k \in Nat : Low[k][X] \in Nat}
  <2> HIDE DEF Worth
  <2>1. 0 \in T /\ \A n \in Nat : n \in T => n + 1 \in T
    <3>1. 0 \in T
      BY <1>8
    <3>2. ASSUME NEW n \in Nat, Low[n][X] \in Nat PROVE Low[n + 1][X] \in Nat
      <4>1. Low[n + 1][X] = Low[n][X] + Worth(n, X)
        BY <1>8
      <4>2. Worth(n, X) \in Nat
        BY <1>1
      <4>3. QED
        BY <3>2, <4>1, <4>2
    <3>3. QED
      BY <3>1, <3>2
  <2> HIDE DEF T
  <2>2. Nat \subseteq T
    BY <2>1, SetInduction
  <2>3. QED
    BY <2>2 DEF T
<1>10. QED
  BY <1>8, <1>9

(* The lowest k bits of a vector make a number below Weight[k].            *)
LEMMA LowBound == \A X \in SUBSET Bit, k \in Nat : Low[k][X] < Weight[k]
<1> SUFFICES ASSUME NEW X \in SUBSET Bit PROVE \A k \in Nat : Low[k][X] < Weight[k]
  OBVIOUS
<1> DEFINE T == {k \in Nat : Low[k][X] < Weight[k]}
<1>1. 0 \in T
  BY LowFacts, WeightFacts
<1>2. \A k \in Nat : k \in T => k + 1 \in T
  <2> SUFFICES ASSUME NEW k \in Nat, Low[k][X] < Weight[k]
               PROVE  Low[k + 1][X] < Weight[k + 1]
    OBVIOUS
  <2>1. Low[k + 1][X] = Low[k][X] + (IF k \in X THEN Weight[k] ELSE 0)
    BY LowFacts
  <2>2. Low[k][X] \in Nat /\ Weight[k] \in Nat /\ Weight[k + 1] = 2 * Weight[k]
    BY LowFacts, WeightFacts
  <2>3. QED
    BY <2>1, <2>2
<1> HIDE DEF T
<1>3. Nat \subseteq T
  BY <1>1, <1>2, SetInduction
<1>4. QED
  BY <1>3 DEF T

(* And no other bits make that number.                                     *)
LEMMA LowInjective ==
  ASSUME NEW X \in SUBSET Bit, NEW Y \in SUBSET Bit
  PROVE  \A k \in Nat : Low[k][X] = Low[k][Y] => \A i \in 0..(k - 1) : i \in X <=> i \in Y
<1> DEFINE Same(k) == \A i \in 0..(k - 1) : i \in X <=> i \in Y
           T == {k \in Nat : Low[k][X] = Low[k][Y] => Same(k)}
<1>1. 0 \in T
  OBVIOUS
<1>2. \A k \in Nat : k \in T => k + 1 \in T
  <2> SUFFICES ASSUME NEW k \in Nat, Low[k][X] = Low[k][Y] => Same(k),
                      Low[k + 1][X] = Low[k + 1][Y]
               PROVE  Same(k + 1)
    OBVIOUS
  <2>1. /\ Low[k + 1][X] = Low[k][X] + (IF k \in X THEN Weight[k] ELSE 0)
        /\ Low[k + 1][Y] = Low[k][Y] + (IF k \in Y THEN Weight[k] ELSE 0)
    BY LowFacts
  <2>2. /\ Low[k][X] \in Nat /\ Low[k][Y] \in Nat /\ Weight[k] \in Nat
        /\ Low[k][X] < Weight[k] /\ Low[k][Y] < Weight[k]
    BY LowFacts, WeightFacts, LowBound
  <2> DEFINE x == Low[k][X]
             y == Low[k][Y]
             w == Weight[k]
  <2>3. x + (IF k \in X THEN w ELSE 0) = y + (IF k \in Y THEN w ELSE 0)
    BY <2>1
  <2> HIDE DEF x, y, w
  <2>4. x = y /\ (k \in X <=> k \in Y)
    <3>1. x \in Nat /\ y \in Nat /\ w \in Nat /\ x < w /\ y < w
      BY <2>2 DEF x, y, w
    <3>2. QED
      BY <2>3, <3>1
  <2>5. QED
    BY <2>4 DEF x, y
<1> HIDE DEF T
<1>3. Nat \subseteq T
  BY <1>1, <1>2, SetInduction
<1>4. QED
  BY <1>3 DEF T

(* Reading a vector as a number and back.                                  *)
LEMMA BitsOfValue ==
  ASSUME NEW X \in SUBSET Bit
  PROVE  Value[X] \in 0..(Weight[2 * NUM_INPUTS] - 1) /\ Bits[Value[X]] = X
<1> DEFINE n == 2 * NUM_INPUTS
           Found(Y) == Y \in SUBSET Bit /\ Value[Y] = Value[X]
<1>1. n \in Nat
  BY ArbiterAssumption
<1>2. \A Y \in SUBSET Bit : Value[Y] = Low[n][Y]
  BY DEF Value
<1>3. Value[X] \in 0..(Weight[n] - 1)
  <2>1. Low[n][X] \in Nat /\ Low[n][X] < Weight[n] /\ Weight[n] \in Nat
    BY <1>1, LowFacts, LowBound, WeightFacts
  <2>2. QED
    BY <1>2, <2>1
<1>4. ASSUME NEW Y \in SUBSET Bit, Value[Y] = Value[X] PROVE Y = X
  <2>1. \A i \in 0..(n - 1) : i \in X <=> i \in Y
    BY <1>1, <1>2, <1>4, LowInjective
  <2>2. QED
    BY <2>1 DEF Bit
<1>5. Bits[Value[X]] = CHOOSE Y \in SUBSET Bit : Value[Y] = Value[X]
  BY <1>3 DEF Bits
<1>6. QED
  BY <1>3, <1>4, <1>5

(* One bit.                                                                *)
LEMMA ValueOfOne ==
  ASSUME NEW b \in Bit
  PROVE  Value[{b}] = Weight[b]
<1> DEFINE n == 2 * NUM_INPUTS
           T == {k \in Nat : Low[k][{b}] = IF k <= b THEN 0 ELSE Weight[b]}
<1>1. n \in Nat /\ b \in Nat /\ b < n /\ {b} \in SUBSET Bit
  BY ArbiterAssumption DEF Bit
<1>2. 0 \in T
  BY <1>1, LowFacts
<1>3. \A k \in Nat : k \in T => k + 1 \in T
  <2> SUFFICES ASSUME NEW k \in Nat, k \in T PROVE k + 1 \in T
    OBVIOUS
  <2>1. Low[k + 1][{b}] = Low[k][{b}] + (IF k \in {b} THEN Weight[k] ELSE 0)
    BY <1>1, LowFacts
  <2>2. Weight[b] \in Nat
    BY <1>1, WeightFacts
  <2>3. QED
    BY <1>1, <2>1, <2>2
<1>4. n \in T
  <2> HIDE DEF T
  <2>1. QED
    BY <1>1, <1>2, <1>3, SetInduction
<1>5. QED
  BY <1>1, <1>4 DEF Value

(* Taking Weight[b] away clears the first bit f of X at or after b and     *)
(* sets the clear bits it borrows through.                                 *)
LEMMA Borrow ==
  ASSUME NEW X \in SUBSET Bit, NEW b \in Bit, NEW f \in X, b <= f,
         \A i \in b..(f - 1) : i \notin X
  PROVE  Value[(X \ {f}) \cup b..(f - 1)] = Value[X] - Weight[b]
<1> DEFINE n == 2 * NUM_INPUTS
           Y == (X \ {f}) \cup b..(f - 1)
           Owed(k) == IF k <= b THEN 0 ELSE IF k <= f THEN Weight[k] - Weight[b]
                      ELSE 0 - Weight[b]
           T == {k \in Nat : Low[k][Y] = Low[k][X] + Owed(k)}
<1>1. n \in Nat /\ b \in Nat /\ f \in Nat /\ f < n /\ Y \in SUBSET Bit
  BY ArbiterAssumption DEF Bit
<1>2. 0 \in T
  BY <1>1, LowFacts
<1>3. \A k \in Nat : k \in T => k + 1 \in T
  <2> SUFFICES ASSUME NEW k \in Nat, k \in T PROVE k + 1 \in T
    OBVIOUS
  <2> DEFINE in(Z) == IF k \in Z THEN Weight[k] ELSE 0
  <2>1. /\ Low[k + 1][Y] = Low[k][Y] + in(Y) /\ Low[k + 1][X] = Low[k][X] + in(X)
        /\ Low[k][Y] \in Nat /\ Low[k][X] \in Nat
    <3> HIDE DEF Y
    <3>1. QED
      BY <1>1, LowFacts
  <2>2. /\ Weight[b] \in Nat /\ Weight[k] \in Nat
        /\ Weight[k + 1] = 2 * Weight[k]
    BY <1>1, WeightFacts
  <2>3. k \in Y <=> (k \in X /\ k # f) \/ (b <= k /\ k < f)
    BY <1>1
  <2>4. Owed(k + 1) = Owed(k) + in(Y) - in(X)
    <3> HIDE DEF Y
    <3>1. CASE k < b
      BY <1>1, <2>2, <2>3, <3>1
    <3>2. CASE b <= k /\ k < f
      <4>1. k \notin X /\ k \in Y
        BY <1>1, <2>3, <3>2
      <4>2. QED
        BY <1>1, <2>2, <3>2, <4>1
    <3>3. CASE k = f
      BY <1>1, <2>2, <2>3, <3>3
    <3>4. CASE k > f
      BY <1>1, <2>2, <2>3, <3>4
    <3>5. QED
      BY <1>1, <3>1, <3>2, <3>3, <3>4
  <2>5. in(Y) \in Int /\ in(X) \in Int /\ Owed(k) \in Int
    BY <2>2
  <2> HIDE DEF in, Owed, Y
  <2>6. QED
    BY <2>1, <2>4, <2>5
<1>4. n \in T
  <2> HIDE DEF T
  <2>1. QED
    BY <1>1, <1>2, <1>3, SetInduction
<1>5. Value[Y] = Low[n][Y] /\ Value[X] = Low[n][X]
  BY <1>1 DEF Value
<1>6. Low[n][Y] = Low[n][X] + Owed(n) /\ Owed(n) = 0 - Weight[b]
  BY <1>1, <1>4
<1>7. Low[n][X] \in Nat /\ Weight[b] \in Nat
  BY <1>1, LowFacts, WeightFacts
<1> HIDE DEF Y, n, Owed
<1>8. Value[Y] = Value[X] - Weight[b]
  BY <1>5, <1>6, <1>7
<1>9. QED
  BY <1>8 DEF Y

(* What an index that wraps at most once is.                               *)
LEMMA Wraps ==
  ASSUME NEW w \in Nat \ {0}, NEW x \in 0..(w - 1)
  PROVE  x % w = x /\ (x + w) % w = x
OBVIOUS

(* The first requester, in the doubled vector, at or after base.           *)
IsFirst(f) ==
  /\ f \in double_req /\ base_r <= f
  /\ \A g \in double_req : base_r <= g => f <= g

LEMMA FirstExists ==
  ASSUME TypeOK, fifo_req # {}
  PROVE  \E f \in Bit : IsFirst(f)
<1> DEFINE T == {g \in double_req : base_r <= g}
<1>1. /\ NUM_INPUTS \in Nat /\ base_r \in Nat /\ base_r < NUM_INPUTS
      /\ fifo_req \subseteq Port /\ double_req \in SUBSET Bit
  BY ArbiterAssumption DEF TypeOK, Port, Bit, fifo_req, double_req
<1>2. T \in SUBSET Nat /\ T # {}
  <2>1. PICK i \in fifo_req : TRUE
    OBVIOUS
  <2>2. i + NUM_INPUTS \in T
    BY <1>1, <2>1 DEF Port, double_req
  <2>3. Bit \subseteq Nat
    BY <1>1 DEF Bit
  <2>4. T # {}
    BY <2>2
  <2>5. QED
    BY <1>1, <2>3, <2>4
<1>3. PICK f \in T : \A g \in T : f <= g
  <2> HIDE DEF T
  <2>1. QED
    BY <1>2, LeastNatural
<1>4. QED
  BY <1>1, <1>3 DEF IsFirst

(* double_req & ~(double_req - base_r) is the bit of that requester.       *)
LEMMA SubtractionFindsFirst ==
  ASSUME TypeOK, NEW f \in Bit, IsFirst(f)
  PROVE  double_req \ Bits[Minus(Value[double_req], Value[{base_r}], 2 * NUM_INPUTS)] = {f}
<1> DEFINE X == double_req
           Y == (X \ {f}) \cup base_r..(f - 1)
           W == Weight[2 * NUM_INPUTS]
<1>1. /\ X \in SUBSET Bit /\ base_r \in Bit /\ f \in X /\ base_r <= f
      /\ \A i \in base_r..(f - 1) : i \notin X
      /\ Y \in SUBSET Bit /\ Y \cap X = X \ {f}
  <2>1. /\ NUM_INPUTS \in Nat /\ base_r \in 0..(NUM_INPUTS - 1) /\ fifo_req \subseteq Port
        /\ f \in 0..(2 * NUM_INPUTS - 1)
    BY ArbiterAssumption DEF TypeOK, Port, fifo_req, Bit
  <2>2. X \in SUBSET Bit /\ base_r \in Bit
    <3>1. base_r \in Bit
      BY <2>1 DEF Bit
    <3>2. \A i \in Port : i \in Bit /\ i + NUM_INPUTS \in Bit
      BY <2>1 DEF Port, Bit
    <3>3. QED
      BY <2>1, <3>1, <3>2 DEF double_req
  <2>3. f \in X /\ base_r <= f /\ \A g \in X : base_r <= g => f <= g
    BY DEF IsFirst
  <2> HIDE DEF X
  <2>4. \A i \in base_r..(f - 1) : i \notin X
    BY <2>1, <2>3
  <2>5. base_r..(f - 1) \subseteq Bit
    BY <2>1 DEF Bit
  <2>6. QED
    BY <2>2, <2>3, <2>4, <2>5
<1> HIDE DEF X
<1>2. Value[Y] = Value[X] - Value[{base_r}]
  <2>1. Value[Y] = Value[X] - Weight[base_r]
    BY <1>1, Borrow
  <2>2. QED
    BY <1>1, <2>1, ValueOfOne
<1> HIDE DEF Y
<1>3. /\ Value[X] \in Nat /\ Value[{base_r}] \in Nat /\ W \in Nat \ {0}
      /\ Value[Y] \in 0..(W - 1) /\ Bits[Value[Y]] = Y
  <2>1. 2 * NUM_INPUTS \in Nat /\ {base_r} \in SUBSET Bit
    BY <1>1, ArbiterAssumption
  <2>2. W \in Nat \ {0}
    BY <2>1, WeightFacts
  <2>3. QED
    BY <1>1, <2>1, <2>2, BitsOfValue
<1>4. Minus(Value[X], Value[{base_r}], 2 * NUM_INPUTS) = (Value[Y] + W) % W
  <2> DEFINE v == Value[X]
             b == Value[{base_r}]
             y == Value[Y]
  <2>1. Minus(v, b, 2 * NUM_INPUTS) = (v + W - b) % W
    BY DEF Minus
  <2>2. v \in Nat /\ b \in Nat /\ y = v - b /\ W \in Nat
    BY <1>2, <1>3
  <2> HIDE DEF v, b, y, W
  <2>3. v + W - b = y + W
    BY <2>2
  <2>4. QED
    BY <2>1, <2>3 DEF v, b, y
<1>5. (Value[Y] + W) % W = Value[Y]
  BY <1>3, Wraps
<1>6. QED
  BY <1>1, <1>3, <1>4, <1>5 DEF X

(* How far a port is from base, going round.                               *)
LEMMA Around ==
  ASSUME NEW b \in Port, NEW i \in Port
  PROVE  (i + NUM_INPUTS - b) % NUM_INPUTS = IF b <= i THEN i - b ELSE i + NUM_INPUTS - b
<1>1. NUM_INPUTS \in Nat \ {0} /\ b \in 0..(NUM_INPUTS - 1) /\ i \in 0..(NUM_INPUTS - 1)
  BY ArbiterAssumption DEF Port
<1>2. CASE b <= i
  <2>1. i - b \in 0..(NUM_INPUTS - 1)
    BY <1>1, <1>2
  <2>2. i + NUM_INPUTS - b = (i - b) + NUM_INPUTS
    BY <1>1
  <2>3. QED
    BY <1>1, <1>2, <2>1, <2>2, Wraps
<1>3. CASE i < b
  <2>1. i + NUM_INPUTS - b \in 0..(NUM_INPUTS - 1)
    BY <1>1, <1>3
  <2>2. (i + NUM_INPUTS - b) % NUM_INPUTS = i + NUM_INPUTS - b
    BY <1>1, <2>1, Wraps
  <2>3. QED
    BY <1>1, <1>3, <2>2
<1>4. QED
  BY <1>1, <1>2, <1>3

LEMMA DistanceIs ==
  ASSUME TypeOK, NEW i \in Port
  PROVE  /\ Distance(i) = IF base_r <= i THEN i - base_r ELSE i + NUM_INPUTS - base_r
         /\ Distance(i) \in 0..(NUM_INPUTS - 1)
<1>1. Distance(i) = IF base_r <= i THEN i - base_r ELSE i + NUM_INPUTS - base_r
  BY Around DEF TypeOK, Distance
<1>2. NUM_INPUTS \in Nat \ {0} /\ base_r \in 0..(NUM_INPUTS - 1) /\ i \in 0..(NUM_INPUTS - 1)
  BY ArbiterAssumption DEF TypeOK, Port
<1>3. QED
  BY <1>1, <1>2

(* The grant, for every base and every set of requests.                    *)
LEMMA GrantIsFirst == TypeOK => GrantsFirstFromBase
<1> SUFFICES ASSUME TypeOK PROVE GrantsFirstFromBase
  OBVIOUS
<1>1. /\ NUM_INPUTS \in Nat \ {0} /\ base_r \in 0..(NUM_INPUTS - 1) /\ fifo_req \subseteq Port
  BY ArbiterAssumption DEF TypeOK, Port, fifo_req
<1>2. CASE fifo_req = {}
  BY <1>2 DEF GrantsFirstFromBase, Grant
<1>3. CASE fifo_req # {}
  <2>1. PICK f \in Bit : IsFirst(f)
    BY <1>3, FirstExists
  <2>2. Grant = {i \in Port : f \in {i, i + NUM_INPUTS}}
    BY <1>3, <2>1, SubtractionFindsFirst DEF Grant
  <2>3. ASSUME NEW i \in Port
        PROVE  f \in {i, i + NUM_INPUTS}
                 <=> i \in fifo_req /\ \A j \in fifo_req : Distance(i) <= Distance(j)
    <3> DEFINE Far(j) == IF base_r <= j THEN j - base_r ELSE j + NUM_INPUTS - base_r
    <3>1. \A j \in Port : Distance(j) = Far(j)
      BY DistanceIs
    <3>2. /\ \A j \in fifo_req : j \in 0..(NUM_INPUTS - 1) /\ j \in double_req
                                 /\ j + NUM_INPUTS \in double_req
          /\ \A g \in double_req : g \in fifo_req \/ g - NUM_INPUTS \in fifo_req
          /\ i \in 0..(NUM_INPUTS - 1) /\ f \in Nat
      BY <1>1 DEF Port, double_req, Bit
    <3>3. f \in double_req /\ base_r <= f /\ \A g \in double_req : base_r <= g => f <= g
      BY <2>1 DEF IsFirst
    <3>4. \A j \in fifo_req : f <= base_r + Far(j)
      BY <1>1, <3>2, <3>3
    <3>5. PICK k \in fifo_req : f = base_r + Far(k)
      BY <1>1, <3>2, <3>3
    <3>6. f \in {i, i + NUM_INPUTS} => i = k
      BY <1>1, <3>2, <3>5
    <3>7. f \in {k, k + NUM_INPUTS}
      BY <1>1, <3>2, <3>5
    <3>8. i \in fifo_req /\ Far(i) = Far(k) => i = k
      BY <1>1, <3>2
    <3>9. QED
      BY <1>1, <3>1, <3>2, <3>4, <3>5, <3>6, <3>7, <3>8
  <2>4. QED
    BY <1>1, <2>2, <2>3 DEF GrantsFirstFromBase
<1>4. QED
  BY <1>2, <1>3

(* Whenever a port asks, one is granted.                                   *)
LEMMA SomeoneIsGranted == ASSUME TypeOK, fifo_req # {} PROVE Grant # {}
<1>1. PICK f \in Bit : IsFirst(f)
  BY FirstExists
<1>2. Grant = {i \in Port : f \in {i, i + NUM_INPUTS}}
  BY <1>1, SubtractionFindsFirst DEF Grant
<1>3. PICK i \in Port : f \in {i, i + NUM_INPUTS}
  BY <1>1 DEF IsFirst, double_req, fifo_req
<1>4. QED
  BY <1>2, <1>3

-----------------------------------------------------------------------------
LEMMA MinOfTwo ==
  ASSUME NEW a \in Int, NEW b \in Int
  PROVE  Min({a, b}) = IF a <= b THEN a ELSE b
BY DEF Min

(* A port is passed over at most once for each step base has taken towards *)
(* it, so what it has waited and what is left to go stay below NUM_INPUTS. *)
WaitFits == ReadyHeld => \A i \in Port : waited[i] > 0 => waited[i] + Distance(i) < NUM_INPUTS

ArbiterInv == TypeOK /\ WaitFits

LEMMA ArbiterInitInv == Init => ArbiterInv
<1> SUFFICES ASSUME Init PROVE ArbiterInv
  OBVIOUS
<1>1. TypeOK
  BY ArbiterAssumption DEF Init, TypeOK, Port
<1>2. WaitFits
  BY DEF Init, WaitFits
<1>3. QED
  BY <1>1, <1>2 DEF ArbiterInv

LEMMA ArbiterClockInv ==
  ASSUME ArbiterInv, NEW r \in SUBSET Port, NEW rdy \in BOOLEAN, Clock(r, rdy)
  PROVE  ArbiterInv'
<1>1. TypeOK /\ WaitFits /\ GrantsFirstFromBase
  BY GrantIsFirst DEF ArbiterInv
<1>2. NUM_INPUTS \in Nat \ {0} /\ base_r \in 0..(NUM_INPUTS - 1) /\ FIFO_DEPTH \in Nat
  BY <1>1, ArbiterAssumption DEF TypeOK, Port
<1>3. NextBase \in Port
  BY <1>1, <1>2 DEF NextBase, Port, TypeOK
<1>4. level' \in [Port -> 0..(FIFO_DEPTH - 1)]
  <2> DEFINE new(i) == level[i] + (IF i \in r \cap in_ready THEN 1 ELSE 0)
                                - (IF i \in fifo_shift_out(rdy) THEN 1 ELSE 0)
  <2>1. ASSUME NEW i \in Port PROVE new(i) \in 0..(FIFO_DEPTH - 1)
    <3>1. level[i] \in 0..(FIFO_DEPTH - 1)
      BY <1>1 DEF TypeOK
    <3>2. i \in in_ready => level[i] < FIFO_DEPTH - 1
      BY DEF in_ready
    <3>3. i \in fifo_shift_out(rdy) => level[i] > 0
      BY DEF fifo_shift_out, fifo_req
    <3> HIDE DEF in_ready, fifo_shift_out
    <3>4. QED
      BY <1>2, <3>1, <3>2, <3>3
  <2>2. level' = [i \in Port |-> new(i)]
    BY DEF Clock
  <2> HIDE DEF new
  <2>3. QED
    BY <2>1, <2>2
<1>5. waited' \in [Port -> 0..NUM_INPUTS]
  <2>1. ASSUME NEW i \in Port PROVE Min({waited[i] + 1, NUM_INPUTS}) \in 0..NUM_INPUTS
    <3>1. waited[i] \in 0..NUM_INPUTS
      BY <1>1 DEF TypeOK
    <3>2. QED
      BY <1>2, <3>1 DEF Min
  <2> DEFINE new(i) == IF i \notin fifo_req \/ i \in fifo_shift_out(rdy) THEN 0
                       ELSE IF rdy THEN Min({waited[i] + 1, NUM_INPUTS}) ELSE waited[i]
  <2>2. ASSUME NEW i \in Port PROVE new(i) \in 0..NUM_INPUTS
    BY <1>1, <1>2, <2>1 DEF TypeOK
  <2>3. waited' = [i \in Port |-> new(i)]
    BY DEF Clock
  <2> HIDE DEF new
  <2>4. QED
    BY <2>2, <2>3
<1>6. TypeOK'
  BY <1>1, <1>3, <1>4, <1>5 DEF TypeOK, Clock, fifo_shift_out, fifo_req
<1>7. ASSUME ReadyHeld, NEW i \in Port, waited'[i] > 0
      PROVE  waited'[i] + Distance(i)' < NUM_INPUTS
  <2>1. rdy /\ i \in fifo_req /\ i \notin Grant
    BY <1>1, <1>7 DEF Clock, fifo_shift_out, TypeOK
  <2>2. waited'[i] = Min({waited[i] + 1, NUM_INPUTS})
    BY <2>1 DEF Clock, fifo_shift_out
  <2>3. /\ i \in 0..(NUM_INPUTS - 1) /\ waited[i] \in 0..NUM_INPUTS
        /\ waited[i] > 0 => waited[i] + Distance(i) < NUM_INPUTS
    BY <1>1, <1>7 DEF TypeOK, Port, WaitFits
  <2>4. /\ Distance(i) = IF base_r <= i THEN i - base_r ELSE i + NUM_INPUTS - base_r
        /\ Distance(i)' = IF base_r' <= i THEN i - base_r' ELSE i + NUM_INPUTS - base_r'
    BY <1>1, <1>6, Around DEF Distance, TypeOK
  <2>5. \A j \in Port : Distance(j) \in 0..(NUM_INPUTS - 1)
    BY <1>1, DistanceIs
  <2>6. Distance(i) # 0
    <3>1. SUFFICES ASSUME Distance(i) = 0 PROVE i \in Grant
      BY <2>1
    <3>2. fifo_req \subseteq Port
      BY DEF fifo_req
    <3>3. \A j \in fifo_req : Distance(i) <= Distance(j)
      BY <1>2, <2>5, <3>1, <3>2
    <3>4. QED
      BY <1>1, <2>1, <3>3 DEF GrantsFirstFromBase
  <2>7. base_r' = IF base_r = NUM_INPUTS - 1 THEN 0 ELSE base_r + 1
    <3>1. base_r' = (base_r + 1) % NUM_INPUTS
      BY <1>1, <2>1, SomeoneIsGranted DEF Clock, NextBase
    <3>2. CASE base_r = NUM_INPUTS - 1
      <4>1. 0 \in 0..(NUM_INPUTS - 1) /\ base_r + 1 = 0 + NUM_INPUTS
        BY <1>2, <3>2
      <4>2. QED
        BY <1>2, <3>1, <3>2, <4>1, Wraps
    <3>3. CASE base_r # NUM_INPUTS - 1
      <4>1. base_r + 1 \in 0..(NUM_INPUTS - 1)
        BY <1>2, <3>3
      <4>2. QED
        BY <1>2, <3>1, <3>3, <4>1, Wraps
    <3>4. QED
      BY <3>2, <3>3
  <2>8. Distance(i)' = Distance(i) - 1
    BY <1>2, <2>3, <2>4, <2>6, <2>7
  <2>9. waited'[i] <= waited[i] + 1 /\ waited'[i] \in 0..NUM_INPUTS
    BY <1>2, <2>2, <2>3, MinOfTwo
  <2>10. Distance(i) \in 0..(NUM_INPUTS - 1)
    BY <1>7, <2>5
  <2> HIDE DEF Distance
  <2>11. QED
    BY <1>2, <2>3, <2>8, <2>9, <2>10
<1>8. WaitFits'
  BY <1>7 DEF WaitFits, Port
<1>9. QED
  BY <1>6, <1>8 DEF ArbiterInv

LEMMA ArbiterStepInv == ArbiterInv /\ [Next]_vars => ArbiterInv'
<1> SUFFICES ASSUME ArbiterInv, [Next]_vars PROVE ArbiterInv'
  OBVIOUS
<1>1. ASSUME NEW r \in SUBSET Port, NEW rdy \in BOOLEAN, Clock(r, rdy)
      PROVE  ArbiterInv'
  BY <1>1, ArbiterClockInv
<1>2. CASE Reset
  <2>1. TypeOK'
    BY <1>2, ArbiterAssumption DEF Reset, TypeOK, Port
  <2>2. WaitFits'
    BY <1>2 DEF Reset, WaitFits
  <2>3. QED
    BY <2>1, <2>2 DEF ArbiterInv
<1>3. CASE UNCHANGED vars
  BY <1>3 DEF vars, ArbiterInv, TypeOK, WaitFits, Distance
<1>4. QED
  BY <1>1, <1>2, <1>3 DEF Next

LEMMA ArbiterIsInv == Spec => []ArbiterInv
BY ArbiterInitInv, ArbiterStepInv, PTL DEF Spec

(* No queue is overfilled, for every number of ports and every depth.      *)
THEOREM ArbiterTypeCorrect == Spec => []TypeOK
<1>1. ArbiterInv => TypeOK
  BY DEF ArbiterInv
<1>2. QED
  BY <1>1, ArbiterIsInv, PTL

(* The subtraction of base from the doubled requests grants the first      *)
(* requester at or after base and no other, for every number of ports.     *)
THEOREM FirstFromBase == Spec => []GrantsFirstFromBase
<1>1. ArbiterInv => GrantsFirstFromBase
  BY GrantIsFirst DEF ArbiterInv
<1>2. QED
  BY <1>1, ArbiterIsInv, PTL

(* With the consumer always ready no port is passed over NUM_INPUTS times  *)
(* in a row, whatever the others offer and however many ports there are.   *)
THEOREM WaitBound == Spec => []WaitIsBounded
<1>1. ArbiterInv => WaitIsBounded
  <2> SUFFICES ASSUME ArbiterInv, ReadyHeld, NEW i \in Port PROVE waited[i] < NUM_INPUTS
    BY DEF WaitIsBounded
  <2>1. /\ NUM_INPUTS \in Nat \ {0} /\ waited[i] \in 0..NUM_INPUTS
        /\ Distance(i) \in 0..(NUM_INPUTS - 1)
    BY ArbiterAssumption, DistanceIs DEF ArbiterInv, TypeOK
  <2>2. waited[i] > 0 => waited[i] + Distance(i) < NUM_INPUTS
    BY DEF ArbiterInv, WaitFits
  <2> HIDE DEF Distance
  <2>3. QED
    BY <2>1, <2>2
<1>2. QED
  BY <1>1, ArbiterIsInv, PTL

-----------------------------------------------------------------------------
(* What the run checks of one unit at a time holds of that unit by itself. *)
THEOREM UnitsAreOperands == UnitsSpec => Spec /\ Vectors!Spec /\ Memory!Spec
<1>1. UnitsInit => Init /\ Vectors!Init /\ Memory!Init
  BY DEF UnitsInit
<1>2. [UnitsNext]_allVars
        => [Next]_vars /\ [Vectors!Next]_(Vectors!vars) /\ [Memory!Next]_(Memory!vars)
  BY DEF UnitsNext, allVars, vectorVars, memoryVars, Vectors!vars, Memory!vars
<1>3. QED
  BY <1>1, <1>2, PTL DEF UnitsSpec, Spec, Vectors!Spec, Memory!Spec
=============================================================================
