----------------------------- MODULE FifosProofs -----------------------------
(***************************************************************************)
(* The three units that buffer words, for every size of them.              *)
(*                                                                         *)
(* basic_sync_fifo.sv implements a queue of DEPTH - 1 words (TypeCorrect,  *)
(* FifoRefinement).  The refinement mapping reads the words between the    *)
(* two pointers.  The lemmas say what the pointer arithmetic does to it:   *)
(* advancing rd_ptr_r takes the tail, and writing the slot at wr_ptr_r     *)
(* then advancing it appends.                                              *)
(*                                                                         *)
(* ctrl_data_fifo.sv hands both words of a pair or none to a consumer that *)
(* pops when valid is high (PairsMatch).  The property looks at one edge   *)
(* and the two FIFOs fill at their own pace, so what has to be invariant   *)
(* (InStep) is that their heads have the same number: each FIFO holds      *)
(* consecutive numbers that end just before the next one to be stored, and *)
(* counted back from there the two heads are the same.                     *)
(*                                                                         *)
(* flow_controller.sv shows sets that are complete and fresh (SetIsFresh). *)
(* valid is registered one edge after the last register of the set was     *)
(* written, so the property is not inductive by itself: in between, it     *)
(* rests on current_valid, which marks the registers whose word is the     *)
(* last one sent (Fresh), and no word passes once valid is up.             *)
(***************************************************************************)
EXTENDS MCUnits, SequenceTheorems, TLAPS

(* The pointers and the memory stay within their types under every edge,   *)
(* reset included.                                                         *)
THEOREM TypeCorrect == Ring!Spec => []RingTypeOK
<1> USE DepthAssumption, DataAssumption DEF RingTypeOK, Ring!TypeOK, Ring!Ptr
<1>1. Ring!Init => RingTypeOK
  <2>1. Ring!Init => overflow_r \in BOOLEAN
    BY Zenon DEF Ring!Init
  <2>2. QED
    BY <2>1 DEF Ring!Init
<1>2. RingTypeOK /\ [Ring!Next]_(Ring!vars) => RingTypeOK'
  <2> SUFFICES ASSUME RingTypeOK, [Ring!Next]_(Ring!vars) PROVE RingTypeOK'
    OBVIOUS
  <2>1. ASSUME NEW shift_in \in BOOLEAN, NEW shift_out \in BOOLEAN,
               NEW din \in Data, Ring!Clock(shift_in, shift_out, din)
        PROVE  RingTypeOK'
    BY <2>1 DEF Ring!Clock, Ring!NextRdPtr, Ring!NextWrPtr, Ring!Inc, Ring!dout,
                Ring!empty, Ring!full
  <2>2. CASE Ring!Reset
    <3>1. overflow_r' \in BOOLEAN
      BY <2>2, Zenon DEF Ring!Reset
    <3>2. QED
      BY <2>2, <3>1 DEF Ring!Reset
  <2>3. CASE UNCHANGED Ring!vars
    BY <2>3 DEF Ring!vars
  <2>4. QED
    BY <2>1, <2>2, <2>3 DEF Ring!Next
<1>3. QED
  BY <1>1, <1>2, PTL DEF Ring!Spec

-----------------------------------------------------------------------------
(* The mapped queue is a sequence of words, as long as the pointers are    *)
(* apart.                                                                  *)
LEMMA StoredIsSeq ==
  ASSUME NEW m \in [Ring!Ptr -> Data], NEW rd \in Ring!Ptr, NEW wr \in Ring!Ptr
  PROVE  /\ Ring!Count(rd, wr) \in 0..DEPTH-1
         /\ Ring!Stored(m, rd, wr) \in Seq(Data)
         /\ Len(Ring!Stored(m, rd, wr)) = Ring!Count(rd, wr)
         /\ \A i \in 1..Ring!Count(rd, wr) : /\ Ring!Slot(rd, i) \in Ring!Ptr
                                       /\ Ring!Stored(m, rd, wr)[i] = m[Ring!Slot(rd, i)]
<1> USE DepthAssumption DEF Ring!Ptr
<1>1. Ring!Count(rd, wr) \in 0..DEPTH-1
  BY DEF Ring!Count
<1>2. \A i \in 1..Ring!Count(rd, wr) : Ring!Slot(rd, i) \in Ring!Ptr
  BY <1>1 DEF Ring!Slot, Ring!Count
<1>3. Ring!Stored(m, rd, wr) \in [1..Ring!Count(rd, wr) -> Data]
  BY <1>1, <1>2 DEF Ring!Stored
<1>4. Ring!Stored(m, rd, wr) \in Seq(Data)
  BY <1>1, <1>3, SeqDef
<1>5. QED
  BY <1>1, <1>2, <1>3, <1>4, LenProperties DEF Ring!Stored

(* The status flags are what they say of the mapped queue.                 *)
LEMMA FlagsOfCount ==
  ASSUME RingTypeOK
  PROVE  /\ Ring!empty <=> Ring!Count(rd_ptr_r, wr_ptr_r) = 0
         /\ Ring!full <=> Ring!Count(rd_ptr_r, wr_ptr_r) = DEPTH - 1
BY DepthAssumption DEF RingTypeOK, Ring!TypeOK, Ring!Ptr, Ring!empty, Ring!full,
                       Ring!Count, Ring!Inc

(* What one edge does to the number of stored words: a shift out of a      *)
(* queue that is not empty takes one, a shift in that finds room adds one. *)
LEMMA EdgeOnCount ==
  ASSUME RingTypeOK, NEW si \in BOOLEAN, NEW so \in BOOLEAN
  PROVE  Ring!Count(Ring!NextRdPtr(so), Ring!NextWrPtr(si)) =
           Ring!Count(rd_ptr_r, wr_ptr_r) - (IF so /\ ~Ring!empty THEN 1 ELSE 0)
                                     + (IF si /\ ~Ring!full THEN 1 ELSE 0)
BY DepthAssumption
   DEF RingTypeOK, Ring!TypeOK, Ring!Ptr, Ring!NextRdPtr, Ring!NextWrPtr, Ring!empty,
       Ring!full, Ring!Count, Ring!Inc

(* Where the i-th word of the new queue is: in the slot of a word that     *)
(* was stored, which the unconditional write at wr_ptr_r did not touch,    *)
(* or in that slot, for the word shifted in.                               *)
LEMMA EdgeOnSlot ==
  ASSUME RingTypeOK, NEW si \in BOOLEAN, NEW so \in BOOLEAN,
         NEW i \in 1..Ring!Count(Ring!NextRdPtr(so), Ring!NextWrPtr(si)),
         NEW shift, shift = IF so /\ ~Ring!empty THEN 1 ELSE 0
  PROVE  LET n == Ring!Count(rd_ptr_r, wr_ptr_r)
             j == Ring!Slot(Ring!NextRdPtr(so), i)
         IN /\ j \in Ring!Ptr
            /\ i + shift <= n => j = Ring!Slot(rd_ptr_r, i + shift) /\ j # wr_ptr_r
            /\ i + shift > n => j = wr_ptr_r
<1> USE DepthAssumption, EdgeOnCount
<1>1. CASE so /\ ~Ring!empty
  BY <1>1 DEF RingTypeOK, Ring!TypeOK, Ring!Ptr, Ring!NextRdPtr, Ring!NextWrPtr,
              Ring!empty, Ring!full, Ring!Count, Ring!Slot, Ring!Inc
<1>2. CASE ~(so /\ ~Ring!empty)
  BY <1>2 DEF RingTypeOK, Ring!TypeOK, Ring!Ptr, Ring!NextRdPtr, Ring!NextWrPtr,
              Ring!empty, Ring!full, Ring!Count, Ring!Slot, Ring!Inc
<1>3. QED
  BY <1>1, <1>2

(* One edge of the circuit is one cycle of the queue.                      *)
LEMMA ClockIsCycle ==
  ASSUME RingTypeOK, NEW si \in BOOLEAN, NEW so \in BOOLEAN, NEW d \in Data,
         Ring!Clock(si, so, d)
  PROVE  Ring!Fifo!Cycle(si, so, d)
<1> DEFINE room == Ring!Fifo!Room(so)
           rest == Ring!Fifo!AfterPop(so)
           n    == Ring!Count(rd_ptr_r, wr_ptr_r)
           old  == Ring!Stored(mem, rd_ptr_r, wr_ptr_r)
           nRd  == Ring!NextRdPtr(so)
           nWr  == Ring!NextWrPtr(si)
           nMem == [mem EXCEPT ![wr_ptr_r] = d]
           m    == Ring!Count(nRd, nWr)
           new  == Ring!Stored(nMem, nRd, nWr)
           shift == IF so /\ ~Ring!empty THEN 1 ELSE 0
<1>1. /\ mem \in [Ring!Ptr -> Data] /\ rd_ptr_r \in Ring!Ptr /\ wr_ptr_r \in Ring!Ptr
      /\ nMem \in [Ring!Ptr -> Data] /\ nRd \in Ring!Ptr /\ nWr \in Ring!Ptr
  BY DepthAssumption
     DEF RingTypeOK, Ring!TypeOK, Ring!Ptr, Ring!NextRdPtr, Ring!NextWrPtr, Ring!Inc,
         Ring!empty, Ring!full
<1>2. /\ old \in Seq(Data) /\ Len(old) = n /\ n \in 0..DEPTH-1
      /\ \A i \in 1..n : old[i] = mem[Ring!Slot(rd_ptr_r, i)]
  BY <1>1, StoredIsSeq
<1>3. /\ new \in Seq(Data) /\ Len(new) = m /\ m \in 0..DEPTH-1
      /\ \A i \in 1..m : new[i] = nMem[Ring!Slot(nRd, i)]
  <2> HIDE DEF nMem, nRd, nWr
  <2>1. QED
    BY <1>1, StoredIsSeq
<1>4. /\ Ring!empty <=> old = <<>>
      /\ Ring!full <=> ~room
  BY <1>2, FlagsOfCount, EmptySeq, DepthAssumption DEF Ring!Fifo!Room
<1>5. /\ offered' = IF si THEN d ELSE None
      /\ taken' = IF so /\ old # <<>> THEN Head(old) ELSE None
      /\ overflow_r' = (si /\ ~room)
      /\ Ring!Stored(mem, rd_ptr_r, wr_ptr_r)' = new
  <2>1. old # <<>> => Head(old) = Ring!dout
    BY <1>1, <1>2, DepthAssumption DEF Ring!dout, Ring!Slot, Ring!Ptr
  <2>2. taken' = IF so /\ old # <<>> THEN Head(old) ELSE None
    BY <1>4, <2>1 DEF Ring!Clock
  <2>3. overflow_r' = (si /\ ~room)
    BY <1>4, Zenon DEF Ring!Clock
  <2>4. QED
    BY <2>2, <2>3 DEF Ring!Clock
<1>6. /\ rest \in Seq(Data)
      /\ Len(rest) = n - shift
      /\ \A i \in 1..Len(rest) : rest[i] = old[i + shift]
  <2>1. CASE so /\ ~Ring!empty
    BY <1>2, <1>4, <2>1, HeadTailProperties DEF Ring!Fifo!AfterPop
  <2>2. CASE ~(so /\ ~Ring!empty)
    BY <1>2, <1>4, <2>2 DEF Ring!Fifo!AfterPop
  <2>3. QED
    BY <2>1, <2>2
<1>7. m = Len(rest) + (IF si /\ ~Ring!full THEN 1 ELSE 0)
  BY <1>6, EdgeOnCount
<1>8. ASSUME NEW i \in 1..m
      PROVE  new[i] = IF i <= Len(rest) THEN rest[i] ELSE d
  <2>1. LET j == Ring!Slot(nRd, i)
        IN /\ j \in Ring!Ptr
           /\ i + shift <= n => j = Ring!Slot(rd_ptr_r, i + shift) /\ j # wr_ptr_r
           /\ i + shift > n => j = wr_ptr_r
    BY EdgeOnSlot
  <2>2. new[i] = nMem[Ring!Slot(nRd, i)]
    BY <1>3
  <2> HIDE DEF old, new, rest, nRd, nWr, m, n
  <2>3. CASE i <= Len(rest)
    BY <1>1, <1>2, <1>6, <2>1, <2>2, <2>3
  <2>4. CASE ~(i <= Len(rest))
    BY <1>1, <1>2, <1>6, <2>1, <2>2, <2>4
  <2>5. QED
    BY <2>3, <2>4
<1>9. new = IF si /\ room THEN Append(rest, d) ELSE rest
  <2> HIDE DEF old, new, rest, room, m
  <2>1. CASE si /\ room
    <3>1. /\ Append(rest, d) \in Seq(Data)
          /\ Len(Append(rest, d)) = Len(rest) + 1
          /\ \A i \in 1..Len(rest) : Append(rest, d)[i] = rest[i]
          /\ Append(rest, d)[Len(rest) + 1] = d
      BY <1>6, AppendProperties
    <3>2. m = Len(rest) + 1 /\ Len(rest) \in Nat
      BY <1>4, <1>6, <1>7, <2>1, LenProperties
    <3>3. \A i \in 1..m : new[i] = Append(rest, d)[i]
      BY <1>8, <3>1, <3>2
    <3>4. QED
      BY <1>3, <2>1, <3>1, <3>2, <3>3, SeqEqual
  <2>2. CASE ~(si /\ room)
    <3>1. m = Len(rest) /\ Len(rest) \in Nat
      BY <1>4, <1>6, <1>7, <2>2, LenProperties
    <3>2. \A i \in 1..m : new[i] = rest[i]
      BY <1>8, <3>1
    <3>3. QED
      BY <1>3, <1>6, <2>2, <3>1, <3>2, SeqEqual
  <2>3. QED
    BY <2>1, <2>2
<1>10. QED
  BY <1>5, <1>9 DEF Ring!Fifo!Cycle

-----------------------------------------------------------------------------
(* basic_sync_fifo.sv implements the bounded queue: for every DEPTH, every *)
(* behaviour of the circuit is, through the mapping, a behaviour of a      *)
(* queue of DEPTH - 1 words with the same words taken and refused.         *)
THEOREM FifoRefinement == Ring!Spec => RingImplementsFifo
<1>1. Ring!Init => Ring!Fifo!Init
  <2> SUFFICES ASSUME Ring!Init PROVE Ring!Fifo!Init
    OBVIOUS
  <2>1. Ring!Stored(mem, rd_ptr_r, wr_ptr_r) = <<>>
    BY StoredIsSeq, EmptySeq, DepthAssumption DEF Ring!Init, Ring!Count, Ring!Ptr
  <2>2. QED
    BY <2>1 DEF Ring!Init, Ring!Fifo!Init
<1>2. RingTypeOK /\ RingTypeOK' /\ [Ring!Next]_(Ring!vars) => [Ring!Fifo!Next]_(Ring!Fifo!fifoVars)
  <2> SUFFICES ASSUME RingTypeOK, RingTypeOK', [Ring!Next]_(Ring!vars)
               PROVE  [Ring!Fifo!Next]_(Ring!Fifo!fifoVars)
    OBVIOUS
  <2>1. ASSUME NEW shift_in \in BOOLEAN, NEW shift_out \in BOOLEAN,
               NEW din \in Data, Ring!Clock(shift_in, shift_out, din)
        PROVE  Ring!Fifo!Next
    BY <2>1, ClockIsCycle DEF Ring!Fifo!Next
  <2>2. ASSUME Ring!Reset
        PROVE  Ring!Fifo!Next
    <3>1. /\ mem' \in [Ring!Ptr -> Data] /\ rd_ptr_r' = 0 /\ wr_ptr_r' = 0
          /\ 0 \in Ring!Ptr
      BY <2>2 DEF Ring!Reset, RingTypeOK, Ring!TypeOK
    <3>2. Ring!Stored(mem', rd_ptr_r', wr_ptr_r') = <<>>
      BY <3>1, StoredIsSeq, EmptySeq, DepthAssumption DEF Ring!Count
    <3>3. QED
      BY <2>2, <3>2 DEF Ring!Reset, Ring!Fifo!Reset, Ring!Fifo!Next
  <2>3. ASSUME UNCHANGED Ring!vars
        PROVE  UNCHANGED Ring!Fifo!fifoVars
    BY <2>3 DEF Ring!vars, Ring!Fifo!fifoVars
  <2>4. QED
    BY <2>1, <2>2, <2>3 DEF Ring!Next
<1>3. QED
  BY <1>1, <1>2, TypeCorrect, PTL DEF Ring!Spec, RingImplementsFifo,
                                      Ring!ImplementsFifo, Ring!Fifo!Spec

-----------------------------------------------------------------------------
Up(n) == IF n + 1 = DEPTH THEN 0 ELSE n + 1
Back(n, k) == IF k <= n THEN n - k ELSE n + DEPTH - k

(* The words of Q are the numbers before n.                                *)
Numbered(Q, n) ==
  /\ n \in Pair!Number
  /\ Q \in Seq(Pair!Number) /\ Len(Q) < DEPTH
  /\ \A i \in 1..Len(Q) : Q[i] = Back(n, Len(Q) + 1 - i)

InStep ==
  /\ Numbered(dataQ, nData) /\ Numbered(ctrlQ, nCtrl)
  /\ Back(nData, Len(dataQ)) = Back(nCtrl, Len(ctrlQ))
  /\ dataOut = ctrlOut

LEMMA NextIsUp ==
  ASSUME DEPTH \in Nat, DEPTH >= 2, NEW n \in Pair!Number, NEW stored \in BOOLEAN
  PROVE  Pair!NextNumber(n, stored) = (IF stored THEN Up(n) ELSE n) /\ Up(n) \in Pair!Number
<1>1. CASE n + 1 = DEPTH
  <2>1. DEPTH % DEPTH = 0
    OBVIOUS
  <2>2. QED
    BY <1>1, <2>1 DEF Pair!NextNumber, Up, Pair!Number
<1>2. CASE n + 1 # DEPTH
  <2>1. n + 1 \in 0..(DEPTH - 1)
    BY <1>2 DEF Pair!Number
  <2>2. (n + 1) % DEPTH = n + 1
    BY <2>1
  <2>3. QED
    BY <1>2, <2>1, <2>2 DEF Pair!NextNumber, Up, Pair!Number
<1>3. QED
  BY <1>1, <1>2

LEMMA BackFacts ==
  ASSUME DEPTH \in Nat, DEPTH >= 2, NEW n \in Pair!Number, NEW k \in 0..(DEPTH - 1)
  PROVE  /\ Back(n, k) \in Pair!Number
         /\ k > 0 => Back(n, k - 1) = Up(Back(n, k))
         /\ k + 1 < DEPTH => Back(Up(n), k + 1) = Back(n, k)
BY DEF Back, Up, Pair!Number

(* A pop leaves consecutive numbers, and the head is the next one.         *)
LEMMA PopEdge ==
  ASSUME DEPTH \in Nat, DEPTH >= 2, NEW n, NEW Q, Numbered(Q, n), Q # <<>>
  PROVE  /\ Numbered(Tail(Q), n)
         /\ Len(Tail(Q)) = Len(Q) - 1
         /\ Head(Q) = Back(n, Len(Q))
         /\ Back(n, Len(Tail(Q))) = Up(Back(n, Len(Q)))
<1>1. PICK k \in Nat \ {0} : Len(Q) = k /\ k < DEPTH
  BY EmptySeq, LenProperties DEF Numbered
<1>2. /\ Tail(Q) \in Seq(Pair!Number) /\ Len(Tail(Q)) = k - 1
      /\ \A i \in 1..(k - 1) : Tail(Q)[i] = Q[i + 1]
      /\ Head(Q) = Q[1]
  BY <1>1, HeadTailProperties DEF Numbered
<1>3. \A i \in 1..(k - 1) : Tail(Q)[i] = Back(n, k - i)
  <2> SUFFICES ASSUME NEW i \in 1..(k - 1) PROVE Tail(Q)[i] = Back(n, k - i)
    OBVIOUS
  <2>1. i + 1 \in 1..k /\ k + 1 - (i + 1) = k - i
    OBVIOUS
  <2>2. Q[i + 1] = Back(n, k + 1 - (i + 1))
    BY <1>1, <2>1 DEF Numbered
  <2>3. QED
    BY <1>2, <2>1, <2>2
<1>4. Head(Q) = Back(n, k)
  BY <1>1, <1>2 DEF Numbered
<1>5. k \in 0..(DEPTH - 1) /\ k > 0 /\ n \in Pair!Number
  BY <1>1 DEF Numbered
<1>6. QED
  BY <1>1, <1>2, <1>3, <1>4, <1>5, BackFacts DEF Numbered

(* A word that is stored is the next number, and the head stays.           *)
LEMMA PushEdge ==
  ASSUME DEPTH \in Nat, DEPTH >= 2, NEW n, NEW Q, Numbered(Q, n), Len(Q) + 1 < DEPTH
  PROVE  /\ Numbered(Append(Q, n), Up(n))
         /\ Back(Up(n), Len(Append(Q, n))) = Back(n, Len(Q))
<1>1. PICK k \in Nat : Len(Q) = k /\ k + 1 < DEPTH
  BY LenProperties DEF Numbered
<1>2. /\ Append(Q, n) \in Seq(Pair!Number) /\ Len(Append(Q, n)) = k + 1
      /\ \A i \in 1..k : Append(Q, n)[i] = Q[i]
      /\ Append(Q, n)[k + 1] = n
  BY <1>1, AppendProperties DEF Numbered
<1>3. n \in Pair!Number /\ Up(n) \in Pair!Number /\ Back(Up(n), 1) = n
  BY DEF Numbered, Pair!Number, Up, Back
<1>4. \A i \in 1..(k + 1) : Append(Q, n)[i] = Back(Up(n), k + 2 - i)
  <2> SUFFICES ASSUME NEW i \in 1..(k + 1) PROVE Append(Q, n)[i] = Back(Up(n), k + 2 - i)
    OBVIOUS
  <2>1. CASE i = k + 1
    <3>1. k + 2 - i = 1
      BY <2>1
    <3>2. QED
      BY <1>2, <1>3, <2>1, <3>1
  <2>2. CASE i \in 1..k
    <3>1. Append(Q, n)[i] = Back(n, k + 1 - i)
      BY <1>1, <1>2, <2>2 DEF Numbered
    <3>2. k + 1 - i \in 0..(DEPTH - 1) /\ (k + 1 - i) + 1 < DEPTH /\ (k + 1 - i) + 1 = k + 2 - i
      BY <1>1, <2>2
    <3>3. QED
      BY <1>3, <3>1, <3>2, BackFacts
  <2>3. i = k + 1 \/ i \in 1..k
    OBVIOUS
  <2>4. QED
    BY <2>1, <2>2, <2>3, Zenon
<1>5. Back(Up(n), k + 1) = Back(n, k)
  BY <1>1, <1>3, BackFacts
<1>6. QED
  BY <1>1, <1>2, <1>3, <1>4, <1>5 DEF Numbered

(* One edge of one FIFO.                                                   *)
Rest(Q, pop) == IF pop THEN Tail(Q) ELSE Q
After(Q, n, pop, stored) == IF stored THEN Append(Rest(Q, pop), n) ELSE Rest(Q, pop)
Counted(n, stored) == IF stored THEN Up(n) ELSE n

LEMMA QueueEdge ==
  ASSUME DEPTH \in Nat, DEPTH >= 2, NEW n, NEW Q, Numbered(Q, n),
         NEW stored \in BOOLEAN, NEW pop \in BOOLEAN,
         pop => Q # <<>>, stored => Len(Q) < DEPTH - 1
  PROVE  /\ Numbered(After(Q, n, pop, stored), Counted(n, stored))
         /\ Back(Counted(n, stored), Len(After(Q, n, pop, stored)))
              = IF pop THEN Up(Back(n, Len(Q))) ELSE Back(n, Len(Q))
<1> DEFINE R == Rest(Q, pop)
<1>1. /\ Numbered(R, n)
      /\ Back(n, Len(R)) = IF pop THEN Up(Back(n, Len(Q))) ELSE Back(n, Len(Q))
  BY PopEdge DEF Rest
<1>2. stored => Len(R) + 1 < DEPTH
  <2>1. Len(Q) \in Nat
    BY LenProperties DEF Numbered
  <2>2. Len(R) \in {Len(Q), Len(Q) - 1}
    BY PopEdge DEF Rest
  <2>3. QED
    BY <2>1, <2>2
<1> HIDE DEF R
<1>3. CASE stored
  BY <1>1, <1>2, <1>3, PushEdge DEF After, Counted, R
<1>4. CASE ~stored
  BY <1>1, <1>4 DEF After, Counted, R
<1>5. QED
  BY <1>3, <1>4

(* One edge of the pair.                                                   *)
LEMMA PairEdge ==
  ASSUME DEPTH \in Nat, DEPTH >= 2, InStep,
         NEW dv \in BOOLEAN, NEW cv \in BOOLEAN, NEW so \in BOOLEAN, Pair!Clock(dv, cv, so)
  PROVE  InStep'
<1>1. so => dataQ # <<>> /\ ctrlQ # <<>>
  BY DEF Pair!Clock, Pair!valid
<1>2. /\ Numbered(dataQ, nData)'
      /\ Back(nData, Len(dataQ))' = IF so THEN Up(Back(nData, Len(dataQ)))
                                    ELSE Back(nData, Len(dataQ))
      /\ dataOut' = IF so THEN Head(dataQ) ELSE None
  <2> DEFINE stored == dv /\ Len(dataQ) < DEPTH - 1
  <2>1. /\ dataQ' = After(dataQ, nData, so, stored)
        /\ nData' = Pair!NextNumber(nData, stored)
        /\ dataOut' = IF so THEN Head(dataQ) ELSE None
    BY <1>1 DEF Pair!Clock, Pair!data_ready, Pair!DataFifo!Cycle, Pair!DataFifo!Room,
                  Pair!DataFifo!AfterPop, After, Rest
  <2>2. nData' = Counted(nData, stored)
    BY <2>1, NextIsUp DEF InStep, Numbered, Counted
  <2>3. stored \in BOOLEAN /\ (stored => Len(dataQ) < DEPTH - 1) /\ Numbered(dataQ, nData)
    BY DEF InStep
  <2> HIDE DEF stored
  <2>4. /\ Numbered(dataQ', nData')
        /\ Back(nData', Len(dataQ')) = IF so THEN Up(Back(nData, Len(dataQ)))
                                     ELSE Back(nData, Len(dataQ))
    BY <1>1, <2>1, <2>2, <2>3, QueueEdge
  <2>5. QED
    BY <2>1, <2>4 DEF Numbered, Back
<1>3. /\ Numbered(ctrlQ, nCtrl)'
      /\ Back(nCtrl, Len(ctrlQ))' = IF so THEN Up(Back(nCtrl, Len(ctrlQ)))
                                    ELSE Back(nCtrl, Len(ctrlQ))
      /\ ctrlOut' = IF so THEN Head(ctrlQ) ELSE None
  <2> DEFINE stored == cv /\ Len(ctrlQ) < DEPTH - 1
  <2>1. /\ ctrlQ' = After(ctrlQ, nCtrl, so, stored)
        /\ nCtrl' = Pair!NextNumber(nCtrl, stored)
        /\ ctrlOut' = IF so THEN Head(ctrlQ) ELSE None
    BY <1>1 DEF Pair!Clock, Pair!ctrl_ready, Pair!CtrlFifo!Cycle, Pair!CtrlFifo!Room,
                  Pair!CtrlFifo!AfterPop, After, Rest
  <2>2. nCtrl' = Counted(nCtrl, stored)
    BY <2>1, NextIsUp DEF InStep, Numbered, Counted
  <2>3. stored \in BOOLEAN /\ (stored => Len(ctrlQ) < DEPTH - 1) /\ Numbered(ctrlQ, nCtrl)
    BY DEF InStep
  <2> HIDE DEF stored
  <2>4. /\ Numbered(ctrlQ', nCtrl')
        /\ Back(nCtrl', Len(ctrlQ')) = IF so THEN Up(Back(nCtrl, Len(ctrlQ)))
                                     ELSE Back(nCtrl, Len(ctrlQ))
    BY <1>1, <2>1, <2>2, <2>3, QueueEdge
  <2>5. QED
    BY <2>1, <2>4 DEF Numbered, Back
<1>4. so => Head(dataQ) = Head(ctrlQ)
  BY <1>1, PopEdge DEF InStep
<1>5. QED
  BY <1>2, <1>3, <1>4 DEF InStep

-----------------------------------------------------------------------------
(* The two FIFOs stay in step for every depth and whatever the producers'  *)
(* pace: a pop hands over the words stored at one position of the two      *)
(* streams, or none.                                                       *)
THEOREM PairsMatch == Pair!Spec => []PairsStayTogether
<1> USE DepthAssumption
<1>1. Pair!Init => InStep
  BY EmptySeq DEF Pair!Init, Pair!DataFifo!Init, Pair!CtrlFifo!Init, InStep, Numbered,
                    Pair!Number, Back
<1>2. InStep /\ [Pair!Next]_(Pair!vars) => InStep'
  <2> SUFFICES ASSUME InStep, [Pair!Next]_(Pair!vars) PROVE InStep'
    OBVIOUS
  <2>1. CASE UNCHANGED Pair!vars
    BY <2>1 DEF Pair!vars, Pair!dataVars, Pair!ctrlVars, InStep, Numbered, Back
  <2>2. CASE Pair!Reset
    BY <2>2, EmptySeq DEF Pair!Reset, Pair!DataFifo!Reset, Pair!CtrlFifo!Reset, InStep,
                           Numbered, Pair!Number, Back
  <2>3. ASSUME NEW dv \in BOOLEAN, NEW cv \in BOOLEAN, NEW so \in BOOLEAN,
               Pair!Clock(dv, cv, so)
        PROVE  InStep'
    BY <2>3, PairEdge
  <2>4. QED
    BY <2>1, <2>2, <2>3 DEF Pair!Next
<1>3. InStep => PairsStayTogether
  BY DEF InStep, PairsStayTogether, Pair!PairsStayTogether
<1>4. QED
  BY <1>1, <1>2, <1>3, PTL DEF Pair!Spec

-----------------------------------------------------------------------------
Fresh ==
  /\ fcDout = [o \in Flow!Out |-> fcDout[o]]
  /\ lastSent = [o \in Flow!Out |-> lastSent[o]]
  /\ current_valid \subseteq Flow!Out
  /\ \A o \in current_valid : fcDout[o] = lastSent[o]
  /\ fcValid \in BOOLEAN
  /\ fcValid => current_valid = Flow!Out

(* An edge that neither resets nor shifts out: registers are written only  *)
(* while valid is low, and the observer notes the very same words.         *)
LEMMA HeldEdge ==
  ASSUME Fresh, NEW sent, Flow!Clock(TRUE, sent, FALSE)
  PROVE  Fresh'
<1>1. /\ fcDout' = Flow!dout_b(sent, FALSE)
      /\ current_valid' = Flow!current_valid_b(sent, FALSE)
      /\ fcValid' = (current_valid = Flow!Out)
      /\ lastSent' = [o \in Flow!Out |->
           IF Flow!Writers(sent, o) # {} /\ ~fcValid
           THEN sent[Flow!Max(Flow!Writers(sent, o))].word
           ELSE lastSent[o]]
  BY DEF Flow!Clock
<1>2. current_valid' \subseteq Flow!Out /\ current_valid \subseteq current_valid'
  BY <1>1 DEF Flow!current_valid_b, Fresh
<1>3. \A o \in current_valid' : fcDout'[o] = lastSent'[o]
  BY <1>1, <1>2 DEF Flow!dout_b, Flow!current_valid_b, Flow!ready, Fresh
<1>4. fcValid' => current_valid' = Flow!Out
  BY <1>1, <1>2
<1>5. /\ fcDout' = [o \in Flow!Out |-> fcDout'[o]]
      /\ lastSent' = [o \in Flow!Out |-> lastSent'[o]]
  BY <1>1 DEF Flow!dout_b
<1>6. QED
  BY <1>1, <1>2, <1>3, <1>4, <1>5 DEF Fresh

(* A reset or a shift out begins a new set: nothing is marked.             *)
LEMMA ClearedEdge ==
  ASSUME Fresh, NEW rst_n \in BOOLEAN, NEW shift_out \in BOOLEAN, NEW sent,
         ~rst_n \/ shift_out, Flow!Clock(rst_n, sent, shift_out)
  PROVE  Fresh'
BY DEF Flow!Clock, Fresh, Flow!dout_b

(* What is shown as a complete set was all sent after the previous set was *)
(* taken, is the last word sent to each register, and stays until it is    *)
(* taken: for every number of ports and every set of words.                *)
THEOREM SetIsFresh == Flow!Spec => []ShownSetIsFresh
<1>1. Flow!Init => Fresh
  BY DEF Flow!Init, Fresh
<1>2. Fresh /\ [Flow!Next]_(Flow!vars) => Fresh'
  <2> SUFFICES ASSUME Fresh, [Flow!Next]_(Flow!vars) PROVE Fresh'
    OBVIOUS
  <2>1. CASE UNCHANGED Flow!vars
    BY <2>1 DEF Flow!vars, Fresh
  <2>2. ASSUME NEW rst_n \in BOOLEAN, NEW shift_out \in BOOLEAN,
               NEW sent \in [Flow!In -> Flow!Request \cup {None}],
               Flow!Clock(rst_n, sent, shift_out)
        PROVE  Fresh'
    <3>1. CASE ~rst_n \/ shift_out
      BY <2>2, <3>1, ClearedEdge
    <3>2. CASE rst_n /\ ~shift_out
      BY <2>2, <3>2, HeldEdge
    <3>3. QED
      BY <3>1, <3>2
  <2>3. QED
    BY <2>1, <2>2 DEF Flow!Next
<1>3. Fresh => ShownSetIsFresh
  BY DEF Fresh, ShownSetIsFresh, Flow!ShownSetIsFresh
<1>4. QED
  BY <1>1, <1>2, <1>3, PTL DEF Flow!Spec

-----------------------------------------------------------------------------
(* What MCUnits checks side by side are units of which these are three:   *)
(* each of its behaviours is one of basic_sync_fifo.sv, of                 *)
(* ctrl_data_fifo.sv and of flow_controller.sv, so what is proved of each  *)
(* unit holds there.                                                       *)
THEOREM UnitsAreFifos == UnitsSpec => Ring!Spec /\ Pair!Spec /\ Flow!Spec
<1>1. UnitsInit => Ring!Init /\ Pair!Init /\ Flow!Init
  BY DEF UnitsInit
<1>2. [UnitsNext]_allVars =>
        [Ring!Next]_(Ring!vars) /\ [Pair!Next]_(Pair!vars) /\ [Flow!Next]_(Flow!vars)
  BY DEF UnitsNext, allVars, ringVars, pairVars, flowVars, Ring!vars, Pair!vars,
         Pair!dataVars, Pair!ctrlVars, Flow!vars
<1>3. QED
  BY <1>1, <1>2, PTL DEF UnitsSpec, Ring!Spec, Pair!Spec, Flow!Spec
=============================================================================
