---------------------------- MODULE StreamsProofs ----------------------------
(***************************************************************************)
(* The two ways a stream is registered, for every set of words.            *)
(*                                                                         *)
(* Both variants of pipeline.sv keep the shape of their registers          *)
(* (TypeCorrect) and implement a bounded queue (PipelineRefinement).  The  *)
(* shape - SKID holds two valid words with in_ready low, PIPE never keeps  *)
(* a word with in_ready low - is the inductive invariant the refinement    *)
(* rests on: without it a word offered on in_ready could find no register  *)
(* free.                                                                   *)
(*                                                                         *)
(* At most DELAY - 1 words leave the delay line of fproduct.sv after the   *)
(* consumer lowered ready (SlackIsEnough).  The count of late words alone  *)
(* is not inductive: it could go on.  What bounds it is that in_ready      *)
(* falls with ready, so that each word that comes out late leaves one more *)
(* empty register at the young end of the line (Drained).                  *)
(***************************************************************************)
EXTENDS MCUnits, SequenceTheorems, TLAPS

(* One step of each kind of stage keeps the register types and the shape.  *)
LEMMA SkidStep ==
  ASSUME NEW Words, NEW s \in Stage!StageType(Words), Stage!SkidShape(s),
         NEW v \in BOOLEAN, NEW d \in Words, NEW r \in BOOLEAN
  PROVE  /\ Stage!SkidNext(s, v, d, r) \in Stage!StageType(Words)
         /\ Stage!SkidShape(Stage!SkidNext(s, v, d, r))
<1>1. /\ s.state \in {"PIPE", "SKID"} /\ s.data \in Words /\ s.spare \in Words
      /\ s.valid \in BOOLEAN /\ s.ready \in BOOLEAN
  BY DEF Stage!StageType
<1>2. CASE s.state = "PIPE" /\ Stage!PipeReady(s, r)
  BY <1>1, <1>2 DEF Stage!StageType, Stage!SkidShape, Stage!SkidNext, Stage!PipeReady
<1>3. CASE s.state = "PIPE" /\ ~Stage!PipeReady(s, r)
  BY <1>1, <1>3 DEF Stage!StageType, Stage!SkidShape, Stage!SkidNext, Stage!PipeReady
<1>4. CASE s.state = "SKID"
  BY <1>1, <1>4 DEF Stage!StageType, Stage!SkidShape, Stage!SkidNext, Stage!PipeReady
<1>5. QED
  BY <1>1, <1>2, <1>3, <1>4

LEMMA RegStep ==
  ASSUME NEW Words, NEW s \in Stage!StageType(Words),
         NEW v \in BOOLEAN, NEW d \in Words, NEW r \in BOOLEAN
  PROVE  /\ Stage!RegNext(s, v, d, r) \in Stage!StageType(Words)
         /\ Stage!RegNext(s, v, d, r).state = s.state
<1>1. /\ s.state \in {"PIPE", "SKID"} /\ s.data \in Words /\ s.spare \in Words
      /\ s.valid \in BOOLEAN /\ s.ready \in BOOLEAN
  BY DEF Stage!StageType
<1>2. QED
  BY <1>1 DEF Stage!StageType, Stage!RegNext, Stage!PipeReady

(* The registers a reset leaves have the right types and shape.            *)
LEMMA ResetStage ==
  ASSUME NEW Words, NEW w \in Words, NEW sp \in Words
  PROVE  /\ Stage!AfterReset(w, sp) \in Stage!StageType(Words)
         /\ Stage!SkidShape(Stage!AfterReset(w, sp))
         /\ Stage!AfterReset(w, sp).state = "PIPE"
         /\ ~Stage!AfterReset(w, sp).valid
BY DEF Stage!AfterReset, Stage!StageType, Stage!SkidShape

-----------------------------------------------------------------------------
(* Types and register shape are invariant, for both values of PIPE_LINE,   *)
(* every stall pattern and resets at any time.                             *)
THEOREM TypeCorrect == Stage!Spec => []StageTypeOK
<1> USE PipelineAssumption, DataAssumption
<1>1. ASSUME NEW st, NEW w \in Data, NEW sp \in Data, st = Stage!AfterReset(w, sp)
      PROVE  /\ st \in Stage!StageType(Data) /\ Stage!SkidShape(st) /\ st.state = "PIPE"
  BY <1>1, ResetStage
<1>2. FALSE \in BOOLEAN
  BY Zenon
<1>3. Stage!Init => StageTypeOK
  BY <1>1, <1>2 DEF Stage!Init, StageTypeOK, Stage!TypeOK
<1>4. StageTypeOK /\ [Stage!Next]_(Stage!vars) => StageTypeOK'
  <2> SUFFICES ASSUME StageTypeOK, [Stage!Next]_(Stage!vars) PROVE StageTypeOK'
    OBVIOUS
  <2>1. ASSUME NEW v \in BOOLEAN, NEW r \in BOOLEAN, NEW d \in Data,
               Stage!Clock(v, d, r)
        PROVE  StageTypeOK'
    <3>1. /\ stage' \in Stage!StageType(Data)
          /\ PIPE_LINE = 1 => Stage!SkidShape(stage')
          /\ PIPE_LINE = 0 => stage'.state = "PIPE"
      <4>1. CASE PIPE_LINE = 1
        BY <2>1, <4>1, SkidStep DEF StageTypeOK, Stage!TypeOK, Stage!Clock, Stage!StageNext
      <4>2. CASE PIPE_LINE = 0
        <5>1. PIPE_LINE # 1 /\ stage.state = "PIPE" /\ stage \in Stage!StageType(Data)
          BY <4>2 DEF StageTypeOK, Stage!TypeOK
        <5>2. stage' = Stage!RegNext(stage, v, d, r)
          BY <2>1, <5>1 DEF Stage!Clock, Stage!StageNext
        <5>3. QED
          BY <5>1, <5>2, RegStep
      <4>3. QED
        BY <4>1, <4>2
    <3>2. stageOut' \in Data \cup {None} /\ stageIn' \in Data \cup {None}
      BY <2>1 DEF StageTypeOK, Stage!TypeOK, Stage!Clock, Stage!StageType
    <3>3. refused' \in BOOLEAN
      BY <2>1, Zenon DEF Stage!Clock
    <3>4. QED
      BY <3>1, <3>2, <3>3, Zenon DEF StageTypeOK, Stage!TypeOK, Stage!SkidShape
  <2>2. CASE Stage!Reset
    BY <1>1, <1>2, <2>2 DEF Stage!Reset, StageTypeOK, Stage!TypeOK
  <2>3. CASE UNCHANGED Stage!vars
    BY <2>3 DEF Stage!vars, StageTypeOK, Stage!TypeOK
  <2>4. QED
    BY <2>1, <2>2, <2>3 DEF Stage!Next
<1>5. QED
  BY <1>3, <1>4, PTL DEF Stage!Spec

-----------------------------------------------------------------------------
(* Queues of at most two words.                                            *)
LEMMA ShortQueues ==
  ASSUME NEW S, NEW a \in S, NEW b \in S
  PROVE  /\ Len(<<>>) = 0 /\ Append(<<>>, a) = <<a>>
         /\ Len(<<a>>) = 1 /\ <<a>> # <<>>
         /\ Head(<<a>>) = a /\ Tail(<<a>>) = <<>>
         /\ Append(<<a>>, b) = <<a, b>>
         /\ Len(<<a, b>>) = 2 /\ <<a, b>> # <<>>
         /\ Head(<<a, b>>) = a /\ Tail(<<a, b>>) = <<b>>
<1>1. /\ <<>> \in Seq(S) /\ <<a>> \in Seq(S) /\ <<b>> \in Seq(S)
      /\ <<a, b>> \in Seq(S)
  OBVIOUS
<1>2. Len(<<>>) = 0 /\ Len(<<a>>) = 1 /\ Len(<<b>>) = 1 /\ Len(<<a, b>>) = 2
  OBVIOUS
<1>3. /\ <<a>> # <<>> /\ <<a, b>> # <<>>
  BY <1>2
<1>4. Head(<<a>>) = a /\ Head(<<a, b>>) = a
  OBVIOUS
<1>5. Append(<<>>, a) = <<a>>
  BY <1>1, <1>2, AppendProperties, SeqEqual
<1>6. Append(<<a>>, b) = <<a, b>>
  <2>1. /\ Append(<<a>>, b) \in Seq(S) /\ Len(Append(<<a>>, b)) = 2
        /\ Append(<<a>>, b)[1] = a /\ Append(<<a>>, b)[2] = b
    BY <1>1, <1>2, AppendProperties
  <2>2. \A i \in 1..2 : Append(<<a>>, b)[i] = <<a, b>>[i]
    BY <2>1
  <2>3. QED
    BY <1>1, <1>2, <2>1, <2>2, SeqEqual
<1>7. Tail(<<a>>) = <<>>
  BY <1>1, <1>2, <1>3, HeadTailProperties, EmptySeq
<1>8. Tail(<<a, b>>) = <<b>>
  BY <1>1, <1>2, <1>3, HeadTailProperties, SeqEqual
<1>9. QED
  BY <1>2, <1>3, <1>4, <1>5, <1>6, <1>7, <1>8

(* One clock edge is one cycle of the queue: the skid buffer is a queue of *)
(* two words, the plain register one of one word that can refill while it  *)
(* drains.                                                                 *)
LEMMA ClockIsCycle ==
  ASSUME StageTypeOK, NEW v \in BOOLEAN, NEW r \in BOOLEAN, NEW d \in Data,
         Stage!Clock(v, d, r)
  PROVE  Stage!Fifo!Cycle(v, r, d)
<1> USE PipelineAssumption, DataAssumption
<1>1. /\ stage.state \in {"PIPE", "SKID"} /\ stage.data \in Data
      /\ stage.spare \in Data /\ stage.valid \in BOOLEAN
      /\ stage.ready \in BOOLEAN /\ stage \in Stage!StageType(Data)
  BY DEF StageTypeOK, Stage!TypeOK, Stage!StageType
<1>2. /\ PIPE_LINE = 1 => Stage!SkidShape(stage)
      /\ PIPE_LINE = 0 => stage.state = "PIPE"
      /\ stage.state = "SKID" => PIPE_LINE = 1 /\ stage.valid
  BY <1>1 DEF StageTypeOK, Stage!TypeOK, Stage!SkidShape
<1>3. /\ stageIn' = IF v THEN d ELSE None
      /\ stageOut' = IF r /\ Stage!Contents # <<>> THEN Head(Stage!Contents) ELSE None
  BY <1>1, ShortQueues DEF Stage!Clock, Stage!Contents, Stage!SkidContents
(* A word is refused exactly when the queue has no room.                   *)
<1>4. v => (Stage!InReady(r) <=> Stage!Fifo!Room(r))
  <2>1. Len(Stage!Contents) = IF ~stage.valid THEN 0
                        ELSE IF stage.state = "SKID" THEN 2 ELSE 1
    BY <1>1, ShortQueues DEF Stage!Contents, Stage!SkidContents
  <2>2. CASE PIPE_LINE = 1
    BY <1>1, <1>2, <2>1, <2>2
       DEF Stage!Fifo!Room, Stage!InReady, Stage!SkidShape, Stage!Clock,
           Stage!ProducerMayOffer
  <2>3. CASE PIPE_LINE = 0
    BY <1>1, <1>2, <2>1, <2>3 DEF Stage!Fifo!Room, Stage!InReady, Stage!PipeReady
  <2>4. QED
    BY <2>2, <2>3
<1>5. refused' = (v /\ ~Stage!Fifo!Room(r))
  BY <1>4, Zenon DEF Stage!Clock
(* The word stored is appended to what the consumer left.                  *)
<1>6. Stage!Contents' = IF v /\ Stage!InReady(r) THEN Append(Stage!Fifo!AfterPop(r), d)
                                     ELSE Stage!Fifo!AfterPop(r)
  <2>1. stage' = IF PIPE_LINE = 1 THEN Stage!SkidNext(stage, v, d, r)
                                 ELSE Stage!RegNext(stage, v, d, r)
    BY DEF Stage!Clock, Stage!StageNext
  <2>2. CASE Stage!PipeReady(stage, r) /\ stage.state = "PIPE"
    <3>1. /\ stage'.valid = v /\ stage'.data = d /\ stage'.state = "PIPE"
      BY <1>1, <1>2, <2>1, <2>2 DEF Stage!SkidNext, Stage!RegNext, Stage!StageType
    <3>2. v => Stage!InReady(r)
      BY <1>1, <1>2, <2>2 DEF Stage!InReady, Stage!SkidShape, Stage!Clock,
                              Stage!ProducerMayOffer
    <3>3. Stage!Fifo!AfterPop(r) = <<>>
      BY <1>1, <2>2, ShortQueues
         DEF Stage!Fifo!AfterPop, Stage!PipeReady, Stage!Contents, Stage!SkidContents
    <3>4. Stage!Contents' = IF v THEN <<d>> ELSE <<>>
      BY <3>1 DEF Stage!Contents, Stage!SkidContents
    <3>5. QED
      BY <3>2, <3>3, <3>4, ShortQueues
  <2>3. CASE ~Stage!PipeReady(stage, r) /\ stage.state = "PIPE"
    <3>1. ~r /\ stage.valid /\ Stage!Contents = <<stage.data>>
      BY <1>1, <2>3 DEF Stage!PipeReady, Stage!Contents, Stage!SkidContents
    <3>2. Stage!Fifo!AfterPop(r) = <<stage.data>>
      BY <3>1 DEF Stage!Fifo!AfterPop
    <3>3. CASE v /\ PIPE_LINE = 1
      <4>1. /\ stage'.valid /\ stage'.data = stage.data /\ stage'.spare = d
            /\ stage'.state = "SKID"
        BY <1>1, <2>1, <2>3, <3>1, <3>3 DEF Stage!SkidNext, Stage!StageType
      <4>2. Stage!InReady(r)
        BY <1>2, <2>3, <3>1, <3>3 DEF Stage!InReady, Stage!SkidShape
      <4>3. Stage!Contents' = <<stage.data, d>>
        BY <4>1 DEF Stage!Contents, Stage!SkidContents
      <4>4. QED
        BY <1>1, <3>2, <3>3, <4>2, <4>3, ShortQueues
    <3>4. CASE ~(v /\ PIPE_LINE = 1)
      <4>1. stage' = stage
        BY <1>1, <2>1, <2>3, <3>4 DEF Stage!SkidNext, Stage!RegNext
      <4>2. ~(v /\ Stage!InReady(r))
        BY <2>3, <3>4 DEF Stage!InReady
      <4>3. QED
        BY <3>1, <3>2, <4>1, <4>2 DEF Stage!Contents
    <3>5. QED
      BY <3>3, <3>4
  <2>4. CASE stage.state = "SKID"
    <3>1. /\ PIPE_LINE = 1 /\ stage.valid /\ ~stage.ready
          /\ Stage!Contents = <<stage.data, stage.spare>>
      BY <1>2, <2>4 DEF Stage!SkidShape, Stage!Contents, Stage!SkidContents
    <3>2. ~Stage!InReady(r)
      BY <3>1 DEF Stage!InReady
    <3>3. CASE r
      <4>1. /\ stage'.valid /\ stage'.data = stage.spare
            /\ stage'.state = "PIPE"
        BY <1>1, <2>1, <2>4, <3>1, <3>3 DEF Stage!SkidNext, Stage!StageType
      <4>2. Stage!Contents' = <<stage.spare>>
        BY <4>1 DEF Stage!Contents, Stage!SkidContents
      <4>3. Stage!Fifo!AfterPop(r) = <<stage.spare>>
        BY <1>1, <3>1, <3>3, ShortQueues DEF Stage!Fifo!AfterPop
      <4>4. QED
        BY <3>2, <4>2, <4>3
    <3>4. CASE ~r
      <4>1. stage' = stage
        BY <2>1, <2>4, <3>1, <3>4 DEF Stage!SkidNext
      <4>2. QED
        BY <3>2, <3>4, <4>1 DEF Stage!Contents, Stage!Fifo!AfterPop
    <3>5. QED
      BY <3>3, <3>4
  <2>5. QED
    BY <1>1, <2>2, <2>3, <2>4
<1>7. QED
  BY <1>3, <1>4, <1>5, <1>6 DEF Stage!Fifo!Cycle

-----------------------------------------------------------------------------
(* pipeline.sv implements the bounded queue in both variants.              *)
THEOREM PipelineRefinement == Stage!Spec => StageImplementsFifo
<1>1. Stage!Init => Stage!Fifo!Init
  BY ResetStage DEF Stage!Init, Stage!Fifo!Init, Stage!Contents, Stage!SkidContents
<1>2. StageTypeOK /\ [Stage!Next]_(Stage!vars) => [Stage!Fifo!Next]_(Stage!Fifo!fifoVars)
  <2> SUFFICES ASSUME StageTypeOK, [Stage!Next]_(Stage!vars)
               PROVE  [Stage!Fifo!Next]_(Stage!Fifo!fifoVars)
    OBVIOUS
  <2>1. ASSUME NEW v \in BOOLEAN, NEW r \in BOOLEAN, NEW d \in Data,
               Stage!Clock(v, d, r)
        PROVE  Stage!Fifo!Next
    BY <2>1, ClockIsCycle DEF Stage!Fifo!Next
  <2>2. ASSUME Stage!Reset
        PROVE  Stage!Fifo!Next
    BY <2>2, ResetStage
       DEF Stage!Reset, Stage!Fifo!Next, Stage!Fifo!Reset, Stage!Contents,
           Stage!SkidContents
  <2>3. ASSUME UNCHANGED Stage!vars
        PROVE  UNCHANGED Stage!Fifo!fifoVars
    BY <2>3 DEF Stage!vars, Stage!Fifo!fifoVars, Stage!Contents
  <2>4. QED
    BY <2>1, <2>2, <2>3 DEF Stage!Next
<1>3. QED
  BY <1>1, <1>2, TypeCorrect, PTL DEF Stage!Spec, StageImplementsFifo,
                                      Stage!ImplementsFifo, Stage!Fifo!Spec

-----------------------------------------------------------------------------
Drained ==
  /\ regs = [i \in 1..Line!Stages |-> regs[i]]
  /\ ready \in BOOLEAN
  /\ late \in 0..Line!Stages
  /\ ~ready => \A i \in 1..late : regs[i] = None

(* The delay line has as many registers as cycles but one.                 *)
LEMMA StagesIsNat ==
  ASSUME DELAY \in Nat \ {0}
  PROVE  Line!Stages \in Nat /\ Line!Stages = DELAY - 1
BY DEF Line!Stages

(* A cycle in which the consumer is not ready: nothing enters, and a word  *)
(* that leaves came from a register that was not drained yet.              *)
LEMMA StalledEdge ==
  ASSUME DELAY \in Nat \ {0}, Drained, ~ready,
         NEW in_valid \in BOOLEAN, NEW nextReady \in BOOLEAN, Line!Clock(in_valid, nextReady)
  PROVE  Drained'
<1> USE StagesIsNat
<1>1. ~in_valid
  BY DEF Line!Clock, Line!in_ready
<1>2. /\ regs' = [i \in 1..Line!Stages |-> IF i = 1 THEN None ELSE regs[i - 1]]
      /\ ready' = nextReady
      /\ late' = IF Line!out(None) # None THEN late + 1 ELSE late
  BY <1>1 DEF Line!Clock
<1>3. late' \in 0..Line!Stages
  <2>1. CASE Line!out(None) # None
    <3>1. Line!Stages # 0 /\ regs[Line!Stages] # None
      BY <2>1 DEF Line!out
    <3>2. Line!Stages \in Nat /\ late \in 0..Line!Stages /\ Line!Stages \notin 1..late
      BY <3>1 DEF Drained
    <3>3. QED
      BY <1>2, <2>1, <3>1, <3>2
  <2>2. CASE Line!out(None) = None
    BY <1>2, <2>2 DEF Drained
  <2>3. QED
    BY <2>1, <2>2
<1>4. \A i \in 1..late' : regs'[i] = None
  <2> SUFFICES ASSUME NEW i \in 1..late' PROVE regs'[i] = None
    OBVIOUS
  <2>1. i \in 1..Line!Stages /\ late \in Nat /\ late' \in {late, late + 1}
    BY <1>2, <1>3 DEF Drained
  <2>2. CASE i = 1
    BY <1>2, <2>1, <2>2
  <2>3. CASE i # 1
    <3>1. i - 1 \in 1..late
      BY <2>1, <2>3
    <3>2. QED
      BY <1>2, <2>1, <2>3, <3>1 DEF Drained
  <2>4. QED
    BY <2>2, <2>3
<1>5. QED
  BY <1>2, <1>3, <1>4 DEF Drained

(* A cycle in which it is ready starts the count anew.                     *)
LEMMA ReadyEdge ==
  ASSUME DELAY \in Nat \ {0}, Drained, ready,
         NEW in_valid \in BOOLEAN, NEW nextReady \in BOOLEAN, Line!Clock(in_valid, nextReady)
  PROVE  Drained'
BY StagesIsNat DEF Line!Clock, Drained

(* For every DELAY >= 1 at most DELAY - 1 words come out after ready fell: *)
(* that much room behind the line makes the handshake of fproduct safe.    *)
THEOREM SlackIsEnough == ASSUME DELAY \in Nat \ {0} PROVE Line!Spec => []SlackSuffices
<1>1. Line!Init => Drained
  BY StagesIsNat DEF Line!Init, Drained
<1>2. Drained /\ [Line!Next]_(Line!vars) => Drained'
  <2> SUFFICES ASSUME Drained, [Line!Next]_(Line!vars) PROVE Drained'
    OBVIOUS
  <2>1. CASE UNCHANGED Line!vars
    BY <2>1 DEF Line!vars, Drained
  <2>2. ASSUME NEW in_valid \in BOOLEAN, NEW nextReady \in BOOLEAN,
               Line!Clock(in_valid, nextReady)
        PROVE  Drained'
    BY <2>2, StalledEdge, ReadyEdge DEF Drained
  <2>3. QED
    BY <2>1, <2>2 DEF Line!Next
<1>3. Drained => SlackSuffices
  <2>1. Line!Stages \in Nat /\ Line!Stages = DELAY - 1 /\ DELAY \in Nat
    BY StagesIsNat
  <2>2. late \in 0..Line!Stages => late < DELAY
    BY <2>1
  <2>3. QED
    BY <2>2 DEF Drained, SlackSuffices, Line!SlackSuffices
<1>4. QED
  BY <1>1, <1>2, <1>3, PTL DEF Line!Spec

-----------------------------------------------------------------------------
(* What MCUnits checks side by side are units of which these are two: each *)
(* of its behaviours is one of pipeline.sv and of a delay line.            *)
THEOREM UnitsAreStreams == UnitsSpec => Stage!Spec /\ Line!Spec
<1>1. UnitsInit => Stage!Init /\ Line!Init
  BY DEF UnitsInit
<1>2. [UnitsNext]_allVars => [Stage!Next]_(Stage!vars) /\ [Line!Next]_(Line!vars)
  BY DEF UnitsNext, allVars, stageVars, lineVars, Stage!vars, Line!vars
<1>3. QED
  BY <1>1, <1>2, PTL DEF UnitsSpec, Stage!Spec, Line!Spec
=============================================================================
