-------------------------- MODULE ReductionNetwork --------------------------
(***************************************************************************)
(* spmv_reduction_network.sv with its operators spmv_network_op.sv: N      *)
(* lanes of (id, value) words; neighbouring words with the same id are     *)
(* added and the sum goes on along one of the two lanes.                   *)
(*                                                                         *)
(* Three rows of skid buffers (pipe[0] behind the inputs, pipe[1] after    *)
(* layer 0, pipe[2] at the outputs) stall lane by lane, so words of one    *)
(* input row drift apart.  Between the rows are the combinational layers:  *)
(* valid and data flow forward, ready flows backward.                      *)
(*                                                                         *)
(* A value is abstracted to the set of input words it is the sum of.       *)
(***************************************************************************)
EXTENDS Naturals, FiniteSets, SkidStage

CONSTANTS
  N,            \* NETWORK_WIDTH, even
  Ids,          \* the ids (matrix rows) that words carry
  MaxWords,     \* bound: words offered to the network in one behaviour
  CopierDrives  \* which of two drivers of a lane prevails, see OpDrives

ASSUME NetworkAssumption ==
  /\ N \in Nat \ {0} /\ N % 2 = 0
  /\ Ids # {}
  /\ MaxWords \in Nat
  /\ CopierDrives \in BOOLEAN

VARIABLES
  pipe,       \* pipe[p][k]: the skid buffer of lane k in row p
  idOf,       \* the ids of the words accepted so far: word t has id idOf[t]
  delivered   \* how often word t has left the network as part of a sum

vars == <<pipe, idOf, delivered>>

-----------------------------------------------------------------------------
Lane  == 0..N-1
Row   == 0..2
Token == 1..MaxWords
Sent  == Cardinality(DOMAIN idOf)

NoWord == [id |-> 0, parts |-> {}]
Word   == [id : Ids, parts : (SUBSET Token) \ {{}}]

(* A combinational lane: a word with its valid bit.                        *)
Signal(v, w) == [valid |-> v, word |-> IF v THEN w ELSE NoWord]

-----------------------------------------------------------------------------
(* One operator between lanes k and k+1.                                   *)

(* $ceil(PARALLELISM / 2) of an integer division is N/2.                   *)
ACloserToCenter(k) == k > N \div 2

Match_AnyId(a, b) == a.valid /\ b.valid   \* fault: ids are not compared
Match(a, b) == a.valid /\ b.valid /\ a.word.id = b.word.id

Sum(a, b) == [id |-> a.word.id, parts |-> a.word.parts \cup b.word.parts]

Only(a, b) == IF a.valid THEN a ELSE b   \* at most one of them is valid

(* Fault: the merged word also goes on by itself.                          *)
OpOut_KeepsAddend(k, a, b) ==
  IF Match(a, b)
  THEN LET s == Signal(TRUE, Sum(a, b))
       IN IF ACloserToCenter(k) THEN <<s, b>> ELSE <<a, s>>
  ELSE <<a, b>>

(* <<out_a, out_b>>: a sum or a lone word moves to the lane the operator   *)
(* takes to be nearer the centre; two words with different ids pass.       *)
OpOut(k, a, b) ==
  IF a.valid /\ b.valid /\ ~Match(a, b)
  THEN <<a, b>>
  ELSE LET s == IF Match(a, b) THEN Signal(TRUE, Sum(a, b)) ELSE Only(a, b)
           off == Signal(FALSE, NoWord)
       IN IF ACloserToCenter(k) THEN <<s, off>> ELSE <<off, s>>

(* <<in_a.ready, in_b.ready>> from out_a.ready and out_b.ready: whatever   *)
(* was merged or moved is taken when the lane it went to is taken.         *)
OpReady_Straight(k, a, b, ra, rb) == <<ra, rb>>  \* fault: ready not routed

OpReady(k, a, b, ra, rb) ==
  LET merged == Match(a, b)
      toA == ACloserToCenter(k) /\ (merged \/ (b.valid /\ ~a.valid))
      toB == ~ACloserToCenter(k) /\ (merged \/ (a.valid /\ ~b.valid))
  IN IF toA THEN <<ra, ra>> ELSE IF toB THEN <<rb, rb>> ELSE <<ra, rb>>

-----------------------------------------------------------------------------
(* One layer.  For k in 0..N-2 the generate loop places an operator on     *)
(* lanes k, k+1 or else copies both lanes.                                 *)
IsOp(iter, k) ==
  k \in 0..N-2 /\ k % 2 = iter % 2 /\ k >= iter /\ k < N - iter

IsCopied(iter, k) ==
  \E c \in {k, k - 1} : c \in 0..N-2 /\ ~IsOp(iter, c)

OpOn(iter, k) == IsOp(iter, k) \/ (k > 0 /\ IsOp(iter, k - 1))

(* The loop drives most lanes twice, from an operator and from the copier  *)
(* of its neighbour, and the language leaves open which drive prevails.    *)
(* CopierDrives = FALSE is the outcome in which the sums survive.          *)
OpDrives(iter, k) == OpOn(iter, k) /\ ~(CopierDrives /\ IsCopied(iter, k))

LayerOut(iter, in) ==
  [k \in Lane |->
     IF ~OpDrives(iter, k) THEN in[k]
     ELSE IF IsOp(iter, k) THEN OpOut(k, in[k], in[k+1])[1]
     ELSE OpOut(k - 1, in[k-1], in[k])[2]]

LayerReady(iter, in, ready) ==
  [k \in Lane |->
     IF ~OpDrives(iter, k) THEN ready[k]
     ELSE IF IsOp(iter, k)
          THEN OpReady(k, in[k], in[k+1], ready[k], ready[k+1])[1]
          ELSE OpReady(k - 1, in[k-1], in[k], ready[k-1], ready[k])[2]]

(* The signals in front of layer i when layers first..i-1 came before it.  *)
Before(first, i, in) ==
  LET f[j \in first..i] == IF j = first THEN in ELSE LayerOut(j - 1, f[j-1])
  IN f[i]

(* ready in front of layer `first`, given ready behind layer last-1.       *)
BackThrough(first, last, in, ready) ==
  LET g[j \in first..last] ==
        IF j = last THEN ready
        ELSE LayerReady(j, Before(first, j, in), g[j+1])
  IN g[first]

(* PIPELINE = {N/2, 1, 0}: section p (from row p to row p+1) has the       *)
(* layers from Border[p] up to Border[p+1] - 1.                            *)
Border(p) == IF p = 0 THEN 0 ELSE IF p = 1 THEN 1 ELSE N \div 2

-----------------------------------------------------------------------------
Outputs(row) == [k \in Lane |-> Signal(row[k].valid, row[k].data)]

(* A register that holds no word is shown as NoWord: its stale contents    *)
(* are read by nobody.                                                     *)
Tidy(s) == [s EXCEPT !.data  = IF s.valid THEN s.data ELSE NoWord,
                     !.spare = IF s.state = "SKID" THEN s.spare ELSE NoWord]

Load(row, in, ready) ==
  [k \in Lane |-> Tidy(SkidNext(row[k], in[k].valid, in[k].word, ready[k]))]

Init ==
  /\ pipe = [p \in Row |-> [k \in Lane |-> AfterReset(NoWord, NoWord)]]
  /\ idOf = [t \in {} |-> 0]
  /\ delivered = [t \in Token |-> 0]

(* Input words are numbered in the order of their rows and lanes.          *)
Number(offer, k) == Sent + Cardinality({l \in offer : l <= k})

(* One clock edge.  offer: lanes with a new word the network is ready for  *)
(* (a word offered while in_ready is low changes nothing and is offered    *)
(* again), id: their ids, out_ready: the output lanes that are popped.     *)
Clock(offer, id, out_ready) ==
  /\ Sent + Cardinality(offer) <= MaxWords
  /\ \A k \in offer : pipe[0][k].ready
  /\ LET fresh == [k \in Lane |->
           Signal(k \in offer, [id |-> id[k], parts |-> {Number(offer, k)}])]
         pop == [k \in Lane |-> k \in out_ready]
         src == [p \in 0..1 |-> Outputs(pipe[p])]
         snk == [p \in 0..1 |-> Before(Border(p), Border(p+1), src[p])]
         rdy == [p \in 0..1 |-> BackThrough(Border(p), Border(p+1), src[p],
                                  [k \in Lane |-> pipe[p+1][k].ready])]
     IN pipe' = [p \in Row |->
          Load(pipe[p], IF p = 0 THEN fresh ELSE snk[p-1],
                        IF p = 2 THEN pop ELSE rdy[p])]
  /\ idOf' = [t \in 1..(Sent + Cardinality(offer)) |->
       IF t <= Sent THEN idOf[t]
       ELSE id[CHOOSE k \in offer : Number(offer, k) = t]]
  /\ delivered' = [t \in Token |-> delivered[t] +
       Cardinality({k \in out_ready : /\ pipe[2][k].valid
                                      /\ t \in pipe[2][k].data.parts})]

Waiting == {k \in Lane : pipe[2][k].valid}

Next ==
  \E offer \in SUBSET Lane, out_ready \in SUBSET Waiting :
    \E id \in [offer -> Ids] : Clock(offer, id, out_ready)

Spec == Init /\ [][Next]_vars

(* The clock never stops.  (MaxWords bounds the offers, so fairness speaks *)
(* of the edges without one.)                                              *)
Quiet(out_ready) == Clock({}, [k \in {} |-> 0], out_ready)

(* Every output lane is popped again and again, though never two of them   *)
(* together if the consumer so chooses: weak fairness of popping lane k,   *)
(* which is possible whenever the lane waits.                              *)
Pop(k) ==
  k \in Waiting /\ \A t \in pipe[2][k].data.parts : delivered'[t] > delivered[t]

KeepsPopping(k) == []<>(k \notin Waiting) \/ []<><<Pop(k)>>_vars

Fairness == WF_vars(Quiet({})) /\ \A k \in Lane : KeepsPopping(k)

FairSpec == Spec /\ Fairness
-----------------------------------------------------------------------------
(* The words held by a skid buffer.                                        *)
Held(s) == {w \in {s.data, s.spare} : w # NoWord}

(* How many registers of the network hold a sum that word t is part of.    *)
Copies(t) ==
  LET in(r) == Cardinality({x \in Row \X Lane : t \in pipe[x[1]][x[2]][r].parts})
  IN in("data") + in("spare")

(* Every register keeps its type, and every skid buffer its shape.         *)
TypeOK ==
  /\ pipe \in [Row -> [Lane -> StageType(Word \cup {NoWord})]]
  /\ \A p \in Row, k \in Lane : SkidShape(pipe[p][k])
  /\ idOf \in UNION {[1..n -> Ids] : n \in 0..MaxWords}
  /\ delivered \in [Token -> Nat]

(* Every accepted word is in exactly one place: part of one sum in the     *)
(* network or of one sum that has left.  Independent stalls of the lanes,  *)
(* merging and rerouting lose no word and count none twice, so per id the  *)
(* values that leave add up to the values that entered.                    *)
Conservation ==
  \A t \in Token :
    Copies(t) + delivered[t] = IF t \in DOMAIN idOf THEN 1 ELSE 0

(* Only words of one id are ever added up, and the sum carries that id.    *)
SumsAreOfOneId ==
  \A p \in Row, k \in Lane : \A w \in Held(pipe[p][k]) :
    \A t \in w.parts : idOf[t] = w.id

(* No pattern of stalls that keeps releasing every output lane holds a     *)
(* word back for ever: the network always becomes empty again (MaxWords    *)
(* bounds the words, so that is to say that every accepted word leaves).   *)
Drained == \A t \in DOMAIN idOf : delivered[t] = 1

AlwaysDrains == []<>Drained

-----------------------------------------------------------------------------
(* One full row of N words with one id, offered at once to an idle network *)
(* whose outputs are never stalled.                                        *)
OneRow ==
  \E offer \in {{}, Lane}, i \in Ids :
    Clock(offer, [k \in offer |-> i], Waiting)

OneRowSpec == Init /\ [][OneRow]_vars

(* "if all inputs share the same ID, then the module behaves as an         *)
(* adder-tree" (spmv_reduction_network.sv): a row with a single id leaves  *)
(* as one sum of all its words.                                            *)
AdderTree ==
  \A k \in Waiting : Sent = N => pipe[2][k].data.parts = 1..N
=============================================================================
