-------------------------- MODULE RowDecoderProofs --------------------------
(***************************************************************************)
(* That the row decoder sends a lane for every row id and every row that   *)
(* begins in a word in its place, for every number of lanes in and out,    *)
(* every vector and every pattern of stalls; and all the row ids in order  *)
(* when its words are as wide as its chunks.                               *)
(*                                                                         *)
(* What is owed is, at every edge, what the stages hold, oldest first      *)
(* (Held): the rows of the words in row_ids and its spare register, what   *)
(* the words in pipeline_1 and pipeline_0 should become, what is left of   *)
(* the chunk in the controller, and the chunks that wait behind it.  The   *)
(* row that continues into pipeline_1, c, and the rows o1 and o2 of the    *)
(* two words of row_ids cannot be read off the registers when a chunk has  *)
(* more lanes than a word: the invariant says that there are such values.  *)
(***************************************************************************)
EXTENDS RowDecoder, SequenceTheorems, DataInduction, TLAPS

Modulus == 2^ID_WIDTH

(* Types of the words.                                                     *)
BoundaryIds == [Boundary -> Id]
AnyChunk == [data : [0..(IN_PAR - 1) -> Id], n : 1..IN_PAR, last : BOOLEAN]
Word0 == [ids : BoundaryIds, last : BOOLEAN, mask : Lane, offset : Id, sofar : Id]
Word1 == [subs : BoundaryIds, last : BOOLEAN, mask : Lane, offset : Id]
RowIds == [ids : [Lane -> Id], last : BOOLEAN, mask : Lane]
Tasks == [ids : BoundaryIds, number : Id, mask : Lane, total : Id]
BiasState == {"BIAS_0", "PREV_BIAS"}
Controls == [state : {"IDLE", "BUSY"}, bias : BiasState, bias_latch : BiasState,
             last : BOOLEAN, last_offset : Id, task : Tasks, offset : Id]

(* A spare register in PIPE holds what the other register holds.           *)
Shape(s) == SkidShape(s) /\ (s.state = "PIPE" => s.spare = s.data)

Typed ==
  /\ in_r \in StageType(AnyChunk) /\ p0 \in StageType(Word0) /\ p1 \in StageType(Word1)
  /\ out_r \in StageType(RowIds) /\ ctl \in Controls
  /\ Shape(in_r) /\ Shape(p0) /\ Shape(p1) /\ Shape(out_r)
  /\ vec.open \in BOOLEAN /\ vec.prev \in Id /\ vec.chunks \in Nat
  /\ ~vec.open => vec.chunks = 0
  /\ owed \in Seq(Id) /\ row_word \in Seq(Id)

-----------------------------------------------------------------------------
(* The rows that a range of positions in a chunk stands for: at a position *)
(* the row of the last boundary at or before it.                           *)
RowAt(ids, offset, pos) ==
  Minus(Wrap(offset + OFFSET + Max({b \in Boundary : Minus(ids[b], ids[0]) <= pos})), 1)

Rows(ids, offset, from, to) == [x \in 1..(to - from) |-> RowAt(ids, offset, from + x - 1)]

LanesOf(w) == IF w.last THEN w.mask ELSE OUT_PAR

(* What a word of pipeline_0 and of pipeline_1 should become, the latter   *)
(* by the row of the lane before it.                                       *)
Rows0(w) == Rows(w.ids, w.offset, w.sofar, w.sofar + LanesOf(w))

At(w, j) == {b \in Boundary : w.subs[b] < OUT_PAR /\ j >= w.subs[b]}
Lanes(w, carry) ==
  [j \in Lane |-> IF At(w, j) = {} THEN carry
                  ELSE Minus(Wrap(w.offset + OFFSET + Max(At(w, j))), 1)]
Rows1(w, carry) == [x \in 1..LanesOf(w) |-> Lanes(w, carry)[x - 1]]

(* The row of the last lane after the words of a stage, c the one before.  *)
LastLane(w, c) == Lanes(w, c)[OUT_PAR - 1]
Carry1(s, c) == IF s.valid THEN LastLane(s.data, c) ELSE c
Carry2(s, c) == IF s.state = "SKID" THEN LastLane(s.spare, Carry1(s, c)) ELSE Carry1(s, c)

(* A word of row_ids against the rows it stands for: it has their number   *)
(* of lanes, and a row that begins in it is in its place; all are when the *)
(* lane the code carries from is the last one.                             *)
Shows(r, o) ==
  /\ Len(o) = LanesOf(r)
  /\ \A x \in 1..Len(o) : o[x] # o[1] \/ IN_PAR = OUT_PAR => r.ids[x - 1] = o[x]

Owing(s, c, o1, o2) ==
  /\ c \in Id /\ o1 \in Seq(Id) /\ o2 \in Seq(Id)
  /\ IF s.valid THEN Shows(s.data, o1) ELSE o1 = <<>>
  /\ IF s.state = "SKID" THEN Shows(s.spare, o2) ELSE o2 = <<>>
  /\ IN_PAR = OUT_PAR => c = s.spare.ids[OUT_PAR - 1]

-----------------------------------------------------------------------------
(* Where a chunk stands in its vector: whether one came before, with which *)
(* last offset, and how many rows did.                                     *)
NoChunkBefore == [open |-> FALSE, prev |-> 0, base |-> 0]
Then(c, chunk) ==
  IF chunk.last THEN NoChunkBefore
  ELSE [open |-> TRUE, prev |-> chunk.data[IN_PAR - 1], base |-> Wrap(c.base + IN_PAR)]

BoundariesOf(c, chunk) ==
  [b \in Boundary |-> IF b = 0 THEN IF c.open THEN c.prev ELSE chunk.data[0]
                      ELSE IF b <= chunk.n THEN chunk.data[b - 1] ELSE Modulus - 1]

ChunkRows(c, chunk) ==
  Rows(BoundariesOf(c, chunk), c.base, 0,
       Minus(chunk.data[chunk.n - 1], BoundariesOf(c, chunk)[0]))

GoodChunk(c, chunk) == chunk \in Chunk /\ (c.open => c.prev <= chunk.data[0])

(* For the next chunk of the controller, by what its registers hold; for   *)
(* the ones in the input buffer; for the one the producer sends next.      *)
Place0 ==
  IF ctl.state = "BUSY"
  THEN IF ctl.last THEN NoChunkBefore
       ELSE [open |-> TRUE, prev |-> ctl.task.ids[IN_PAR], base |-> Wrap(ctl.offset + IN_PAR)]
  ELSE IF ctl.bias = "BIAS_0" THEN NoChunkBefore
       ELSE [open |-> TRUE, prev |-> ctl.last_offset, base |-> Wrap(p0.spare.offset + IN_PAR)]
Place1 == IF in_r.valid THEN Then(Place0, in_r.data) ELSE Place0
Place2 == IF in_r.state = "SKID" THEN Then(Place1, in_r.spare) ELSE Place1
PlaceOfNext ==
  IF vec.open THEN [open |-> TRUE, prev |-> vec.prev, base |-> Wrap(vec.chunks * IN_PAR)]
  ELSE NoChunkBefore

-----------------------------------------------------------------------------
(* What is owed, by where it is.                                           *)
Head1(s, c) == IF s.valid THEN Rows1(s.data, c) ELSE <<>>
Tail1(s, c) == IF s.state = "SKID" THEN Rows1(s.spare, Carry1(s, c)) ELSE <<>>
Head0 == IF p0.valid THEN Rows0(p0.data) ELSE <<>>
Tail0 == IF p0.state = "SKID" THEN Rows0(p0.spare) ELSE <<>>
Sofar == ctl.task.total - (ctl.task.number * OUT_PAR + ctl.task.mask)
InTask == IF ctl.state = "BUSY" THEN Rows(ctl.task.ids, ctl.offset, Sofar, ctl.task.total)
          ELSE <<>>
InHead == IF in_r.valid THEN ChunkRows(Place0, in_r.data) ELSE <<>>
InTail == IF in_r.state = "SKID" THEN ChunkRows(Place1, in_r.spare) ELSE <<>>

Behind == (Head0 \o Tail0) \o (InTask \o (InHead \o InTail))
Held(s, c, o1, o2, behind) == (o1 \o o2) \o ((Head1(s, c) \o Tail1(s, c)) \o behind)

-----------------------------------------------------------------------------
(* A word of pipeline_0 has sorted boundaries and a position that leaves   *)
(* room for its lanes; the second word of a chunk follows the first.       *)
Sorted(ids) == \A a, b \in Boundary : a <= b => ids[a] <= ids[b]
Good(w) == Sorted(w.ids) /\ w.sofar + OUT_PAR <= Modulus
Follows(v, w) ==
  ~v.last /\ w.ids = v.ids /\ w.offset = v.offset /\ w.sofar = v.sofar + OUT_PAR

Pending0(s, c) ==
  /\ s.valid => /\ Good(s.data)
                /\ s.data.sofar > 0 =>
                     c = RowAt(s.data.ids, s.data.offset, s.data.sofar - 1)
  /\ s.state = "SKID" => Good(s.spare) /\ (s.spare.sofar > 0 => Follows(s.data, s.spare))

(* The controller.  In the middle of a vector it is idle only while        *)
(* pipeline_0 still holds the last word of the chunk before.               *)
Controlling ==
  /\ ctl.bias = ctl.bias_latch
  /\ ctl.state = "BUSY" =>
       /\ ctl.bias = "PREV_BIAS" /\ Sorted(ctl.task.ids)
       /\ ctl.task.number * OUT_PAR + ctl.task.mask <= ctl.task.total
       /\ ctl.task.total - ctl.task.mask + OUT_PAR <= Modulus
       /\ Sofar > 0 =>
            /\ p0.valid /\ ~p0.spare.last /\ p0.spare.ids = ctl.task.ids
            /\ p0.spare.offset = ctl.offset /\ Sofar = p0.spare.sofar + OUT_PAR
  /\ ctl.state = "IDLE" /\ ctl.bias = "PREV_BIAS" => in_r.valid /\ p0.valid

Arriving ==
  /\ in_r.valid => GoodChunk(Place0, in_r.data)
  /\ in_r.state = "SKID" => GoodChunk(Place1, in_r.spare)
  /\ PlaceOfNext = Place2
  /\ vec.open => in_r.valid

(* A stage that has just been reset is idle, and all are reset together.   *)
Cold(s) == s.state = "PIPE" /\ ~s.ready
Together ==
  \/ Cold(in_r) /\ Cold(p0) /\ Cold(p1) /\ Cold(out_r) /\ ctl.state = "IDLE"
  \/ ~Cold(in_r) /\ ~Cold(p0) /\ ~Cold(p1) /\ ~Cold(out_r)

Accounted ==
  \E c, o1, o2 : /\ Owing(out_r, c, o1, o2)
                 /\ Pending0(p0, Carry2(p1, c))
                 /\ owed = Held(p1, c, o1, o2, Behind)

DecoderInv == Typed /\ Together /\ Controlling /\ Arriving /\ Accounted

-----------------------------------------------------------------------------
(* Numbers.                                                                *)
LEMMA Parameters ==
  /\ Modulus \in Nat \ {0} /\ OUT_PAR \in Nat \ {0} /\ IN_PAR \in Nat \ {0}
  /\ OFFSET \in Nat /\ Offsets \subseteq Id
  /\ Id = 0..(Modulus - 1) /\ 0 \in Id /\ Modulus - 1 \in Id /\ Id \subseteq Nat
  /\ 0 \in Boundary /\ IN_PAR \in Boundary /\ Boundary \subseteq Nat
  /\ 0 \in Lane /\ OUT_PAR - 1 \in Lane /\ Lane \subseteq Nat
BY RowDecoderAssumption, PowersAssumption DEF Modulus, Id, Boundary, Lane

LEMMA WrapFacts ==
  /\ \A x \in Nat : Wrap(x) \in Id
  /\ \A x \in Id : Wrap(x) = x
  /\ \A x, y \in Nat : Wrap(Wrap(x) + y) = Wrap(x + y)
<1>1. Modulus \in Nat \ {0} /\ Id = 0..(Modulus - 1)
  BY Parameters
<1>2. \A x : Wrap(x) = x % Modulus
  BY DEF Wrap, Modulus
<1>3. ASSUME NEW x \in Nat PROVE Wrap(x) \in Id
  BY <1>1, <1>2, RemainderFacts
<1>4. ASSUME NEW x \in Id PROVE Wrap(x) = x
  <2>1. x \in Nat /\ x < Modulus
    BY <1>1
  <2>2. QED
    BY <1>1, <1>2, <2>1, RemainderFacts
<1>5. ASSUME NEW x \in Nat, NEW y \in Nat PROVE Wrap(Wrap(x) + y) = Wrap(x + y)
  BY <1>1, <1>2, RemainderOfSum
<1>6. QED
  BY <1>3, <1>4, <1>5

LEMMA MinusFacts ==
  ASSUME NEW a \in Id, NEW b \in Id
  PROVE  Minus(a, b) \in Id /\ Minus(a, b) = IF b <= a THEN a - b ELSE a + Modulus - b
<1>1. Modulus \in Nat \ {0} /\ a \in 0..(Modulus - 1) /\ b \in 0..(Modulus - 1)
  BY Parameters
<1>2. Minus(a, b) = (a + Modulus - b) % Modulus
  BY DEF Minus, Modulus
<1>3. CASE b <= a
  <2>1. a - b \in Nat /\ a - b < Modulus /\ a + Modulus - b = (a - b) + Modulus
    BY <1>1, <1>3
  <2>2. (a + Modulus - b) % Modulus = a - b
    BY <1>1, <2>1, RemainderFacts
  <2>3. QED
    BY <1>1, <1>2, <1>3, <2>1, <2>2, Parameters
<1>4. CASE ~(b <= a)
  <2>1. a + Modulus - b \in Nat /\ a + Modulus - b < Modulus
    BY <1>1, <1>4
  <2>2. (a + Modulus - b) % Modulus = a + Modulus - b
    BY <1>1, <2>1, RemainderFacts
  <2>3. QED
    BY <1>1, <1>2, <1>4, <2>1, <2>2, Parameters
<1>5. QED
  BY <1>3, <1>4

LEMMA Difference == \A a, b \in Id : b <= a => Minus(a, b) = a - b
BY MinusFacts

(* A total splits into full words and a mask, and a word that starts at a  *)
(* multiple of OUT_PAR below the total ends below the modulus.             *)
LEMMA SplitTotal ==
  ASSUME NEW t \in Id
  PROVE  /\ t \div OUT_PAR \in Id /\ t % OUT_PAR \in Lane
         /\ (t \div OUT_PAR) * OUT_PAR + (t % OUT_PAR) = t
         /\ t - (t % OUT_PAR) + OUT_PAR <= Modulus
<1> DEFINE q == t \div OUT_PAR
           r == t % OUT_PAR
           k == Modulus \div OUT_PAR
<1>1. /\ Modulus \in Nat \ {0} /\ OUT_PAR \in Nat \ {0} /\ t \in 0..(Modulus - 1)
      /\ Modulus % OUT_PAR = 0
  BY Parameters, PowersAssumption DEF Modulus
<1>2. q \in Nat /\ r \in 0..(OUT_PAR - 1) /\ t = OUT_PAR * q + r
  <2>1. t \in Nat
    BY <1>1
  <2>2. QED
    BY <1>1, <2>1, RemainderFacts
<1>3. k \in Nat /\ Modulus = OUT_PAR * k
  <2>1. Modulus \in Nat
    BY <1>1
  <2>2. k \in Nat /\ Modulus = OUT_PAR * k + (Modulus % OUT_PAR)
    BY <1>1, <2>1, RemainderFacts
  <2>3. OUT_PAR * k \in Nat
    BY <1>1, <2>2
  <2>4. QED
    BY <1>1, <2>2, <2>3
<1> HIDE DEF q, r, k
<1>4. OUT_PAR * q \in Nat /\ q <= OUT_PAR * q
  BY <1>1, <1>2
<1>5. q + 1 <= k
  <2> SUFFICES ASSUME k <= q PROVE FALSE
    BY <1>2, <1>3
  <2>1. OUT_PAR * k <= OUT_PAR * q
    BY <1>1, <1>2, <1>3
  <2>2. QED
    BY <1>1, <1>2, <1>3, <1>4, <2>1
<1>6. OUT_PAR * (q + 1) <= OUT_PAR * k
  BY <1>1, <1>2, <1>3, <1>5
<1>7. OUT_PAR * (q + 1) = OUT_PAR * q + OUT_PAR /\ q * OUT_PAR = OUT_PAR * q
  BY <1>1, <1>2
<1>8. QED
  BY <1>1, <1>2, <1>3, <1>4, <1>6, <1>7, Parameters DEF q, r, Lane

(* The maximum of some numbers up to m.                                    *)
LEMMA MaxFacts ==
  ASSUME NEW m \in Nat, NEW S \in SUBSET (0..m), S # {}
  PROVE  Max(S) \in S /\ \A x \in S : x <= Max(S)
<1> DEFINE T == {m - x : x \in S}
<1>1. T \in SUBSET Nat /\ T # {}
  <2>1. \A x \in S : x \in 0..m /\ m - x \in Nat
    OBVIOUS
  <2>2. PICK x \in S : TRUE
    OBVIOUS
  <2>3. m - x \in T
    OBVIOUS
  <2>4. QED
    BY <2>1, <2>3
<1>2. PICK l \in T : \A y \in T : l <= y
  BY <1>1, LeastNatural
<1>3. PICK x \in S : l = m - x
  BY <1>2
<1>4. \A y \in S : x >= y
  <2> SUFFICES ASSUME NEW y \in S PROVE x >= y
    OBVIOUS
  <2>1. m - y \in T
    OBVIOUS
  <2>2. l <= m - y
    BY <1>2, <2>1
  <2>3. QED
    BY <1>3, <2>2
<1>5. \E x_1 \in S : \A y \in S : x_1 >= y
  BY <1>4
<1>6. Max(S) \in S /\ \A y \in S : Max(S) >= y
  BY <1>5 DEF Max
<1>7. QED
  BY <1>6

-----------------------------------------------------------------------------
(* Sequences.                                                              *)
LEMMA SeqOfFunction ==
  ASSUME NEW D, NEW k \in Nat, NEW f \in [1..k -> D]
  PROVE  f \in Seq(D) /\ Len(f) = k
OBVIOUS

LEMMA SeqIsFunction ==
  ASSUME NEW D, NEW s \in Seq(D), NEW k, Len(s) = k
  PROVE  s = [x \in 1..k |-> s[x]]
BY LenProperties

(* Two sequences that continue each other: p agrees with e from k on.      *)
Agrees(p, e, k) == \A x \in 1..Len(p) : p[x] = e[k + x]

LEMMA Joined ==
  ASSUME NEW p \in Seq(Id), NEW q \in Seq(Id), NEW e,
         Agrees(p, e, 0), Agrees(q, e, Len(p))
  PROVE  /\ p \o q \in Seq(Id) /\ Len(p \o q) = Len(p) + Len(q)
         /\ \A x \in 1..(Len(p) + Len(q)) : (p \o q)[x] = e[x]
<1> DEFINE u == Len(p)
           v == Len(q)
<1>0. /\ u \in Nat /\ v \in Nat
      /\ \A x \in 1..u : p[x] = e[x]
      /\ \A x \in 1..v : q[x] = e[u + x]
  BY DEF Agrees
<1>1. /\ p \o q \in Seq(Id) /\ Len(p \o q) = u + v
      /\ \A x \in 1..(u + v) : (p \o q)[x] = IF x <= u THEN p[x] ELSE q[x - u]
  BY ConcatProperties
<1> HIDE DEF u, v
<1>2. ASSUME NEW x \in 1..(u + v) PROVE (p \o q)[x] = e[x]
  <2>1. CASE x <= u
    BY <1>0, <1>1, <2>1
  <2>2. CASE ~(x <= u)
    <3>1. x - u \in 1..v /\ u + (x - u) = x
      BY <1>0, <2>2
    <3>2. q[x - u] = e[u + (x - u)]
      BY <1>0, <3>1
    <3>3. QED
      BY <1>1, <2>2, <3>1, <3>2
  <2>3. QED
    BY <2>1, <2>2
<1>3. QED
  BY <1>1, <1>2 DEF u, v

(* Concatenating sequences one by one.                                     *)
Joins(h, s) == h = [i \in 1..Len(s) |-> IF i = 1 THEN s[i] ELSE h[i - 1] \o s[i]]
JoinedUpTo(s) == CHOOSE h : Joins(h, s)

LEMMA FlattenRecursion ==
  ASSUME NEW n \in Nat \ {0}, NEW s \in [1..n -> Seq(Id)]
  PROVE  /\ JoinedUpTo(s)[1] = s[1]
         /\ \A k \in 1..(n - 1) : JoinedUpTo(s)[k + 1] = JoinedUpTo(s)[k] \o s[k + 1]
         /\ FlattenSeq(s) = JoinedUpTo(s)[n]
         /\ \A k \in 1..n : JoinedUpTo(s)[k] \in Seq(Id)
<1> DEFINE step == [m \in Nat |-> [q \in Seq(Id) |-> IF m + 2 <= n THEN q \o s[m + 2] ELSE q]]
           F == JoinedUpTo(s)
<1>0. Len(s) = n /\ n # 0
  OBVIOUS
<1>1. step \in Steps(Seq(Id)) /\ s[1] \in Seq(Id)
  <2>1. ASSUME NEW m \in Nat, NEW q \in Seq(Id)
        PROVE  (IF m + 2 <= n THEN q \o s[m + 2] ELSE q) \in Seq(Id)
    <3>1. m + 2 <= n => s[m + 2] \in Seq(Id)
      OBVIOUS
    <3>2. QED
      BY <3>1
  <2>2. QED
    BY <2>1 DEF Steps
<1> HIDE DEF step
<1>2. PICK g : Recurses(g, Seq(Id), s[1], step)
  BY <1>1, PrimitiveRecursion
<1>3. /\ g \in [Nat -> Seq(Id)] /\ g[0] = s[1]
      /\ \A m \in Nat : g[m + 1] = IF m + 2 <= n THEN g[m] \o s[m + 2] ELSE g[m]
  BY <1>2 DEF step, Recurses
<1> DEFINE G == [i \in 1..n |-> g[i - 1]]
<1>4. Joins(G, s)
  <2>1. ASSUME NEW i \in 1..n PROVE G[i] = IF i = 1 THEN s[i] ELSE G[i - 1] \o s[i]
    <3>1. CASE i = 1
      BY <1>3, <3>1
    <3>2. CASE i # 1
      <4>1. i - 2 \in Nat /\ i - 1 \in 1..n /\ (i - 2) + 1 = i - 1 /\ (i - 2) + 2 = i
        BY <3>2
      <4>2. g[i - 1] = g[i - 2] \o s[i]
        <5>1. PICK m \in Nat : m = i - 2
          BY <4>1
        <5>2. m + 1 = i - 1 /\ m + 2 = i /\ m + 2 <= n
          BY <4>1, <5>1
        <5>3. g[m + 1] = g[m] \o s[m + 2]
          BY <1>3, <5>2
        <5>4. QED
          BY <5>1, <5>2, <5>3
      <4>3. G[i] = g[i - 1] /\ G[i - 1] = g[i - 2]
        BY <4>1
      <4>4. QED
        BY <3>2, <4>2, <4>3
    <3>3. QED
      BY <3>1, <3>2
  <2>2. QED
    BY <1>0, <2>1 DEF Joins
<1> HIDE DEF G
<1>5. Joins(F, s)
  BY <1>4 DEF JoinedUpTo
<1>7. FlattenSeq(s) = F[n]
  BY <1>0 DEF FlattenSeq, JoinedUpTo, Joins
<1> HIDE DEF F
<1>8. /\ F[1] = s[1] /\ \A k \in 1..(n - 1) : F[k + 1] = F[k] \o s[k + 1]
  <2>1. \A i \in 1..n : F[i] = IF i = 1 THEN s[i] ELSE F[i - 1] \o s[i]
    BY <1>0, <1>5 DEF Joins
  <2>2. 1 \in 1..n /\ \A k \in 1..(n - 1) : k + 1 \in 1..n /\ k + 1 # 1 /\ (k + 1) - 1 = k
    OBVIOUS
  <2>3. QED
    BY <2>1, <2>2
<1>9. \A k \in 1..n : F[k] \in Seq(Id)
  <2> DEFINE T == {k \in 1..n : F[k] \in Seq(Id)}
  <2>1. 1 \in T
    BY <1>1, <1>8
  <2>2. \A k \in 1..(n - 1) : k \in T => k + 1 \in T
    <3> SUFFICES ASSUME NEW k \in 1..(n - 1), k \in T PROVE k + 1 \in T
      OBVIOUS
    <3>1. k + 1 \in 1..n /\ F[k] \in Seq(Id) /\ s[k + 1] \in Seq(Id)
      OBVIOUS
    <3>2. F[k] \o s[k + 1] \in Seq(Id)
      BY <3>1
    <3>3. QED
      BY <1>8, <3>1, <3>2
  <2>3. 1 \in Int /\ n \in Int
    OBVIOUS
  <2> HIDE DEF T
  <2>4. \A k \in 1..n : k \in T
    BY <2>1, <2>2, <2>3, IntervalInduction
  <2>5. QED
    BY <2>4 DEF T
<1>10. QED
  BY <1>7, <1>8, <1>9 DEF F

(* Runs: value k once for every unit between boundary k and boundary k+1   *)
(* is, position by position, the value of the last boundary reached.       *)
LEMMA FlattenRuns ==
  ASSUME NEW n \in Nat \ {0}, NEW f \in [0..n -> Nat],
         \A a, b \in 0..n : a <= b => f[a] <= f[b],
         NEW R \in [0..(n - 1) -> Id]
  PROVE  FlattenSeq([k \in 1..n |-> Repeat(R[k - 1], f[k] - f[k - 1])])
           = [x \in 1..(f[n] - f[0]) |-> R[Max({b \in 0..n : f[b] - f[0] <= x - 1})]]
<1> DEFINE S(x) == {b \in 0..n : f[b] - f[0] <= x - 1}
           s == [k \in 1..n |-> Repeat(R[k - 1], f[k] - f[k - 1])]
           Run(k) == [x \in 1..(f[k] - f[0]) |-> R[Max(S(x))]]
<1>1. ASSUME NEW k \in 0..(n - 1), NEW x \in Nat, f[k] - f[0] < x, x <= f[k + 1] - f[0]
      PROVE  Max(S(x)) = k
  <2>1. k \in S(x) /\ S(x) \in SUBSET (0..n) /\ k + 1 \in 0..n
    BY <1>1
  <2>2. Max(S(x)) \in S(x) /\ k <= Max(S(x))
    BY <2>1, MaxFacts
  <2>3. ASSUME NEW b \in S(x), k < b PROVE FALSE
    <3>1. b \in 0..n /\ k + 1 <= b /\ f[b] - f[0] <= x - 1
      BY <2>3
    <3>2. f[k + 1] <= f[b]
      BY <2>1, <3>1
    <3>3. f[k + 1] \in Nat /\ f[b] \in Nat /\ f[0] \in Nat
      BY <2>1, <3>1
    <3>4. QED
      BY <1>1, <3>1, <3>2, <3>3
  <2>4. Max(S(x)) \in 0..n
    BY <2>2
  <2>5. QED
    BY <2>2, <2>3, <2>4
<1>2. ASSUME NEW k \in 1..n
      PROVE  /\ s[k] \in Seq(Id) /\ Len(s[k]) = f[k] - f[k - 1]
             /\ \A x \in 1..(f[k] - f[k - 1]) : s[k][x] = R[k - 1]
             /\ f[k] - f[k - 1] \in Nat /\ f[k - 1] - f[0] \in Nat /\ f[k] - f[0] \in Nat
  <2>1. k - 1 \in 0..(n - 1) /\ k - 1 \in 0..n /\ k \in 0..n /\ 0 \in 0..n
    OBVIOUS
  <2>2. f[k - 1] <= f[k] /\ f[0] <= f[k - 1] /\ f[k] \in Nat /\ f[k - 1] \in Nat /\ f[0] \in Nat
    BY <2>1
  <2>3. s[k] = [x \in 1..(f[k] - f[k - 1]) |-> R[k - 1]]
    BY DEF Repeat
  <2> DEFINE d == f[k] - f[k - 1]
  <2>4. d \in Nat /\ R[k - 1] \in Id
    BY <2>1, <2>2
  <2> HIDE DEF s, d
  <2>5. s[k] = [x \in 1..d |-> R[k - 1]]
    BY <2>3 DEF d
  <2>6. s[k] \in [1..d -> Id] /\ \A x \in 1..d : s[k][x] = R[k - 1]
    BY <2>4, <2>5
  <2>7. s[k] \in Seq(Id) /\ Len(s[k]) = d
    BY <2>4, <2>6, SeqOfFunction
  <2>8. f[k - 1] - f[0] \in Nat /\ f[k] - f[0] \in Nat
    BY <2>2
  <2>9. QED
    BY <2>4, <2>6, <2>7, <2>8 DEF d
<1>3. s \in [1..n -> Seq(Id)]
  <2>1. \A k \in 1..n : s[k] \in Seq(Id)
    BY <1>2
  <2>2. QED
    BY <2>1
<1> HIDE DEF s
<1> DEFINE g == JoinedUpTo(s)
<1>4. /\ g[1] = s[1] /\ \A k \in 1..(n - 1) : g[k + 1] = g[k] \o s[k + 1]
      /\ FlattenSeq(s) = g[n] /\ \A k \in 1..n : g[k] \in Seq(Id)
  BY <1>3, FlattenRecursion
<1> HIDE DEF g
<1> DEFINE T == {k \in 1..n : g[k] = Run(k)}
<1> HIDE DEF S
<1>5. 1 \in T
  <2>1. 1 \in 1..n /\ s[1] \in Seq(Id) /\ Len(s[1]) = f[1] - f[0] /\ f[1] - f[0] \in Nat
        /\ \A x \in 1..(f[1] - f[0]) : s[1][x] = R[0]
    BY <1>2
  <2>2. ASSUME NEW x \in 1..(f[1] - f[0]) PROVE Max(S(x)) = 0
    <3>1. 0 \in 0..(n - 1) /\ x \in Nat /\ f[0] - f[0] < x /\ x <= f[0 + 1] - f[0]
      BY <2>1
    <3>2. QED
      BY <1>1, <3>1
  <2>3. s[1] = [x \in 1..(f[1] - f[0]) |-> s[1][x]]
    BY <2>1
  <2>4. s[1] = Run(1)
    BY <2>1, <2>2, <2>3
  <2>5. QED
    BY <1>4, <2>1, <2>4
<1>6. ASSUME NEW k \in 1..(n - 1), k \in T PROVE k + 1 \in T
  <2>1. k \in 1..n /\ k + 1 \in 1..n /\ (k + 1) - 1 = k /\ k \in 0..(n - 1)
    OBVIOUS
  <2> DEFINE u == f[k] - f[0]
             v == f[k + 1] - f[k]
             w == f[k + 1] - f[0]
  <2>2. /\ s[k + 1] \in Seq(Id) /\ Len(s[k + 1]) = v /\ v \in Nat /\ u \in Nat /\ w \in Nat
        /\ \A x \in 1..v : s[k + 1][x] = R[k]
    BY <1>2, <2>1
  <2>3. u + v = w
    <3>1. f[k] \in Nat /\ f[0] \in Nat /\ f[k + 1] \in Nat
      BY <2>1
    <3>2. QED
      BY <3>1
  <2>4. /\ g[k] = Run(k) /\ g[k] \in Seq(Id) /\ Len(g[k]) = u
        /\ \A x \in 1..u : g[k][x] = R[Max(S(x))]
    <3>1. g[k] = Run(k)
      BY <1>6
    <3>2. g[k] \in Seq(Id)
      BY <1>4, <2>1
    <3>3. DOMAIN g[k] = 1..u
      BY <3>1
    <3>4. QED
      BY <2>2, <3>1, <3>2, <3>3
  <2>5. ASSUME NEW x \in Nat, u < x, x <= w PROVE Max(S(x)) = k
    BY <1>1, <2>1, <2>5
  <2> DEFINE e == [x \in 1..w |-> R[Max(S(x))]]
  <2> HIDE DEF u, v, w
  <2>6. g[k + 1] = g[k] \o s[k + 1]
    BY <1>4
  <2>7. \A x \in 1..u : g[k][x] = e[x]
    BY <2>2, <2>3, <2>4
  <2>8. ASSUME NEW x \in 1..v PROVE s[k + 1][x] = e[u + x]
    <3>1. u + x \in 1..w /\ u < u + x /\ u + x \in Nat
      BY <2>2, <2>3
    <3>2. Max(S(u + x)) = k
      BY <2>5, <3>1
    <3>3. QED
      BY <2>2, <3>1, <3>2
  <2>9. g[k + 1] = [x \in 1..w |-> R[Max(S(x))]]
    <3>0. PICK d : d = e
      OBVIOUS
    <3>1. PICK y \in Seq(Id) : y = g[k]
      BY <2>4
    <3>2. PICK z \in Seq(Id) : z = s[k + 1]
      BY <2>2
    <3>3. \A x \in 1..w : d[x] = R[Max(S(x))]
      BY <3>0
    <3> HIDE DEF e
    <3>4. /\ Len(y) = u /\ Len(z) = v
          /\ \A x \in 1..Len(y) : y[x] = d[x]
          /\ \A x \in 1..Len(z) : z[x] = d[Len(y) + x]
      BY <2>2, <2>4, <2>7, <2>8, <3>0, <3>1, <3>2
    <3>5. /\ y \o z \in Seq(Id) /\ Len(y \o z) = Len(y) + Len(z)
          /\ \A x \in 1..(Len(y) + Len(z)) : (y \o z)[x] = d[x]
      <4>1. Agrees(y, d, 0) /\ Agrees(z, d, Len(y))
        BY <3>4 DEF Agrees
      <4>2. QED
        BY <4>1, Joined
    <3>6. y \o z = [x \in 1..w |-> (y \o z)[x]]
      BY <2>3, <3>4, <3>5, SeqIsFunction
    <3>7. \A x \in 1..w : (y \o z)[x] = R[Max(S(x))]
      BY <2>3, <3>3, <3>4, <3>5
    <3>8. y \o z = [x \in 1..w |-> R[Max(S(x))]]
      BY <3>6, <3>7
    <3>9. QED
      BY <2>6, <3>1, <3>2, <3>8
  <2>10. QED
    BY <2>1, <2>9 DEF w
<1>7. 1 \in Int /\ n \in Int
  OBVIOUS
<1>8. n \in T
  <2> HIDE DEF T
  <2>1. \A k \in 1..n : k \in T
    BY <1>5, <1>6, <1>7, IntervalInduction
  <2>2. QED
    BY <2>1
<1>9. FlattenSeq(s) = Run(n)
  BY <1>4, <1>8
<1>10. QED
  BY <1>9 DEF s, S

-----------------------------------------------------------------------------
(* Words and rows.                                                         *)
LEMMA OneLess == \A a \in Id : Minus(a, 1) \in Id
<1> SUFFICES ASSUME NEW a \in Id PROVE Minus(a, 1) \in Id
  OBVIOUS
<1>1. Modulus \in Nat \ {0} /\ a \in Nat /\ a + Modulus - 1 \in Nat /\ Id = 0..(Modulus - 1)
  BY Parameters
<1>2. (a + Modulus - 1) % Modulus \in 0..(Modulus - 1)
  BY <1>1, RemainderFacts
<1>3. QED
  BY <1>1, <1>2 DEF Minus, Modulus

LEMMA RowAtFacts ==
  ASSUME NEW ids \in BoundaryIds, NEW offset \in Id, NEW pos \in Nat
  PROVE  /\ RowAt(ids, offset, pos) \in Id
         /\ LET S == {b \in Boundary : Minus(ids[b], ids[0]) <= pos}
            IN  Max(S) \in S /\ \A b \in S : b <= Max(S)
<1> DEFINE S == {b \in Boundary : Minus(ids[b], ids[0]) <= pos}
<1>1. 0 \in S
  <2>1. ids[0] \in Id /\ 0 \in Boundary
    BY Parameters DEF BoundaryIds
  <2>2. \A c \in Id : Minus(c, c) = 0
    BY MinusFacts, Parameters
  <2>3. QED
    BY <2>1, <2>2
<1>2. S \in SUBSET (0..IN_PAR) /\ IN_PAR \in Nat
  BY Parameters DEF Boundary
<1>3. Max(S) \in S /\ \A b \in S : b <= Max(S)
  BY <1>1, <1>2, MaxFacts
<1>4. Max(S) \in Nat
  BY <1>2, <1>3
<1> HIDE DEF S
<1>5. offset + OFFSET + Max(S) \in Nat
  BY <1>4, Parameters
<1>6. Wrap(offset + OFFSET + Max(S)) \in Id
  BY <1>5, WrapFacts
<1>7. Minus(Wrap(offset + OFFSET + Max(S)), 1) \in Id
  BY <1>6, OneLess
<1>8. QED
  BY <1>3, <1>7 DEF S, RowAt

LEMMA RowsFacts ==
  ASSUME NEW ids \in BoundaryIds, NEW offset \in Id, NEW from \in Nat, NEW to \in Nat,
         from <= to
  PROVE  /\ Rows(ids, offset, from, to) \in Seq(Id)
         /\ Len(Rows(ids, offset, from, to)) = to - from
         /\ \A x \in 1..(to - from) :
              Rows(ids, offset, from, to)[x] = RowAt(ids, offset, from + x - 1)
<1> DEFINE k == to - from
           f == [x \in 1..k |-> RowAt(ids, offset, from + x - 1)]
<1>1. k \in Nat
  OBVIOUS
<1>2. \A x \in 1..k : RowAt(ids, offset, from + x - 1) \in Id
  <2> SUFFICES ASSUME NEW x \in 1..k PROVE RowAt(ids, offset, from + x - 1) \in Id
    OBVIOUS
  <2>1. from + x - 1 \in Nat
    BY <1>1
  <2>2. QED
    BY <2>1, RowAtFacts
<1> HIDE DEF k
<1>3. f \in [1..k -> Id]
  BY <1>2
<1>4. f \in Seq(Id) /\ Len(f) = k
  BY <1>1, <1>3, SeqOfFunction
<1>5. QED
  BY <1>4 DEF k, Rows

LEMMA RowsSplit ==
  ASSUME NEW ids \in BoundaryIds, NEW offset \in Id, NEW from \in Nat, NEW mid \in Nat,
         NEW to \in Nat, from <= mid, mid <= to
  PROVE  Rows(ids, offset, from, to)
           = Rows(ids, offset, from, mid) \o Rows(ids, offset, mid, to)
<1> DEFINE r(x) == RowAt(ids, offset, from + x - 1)
           u == mid - from
           v == to - mid
           w == to - from
           d == [x \in 1..w |-> r(x)]
<1>1. u \in Nat /\ v \in Nat /\ w = u + v /\ w \in Nat /\ from <= to
  OBVIOUS
<1>2. PICK y \in Seq(Id) : y = Rows(ids, offset, from, mid)
  BY RowsFacts
<1>3. PICK z \in Seq(Id) : z = Rows(ids, offset, mid, to)
  BY RowsFacts
<1>4. Len(y) = u /\ \A x \in 1..u : y[x] = r(x)
  BY <1>2, RowsFacts
<1>5. Len(z) = v /\ \A x \in 1..v : z[x] = r(u + x)
  <2>1. Len(z) = v /\ \A x \in 1..v : z[x] = RowAt(ids, offset, mid + x - 1)
    BY <1>3, RowsFacts
  <2>2. \A x \in 1..v : from + (u + x) - 1 = mid + x - 1
    OBVIOUS
  <2>3. QED
    BY <2>1, <2>2
<1> HIDE DEF r, u, v, w
<1>6. \A x \in 1..u : d[x] = r(x)
  BY <1>1
<1>7. \A x \in 1..v : d[u + x] = r(u + x)
  BY <1>1
<1>8. /\ \A x \in 1..Len(y) : y[x] = d[x]
      /\ \A x \in 1..Len(z) : z[x] = d[Len(y) + x]
  BY <1>4, <1>5, <1>6, <1>7
<1> HIDE DEF d
<1>9. /\ y \o z \in Seq(Id) /\ Len(y \o z) = Len(y) + Len(z)
      /\ \A x \in 1..(Len(y) + Len(z)) : (y \o z)[x] = d[x]
  <2>1. Agrees(y, d, 0) /\ Agrees(z, d, Len(y))
    BY <1>8 DEF Agrees
  <2>2. QED
    BY <2>1, Joined
<1>10. y \o z = [x \in 1..w |-> (y \o z)[x]]
  BY <1>1, <1>4, <1>5, <1>9, SeqIsFunction
<1>11. \A x \in 1..w : (y \o z)[x] = r(x)
  BY <1>1, <1>4, <1>5, <1>9 DEF d
<1>12. y \o z = [x \in 1..w |-> r(x)]
  BY <1>10, <1>11
<1>13. QED
  BY <1>2, <1>3, <1>12 DEF Rows, r, w

(* What pipeline_1 takes of a word of pipeline_0.                          *)
Relative(w) ==
  [subs |-> [i \in Boundary |-> Minus(Minus(w.ids[i], w.ids[0]), w.sofar)],
   last |-> w.last, mask |-> w.mask, offset |-> w.offset]

(* With sorted boundaries the position of a boundary is a difference, and  *)
(* a boundary of another word is at least OUT_PAR away modulo 2^ID_WIDTH.  *)
LEMMA Positions ==
  ASSUME NEW w \in Word0, Good(w), NEW b \in Boundary
  PROVE  /\ Minus(w.ids[b], w.ids[0]) = w.ids[b] - w.ids[0]
         /\ w.ids[b] - w.ids[0] \in Id
         /\ Relative(w).subs[b] \in Id
         /\ LET d == w.ids[b] - w.ids[0]
            IN  /\ w.sofar <= d => Relative(w).subs[b] = d - w.sofar
                /\ ~(w.sofar <= d) => ~(Relative(w).subs[b] < OUT_PAR)
<1> DEFINE x == w.ids[b]
           y == w.ids[0]
           s == w.sofar
           d == x - y
<1>1. /\ x \in Id /\ y \in Id /\ s \in Id /\ s + OUT_PAR <= Modulus /\ y <= x
      /\ Relative(w).subs[b] = Minus(Minus(x, y), s)
  <2>1. w.ids \in BoundaryIds /\ w.sofar \in Id /\ 0 \in Boundary /\ b \in Boundary /\ 0 <= b
    BY Parameters DEF Word0
  <2>2. QED
    BY <2>1 DEF Good, Sorted, BoundaryIds, Relative
<1> HIDE DEF x, y, s
<1>2. Minus(x, y) = d /\ d \in Id
  BY <1>1, MinusFacts
<1> HIDE DEF d
<1>3. Minus(d, s) \in Id /\ Minus(d, s) = IF s <= d THEN d - s ELSE d + Modulus - s
  BY <1>1, <1>2, MinusFacts
<1>4. d \in Nat /\ s \in Nat /\ Modulus \in Nat /\ OUT_PAR \in Nat
  BY <1>1, <1>2, Parameters
<1>5. Relative(w).subs[b] = Minus(d, s)
  BY <1>1, <1>2
<1>6. ~(s <= d) => ~(Minus(d, s) < OUT_PAR)
  BY <1>1, <1>3, <1>4
<1>7. QED
  BY <1>2, <1>3, <1>5, <1>6 DEF d, x, y, s

LEMMA LanesAreRows ==
  ASSUME NEW w \in Word0, Good(w), NEW carry,
         w.sofar > 0 => carry = RowAt(w.ids, w.offset, w.sofar - 1), NEW j \in Lane
  PROVE  Lanes(Relative(w), carry)[j] = RowAt(w.ids, w.offset, w.sofar + j)
<1> DEFINE v == Relative(w)
           d(b) == w.ids[b] - w.ids[0]
           s == w.sofar
           S(p) == {b \in Boundary : Minus(w.ids[b], w.ids[0]) <= p}
<1>1. /\ w.ids \in BoundaryIds /\ w.offset \in Id /\ s \in Nat /\ j \in Nat /\ j < OUT_PAR
      /\ OUT_PAR \in Nat /\ v.offset = w.offset
  BY Parameters DEF Word0, Lane, Relative
<1>2. \A b \in Boundary : /\ Minus(w.ids[b], w.ids[0]) = d(b) /\ d(b) \in Nat
                          /\ v.subs[b] \in Nat
                          /\ s <= d(b) => v.subs[b] = d(b) - s
                          /\ ~(s <= d(b)) => ~(v.subs[b] < OUT_PAR)
  BY Positions, Parameters
<1>3. \A a, b \in Boundary : a <= b => d(a) <= d(b)
  <2> SUFFICES ASSUME NEW a \in Boundary, NEW b \in Boundary, a <= b PROVE d(a) <= d(b)
    OBVIOUS
  <2>1. w.ids[a] <= w.ids[b] /\ 0 \in Boundary
    BY Parameters DEF Good, Sorted
  <2>2. w.ids[a] \in Nat /\ w.ids[b] \in Nat /\ w.ids[0] \in Nat
    BY <1>1, <2>1, Parameters DEF BoundaryIds
  <2>3. QED
    BY <2>1, <2>2
<1>4. Lanes(v, carry)[j] = IF At(v, j) = {} THEN carry
                           ELSE Minus(Wrap(v.offset + OFFSET + Max(At(v, j))), 1)
  BY DEF Lanes
<1> HIDE DEF v, d, s
<1>5. At(v, j) = {b \in Boundary : s <= d(b) /\ d(b) <= s + j}
  <2>1. \A b \in Boundary : (v.subs[b] < OUT_PAR /\ j >= v.subs[b])
                              <=> (s <= d(b) /\ d(b) <= s + j)
    BY <1>1, <1>2
  <2>2. QED
    BY <2>1 DEF At
<1>6. S(s + j) = {b \in Boundary : d(b) <= s + j}
  BY <1>2
<1>7. Max(S(s + j)) \in S(s + j) /\ \A b \in S(s + j) : b <= Max(S(s + j))
  <2>1. s + j \in Nat
    BY <1>1
  <2>2. QED
    BY <1>1, <2>1, RowAtFacts
<1> DEFINE M == Max(S(s + j))
<1> HIDE DEF S
<1>8. CASE At(v, j) = {}
  <2>1. \A b \in Boundary : d(b) <= s + j <=> d(b) <= s - 1
    BY <1>1, <1>2, <1>5, <1>8
  <2>2. S(s + j) = S(s - 1)
    <3>1. S(s - 1) = {b \in Boundary : d(b) <= s - 1}
      BY <1>2 DEF S
    <3>2. QED
      BY <1>6, <2>1, <3>1
  <2>3. s > 0
    <3>1. M \in Boundary /\ d(M) <= s + j
      BY <1>6, <1>7
    <3>2. QED
      BY <1>1, <1>2, <2>1, <3>1
  <2>4. Lanes(v, carry)[j] = RowAt(w.ids, w.offset, s - 1)
    BY <1>4, <1>8, <2>3 DEF s
  <2>5. QED
    BY <2>2, <2>4 DEF RowAt, S, v, s
<1>9. CASE At(v, j) # {}
  <2>1. At(v, j) \in SUBSET (0..IN_PAR) /\ IN_PAR \in Nat
    BY <1>5, Parameters DEF Boundary
  <2>2. Max(At(v, j)) \in At(v, j) /\ \A b \in At(v, j) : b <= Max(At(v, j))
    BY <1>9, <2>1, MaxFacts
  <2> DEFINE K == Max(At(v, j))
  <2> HIDE DEF K, M
  <2>3. K \in Boundary /\ s <= d(K) /\ d(K) <= s + j /\ M \in Boundary /\ d(M) <= s + j
    BY <1>5, <1>6, <1>7, <2>2 DEF K, M
  <2>4. K <= M
    BY <1>6, <1>7, <2>3 DEF M
  <2>5. d(K) <= d(M)
    BY <1>3, <2>3, <2>4
  <2>6. s <= d(M)
    BY <1>1, <1>2, <2>3, <2>5
  <2>7. M \in At(v, j)
    BY <1>5, <2>3, <2>6
  <2>8. M <= K
    BY <2>2, <2>7 DEF K
  <2>9. K = M
    BY <2>3, <2>4, <2>8, Parameters
  <2>10. Lanes(v, carry)[j] = Minus(Wrap(w.offset + OFFSET + M), 1)
    BY <1>1, <1>4, <1>9, <2>9 DEF K
  <2>11. QED
    BY <2>10 DEF M, S, RowAt, v, s
<1>10. QED
  BY <1>8, <1>9

-----------------------------------------------------------------------------
(* Chunks.                                                                 *)
LEMMA AdjacentSorted ==
  ASSUME NEW m \in Nat, NEW f \in [0..m -> Nat], \A i \in 1..m : f[i - 1] <= f[i]
  PROVE  \A a, b \in 0..m : a <= b => f[a] <= f[b]
<1> SUFFICES ASSUME NEW a \in 0..m PROVE \A b \in 0..m : a <= b => f[a] <= f[b]
  OBVIOUS
<1> DEFINE T == {b \in a..m : f[a] <= f[b]}
<1>1. a \in T
  OBVIOUS
<1>2. ASSUME NEW b \in a..(m - 1), b \in T PROVE b + 1 \in T
  <2>1. b + 1 \in a..m /\ b \in 0..m /\ b + 1 \in 0..m /\ b + 1 \in 1..m /\ (b + 1) - 1 = b
    OBVIOUS
  <2>2. f[b] <= f[b + 1] /\ f[a] <= f[b]
    BY <1>2, <2>1
  <2>3. f[a] \in Nat /\ f[b] \in Nat /\ f[b + 1] \in Nat
    BY <2>1
  <2>4. QED
    BY <2>1, <2>2, <2>3
<1>3. a \in Int /\ m \in Int
  OBVIOUS
<1> HIDE DEF T
<1>4. \A b \in a..m : b \in T
  BY <1>1, <1>2, <1>3, IntervalInduction
<1>5. QED
  BY <1>4 DEF T

(* A place in a vector.                                                    *)
Placed(c) == c.open \in BOOLEAN /\ c.prev \in Id /\ c.base \in Id

LEMMA ChunkFacts ==
  ASSUME NEW chunk \in Chunk
  PROVE  /\ chunk \in AnyChunk /\ chunk.n - 1 \in 0..(IN_PAR - 1) /\ 0 \in 0..(IN_PAR - 1)
         /\ \A i \in 0..(IN_PAR - 1) : chunk.data[i] \in Id
         /\ ~chunk.last => chunk.n = IN_PAR
         /\ \A i \in 1..(chunk.n - 1) : chunk.data[i - 1] <= chunk.data[i]
<1>1. /\ chunk.data \in [0..(IN_PAR - 1) -> Offsets \cup {0}] /\ chunk.n \in 1..IN_PAR
      /\ chunk.last \in BOOLEAN
      /\ chunk = [data |-> chunk.data, n |-> chunk.n, last |-> chunk.last]
      /\ ~chunk.last => chunk.n = IN_PAR
      /\ \A i \in 1..(chunk.n - 1) : chunk.data[i - 1] <= chunk.data[i]
  BY DEF Chunk
<1>2. Offsets \cup {0} \subseteq Id
  BY Parameters
<1>3. chunk.data \in [0..(IN_PAR - 1) -> Id]
  BY <1>1, <1>2
<1>4. QED
  BY <1>1, <1>3, Parameters DEF AnyChunk

LEMMA ChunkBoundaries ==
  ASSUME NEW c, Placed(c), NEW chunk, GoodChunk(c, chunk)
  PROVE  /\ BoundariesOf(c, chunk) \in BoundaryIds /\ Sorted(BoundariesOf(c, chunk))
         /\ chunk.n \in Boundary
         /\ BoundariesOf(c, chunk)[chunk.n] = chunk.data[chunk.n - 1]
         /\ \A b \in Boundary : b > chunk.n => BoundariesOf(c, chunk)[b] = Modulus - 1
<1> DEFINE B == BoundariesOf(c, chunk)
           n == chunk.n
<1>1. /\ chunk \in Chunk /\ c.prev \in Id /\ c.open \in BOOLEAN
      /\ c.open => c.prev <= chunk.data[0]
  BY DEF GoodChunk, Placed
<1>2. /\ n \in 1..IN_PAR /\ \A i \in 0..(IN_PAR - 1) : chunk.data[i] \in Id
      /\ \A i \in 1..(n - 1) : chunk.data[i - 1] <= chunk.data[i]
      /\ 0 \in 0..(IN_PAR - 1) /\ IN_PAR \in Nat
  BY <1>1, ChunkFacts, Parameters DEF AnyChunk
<1>3. /\ B[0] = IF c.open THEN c.prev ELSE chunk.data[0]
      /\ \A b \in 1..n : B[b] = chunk.data[b - 1]
      /\ \A b \in Boundary : b > n => B[b] = Modulus - 1
  BY <1>2 DEF BoundariesOf, Boundary
<1> HIDE DEF n
<1>4. \A b \in Boundary : B[b] \in Id
  <2>1. B[0] \in Id
    BY <1>1, <1>2, <1>3
  <2>2. \A b \in 1..n : b - 1 \in 0..(IN_PAR - 1)
    BY <1>2
  <2>3. \A b \in 1..n : B[b] \in Id
    BY <1>2, <1>3, <2>2
  <2>4. QED
    BY <1>2, <1>3, <2>1, <2>3, Parameters DEF Boundary
<1>5. B \in BoundaryIds
  BY <1>4 DEF BoundaryIds, BoundariesOf
<1> HIDE DEF B
<1>6. ASSUME NEW i \in 1..IN_PAR PROVE B[i - 1] <= B[i]
  <2>1. i - 1 \in Boundary /\ i \in Boundary /\ B[i - 1] \in Id /\ B[i] \in Id
    BY <1>2, <1>4 DEF Boundary
  <2>2. CASE i > n
    BY <1>3, <2>1, <2>2, Parameters
  <2>3. CASE i <= n /\ i > 1
    <3>1. i - 1 \in 1..n /\ i \in 1..n /\ i - 1 \in 1..(n - 1)
      BY <1>2, <2>3
    <3>2. chunk.data[(i - 1) - 1] <= chunk.data[i - 1]
      BY <1>2, <3>1
    <3>3. QED
      BY <1>3, <3>1, <3>2
  <2>4. CASE i <= n /\ ~(i > 1)
    <3>1. i = 1 /\ i - 1 = 0 /\ 1 \in 1..n
      BY <1>2, <2>4
    <3>2. B[1] = chunk.data[0]
      BY <1>3, <3>1
    <3>3. chunk.data[0] \in Nat
      BY <1>2, Parameters
    <3>4. B[0] <= chunk.data[0]
      BY <1>1, <1>3, <3>3
    <3>5. QED
      BY <3>1, <3>2, <3>4
  <2>5. QED
    BY <1>2, <2>2, <2>3, <2>4
<1>7. B \in [0..IN_PAR -> Nat]
  BY <1>5, Parameters DEF BoundaryIds, Boundary
<1>8. Sorted(B)
  BY <1>2, <1>6, <1>7, AdjacentSorted DEF Sorted, Boundary
<1>9. n \in Boundary /\ n \in 1..n
  BY <1>2 DEF Boundary
<1>10. QED
  BY <1>3, <1>5, <1>8, <1>9 DEF B, n

LEMMA ChunkRowsFacts ==
  ASSUME NEW c, Placed(c), NEW chunk, GoodChunk(c, chunk)
  PROVE  LET B == BoundariesOf(c, chunk)
             t == chunk.data[chunk.n - 1] - B[0]
         IN  /\ t \in Id /\ Minus(chunk.data[chunk.n - 1], B[0]) = t
             /\ chunk.data[chunk.n - 1] \in Id /\ B[0] \in Id
             /\ ChunkRows(c, chunk) = Rows(B, c.base, 0, t)
             /\ ChunkRows(c, chunk) \in Seq(Id)
<1> DEFINE B == BoundariesOf(c, chunk)
           d == chunk.data[chunk.n - 1]
           t == d - B[0]
<1>1. /\ B \in BoundaryIds /\ Sorted(B) /\ chunk.n \in Boundary /\ 0 \in Boundary
      /\ B[chunk.n] = d /\ 0 <= chunk.n
  BY ChunkBoundaries, Parameters DEF Boundary
<1>2. B[0] \in Id /\ d \in Id /\ B[0] <= d
  <2>1. B[0] \in Id /\ B[chunk.n] \in Id
    BY <1>1 DEF BoundaryIds
  <2>2. B[0] <= B[chunk.n]
    BY <1>1 DEF Sorted
  <2>3. QED
    BY <1>1, <2>1, <2>2
<1>3. ChunkRows(c, chunk) = Rows(B, c.base, 0, Minus(d, B[0]))
  BY DEF ChunkRows
<1> HIDE DEF B, d
<1>4. Minus(d, B[0]) = t /\ t \in Id
  BY <1>2, MinusFacts
<1>5. c.base \in Id /\ t \in Nat /\ 0 \in Nat /\ 0 <= t
  BY <1>4, Parameters DEF Placed
<1>6. Rows(B, c.base, 0, t) \in Seq(Id)
  BY <1>1, <1>5, RowsFacts
<1>7. QED
  BY <1>2, <1>3, <1>4, <1>6 DEF B, d

(* The rows of a chunk as the producer counts them are those of its place. *)
LEMMA RowsOfChunk ==
  ASSUME NEW chunk, GoodChunk(PlaceOfNext, chunk), vec.open \in BOOLEAN, vec.prev \in Id,
         vec.chunks \in Nat, ~vec.open => vec.chunks = 0
  PROVE  Placed(PlaceOfNext) /\ RowsOf(chunk) = ChunkRows(PlaceOfNext, chunk)
<1> DEFINE c == PlaceOfNext
           B == BoundariesOf(c, chunk)
           n == chunk.n
           t == chunk.data[n - 1] - B[0]
           f == [b \in 0..n |-> B[b]]
           R == [k \in 0..(n - 1) |-> Minus(Wrap(OFFSET + vec.chunks * IN_PAR + k), 1)]
           S(x) == {b \in 0..n : f[b] - f[0] <= x - 1}
<1>1. vec.chunks * IN_PAR \in Nat
  BY Parameters
<1>2. /\ c.open = vec.open /\ (vec.open => c.prev = vec.prev)
      /\ c.base = Wrap(vec.chunks * IN_PAR) /\ Placed(c)
  <2>1. CASE vec.open
    BY <1>1, <2>1, WrapFacts DEF PlaceOfNext, Placed
  <2>2. CASE ~vec.open
    <3>1. c = NoChunkBefore
      BY <2>2 DEF PlaceOfNext
    <3>2. vec.chunks * IN_PAR = 0
      <4>1. vec.chunks = 0 /\ 0 * IN_PAR = 0
        BY <2>2, Parameters
      <4>2. QED
        BY <4>1
    <3>3. Wrap(0) = 0
      BY WrapFacts, Parameters
    <3>4. QED
      BY <2>2, <3>1, <3>2, <3>3, Parameters DEF NoChunkBefore, Placed
  <2>3. QED
    BY <2>1, <2>2

<1>3. /\ B \in BoundaryIds /\ Sorted(B) /\ n \in 1..IN_PAR /\ chunk \in Chunk
      /\ B[0] = IF vec.open THEN vec.prev ELSE chunk.data[0]
      /\ \A b \in 1..n : B[b] = chunk.data[b - 1]
      /\ \A b \in Boundary : b > n => B[b] = Modulus - 1
  <2>1. chunk \in Chunk
    BY DEF GoodChunk
  <2>2. n \in 1..IN_PAR /\ 1..n \subseteq Boundary /\ 0 \in Boundary
    BY <2>1, ChunkFacts, Parameters DEF AnyChunk, Boundary
  <2>3. /\ B \in BoundaryIds /\ Sorted(B) /\ \A b \in Boundary : b > n => B[b] = Modulus - 1
    BY <1>2, ChunkBoundaries
  <2>4. /\ B[0] = IF c.open THEN c.prev ELSE chunk.data[0]
        /\ \A b \in 1..n : B[b] = chunk.data[b - 1]
    BY <2>2 DEF BoundariesOf
  <2> HIDE DEF c, B, n
  <2>5. QED
    BY <1>2, <2>1, <2>2, <2>3, <2>4
<1>4. /\ t \in Id /\ ChunkRows(c, chunk) = Rows(B, c.base, 0, t)
  BY <1>2, ChunkRowsFacts
<1> HIDE DEF c, B, R
<1>5. RowsOf(chunk) = FlattenSeq([k \in 1..n |-> Repeat(R[k - 1], f[k] - f[k - 1])])
  <2> DEFINE before(k) == IF k > 0 THEN chunk.data[k - 1]
                          ELSE IF vec.open THEN vec.prev ELSE chunk.data[0]
             row(k) == Minus(Wrap(OFFSET + vec.chunks * IN_PAR + k), 1)
  <2>1. ASSUME NEW k \in 1..n
        PROVE  R[k - 1] = row(k - 1) /\ f[k] = chunk.data[k - 1] /\ f[k - 1] = before(k - 1)
    <3>1. k - 1 \in 0..(n - 1) /\ k - 1 \in 0..n /\ k \in 0..n
      BY <1>3
    <3>2. R[k - 1] = row(k - 1)
      BY <3>1 DEF R
    <3>3. f[k] = chunk.data[k - 1]
      BY <1>3, <3>1
    <3>4. CASE k = 1
      <4>1. k - 1 = 0 /\ f[0] = B[0]
        BY <1>3, <3>4
      <4>2. QED
        BY <1>3, <3>2, <3>3, <4>1
    <3>5. CASE k # 1
      <4>1. k - 1 \in 1..n /\ k - 1 > 0
        BY <1>3, <3>5
      <4>2. QED
        BY <1>3, <3>1, <3>2, <3>3, <4>1
    <3>6. QED
      BY <3>4, <3>5
  <2> HIDE DEF before, row, f, n
  <2>2. [k \in 1..n |-> Repeat(R[k - 1], f[k] - f[k - 1])]
          = [k \in 1..n |-> Repeat(row(k - 1), chunk.data[k - 1] - before(k - 1))]
    BY <2>1
  <2>3. RowsOf(chunk)
          = FlattenSeq([k \in 1..n |-> Repeat(row(k - 1), chunk.data[k - 1] - before(k - 1))])
    BY DEF RowsOf, before, row, n
  <2>4. QED
    BY <2>2, <2>3
<1>6. /\ n \in Nat \ {0} /\ f \in [0..n -> Nat] /\ R \in [0..(n - 1) -> Id]
      /\ \A a, b \in 0..n : a <= b => f[a] <= f[b]
      /\ 0..n \subseteq Boundary /\ IN_PAR \in Nat
  <2>1. n \in Nat \ {0} /\ 0..n \subseteq Boundary /\ IN_PAR \in Nat
    BY <1>3, Parameters DEF Boundary
  <2>2. \A b \in 0..n : B[b] \in Nat
    BY <1>3, <2>1, Parameters DEF BoundaryIds
  <2>3. \A k \in 0..(n - 1) : Minus(Wrap(OFFSET + vec.chunks * IN_PAR + k), 1) \in Id
    <3> SUFFICES ASSUME NEW k \in 0..(n - 1)
                 PROVE  Minus(Wrap(OFFSET + vec.chunks * IN_PAR + k), 1) \in Id
      OBVIOUS
    <3>1. OFFSET + vec.chunks * IN_PAR + k \in Nat
      BY <1>1, Parameters
    <3>2. QED
      BY <3>1, WrapFacts, OneLess
  <2>4. R \in [0..(n - 1) -> Id]
    BY <2>3 DEF R
  <2>5. \A a, b \in 0..n : a <= b => B[a] <= B[b]
    BY <1>3, <2>1 DEF Sorted
  <2>6. QED
    BY <2>1, <2>2, <2>4, <2>5
<1>7. f[n] - f[0] = t /\ f[0] = B[0] /\ B[n] = chunk.data[n - 1]
  BY <1>3, <1>6
<1> HIDE DEF n
<1>8. FlattenSeq([k \in 1..n |-> Repeat(R[k - 1], f[k] - f[k - 1])])
        = [x \in 1..(f[n] - f[0]) |-> R[Max({b \in 0..n : f[b] - f[0] <= x - 1})]]
  <2> HIDE DEF f
  <2>1. QED
    BY ONLY <1>6, FlattenRuns
<1>9. ASSUME NEW x \in 1..t PROVE R[Max(S(x))] = RowAt(B, c.base, x - 1)
  <2>1. /\ x \in Nat /\ x - 1 \in Nat /\ x - 1 < t /\ t \in Nat /\ Modulus \in Nat
    BY <1>4, Parameters
  <2>2. \A b \in Boundary : /\ Minus(B[b], B[0]) = B[b] - B[0]
                            /\ b > n => ~(B[b] - B[0] <= x - 1)
    <3> SUFFICES ASSUME NEW b \in Boundary
                 PROVE  /\ Minus(B[b], B[0]) = B[b] - B[0]
                        /\ b > n => ~(B[b] - B[0] <= x - 1)
      OBVIOUS
    <3>1. B[b] \in Id /\ B[0] \in Id /\ B[n] \in Id /\ 0 \in Boundary /\ 0 <= b
      BY <1>3, <1>6, Parameters DEF BoundaryIds, Boundary
    <3>2. B[0] <= B[b]
      BY <1>3, <3>1 DEF Sorted
    <3>3. b > n => B[b] - B[0] >= t
      BY <1>3, <1>7, <3>1, Parameters
    <3>4. QED
      <4>1. Minus(B[b], B[0]) = B[b] - B[0]
        BY <3>1, <3>2, Difference
      <4>2. B[b] \in Nat /\ B[0] \in Nat
        BY <3>1, Parameters
      <4>3. b > n => ~(B[b] - B[0] <= x - 1)
        BY <2>1, <3>3, <4>2
      <4>4. QED
        BY <4>1, <4>3
  <2>3. S(x) = {b \in Boundary : Minus(B[b], B[0]) <= x - 1}
    <3>1. \A b \in 0..n : f[b] - f[0] = Minus(B[b], B[0])
      BY <1>6, <1>7, <2>2
    <3>2. \A b \in Boundary : Minus(B[b], B[0]) <= x - 1 => b \in 0..n
      BY <1>6, <2>2 DEF Boundary
    <3>3. QED
      BY <1>6, <3>1, <3>2
  <2>4. Max(S(x)) \in S(x)
    <3>1. c.base \in Id
      BY <1>2 DEF Placed
    <3>2. QED
      BY <1>3, <2>1, <2>3, <3>1, RowAtFacts
  <2>5. n \notin S(x)
    BY <1>4, <1>6, <1>7, <2>1
  <2> DEFINE m == Max(S(x))
  <2>6. m \in 0..(n - 1)
    <3>1. m \in 0..n /\ m # n
      BY <2>4, <2>5
    <3> HIDE DEF m
    <3>2. QED
      BY <1>6, <3>1
  <2> HIDE DEF m, S
  <2>7. R[m] = Minus(Wrap(OFFSET + vec.chunks * IN_PAR + m), 1)
    BY <2>6 DEF R
  <2>8. Wrap(c.base + (OFFSET + m)) = Wrap(vec.chunks * IN_PAR + (OFFSET + m))
    <3>1. OFFSET + m \in Nat
      BY <2>6, Parameters
    <3> DEFINE k == vec.chunks * IN_PAR
    <3> HIDE DEF k
    <3>2. k \in Nat /\ c.base = Wrap(k)
      BY <1>1, <1>2 DEF k
    <3>3. Wrap(Wrap(k) + (OFFSET + m)) = Wrap(k + (OFFSET + m))
      BY <3>1, <3>2, WrapFacts
    <3>4. QED
      BY <3>2, <3>3 DEF k
  <2>9. /\ c.base + (OFFSET + m) = c.base + OFFSET + m
        /\ vec.chunks * IN_PAR + (OFFSET + m) = OFFSET + vec.chunks * IN_PAR + m
    <3>1. c.base \in Nat /\ OFFSET \in Nat /\ m \in Nat
      BY <1>2, <2>6, Parameters DEF Placed
    <3> HIDE DEF t
    <3>2. QED
      BY <1>1, <3>1
  <2>10. RowAt(B, c.base, x - 1) = Minus(Wrap(c.base + OFFSET + m), 1)
    BY <2>3 DEF RowAt, m
  <2>11. QED
    BY <2>7, <2>8, <2>9, <2>10 DEF m
<1>10. Rows(B, c.base, 0, t) = [x \in 1..t |-> RowAt(B, c.base, x - 1)]
  <2>1. t \in Nat
    BY <1>4, Parameters
  <2> HIDE DEF t
  <2>2. t - 0 = t /\ \A x \in 1..t : 0 + x - 1 = x - 1
    BY <2>1
  <2>3. QED
    BY <2>2 DEF Rows
<1> HIDE DEF t
<1>11. [x \in 1..t |-> R[Max(S(x))]] = [x \in 1..t |-> RowAt(B, c.base, x - 1)]
  BY <1>9
<1>12. RowsOf(chunk) = ChunkRows(c, chunk)
  BY <1>4, <1>5, <1>7, <1>8, <1>10, <1>11
<1>13. QED
  BY <1>2, <1>12 DEF c

-----------------------------------------------------------------------------
(* Types of the words and of the rows they stand for.                      *)
LEMMA LaneCount ==
  ASSUME NEW w, w.last \in BOOLEAN, w.mask \in Lane
  PROVE  LanesOf(w) \in Nat /\ LanesOf(w) <= OUT_PAR
BY Parameters DEF LanesOf, Lane

LEMMA WordTypes0 ==
  ASSUME NEW w \in Word0
  PROVE  Relative(w) \in Word1 /\ Rows0(w) \in Seq(Id) /\ Len(Rows0(w)) = LanesOf(w)
         /\ \A x \in 1..LanesOf(w) : Rows0(w)[x] = RowAt(w.ids, w.offset, w.sofar + x - 1)
<1>1. /\ w.ids \in BoundaryIds /\ w.offset \in Id /\ w.sofar \in Id /\ w.sofar \in Nat
      /\ w.last \in BOOLEAN /\ w.mask \in Lane
  BY Parameters DEF Word0
<1>2. ASSUME NEW i \in Boundary
      PROVE  Minus(Minus(w.ids[i], w.ids[0]), w.sofar) \in Id
  <2>1. w.ids[i] \in Id /\ w.ids[0] \in Id
    BY <1>1, Parameters DEF BoundaryIds
  <2>2. Minus(w.ids[i], w.ids[0]) \in Id
    BY <2>1, MinusFacts
  <2>3. QED
    BY <1>1, <2>2, MinusFacts
<1>3. Relative(w) \in Word1
  BY <1>1, <1>2 DEF Relative, Word1, BoundaryIds
<1> DEFINE k == LanesOf(w)
           to == w.sofar + k
<1>4. k \in Nat
  BY <1>1, LaneCount
<1> HIDE DEF k
<1>5. to \in Nat /\ w.sofar <= to /\ to - w.sofar = k
  BY <1>1, <1>4
<1>6. Rows0(w) = Rows(w.ids, w.offset, w.sofar, to)
  BY DEF Rows0, k
<1> HIDE DEF to
<1>7. /\ Rows0(w) \in Seq(Id) /\ Len(Rows0(w)) = to - w.sofar
      /\ \A x \in 1..(to - w.sofar) : Rows0(w)[x] = RowAt(w.ids, w.offset, w.sofar + x - 1)
  <2>1. PICK ids \in BoundaryIds : ids = w.ids
    BY <1>1
  <2>2. PICK offset \in Id : offset = w.offset
    BY <1>1
  <2>3. PICK from \in Nat : from = w.sofar
    BY <1>1
  <2>4. from <= to /\ to \in Nat /\ Rows0(w) = Rows(ids, offset, from, to)
    BY <1>5, <1>6, <2>1, <2>2, <2>3
  <2>5. /\ Rows(ids, offset, from, to) \in Seq(Id)
        /\ Len(Rows(ids, offset, from, to)) = to - from
        /\ \A x \in 1..(to - from) :
              Rows(ids, offset, from, to)[x] = RowAt(ids, offset, from + x - 1)
    BY <2>4, RowsFacts
  <2>6. QED
    BY <2>1, <2>2, <2>3, <2>4, <2>5
<1>8. QED
  BY <1>3, <1>5, <1>7 DEF k

LEMMA WordTypes1 ==
  ASSUME NEW v \in Word1, NEW carry \in Id
  PROVE  /\ Lanes(v, carry) \in [Lane -> Id] /\ LastLane(v, carry) \in Id
         /\ Rows1(v, carry) \in Seq(Id) /\ Len(Rows1(v, carry)) = LanesOf(v)
         /\ \A x \in 1..LanesOf(v) : Rows1(v, carry)[x] = Lanes(v, carry)[x - 1]
<1>1. v.offset \in Nat /\ v.last \in BOOLEAN /\ v.mask \in Lane
  BY Parameters DEF Word1
<1>2. ASSUME NEW j \in Lane, At(v, j) # {}
      PROVE  Minus(Wrap(v.offset + OFFSET + Max(At(v, j))), 1) \in Id
  <2>1. At(v, j) \in SUBSET (0..IN_PAR) /\ IN_PAR \in Nat
    BY Parameters DEF At, Boundary
  <2>2. Max(At(v, j)) \in At(v, j)
    BY <1>2, <2>1, MaxFacts
  <2>3. Max(At(v, j)) \in Nat
    BY <2>1, <2>2
  <2>4. v.offset + OFFSET + Max(At(v, j)) \in Nat
    BY <1>1, <2>3, Parameters
  <2>5. QED
    BY <2>4, WrapFacts, OneLess
<1>3. Lanes(v, carry) \in [Lane -> Id]
  BY <1>2 DEF Lanes
<1> DEFINE k == LanesOf(v)
           f == [x \in 1..k |-> Lanes(v, carry)[x - 1]]
<1>4. k \in Nat /\ k <= OUT_PAR
  BY <1>1, LaneCount
<1> HIDE DEF k
<1>5. \A x \in 1..k : x - 1 \in Lane
  BY <1>4, Parameters DEF Lane
<1>6. f \in [1..k -> Id]
  BY <1>3, <1>5
<1>7. f \in Seq(Id) /\ Len(f) = k /\ \A x \in 1..k : f[x] = Lanes(v, carry)[x - 1]
  BY <1>4, <1>6, SeqOfFunction
<1>8. QED
  BY <1>3, <1>7, Parameters DEF k, Rows1, LastLane

LEMMA MinOfTwo ==
  ASSUME NEW a \in Nat, NEW b \in Nat
  PROVE  Min({a, b}) = IF a <= b THEN a ELSE b
<1>1. \E x \in {a, b} : \A y \in {a, b} : x <= y
  OBVIOUS
<1>2. Min({a, b}) \in {a, b} /\ \A y \in {a, b} : Min({a, b}) <= y
  BY <1>1 DEF Min
<1>3. QED
  BY <1>2

LEMMA DeliveredFacts ==
  ASSUME NEW r \in RowIds
  PROVE  /\ Delivered(r) \in Seq(Id)
         /\ OUT_PAR <= IN_PAR + 2 => Delivered(r) = [x \in 1..LanesOf(r) |-> r.ids[x - 1]]
<1>1. r.ids \in [Lane -> Id] /\ r.last \in BOOLEAN /\ r.mask \in Lane
  BY DEF RowIds
<1>2. r.mask \in Nat /\ r.mask < OUT_PAR /\ IN_PAR + 1 \in Nat
  BY <1>1, Parameters DEF Lane
<1> DEFINE k == IF r.last THEN Min({r.mask, IN_PAR + 1}) ELSE OUT_PAR
           f == [j \in 1..k |-> r.ids[j - 1]]
<1>3. Min({r.mask, IN_PAR + 1}) = IF r.mask <= IN_PAR + 1 THEN r.mask ELSE IN_PAR + 1
  BY <1>2, MinOfTwo
<1>4. k \in Nat /\ k <= OUT_PAR /\ (OUT_PAR <= IN_PAR + 2 => k = LanesOf(r))
  BY <1>2, <1>3, Parameters DEF LanesOf
<1>5. Delivered(r) = f
  BY DEF Delivered
<1> HIDE DEF k
<1>6. \A x \in 1..k : x - 1 \in Lane
  BY <1>4, Parameters DEF Lane
<1>7. f \in [1..k -> Id]
  BY <1>1, <1>6
<1>8. f \in Seq(Id)
  BY <1>4, <1>7, SeqOfFunction
<1>9. QED
  BY <1>4, <1>5, <1>8

(* What pipeline_1 delivers of a word is what it was to become.            *)
LEMMA Rows1IsRows0 ==
  ASSUME NEW w \in Word0, Good(w), NEW carry \in Id,
         w.sofar > 0 => carry = RowAt(w.ids, w.offset, w.sofar - 1)
  PROVE  Rows1(Relative(w), carry) = Rows0(w)
<1> DEFINE v == Relative(w)
           k == LanesOf(w)
<1>1. /\ v \in Word1 /\ Rows0(w) \in Seq(Id) /\ Len(Rows0(w)) = k
      /\ \A x \in 1..k : Rows0(w)[x] = RowAt(w.ids, w.offset, w.sofar + x - 1)
  BY WordTypes0
<1>2. LanesOf(v) = k
  BY DEF Relative, LanesOf
<1>3. k \in Nat /\ k <= OUT_PAR /\ w.sofar \in Nat
  BY LaneCount, Parameters DEF Word0
<1> HIDE DEF v, k
<1>4. /\ Rows1(v, carry) \in Seq(Id) /\ Len(Rows1(v, carry)) = k
      /\ \A x \in 1..k : Rows1(v, carry)[x] = Lanes(v, carry)[x - 1]
  BY <1>1, <1>2, WordTypes1
<1>5. ASSUME NEW x \in 1..k PROVE Rows1(v, carry)[x] = Rows0(w)[x]
  <2>1. x - 1 \in Lane /\ w.sofar + (x - 1) = w.sofar + x - 1
    BY <1>3, Parameters DEF Lane
  <2>2. Lanes(v, carry)[x - 1] = RowAt(w.ids, w.offset, w.sofar + (x - 1))
    BY <2>1, LanesAreRows DEF v
  <2>3. QED
    BY <1>1, <1>4, <2>1, <2>2
<1>6. QED
  BY <1>1, <1>4, <1>5, SeqEqual DEF v

-----------------------------------------------------------------------------
(* One stage at a clock edge: five ways to go from s to n, when the word d *)
(* is offered (v) and the stage behind is ready or not (r).                *)
Loads(s, n, v, d, r) ==
  /\ s.state = "PIPE" /\ (s.valid => r)
  /\ n = [state |-> "PIPE", data |-> d, spare |-> d, valid |-> v, ready |-> TRUE]
Fills(s, n, v, d, r) ==
  /\ s.state = "PIPE" /\ s.valid /\ s.ready /\ ~r /\ v
  /\ n = [state |-> "SKID", data |-> s.data, spare |-> d, valid |-> TRUE, ready |-> FALSE]
Waits(s, n, v, r) == s.state = "PIPE" /\ s.valid /\ s.ready /\ ~r /\ ~v /\ n = s
Drains(s, n, r) ==
  /\ s.state = "SKID" /\ s.valid /\ ~s.ready /\ r
  /\ n = [state |-> "PIPE", data |-> s.spare, spare |-> s.spare,
          valid |-> TRUE, ready |-> TRUE]
Stalls(s, n, r) == s.state = "SKID" /\ s.valid /\ ~s.ready /\ ~r /\ n = s

Moves(s, n, v, d, r) ==
  \/ Loads(s, n, v, d, r) \/ Fills(s, n, v, d, r) \/ Waits(s, n, v, r)
  \/ Drains(s, n, r) \/ Stalls(s, n, r)
GoodStage(n, Word) == n \in StageType(Word) /\ Shape(n) /\ ~Cold(n)

LEMMA StageSteps ==
  ASSUME NEW Word, NEW s \in StageType(Word), Shape(s), NEW v \in BOOLEAN, NEW d \in Word,
         NEW r \in BOOLEAN, NEW n, n = StageNext(s, v, d, r)
  PROVE  GoodStage(n, Word) /\ Moves(s, n, v, d, r)
<1> DEFINE rec(st, x, sp, va, rd) ==
             [state |-> st, data |-> x, spare |-> sp, valid |-> va, ready |-> rd]
           next == SkidNext(s, v, d, r)
<1>1. /\ s.state \in {"PIPE", "SKID"} /\ s.valid \in BOOLEAN /\ s.ready \in BOOLEAN
      /\ s.data \in Word /\ s.spare \in Word
      /\ s = rec(s.state, s.data, s.spare, s.valid, s.ready)
  BY DEF StageType
<1>2. /\ s.state = "SKID" => s.valid /\ ~s.ready
      /\ s.state = "PIPE" /\ s.valid => s.ready
      /\ s.state = "PIPE" => s.spare = s.data
  BY DEF Shape, SkidShape
<1>3. n = IF next.state = "PIPE" THEN [next EXCEPT !.spare = next.data] ELSE next
  BY DEF StageNext
<1>4. ASSUME NEW st \in {"PIPE", "SKID"}, NEW x \in Word, NEW sp \in Word,
             NEW va \in BOOLEAN, NEW rd \in BOOLEAN,
             n = rec(st, x, sp, va, rd), st = "SKID" => va /\ ~rd, st = "PIPE" => rd /\ sp = x
      PROVE  GoodStage(n, Word)
  BY <1>4 DEF GoodStage, StageType, Shape, SkidShape, Cold
<1>5. CASE s.state = "PIPE" /\ PipeReady(s, r)
  <2>1. next = rec("PIPE", d, s.spare, v, TRUE)
    BY <1>1, <1>5 DEF SkidNext
  <2> HIDE DEF next
  <2>2. n = rec("PIPE", d, d, v, TRUE)
    BY <1>3, <2>1
  <2>3. s.valid => r
    BY <1>5 DEF PipeReady
  <2>4. GoodStage(n, Word)
    BY <1>4, <2>2
  <2>5. QED
    BY <1>5, <2>2, <2>3, <2>4 DEF Moves, Loads
<1>6. CASE s.state = "PIPE" /\ ~PipeReady(s, r)
  <2>1. s.valid /\ ~r /\ s.ready
    BY <1>1, <1>2, <1>6 DEF PipeReady
  <2>2. CASE v
    <3>1. next = rec("SKID", s.data, d, TRUE, FALSE)
      BY <1>1, <1>6, <2>1, <2>2 DEF SkidNext
    <3> HIDE DEF next
    <3>2. n = rec("SKID", s.data, d, TRUE, FALSE)
      BY <1>3, <3>1
    <3>3. GoodStage(n, Word)
      BY <1>1, <1>4, <3>2
    <3>4. QED
      BY <1>6, <2>1, <2>2, <3>2, <3>3 DEF Moves, Fills
  <2>3. CASE ~v
    <3>1. next = s
      BY <1>6, <2>1, <2>3 DEF SkidNext
    <3>2. n = rec("PIPE", s.data, s.data, TRUE, TRUE) /\ n = s
      <4> HIDE DEF next
      <4>1. [s EXCEPT !.spare = s.data] = s
        BY <1>1, <1>2, <1>6
      <4>2. n = s
        BY <1>3, <1>6, <3>1, <4>1
      <4>3. s = rec("PIPE", s.data, s.data, TRUE, TRUE)
        BY <1>1, <1>2, <1>6, <2>1
      <4>4. QED
        BY <4>2, <4>3
    <3>3. GoodStage(n, Word)
      BY <1>1, <1>4, <3>2
    <3>4. QED
      BY <1>6, <2>1, <2>3, <3>2, <3>3 DEF Moves, Waits
  <2>4. QED
    BY <2>2, <2>3
<1>7. CASE s.state = "SKID"
  <2>1. s.valid /\ ~s.ready
    BY <1>2, <1>7
  <2>2. CASE r
    <3>1. next = rec("PIPE", s.spare, s.spare, TRUE, TRUE)
      BY <1>1, <1>7, <2>2 DEF SkidNext
    <3> HIDE DEF next
    <3>2. n = rec("PIPE", s.spare, s.spare, TRUE, TRUE)
      BY <1>3, <3>1
    <3>3. GoodStage(n, Word)
      BY <1>1, <1>4, <3>2
    <3>4. QED
      BY <1>7, <2>1, <2>2, <3>2, <3>3 DEF Moves, Drains
  <2>3. CASE ~r
    <3>1. next = s
      BY <1>7, <2>3 DEF SkidNext
    <3> HIDE DEF next
    <3>2. n = s
      BY <1>3, <1>7, <3>1
    <3>3. s = rec("SKID", s.data, s.spare, TRUE, FALSE)
      BY <1>1, <1>7, <2>1
    <3>4. GoodStage(n, Word)
      BY <1>1, <1>4, <3>2, <3>3
    <3>5. QED
      BY <1>7, <2>1, <2>3, <3>2, <3>4 DEF Moves, Stalls
  <2>4. QED
    BY <2>2, <2>3
<1>8. QED
  BY <1>1, <1>5, <1>6, <1>7

-----------------------------------------------------------------------------
(* Types along a step.                                                     *)
LEMMA StageFields ==
  ASSUME NEW Word, NEW s \in StageType(Word)
  PROVE  /\ s.state \in {"PIPE", "SKID"} /\ s.valid \in BOOLEAN /\ s.ready \in BOOLEAN
         /\ s.data \in Word /\ s.spare \in Word
BY DEF StageType

LEMMA NullWords ==
  /\ NoChunk \in AnyChunk /\ NoWord0 \in Word0 /\ NoWord1 \in Word1 /\ NoRowIds \in RowIds
  /\ NoTask \in Tasks /\ Zeros \in BoundaryIds
<1>1. Zeros \in BoundaryIds
  BY Parameters DEF Zeros, BoundaryIds
<1>2. NoChunk \in AnyChunk
  BY Parameters DEF NoChunk, AnyChunk
<1>3. NoWord0 \in Word0 /\ NoWord1 \in Word1 /\ NoTask \in Tasks
  BY <1>1, Parameters DEF NoWord0, Word0, NoWord1, Word1, NoTask, Tasks
<1>4. NoRowIds \in RowIds
  BY Parameters DEF NoRowIds, RowIds
<1>5. QED
  BY <1>1, <1>2, <1>3, <1>4

LEMMA RegisterTypes ==
  ASSUME Typed
  PROVE  /\ in_r.data \in AnyChunk /\ in_r.valid \in BOOLEAN /\ in_r.ready \in BOOLEAN
         /\ p0.data \in Word0 /\ p0.spare \in Word0 /\ p0.valid \in BOOLEAN
         /\ p0.ready \in BOOLEAN
         /\ p1.data \in Word1 /\ p1.spare \in Word1 /\ p1.valid \in BOOLEAN
         /\ p1.ready \in BOOLEAN
         /\ out_r.data \in RowIds /\ out_r.spare \in RowIds /\ out_r.valid \in BOOLEAN
         /\ out_r.ready \in BOOLEAN
         /\ ctl \in Controls /\ ctl.task \in Tasks /\ ctl.offset \in Id
         /\ ctl.last_offset \in Id /\ ctl.last \in BOOLEAN
<1>1. /\ in_r \in StageType(AnyChunk) /\ p0 \in StageType(Word0) /\ p1 \in StageType(Word1)
      /\ out_r \in StageType(RowIds) /\ ctl \in Controls
  BY DEF Typed
<1>2. /\ ctl.task \in Tasks /\ ctl.offset \in Id /\ ctl.last_offset \in Id
      /\ ctl.last \in BOOLEAN
  BY <1>1 DEF Controls
<1>3. QED
  BY <1>1, <1>2, StageFields

LEMMA ContextTypes ==
  ASSUME Typed
  PROVE  /\ Offset \in Id /\ LastOffset \in Id /\ Bias \in BiasState
<1>1. Offset \in Id
  <2>1. p0.data.offset \in Nat /\ p0.data.offset + IN_PAR \in Nat
    BY RegisterTypes, Parameters DEF Word0
  <2>2. Wrap(p0.data.offset + IN_PAR) \in Id
    BY <2>1, WrapFacts
  <2>3. QED
    BY <2>2, RegisterTypes, Parameters DEF Offset
<1>2. LastOffset \in Id
  <2>1. in_r.data.data[0] \in Id
    BY RegisterTypes, Parameters DEF AnyChunk
  <2>2. QED
    BY <2>1, RegisterTypes DEF LastOffset
<1>3. Bias \in BiasState
  BY RegisterTypes DEF Bias, Controls, BiasState
<1>4. QED
  BY <1>1, <1>2, <1>3

LEMMA TaskTypes ==
  ASSUME Typed, NEW chunk \in AnyChunk
  PROVE  /\ Task(chunk) \in Tasks
         /\ Task(chunk).ids = ChunkIds(chunk) /\ Task(chunk).total = Total(chunk)
         /\ Task(chunk).number * OUT_PAR + Task(chunk).mask = Total(chunk)
         /\ Total(chunk) - Task(chunk).mask + OUT_PAR <= Modulus
         /\ Total(chunk) = Minus(chunk.data[chunk.n - 1], LastOffset)
         /\ chunk.data[chunk.n - 1] \in Id
<1>1. /\ chunk.n \in 1..IN_PAR /\ chunk.n - 1 \in 0..(IN_PAR - 1) /\ IN_PAR \in Nat
      /\ \A i \in 0..(IN_PAR - 1) : chunk.data[i] \in Id
  BY Parameters DEF AnyChunk
<1>2. ChunkIds(chunk) \in BoundaryIds
  <2>1. ASSUME NEW i \in Boundary
        PROVE  (IF i = 0 THEN LastOffset
                ELSE IF i <= chunk.n THEN chunk.data[i - 1] ELSE Modulus - 1) \in Id
    <3>1. i # 0 => i - 1 \in 0..(IN_PAR - 1)
      BY <1>1 DEF Boundary
    <3>2. QED
      BY <1>1, <3>1, ContextTypes, Parameters
  <2>2. QED
    BY <2>1 DEF ChunkIds, BoundaryIds, Modulus
<1>3. Total(chunk) \in Id
  BY <1>1, ContextTypes, MinusFacts DEF Total
<1> DEFINE t == Total(chunk)
<1> HIDE DEF t
<1>4. /\ t \div OUT_PAR \in Id /\ t % OUT_PAR \in Lane
      /\ (t \div OUT_PAR) * OUT_PAR + (t % OUT_PAR) = t
      /\ t - (t % OUT_PAR) + OUT_PAR <= Modulus
  BY <1>3, SplitTotal DEF t
<1>5. Task(chunk) = [ids |-> ChunkIds(chunk), number |-> t \div OUT_PAR,
                     mask |-> t % OUT_PAR, total |-> t]
  BY DEF Task, FullWords, t
<1>6. Task(chunk) \in Tasks
  BY <1>2, <1>3, <1>4, <1>5 DEF Tasks, t
<1>7. QED
  BY <1>1, <1>4, <1>5, <1>6 DEF t, Total

LEMMA ToP0Type ==
  ASSUME Typed
  PROVE  ToP0 \in Word0 /\ ToP0.offset = Offset
<1>1. CASE ctl.state = "BUSY"
  <2>1. /\ ctl.task.ids \in BoundaryIds /\ ctl.task.mask \in Lane /\ ctl.task.total \in Id
        /\ ctl.task.number \in Nat /\ ctl.task.mask \in Nat /\ OUT_PAR \in Nat
    BY RegisterTypes, Parameters DEF Tasks
  <2>2. ctl.task.number * OUT_PAR + ctl.task.mask \in Nat
    <3>1. ctl.task.number * OUT_PAR \in Nat
      BY <2>1
    <3>2. QED
      BY <2>1, <3>1
  <2>3. Minus(ctl.task.total, Wrap(ctl.task.number * OUT_PAR + ctl.task.mask)) \in Id
    BY <2>1, <2>2, WrapFacts, MinusFacts
  <2>4. ChunkDone \in BOOLEAN
    BY DEF ChunkDone
  <2>5. QED
    BY <1>1, <2>1, <2>3, <2>4, ContextTypes DEF ToP0, Word0
<1>2. CASE ctl.state # "BUSY"
  <2>1. ToP0 = [NoWord0 EXCEPT !.offset = Offset]
    BY <1>2 DEF ToP0
  <2>2. QED
    BY <2>1, NullWords, ContextTypes DEF Word0
<1>3. QED
  BY <1>1, <1>2

LEMMA ToP1Type ==
  ASSUME Typed
  PROVE  ToP1 \in Word1 /\ (p0.valid => ToP1 = Relative(p0.data))
<1>1. p0.valid => ToP1 = Relative(p0.data)
  BY DEF ToP1, Relative
<1>2. Relative(p0.data) \in Word1
  BY RegisterTypes, WordTypes0
<1>3. QED
  BY <1>1, <1>2, NullWords DEF ToP1

LEMMA ToOutType ==
  ASSUME Typed, NEW beyond \in Beyond
  PROVE  /\ ToOut(beyond) \in RowIds /\ LanesOf(ToOut(beyond)) = LanesOf(p1.data)
         /\ Carried(beyond) \in Id
         /\ p1.valid /\ out_r.ready => ToOut(beyond).ids = Lanes(p1.data, Carried(beyond))
         /\ ~(p1.valid /\ out_r.ready) => ToOut(beyond).ids = out_r.data.ids
         /\ IN_PAR = OUT_PAR => Carried(beyond) = out_r.data.ids[OUT_PAR - 1]
<1>1. /\ p1.data \in Word1 /\ out_r.data.ids \in [Lane -> Id]
  BY RegisterTypes DEF RowIds
<1>2. Carried(beyond) \in Id
  <2>1. CASE IN_PAR <= OUT_PAR
    <3>1. IN_PAR - 1 \in Lane
      BY <2>1, Parameters DEF Lane
    <3>2. QED
      BY <1>1, <2>1, <3>1 DEF Carried
  <2>2. CASE ~(IN_PAR <= OUT_PAR)
    BY <2>2 DEF Carried, Beyond
  <2>3. QED
    BY <2>1, <2>2
<1>3. /\ p1.valid /\ out_r.ready => Payload(beyond) = Lanes(p1.data, Carried(beyond))
      /\ ~(p1.valid /\ out_r.ready) => Payload(beyond) = out_r.data.ids
  BY DEF Payload, Lanes, Reached, At
<1>4. Payload(beyond) \in [Lane -> Id]
  BY <1>1, <1>2, <1>3, WordTypes1
<1>5. ToOut(beyond) \in RowIds /\ ToOut(beyond).ids = Payload(beyond)
  BY <1>1, <1>4 DEF ToOut, RowIds, Word1
<1>6. LanesOf(ToOut(beyond)) = LanesOf(p1.data)
  BY DEF ToOut, LanesOf
<1>7. IN_PAR = OUT_PAR => Carried(beyond) = out_r.data.ids[OUT_PAR - 1]
  BY Parameters DEF Carried
<1>8. QED
  BY <1>2, <1>3, <1>5, <1>6, <1>7

(* The controller at a clock edge.                                         *)
LEMMA ControlSteps ==
  ASSUME Typed
  PROVE  /\ Controller \in Controls
         /\ Controller.bias = Bias /\ Controller.bias_latch = Bias
         /\ Controller.offset = Offset
         /\ Pop => /\ ctl.state = "IDLE" /\ Controller.state = "BUSY"
                   /\ Controller.last = in_r.data.last /\ Controller.task = Task(in_r.data)
         /\ ctl.state = "IDLE" /\ ~Pop =>
              Controller.state = "IDLE" /\ Controller.last_offset = LastOffset
         /\ ChunkDone => /\ ctl.state = "BUSY" /\ Controller.state = "IDLE"
                         /\ ~ctl.last => Controller.last_offset = ctl.task.ids[IN_PAR]
         /\ ctl.state = "BUSY" /\ ~ChunkDone =>
              /\ Controller.state = "BUSY" /\ Controller.last = ctl.last
              /\ Controller.task.ids = ctl.task.ids /\ Controller.task.mask = ctl.task.mask
              /\ Controller.task.total = ctl.task.total
              /\ WordTaken => ctl.task.number > 0
              /\ Controller.task.number = ctl.task.number - (IF WordTaken THEN 1 ELSE 0)
<1> DEFINE rec(st, la, lo, ta) ==
             [state |-> st, bias |-> Bias, bias_latch |-> Bias, last |-> la,
              last_offset |-> lo, task |-> ta, offset |-> Offset]
           next == [ctl EXCEPT !.bias = Bias, !.bias_latch = Bias, !.offset = Offset]
<1>1. /\ ctl = [state |-> ctl.state, bias |-> ctl.bias, bias_latch |-> ctl.bias_latch,
                last |-> ctl.last, last_offset |-> ctl.last_offset, task |-> ctl.task,
                offset |-> ctl.offset]
      /\ ctl.state \in {"IDLE", "BUSY"} /\ ctl.last \in BOOLEAN /\ ctl.last_offset \in Id
      /\ ctl.task \in Tasks
      /\ ctl.task = [ids |-> ctl.task.ids, number |-> ctl.task.number,
                     mask |-> ctl.task.mask, total |-> ctl.task.total]
      /\ ctl.task.ids \in BoundaryIds /\ ctl.task.number \in Id /\ ctl.task.mask \in Lane
      /\ ctl.task.total \in Id
  BY RegisterTypes DEF Controls, Tasks
<1>2. next = rec(ctl.state, ctl.last, ctl.last_offset, ctl.task)
  <2> DEFINE a == [ctl EXCEPT !.bias = Bias]
             b == [a EXCEPT !.bias_latch = Bias]
  <2>1. next = [b EXCEPT !.offset = Offset]
    OBVIOUS
  <2>2. a = [state |-> ctl.state, bias |-> Bias, bias_latch |-> ctl.bias_latch,
             last |-> ctl.last, last_offset |-> ctl.last_offset, task |-> ctl.task,
             offset |-> ctl.offset]
    BY <1>1
  <2> HIDE DEF a, next
  <2>3. b = [state |-> ctl.state, bias |-> Bias, bias_latch |-> Bias,
             last |-> ctl.last, last_offset |-> ctl.last_offset, task |-> ctl.task,
             offset |-> ctl.offset]
    BY <2>2
  <2> HIDE DEF b
  <2>4. QED
    BY <2>1, <2>3
<1>3. ASSUME NEW st \in {"IDLE", "BUSY"}, NEW la \in BOOLEAN, NEW lo \in Id, NEW ta \in Tasks
      PROVE  rec(st, la, lo, ta) \in Controls
  BY ContextTypes DEF Controls
<1>4. /\ Pop => ctl.state = "IDLE"
      /\ WordTaken => ctl.state = "BUSY"
      /\ ChunkDone => WordTaken /\ ctl.task.number = 0
      /\ WordTaken /\ ~ChunkDone => ctl.task.number # 0
  BY DEF Pop, FifoReady, WordTaken, ChunkDone
<1> HIDE DEF next
<1>5. CASE Pop
  <2>1. Controller = rec("BUSY", in_r.data.last, 0, Task(in_r.data))
    BY <1>2, <1>5 DEF Controller, next
  <2>2. in_r.data.last \in BOOLEAN /\ Task(in_r.data) \in Tasks /\ 0 \in Id
    BY RegisterTypes, TaskTypes, Parameters DEF AnyChunk
  <2>3. Controller \in Controls
    BY <1>3, <2>1, <2>2
  <2>4. QED
    BY <1>4, <1>5, <2>1, <2>3
<1>6. CASE ~Pop /\ ctl.state = "IDLE"
  <2>1. Controller = rec("IDLE", ctl.last, LastOffset, ctl.task)
    BY <1>2, <1>6 DEF Controller, next
  <2>2. Controller \in Controls
    BY <1>1, <1>3, <2>1, ContextTypes
  <2>3. QED
    BY <1>4, <1>6, <2>1, <2>2
<1>7. CASE ChunkDone
  <2>1. ~Pop /\ ctl.state = "BUSY"
    BY <1>4, <1>7
  <2> DEFINE lo == IF ctl.last THEN in_r.data.data[0] ELSE ctl.task.ids[IN_PAR]
  <2>2. Controller = rec("IDLE", ctl.last, lo, NoTask)
    BY <1>2, <1>7, <2>1 DEF Controller, next
  <2>3. lo \in Id /\ NoTask \in Tasks
    <3>1. in_r.data.data[0] \in Id
      BY RegisterTypes, Parameters DEF AnyChunk
    <3>2. ctl.task.ids[IN_PAR] \in Id
      BY <1>1, Parameters DEF BoundaryIds
    <3>3. QED
      BY <3>1, <3>2, NullWords
  <2>4. Controller \in Controls
    BY <1>1, <1>3, <2>2, <2>3
  <2>5. QED
    BY <1>4, <1>7, <2>1, <2>2, <2>4
<1>8. CASE ctl.state = "BUSY" /\ ~ChunkDone
  <2> DEFINE k == ctl.task.number - (IF WordTaken THEN 1 ELSE 0)
             ta == [ids |-> ctl.task.ids, number |-> k, mask |-> ctl.task.mask,
                    total |-> ctl.task.total]
  <2>1. ~Pop
    BY <1>4, <1>8
  <2>2. k \in Id /\ (WordTaken => ctl.task.number > 0)
    BY <1>1, <1>4, <1>8, Parameters
  <2>3. Controller = rec("BUSY", ctl.last, ctl.last_offset, ta)
    <3>1. CASE WordTaken
      <4>1. Controller = [next EXCEPT !.task.number = ctl.task.number - 1]
        BY <1>8, <2>1, <3>1 DEF Controller, next
      <4>2. Controller = rec("BUSY", ctl.last, ctl.last_offset,
                             [ctl.task EXCEPT !.number = ctl.task.number - 1])
        BY <1>2, <1>8, <4>1
      <4>3. [ctl.task EXCEPT !.number = ctl.task.number - 1] = ta
        BY <1>1, <3>1
      <4>4. QED
        BY <4>2, <4>3
    <3>2. CASE ~WordTaken
      <4>1. Controller = next
        BY <1>8, <2>1, <3>2 DEF Controller, next
      <4>2. k = ctl.task.number
        BY <1>1, <3>2, Parameters
      <4> HIDE DEF k
      <4>3. ctl.task = ta
        BY <1>1, <4>2
      <4>4. QED
        BY <1>2, <1>8, <4>1, <4>3
    <3>3. QED
      BY <3>1, <3>2
  <2> HIDE DEF k
  <2>4. ta \in Tasks
    BY <1>1, <2>2 DEF Tasks
  <2>5. Controller \in Controls
    BY <1>1, <1>3, <2>3, <2>4
  <2>6. QED
    BY <1>8, <2>1, <2>2, <2>3, <2>5 DEF k
<1>9. QED
  BY <1>1, <1>4, <1>5, <1>6, <1>7, <1>8

LEMMA AcceptedChunk ==
  ASSUME Typed, NEW chunk \in Chunk, Continues(chunk)
  PROVE  /\ GoodChunk(PlaceOfNext, chunk) /\ Placed(PlaceOfNext)
         /\ RowsOf(chunk) = ChunkRows(PlaceOfNext, chunk) /\ RowsOf(chunk) \in Seq(Id)
         /\ After(chunk).open \in BOOLEAN /\ After(chunk).prev \in Id
         /\ After(chunk).chunks \in Nat
         /\ ~After(chunk).open => After(chunk).chunks = 0
<1>1. /\ vec.open \in BOOLEAN /\ vec.prev \in Id /\ vec.chunks \in Nat
      /\ ~vec.open => vec.chunks = 0
  BY DEF Typed
<1>2. GoodChunk(PlaceOfNext, chunk)
  BY <1>1 DEF GoodChunk, PlaceOfNext, NoChunkBefore, Continues
<1>3. Placed(PlaceOfNext) /\ RowsOf(chunk) = ChunkRows(PlaceOfNext, chunk)
  BY <1>1, <1>2, RowsOfChunk
<1>4. RowsOf(chunk) \in Seq(Id)
  BY <1>2, <1>3, ChunkRowsFacts
<1>5. IN_PAR - 1 \in 0..(IN_PAR - 1) /\ 0 \in Id
  BY Parameters
<1>6. chunk.data[IN_PAR - 1] \in Id
  BY <1>5, ChunkFacts
<1>7. CASE chunk.last
  <2>1. After(chunk) = [open |-> FALSE, prev |-> 0, chunks |-> 0, sent |-> vec.sent + 1]
    BY <1>7 DEF After, Closed
  <2>2. QED
    BY <1>2, <1>3, <1>4, <1>5, <2>1
<1>8. CASE ~chunk.last
  <2>1. After(chunk) = [open |-> TRUE, prev |-> chunk.data[IN_PAR - 1],
                        chunks |-> vec.chunks + 1, sent |-> vec.sent + 1]
    BY <1>8 DEF After
  <2>2. QED
    BY <1>1, <1>2, <1>3, <1>4, <1>6, <2>1
<1>9. QED
  BY <1>7, <1>8

Busy == ctl.state = "BUSY"

(* The inputs of an edge: a chunk or none, and the consumer.               *)
Inputs(in_valid, chunk, out_ready) ==
  /\ in_valid \in BOOLEAN /\ out_ready \in BOOLEAN
  /\ IF in_valid THEN chunk \in Chunk ELSE chunk = NoChunk

LEMMA ClockStages ==
  ASSUME Typed, NEW in_valid, NEW chunk, NEW out_ready,
         Inputs(in_valid, chunk, out_ready), Clock(in_valid, chunk, out_ready)
  PROVE  /\ GoodStage(in_r', AnyChunk) /\ Moves(in_r, in_r', in_valid, chunk, FifoReady)
         /\ GoodStage(p0', Word0) /\ Moves(p0, p0', Busy, ToP0, p1.ready)
         /\ GoodStage(p1', Word1) /\ Moves(p1, p1', p0.valid, ToP1, out_r.ready)
         /\ GoodStage(out_r', RowIds)
         /\ \E beyond \in Beyond : Moves(out_r, out_r', p1.valid, ToOut(beyond), out_ready)
<1>1. /\ in_r \in StageType(AnyChunk) /\ p0 \in StageType(Word0) /\ p1 \in StageType(Word1)
      /\ out_r \in StageType(RowIds) /\ Shape(in_r) /\ Shape(p0) /\ Shape(p1) /\ Shape(out_r)
  BY DEF Typed
<1>2. /\ in_r'  = StageNext(in_r, in_valid, chunk, FifoReady)
      /\ p0'    = StageNext(p0, Busy, ToP0, p1.ready)
      /\ p1'    = StageNext(p1, p0.valid, ToP1, out_r.ready)
  BY DEF Clock, Busy
<1>3. PICK beyond \in Beyond : out_r' = StageNext(out_r, p1.valid, ToOut(beyond), out_ready)
  BY DEF Clock
<1>4. in_valid \in BOOLEAN /\ out_ready \in BOOLEAN /\ chunk \in AnyChunk
  BY ChunkFacts, NullWords DEF Inputs
<1>5. /\ FifoReady \in BOOLEAN /\ Busy \in BOOLEAN /\ p1.ready \in BOOLEAN
      /\ p0.valid \in BOOLEAN /\ p1.valid \in BOOLEAN /\ out_r.ready \in BOOLEAN
  BY RegisterTypes DEF FifoReady, Busy
<1>6. ToP0 \in Word0 /\ ToP1 \in Word1 /\ ToOut(beyond) \in RowIds
  BY ToP0Type, ToP1Type, ToOutType
<1>7. GoodStage(in_r', AnyChunk) /\ Moves(in_r, in_r', in_valid, chunk, FifoReady)
  BY <1>1, <1>2, <1>4, <1>5, StageSteps
<1>8. GoodStage(p0', Word0) /\ Moves(p0, p0', Busy, ToP0, p1.ready)
  BY <1>1, <1>2, <1>5, <1>6, StageSteps
<1>9. GoodStage(p1', Word1) /\ Moves(p1, p1', p0.valid, ToP1, out_r.ready)
  BY <1>1, <1>2, <1>5, <1>6, StageSteps
<1>10. GoodStage(out_r', RowIds) /\ Moves(out_r, out_r', p1.valid, ToOut(beyond), out_ready)
  BY <1>1, <1>3, <1>4, <1>5, <1>6, StageSteps
<1>11. QED
  BY <1>7, <1>8, <1>9, <1>10

LEMMA LeavingRows ==
  ASSUME Typed, NEW out_ready \in BOOLEAN,
         NEW leaving, leaving = IF out_r.valid /\ out_ready THEN Delivered(out_r.data) ELSE <<>>
  PROVE  leaving \in Seq(Id)
<1>1. Delivered(out_r.data) \in Seq(Id) /\ <<>> \in Seq(Id)
  BY RegisterTypes, DeliveredFacts
<1>2. QED
  BY <1>1

LEMMA ClockTypes ==
  ASSUME Typed, NEW in_valid, NEW chunk, NEW out_ready,
         Inputs(in_valid, chunk, out_ready), Clock(in_valid, chunk, out_ready)
  PROVE  Typed'
<1>1. /\ in_r' \in StageType(AnyChunk) /\ p0' \in StageType(Word0)
      /\ p1' \in StageType(Word1) /\ out_r' \in StageType(RowIds)
      /\ Shape(in_r') /\ Shape(p0') /\ Shape(p1') /\ Shape(out_r')
  BY ClockStages DEF GoodStage
<1>2. ctl' \in Controls
  BY ControlSteps DEF Clock
<1> DEFINE accepted == in_valid /\ in_r.ready
           leaving == IF out_r.valid /\ out_ready THEN Delivered(out_r.data) ELSE <<>>
           new == IF accepted THEN RowsOf(chunk) ELSE <<>>
<1>3. /\ vec' = IF accepted THEN After(chunk) ELSE vec
      /\ owed' = SubSeq(owed, Len(leaving) + 1, Len(owed)) \o new
      /\ row_word' = leaving
  BY DEF Clock
<1>4. accepted => chunk \in Chunk /\ Continues(chunk)
  BY DEF Clock, Inputs
<1>5. /\ vec.open \in BOOLEAN /\ vec.prev \in Id /\ vec.chunks \in Nat
      /\ ~vec.open => vec.chunks = 0
      /\ owed \in Seq(Id)
  BY DEF Typed
<1>6. /\ vec'.open \in BOOLEAN /\ vec'.prev \in Id /\ vec'.chunks \in Nat
      /\ ~vec'.open => vec'.chunks = 0
  <2>1. CASE accepted
    BY <1>3, <1>4, <2>1, AcceptedChunk
  <2>2. CASE ~accepted
    BY <1>3, <1>5, <2>2
  <2>3. QED
    BY <2>1, <2>2
<1>7. leaving \in Seq(Id)
  BY LeavingRows DEF Inputs
<1>8. new \in Seq(Id)
  BY <1>4, AcceptedChunk
<1> HIDE DEF accepted, leaving, new
<1>9. SubSeq(owed, Len(leaving) + 1, Len(owed)) \in Seq(Id)
  <2>1. Len(leaving) + 1 \in Nat /\ Len(leaving) + 1 >= 1 /\ Len(owed) \in Nat
    BY <1>5, <1>7
  <2>2. \A i \in (Len(leaving) + 1)..Len(owed) : owed[i] \in Id
    BY <1>5, <2>1
  <2>3. QED
    BY <2>1, <2>2, SubSeqProperties
<1>10. owed' \in Seq(Id) /\ row_word' \in Seq(Id)
  BY <1>3, <1>7, <1>8, <1>9
<1>11. QED
  BY <1>1, <1>2, <1>6, <1>10 DEF Typed

(* The registers a reset leaves.                                           *)
LEMMA ResetStage ==
  ASSUME NEW Word, NEW w \in Word
  PROVE  AfterReset(w, w) \in StageType(Word) /\ Shape(AfterReset(w, w))
         /\ Cold(AfterReset(w, w)) /\ ~AfterReset(w, w).valid
BY DEF AfterReset, StageType, Shape, SkidShape, Cold

LEMMA InitTypes ==
  ASSUME Init
  PROVE  Typed
<1>1. /\ in_r \in StageType(AnyChunk) /\ p0 \in StageType(Word0)
      /\ p1 \in StageType(Word1) /\ out_r \in StageType(RowIds)
      /\ Shape(in_r) /\ Shape(p0) /\ Shape(p1) /\ Shape(out_r)
  BY NullWords, ResetStage DEF Init
<1>2. ctl \in Controls
  BY NullWords, Parameters DEF Init, Controls, BiasState
<1>3. owed \in Seq(Id) /\ row_word \in Seq(Id)
  BY DEF Init
<1>4. /\ vec.open \in BOOLEAN /\ vec.prev \in Id /\ vec.chunks \in Nat
      /\ ~vec.open => vec.chunks = 0
  BY Parameters DEF Init, Closed
<1>5. QED
  BY <1>1, <1>2, <1>3, <1>4 DEF Typed

LEMMA ResetTypes ==
  ASSUME Typed, Reset
  PROVE  Typed'
<1>1. /\ in_r' \in StageType(AnyChunk) /\ p0' \in StageType(Word0)
      /\ p1' \in StageType(Word1) /\ out_r' \in StageType(RowIds)
      /\ Shape(in_r') /\ Shape(p0') /\ Shape(p1') /\ Shape(out_r')
  BY NullWords, RegisterTypes, ResetStage DEF Reset
<1>2. ctl' \in Controls
  <2>1. ctl' = [ctl EXCEPT !.state = "IDLE", !.bias = "BIAS_0", !.last = FALSE,
                           !.task = NoTask, !.bias_latch = Bias, !.offset = Offset]
    BY DEF Reset
  <2>2. NoTask \in Tasks /\ Bias \in BiasState /\ Offset \in Id /\ "BIAS_0" \in BiasState
    BY NullWords, ContextTypes DEF BiasState
  <2>3. ctl \in Controls
    BY RegisterTypes
  <2> DEFINE a == [ctl EXCEPT !.state = "IDLE"]
             b == [a EXCEPT !.bias = "BIAS_0"]
             c == [b EXCEPT !.last = FALSE]
             d == [c EXCEPT !.task = NoTask]
             e == [d EXCEPT !.bias_latch = Bias]
  <2>4. ctl' = [e EXCEPT !.offset = Offset]
    BY <2>1
  <2>5. a \in Controls
    BY <2>3 DEF Controls
  <2> HIDE DEF a
  <2>6. b \in Controls
    BY <2>2, <2>5 DEF Controls
  <2> HIDE DEF b
  <2>7. c \in Controls
    BY <2>6 DEF Controls
  <2> HIDE DEF c
  <2>8. d \in Controls
    BY <2>2, <2>7 DEF Controls
  <2> HIDE DEF d
  <2>9. e \in Controls
    BY <2>2, <2>8 DEF Controls
  <2> HIDE DEF e
  <2>10. QED
    BY <2>2, <2>4, <2>9 DEF Controls
<1>3. owed' \in Seq(Id) /\ row_word' \in Seq(Id)
  BY DEF Reset
<1>4. /\ vec'.open \in BOOLEAN /\ vec'.prev \in Id /\ vec'.chunks \in Nat
      /\ ~vec'.open => vec'.chunks = 0
  BY Parameters DEF Reset, Closed
<1>5. QED
  BY <1>1, <1>2, <1>3, <1>4 DEF Typed

LEMMA NextInputs ==
  ASSUME Next
  PROVE  \/ Reset
         \/ \E in_valid, chunk, out_ready :
              Inputs(in_valid, chunk, out_ready) /\ Clock(in_valid, chunk, out_ready)
<1>1. CASE Reset
  BY <1>1
<1>2. CASE \E out_ready \in BOOLEAN : Clock(FALSE, NoChunk, out_ready)
  <2>1. PICK out_ready \in BOOLEAN : Clock(FALSE, NoChunk, out_ready)
    BY <1>2
  <2>2. Inputs(FALSE, NoChunk, out_ready)
    BY DEF Inputs
  <2>3. QED
    BY <2>1, <2>2
<1>3. CASE \E out_ready \in BOOLEAN : \E chunk \in Chunk : Clock(TRUE, chunk, out_ready)
  <2>1. PICK out_ready \in BOOLEAN : \E chunk \in Chunk : Clock(TRUE, chunk, out_ready)
    BY <1>3
  <2>2. PICK chunk \in Chunk : Clock(TRUE, chunk, out_ready)
    BY <2>1
  <2>3. Inputs(TRUE, chunk, out_ready)
    BY DEF Inputs
  <2>4. QED
    BY <2>2, <2>3
<1>4. QED
  BY <1>1, <1>2, <1>3 DEF Next

LEMMA TypedInvariant == Typed /\ [Next]_vars => Typed'
<1> SUFFICES ASSUME Typed, [Next]_vars PROVE Typed'
  OBVIOUS
<1>1. CASE Reset
  BY <1>1, ResetTypes
<1>2. CASE \E in_valid, chunk, out_ready :
             Inputs(in_valid, chunk, out_ready) /\ Clock(in_valid, chunk, out_ready)
  <2>1. PICK in_valid, chunk, out_ready :
               Inputs(in_valid, chunk, out_ready) /\ Clock(in_valid, chunk, out_ready)
    BY <1>2
  <2>2. QED
    BY <2>1, ClockTypes
<1>3. CASE UNCHANGED vars
  BY <1>3 DEF vars, Typed
<1>4. QED
  BY <1>1, <1>2, <1>3, NextInputs

LEMMA TypedImpliesTypeOK == Typed => TypeOK
<1> SUFFICES ASSUME Typed PROVE TypeOK
  OBVIOUS
<1>1. /\ ctl.state \in {"IDLE", "BUSY"}
      /\ ctl.bias \in BiasState /\ ctl.bias_latch \in BiasState
      /\ ctl.task.ids \in BoundaryIds /\ ctl.task.mask \in Lane
      /\ ctl.task.number \in Id /\ ctl.task.total \in Id
      /\ ctl.offset \in Id /\ ctl.last_offset \in Id
  BY RegisterTypes DEF Controls, Tasks
<1>2. /\ p0.data.ids \in BoundaryIds /\ p1.data.subs \in BoundaryIds
      /\ out_r.data.ids \in [Lane -> Id]
  BY RegisterTypes DEF Word0, Word1, RowIds
<1>3. \A s \in {in_r, p0, p1, out_r} : SkidShape(s)
  BY DEF Typed, Shape
<1>4. owed \in Seq(Id) /\ row_word \in Seq(Id)
  BY DEF Typed
<1>5. QED
  BY <1>1, <1>2, <1>3, <1>4 DEF TypeOK, BiasState, BoundaryIds

(* The registers keep their types and the four skid buffers their shape,   *)
(* for every width, every vector, and resets and stalls anywhere.          *)
THEOREM DecoderTypeCorrect == Spec => []TypeOK
<1>1. Init => Typed
  BY InitTypes
<1>2. QED
  BY <1>1, TypedInvariant, TypedImpliesTypeOK, PTL DEF Spec

-----------------------------------------------------------------------------
(* What passes from stage to stage at an edge, when the producer does not  *)
(* stall inside a vector, no reset falls into one and the mask of a chunk, *)
(* IN_PAR + 1 bits, has one for every lane of a partly filled word.        *)
Gapless == ~UpstreamStalls /\ ~ResetAnywhere /\ OUT_PAR <= IN_PAR + 2

When(b, s) == IF b THEN s ELSE <<>>
PassesOut(out_ready) == out_r.valid /\ out_ready
Passes1 == p1.valid /\ out_r.ready
Passes0 == p0.valid /\ p1.ready

LEMMA Nothing ==
  /\ <<>> \in Seq(Id) /\ \A s \in Seq(Id) : <<>> \o s = s /\ s \o <<>> = s
  /\ \A s \in Seq(Id) : \A b : When(b, s) \in Seq(Id)
<1>1. <<>> \in Seq(Id) /\ \A s \in Seq(Id) : <<>> \o s = s /\ s \o <<>> = s
  BY ConcatEmptySeq
<1>2. QED
  BY <1>1 DEF When

LEMMA ContentTypes ==
  ASSUME Typed
  PROVE  /\ Head0 \in Seq(Id) /\ Tail0 \in Seq(Id)
         /\ \A c \in Id : /\ Head1(p1, c) \in Seq(Id) /\ Tail1(p1, c) \in Seq(Id)
                          /\ Carry1(p1, c) \in Id /\ Carry2(p1, c) \in Id
                          /\ LastLane(p1.data, c) \in Id
<1>1. ASSUME NEW c \in Id
      PROVE  /\ Head1(p1, c) \in Seq(Id) /\ Tail1(p1, c) \in Seq(Id)
             /\ Carry1(p1, c) \in Id /\ Carry2(p1, c) \in Id /\ LastLane(p1.data, c) \in Id
  <2>1. LastLane(p1.data, c) \in Id /\ Rows1(p1.data, c) \in Seq(Id)
    BY RegisterTypes, WordTypes1
  <2>2. Carry1(p1, c) \in Id
    BY <2>1 DEF Carry1
  <2>3. LastLane(p1.spare, Carry1(p1, c)) \in Id /\ Rows1(p1.spare, Carry1(p1, c)) \in Seq(Id)
    BY <2>2, RegisterTypes, WordTypes1
  <2>4. QED
    BY <2>1, <2>2, <2>3, Nothing DEF Head1, Tail1, Carry2
<1>2. Rows0(p0.data) \in Seq(Id) /\ Rows0(p0.spare) \in Seq(Id)
  BY RegisterTypes, WordTypes0
<1>3. QED
  BY <1>1, <1>2, Nothing DEF Head0, Tail0

(* Into row_ids.  The lanes of a word that no boundary of it has reached   *)
(* come first and belong to one row, so whatever the code carries into     *)
(* them, the rows that begin in the word are in their places.              *)
LEMMA ShowsHead1 ==
  ASSUME Typed, Passes1, NEW beyond \in Beyond, NEW c \in Id,
         IN_PAR = OUT_PAR => c = out_r.spare.ids[OUT_PAR - 1]
  PROVE  /\ Shows(ToOut(beyond), Head1(p1, c))
         /\ IN_PAR = OUT_PAR => ToOut(beyond).ids[OUT_PAR - 1] = LastLane(p1.data, c)
<1> DEFINE e == Carried(beyond)
           w == p1.data
           k == LanesOf(w)
           o == Head1(p1, c)
<1>1. /\ e \in Id /\ ToOut(beyond).ids = Lanes(w, e) /\ LanesOf(ToOut(beyond)) = k
      /\ IN_PAR = OUT_PAR => e = out_r.data.ids[OUT_PAR - 1]
  BY ToOutType DEF Passes1
<1>2. out_r.data = out_r.spare
  BY DEF Passes1, Typed, Shape, SkidShape, StageType
<1>3. IN_PAR = OUT_PAR => e = c
  BY <1>1, <1>2
<1>4. w \in Word1 /\ o = Rows1(w, c)
  BY RegisterTypes DEF Head1, Passes1
<1>5. k \in Nat /\ k <= OUT_PAR
  BY <1>4, LaneCount DEF Word1
<1> HIDE DEF e, w, k, o
<1>6. Len(o) = k /\ \A x \in 1..k : o[x] = Lanes(w, c)[x - 1]
  BY <1>4, WordTypes1 DEF k
<1>7. ASSUME NEW x \in 1..k, o[x] # o[1] \/ IN_PAR = OUT_PAR
      PROVE  Lanes(w, e)[x - 1] = o[x]
  <2>1. x - 1 \in Lane /\ 1 \in 1..k /\ 0 \in Lane /\ 0 <= x - 1
    BY <1>5, Parameters DEF Lane
  <2>2. CASE IN_PAR = OUT_PAR
    BY <1>3, <1>6, <2>2
  <2>3. CASE At(w, x - 1) # {}
    BY <1>6, <2>1, <2>3 DEF Lanes
  <2>4. CASE At(w, x - 1) = {} /\ o[x] # o[1]
    <3>1. At(w, 0) \subseteq At(w, x - 1)
      <4>1. \A b \in Boundary : w.subs[b] \in Nat
        BY <1>4, Parameters DEF Word1, BoundaryIds
      <4>2. QED
        BY <2>1, <4>1 DEF At
    <3>2. Lanes(w, c)[0] = c /\ Lanes(w, c)[x - 1] = c
      BY <2>1, <2>4, <3>1 DEF Lanes
    <3>3. 1 - 1 = 0
      OBVIOUS
    <3>4. QED
      BY <1>6, <2>1, <2>4, <3>2, <3>3
  <2>5. QED
    BY <1>7, <2>2, <2>3, <2>4
<1>8. QED
  BY <1>1, <1>3, <1>6, <1>7 DEF Shows, LastLane, w, o

(* The rows of row_ids and its spare after an edge, n1 and n2: the ones of *)
(* before, less those that left, then those of the word that came in.      *)
OutOnward(d, c, o1, o2, out_ready) ==
  \E n1, n2, rest \in Seq(Id) :
    /\ Owing(out_r', d, n1, n2)
    /\ o1 \o o2 = When(PassesOut(out_ready), o1) \o rest
    /\ n1 \o n2 = rest \o When(Passes1, Head1(p1, c))

LEMMA OutMoves ==
  ASSUME Typed, ~(Cold(out_r) /\ p1.valid), NEW out_ready \in BOOLEAN, NEW beyond \in Beyond,
         NEW c, NEW o1, NEW o2, Owing(out_r, c, o1, o2),
         GoodStage(out_r', RowIds), Moves(out_r, out_r', p1.valid, ToOut(beyond), out_ready)
  PROVE  OutOnward(IF Passes1 THEN LastLane(p1.data, c) ELSE c, c, o1, o2, out_ready)
<1> DEFINE h == Head1(p1, c)
           d == IF Passes1 THEN LastLane(p1.data, c) ELSE c
           new == ToOut(beyond)
<1>1. /\ c \in Id /\ o1 \in Seq(Id) /\ o2 \in Seq(Id)
      /\ IF out_r.valid THEN Shows(out_r.data, o1) ELSE o1 = <<>>
      /\ IF out_r.state = "SKID" THEN Shows(out_r.spare, o2) ELSE o2 = <<>>
      /\ IN_PAR = OUT_PAR => c = out_r.spare.ids[OUT_PAR - 1]
  BY DEF Owing
<1>2. /\ h \in Seq(Id) /\ d \in Id
      /\ out_r.valid \in BOOLEAN /\ out_r.ready \in BOOLEAN /\ p1.valid \in BOOLEAN
  BY <1>1, ContentTypes, RegisterTypes
<1>3. Passes1 => Shows(new, h) /\ (IN_PAR = OUT_PAR => new.ids[OUT_PAR - 1] = d)
  BY <1>1, ShowsHead1
<1>4. ~Passes1 => new.ids = out_r.data.ids /\ d = c
  BY ToOutType DEF Passes1
<1>5. out_r.state = "PIPE" => out_r.spare = out_r.data
  BY DEF Typed, Shape
<1> DEFINE Gives(m1, m2, rest) ==
             /\ IF out_r'.valid THEN Shows(out_r'.data, m1) ELSE m1 = <<>>
             /\ IF out_r'.state = "SKID" THEN Shows(out_r'.spare, m2) ELSE m2 = <<>>
             /\ IN_PAR = OUT_PAR => d = out_r'.spare.ids[OUT_PAR - 1]
             /\ o1 \o o2 = When(PassesOut(out_ready), o1) \o rest
             /\ m1 \o m2 = rest \o When(Passes1, h)
           Goal == \E n1, n2, rest \in Seq(Id) :
                     /\ Owing(out_r', d, n1, n2)
                     /\ o1 \o o2 = When(PassesOut(out_ready), o1) \o rest
                     /\ n1 \o n2 = rest \o When(Passes1, h)
<1> SUFFICES Goal
  BY DEF OutOnward
<1>6. \A m1, m2, rest \in Seq(Id) : Gives(m1, m2, rest) => Goal
  <2> SUFFICES ASSUME NEW m1 \in Seq(Id), NEW m2 \in Seq(Id), NEW rest \in Seq(Id),
                      Gives(m1, m2, rest)
               PROVE  Goal
    OBVIOUS
  <2>1. Owing(out_r', d, m1, m2)
    BY <1>2 DEF Owing
  <2>2. QED
    BY <2>1
<1> HIDE DEF h, d, new, Gives, Goal
<1>7. CASE Loads(out_r, out_r', p1.valid, new, out_ready)
  <2>1. /\ out_r.state = "PIPE" /\ (out_r.valid => out_ready) /\ out_r'.state = "PIPE"
        /\ out_r'.data = new /\ out_r'.spare = new /\ out_r'.valid = p1.valid
    BY <1>7 DEF Loads
  <2>2. p1.valid <=> Passes1
    BY <1>2, <2>1 DEF Passes1, Cold
  <2>3. o2 = <<>> /\ o1 = When(PassesOut(out_ready), o1)
    BY <1>1, <2>1 DEF When, PassesOut
  <2>4. IF out_r'.valid THEN Shows(out_r'.data, When(Passes1, h)) ELSE When(Passes1, h) = <<>>
    BY <1>3, <2>1, <2>2 DEF When
  <2>5. IN_PAR = OUT_PAR => d = out_r'.spare.ids[OUT_PAR - 1]
    BY <1>1, <1>3, <1>4, <1>5, <2>1
  <2>6. When(Passes1, h) \in Seq(Id) /\ <<>> \in Seq(Id)
    BY <1>2, Nothing
  <2>7. /\ o1 \o o2 = When(PassesOut(out_ready), o1) \o <<>>
        /\ When(Passes1, h) \o <<>> = <<>> \o When(Passes1, h)
    BY <1>1, <2>3, <2>6, Nothing
  <2>8. out_r'.state # "SKID"
    BY <2>1
  <2>9. Gives(When(Passes1, h), <<>>, <<>>)
    BY <2>4, <2>5, <2>7, <2>8 DEF Gives
  <2>10. QED
    BY <1>6, <2>6, <2>9
<1>8. CASE Fills(out_r, out_r', p1.valid, new, out_ready)
  <2>1. /\ out_r.state = "PIPE" /\ out_r.valid /\ out_r.ready /\ ~out_ready /\ p1.valid
        /\ out_r'.state = "SKID" /\ out_r'.data = out_r.data /\ out_r'.spare = new
        /\ out_r'.valid
    BY <1>8 DEF Fills
  <2>2. Passes1 /\ ~PassesOut(out_ready)
    BY <2>1 DEF Passes1, PassesOut
  <2>3. o2 = <<>> /\ Shows(out_r'.data, o1) /\ Shows(out_r'.spare, h)
    BY <1>1, <1>3, <2>1, <2>2
  <2>4. IN_PAR = OUT_PAR => d = out_r'.spare.ids[OUT_PAR - 1]
    BY <1>3, <2>1, <2>2
  <2>5. /\ o1 \o o2 = When(PassesOut(out_ready), o1) \o o1
        /\ o1 \o h = o1 \o When(Passes1, h)
    BY <1>1, <2>2, <2>3, Nothing DEF When
  <2>6. Gives(o1, h, o1)
    BY <2>1, <2>3, <2>4, <2>5 DEF Gives
  <2>7. QED
    BY <1>1, <1>2, <1>6, <2>6
<1>9. CASE Waits(out_r, out_r', p1.valid, out_ready) \/ Stalls(out_r, out_r', out_ready)
  <2>1. out_r' = out_r /\ (~p1.valid \/ ~out_r.ready) /\ ~out_ready
    BY <1>9 DEF Waits, Stalls
  <2>2. ~Passes1 /\ ~PassesOut(out_ready)
    BY <2>1 DEF Passes1, PassesOut
  <2>3. IN_PAR = OUT_PAR => d = out_r'.spare.ids[OUT_PAR - 1]
    BY <1>1, <1>4, <2>1, <2>2
  <2>4. o1 \o o2 \in Seq(Id)
    BY <1>1
  <2>5. o1 \o o2 = <<>> \o (o1 \o o2) /\ o1 \o o2 = (o1 \o o2) \o <<>>
    BY <2>4, Nothing
  <2>6. When(PassesOut(out_ready), o1) = <<>> /\ When(Passes1, h) = <<>>
    BY <2>2 DEF When
  <2>7. /\ IF out_r'.valid THEN Shows(out_r'.data, o1) ELSE o1 = <<>>
        /\ IF out_r'.state = "SKID" THEN Shows(out_r'.spare, o2) ELSE o2 = <<>>
    BY <1>1, <2>1
  <2>8. /\ o1 \o o2 = When(PassesOut(out_ready), o1) \o (o1 \o o2)
        /\ o1 \o o2 = (o1 \o o2) \o When(Passes1, h)
    BY <2>5, <2>6
  <2>9. Gives(o1, o2, o1 \o o2)
    BY <2>3, <2>7, <2>8 DEF Gives
  <2>10. QED
    BY <1>1, <1>6, <2>4, <2>9
<1>10. CASE Drains(out_r, out_r', out_ready)
  <2>1. /\ out_r.state = "SKID" /\ out_r.valid /\ ~out_r.ready /\ out_ready
        /\ out_r'.state = "PIPE" /\ out_r'.data = out_r.spare /\ out_r'.spare = out_r.spare
        /\ out_r'.valid
    BY <1>10 DEF Drains
  <2>2. ~Passes1 /\ PassesOut(out_ready)
    BY <2>1 DEF Passes1, PassesOut
  <2>3. Shows(out_r'.data, o2) /\ (IN_PAR = OUT_PAR => d = out_r'.spare.ids[OUT_PAR - 1])
    BY <1>1, <1>4, <2>1, <2>2
  <2>4. /\ o1 \o o2 = When(PassesOut(out_ready), o1) \o o2
        /\ o2 \o <<>> = o2 \o When(Passes1, h)
    BY <2>2 DEF When
  <2>5. out_r'.state # "SKID" /\ <<>> \in Seq(Id)
    BY <2>1, Nothing
  <2>6. Gives(o2, <<>>, o2)
    BY <2>1, <2>3, <2>4, <2>5 DEF Gives
  <2>7. QED
    BY <1>1, <1>6, <2>5, <2>6
<1>11. QED
  BY <1>7, <1>8, <1>9, <1>10 DEF Moves, new

(* Into pipeline_1.                                                        *)
LEMMA BecomesHead0 ==
  ASSUME Typed, NEW c \in Id, Pending0(p0, c), p0.valid
  PROVE  ToP1 = Relative(p0.data) /\ Rows1(ToP1, c) = Head0
<1>1. ToP1 = Relative(p0.data) /\ p0.data \in Word0
  BY ToP1Type, RegisterTypes
<1>2. /\ Good(p0.data)
      /\ p0.data.sofar > 0 => c = RowAt(p0.data.ids, p0.data.offset, p0.data.sofar - 1)
  BY DEF Pending0
<1>3. Rows1(Relative(p0.data), c) = Rows0(p0.data)
  BY <1>1, <1>2, Rows1IsRows0
<1>4. QED
  BY <1>1, <1>3 DEF Head0

LEMMA Pipe1Moves ==
  ASSUME Typed, NEW c \in Id, Pending0(p0, Carry2(p1, c)), ~(Cold(p1) /\ p0.valid),
         GoodStage(p1', Word1), Moves(p1, p1', p0.valid, ToP1, out_r.ready),
         NEW d \in Id, d = IF Passes1 THEN LastLane(p1.data, c) ELSE c
  PROVE  /\ Carry2(p1', d) = IF Passes0 THEN LastLane(Relative(p0.data), Carry2(p1, c))
                             ELSE Carry2(p1, c)
         /\ \E rest \in Seq(Id) :
              /\ Head1(p1, c) \o Tail1(p1, c) = When(Passes1, Head1(p1, c)) \o rest
              /\ Head1(p1', d) \o Tail1(p1', d) = rest \o When(Passes0, Head0)
<1> DEFINE h == Head1(p1, c)
           t == Tail1(p1, c)
           k == Carry1(p1, c)
           l == Carry2(p1, c)
           hn == Head1(p1', d)
           tn == Tail1(p1', d)
           kn == Carry1(p1', d)
           ln == Carry2(p1', d)
           next == LastLane(Relative(p0.data), l)
<1>1. /\ h \in Seq(Id) /\ t \in Seq(Id) /\ Head0 \in Seq(Id) /\ l \in Id
      /\ p1.valid \in BOOLEAN /\ p1.ready \in BOOLEAN /\ p0.valid \in BOOLEAN
      /\ out_r.ready \in BOOLEAN
  BY ContentTypes, RegisterTypes
<1>2. /\ hn = When(p1'.valid, Rows1(p1'.data, d))
      /\ kn = IF p1'.valid THEN LastLane(p1'.data, d) ELSE d
      /\ tn = When(p1'.state = "SKID", Rows1(p1'.spare, kn))
      /\ ln = IF p1'.state = "SKID" THEN LastLane(p1'.spare, kn) ELSE kn
      /\ h = When(p1.valid, Rows1(p1.data, c))
      /\ k = IF p1.valid THEN LastLane(p1.data, c) ELSE c
      /\ t = When(p1.state = "SKID", Rows1(p1.spare, k))
      /\ l = IF p1.state = "SKID" THEN LastLane(p1.spare, k) ELSE k
  BY DEF Carry1, Carry2, Head1, Tail1, When
<1>3. d = IF Passes1 THEN LastLane(p1.data, c) ELSE c
  OBVIOUS
<1>4. p0.valid => ToP1 = Relative(p0.data) /\ Rows1(ToP1, l) = Head0
  BY <1>1, BecomesHead0
<1>5. p0.valid => LastLane(ToP1, l) = next
  BY <1>4
<1> HIDE DEF h, t, k, l, hn, tn, kn, ln, next
<1>6. CASE Loads(p1, p1', p0.valid, ToP1, out_r.ready)
  <2>1. /\ p1.state = "PIPE" /\ (p1.valid => out_r.ready) /\ p1'.state = "PIPE"
        /\ p1'.data = ToP1 /\ p1'.valid = p0.valid
    BY <1>6 DEF Loads
  <2>2. (p1.valid <=> Passes1) /\ (p0.valid <=> Passes0)
    BY <1>1, <2>1 DEF Passes1, Passes0, Cold
  <2>3. d = l /\ t = <<>> /\ h = When(Passes1, h)
    BY <1>2, <1>3, <2>1, <2>2 DEF When
  <2>4. ln = IF Passes0 THEN next ELSE l
    BY <1>2, <1>5, <2>1, <2>2, <2>3
  <2>5. tn = <<>> /\ hn = When(Passes0, Head0)
    BY <1>2, <1>4, <2>1, <2>2, <2>3 DEF When
  <2>6. /\ h \o t = When(Passes1, h) \o <<>>
        /\ hn \o tn = <<>> \o When(Passes0, Head0)
    <3>1. When(Passes0, Head0) \in Seq(Id)
      BY <1>1, Nothing
    <3>2. QED
      BY <1>1, <2>3, <2>5, <3>1, Nothing
  <2>7. QED
    BY <2>4, <2>6, Nothing DEF h, t, hn, tn, l, ln, next
<1>7. CASE Fills(p1, p1', p0.valid, ToP1, out_r.ready)
  <2>1. /\ p1.state = "PIPE" /\ p1.valid /\ p1.ready /\ ~out_r.ready /\ p0.valid
        /\ p1'.state = "SKID" /\ p1'.data = p1.data /\ p1'.spare = ToP1 /\ p1'.valid
    BY <1>7 DEF Fills
  <2>2. ~Passes1 /\ Passes0
    BY <2>1 DEF Passes1, Passes0
  <2>3. d = c /\ kn = k /\ k = l
    BY <1>2, <1>3, <2>1, <2>2
  <2>4. ln = next /\ tn = Head0 /\ hn = h /\ t = <<>>
    BY <1>2, <1>4, <1>5, <2>1, <2>3 DEF When
  <2>5. /\ h \o t = When(Passes1, h) \o h
        /\ hn \o tn = h \o When(Passes0, Head0)
    BY <1>1, <2>2, <2>4, Nothing DEF When
  <2>6. QED
    BY <1>1, <2>2, <2>4, <2>5 DEF h, t, hn, tn, l, ln, next
<1>8. CASE Waits(p1, p1', p0.valid, out_r.ready) \/ Stalls(p1, p1', out_r.ready)
  <2>1. p1' = p1 /\ (~p0.valid \/ ~p1.ready) /\ ~out_r.ready
    BY <1>8 DEF Waits, Stalls
  <2>2. ~Passes1 /\ ~Passes0
    BY <2>1 DEF Passes1, Passes0
  <2>3. d = c
    BY <1>3, <2>2
  <2>4. kn = k
    BY <1>2, <2>1, <2>3
  <2>5. ln = l /\ hn = h /\ tn = t
    BY <1>2, <2>1, <2>3, <2>4
  <2>6. h \o t \in Seq(Id)
    BY <1>1
  <2>7. QED
    BY <2>2, <2>5, <2>6, Nothing DEF When, h, t, hn, tn, l, ln
<1>9. CASE Drains(p1, p1', out_r.ready)
  <2>1. /\ p1.state = "SKID" /\ p1.valid /\ ~p1.ready /\ out_r.ready
        /\ p1'.state = "PIPE" /\ p1'.data = p1.spare /\ p1'.valid
    BY <1>9 DEF Drains
  <2>2. Passes1 /\ ~Passes0
    BY <2>1 DEF Passes1, Passes0
  <2>3. d = k
    BY <1>2, <1>3, <2>1, <2>2
  <2>4. ln = l /\ hn = t /\ tn = <<>>
    BY <1>2, <2>1, <2>3 DEF When
  <2>5. /\ h \o t = When(Passes1, h) \o t
        /\ hn \o tn = t \o When(Passes0, Head0)
    BY <2>2, <2>4 DEF When
  <2>6. QED
    BY <1>1, <2>2, <2>4, <2>5 DEF h, t, hn, tn, l, ln
<1>10. QED
  BY <1>6, <1>7, <1>8, <1>9 DEF Moves

(* Into pipeline_0.                                                        *)
LEMMA NextWord ==
  ASSUME Typed, Controlling, ctl.state = "BUSY"
  PROVE  /\ Sofar \in Nat /\ Sofar <= ctl.task.total /\ ctl.task.total \in Nat
         /\ ToP0.ids = ctl.task.ids /\ ToP0.offset = ctl.offset /\ ToP0.sofar = Sofar
         /\ Good(ToP0) /\ (ToP0.last <=> ChunkDone)
         /\ ctl.task.ids \in BoundaryIds /\ ctl.offset \in Id
         /\ WordTaken => LET to == Sofar + LanesOf(ToP0)
                         IN  /\ to <= ctl.task.total
                             /\ Rows0(ToP0) = Rows(ctl.task.ids, ctl.offset, Sofar, to)
                             /\ IF ChunkDone THEN to = ctl.task.total ELSE to = Sofar + OUT_PAR
<1> DEFINE t == ctl.task.total
           n == ctl.task.number
           m == ctl.task.mask
           p == n * OUT_PAR
<1>1. /\ ctl.task.ids \in BoundaryIds /\ ctl.offset \in Id /\ t \in Id /\ n \in Nat
      /\ m \in Nat /\ OUT_PAR \in Nat \ {0} /\ Modulus \in Nat /\ t \in Nat
  BY RegisterTypes, Parameters DEF Tasks, Lane
<1>2. /\ p + m <= t /\ t - m + OUT_PAR <= Modulus /\ Sorted(ctl.task.ids)
      /\ Sofar = t - (p + m)
  BY DEF Controlling, Sofar
<1>3. p \in Nat /\ (n # 0 => OUT_PAR <= p) /\ (n = 0 => p = 0)
  BY <1>1
<1>4. /\ ToP0 = [ids |-> ctl.task.ids, last |-> ChunkDone, mask |-> m, offset |-> Offset,
                 sofar |-> Minus(t, Wrap(p + m))]
      /\ Offset = ctl.offset
  BY DEF ToP0, Offset
<1>5. WordTaken => (ChunkDone <=> n = 0)
  BY DEF ChunkDone
<1> HIDE DEF t, n, m, p
<1>6. p + m \in Id /\ p + m \in Nat
  BY <1>1, <1>2, <1>3, Parameters
<1>7. Minus(t, Wrap(p + m)) = Sofar
  <2>1. Wrap(p + m) = p + m
    BY <1>6, WrapFacts
  <2>2. Minus(t, p + m) = t - (p + m)
    BY <1>1, <1>2, <1>6, Difference
  <2>3. QED
    BY <1>2, <2>1, <2>2
<1>8. /\ ToP0.ids = ctl.task.ids /\ ToP0.offset = ctl.offset /\ ToP0.sofar = Sofar
      /\ (ToP0.last <=> ChunkDone) /\ ToP0.mask = m
  BY <1>4, <1>7
<1>9. Sofar \in Nat /\ Sofar <= t /\ Sofar + OUT_PAR <= Modulus
  BY <1>1, <1>2, <1>3, <1>6
<1>10. Good(ToP0)
  BY <1>2, <1>8, <1>9 DEF Good
<1>11. ASSUME WordTaken
       PROVE  LET to == Sofar + LanesOf(ToP0)
              IN  /\ to <= t
                  /\ Rows0(ToP0) = Rows(ctl.task.ids, ctl.offset, Sofar, to)
                  /\ IF ChunkDone THEN to = t ELSE to = Sofar + OUT_PAR
  <2>1. Rows0(ToP0) = Rows(ctl.task.ids, ctl.offset, Sofar, Sofar + LanesOf(ToP0))
    BY <1>8 DEF Rows0
  <2>2. CASE ChunkDone
    <3>1. LanesOf(ToP0) = m /\ p = 0
      BY <1>3, <1>5, <1>8, <1>11, <2>2 DEF LanesOf
    <3>2. Sofar + m = t
      BY <1>1, <1>2, <3>1
    <3>3. QED
      BY <1>1, <2>1, <2>2, <3>1, <3>2
  <2>3. CASE ~ChunkDone
    <3>1. LanesOf(ToP0) = OUT_PAR /\ OUT_PAR <= p
      BY <1>3, <1>5, <1>8, <1>11, <2>3 DEF LanesOf
    <3>2. Sofar + OUT_PAR <= t
      BY <1>1, <1>2, <1>3, <3>1
    <3>3. QED
      BY <2>1, <2>3, <3>1, <3>2
  <2>4. QED
    BY <2>2, <2>3
<1>12. QED
  BY <1>1, <1>8, <1>9, <1>10, <1>11 DEF t

LEMMA NextCarry ==
  ASSUME Typed, NEW c \in Id, Pending0(p0, c), p0.valid, NEW w \in Word0,
         w.ids = p0.data.ids, w.offset = p0.data.offset, w.sofar = p0.data.sofar + OUT_PAR
  PROVE  LastLane(Relative(p0.data), c) = RowAt(w.ids, w.offset, w.sofar - 1)
<1>1. /\ p0.data \in Word0 /\ Good(p0.data) /\ OUT_PAR - 1 \in Lane
      /\ p0.data.sofar > 0 => c = RowAt(p0.data.ids, p0.data.offset, p0.data.sofar - 1)
  BY RegisterTypes, Parameters DEF Pending0
<1>2. LastLane(Relative(p0.data), c)
        = RowAt(p0.data.ids, p0.data.offset, p0.data.sofar + (OUT_PAR - 1))
  BY <1>1, LanesAreRows DEF LastLane
<1>3. p0.data.sofar + (OUT_PAR - 1) = w.sofar - 1
  <2>1. p0.data.sofar \in Nat /\ OUT_PAR \in Nat
    BY <1>1, Parameters DEF Word0
  <2>2. QED
    BY <2>1
<1>4. QED
  BY <1>2, <1>3

LEMMA Pipe0Moves ==
  ASSUME Typed, NEW c \in Id, Pending0(p0, c), Controlling, ~Cold(p0), GoodStage(p0', Word0),
         Moves(p0, p0', Busy, ToP0, p1.ready),
         NEW d, d = IF Passes0 THEN LastLane(Relative(p0.data), c) ELSE c
  PROVE  /\ WordTaken => p0'.valid /\ p0'.spare = ToP0
         /\ ~p0.ready => p0'.valid /\ p0'.spare = p0.spare
         /\ Pending0(p0', d)
         /\ \E rest \in Seq(Id) :
              /\ Head0 \o Tail0 = When(Passes0, Head0) \o rest
              /\ Head0' \o Tail0' = rest \o When(WordTaken, Rows0(ToP0))
<1>1. /\ Head0 \in Seq(Id) /\ Tail0 \in Seq(Id) /\ Rows0(ToP0) \in Seq(Id)
      /\ p0.valid \in BOOLEAN /\ p0.ready \in BOOLEAN /\ p1.ready \in BOOLEAN
      /\ p0.data \in Word0 /\ p0.spare \in Word0 /\ ToP0 \in Word0
  BY ContentTypes, RegisterTypes, ToP0Type, WordTypes0
<1>2. /\ Head0' = When(p0'.valid, Rows0(p0'.data))
      /\ Tail0' = When(p0'.state = "SKID", Rows0(p0'.spare))
      /\ Head0 = When(p0.valid, Rows0(p0.data))
      /\ Tail0 = When(p0.state = "SKID", Rows0(p0.spare))
  BY DEF Head0, Tail0, When
<1>3. /\ p0.valid => Good(p0.data)
      /\ p0.valid /\ p0.data.sofar > 0 =>
           c = RowAt(p0.data.ids, p0.data.offset, p0.data.sofar - 1)
      /\ p0.state = "SKID" => Good(p0.spare)
      /\ p0.state = "SKID" /\ p0.spare.sofar > 0 => Follows(p0.data, p0.spare)
  BY DEF Pending0
<1>4. Pending0(p0', d) <=>
        /\ p0'.valid => Good(p0'.data)
        /\ p0'.valid /\ p0'.data.sofar > 0 =>
             d = RowAt(p0'.data.ids, p0'.data.offset, p0'.data.sofar - 1)
        /\ p0'.state = "SKID" => Good(p0'.spare)
        /\ p0'.state = "SKID" /\ p0'.spare.sofar > 0 => Follows(p0'.data, p0'.spare)
  BY DEF Pending0
<1>5. ASSUME Passes0, NEW w \in Word0, Follows(p0.data, w)
      PROVE  d = RowAt(w.ids, w.offset, w.sofar - 1)
  BY <1>5, NextCarry DEF Passes0, Follows
<1>6. WordTaken <=> Busy /\ p0.ready
  BY DEF WordTaken, Busy
<1>7. p0.state = "PIPE" => p0.ready /\ p0.spare = p0.data
  BY DEF Typed, Shape, SkidShape, Cold
<1>8. ASSUME Busy, p0.state = "PIPE"
      PROVE  Good(ToP0) /\ (ToP0.sofar > 0 => p0.valid /\ Follows(p0.data, ToP0))
  <2>1. /\ ToP0.ids = ctl.task.ids /\ ToP0.offset = ctl.offset /\ ToP0.sofar = Sofar
        /\ Good(ToP0)
    BY <1>8, NextWord DEF Busy
  <2>2. ASSUME Sofar > 0
        PROVE  /\ p0.valid /\ ~p0.spare.last /\ p0.spare.ids = ctl.task.ids
               /\ p0.spare.offset = ctl.offset /\ Sofar = p0.spare.sofar + OUT_PAR
    BY <1>8, <2>2 DEF Controlling, Busy
  <2>3. QED
    BY <1>7, <1>8, <2>1, <2>2 DEF Follows
<1>9. CASE Loads(p0, p0', Busy, ToP0, p1.ready)
  <2>1. /\ p0.state = "PIPE" /\ (p0.valid => p1.ready) /\ p0'.state = "PIPE"
        /\ p0'.data = ToP0 /\ p0'.spare = ToP0 /\ p0'.valid = Busy
    BY <1>9 DEF Loads
  <2>2. (p0.valid <=> Passes0) /\ (WordTaken <=> Busy) /\ p0.ready
    BY <1>1, <1>6, <1>7, <2>1 DEF Passes0
  <2>3. Busy /\ ToP0.sofar > 0 => d = RowAt(ToP0.ids, ToP0.offset, ToP0.sofar - 1)
    BY <1>1, <1>5, <1>8, <2>1, <2>2
  <2>4. Pending0(p0', d)
    BY <1>4, <1>8, <2>1, <2>3
  <2>5. /\ Tail0 = <<>> /\ Head0 = When(Passes0, Head0)
        /\ Tail0' = <<>> /\ Head0' = When(WordTaken, Rows0(ToP0))
    BY <1>2, <2>1, <2>2 DEF When
  <2>6. /\ Head0 \o Tail0 = When(Passes0, Head0) \o <<>>
        /\ Head0' \o Tail0' = <<>> \o When(WordTaken, Rows0(ToP0))
    <3>1. When(WordTaken, Rows0(ToP0)) \in Seq(Id)
      BY <1>1, Nothing
    <3>2. QED
      BY <1>1, <2>5, <3>1, Nothing
  <2>7. QED
    BY <2>1, <2>2, <2>4, <2>6, Nothing
<1>10. CASE Fills(p0, p0', Busy, ToP0, p1.ready)
  <2>1. /\ p0.state = "PIPE" /\ p0.valid /\ p0.ready /\ ~p1.ready /\ Busy
        /\ p0'.state = "SKID" /\ p0'.data = p0.data /\ p0'.spare = ToP0 /\ p0'.valid
    BY <1>10 DEF Fills
  <2>2. ~Passes0 /\ WordTaken /\ d = c
    BY <1>6, <2>1 DEF Passes0
  <2>3. Pending0(p0', d)
    BY <1>3, <1>4, <1>8, <2>1, <2>2
  <2>4. Tail0 = <<>> /\ Head0' = Head0 /\ Tail0' = Rows0(ToP0)
    BY <1>2, <2>1 DEF When
  <2>5. /\ Head0 \o Tail0 = When(Passes0, Head0) \o Head0
        /\ Head0' \o Tail0' = Head0 \o When(WordTaken, Rows0(ToP0))
    BY <1>1, <2>2, <2>4, Nothing DEF When
  <2>6. QED
    BY <1>1, <2>1, <2>2, <2>3, <2>5
<1>11. CASE Waits(p0, p0', Busy, p1.ready) \/ Stalls(p0, p0', p1.ready)
  <2>1. /\ p0' = p0 /\ (~Busy \/ ~p0.ready) /\ ~p1.ready /\ p0.valid
    BY <1>11 DEF Waits, Stalls
  <2>2. ~Passes0 /\ ~WordTaken /\ d = c
    BY <1>6, <2>1 DEF Passes0
  <2>3. Pending0(p0', d)
    BY <1>3, <1>4, <2>1, <2>2
  <2>4. Head0' = Head0 /\ Tail0' = Tail0
    BY <1>2, <2>1
  <2>5. Head0 \o Tail0 \in Seq(Id)
    BY <1>1
  <2>6. QED
    BY <2>1, <2>2, <2>3, <2>4, <2>5, Nothing DEF When
<1>12. CASE Drains(p0, p0', p1.ready)
  <2>1. /\ p0.state = "SKID" /\ p0.valid /\ ~p0.ready /\ p1.ready
        /\ p0'.state = "PIPE" /\ p0'.data = p0.spare /\ p0'.spare = p0.spare /\ p0'.valid
    BY <1>12 DEF Drains
  <2>2. Passes0 /\ ~WordTaken
    BY <1>6, <2>1 DEF Passes0
  <2>3. p0.spare.sofar > 0 =>
          d = RowAt(p0.spare.ids, p0.spare.offset, p0.spare.sofar - 1)
    BY <1>1, <1>3, <1>5, <2>1, <2>2
  <2>4. Pending0(p0', d)
    BY <1>3, <1>4, <2>1, <2>3
  <2>5. Head0' = Tail0 /\ Tail0' = <<>>
    BY <1>2, <2>1 DEF When
  <2>6. /\ Head0 \o Tail0 = When(Passes0, Head0) \o Tail0
        /\ Head0' \o Tail0' = Tail0 \o When(WordTaken, Rows0(ToP0))
    BY <2>2, <2>5 DEF When
  <2>7. QED
    BY <1>1, <2>1, <2>2, <2>4, <2>6
<1>13. QED
  BY <1>9, <1>10, <1>11, <1>12 DEF Moves

-----------------------------------------------------------------------------
(* Into the controller.                                                    *)
LEMMA PlaceTypes ==
  ASSUME Typed
  PROVE  Placed(Place0)
<1>1. ctl.task.ids[IN_PAR] \in Id
  BY RegisterTypes, Parameters DEF Tasks, BoundaryIds
<1>2. /\ ctl.last_offset \in Id /\ ctl.offset + IN_PAR \in Nat
      /\ p0.spare.offset + IN_PAR \in Nat /\ 0 \in Id
  BY RegisterTypes, Parameters DEF Word0
<1>3. Wrap(ctl.offset + IN_PAR) \in Id /\ Wrap(p0.spare.offset + IN_PAR) \in Id
  BY <1>2, WrapFacts
<1>4. QED
  BY <1>1, <1>2, <1>3 DEF Place0, Placed, NoChunkBefore

LEMMA PoppedChunk ==
  ASSUME Typed, Pop, GoodChunk(Place0, in_r.data)
  PROVE  LET t == Task(in_r.data)
         IN  /\ t.ids = BoundariesOf(Place0, in_r.data) /\ Offset = Place0.base
             /\ Sorted(t.ids) /\ t.ids \in BoundaryIds /\ t.total \in Nat
             /\ t.number * OUT_PAR + t.mask = t.total
             /\ t.total - t.mask + OUT_PAR <= Modulus
             /\ ChunkRows(Place0, in_r.data) = Rows(t.ids, Offset, 0, t.total)
             /\ Then(Place0, in_r.data) =
                  IF in_r.data.last THEN NoChunkBefore
                  ELSE [open |-> TRUE, prev |-> t.ids[IN_PAR], base |-> Wrap(Offset + IN_PAR)]
<1> DEFINE c == Place0
           k == in_r.data
           B == BoundariesOf(c, k)
           t == Task(k)
<1>1. Placed(c) /\ k \in AnyChunk /\ k \in Chunk
  BY PlaceTypes, RegisterTypes DEF GoodChunk
<1>2. ctl.state = "IDLE" /\ p0.ready /\ p0.spare = p0.data
  BY DEF Pop, FifoReady, Typed, Shape, SkidShape, StageType
<1>3. /\ c = IF ctl.bias = "BIAS_0" THEN NoChunkBefore
             ELSE [open |-> TRUE, prev |-> ctl.last_offset,
                   base |-> Wrap(p0.data.offset + IN_PAR)]
      /\ Offset = IF ctl.bias = "BIAS_0" THEN 0 ELSE Wrap(p0.data.offset + IN_PAR)
      /\ LastOffset = IF ctl.bias = "BIAS_0" THEN k.data[0] ELSE ctl.last_offset
  BY <1>2 DEF Place0, Offset, LastOffset
<1>4. Offset = c.base /\ LastOffset = IF c.open THEN c.prev ELSE k.data[0]
  BY <1>3 DEF NoChunkBefore
<1> HIDE DEF c, k
<1>5. ChunkIds(k) = B
  BY <1>4 DEF ChunkIds, BoundariesOf, Modulus
<1>6. B[0] = LastOffset
  BY <1>4, Parameters DEF BoundariesOf
<1>7. /\ B \in BoundaryIds /\ Sorted(B) /\ B[k.n] = k.data[k.n - 1]
  BY <1>1, ChunkBoundaries DEF c, k
<1>8. /\ t \in Tasks /\ t.ids = ChunkIds(k) /\ t.total = Total(k)
      /\ t.number * OUT_PAR + t.mask = Total(k) /\ Total(k) - t.mask + OUT_PAR <= Modulus
      /\ Total(k) = Minus(k.data[k.n - 1], LastOffset)
  BY <1>1, TaskTypes
<1>9. t.total \in Nat
  BY <1>8, Parameters DEF Tasks
<1>10. ChunkRows(c, k) = Rows(B, c.base, 0, Minus(k.data[k.n - 1], B[0]))
  BY DEF ChunkRows
<1>11. ~k.last => B[IN_PAR] = k.data[IN_PAR - 1]
  BY <1>1, <1>7, ChunkFacts
<1>12. Then(c, k) = IF k.last THEN NoChunkBefore
                    ELSE [open |-> TRUE, prev |-> B[IN_PAR], base |-> Wrap(Offset + IN_PAR)]
  BY <1>4, <1>11 DEF Then
<1> HIDE DEF t, B
<1>13. QED
  BY <1>4, <1>5, <1>6, <1>7, <1>8, <1>9, <1>10, <1>12 DEF c, k, t, B

LEMMA TaskMoves ==
  ASSUME Typed, Controlling, ctl' = Controller, in_r.valid => GoodChunk(Place0, in_r.data)
  PROVE  \E rest \in Seq(Id) :
           /\ InTask = When(WordTaken, Rows0(ToP0)) \o rest
           /\ InTask' = rest \o When(Pop, InHead)
<1>1. /\ InTask = IF ctl.state = "BUSY"
                  THEN Rows(ctl.task.ids, ctl.offset, Sofar, ctl.task.total) ELSE <<>>
      /\ InTask' = IF ctl'.state = "BUSY"
                   THEN Rows(ctl'.task.ids, ctl'.offset, Sofar', ctl'.task.total) ELSE <<>>
      /\ Sofar = ctl.task.total - (ctl.task.number * OUT_PAR + ctl.task.mask)
      /\ Sofar' = ctl'.task.total - (ctl'.task.number * OUT_PAR + ctl'.task.mask)
  BY DEF InTask, Sofar
<1>2. Rows0(ToP0) \in Seq(Id)
  BY ToP0Type, WordTypes0
<1>3. Offset = IF ctl.state = "BUSY" THEN ctl.offset ELSE Offset
  BY DEF Offset
<1>4. CASE Pop
  <2>1. in_r.valid /\ GoodChunk(Place0, in_r.data)
    BY <1>4 DEF Pop
  <2> DEFINE t == Task(in_r.data)
  <2>2. /\ ctl.state = "IDLE" /\ ctl'.state = "BUSY" /\ ctl'.task = t /\ ctl'.offset = Offset
    BY <1>4, ControlSteps
  <2>3. /\ t.number * OUT_PAR + t.mask = t.total /\ t.total \in Nat
        /\ ChunkRows(Place0, in_r.data) = Rows(t.ids, Offset, 0, t.total)
    BY <1>4, <2>1, PoppedChunk
  <2> HIDE DEF t
  <2>4. Sofar' = 0
    BY <1>1, <2>2, <2>3
  <2>5. InTask' = InHead /\ InHead \in Seq(Id)
    <3>1. InHead \in Seq(Id)
      BY <2>1, PlaceTypes, ChunkRowsFacts DEF InHead
    <3>2. QED
      BY <1>1, <2>1, <2>2, <2>3, <2>4, <3>1 DEF InHead
  <2>6. ~WordTaken /\ InTask = <<>>
    BY <1>1, <2>2 DEF WordTaken
  <2>7. /\ InTask = When(WordTaken, Rows0(ToP0)) \o <<>>
        /\ InTask' = <<>> \o When(Pop, InHead)
    BY <1>4, <2>5, <2>6, Nothing DEF When
  <2>8. QED
    BY <2>7, Nothing
<1>5. CASE ctl.state # "BUSY" /\ ~Pop
  <2>1. ctl.state = "IDLE"
    BY <1>5, RegisterTypes DEF Controls
  <2>2. ctl'.state = "IDLE"
    BY <1>5, <2>1, ControlSteps
  <2>3. ~WordTaken /\ InTask = <<>> /\ InTask' = <<>>
    BY <1>1, <1>5, <2>2 DEF WordTaken
  <2>4. /\ InTask = When(WordTaken, Rows0(ToP0)) \o <<>>
        /\ InTask' = <<>> \o When(Pop, InHead)
    BY <1>5, <2>3, Nothing DEF When
  <2>5. QED
    BY <2>4, Nothing
<1>6. CASE ctl.state = "BUSY"
  <2> DEFINE ids == ctl.task.ids
             o == ctl.offset
             t == ctl.task.total
             to == Sofar + LanesOf(ToP0)
  <2>1. /\ Sofar \in Nat /\ Sofar <= t /\ t \in Nat /\ ids \in BoundaryIds /\ o \in Id
        /\ WordTaken => /\ to <= t /\ Rows0(ToP0) = Rows(ids, o, Sofar, to)
                        /\ IF ChunkDone THEN to = t ELSE to = Sofar + OUT_PAR
    BY <1>6, NextWord
  <2>2. ~Pop
    BY <1>6 DEF Pop, FifoReady
  <2>3. InTask = Rows(ids, o, Sofar, t)
    BY <1>1, <1>6
  <2>4. ctl'.offset = o
    BY <1>3, <1>6, ControlSteps
  <2>5. LanesOf(ToP0) \in Nat
    BY ToP0Type, LaneCount DEF Word0
  <2> HIDE DEF ids, o, t, to
  <2>6. CASE ChunkDone
    <3>1. WordTaken /\ ctl'.state = "IDLE"
      BY <2>6, ControlSteps DEF ChunkDone
    <3>2. InTask = Rows0(ToP0) /\ InTask' = <<>>
      BY <1>1, <2>1, <2>3, <2>6, <3>1
    <3>3. /\ InTask = When(WordTaken, Rows0(ToP0)) \o <<>>
          /\ InTask' = <<>> \o When(Pop, InHead)
      BY <1>2, <2>2, <3>1, <3>2, Nothing DEF When
    <3>4. QED
      BY <3>3, Nothing
  <2>7. CASE ~ChunkDone
    <3>1. /\ ctl'.state = "BUSY" /\ ctl'.task.ids = ids /\ ctl'.task.total = t
          /\ ctl'.task.mask = ctl.task.mask
          /\ ctl'.task.number = ctl.task.number - (IF WordTaken THEN 1 ELSE 0)
      BY <1>6, <2>7, ControlSteps DEF ids, t
    <3>2. InTask' = Rows(ids, o, Sofar', t)
      BY <1>1, <2>4, <3>1
    <3>3. CASE WordTaken
      <4>1. Sofar' = to
        <5>1. /\ ctl.task.number \in Nat /\ ctl.task.mask \in Nat /\ OUT_PAR \in Nat
          BY RegisterTypes, Parameters DEF Tasks, Lane
        <5>2. ctl'.task.number = ctl.task.number - 1
          BY <3>1, <3>3
        <5>3. (ctl.task.number - 1) * OUT_PAR = ctl.task.number * OUT_PAR - OUT_PAR
          BY <5>1
        <5>4. ctl.task.number * OUT_PAR \in Nat
          BY <5>1
        <5>5. Sofar = t - (ctl.task.number * OUT_PAR + ctl.task.mask)
          BY <1>1 DEF t
        <5>6. Sofar' = t - ((ctl.task.number * OUT_PAR - OUT_PAR) + ctl.task.mask)
          BY <1>1, <3>1, <5>2, <5>3
        <5>7. to = Sofar + OUT_PAR
          BY <2>1, <2>7, <3>3
        <5>8. QED
          BY <2>1, <5>1, <5>4, <5>5, <5>6, <5>7
      <4>2. to \in Nat /\ Sofar <= to /\ to <= t
        BY <2>1, <2>5, <3>3 DEF to
      <4>3. Rows(ids, o, Sofar, t) = Rows(ids, o, Sofar, to) \o Rows(ids, o, to, t)
        BY <2>1, <4>2, RowsSplit
      <4>4. Rows(ids, o, to, t) \in Seq(Id)
        BY <2>1, <4>2, RowsFacts
      <4>5. /\ InTask = When(WordTaken, Rows0(ToP0)) \o Rows(ids, o, to, t)
            /\ InTask' = Rows(ids, o, to, t) \o When(Pop, InHead)
        BY <2>1, <2>2, <2>3, <3>2, <3>3, <4>1, <4>3, <4>4, Nothing DEF When
      <4>6. QED
        BY <4>4, <4>5
    <3>4. CASE ~WordTaken
      <4>1. ctl'.task.number = ctl.task.number
        <5>1. ctl.task.number \in Nat
          BY RegisterTypes, Parameters DEF Tasks
        <5>2. QED
          BY <3>1, <3>4, <5>1
      <4>2. InTask' = InTask /\ InTask \in Seq(Id)
        <5>1. InTask \in Seq(Id)
          BY <2>1, <2>3, RowsFacts
        <5>2. QED
          BY <1>1, <2>3, <3>1, <3>2, <4>1, <5>1 DEF t
      <4>3. QED
        BY <2>2, <3>4, <4>2, Nothing DEF When
    <3>5. QED
      BY <3>3, <3>4
  <2>8. QED
    BY <2>6, <2>7
<1>7. QED
  BY <1>4, <1>5, <1>6

(* Where the next chunk of the controller stands moves on with a pop.      *)
LEMMA RestHasArrived ==
  ASSUME Typed, Arriving, Place0.open
  PROVE  in_r.valid
<1>1. CASE ~in_r.valid
  <2>1. in_r.state # "SKID"
    BY <1>1 DEF Typed, Shape, SkidShape
  <2>2. PlaceOfNext = Place0
    BY <1>1, <2>1 DEF Arriving, Place2, Place1
  <2>3. vec.open
    BY <2>2 DEF PlaceOfNext, NoChunkBefore
  <2>4. QED
    BY <2>3 DEF Arriving
<1>2. QED
  BY <1>1

LEMMA PlaceMoves ==
  ASSUME Typed, Controlling, Arriving, ~Cold(p0), ctl' = Controller,
         WordTaken => p0'.valid /\ p0'.spare = ToP0,
         ~p0.ready => p0'.valid /\ p0'.spare = p0.spare
  PROVE  Place0' = IF Pop THEN Then(Place0, in_r.data) ELSE Place0
<1>1. Place0' = IF ctl'.state = "BUSY"
                THEN IF ctl'.last THEN NoChunkBefore
                     ELSE [open |-> TRUE, prev |-> ctl'.task.ids[IN_PAR],
                           base |-> Wrap(ctl'.offset + IN_PAR)]
                ELSE IF ctl'.bias = "BIAS_0" THEN NoChunkBefore
                     ELSE [open |-> TRUE, prev |-> ctl'.last_offset,
                           base |-> Wrap(p0'.spare.offset + IN_PAR)]
  BY DEF Place0, NoChunkBefore
<1>2. ctl'.bias = Bias /\ ctl'.offset = Offset /\ ctl.state \in {"IDLE", "BUSY"}
  BY ControlSteps, RegisterTypes DEF Controls
<1>3. CASE Pop
  <2>1. GoodChunk(Place0, in_r.data)
    BY <1>3 DEF Arriving, Pop
  <2>2. /\ ctl'.state = "BUSY" /\ ctl'.last = in_r.data.last /\ ctl'.task = Task(in_r.data)
    BY <1>3, ControlSteps
  <2>3. Then(Place0, in_r.data) =
          IF in_r.data.last THEN NoChunkBefore
          ELSE [open |-> TRUE, prev |-> Task(in_r.data).ids[IN_PAR],
                base |-> Wrap(Offset + IN_PAR)]
    BY <1>3, <2>1, PoppedChunk
  <2>4. QED
    BY <1>1, <1>2, <1>3, <2>2, <2>3
<1>4. CASE ~Pop /\ ctl.state = "IDLE"
  <2>1. ctl'.state = "IDLE" /\ ctl'.last_offset = LastOffset
    BY <1>4, ControlSteps
  <2>2. Bias = ctl.bias
    BY <1>4 DEF Bias, ChunkDone, WordTaken, Controlling
  <2>3. CASE ctl.bias = "BIAS_0"
    BY <1>1, <1>2, <1>4, <2>1, <2>2, <2>3 DEF Place0
  <2>4. CASE ctl.bias # "BIAS_0"
    <3>1. ctl.bias = "PREV_BIAS"
      BY <2>4, RegisterTypes DEF Controls, BiasState
    <3>2. in_r.valid
      BY <1>4, <3>1 DEF Controlling
    <3>3. ~p0.ready
      BY <1>4, <3>2 DEF Pop, FifoReady
    <3>4. p0'.spare = p0.spare /\ LastOffset = ctl.last_offset
      BY <2>4, <3>3 DEF LastOffset
    <3>5. QED
      BY <1>1, <1>2, <1>4, <2>1, <2>2, <2>4, <3>4 DEF Place0
  <2>5. QED
    BY <2>3, <2>4
<1>5. CASE ctl.state = "BUSY"
  <2>1. ~Pop /\ Offset = ctl.offset
    BY <1>5 DEF Pop, FifoReady, Offset
  <2>2. Place0 = IF ctl.last THEN NoChunkBefore
                 ELSE [open |-> TRUE, prev |-> ctl.task.ids[IN_PAR],
                       base |-> Wrap(ctl.offset + IN_PAR)]
    BY <1>5 DEF Place0
  <2>3. CASE ChunkDone
    <3>1. WordTaken /\ ctl'.state = "IDLE"
      BY <2>3, ControlSteps DEF ChunkDone
    <3>2. CASE ctl.last
      <4>1. Bias = "BIAS_0"
        BY <2>1, <2>3, <3>2 DEF Bias
      <4>2. QED
        BY <1>1, <1>2, <2>1, <2>2, <3>1, <3>2, <4>1
    <3>3. CASE ~ctl.last
      <4>1. Bias = "PREV_BIAS"
        BY <1>5, <2>1, <3>3 DEF Bias, Controlling
      <4>2. ctl'.last_offset = ctl.task.ids[IN_PAR]
        BY <2>3, <3>3, ControlSteps
      <4>3. p0'.spare.offset = ctl.offset
        BY <2>1, <3>1, ToP0Type
      <4>4. QED
        BY <1>1, <1>2, <2>1, <2>2, <3>1, <3>3, <4>1, <4>2, <4>3
    <3>4. QED
      BY <3>2, <3>3
  <2>4. CASE ~ChunkDone
    <3>1. ctl'.state = "BUSY" /\ ctl'.last = ctl.last /\ ctl'.task.ids = ctl.task.ids
      BY <1>5, <2>4, ControlSteps
    <3>2. QED
      BY <1>1, <1>2, <2>1, <2>2, <3>1
  <2>5. QED
    BY <2>3, <2>4
<1>6. QED
  BY <1>2, <1>3, <1>4, <1>5

(* Into the input buffer.                                                  *)
LEMMA PlaceAfter ==
  ASSUME Typed, NEW chunk \in Chunk, vec' = After(chunk)
  PROVE  PlaceOfNext' = Then(PlaceOfNext, chunk) /\ (~chunk.last <=> vec'.open)
<1>1. PlaceOfNext' = IF vec'.open
                     THEN [open |-> TRUE, prev |-> vec'.prev,
                           base |-> Wrap(vec'.chunks * IN_PAR)]
                     ELSE NoChunkBefore
  BY DEF PlaceOfNext, NoChunkBefore
<1>2. CASE chunk.last
  <2>1. ~vec'.open
    BY <1>2 DEF After, Closed
  <2>2. QED
    BY <1>1, <1>2, <2>1 DEF Then
<1>3. CASE ~chunk.last
  <2>1. /\ vec'.open /\ vec'.prev = chunk.data[IN_PAR - 1] /\ vec'.chunks = vec.chunks + 1
    BY <1>3 DEF After
  <2>2. vec.chunks \in Nat /\ IN_PAR \in Nat /\ (~vec.open => vec.chunks = 0)
    BY Parameters DEF Typed
  <2> DEFINE k == vec.chunks * IN_PAR
  <2>3. k \in Nat /\ (vec.chunks + 1) * IN_PAR = k + IN_PAR /\ (vec.chunks = 0 => k = 0)
    BY <2>2
  <2>4. PlaceOfNext.base = IF vec.open THEN Wrap(k) ELSE 0
    BY DEF PlaceOfNext, NoChunkBefore
  <2> HIDE DEF k
  <2>5. Wrap(k) = PlaceOfNext.base
    <3>1. CASE vec.open
      BY <2>4, <3>1
    <3>2. CASE ~vec.open
      BY <2>2, <2>3, <2>4, <3>2, WrapFacts, Parameters
    <3>3. QED
      BY <3>1, <3>2
  <2>6. Wrap(k + IN_PAR) = Wrap(PlaceOfNext.base + IN_PAR)
    <3>1. Wrap(Wrap(k) + IN_PAR) = Wrap(k + IN_PAR)
      BY <2>2, <2>3, WrapFacts
    <3>2. QED
      BY <2>5, <3>1
  <2>7. QED
    BY <1>1, <1>3, <2>1, <2>3, <2>6 DEF Then
<1>4. QED
  BY <1>2, <1>3

Accepts(in_valid) == in_valid /\ in_r.ready

LEMMA InMoves ==
  ASSUME Typed, Arriving, ~UpstreamStalls, NEW in_valid, NEW chunk, NEW out_ready,
         Inputs(in_valid, chunk, out_ready), Clock(in_valid, chunk, out_ready),
         GoodStage(in_r', AnyChunk), Moves(in_r, in_r', in_valid, chunk, FifoReady),
         Place0' = IF Pop THEN Then(Place0, in_r.data) ELSE Place0
  PROVE  /\ Arriving'
         /\ in_r.valid /\ ~Pop => in_r'.valid
         /\ \E rest \in Seq(Id) :
              /\ InHead \o InTail = When(Pop, InHead) \o rest
              /\ InHead' \o InTail' = rest \o When(Accepts(in_valid), RowsOf(chunk))
<1> DEFINE accepted == Accepts(in_valid)
           q == PlaceOfNext
<1>1. /\ in_r.valid \in BOOLEAN /\ in_r.ready \in BOOLEAN /\ FifoReady \in BOOLEAN
      /\ in_valid \in BOOLEAN
      /\ in_r.state = "PIPE" /\ in_r.valid => in_r.ready
      /\ in_r.state = "SKID" => in_r.valid /\ ~in_r.ready
      /\ in_r.state \in {"PIPE", "SKID"}
      /\ Pop <=> in_r.valid /\ FifoReady
  BY RegisterTypes DEF FifoReady, Inputs, Typed, Shape, SkidShape, StageType, Pop
<1>2. /\ in_valid => in_r.ready \/ in_r.state = "SKID"
      /\ in_valid => chunk \in Chunk /\ Continues(chunk)
      /\ vec.open => in_valid
      /\ vec' = IF accepted THEN After(chunk) ELSE vec
  BY DEF Clock, Inputs, Accepts
<1>3. /\ in_r.valid => GoodChunk(Place0, in_r.data)
      /\ in_r.state = "SKID" => GoodChunk(Place1, in_r.spare)
      /\ q = Place2 /\ (vec.open => in_r.valid)
  BY DEF Arriving
<1>4. /\ Place1 = IF in_r.valid THEN Then(Place0, in_r.data) ELSE Place0
      /\ Place2 = IF in_r.state = "SKID" THEN Then(Place1, in_r.spare) ELSE Place1
      /\ Place1' = IF in_r'.valid THEN Then(Place0', in_r'.data) ELSE Place0'
      /\ Place2' = IF in_r'.state = "SKID" THEN Then(Place1', in_r'.spare) ELSE Place1'
  BY DEF Place1, Place2
<1>5. /\ InHead = When(in_r.valid, ChunkRows(Place0, in_r.data))
      /\ InTail = When(in_r.state = "SKID", ChunkRows(Place1, in_r.spare))
      /\ InHead' = When(in_r'.valid, ChunkRows(Place0', in_r'.data))
      /\ InTail' = When(in_r'.state = "SKID", ChunkRows(Place1', in_r'.spare))
  BY DEF InHead, InTail, When
<1>6. /\ Placed(Place0) /\ Placed(Place1) /\ Placed(q)
  <2>1. Placed(Place0)
    BY PlaceTypes
  <2>2. \A c, k : Placed(c) /\ k \in Chunk => Placed(Then(c, k))
    <3> SUFFICES ASSUME NEW c, NEW k \in Chunk, Placed(c) PROVE Placed(Then(c, k))
      OBVIOUS
    <3>1. k.data[IN_PAR - 1] \in Id
      <4>1. IN_PAR - 1 \in 0..(IN_PAR - 1)
        BY Parameters
      <4>2. QED
        BY <4>1, ChunkFacts
    <3>2. c.base + IN_PAR \in Nat
      BY Parameters DEF Placed
    <3>3. Wrap(c.base + IN_PAR) \in Id
      BY <3>2, WrapFacts
    <3>4. QED
      BY <3>1, <3>3, Parameters DEF Then, Placed, NoChunkBefore
  <2>3. Placed(Place1)
    BY <1>3, <1>4, <2>1, <2>2 DEF GoodChunk
  <2>4. Placed(q)
    BY <1>3, <1>4, <2>2, <2>3 DEF GoodChunk
  <2>5. QED
    BY <2>1, <2>3, <2>4
<1>7. InHead \in Seq(Id) /\ InTail \in Seq(Id)
  <2>1. in_r.valid => ChunkRows(Place0, in_r.data) \in Seq(Id)
    BY <1>3, <1>6, ChunkRowsFacts
  <2>2. in_r.state = "SKID" => ChunkRows(Place1, in_r.spare) \in Seq(Id)
    BY <1>3, <1>6, ChunkRowsFacts
  <2>3. QED
    BY <1>5, <2>1, <2>2, Nothing DEF When
<1>8. ASSUME in_valid
      PROVE  /\ GoodChunk(q, chunk) /\ RowsOf(chunk) = ChunkRows(q, chunk)
             /\ RowsOf(chunk) \in Seq(Id)
  BY <1>2, <1>8, AcceptedChunk
<1>9. /\ accepted => q' = Then(q, chunk)
      /\ ~accepted => q' = q /\ vec' = vec
  <2>1. CASE accepted
    <3>1. chunk \in Chunk /\ vec' = After(chunk)
      BY <1>2, <2>1 DEF Accepts
    <3>2. q' = Then(q, chunk)
      BY <3>1, PlaceAfter
    <3>3. QED
      BY <2>1, <3>2
  <2>2. CASE ~accepted
    BY <1>2, <2>2 DEF PlaceOfNext, NoChunkBefore
  <2>3. QED
    BY <2>1, <2>2
<1>10. Arriving' <=> /\ in_r'.valid => GoodChunk(Place0', in_r'.data)
                     /\ in_r'.state = "SKID" => GoodChunk(Place1', in_r'.spare)
                     /\ q' = Place2'
                     /\ vec'.open => in_r'.valid
  BY DEF Arriving
<1> HIDE DEF q
<1>11. CASE Loads(in_r, in_r', in_valid, chunk, FifoReady)
  <2>1. /\ in_r.state = "PIPE" /\ (in_r.valid => FifoReady) /\ in_r'.state = "PIPE"
        /\ in_r'.data = chunk /\ in_r'.spare = chunk /\ in_r'.valid = in_valid
    BY <1>11 DEF Loads
  <2>2. (Pop <=> in_r.valid) /\ (accepted <=> in_valid)
    BY <1>1, <1>2, <2>1 DEF Accepts
  <2>3. Place0' = q
    BY <1>3, <1>4, <2>1, <2>2
  <2>4. q' = Place2'
    BY <1>4, <1>9, <2>1, <2>2, <2>3
  <2>5. vec'.open => in_r'.valid
    BY <1>2, <1>9, <2>1, <2>2
  <2>6. Arriving'
    BY <1>8, <1>10, <2>1, <2>3, <2>4, <2>5
  <2>7. InTail = <<>> /\ InHead = When(Pop, InHead)
    BY <1>5, <2>1, <2>2 DEF When
  <2>8. InTail' = <<>> /\ InHead' = When(accepted, RowsOf(chunk)) /\ InHead' \in Seq(Id)
    BY <1>5, <1>8, <2>1, <2>2, <2>3, Nothing DEF When
  <2>9. /\ InHead \o InTail = When(Pop, InHead) \o <<>>
        /\ InHead' \o InTail' = <<>> \o When(accepted, RowsOf(chunk))
    BY <1>7, <2>7, <2>8, Nothing
  <2>10. QED
    BY <2>2, <2>6, <2>9, Nothing
<1>12. CASE Fills(in_r, in_r', in_valid, chunk, FifoReady)
  <2>1. /\ in_r.state = "PIPE" /\ in_r.valid /\ in_r.ready /\ ~FifoReady /\ in_valid
        /\ in_r'.state = "SKID" /\ in_r'.data = in_r.data /\ in_r'.spare = chunk
        /\ in_r'.valid
    BY <1>12 DEF Fills
  <2>2. ~Pop /\ accepted
    BY <1>1, <2>1 DEF Accepts
  <2>3. Place0' = Place0 /\ Place1' = Place1 /\ q = Place1
    BY <1>3, <1>4, <2>1, <2>2
  <2>4. q' = Place2'
    BY <1>4, <1>9, <2>1, <2>2, <2>3
  <2>5. Arriving'
    BY <1>3, <1>8, <1>10, <2>1, <2>3, <2>4
  <2>6. InTail = <<>> /\ InHead' = InHead /\ InTail' = RowsOf(chunk)
    BY <1>5, <1>8, <2>1, <2>3 DEF When
  <2>7. /\ InHead \o InTail = When(Pop, InHead) \o InHead
        /\ InHead' \o InTail' = InHead \o When(accepted, RowsOf(chunk))
    BY <1>7, <2>2, <2>6, Nothing DEF When
  <2>8. QED
    BY <1>7, <2>1, <2>5, <2>7
<1>13. CASE Waits(in_r, in_r', in_valid, FifoReady) \/ Stalls(in_r, in_r', FifoReady)
  <2>1. in_r' = in_r /\ (~in_valid \/ ~in_r.ready) /\ ~FifoReady
    BY <1>13 DEF Waits, Stalls
  <2>2. ~Pop /\ ~accepted
    BY <1>1, <2>1 DEF Accepts
  <2>3. Place0' = Place0 /\ Place1' = Place1 /\ Place2' = Place2 /\ q' = q /\ vec' = vec
    <3>1. Place0' = Place0 /\ Place1' = Place1
      BY <1>4, <2>1, <2>2
    <3>2. QED
      BY <1>4, <1>9, <2>1, <2>2, <3>1
  <2>4. Arriving'
    BY <1>3, <1>10, <2>1, <2>3
  <2>5. InHead' = InHead /\ InTail' = InTail /\ InHead \o InTail \in Seq(Id)
    BY <1>5, <1>7, <2>1, <2>3
  <2>6. QED
    BY <2>1, <2>2, <2>4, <2>5, Nothing DEF When
<1>14. CASE Drains(in_r, in_r', FifoReady)
  <2>1. /\ in_r.state = "SKID" /\ in_r.valid /\ ~in_r.ready /\ FifoReady
        /\ in_r'.state = "PIPE" /\ in_r'.data = in_r.spare /\ in_r'.valid
    BY <1>14 DEF Drains
  <2>2. Pop /\ ~accepted
    BY <1>1, <2>1 DEF Accepts
  <2>3. Place0' = Place1 /\ Place2' = Place2 /\ q' = q /\ vec' = vec
    BY <1>4, <1>9, <2>1, <2>2
  <2>4. Arriving'
    BY <1>3, <1>10, <2>1, <2>3
  <2>5. InHead' = InTail /\ InTail' = <<>>
    BY <1>5, <2>1, <2>3 DEF When
  <2>6. /\ InHead \o InTail = When(Pop, InHead) \o InTail
        /\ InHead' \o InTail' = InTail \o When(accepted, RowsOf(chunk))
    BY <2>2, <2>5 DEF When
  <2>7. QED
    BY <1>7, <2>2, <2>4, <2>6
<1>15. QED
  BY <1>11, <1>12, <1>13, <1>14 DEF Moves

(* The controller goes idle inside a vector only with the next chunk in    *)
(* the input buffer and the last word of this one in pipeline_0, and the   *)
(* words of a chunk are consecutive.                                       *)
LEMMA ControllingStep ==
  ASSUME Typed, Controlling, Arriving, ctl' = Controller,
         WordTaken => p0'.valid /\ p0'.spare = ToP0,
         ~p0.ready => p0'.valid /\ p0'.spare = p0.spare,
         in_r.valid /\ ~Pop => in_r'.valid
  PROVE  Controlling'
<1>1. /\ ctl'.bias = Bias /\ ctl'.bias_latch = Bias /\ ctl'.offset = Offset
      /\ ctl.state \in {"IDLE", "BUSY"} /\ ctl.bias \in BiasState
      /\ ctl.bias = ctl.bias_latch
  BY ControlSteps, RegisterTypes DEF Controls, Controlling
<1>2. Sofar' = ctl'.task.total - (ctl'.task.number * OUT_PAR + ctl'.task.mask)
  BY DEF Sofar
<1>3. Controlling' <=>
        /\ ctl'.bias = ctl'.bias_latch
        /\ ctl'.state = "BUSY" =>
             /\ ctl'.bias = "PREV_BIAS" /\ Sorted(ctl'.task.ids)
             /\ ctl'.task.number * OUT_PAR + ctl'.task.mask <= ctl'.task.total
             /\ ctl'.task.total - ctl'.task.mask + OUT_PAR <= Modulus
             /\ Sofar' > 0 =>
                  /\ p0'.valid /\ ~p0'.spare.last /\ p0'.spare.ids = ctl'.task.ids
                  /\ p0'.spare.offset = ctl'.offset /\ Sofar' = p0'.spare.sofar + OUT_PAR
        /\ (ctl'.state = "IDLE" /\ ctl'.bias = "PREV_BIAS" => in_r'.valid /\ p0'.valid)
  BY DEF Controlling
<1>4. CASE Pop
  <2> DEFINE t == Task(in_r.data)
  <2>1. GoodChunk(Place0, in_r.data)
    BY <1>4 DEF Arriving, Pop
  <2>2. ctl'.state = "BUSY" /\ ctl'.task = t /\ Bias = "PREV_BIAS"
    BY <1>4, ControlSteps DEF Bias
  <2>3. /\ Sorted(t.ids) /\ t.number * OUT_PAR + t.mask = t.total /\ t.total \in Nat
        /\ t.total - t.mask + OUT_PAR <= Modulus
    BY <1>4, <2>1, PoppedChunk
  <2> HIDE DEF t
  <2>4. Sofar' = 0
    BY <1>2, <2>2, <2>3
  <2>5. QED
    BY <1>1, <1>3, <2>2, <2>3, <2>4
<1>5. CASE ctl.state = "IDLE" /\ ~Pop
  <2>1. ctl'.state = "IDLE" /\ Bias = ctl.bias
    BY <1>1, <1>5, ControlSteps DEF Bias, ChunkDone, WordTaken
  <2>2. ASSUME ctl.bias = "PREV_BIAS" PROVE in_r'.valid /\ p0'.valid
    <3>1. in_r.valid
      BY <1>5, <2>2 DEF Controlling
    <3>2. ~p0.ready
      BY <1>5, <3>1 DEF Pop, FifoReady
    <3>3. QED
      BY <1>5, <3>1, <3>2
  <2>3. QED
    BY <1>1, <1>3, <2>1, <2>2
<1>6. CASE ctl.state = "BUSY" /\ ChunkDone
  <2>1. WordTaken /\ ~Pop /\ ctl'.state = "IDLE"
    BY <1>6, ControlSteps DEF ChunkDone, Pop, FifoReady
  <2>2. ASSUME Bias = "PREV_BIAS" PROVE in_r'.valid /\ p0'.valid
    <3>1. ~ctl.last
      BY <1>6, <2>1, <2>2 DEF Bias
    <3>2. Place0.open
      BY <1>6, <3>1 DEF Place0
    <3>3. in_r.valid
      BY <3>2, RestHasArrived
    <3>4. QED
      BY <2>1, <3>3
  <2>3. QED
    BY <1>1, <1>3, <2>1, <2>2
<1>7. CASE ctl.state = "BUSY" /\ ~ChunkDone
  <2> DEFINE n == ctl.task.number
             m == ctl.task.mask
             t == ctl.task.total
  <2>1. /\ ctl'.state = "BUSY" /\ ctl'.task.ids = ctl.task.ids /\ ctl'.task.mask = m
        /\ ctl'.task.total = t /\ (WordTaken => n > 0)
        /\ ctl'.task.number = n - (IF WordTaken THEN 1 ELSE 0)
    BY <1>7, ControlSteps
  <2>2. /\ ctl.bias = "PREV_BIAS" /\ Sorted(ctl.task.ids)
        /\ n * OUT_PAR + m <= t /\ t - m + OUT_PAR <= Modulus
        /\ Sofar > 0 =>
             /\ p0.valid /\ ~p0.spare.last /\ p0.spare.ids = ctl.task.ids
             /\ p0.spare.offset = ctl.offset /\ Sofar = p0.spare.sofar + OUT_PAR
    BY <1>7 DEF Controlling
  <2>3. Bias = "PREV_BIAS" /\ Offset = ctl.offset
    BY <1>1, <1>7, <2>2 DEF Bias, Pop, FifoReady, Offset
  <2>4. n \in Nat /\ m \in Nat /\ t \in Nat /\ OUT_PAR \in Nat
    BY RegisterTypes, Parameters DEF Tasks, Lane
  <2>5. Sofar = t - (n * OUT_PAR + m)
    BY DEF Sofar
  <2> HIDE DEF n, m, t
  <2>6. CASE WordTaken
    <3>1. ctl'.task.number = n - 1 /\ p0'.valid /\ p0'.spare = ToP0
      BY <2>1, <2>6
    <3>2. n * OUT_PAR \in Nat /\ (n - 1) * OUT_PAR = n * OUT_PAR - OUT_PAR
      BY <2>4
    <3>3. ctl'.task.number * OUT_PAR + m <= t
      BY <2>2, <2>4, <3>1, <3>2
    <3>4. Sofar' = Sofar + OUT_PAR
      BY <1>2, <2>1, <2>4, <2>5, <3>1, <3>2
    <3>5. /\ ToP0.ids = ctl.task.ids /\ ToP0.offset = ctl.offset /\ ToP0.sofar = Sofar
          /\ (ToP0.last <=> ChunkDone)
      BY <1>7, NextWord
    <3>6. QED
      BY <1>1, <1>3, <1>7, <2>1, <2>2, <2>3, <3>1, <3>3, <3>4, <3>5
  <2>7. CASE ~WordTaken
    <3>1. ctl'.task.number = n
      BY <2>1, <2>4, <2>7
    <3>2. p0'.valid /\ p0'.spare = p0.spare
      BY <1>7, <2>7 DEF WordTaken
    <3>3. Sofar' = Sofar
      BY <1>2, <2>1, <2>5, <3>1
    <3>4. QED
      BY <1>1, <1>3, <2>1, <2>2, <2>3, <3>1, <3>2, <3>3
  <2>8. QED
    BY <2>6, <2>7
<1>8. QED
  BY <1>1, <1>4, <1>5, <1>6, <1>7

-----------------------------------------------------------------------------
(* All the stages at one edge.                                             *)
RowSeq == Seq(Id)
Cat(a, b) == a \o b

LEMMA CatFacts ==
  \A a, b, c \in RowSeq :
    Cat(a, b) \in RowSeq /\ Cat(Cat(a, b), c) = Cat(a, Cat(b, c))
<1> SUFFICES ASSUME NEW a \in Seq(Id), NEW b \in Seq(Id), NEW c \in Seq(Id)
             PROVE  a \o b \in Seq(Id) /\ (a \o b) \o c = a \o (b \o c)
  BY DEF RowSeq, Cat
<1>1. a \o b \in Seq(Id)
  BY ConcatProperties
<1>2. (a \o b) \o c = a \o (b \o c)
  BY ConcatAssociative
<1>3. QED
  BY <1>1, <1>2

(* At an edge h, which becomes next, gives out its first rows, out, and    *)
(* takes in the rows in.  Two neighbours, the second of which gives to the *)
(* first, do so together.                                                  *)
StepsOn(h, next, out, in) ==
  \E rest \in RowSeq : h = Cat(out, rest) /\ next = Cat(rest, in)

LEMMA Passing ==
  ASSUME NEW out \in RowSeq, NEW mid \in RowSeq, NEW in \in RowSeq,
         NEW a, NEW next_a, NEW b, NEW next_b,
         StepsOn(a, next_a, out, mid), StepsOn(b, next_b, mid, in)
  PROVE  StepsOn(Cat(a, b), Cat(next_a, next_b), out, in)
<1>1. PICK r \in RowSeq : a = Cat(out, r) /\ next_a = Cat(r, mid)
  BY DEF StepsOn
<1>2. PICK s \in RowSeq : b = Cat(mid, s) /\ next_b = Cat(s, in)
  BY DEF StepsOn
<1>3. /\ Cat(mid, s) \in RowSeq /\ Cat(r, mid) \in RowSeq /\ Cat(r, Cat(mid, s)) \in RowSeq
  BY CatFacts
<1>4. Cat(a, b) = Cat(out, Cat(r, Cat(mid, s)))
  BY <1>1, <1>2, <1>3, CatFacts
<1>5. Cat(next_a, next_b) = Cat(Cat(r, Cat(mid, s)), in)
  BY <1>1, <1>2, <1>3, CatFacts
<1>6. QED
  BY <1>3, <1>4, <1>5 DEF StepsOn

LEMMA DropHead ==
  ASSUME NEW a \in Seq(Id), NEW b \in Seq(Id)
  PROVE  /\ SubSeq(a \o b, Len(a) + 1, Len(a \o b)) = b
         /\ IsPrefix(a, a \o b)
<1>1. /\ a \o b \in Seq(Id) /\ Len(a \o b) = Len(a) + Len(b)
      /\ Len(a) \in Nat /\ Len(b) \in Nat
  BY ConcatProperties, LenProperties
<1>2. SubSeq(a \o b, Len(a) + 1, Len(a \o b)) = b
  BY <1>1, SubSeqOfConcat2, SubSeqFull
<1>3. SubSeq(a \o b, 1, Len(a)) = SubSeq(a, 1, Len(a))
  BY <1>1, SubSeqOfConcat1
<1>4. QED
  BY <1>1, <1>2, <1>3 DEF IsPrefix

Entering(in_valid, chunk) == When(Accepts(in_valid), RowsOf(chunk))

(* After an edge: what was held gave out its first rows and took some in,  *)
(* and the invariant's values for the next state.                          *)
Onward(held, out, in) ==
  \E d \in Id, n1, n2, rest \in Seq(Id) :
    /\ Owing(out_r', d, n1, n2) /\ Pending0(p0', Carry2(p1', d))
    /\ held = out \o rest /\ Held(p1', d, n1, n2, Behind') = rest \o in

(* Away from a reset every word moves on by at most one stage.             *)
LEMMA RunningClock ==
  ASSUME Gapless, DecoderInv, ~Cold(in_r) /\ ~Cold(p0) /\ ~Cold(p1) /\ ~Cold(out_r),
         NEW in_valid, NEW chunk, NEW out_ready,
         Inputs(in_valid, chunk, out_ready), Clock(in_valid, chunk, out_ready),
         NEW c, NEW o1, NEW o2, Owing(out_r, c, o1, o2), Pending0(p0, Carry2(p1, c))
  PROVE  /\ Together' /\ Controlling' /\ Arriving'
         /\ Onward(Held(p1, c, o1, o2, Behind), When(PassesOut(out_ready), o1),
                   Entering(in_valid, chunk))
<1>1. /\ Typed /\ Controlling /\ Arriving
      /\ ~UpstreamStalls /\ out_ready \in BOOLEAN
      /\ c \in Id /\ o1 \in Seq(Id) /\ o2 \in Seq(Id)
  BY DEF DecoderInv, Gapless, Inputs, Owing
<1>2. ctl' = Controller
  BY DEF Clock
<1>3. /\ GoodStage(in_r', AnyChunk) /\ Moves(in_r, in_r', in_valid, chunk, FifoReady)
      /\ GoodStage(p0', Word0) /\ Moves(p0, p0', Busy, ToP0, p1.ready)
      /\ GoodStage(p1', Word1) /\ Moves(p1, p1', p0.valid, ToP1, out_r.ready)
      /\ GoodStage(out_r', RowIds)
      /\ \E beyond \in Beyond : Moves(out_r, out_r', p1.valid, ToOut(beyond), out_ready)
  BY <1>1, ClockStages
<1>4. Together'
  BY <1>3 DEF Together, GoodStage, Cold
<1> DEFINE k == Carry2(p1, c)
           h1 == Head1(p1, c)
<1>5. PICK d \in Id : d = IF Passes1 THEN LastLane(p1.data, c) ELSE c
  BY <1>1, ContentTypes
<1>6. PICK n1 \in Seq(Id), n2 \in Seq(Id) :
        /\ Owing(out_r', d, n1, n2)
        /\ \E rest \in Seq(Id) : /\ o1 \o o2 = When(PassesOut(out_ready), o1) \o rest
                                 /\ n1 \o n2 = rest \o When(Passes1, h1)
  <2>1. PICK beyond \in Beyond : Moves(out_r, out_r', p1.valid, ToOut(beyond), out_ready)
    BY <1>3
  <2>2. OutOnward(IF Passes1 THEN LastLane(p1.data, c) ELSE c, c, o1, o2, out_ready)
    <3>1. /\ Typed /\ ~(Cold(out_r) /\ p1.valid) /\ out_ready \in BOOLEAN
          /\ Owing(out_r, c, o1, o2) /\ GoodStage(out_r', RowIds)
      BY <1>1, <1>3
    <3>2. QED
      BY <2>1, <3>1, OutMoves
  <2>3. OutOnward(d, c, o1, o2, out_ready)
    BY <1>5, <2>2
  <2>4. QED
    BY <2>3 DEF OutOnward
<1>7. /\ Carry2(p1', d) = IF Passes0 THEN LastLane(Relative(p0.data), k) ELSE k
      /\ \E rest \in Seq(Id) : /\ h1 \o Tail1(p1, c) = When(Passes1, h1) \o rest
                               /\ Head1(p1', d) \o Tail1(p1', d) = rest \o When(Passes0, Head0)
  BY <1>1, <1>3, <1>5, Pipe1Moves
<1>8. /\ WordTaken => p0'.valid /\ p0'.spare = ToP0
      /\ ~p0.ready => p0'.valid /\ p0'.spare = p0.spare
      /\ Pending0(p0', Carry2(p1', d))
      /\ \E rest \in Seq(Id) : /\ Head0 \o Tail0 = When(Passes0, Head0) \o rest
                               /\ Head0' \o Tail0' = rest \o When(WordTaken, Rows0(ToP0))
  <2>1. k \in Id
    BY <1>1, ContentTypes
  <2>2. QED
    BY <1>1, <1>3, <1>7, <2>1, Pipe0Moves
<1>9. \E rest \in Seq(Id) : /\ InTask = When(WordTaken, Rows0(ToP0)) \o rest
                            /\ InTask' = rest \o When(Pop, InHead)
  <2>1. in_r.valid => GoodChunk(Place0, in_r.data)
    BY <1>1 DEF Arriving
  <2>2. QED
    BY <1>1, <1>2, <2>1, TaskMoves
<1>10. Place0' = IF Pop THEN Then(Place0, in_r.data) ELSE Place0
  BY <1>1, <1>2, <1>8, PlaceMoves
<1>11. /\ Arriving'
       /\ in_r.valid /\ ~Pop => in_r'.valid
       /\ \E rest \in Seq(Id) :
            /\ InHead \o InTail = When(Pop, InHead) \o rest
            /\ InHead' \o InTail' = rest \o When(Accepts(in_valid), RowsOf(chunk))
  BY <1>1, <1>3, <1>10, InMoves
<1>12. Controlling'
  BY <1>1, <1>2, <1>8, <1>11, ControllingStep
<1> DEFINE l == When(PassesOut(out_ready), o1)
           w1 == When(Passes1, h1)
           w0 == When(Passes0, Head0)
           wt == When(WordTaken, Rows0(ToP0))
           wp == When(Pop, InHead)
           e == Entering(in_valid, chunk)
<1>13. /\ l \in Seq(Id) /\ w1 \in Seq(Id) /\ w0 \in Seq(Id) /\ wt \in Seq(Id)
       /\ wp \in Seq(Id) /\ e \in Seq(Id)
  <2>1. /\ l \in Seq(Id) /\ w1 \in Seq(Id) /\ w0 \in Seq(Id)
    BY <1>1, ContentTypes, Nothing
  <2>2. wt \in Seq(Id)
    BY <1>1, ToP0Type, WordTypes0, Nothing
  <2>3. wp \in Seq(Id)
    <3>1. in_r.valid => ChunkRows(Place0, in_r.data) \in Seq(Id)
      BY <1>1, PlaceTypes, ChunkRowsFacts DEF Arriving
    <3>2. InHead \in Seq(Id)
      BY <3>1, Nothing DEF InHead
    <3>3. QED
      BY <3>2, Nothing
  <2>4. e \in Seq(Id)
    <3>1. in_valid => chunk \in Chunk /\ Continues(chunk)
      BY DEF Inputs, Clock
    <3>2. in_valid => RowsOf(chunk) \in Seq(Id)
      BY <1>1, <3>1, AcceptedChunk
    <3>3. QED
      BY <3>2, Nothing DEF Entering, Accepts, When
  <2>5. QED
    BY <2>1, <2>2, <2>3, <2>4
<1>14. /\ StepsOn(o1 \o o2, n1 \o n2, l, w1)
       /\ StepsOn(h1 \o Tail1(p1, c), Head1(p1', d) \o Tail1(p1', d), w1, w0)
       /\ StepsOn(Head0 \o Tail0, Head0' \o Tail0', w0, wt)
       /\ StepsOn(InTask, InTask', wt, wp)
       /\ StepsOn(InHead \o InTail, InHead' \o InTail', wp, e)
  BY <1>6, <1>7, <1>8, <1>9, <1>11 DEF Entering, StepsOn, RowSeq, Cat
<1> HIDE DEF l, w1, w0, wt, wp, e
<1>15. /\ l \in RowSeq /\ w1 \in RowSeq /\ w0 \in RowSeq /\ wt \in RowSeq
       /\ wp \in RowSeq /\ e \in RowSeq
  BY <1>13 DEF RowSeq
<1>16. StepsOn(Held(p1, c, o1, o2, Behind), Held(p1', d, n1, n2, Behind'), l, e)
  <2> DEFINE a == Cat(InTask, InHead \o InTail)
             b == Cat(Head0 \o Tail0, a)
             f == Cat(h1 \o Tail1(p1, c), b)
             fn == Cat(Head1(p1', d) \o Tail1(p1', d), b')
  <2>1. StepsOn(a, a', wt, e)
    BY <1>14, <1>15, Passing
  <2> HIDE DEF a
  <2>2. StepsOn(b, b', w0, e)
    BY <1>14, <1>15, <2>1, Passing
  <2> HIDE DEF b
  <2>3. StepsOn(f, fn, w1, e)
    BY <1>14, <1>15, <2>2, Passing
  <2> HIDE DEF f, fn
  <2>4. StepsOn(Cat(o1 \o o2, f), Cat(n1 \o n2, fn), l, e)
    BY <1>14, <1>15, <2>3, Passing
  <2>5. /\ Held(p1, c, o1, o2, Behind) = Cat(o1 \o o2, f)
        /\ Held(p1', d, n1, n2, Behind') = Cat(n1 \o n2, fn)
    BY DEF Held, Behind, Cat, a, b, f, fn
  <2>6. QED
    BY <2>4, <2>5
<1>17. \E rest \in Seq(Id) : /\ Held(p1, c, o1, o2, Behind) = l \o rest
                             /\ Held(p1', d, n1, n2, Behind') = rest \o e
  BY <1>16 DEF StepsOn, RowSeq, Cat
<1>18. QED
  BY <1>4, <1>6, <1>8, <1>11, <1>12, <1>17 DEF Onward, l, e

-----------------------------------------------------------------------------
(* A decoder that holds nothing and is between two vectors: after a reset, *)
(* and one edge later.                                                     *)
Vacant(s) == s.state = "PIPE" /\ ~s.valid
Fresh ==
  /\ Vacant(in_r) /\ Vacant(p0) /\ Vacant(p1) /\ Vacant(out_r)
  /\ ctl.state = "IDLE" /\ ctl.bias = "BIAS_0" /\ ctl.bias_latch = "BIAS_0"
  /\ ~vec.open /\ owed = <<>>

LEMMA NothingHeld ==
  ASSUME Typed, Empty, NEW c, NEW o1, NEW o2, Owing(out_r, c, o1, o2)
  PROVE  Held(p1, c, o1, o2, Behind) = <<>>
<1>1. /\ in_r.state # "SKID" /\ p0.state # "SKID" /\ p1.state # "SKID"
      /\ out_r.state # "SKID"
  BY DEF Typed, Shape, SkidShape, Empty
<1>2. /\ o1 = <<>> /\ o2 = <<>> /\ Head1(p1, c) = <<>> /\ Tail1(p1, c) = <<>>
      /\ Head0 = <<>> /\ Tail0 = <<>> /\ InTask = <<>> /\ InHead = <<>> /\ InTail = <<>>
  BY <1>1 DEF Empty, Owing, Head1, Tail1, Head0, Tail0, InTask, InHead, InTail
<1>3. <<>> \o <<>> = <<>>
  BY Nothing
<1>4. QED
  BY <1>2, <1>3 DEF Held, Behind

LEMMA FreshHolds == Typed /\ Together /\ Fresh => DecoderInv
<1> SUFFICES ASSUME Typed, Together, Fresh PROVE DecoderInv
  OBVIOUS
<1> DEFINE c == out_r.spare.ids[OUT_PAR - 1]
<1>1. c \in Id /\ <<>> \in Seq(Id)
  <2>1. out_r.spare.ids \in [Lane -> Id]
    BY RegisterTypes DEF RowIds
  <2>2. QED
    BY <2>1, Parameters, Nothing
<1>2. Owing(out_r, c, <<>>, <<>>)
  BY <1>1 DEF Owing, Fresh, Vacant
<1>3. owed = Held(p1, c, <<>>, <<>>, Behind)
  BY <1>2, NothingHeld DEF Fresh, Vacant, Empty
<1>4. Pending0(p0, Carry2(p1, c)) /\ Controlling
  BY DEF Pending0, Controlling, Fresh, Vacant
<1>5. Arriving
  BY DEF Arriving, PlaceOfNext, Place2, Place1, Place0, Fresh, Vacant
<1> HIDE DEF c
<1>6. Accounted
  BY <1>2, <1>3, <1>4 DEF Accounted
<1>7. QED
  BY <1>4, <1>5, <1>6 DEF DecoderInv

LEMMA InitHolds == Init => DecoderInv
<1> SUFFICES ASSUME Init PROVE DecoderInv
  OBVIOUS
<1>1. Typed
  BY InitTypes
<1>2. Fresh
  BY DEF Init, Fresh, Vacant, AfterReset, Closed
<1>3. Together
  BY DEF Init, Together, Cold, AfterReset
<1>4. QED
  BY <1>1, <1>2, <1>3, FreshHolds

(* A reset between two vectors, and the edge after it.                     *)
LEMMA ResetIsFresh ==
  ASSUME Gapless, DecoderInv, Reset
  PROVE  Together' /\ Fresh'
<1>1. Typed /\ Controlling
  BY DEF DecoderInv
<1>2. ~in_r.valid /\ ctl.state = "IDLE"
  BY DEF Reset, Gapless
<1>3. Bias = "BIAS_0"
  <2>1. ctl.bias \in BiasState /\ ctl.bias = ctl.bias_latch /\ ctl.bias # "PREV_BIAS"
    BY <1>1, <1>2, RegisterTypes DEF Controls, Controlling
  <2>2. Bias = ctl.bias_latch
    BY <1>2 DEF Bias, Pop, ChunkDone, WordTaken
  <2>3. QED
    BY <2>1, <2>2 DEF BiasState
<1>4. /\ ctl'.state = "IDLE" /\ ctl'.bias = "BIAS_0" /\ ctl'.bias_latch = Bias
  <2>1. ctl \in Controls
    BY <1>1, RegisterTypes
  <2>2. ctl' = [ctl EXCEPT !.state = "IDLE", !.bias = "BIAS_0", !.last = FALSE,
                           !.task = NoTask, !.bias_latch = Bias, !.offset = Offset]
    BY DEF Reset
  <2>3. QED
    BY <2>1, <2>2 DEF Controls
<1>5. /\ Vacant(in_r') /\ Vacant(p0') /\ Vacant(p1') /\ Vacant(out_r')
      /\ Cold(in_r') /\ Cold(p0') /\ Cold(p1') /\ Cold(out_r')
  BY DEF Reset, AfterReset, Vacant, Cold
<1>6. ~vec'.open /\ owed' = <<>>
  BY DEF Reset, Closed
<1>7. QED
  BY <1>3, <1>4, <1>5, <1>6 DEF Together, Fresh, Vacant, Cold

LEMMA FirstClock ==
  ASSUME DecoderInv, Cold(in_r) /\ Cold(p0) /\ Cold(p1) /\ Cold(out_r), ctl.state = "IDLE",
         NEW in_valid, NEW chunk, NEW out_ready,
         Inputs(in_valid, chunk, out_ready), Clock(in_valid, chunk, out_ready)
  PROVE  Together' /\ Fresh'
<1>1. Typed /\ Controlling /\ Arriving /\ Accounted
  BY DEF DecoderInv
<1>2. Vacant(in_r) /\ Vacant(p0) /\ Vacant(p1) /\ Vacant(out_r)
  BY <1>1 DEF Typed, Shape, SkidShape, Cold, Vacant
<1>3. ~in_valid /\ ~FifoReady /\ ~Busy /\ ~Pop /\ ~ChunkDone
  BY DEF Clock, Cold, FifoReady, Busy, Pop, ChunkDone, WordTaken
<1>4. /\ GoodStage(in_r', AnyChunk) /\ Moves(in_r, in_r', in_valid, chunk, FifoReady)
      /\ GoodStage(p0', Word0) /\ Moves(p0, p0', Busy, ToP0, p1.ready)
      /\ GoodStage(p1', Word1) /\ Moves(p1, p1', p0.valid, ToP1, out_r.ready)
      /\ GoodStage(out_r', RowIds)
      /\ \E beyond \in Beyond : Moves(out_r, out_r', p1.valid, ToOut(beyond), out_ready)
  BY <1>1, ClockStages
<1>5. Vacant(in_r') /\ Vacant(p0') /\ Vacant(p1') /\ Vacant(out_r')
  BY <1>2, <1>3, <1>4 DEF Vacant, Moves, Loads, Fills, Waits, Drains, Stalls
<1>6. Together'
  BY <1>4 DEF Together, GoodStage, Cold
<1>7. ctl'.state = "IDLE" /\ ctl'.bias = "BIAS_0" /\ ctl'.bias_latch = "BIAS_0"
  <2>1. ctl.bias \in BiasState /\ ctl.bias = ctl.bias_latch /\ ctl.bias # "PREV_BIAS"
    BY <1>1, <1>2, RegisterTypes DEF Controls, Controlling, Vacant
  <2>2. Bias = ctl.bias_latch
    BY <1>3 DEF Bias
  <2>3. ctl' = Controller
    BY DEF Clock
  <2>4. QED
    BY <1>1, <1>3, <2>1, <2>2, <2>3, ControlSteps DEF BiasState
<1>8. ~vec'.open
  BY <1>1, <1>2, <1>3 DEF Arriving, Vacant, Clock
<1>9. owed' = <<>>
  <2>1. owed = <<>>
    BY <1>1, <1>2, NothingHeld DEF Accounted, Vacant, Empty
  <2>2. owed' = SubSeq(owed, 1, 0) \o <<>>
    BY <1>2, <1>3, <2>1 DEF Clock, Vacant
  <2>3. SubSeq(owed, 1, 0) = <<>>
    BY SubSeqEmpty
  <2>4. QED
    BY <2>2, <2>3, Nothing
<1>10. QED
  BY <1>5, <1>6, <1>7, <1>8, <1>9 DEF Fresh, Vacant

-----------------------------------------------------------------------------
(* A word that leaves, against the rows owed: no lane too many, and the    *)
(* rows that begin in it in their places; all of them in the wide case.    *)
InPlace(word, rows) ==
  /\ Len(word) <= Len(rows)
  /\ \A x \in 1..Len(word) : rows[x] # rows[1] => word[x] = rows[x]

LEMMA LeavesInPlace ==
  ASSUME OUT_PAR <= IN_PAR + 2, Typed, NEW c, NEW o1, NEW o2, Owing(out_r, c, o1, o2),
         out_r.valid, NEW rest \in Seq(Id)
  PROVE  /\ Delivered(out_r.data) \in Seq(Id) /\ Len(Delivered(out_r.data)) = Len(o1)
         /\ InPlace(Delivered(out_r.data), o1 \o rest)
         /\ IN_PAR = OUT_PAR => Delivered(out_r.data) = o1
<1> DEFINE word == Delivered(out_r.data)
           k == LanesOf(out_r.data)
<1>1. /\ o1 \in Seq(Id) /\ Len(o1) = k
      /\ \A x \in 1..k : o1[x] # o1[1] \/ IN_PAR = OUT_PAR => out_r.data.ids[x - 1] = o1[x]
  BY DEF Owing, Shows
<1>2. out_r.data \in RowIds
  BY RegisterTypes
<1>3. word \in Seq(Id) /\ word = [x \in 1..k |-> out_r.data.ids[x - 1]]
  BY <1>2, DeliveredFacts
<1>4. k \in Nat
  BY <1>2, LaneCount DEF RowIds
<1> HIDE DEF word, k
<1>5. Len(word) = k /\ \A x \in 1..k : word[x] = out_r.data.ids[x - 1]
  BY <1>3, <1>4
<1>6. /\ Len(o1 \o rest) = k + Len(rest) /\ Len(rest) \in Nat
      /\ \A x \in 1..k : (o1 \o rest)[x] = o1[x]
  <2>1. Len(rest) \in Nat
    BY LenProperties
  <2>2. /\ Len(o1 \o rest) = k + Len(rest)
        /\ \A x \in 1..(k + Len(rest)) :
              (o1 \o rest)[x] = IF x <= k THEN o1[x] ELSE rest[x - k]
    BY <1>1, ConcatProperties
  <2>3. \A x \in 1..k : x \in 1..(k + Len(rest)) /\ x <= k
    BY <1>4, <2>1
  <2>4. QED
    BY <2>1, <2>2, <2>3
<1>7. InPlace(word, o1 \o rest)
  <2>1. k <= k + Len(rest) /\ \A x \in 1..k : 1 \in 1..k
    BY <1>4, <1>6
  <2>2. QED
    BY <1>1, <1>5, <1>6, <2>1 DEF InPlace
<1>8. IN_PAR = OUT_PAR => word = o1
  BY <1>1, <1>3, <1>5, SeqEqual
<1>9. QED
  BY <1>1, <1>3, <1>5, <1>7, <1>8 DEF word

-----------------------------------------------------------------------------
(* The invariant along every step, and what leaves at it.                  *)
Sends(word, rows) == InPlace(word, rows) /\ (IN_PAR = OUT_PAR => IsPrefix(word, rows))

LEMMA SendsNothing == ASSUME NEW rows \in Seq(Id) PROVE Sends(<<>>, rows)
<1>1. <<>> \o rows = rows /\ <<>> \in Seq(Id)
  BY Nothing
<1>2. IsPrefix(<<>>, rows)
  BY <1>1, DropHead
<1>3. Len(<<>>) = 0 /\ Len(rows) \in Nat
  OBVIOUS
<1>4. QED
  BY <1>2, <1>3 DEF Sends, InPlace

LEMMA ClockHolds ==
  ASSUME Gapless, DecoderInv, NEW in_valid, NEW chunk, NEW out_ready,
         Inputs(in_valid, chunk, out_ready), Clock(in_valid, chunk, out_ready)
  PROVE  DecoderInv' /\ Sends(row_word', owed)
<1>1. Typed /\ Together /\ Accounted /\ owed \in Seq(Id) /\ out_ready \in BOOLEAN
  BY DEF DecoderInv, Typed, Inputs
<1>2. Typed'
  BY <1>1, ClockTypes
<1>3. /\ row_word' = IF PassesOut(out_ready) THEN Delivered(out_r.data) ELSE <<>>
      /\ owed' = SubSeq(owed, Len(row_word') + 1, Len(owed)) \o Entering(in_valid, chunk)
  BY DEF Clock, Entering, Accepts, PassesOut, When
<1>4. CASE Cold(in_r) /\ Cold(p0) /\ Cold(p1) /\ Cold(out_r) /\ ctl.state = "IDLE"
  <2>1. Together' /\ Fresh'
    BY <1>4, FirstClock
  <2>2. DecoderInv'
    BY <1>2, <2>1, FreshHolds, PTL
  <2>3. row_word' = <<>>
    BY <1>1, <1>3, <1>4 DEF PassesOut, Cold, Typed, Shape, SkidShape
  <2>4. QED
    BY <1>1, <2>2, <2>3, SendsNothing
<1>5. CASE ~Cold(in_r) /\ ~Cold(p0) /\ ~Cold(p1) /\ ~Cold(out_r)
  <2>1. PICK c, o1, o2 : /\ Owing(out_r, c, o1, o2) /\ Pending0(p0, Carry2(p1, c))
                         /\ owed = Held(p1, c, o1, o2, Behind)
    BY <1>1 DEF Accounted
  <2>2. /\ Together' /\ Controlling' /\ Arriving'
        /\ Onward(Held(p1, c, o1, o2, Behind), When(PassesOut(out_ready), o1),
                  Entering(in_valid, chunk))
    BY <1>5, <2>1, RunningClock
  <2>3. PICK d \in Id, n1, n2, rest \in Seq(Id) :
             /\ Owing(out_r', d, n1, n2) /\ Pending0(p0', Carry2(p1', d))
             /\ owed = When(PassesOut(out_ready), o1) \o rest
             /\ Held(p1', d, n1, n2, Behind') = rest \o Entering(in_valid, chunk)
    BY <2>1, <2>2 DEF Onward
  <2>4. /\ Sends(row_word', owed)
        /\ SubSeq(owed, Len(row_word') + 1, Len(owed)) = rest
    <3>1. o1 \in Seq(Id)
      BY <2>1 DEF Owing
    <3>2. CASE PassesOut(out_ready)
      <4>1. /\ Len(row_word') = Len(o1) /\ InPlace(row_word', o1 \o rest)
            /\ IN_PAR = OUT_PAR => row_word' = o1
        BY <1>1, <1>3, <2>1, <3>2, LeavesInPlace DEF Gapless, PassesOut
      <4>2. owed = o1 \o rest
        BY <2>3, <3>2 DEF When
      <4>3. SubSeq(owed, Len(o1) + 1, Len(owed)) = rest /\ IsPrefix(o1, owed)
        BY <3>1, <4>2, DropHead
      <4>4. QED
        BY <4>1, <4>2, <4>3 DEF Sends
    <3>3. CASE ~PassesOut(out_ready)
      <4>1. owed = <<>> \o rest /\ row_word' = <<>> /\ <<>> \in Seq(Id)
        BY <1>3, <2>3, <3>3, Nothing DEF When
      <4>2. SubSeq(owed, Len(<<>>) + 1, Len(owed)) = rest
        BY <4>1, DropHead
      <4>3. QED
        BY <1>1, <4>1, <4>2, SendsNothing
    <3>4. QED
      BY <3>2, <3>3
  <2>5. owed' = Held(p1', d, n1, n2, Behind')
    BY <1>3, <2>3, <2>4
  <2>6. Accounted'
    BY <2>3, <2>5 DEF Accounted
  <2>7. QED
    BY <1>2, <2>2, <2>4, <2>6 DEF DecoderInv
<1>6. QED
  BY <1>1, <1>4, <1>5 DEF Together

LEMMA NextHolds ==
  ASSUME Gapless, DecoderInv, Next
  PROVE  DecoderInv' /\ Sends(row_word', owed)
<1>1. Typed /\ owed \in Seq(Id)
  BY DEF DecoderInv, Typed
<1>2. CASE Reset
  <2>1. Typed'
    BY <1>1, <1>2, ResetTypes
  <2>2. Together' /\ Fresh'
    BY <1>2, ResetIsFresh
  <2>3. DecoderInv'
    BY <2>1, <2>2, FreshHolds, PTL
  <2>4. row_word' = <<>>
    BY <1>2 DEF Reset
  <2>5. QED
    BY <1>1, <2>3, <2>4, SendsNothing
<1>3. CASE \E in_valid, chunk, out_ready :
             Inputs(in_valid, chunk, out_ready) /\ Clock(in_valid, chunk, out_ready)
  BY <1>3, ClockHolds
<1>4. QED
  BY <1>2, <1>3, NextInputs

LEMMA StutterHolds == DecoderInv /\ UNCHANGED vars => DecoderInv'
<1> SUFFICES ASSUME DecoderInv, UNCHANGED vars PROVE DecoderInv'
  OBVIOUS
<1>1. /\ in_r' = in_r /\ ctl' = ctl /\ p0' = p0 /\ p1' = p1 /\ out_r' = out_r
      /\ vec' = vec /\ owed' = owed /\ row_word' = row_word
  BY DEF vars
<1>2. Typed' /\ Together'
  BY <1>1 DEF DecoderInv, Typed, Together
<1>3. Sofar' = Sofar
  BY <1>1 DEF Sofar
<1>4. Controlling'
  BY <1>1, <1>3 DEF DecoderInv, Controlling
<1>5. Place0' = Place0 /\ Place1' = Place1 /\ Place2' = Place2 /\ PlaceOfNext' = PlaceOfNext
  BY <1>1 DEF Place0, Place1, Place2, PlaceOfNext
<1>6. Arriving'
  BY <1>1, <1>5 DEF DecoderInv, Arriving
<1>7. Behind' = Behind
  BY <1>1, <1>3, <1>5 DEF Behind, Head0, Tail0, InTask, InHead, InTail
<1>8. Accounted'
  BY <1>1, <1>7 DEF DecoderInv, Accounted
<1>9. QED
  BY <1>2, <1>4, <1>6, <1>8 DEF DecoderInv

LEMMA DecoderInvariant ==
  ASSUME Gapless
  PROVE  Spec => []DecoderInv
<1>1. Init => DecoderInv
  BY InitHolds
<1>2. DecoderInv /\ [Next]_vars => DecoderInv'
  BY NextHolds, StutterHolds
<1>3. QED
  BY <1>1, <1>2, PTL DEF Spec

(* A row that begins in a word is right, for every number of lanes in and  *)
(* out (16 and 8 in the repository's testbench), every vector of offsets   *)
(* and every pattern of stalls behind the decoder: what leaves             *)
(* row_decoder.sv has a lane for each of the next row ids owed, and only   *)
(* the lanes of a row that continues from an earlier word may be wrong.    *)
THEOREM DecoderRowsBeginInPlace ==
  ASSUME Gapless
  PROVE  Spec => RowsBeginInPlace
<1>1. DecoderInv /\ [Next]_vars
        => [/\ Len(row_word') <= Len(owed)
            /\ \A x \in 1..Len(row_word') : owed[x] # owed[1] => row_word'[x] = owed[x]]_vars
  BY NextHolds DEF Sends, InPlace
<1>2. QED
  BY <1>1, DecoderInvariant, PTL DEF Spec, RowsBeginInPlace

(* Nothing is forgotten, for every number of lanes too: when the registers *)
(* of the decoder are all empty, no row id it has taken in is still owed.  *)
THEOREM DecoderForgetsNothing ==
  ASSUME Gapless
  PROVE  Spec => []NothingForgotten
<1>1. DecoderInv => NothingForgotten
  BY NothingHeld DEF DecoderInv, Accounted, NothingForgotten
<1>2. QED
  BY <1>1, DecoderInvariant, PTL

(* All row ids in order, when the words are as wide as the chunks: then    *)
(* the lane line 263 carries from is the last one.  For fewer lanes out    *)
(* than in it is none of the word's, and the statement is false: the run   *)
(* row_decoder_lanes refutes it.                                           *)
THEOREM DecoderSendsInOrder ==
  ASSUME Gapless, IN_PAR = OUT_PAR
  PROVE  Spec => RowIdsInOrder
<1>1. DecoderInv /\ [Next]_vars => [IsPrefix(row_word', owed)]_vars
  BY NextHolds DEF Sends
<1>2. QED
  BY <1>1, DecoderInvariant, PTL DEF Spec, RowIdsInOrder
=============================================================================
