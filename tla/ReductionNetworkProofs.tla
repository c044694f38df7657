----------------------- MODULE ReductionNetworkProofs -----------------------
(***************************************************************************)
(* That the reduction network loses no word and counts none twice, for     *)
(* every width, every set of ids and every pattern of stalls.              *)
(***************************************************************************)
EXTENDS ReductionNetwork, FiniteSetTheorems, DataInduction, TLAPS

(* A signal of a lane: a word, or NoWord without valid.                    *)
Sig == [valid : {TRUE}, word : Word] \cup {[valid |-> FALSE, word |-> NoWord]}

LEMMA SigIs ==
  ASSUME NEW x \in Sig
  PROVE  /\ x.valid \in BOOLEAN
         /\ x.valid => x.word \in Word /\ x.word.id \in Ids /\ x.word.parts # {}
                       /\ x.word.parts \in SUBSET Token
         /\ ~x.valid => x.word = NoWord /\ x.word.parts = {}
<1>1. CASE x \in [valid : {TRUE}, word : Word]
  <2>1. x.valid = TRUE /\ x.word \in Word
    BY <1>1
  <2>2. \A w \in Word : w.id \in Ids /\ w.parts # {} /\ w.parts \in SUBSET Token
    BY DEF Word
  <2>3. QED
    BY <2>1, <2>2
<1>2. CASE x = [valid |-> FALSE, word |-> NoWord]
  BY <1>2 DEF NoWord
<1>3. QED
  BY <1>1, <1>2 DEF Sig

LEMMA SignalIsSig ==
  ASSUME NEW v \in BOOLEAN, NEW w, v => w \in Word
  PROVE  /\ Signal(v, w) \in Sig /\ Signal(v, w).valid = v
         /\ Signal(v, w).word = IF v THEN w ELSE NoWord
BY DEF Signal, Sig

-----------------------------------------------------------------------------
(* One operator.                                                           *)

(* Where word t goes from lanes x, y to lanes u, v, and that the ready of  *)
(* its way comes back.                                                     *)
Moves(x, y, u, v, rx, ry, ru, rv, t) ==
  ~(t \in x.word.parts /\ t \in y.word.parts) =>
    /\ ~(t \in u.word.parts /\ t \in v.word.parts)
    /\ t \in x.word.parts \/ t \in y.word.parts <=> t \in u.word.parts \/ t \in v.word.parts
    /\ t \in x.word.parts /\ t \in u.word.parts => rx = ru
    /\ t \in x.word.parts /\ t \in v.word.parts => rx = rv
    /\ t \in y.word.parts /\ t \in u.word.parts => ry = ru
    /\ t \in y.word.parts /\ t \in v.word.parts => ry = rv

OpCarries(k, a, b, ra, rb, t) ==
  Moves(a, b, OpOut(k, a, b)[1], OpOut(k, a, b)[2],
        OpReady(k, a, b, ra, rb)[1], OpReady(k, a, b, ra, rb)[2], ra, rb, t)

LEMMA OpMoves ==
  ASSUME NEW k, NEW a \in Sig, NEW b \in Sig, NEW ra \in BOOLEAN, NEW rb \in BOOLEAN
  PROVE  /\ OpOut(k, a, b)[1] \in Sig /\ OpOut(k, a, b)[2] \in Sig
         /\ OpReady(k, a, b, ra, rb)[1] \in BOOLEAN /\ OpReady(k, a, b, ra, rb)[2] \in BOOLEAN
         /\ \A t : OpCarries(k, a, b, ra, rb, t)
<1> DEFINE off == Signal(FALSE, NoWord)
<1>1. off \in Sig /\ ~off.valid /\ off.word.parts = {}
  BY DEF Signal, Sig, NoWord
<1>2. CASE Match(a, b)
  <2>1. a.valid /\ b.valid /\ Sum(a, b) \in Word
    BY <1>2, SigIs DEF Match, Sum, Word
  <2> DEFINE s == Signal(TRUE, Sum(a, b))
  <2>2. s \in Sig /\ s.word.parts = a.word.parts \cup b.word.parts
    <3>1. s \in Sig /\ s.word = Sum(a, b)
      BY <2>1, SignalIsSig
    <3>2. Sum(a, b).parts = a.word.parts \cup b.word.parts
      BY DEF Sum
    <3>3. QED
      BY <3>1, <3>2
  <2> HIDE DEF s, off
  <2>3. OpOut(k, a, b) = IF ACloserToCenter(k) THEN <<s, off>> ELSE <<off, s>>
    BY <1>2 DEF OpOut, s, off
  <2>4. OpReady(k, a, b, ra, rb) = IF ACloserToCenter(k) THEN <<ra, ra>> ELSE <<rb, rb>>
    BY <1>2 DEF OpReady
  <2>5. QED
    BY <1>1, <2>2, <2>3, <2>4 DEF OpCarries, Moves
<1>3. CASE a.valid /\ b.valid /\ ~Match(a, b)
  BY <1>3 DEF OpOut, OpReady, OpCarries, Moves
<1>4. CASE ~(a.valid /\ b.valid)
  <2>1. ~Match(a, b)
    BY <1>4 DEF Match
  <2> DEFINE s == Only(a, b)
  <2>2. s \in Sig /\ s.word.parts = a.word.parts \cup b.word.parts
    BY <1>4, SigIs DEF Only
  <2> HIDE DEF s, off
  <2>3. OpOut(k, a, b) = IF ACloserToCenter(k) THEN <<s, off>> ELSE <<off, s>>
    BY <1>4, <2>1 DEF OpOut, s, off
  <2>4. OpReady(k, a, b, ra, rb) =
          IF ACloserToCenter(k) /\ b.valid /\ ~a.valid THEN <<ra, ra>>
          ELSE IF ~ACloserToCenter(k) /\ a.valid /\ ~b.valid THEN <<rb, rb>>
          ELSE <<ra, rb>>
    BY <2>1 DEF OpReady
  <2>5. (~a.valid => a.word.parts = {}) /\ (~b.valid => b.word.parts = {})
    BY SigIs
  <2>6. QED
    BY <1>1, <1>4, <2>2, <2>3, <2>4, <2>5 DEF OpCarries, Moves
<1>5. QED
  BY <1>2, <1>3, <1>4

-----------------------------------------------------------------------------
(* What a layer, or several of them, do to the words between the lanes in  *)
(* and out, with ready rin in front and rout behind: each word that is on  *)
(* one lane in front is on one lane behind, and is taken from the former   *)
(* just when the latter is taken.                                          *)
Once(x, t) == \A k, l \in Lane : t \in x[k].word.parts /\ t \in x[l].word.parts => k = l
On(x, t) == \E k \in Lane : t \in x[k].word.parts

Carries(in, out, rin, rout) ==
  \A t : Once(in, t) =>
    /\ Once(out, t)
    /\ On(in, t) <=> On(out, t)
    /\ \A k, l \in Lane : t \in in[k].word.parts /\ t \in out[l].word.parts => rin[k] = rout[l]

LEMMA CarriesOn ==
  ASSUME NEW a, NEW b, NEW c, NEW ra, NEW rb, NEW rc, Carries(a, b, ra, rb), Carries(b, c, rb, rc)
  PROVE  Carries(a, c, ra, rc)
<1> SUFFICES ASSUME NEW t, Once(a, t)
             PROVE  /\ Once(c, t) /\ (On(a, t) <=> On(c, t))
                    /\ \A k, l \in Lane : t \in a[k].word.parts /\ t \in c[l].word.parts
                                            => ra[k] = rc[l]
  BY DEF Carries
<1>1. Once(b, t) /\ (On(a, t) <=> On(b, t))
  BY DEF Carries
<1>2. Once(c, t) /\ (On(b, t) <=> On(c, t))
  BY <1>1 DEF Carries
<1>3. ASSUME NEW k \in Lane, NEW l \in Lane, t \in a[k].word.parts, t \in c[l].word.parts
      PROVE  ra[k] = rc[l]
  <2>1. PICK m \in Lane : t \in b[m].word.parts
    BY <1>1, <1>3 DEF On
  <2>2. ra[k] = rb[m]
    BY <1>3, <2>1 DEF Carries
  <2>3. rb[m] = rc[l]
    BY <1>1, <1>3, <2>1 DEF Carries
  <2>4. QED
    BY <2>2, <2>3
<1>4. QED
  BY <1>1, <1>2, <1>3

LEMMA CarriesSame == ASSUME NEW a, NEW r PROVE Carries(a, a, r, r)
BY DEF Carries, Once

-----------------------------------------------------------------------------
(* One layer.  The lanes fall into pairs under an operator and lanes that  *)
(* pass straight through; Pair(iter, k) is the first lane of k's pair.     *)
Pair(iter, k) == IF OpOn(iter, k) /\ ~IsOp(iter, k) THEN k - 1 ELSE k

LEMMA PairsAreDisjoint ==
  ASSUME NEW iter \in Nat, NEW k \in Lane
  PROVE  /\ IsOp(iter, k) => /\ k + 1 \in Lane /\ ~IsOp(iter, k + 1) /\ OpOn(iter, k + 1)
                             /\ OpOn(iter, k) /\ (k > 0 => ~IsOp(iter, k - 1))
         /\ OpOn(iter, k) /\ ~IsOp(iter, k) => k - 1 \in Lane /\ IsOp(iter, k - 1)
<1>1. N \in Nat /\ k \in 0..(N - 1)
  BY NetworkAssumption DEF Lane
<1>2. k + 1 - 1 = k /\ (k - 1) + 1 = k
  BY <1>1
<1>3. /\ k % 2 # (k + 1) % 2
      /\ k > 0 => k % 2 # (k - 1) % 2
  BY <1>1
<1>4. IsOp(iter, k) => /\ k + 1 \in Lane /\ ~IsOp(iter, k + 1)
                       /\ (k > 0 => ~IsOp(iter, k - 1))
  BY <1>1, <1>3 DEF IsOp, Lane
<1>5. IsOp(iter, k) => OpOn(iter, k + 1) /\ OpOn(iter, k)
  BY <1>1, <1>2 DEF OpOn
<1>6. OpOn(iter, k) /\ ~IsOp(iter, k) => k - 1 \in Lane /\ IsOp(iter, k - 1)
  BY <1>1 DEF OpOn, Lane
<1>7. QED
  BY <1>4, <1>5, <1>6

(* The types, whichever driver of a lane prevails.                         *)
LEMMA LayerType ==
  ASSUME NEW iter \in Nat, NEW in \in [Lane -> Sig], NEW ready \in [Lane -> BOOLEAN]
  PROVE  LayerOut(iter, in) \in [Lane -> Sig] /\ LayerReady(iter, in, ready) \in [Lane -> BOOLEAN]
<1>1. ASSUME NEW k \in Lane, OpDrives(iter, k)
      PROVE  /\ IsOp(iter, k) => k + 1 \in Lane
             /\ ~IsOp(iter, k) => k - 1 \in Lane
  BY <1>1, PairsAreDisjoint DEF OpDrives
<1>2. ASSUME NEW k \in Lane
      PROVE  LayerOut(iter, in)[k] \in Sig /\ LayerReady(iter, in, ready)[k] \in BOOLEAN
  <2>1. CASE ~OpDrives(iter, k)
    BY <2>1 DEF LayerOut, LayerReady
  <2>2. CASE OpDrives(iter, k) /\ IsOp(iter, k)
    <3>1. k + 1 \in Lane
      BY <1>1, <2>2
    <3>2. /\ OpOut(k, in[k], in[k + 1])[1] \in Sig
          /\ OpReady(k, in[k], in[k + 1], ready[k], ready[k + 1])[1] \in BOOLEAN
      BY <3>1, OpMoves
    <3>3. QED
      BY <2>2, <3>2 DEF LayerOut, LayerReady
  <2>3. CASE OpDrives(iter, k) /\ ~IsOp(iter, k)
    <3>1. k - 1 \in Lane
      BY <1>1, <2>3
    <3>2. /\ OpOut(k - 1, in[k - 1], in[k])[2] \in Sig
          /\ OpReady(k - 1, in[k - 1], in[k], ready[k - 1], ready[k])[2] \in BOOLEAN
      BY <3>1, OpMoves
    <3>3. QED
      BY <2>3, <3>2 DEF LayerOut, LayerReady
  <2>4. QED
    BY <2>1, <2>2, <2>3
<1>3. QED
  BY <1>2 DEF LayerOut, LayerReady

LEMMA LayerCarries ==
  ASSUME ~CopierDrives, NEW iter \in Nat,
         NEW in \in [Lane -> Sig], NEW ready \in [Lane -> BOOLEAN]
  PROVE  Carries(in, LayerOut(iter, in), LayerReady(iter, in, ready), ready)
<1> DEFINE out == LayerOut(iter, in)
           rdy == LayerReady(iter, in, ready)
           P(k) == Pair(iter, k)
           Has(w, t) == t \in w.word.parts
<1>1. \A k \in Lane : OpDrives(iter, k) <=> OpOn(iter, k)
  BY DEF OpDrives
<1>2. ASSUME NEW k \in Lane, ~OpOn(iter, k) PROVE out[k] = in[k] /\ rdy[k] = ready[k]
  BY <1>1, <1>2 DEF LayerOut, LayerReady
<1>3. ASSUME NEW k \in Lane, IsOp(iter, k)
      PROVE  /\ out[k] = OpOut(k, in[k], in[k + 1])[1]
             /\ out[k + 1] = OpOut(k, in[k], in[k + 1])[2]
             /\ rdy[k] = OpReady(k, in[k], in[k + 1], ready[k], ready[k + 1])[1]
             /\ rdy[k + 1] = OpReady(k, in[k], in[k + 1], ready[k], ready[k + 1])[2]
  <2>1. /\ k + 1 \in Lane /\ ~IsOp(iter, k + 1) /\ OpOn(iter, k + 1) /\ OpOn(iter, k)
    BY <1>3, PairsAreDisjoint
  <2>2. (k + 1) - 1 = k
    BY NetworkAssumption DEF Lane
  <2>3. out[k] = OpOut(k, in[k], in[k + 1])[1] /\ rdy[k] = OpReady(k, in[k], in[k + 1], ready[k], ready[k + 1])[1]
    BY <1>1, <1>3, <2>1 DEF LayerOut, LayerReady
  <2>4. /\ out[k + 1] = OpOut((k + 1) - 1, in[(k + 1) - 1], in[k + 1])[2]
        /\ rdy[k + 1] = OpReady((k + 1) - 1, in[(k + 1) - 1], in[k + 1],
                                ready[(k + 1) - 1], ready[k + 1])[2]
    BY <1>1, <2>1 DEF LayerOut, LayerReady
  <2>5. QED
    BY <2>2, <2>3, <2>4
<1> HIDE DEF out, rdy
<1>4. ASSUME NEW k \in Lane, IsOp(iter, k), NEW t
      PROVE  Moves(in[k], in[k + 1], out[k], out[k + 1], rdy[k], rdy[k + 1],
                   ready[k], ready[k + 1], t)
  <2>1. in[k] \in Sig /\ in[k + 1] \in Sig /\ ready[k] \in BOOLEAN /\ ready[k + 1] \in BOOLEAN
    BY <1>4, PairsAreDisjoint
  <2>2. QED
    <3>1. OpCarries(k, in[k], in[k + 1], ready[k], ready[k + 1], t)
      BY <2>1, OpMoves
    <3>2. QED
      BY <1>3, <1>4, <3>1, Zenon DEF OpCarries
<1>5. SUFFICES ASSUME NEW t, Once(in, t)
               PROVE  /\ Once(out, t) /\ (On(in, t) <=> On(out, t))
                      /\ \A k, l \in Lane : Has(in[k], t) /\ Has(out[l], t)
                                               => rdy[k] = ready[l]
  BY DEF Carries, out, rdy, Has
<1>6. \A k, l \in Lane : Has(in[k], t) /\ Has(in[l], t) => k = l
  BY <1>5 DEF Once, Has
<1>7. \A k \in Lane : \/ ~OpOn(iter, k) /\ P(k) = k
                      \/ IsOp(iter, k) /\ OpOn(iter, k) /\ P(k) = k
                      \/ OpOn(iter, k) /\ P(k) = k - 1 /\ k - 1 \in Lane /\ IsOp(iter, k - 1)
  BY PairsAreDisjoint DEF Pair
<1>8. ASSUME NEW k \in Lane, IsOp(iter, k)
      PROVE  k + 1 \in Lane /\ P(k) = k /\ P(k + 1) = k /\ k + 1 # k
  <2>1. k \in Nat /\ (k + 1) - 1 = k
    BY NetworkAssumption DEF Lane
  <2>2. QED
    BY <1>8, <2>1, PairsAreDisjoint DEF Pair
<1>9. \A k \in Lane : OpOn(iter, k) =>
        \E j \in Lane : IsOp(iter, j) /\ k \in {j, j + 1} /\ j + 1 \in Lane
  BY <1>7, <1>8, NetworkAssumption DEF Lane
<1>10. \A k, l \in Lane : P(k) = P(l) =>
         \/ k = l /\ ~OpOn(iter, k)
         \/ \E j \in Lane : IsOp(iter, j) /\ k \in {j, j + 1} /\ l \in {j, j + 1}
  <2> SUFFICES ASSUME NEW k \in Lane, NEW l \in Lane, P(k) = P(l)
               PROVE  \/ k = l /\ ~OpOn(iter, k)
                      \/ \E j \in Lane : IsOp(iter, j) /\ k \in {j, j + 1} /\ l \in {j, j + 1}
    OBVIOUS
  <2>1. k \in Nat /\ l \in Nat
    BY NetworkAssumption DEF Lane
  <2>2. QED
    BY <1>7, <2>1
<1>11. ASSUME NEW j \in Lane, IsOp(iter, j)
       PROVE  /\ \A l \in {j, j + 1} : Has(out[l], t) => \E k \in {j, j + 1} : Has(in[k], t)
              /\ \A k \in {j, j + 1} : Has(in[k], t) => \E l \in {j, j + 1} : Has(out[l], t)
              /\ \A l, m \in {j, j + 1} : Has(out[l], t) /\ Has(out[m], t) => l = m
              /\ \A k, l \in {j, j + 1} : Has(in[k], t) /\ Has(out[l], t) => rdy[k] = ready[l]
  <2>1. ~(Has(in[j], t) /\ Has(in[j + 1], t))
    BY <1>6, <1>8, <1>11
  <2>2. Moves(in[j], in[j + 1], out[j], out[j + 1], rdy[j], rdy[j + 1],
              ready[j], ready[j + 1], t)
    BY <1>4, <1>11
  <2>3. /\ ~(Has(out[j], t) /\ Has(out[j + 1], t))
        /\ Has(in[j], t) \/ Has(in[j + 1], t) <=> Has(out[j], t) \/ Has(out[j + 1], t)
        /\ Has(in[j], t) /\ Has(out[j], t) => rdy[j] = ready[j]
        /\ Has(in[j], t) /\ Has(out[j + 1], t) => rdy[j] = ready[j + 1]
        /\ Has(in[j + 1], t) /\ Has(out[j], t) => rdy[j + 1] = ready[j]
        /\ Has(in[j + 1], t) /\ Has(out[j + 1], t) => rdy[j + 1] = ready[j + 1]
    BY <2>1, <2>2, Zenon DEF Moves, Has
  <2> HIDE DEF Has
  <2>4. QED
    BY <2>3
<1>12. \A l \in Lane : Has(out[l], t) => \E k \in Lane : Has(in[k], t) /\ P(k) = P(l)
  <2> SUFFICES ASSUME NEW l \in Lane, Has(out[l], t)
               PROVE  \E k \in Lane : Has(in[k], t) /\ P(k) = P(l)
    OBVIOUS
  <2>1. CASE ~OpOn(iter, l)
    BY <1>2, <2>1
  <2>2. CASE OpOn(iter, l)
    <3>1. PICK j \in Lane : IsOp(iter, j) /\ l \in {j, j + 1} /\ j + 1 \in Lane
      BY <1>9, <2>2
    <3>2. PICK k \in {j, j + 1} : Has(in[k], t)
      BY <1>11, <3>1
    <3>3. QED
      BY <1>8, <3>1, <3>2
  <2>3. QED
    BY <2>1, <2>2
<1>13. \A k \in Lane : Has(in[k], t) => \E l \in Lane : Has(out[l], t)
  <2> SUFFICES ASSUME NEW k \in Lane, Has(in[k], t) PROVE \E l \in Lane : Has(out[l], t)
    OBVIOUS
  <2>1. CASE ~OpOn(iter, k)
    BY <1>2, <2>1
  <2>2. CASE OpOn(iter, k)
    <3>1. PICK j \in Lane : IsOp(iter, j) /\ k \in {j, j + 1} /\ j + 1 \in Lane
      BY <1>9, <2>2
    <3>2. QED
      BY <1>11, <3>1
  <2>3. QED
    BY <2>1, <2>2
<1>14. \A k, l \in Lane : Has(in[k], t) /\ Has(out[l], t) => P(k) = P(l)
  BY <1>6, <1>12
<1>15. \A l, m \in Lane : Has(out[l], t) /\ Has(out[m], t) => l = m
  <2> SUFFICES ASSUME NEW l \in Lane, NEW m \in Lane, Has(out[l], t), Has(out[m], t) PROVE l = m
    OBVIOUS
  <2>1. P(l) = P(m)
    BY <1>6, <1>12
  <2>2. QED
    BY <1>10, <1>11, <2>1
<1>16. \A k, l \in Lane : Has(in[k], t) /\ Has(out[l], t) => rdy[k] = ready[l]
  <2> SUFFICES ASSUME NEW k \in Lane, NEW l \in Lane, Has(in[k], t), Has(out[l], t)
               PROVE  rdy[k] = ready[l]
    OBVIOUS
  <2>1. \/ k = l /\ ~OpOn(iter, k)
        \/ \E j \in Lane : IsOp(iter, j) /\ k \in {j, j + 1} /\ l \in {j, j + 1}
    BY <1>10, <1>14
  <2>2. QED
    BY <1>2, <1>11, <2>1
<1>17. QED
  BY <1>12, <1>13, <1>15, <1>16 DEF Once, On, Has

(* Only words whose ids are equal are added, so that a sum's id is that of *)
(* each of its words; no driver of a lane changes that.                    *)
Agrees(x, ids) == \A t \in x.word.parts : t \in DOMAIN ids /\ ids[t] = x.word.id

LEMMA OpKeepsIds ==
  ASSUME NEW k, NEW a \in Sig, NEW b \in Sig, NEW ids, Agrees(a, ids), Agrees(b, ids)
  PROVE  Agrees(OpOut(k, a, b)[1], ids) /\ Agrees(OpOut(k, a, b)[2], ids)
<1> DEFINE off == Signal(FALSE, NoWord)
<1>1. Agrees(off, ids)
  BY DEF Signal, NoWord, Agrees
<1>2. CASE Match(a, b)
  <2> DEFINE s == Signal(TRUE, Sum(a, b))
  <2>1. Agrees(s, ids)
    BY <1>2 DEF Match, Sum, Signal, Agrees
  <2> HIDE DEF s, off
  <2>2. OpOut(k, a, b) = IF ACloserToCenter(k) THEN <<s, off>> ELSE <<off, s>>
    BY <1>2 DEF OpOut, s, off
  <2>3. QED
    BY <1>1, <2>1, <2>2
<1>3. CASE ~Match(a, b)
  <2> DEFINE s == Only(a, b)
  <2>1. Agrees(s, ids)
    BY DEF Only
  <2> HIDE DEF s, off
  <2>2. OpOut(k, a, b) = IF a.valid /\ b.valid THEN <<a, b>>
                         ELSE IF ACloserToCenter(k) THEN <<s, off>> ELSE <<off, s>>
    BY <1>3 DEF OpOut, s, off
  <2>3. QED
    BY <1>1, <2>1, <2>2
<1>4. QED
  BY <1>2, <1>3

LEMMA LayerKeepsIds ==
  ASSUME NEW iter \in Nat, NEW in \in [Lane -> Sig], NEW ids, \A k \in Lane : Agrees(in[k], ids)
  PROVE  \A k \in Lane : Agrees(LayerOut(iter, in)[k], ids)
<1> SUFFICES ASSUME NEW k \in Lane PROVE Agrees(LayerOut(iter, in)[k], ids)
  OBVIOUS
<1>1. CASE ~OpDrives(iter, k)
  BY <1>1 DEF LayerOut
<1>2. CASE OpDrives(iter, k) /\ IsOp(iter, k)
  <2>1. k + 1 \in Lane
    BY <1>2, PairsAreDisjoint
  <2>2. Agrees(OpOut(k, in[k], in[k + 1])[1], ids)
    BY <2>1, OpKeepsIds
  <2>3. QED
    BY <1>2, <2>2 DEF LayerOut
<1>3. CASE OpDrives(iter, k) /\ ~IsOp(iter, k)
  <2>1. k - 1 \in Lane
    BY <1>3, PairsAreDisjoint DEF OpDrives
  <2>2. Agrees(OpOut(k - 1, in[k - 1], in[k])[2], ids)
    BY <2>1, OpKeepsIds
  <2>3. QED
    BY <1>3, <2>2 DEF LayerOut
<1>4. QED
  BY <1>1, <1>2, <1>3

-----------------------------------------------------------------------------
(* Several layers, one after the other.                                    *)
Signals == [Lane -> Sig]
Readys == [Lane -> BOOLEAN]

LEMMA BeforeFacts ==
  ASSUME NEW first \in Nat, NEW in \in Signals
  PROVE  /\ Before(first, first, in) = in
         /\ \A n \in Nat : /\ Before(first, first + n, in) \in Signals
                           /\ Before(first, first + n + 1, in)
                                = LayerOut(first + n, Before(first, first + n, in))
<1> DEFINE step == [n \in Nat |-> [x \in Signals |-> LayerOut(first + n, x)]]
           Defines(f, i) ==
             f = [j \in first..i |-> IF j = first THEN in ELSE LayerOut(j - 1, f[j - 1])]
<1>1. step \in Steps(Signals)
  <2>1. PICK r \in Readys : TRUE
    <3>1. [k \in Lane |-> TRUE] \in Readys
      BY DEF Readys
    <3>2. QED
      BY <3>1
  <2>2. ASSUME NEW n \in Nat, NEW x \in Signals PROVE LayerOut(first + n, x) \in Signals
    <3>1. first + n \in Nat
      OBVIOUS
    <3>2. QED
      BY <2>1, <3>1, LayerType DEF Signals, Readys
  <2>3. QED
    BY <2>2 DEF Steps
<1>2. PICK F : Recurses(F, Signals, in, step)
  <2> HIDE DEF step
  <2>1. QED
    BY <1>1, PrimitiveRecursion
<1>3. /\ F \in [Nat -> Signals] /\ F[0] = in
      /\ \A n \in Nat : F[n + 1] = LayerOut(first + n, F[n])
  BY <1>2 DEF Recurses
<1>4. ASSUME NEW n \in Nat PROVE Before(first, first + n, in) = F[n]
  <2> DEFINE i == first + n
             f == [j \in first..i |-> F[j - first]]
  <2>1. Defines(f, i)
    <3>1. ASSUME NEW j \in first..i, j # first PROVE f[j] = LayerOut(j - 1, f[j - 1])
      <4>1. j - first - 1 \in Nat /\ j - 1 \in first..i /\ (j - first - 1) + 1 = j - first
            /\ (j - 1) - first = j - first - 1 /\ first + (j - first - 1) = j - 1
        BY <3>1
      <4>2. QED
        BY <1>3, <4>1
    <3>2. first \in first..i /\ f[first] = in
      BY <1>3
    <3>3. QED
      BY <3>1, <3>2
  <2>2. ASSUME NEW g, Defines(g, i) PROVE g[i] = F[n]
    <3> DEFINE U == {j \in first..i : g[j] = F[j - first]}
    <3>1. first \in U
      BY <1>3, <2>2
    <3>2. \A j \in first..(i - 1) : j \in U => j + 1 \in U
      <4> SUFFICES ASSUME NEW j \in first..(i - 1), g[j] = F[j - first]
                   PROVE  j + 1 \in first..i /\ g[j + 1] = F[j + 1 - first]
        OBVIOUS
      <4>1. /\ j + 1 \in first..i /\ j + 1 # first /\ (j + 1) - 1 = j /\ j - first \in Nat
            /\ (j - first) + 1 = j + 1 - first /\ first + (j - first) = j
        OBVIOUS
      <4>2. g[j + 1] = LayerOut((j + 1) - 1, g[(j + 1) - 1])
        BY <2>2, <4>1
      <4>3. F[(j - first) + 1] = LayerOut(first + (j - first), F[j - first])
        BY <1>3, <4>1
      <4>4. QED
        BY <4>1, <4>2, <4>3
    <3>3. \A j \in first..i : j \in U
      <4>1. first \in Int /\ i \in Int
        OBVIOUS
      <4> HIDE DEF U, i
      <4>2. QED
        BY <3>1, <3>2, <4>1, IntervalInduction
    <3> HIDE DEF U
    <3>4. i \in first..i /\ i - first = n
      OBVIOUS
    <3>5. QED
      BY <3>3, <3>4 DEF U
  <2>3. Before(first, i, in) = (CHOOSE g : Defines(g, i))[i]
    BY DEF Before
  <2> HIDE DEF Defines, f
  <2>4. Defines(CHOOSE g : Defines(g, i), i)
    BY <2>1
  <2>5. QED
    BY <2>2, <2>3, <2>4
<1>5. Before(first, first + 0, in) = in
  BY <1>3, <1>4
<1>6. ASSUME NEW n \in Nat
      PROVE  Before(first, first + n + 1, in) = LayerOut(first + n, Before(first, first + n, in))
  <2>1. n + 1 \in Nat /\ first + (n + 1) = first + n + 1
    OBVIOUS
  <2>2. QED
    BY <1>3, <1>4, <2>1
<1>7. first + 0 = first
  OBVIOUS
<1>8. \A n \in Nat : Before(first, first + n, in) \in Signals
  BY <1>3, <1>4
<1>9. QED
  BY <1>5, <1>6, <1>7, <1>8

LEMMA BeforeStep ==
  ASSUME NEW first \in Nat, NEW in \in Signals, NEW j \in Nat, first <= j
  PROVE  /\ Before(first, j, in) \in Signals
         /\ Before(first, j + 1, in) = LayerOut(j, Before(first, j, in))
<1>1. PICK n \in Nat : n = j - first
  OBVIOUS
<1>2. first + n = j /\ first + n + 1 = j + 1
  BY <1>1
<1>3. /\ Before(first, first + n, in) \in Signals
      /\ Before(first, first + n + 1, in) = LayerOut(first + n, Before(first, first + n, in))
  BY BeforeFacts
<1>4. QED
  BY <1>2, <1>3

(* ready, layer by layer, from the last back to the first.                 *)
Backs(g, first, last, in, ready) ==
  /\ BackThrough(first, last, in, ready) = g[first]
  /\ g[last] = ready
  /\ \A j \in first..last : g[j] \in Readys
  /\ \A j \in first..(last - 1) : g[j] = LayerReady(j, Before(first, j, in), g[j + 1])

LEMMA BackFacts ==
  ASSUME NEW first \in Nat, NEW last \in Nat, first <= last,
         NEW in \in Signals, NEW ready \in Readys
  PROVE  \E g : Backs(g, first, last, in, ready)
<1> DEFINE size == last - first
           back(n, x) == IF n < size
                         THEN LayerReady(last - 1 - n, Before(first, last - 1 - n, in), x) ELSE x
           step == [n \in Nat |-> [x \in Readys |-> back(n, x)]]
           Defines(g) == g = [j \in first..last |->
                                IF j = last THEN ready
                                ELSE LayerReady(j, Before(first, j, in), g[j + 1])]
<1>1. ASSUME NEW n \in Nat, NEW x \in Readys PROVE back(n, x) \in Readys
  <2> SUFFICES ASSUME n < size PROVE back(n, x) \in Readys
    OBVIOUS
  <2>1. last - 1 - n \in Nat /\ last - 1 - n - first \in Nat
        /\ first + (last - 1 - n - first) = last - 1 - n
    OBVIOUS
  <2>2. Before(first, last - 1 - n, in) \in Signals
    BY <2>1, BeforeFacts
  <2>3. QED
    BY <2>1, <2>2, LayerType DEF Signals, Readys
<1>2. step \in Steps(Readys)
  <2> HIDE DEF back
  <2>1. QED
    BY <1>1 DEF Steps
<1>3. PICK F : Recurses(F, Readys, ready, step)
  <2> HIDE DEF step
  <2>1. QED
    BY <1>2, PrimitiveRecursion
<1>4. F \in [Nat -> Readys] /\ F[0] = ready /\ \A n \in Nat : F[n + 1] = back(n, F[n])
  <2> HIDE DEF back
  <2>1. QED
    BY <1>3 DEF Recurses
<1> DEFINE g == [j \in first..last |-> F[last - j]]
<1>5. g[last] = ready /\ \A j \in first..last : g[j] \in Readys
  BY <1>4
<1>6. ASSUME NEW j \in first..(last - 1)
      PROVE  g[j] = LayerReady(j, Before(first, j, in), g[j + 1])
  <2>1. /\ last - 1 - j \in Nat /\ last - 1 - j < size /\ (last - 1 - j) + 1 = last - j
        /\ last - 1 - (last - 1 - j) = j /\ last - (j + 1) = last - 1 - j
        /\ j \in first..last /\ j + 1 \in first..last
    OBVIOUS
  <2>2. F[(last - 1 - j) + 1] = back(last - 1 - j, F[last - 1 - j])
    BY <1>4, <2>1
  <2>3. back(last - 1 - j, F[last - 1 - j])
          = LayerReady(j, Before(first, j, in), F[last - 1 - j])
    BY <2>1
  <2>4. QED
    BY <2>1, <2>2, <2>3
<1> HIDE DEF g
<1>7. Defines(g)
  <2>1. ASSUME NEW j \in first..last, j # last PROVE j \in first..(last - 1)
    BY <2>1
  <2>2. QED
    BY <1>5, <1>6, <2>1 DEF g
<1>8. ASSUME NEW h, Defines(h) PROVE h = g
  <2> DEFINE T == {n \in Nat : n <= size => h[last - n] = g[last - n]}
  <2>1. 0 \in T
    BY <1>5, <1>8
  <2>2. \A n \in Nat : n \in T => n + 1 \in T
    <3> SUFFICES ASSUME NEW n \in Nat, h[last - n] = g[last - n], n + 1 <= size
                 PROVE  h[last - (n + 1)] = g[last - (n + 1)]
      OBVIOUS
    <3>1. /\ last - (n + 1) \in first..(last - 1) /\ last - (n + 1) \in first..last
          /\ (last - (n + 1)) + 1 = last - n /\ last - (n + 1) # last
      OBVIOUS
    <3> DEFINE j == last - (n + 1)
    <3>2. h[j] = LayerReady(j, Before(first, j, in), h[j + 1])
      BY <1>8, <3>1
    <3>3. QED
      BY <1>6, <3>1, <3>2
  <2> HIDE DEF T
  <2>3. Nat \subseteq T
    BY <2>1, <2>2, SetInduction
  <2>4. \A j \in first..last : last - j \in Nat /\ last - j <= size /\ last - (last - j) = j
    OBVIOUS
  <2>5. \A j \in first..last : h[j] = g[j]
    BY <2>3, <2>4 DEF T
  <2>6. QED
    BY <1>8, <2>5 DEF g
<1>9. BackThrough(first, last, in, ready) = (CHOOSE h : Defines(h))[first]
  BY DEF BackThrough
<1> HIDE DEF Defines
<1>10. (CHOOSE h : Defines(h)) = g
  BY <1>7, <1>8
<1>11. QED
  BY <1>5, <1>6, <1>9, <1>10 DEF Backs

(* A section of the network: the layers between two rows of registers.     *)
LEMMA SectionCarries ==
  ASSUME NEW first \in Nat, NEW last \in Nat, first <= last,
         NEW in \in Signals, NEW ready \in Readys
  PROVE  /\ Before(first, last, in) \in Signals
         /\ BackThrough(first, last, in, ready) \in Readys
         /\ ~CopierDrives => Carries(in, Before(first, last, in),
                                     BackThrough(first, last, in, ready), ready)
<1>1. PICK g : Backs(g, first, last, in, ready)
  BY BackFacts
<1> DEFINE B(j) == Before(first, j, in)
<1>2. /\ \A j \in first..last : B(j) \in Signals
      /\ \A j \in first..(last - 1) : B(j + 1) = LayerOut(j, B(j))
      /\ B(first) = in
  <2>1. \A j \in first..last : j \in Nat /\ first <= j
    OBVIOUS
  <2>2. \A j \in first..(last - 1) : j \in Nat /\ first <= j
    OBVIOUS
  <2>3. QED
    BY <2>1, <2>2, BeforeStep, BeforeFacts
<1> HIDE DEF B
<1>3. ASSUME ~CopierDrives PROVE Carries(B(first), B(last), g[first], g[last])
  <2> DEFINE T == {j \in first..last : Carries(B(first), B(j), g[first], g[j])}
  <2>1. first \in T
    BY CarriesSame
  <2>2. \A j \in first..(last - 1) : j \in T => j + 1 \in T
    <3> SUFFICES ASSUME NEW j \in first..(last - 1), j \in T PROVE j + 1 \in T
      OBVIOUS
    <3>1. j \in Nat /\ j \in first..last /\ j + 1 \in first..last
      OBVIOUS
    <3>2. Carries(B(j), B(j + 1), g[j], g[j + 1])
      <4>1. B(j) \in [Lane -> Sig] /\ g[j + 1] \in [Lane -> BOOLEAN]
        BY <1>1, <1>2, <3>1 DEF Signals, Readys, Backs
      <4>2. Carries(B(j), LayerOut(j, B(j)), LayerReady(j, B(j), g[j + 1]), g[j + 1])
        BY <1>3, <3>1, <4>1, LayerCarries
      <4>3. B(j + 1) = LayerOut(j, B(j)) /\ g[j] = LayerReady(j, B(j), g[j + 1])
        BY <1>1, <1>2 DEF B, Backs
      <4>4. QED
        BY <4>2, <4>3
    <3>3. QED
      BY <3>1, <3>2, CarriesOn
  <2>3. \A j \in first..last : j \in T
    <3>1. first \in Int /\ last \in Int
      OBVIOUS
    <3> HIDE DEF T
    <3>2. QED
      BY <2>1, <2>2, <3>1, IntervalInduction
  <2>4. QED
    BY <2>3
<1>4. first \in first..last /\ last \in first..last
  OBVIOUS
<1>5. QED
  BY <1>1, <1>2, <1>3, <1>4 DEF B, Backs

LEMMA SectionKeepsIds ==
  ASSUME NEW first \in Nat, NEW last \in Nat, first <= last, NEW in \in Signals, NEW ids,
         \A k \in Lane : Agrees(in[k], ids)
  PROVE  \A k \in Lane : Agrees(Before(first, last, in)[k], ids)
<1> DEFINE B(j) == Before(first, j, in)
           T == {j \in first..last : \A k \in Lane : Agrees(B(j)[k], ids)}
<1>1. first \in T
  BY BeforeFacts
<1>2. \A j \in first..(last - 1) : j \in T => j + 1 \in T
  <2> SUFFICES ASSUME NEW j \in first..(last - 1), j \in T PROVE j + 1 \in T
    OBVIOUS
  <2>1. j \in Nat /\ j + 1 \in first..last /\ first <= j
    OBVIOUS
  <2>2. B(j) \in [Lane -> Sig] /\ B(j + 1) = LayerOut(j, B(j))
    BY <2>1, BeforeStep DEF Signals
  <2> HIDE DEF B
  <2>3. \A k \in Lane : Agrees(B(j + 1)[k], ids)
    BY <2>1, <2>2, LayerKeepsIds
  <2>4. QED
    BY <2>1, <2>3
<1>3. \A j \in first..last : j \in T
  <2>1. first \in Int /\ last \in Int
    OBVIOUS
  <2> HIDE DEF T
  <2>2. QED
    BY <1>1, <1>2, <2>1, IntervalInduction
<1>4. QED
  BY <1>3

-----------------------------------------------------------------------------
(* One skid buffer.  Its registers hold a word just when it says so, and   *)
(* from the first edge after the reset on it is ready unless it is full.   *)
Stage == StageType(Word \cup {NoWord})

Filled(s) ==
  /\ IF s.valid THEN s.data \in Word ELSE s.data = NoWord
  /\ IF s.state = "SKID" THEN s.spare \in Word ELSE s.spare = NoWord

GoodStage(s) == s \in Stage /\ SkidShape(s) /\ Filled(s)
Live(s) == s.state = "SKID" \/ s.ready
InData(s, t) == t \in s.data.parts
InSpare(s, t) == t \in s.spare.parts

(* What a clock edge does to it: word t is there afterwards if it was      *)
(* there and was not taken, or if it came in, and in one register.         *)
Keeps(s, n, x, r, t) ==
  /\ InData(n, t) \/ InSpare(n, t)
       <=> InSpare(s, t) \/ (InData(s, t) /\ ~r) \/ (s.ready /\ t \in x.word.parts)
  /\ ~ (InData(s, t) /\ InSpare(s, t))
       /\ ~ ((InData(s, t) \/ InSpare(s, t)) /\ t \in x.word.parts)
       => ~ (InData(n, t) /\ InSpare(n, t))

LEMMA StageFields ==
  ASSUME NEW s \in Stage
  PROVE  /\ s.state \in {"PIPE", "SKID"} /\ s.valid \in BOOLEAN /\ s.ready \in BOOLEAN
         /\ s.data \in Word \cup {NoWord} /\ s.spare \in Word \cup {NoWord}
         /\ s = [state |-> s.state, data |-> s.data, spare |-> s.spare,
                 valid |-> s.valid, ready |-> s.ready]
BY DEF Stage, StageType

LEMMA LoadOne ==
  ASSUME NEW s, GoodStage(s), NEW x \in Sig, NEW r \in BOOLEAN, Live(s) \/ ~x.valid,
         NEW n, n = Tidy(SkidNext(s, x.valid, x.word, r))
  PROVE  /\ GoodStage(n) /\ Live(n)
         /\ n.data \in {s.data, s.spare, x.word, NoWord}
         /\ n.spare \in {s.data, s.spare, x.word, NoWord}
         /\ \A t : Keeps(s, n, x, r, t)
<1> DEFINE tidy(st, d, sp, v, rd) ==
             [state |-> st, data |-> IF v THEN d ELSE NoWord,
              spare |-> IF st = "SKID" THEN sp ELSE NoWord, valid |-> v, ready |-> rd]
<1>1. /\ s \in Stage /\ SkidShape(s) /\ Filled(s)
      /\ s.state \in {"PIPE", "SKID"} /\ s.valid \in BOOLEAN /\ s.ready \in BOOLEAN
      /\ s = [state |-> s.state, data |-> s.data, spare |-> s.spare,
              valid |-> s.valid, ready |-> s.ready]
  BY StageFields DEF GoodStage
<1>2. /\ x.valid \in BOOLEAN
      /\ x.valid => x.word \in Word
      /\ ~x.valid => x.word = NoWord /\ x.word.parts = {}
  BY SigIs
<1>3. NoWord.parts = {} /\ NoWord \in Word \cup {NoWord}
  BY DEF NoWord
<1>4. ASSUME NEW st \in {"PIPE", "SKID"}, NEW d, NEW sp, NEW v \in BOOLEAN, NEW rd \in BOOLEAN,
             n = tidy(st, d, sp, v, rd), v => d \in Word, st = "SKID" => sp \in Word,
             st = "SKID" => v /\ ~rd, st = "PIPE" => rd
      PROVE  GoodStage(n) /\ Live(n)
  BY <1>4, <1>3 DEF GoodStage, Stage, StageType, SkidShape, Filled, Live
<1>5. CASE s.state = "PIPE" /\ PipeReady(s, r)
  <2>1. n = tidy("PIPE", x.word, s.spare, x.valid, TRUE)
    BY <1>1, <1>5 DEF SkidNext, Tidy
  <2>2. /\ n.data = x.word /\ n.spare = NoWord
    BY <1>2, <2>1
  <2>3. GoodStage(n) /\ Live(n)
    BY <1>2, <1>4, <2>1
  <2>4. s.spare = NoWord /\ (s.valid \/ s.data = NoWord) /\ (s.valid => r)
    BY <1>1, <1>5 DEF Filled, PipeReady
  <2>5. s.ready \/ ~x.valid
    BY <1>5 DEF Live
  <2>6. \A t : Keeps(s, n, x, r, t)
    BY <1>2, <1>3, <2>2, <2>4, <2>5 DEF Keeps, InData, InSpare
  <2>7. QED
    BY <2>2, <2>3, <2>6
<1>6. CASE s.state = "PIPE" /\ ~PipeReady(s, r)
  <2>1. s.valid /\ ~r /\ s.ready /\ s.spare = NoWord /\ s.data \in Word
    BY <1>1, <1>6 DEF PipeReady, SkidShape, Filled
  <2>2. CASE x.valid
    <3>1. n = tidy("SKID", s.data, x.word, TRUE, FALSE)
      BY <1>1, <1>6, <2>1, <2>2 DEF SkidNext, Tidy
    <3>2. n.data = s.data /\ n.spare = x.word
      BY <3>1
    <3>3. GoodStage(n) /\ Live(n)
      BY <1>2, <1>4, <2>1, <2>2, <3>1
    <3>4. \A t : Keeps(s, n, x, r, t)
      BY <1>3, <2>1, <3>2 DEF Keeps, InData, InSpare
    <3>5. QED
      BY <3>2, <3>3, <3>4
  <2>3. CASE ~x.valid
    <3>1. n = tidy("PIPE", s.data, s.spare, TRUE, TRUE)
      BY <1>1, <1>6, <2>1, <2>3 DEF SkidNext, Tidy
    <3>2. n.data = s.data /\ n.spare = NoWord
      BY <3>1
    <3>3. GoodStage(n) /\ Live(n)
      BY <1>2, <1>4, <2>1, <3>1
    <3>4. \A t : Keeps(s, n, x, r, t)
      BY <1>2, <1>3, <2>1, <2>3, <3>2 DEF Keeps, InData, InSpare
    <3>5. QED
      BY <3>2, <3>3, <3>4
  <2>4. QED
    BY <1>2, <2>2, <2>3
<1>7. CASE s.state = "SKID"
  <2>1. s.valid /\ ~s.ready /\ s.spare \in Word /\ s.data \in Word
    BY <1>1, <1>7 DEF SkidShape, Filled
  <2>2. CASE r
    <3>1. n = tidy("PIPE", s.spare, s.spare, TRUE, TRUE)
      BY <1>1, <1>7, <2>2 DEF SkidNext, Tidy
    <3>2. n.data = s.spare /\ n.spare = NoWord
      BY <3>1
    <3>3. GoodStage(n) /\ Live(n)
      BY <1>4, <2>1, <3>1
    <3>4. \A t : Keeps(s, n, x, r, t)
      BY <1>3, <2>1, <2>2, <3>2 DEF Keeps, InData, InSpare
    <3>5. QED
      BY <3>2, <3>3, <3>4
  <2>3. CASE ~r
    <3>1. n = tidy("SKID", s.data, s.spare, TRUE, FALSE)
      BY <1>1, <1>7, <2>1, <2>3 DEF SkidNext, Tidy
    <3>2. n.data = s.data /\ n.spare = s.spare
      BY <3>1
    <3>3. GoodStage(n) /\ Live(n)
      BY <1>4, <2>1, <3>1
    <3>4. \A t : Keeps(s, n, x, r, t)
      BY <2>1, <2>3, <3>2 DEF Keeps, InData, InSpare
    <3>5. QED
      BY <3>2, <3>3, <3>4
  <2>4. QED
    BY <2>2, <2>3
<1>8. QED
  BY <1>1, <1>5, <1>6, <1>7

-----------------------------------------------------------------------------
(* The inductive invariants.  The registers keep their types and shapes,   *)
(* and either every buffer is live or nothing has been taken in since the  *)
(* reset; every word in a register was accepted and has the register's id. *)
Holds(p, k, t) == InData(pipe[p][k], t) \/ InSpare(pipe[p][k], t)

Started ==
  \/ \A p \in Row, k \in Lane : Live(pipe[p][k])
  \/ \A p \in Row, k \in Lane : ~pipe[p][k].valid /\ ~pipe[p][k].ready

IdsAreRight ==
  \A p \in Row, k \in Lane : \A w \in {pipe[p][k].data, pipe[p][k].spare} :
    \A t \in w.parts : t \in DOMAIN idOf /\ idOf[t] = w.id

NetInv ==
  /\ pipe \in [Row -> [Lane -> Stage]]
  /\ \A p \in Row, k \in Lane : GoodStage(pipe[p][k])
  /\ idOf \in UNION {[1..n -> Ids] : n \in 0..MaxWords}
  /\ delivered \in [Token -> Nat]
  /\ Started
  /\ IdsAreRight

(* Word t is in at most one register, and has left just when it was        *)
(* accepted and is in none.                                                *)
OnePlace(t) ==
  /\ \A p, q \in Row, k, l \in Lane : Holds(p, k, t) /\ Holds(q, l, t) => p = q /\ k = l
  /\ \A p \in Row, k \in Lane : ~(InData(pipe[p][k], t) /\ InSpare(pipe[p][k], t))
  /\ delivered[t] = IF t \in DOMAIN idOf /\ (\A p \in Row, k \in Lane : ~Holds(p, k, t))
                    THEN 1 ELSE 0

PlaceInv == NetInv /\ \A t \in Token : OnePlace(t)

-----------------------------------------------------------------------------
(* The numbers of the words offered together: each lane its own, following *)
(* the numbers given so far without a gap.                                 *)
LEMMA Numbering ==
  ASSUME Sent \in Nat, NEW offer \in SUBSET Lane
  PROVE  /\ IsFiniteSet(offer) /\ Cardinality(offer) \in Nat
         /\ \A k \in offer : Number(offer, k) \in (Sent + 1)..(Sent + Cardinality(offer))
         /\ \A k, l \in offer : Number(offer, k) = Number(offer, l) => k = l
         /\ \A t \in (Sent + 1)..(Sent + Cardinality(offer)) :
              \E k \in offer : Number(offer, k) = t
<1> DEFINE upTo(k) == {l \in offer : l <= k}
           rank == [k \in offer |-> Cardinality(upTo(k))]
           c == Cardinality(offer)
<1>1. IsFiniteSet(Lane) /\ \A k \in Lane : k \in Int
  BY NetworkAssumption, FS_Interval DEF Lane
<1>2. IsFiniteSet(offer) /\ c \in Nat
  BY <1>1, FS_Subset, FS_CardinalityType
<1>3. \A k \in offer : IsFiniteSet(upTo(k)) /\ Cardinality(upTo(k)) \in 1..c
  <2> SUFFICES ASSUME NEW k \in offer
               PROVE  IsFiniteSet(upTo(k)) /\ Cardinality(upTo(k)) \in 1..c
    OBVIOUS
  <2>1. upTo(k) \in SUBSET offer /\ k \in upTo(k)
    BY <1>1
  <2>2. IsFiniteSet(upTo(k)) /\ Cardinality(upTo(k)) <= c
    BY <1>2, <2>1, FS_Subset
  <2>3. Cardinality(upTo(k)) \in Nat
    BY <2>2, FS_CardinalityType
  <2>4. Cardinality(upTo(k)) # 0
    BY <2>1, <2>2, FS_EmptySet
  <2>5. QED
    BY <1>2, <2>2, <2>3, <2>4
<1>4. \A k, l \in offer : Cardinality(upTo(k)) = Cardinality(upTo(l)) => k = l
  <2>1. ASSUME NEW k \in offer, NEW l \in offer, k < l,
               Cardinality(upTo(k)) = Cardinality(upTo(l))
        PROVE  FALSE
    <3>1. upTo(k) \in SUBSET upTo(l) /\ l \in upTo(l) /\ l \notin upTo(k)
      BY <1>1, <2>1
    <3>2. upTo(l) = upTo(k)
      BY <1>3, <2>1, <3>1, FS_Subset
    <3>3. QED
      BY <3>1, <3>2
  <2>2. \A k, l \in offer : k = l \/ k < l \/ l < k
    BY <1>1
  <2> HIDE DEF upTo
  <2>3. QED
    BY <2>1, <2>2
<1> HIDE DEF upTo
<1>5. rank \in Injection(offer, 1..c)
  BY <1>3, <1>4 DEF Injection, IsInjective
<1>6. IsFiniteSet(1..c) /\ Cardinality(1..c) = c
  <2>1. c \in Int /\ 1 \in Int
    BY <1>2
  <2> HIDE DEF c
  <2>2. IsFiniteSet(1..c) /\ Cardinality(1..c) = IF 1 > c THEN 0 ELSE c - 1 + 1
    BY <2>1, FS_Interval
  <2>3. QED
    BY <1>2, <2>2
<1>7. rank \in Surjection(offer, 1..c)
  BY <1>5, <1>6, FS_Injection
<1>8. \A k \in offer : Number(offer, k) = Sent + rank[k] /\ rank[k] \in 1..c
  BY <1>3 DEF Number, upTo
<1>9. \A r \in 1..c : \E k \in offer : rank[k] = r
  BY <1>7 DEF Surjection
<1>10. \A k, l \in offer : rank[k] = rank[l] => k = l
  BY <1>4
<1> HIDE DEF rank, c
<1>11. \A k \in offer : Number(offer, k) \in (Sent + 1)..(Sent + c)
  BY <1>2, <1>8
<1>12. \A k, l \in offer : Number(offer, k) = Number(offer, l) => k = l
  BY <1>2, <1>8, <1>10
<1>13. \A t \in (Sent + 1)..(Sent + c) : \E k \in offer : Number(offer, k) = t
  <2> SUFFICES ASSUME NEW t \in (Sent + 1)..(Sent + c)
               PROVE  \E k \in offer : Number(offer, k) = t
    OBVIOUS
  <2>1. t - Sent \in 1..c
    BY <1>2
  <2>2. QED
    BY <1>8, <1>9, <2>1
<1>14. QED
  BY <1>2, <1>11, <1>12, <1>13 DEF c

(* The sections in the order of their layers.                              *)
LEMMA Borders ==
  /\ \A p \in 0..1 : /\ Border(p) \in Nat /\ Border(p + 1) \in Nat /\ Border(p) <= Border(p + 1)
                     /\ p \in Row /\ p + 1 \in Row
  /\ 0 \in Row /\ 1 \in Row /\ 2 \in Row
<1>1. N \div 2 \in Nat /\ 1 <= N \div 2
  BY NetworkAssumption
<1>2. QED
  BY <1>1 DEF Border, Row

-----------------------------------------------------------------------------
(* One clock edge, row by row: the signals that arrive at a row and the    *)
(* ready it sees behind it.                                                *)
Fresh(offer, id) ==
  [k \in Lane |-> Signal(k \in offer, [id |-> id[k], parts |-> {Number(offer, k)}])]
Popped(out_ready) == [k \in Lane |-> k \in out_ready]
InReady(p) == [k \in Lane |-> pipe[p][k].ready]

Arrives(p, offer, id) ==
  IF p = 0 THEN Fresh(offer, id)
  ELSE Before(Border(p - 1), Border(p), Outputs(pipe[p - 1]))

Taken(p, out_ready) ==
  IF p = 2 THEN Popped(out_ready)
  ELSE BackThrough(Border(p), Border(p + 1), Outputs(pipe[p]), InReady(p + 1))

LEMMA ClockIs ==
  ASSUME NEW offer, NEW id, NEW out_ready, Clock(offer, id, out_ready),
         NEW p \in Row, NEW k \in Lane
  PROVE  pipe'[p][k] = Tidy(SkidNext(pipe[p][k], Arrives(p, offer, id)[k].valid,
                                     Arrives(p, offer, id)[k].word, Taken(p, out_ready)[k]))
<1> DEFINE src == [q \in 0..1 |-> Outputs(pipe[q])]
           snk == [q \in 0..1 |-> Before(Border(q), Border(q + 1), src[q])]
           rdy == [q \in 0..1 |-> BackThrough(Border(q), Border(q + 1), src[q], InReady(q + 1))]
           in == IF p = 0 THEN Fresh(offer, id) ELSE snk[p - 1]
           rd == IF p = 2 THEN Popped(out_ready) ELSE rdy[p]
<1>1. pipe'[p] = Load(pipe[p], in, rd)
  BY DEF Clock, Fresh, Popped, InReady
<1>2. p \in {0, 1, 2} /\ (p # 0 => p - 1 \in 0..1 /\ (p - 1) + 1 = p) /\ (p # 2 => p \in 0..1)
  BY DEF Row
<1>3. in = Arrives(p, offer, id)
  BY <1>2 DEF Arrives
<1>4. rd = Taken(p, out_ready)
  BY <1>2 DEF Taken
<1> HIDE DEF in, rd
<1>5. QED
  BY <1>1, <1>3, <1>4 DEF Load

(* The words that are accepted get the ids they were offered with.         *)
LEMMA Accepted ==
  ASSUME NetInv, NEW offer \in SUBSET Lane, NEW id \in [offer -> Ids], NEW out_ready,
         Clock(offer, id, out_ready)
  PROVE  /\ Sent \in Nat /\ DOMAIN idOf = 1..Sent
         /\ IsFiniteSet(offer) /\ Cardinality(offer) \in Nat
         /\ DOMAIN idOf' = 1..(Sent + Cardinality(offer))
         /\ idOf' \in UNION {[1..n -> Ids] : n \in 0..MaxWords}
         /\ \A t \in DOMAIN idOf : t \in DOMAIN idOf' /\ idOf'[t] = idOf[t]
         /\ \A k \in offer : /\ Number(offer, k) \in Token /\ Number(offer, k) \notin DOMAIN idOf
                             /\ Number(offer, k) \in DOMAIN idOf'
                             /\ idOf'[Number(offer, k)] = id[k]
<1> DEFINE c == Cardinality(offer)
           pick(t) == CHOOSE k \in offer : Number(offer, k) = t
<1>1. PICK n \in 0..MaxWords : idOf \in [1..n -> Ids]
  BY DEF NetInv
<1>2. Sent = n /\ MaxWords \in Nat /\ n \in Nat
  <2>1. n \in Nat /\ MaxWords \in Nat
    BY NetworkAssumption
  <2>2. Cardinality(1..n) = n
    BY <2>1, FS_Interval
  <2>3. QED
    BY <1>1, <2>1, <2>2 DEF Sent
<1>3. IsFiniteSet(offer) /\ c \in Nat
  BY <1>2, Numbering
<1>4. /\ \A k \in offer : Number(offer, k) \in (n + 1)..(n + c)
      /\ \A k, l \in offer : Number(offer, k) = Number(offer, l) => k = l
      /\ \A t \in (n + 1)..(n + c) : \E k \in offer : Number(offer, k) = t
  BY <1>2, Numbering
<1>5. /\ n + c <= MaxWords
      /\ idOf' = [t \in 1..(n + c) |-> IF t <= n THEN idOf[t] ELSE id[pick(t)]]
  BY <1>2 DEF Clock
<1>6. \A t \in (n + 1)..(n + c) : pick(t) \in offer
  BY <1>4
<1>7. \A k \in offer : pick(Number(offer, k)) = k
  BY <1>4
<1> HIDE DEF c, pick
<1>8. idOf' \in [1..(n + c) -> Ids]
  <2>1. \A t \in 1..(n + c) : (IF t <= n THEN idOf[t] ELSE id[pick(t)]) \in Ids
    BY <1>1, <1>2, <1>3, <1>6
  <2>2. QED
    BY <1>5, <2>1
<1>9. n + c \in 0..MaxWords
  BY <1>2, <1>3, <1>5
<1>10. \A t \in 1..n : t \in 1..(n + c) /\ idOf'[t] = idOf[t]
  BY <1>2, <1>3, <1>5
<1>11. \A k \in offer : /\ Number(offer, k) \in 1..(n + c) /\ Number(offer, k) \notin 1..n
                        /\ Number(offer, k) \in Token /\ idOf'[Number(offer, k)] = id[k]
  <2> SUFFICES ASSUME NEW k \in offer
               PROVE  /\ Number(offer, k) \in 1..(n + c) /\ Number(offer, k) \notin 1..n
                      /\ Number(offer, k) \in Token /\ idOf'[Number(offer, k)] = id[k]
    OBVIOUS
  <2>1. Number(offer, k) \in (n + 1)..(n + c)
    BY <1>4
  <2>2. /\ Number(offer, k) \in 1..(n + c) /\ ~(Number(offer, k) <= n)
        /\ Number(offer, k) \in 1..MaxWords
    BY <1>2, <1>3, <1>5, <2>1
  <2>3. QED
    BY <1>2, <1>5, <1>7, <2>2 DEF Token
<1>12. DOMAIN idOf = 1..n /\ DOMAIN idOf' = 1..(n + c)
  BY <1>1, <1>8
<1>13. idOf' \in UNION {[1..i -> Ids] : i \in 0..MaxWords}
  BY <1>8, <1>9
<1>14. QED
  BY <1>2, <1>3, <1>10, <1>11, <1>12, <1>13 DEF c

(* What arrives at a row and what is taken from it: signals and readies    *)
(* of the right type, words with the ids they were accepted with, and no   *)
(* word from a row without any.                                            *)
LEMMA OutputsAre ==
  ASSUME NetInv, NEW p \in Row
  PROVE  /\ Outputs(pipe[p]) \in Signals /\ InReady(p) \in Readys
         /\ \A k \in Lane : Outputs(pipe[p])[k].valid = pipe[p][k].valid
         /\ \A k \in Lane : Outputs(pipe[p])[k].word = pipe[p][k].data
<1> SUFFICES ASSUME NEW k \in Lane
             PROVE  /\ Signal(pipe[p][k].valid, pipe[p][k].data) \in Sig
                    /\ pipe[p][k].ready \in BOOLEAN
                    /\ Signal(pipe[p][k].valid, pipe[p][k].data).valid = pipe[p][k].valid
                    /\ Signal(pipe[p][k].valid, pipe[p][k].data).word = pipe[p][k].data
  BY DEF Outputs, Signals, Readys, InReady
<1>1. pipe[p][k] \in Stage /\ Filled(pipe[p][k])
  BY DEF NetInv, GoodStage
<1>2. /\ pipe[p][k].valid \in BOOLEAN /\ pipe[p][k].ready \in BOOLEAN
      /\ IF pipe[p][k].valid THEN pipe[p][k].data \in Word ELSE pipe[p][k].data = NoWord
  BY <1>1, StageFields DEF Filled
<1>3. QED
  BY <1>2, SignalIsSig

LEMMA ArrivesIs ==
  ASSUME NetInv, NEW offer \in SUBSET Lane, NEW id \in [offer -> Ids],
         NEW out_ready \in SUBSET Waiting, Clock(offer, id, out_ready), NEW p \in Row
  PROVE  /\ Arrives(p, offer, id) \in Signals /\ Taken(p, out_ready) \in Readys
         /\ \A k \in Lane : Agrees(Arrives(p, offer, id)[k], idOf')
         /\ \A k \in Lane : Live(pipe[p][k]) \/ ~Arrives(p, offer, id)[k].valid
<1>1. p \in {0, 1, 2} /\ (p # 0 => p - 1 \in 0..1 /\ (p - 1) + 1 = p) /\ (p # 2 => p \in 0..1)
  BY DEF Row
<1>2. Taken(p, out_ready) \in Readys
  <2>1. CASE p = 2
    BY <2>1 DEF Taken, Popped, Readys
  <2>2. CASE p # 2
    <3>1. /\ Border(p) \in Nat /\ Border(p + 1) \in Nat /\ Border(p) <= Border(p + 1)
          /\ p + 1 \in Row
      BY <1>1, <2>2, Borders
    <3>2. Outputs(pipe[p]) \in Signals /\ InReady(p + 1) \in Readys
      BY <3>1, OutputsAre
    <3>3. BackThrough(Border(p), Border(p + 1), Outputs(pipe[p]), InReady(p + 1)) \in Readys
      BY <3>1, <3>2, SectionCarries
    <3>4. QED
      BY <2>2, <3>3 DEF Taken
  <2>3. QED
    BY <2>1, <2>2
<1>3. ASSUME p = 0
      PROVE  /\ Fresh(offer, id) \in Signals
             /\ \A k \in Lane : Agrees(Fresh(offer, id)[k], idOf')
             /\ \A k \in Lane : Live(pipe[0][k]) \/ ~Fresh(offer, id)[k].valid
  <2> SUFFICES ASSUME NEW k \in Lane
               PROVE  /\ Fresh(offer, id)[k] \in Sig
                      /\ Agrees(Fresh(offer, id)[k], idOf')
                      /\ Live(pipe[0][k]) \/ ~Fresh(offer, id)[k].valid
    BY DEF Signals, Fresh
  <2> DEFINE w == [id |-> id[k], parts |-> {Number(offer, k)}]
  <2>1. Fresh(offer, id)[k] = Signal(k \in offer, w)
    BY DEF Fresh
  <2>2. CASE k \in offer
    <3>1. w \in Word
      <4>1. id[k] \in Ids /\ Number(offer, k) \in Token
        BY <2>2, Accepted
      <4>2. QED
        BY <4>1 DEF Word
    <3>2. \A t \in w.parts : t \in DOMAIN idOf' /\ idOf'[t] = w.id
      BY <2>2, Accepted
    <3>3. Live(pipe[0][k])
      BY <2>2 DEF Clock, Live
    <3>4. Signal(k \in offer, w) \in Sig /\ Signal(k \in offer, w).word = w
      BY <2>2, <3>1 DEF Signal, Sig
    <3> HIDE DEF w
    <3>5. QED
      BY <2>1, <3>2, <3>3, <3>4 DEF Agrees
  <2>3. CASE k \notin offer
    <3>1. (k \in offer) = FALSE
      BY <2>3
    <3>2. Signal(FALSE, w) = [valid |-> FALSE, word |-> NoWord]
      BY DEF Signal
    <3> HIDE DEF w
    <3>3. Fresh(offer, id)[k] = [valid |-> FALSE, word |-> NoWord]
      BY <2>1, <3>1, <3>2, Zenon
    <3>4. NoWord.parts = {}
      BY DEF NoWord
    <3>5. QED
      BY <3>3, <3>4 DEF Sig, Agrees
  <2>4. QED
    BY <2>2, <2>3
<1>4. ASSUME p # 0
      PROVE  /\ Arrives(p, offer, id) \in Signals
             /\ \A k \in Lane : Agrees(Arrives(p, offer, id)[k], idOf')
             /\ \A k \in Lane : Live(pipe[p][k]) \/ ~Arrives(p, offer, id)[k].valid
  <2> DEFINE q == p - 1
             in == Outputs(pipe[q])
             out == Before(Border(q), Border(p), in)
  <2>1. /\ q \in Row /\ Border(q) \in Nat /\ Border(p) \in Nat /\ Border(q) <= Border(p)
    BY <1>1, <1>4, Borders
  <2>2. /\ in \in Signals
        /\ \A k \in Lane : in[k].valid = pipe[q][k].valid
        /\ \A k \in Lane : in[k].word = pipe[q][k].data
    BY <2>1, OutputsAre
  <2>3. Arrives(p, offer, id) = out
    BY <1>4 DEF Arrives
  <2> HIDE DEF q, in
  <2>4. out \in Signals
    <3>1. InReady(p) \in Readys
      BY OutputsAre
    <3>2. QED
      BY <2>1, <2>2, <3>1, SectionCarries
  <2>5. \A k \in Lane : Agrees(out[k], idOf')
    <3>1. \A k \in Lane : Agrees(in[k], idOf')
      <4> SUFFICES ASSUME NEW k \in Lane, NEW t \in in[k].word.parts
                   PROVE  t \in DOMAIN idOf' /\ idOf'[t] = in[k].word.id
        BY DEF Agrees
      <4>1. t \in DOMAIN idOf /\ idOf[t] = in[k].word.id
        BY <2>1, <2>2 DEF NetInv, IdsAreRight
      <4>2. QED
        BY <4>1, Accepted
    <3>2. QED
      BY <2>1, <2>2, <3>1, SectionKeepsIds
  <2>6. \A k \in Lane : Live(pipe[p][k]) \/ ~out[k].valid
    <3>1. CASE \A r \in Row, k \in Lane : Live(pipe[r][k])
      BY <3>1
    <3>2. CASE \A r \in Row, k \in Lane : ~pipe[r][k].valid /\ ~pipe[r][k].ready
      <4> DEFINE none == [t \in {} |-> 0]
      <4>1. \A k \in Lane : Agrees(in[k], none)
        <5>1. \A k \in Lane : in[k] \in Sig /\ ~in[k].valid
          BY <2>1, <2>2, <3>2 DEF Signals
        <5>2. QED
          BY <5>1, SigIs DEF Agrees
      <4>2. \A k \in Lane : Agrees(out[k], none)
        BY <2>1, <2>2, <4>1, SectionKeepsIds
      <4>3. \A k \in Lane : out[k] \in Sig /\ out[k].word.parts = {}
        BY <2>4, <4>2 DEF Signals, Agrees
      <4>4. QED
        BY <4>3, SigIs
    <3>3. QED
      BY <3>1, <3>2 DEF NetInv, Started
  <2>7. QED
    BY <2>3, <2>4, <2>5, <2>6
<1>5. QED
  BY <1>2, <1>3, <1>4 DEF Arrives

-----------------------------------------------------------------------------
(* NetInv is inductive, whichever driver of a lane prevails.               *)
LEMMA NetInit == ASSUME Init PROVE NetInv /\ idOf = [t \in {} |-> 0]
<1> DEFINE off == AfterReset(NoWord, NoWord)
<1>1. \A p \in Row, k \in Lane : pipe[p][k] = off
  BY DEF Init
<1>2. GoodStage(off) /\ ~off.valid /\ ~off.ready /\ off.data = NoWord /\ off.spare = NoWord
  BY DEF AfterReset, GoodStage, Stage, StageType, SkidShape, Filled
<1>3. pipe \in [Row -> [Lane -> Stage]]
  <2>1. off \in Stage
    BY <1>2 DEF GoodStage
  <2> HIDE DEF off
  <2>2. [p \in Row |-> [k \in Lane |-> off]] \in [Row -> [Lane -> Stage]]
    BY <2>1
  <2>3. QED
    BY <2>2 DEF Init, off
<1> HIDE DEF off
<1>4. \A p \in Row, k \in Lane : GoodStage(pipe[p][k])
  BY <1>1, <1>2
<1>5. Started
  BY <1>1, <1>2 DEF Started
<1>6. IdsAreRight
  BY <1>1, <1>2 DEF IdsAreRight, NoWord
<1>7. idOf \in UNION {[1..n -> Ids] : n \in 0..MaxWords}
  <2>1. 0 \in 0..MaxWords /\ 1..0 = {}
    BY NetworkAssumption
  <2>2. [t \in {} |-> 0] \in [1..0 -> Ids]
    BY <2>1
  <2>3. QED
    BY <2>1, <2>2 DEF Init
<1>8. delivered \in [Token -> Nat]
  BY DEF Init
<1>9. QED
  BY <1>3, <1>4, <1>5, <1>6, <1>7, <1>8 DEF NetInv, Init

LEMMA NetStep ==
  ASSUME NetInv, NEW offer \in SUBSET Lane, NEW id \in [offer -> Ids],
         NEW out_ready \in SUBSET Waiting, Clock(offer, id, out_ready)
  PROVE  /\ NetInv'
         /\ \A p \in Row, k \in Lane : \A t :
              Keeps(pipe[p][k], pipe'[p][k], Arrives(p, offer, id)[k], Taken(p, out_ready)[k], t)
<1> DEFINE in(p) == Arrives(p, offer, id)
           rd(p) == Taken(p, out_ready)
<1>1. \A p \in Row : /\ in(p) \in Signals /\ rd(p) \in Readys
                     /\ \A k \in Lane : Agrees(in(p)[k], idOf')
                     /\ \A k \in Lane : Live(pipe[p][k]) \/ ~in(p)[k].valid
  BY ArrivesIs
<1>2. ASSUME NEW p \in Row, NEW k \in Lane
      PROVE  /\ GoodStage(pipe'[p][k]) /\ Live(pipe'[p][k])
             /\ pipe'[p][k].data \in {pipe[p][k].data, pipe[p][k].spare, in(p)[k].word, NoWord}
             /\ pipe'[p][k].spare \in {pipe[p][k].data, pipe[p][k].spare, in(p)[k].word, NoWord}
             /\ \A t : Keeps(pipe[p][k], pipe'[p][k], in(p)[k], rd(p)[k], t)
  <2>1. in(p)[k] \in Sig /\ rd(p)[k] \in BOOLEAN /\ (Live(pipe[p][k]) \/ ~in(p)[k].valid)
    BY <1>1 DEF Signals, Readys
  <2>2. pipe'[p][k] = Tidy(SkidNext(pipe[p][k], in(p)[k].valid, in(p)[k].word, rd(p)[k]))
    BY ClockIs
  <2>3. GoodStage(pipe[p][k])
    BY DEF NetInv
  <2> HIDE DEF in, rd
  <2>4. QED
    BY <2>1, <2>2, <2>3, LoadOne
<1>3. pipe' \in [Row -> [Lane -> Stage]]
  <2>1. /\ pipe' = [p \in Row |-> pipe'[p]]
        /\ \A p \in Row : pipe'[p] = [k \in Lane |-> pipe'[p][k]]
    BY DEF Clock, Load
  <2>2. \A p \in Row, k \in Lane : pipe'[p][k] \in Stage
    BY <1>2 DEF GoodStage
  <2>3. \A p \in Row : pipe'[p] \in [Lane -> Stage]
    BY <2>1, <2>2
  <2>4. QED
    BY <2>1, <2>3
<1>4. (\A p \in Row, k \in Lane : GoodStage(pipe[p][k]))'
  BY <1>2
<1>5. Started'
  BY <1>2 DEF Started
<1>6. IdsAreRight'
  <2> SUFFICES ASSUME NEW p \in Row, NEW k \in Lane,
                      NEW w \in {pipe'[p][k].data, pipe'[p][k].spare}, NEW t \in w.parts
               PROVE  t \in DOMAIN idOf' /\ idOf'[t] = w.id
    BY DEF IdsAreRight
  <2>1. w \in {pipe[p][k].data, pipe[p][k].spare, in(p)[k].word, NoWord}
    BY <1>2
  <2>2. CASE w \in {pipe[p][k].data, pipe[p][k].spare}
    <3>1. t \in DOMAIN idOf /\ idOf[t] = w.id
      BY <2>2 DEF NetInv, IdsAreRight
    <3>2. QED
      BY <3>1, Accepted
  <2>3. CASE w = in(p)[k].word
    BY <1>1, <2>3 DEF Agrees
  <2>4. CASE w = NoWord
    BY <2>4 DEF NoWord
  <2>5. QED
    BY <2>1, <2>2, <2>3, <2>4
<1>7. idOf' \in UNION {[1..n -> Ids] : n \in 0..MaxWords}
  BY Accepted
<1>8. delivered' \in [Token -> Nat]
  <2> DEFINE left(t) == {k \in out_ready : pipe[2][k].valid /\ t \in pipe[2][k].data.parts}
  <2>1. delivered' = [t \in Token |-> delivered[t] + Cardinality(left(t))]
    BY DEF Clock
  <2>2. ASSUME NEW t \in Token PROVE Cardinality(left(t)) \in Nat
    <3>1. IsFiniteSet(Lane)
      BY NetworkAssumption, FS_Interval DEF Lane
    <3>2. left(t) \in SUBSET Lane
      BY DEF Waiting
    <3>3. QED
      BY <3>1, <3>2, FS_Subset, FS_CardinalityType
  <2> HIDE DEF left
  <2>3. QED
    BY <2>1, <2>2 DEF NetInv
<1>9. QED
  BY <1>2, <1>3, <1>4, <1>5, <1>6, <1>7, <1>8 DEF NetInv

LEMMA NetStutters == ASSUME NetInv, UNCHANGED vars PROVE NetInv'
BY DEF NetInv, vars, Started, IdsAreRight

LEMMA NetHolds == Spec => []NetInv
<1>1. Init => NetInv
  BY NetInit
<1>2. NetInv /\ [Next]_vars => NetInv'
  <2>1. ASSUME NetInv, Next PROVE NetInv'
    BY <2>1, NetStep DEF Next
  <2>2. QED
    BY <2>1, NetStutters
<1>3. QED
  BY <1>1, <1>2, PTL DEF Spec

(* The registers keep their types and every skid buffer its shape, for     *)
(* every width and whichever driver of a lane prevails.                    *)
THEOREM NetworkTypeCorrect == Spec => []TypeOK
<1>1. NetInv => TypeOK
  BY DEF NetInv, TypeOK, Stage, GoodStage
<1>2. QED
  BY <1>1, NetHolds, PTL

(* Only words of one id are ever added up and the sum carries that id, for *)
(* every width, every stall and whichever driver of a lane prevails.       *)
THEOREM OneId == Spec => []SumsAreOfOneId
<1>1. NetInv => SumsAreOfOneId
  BY DEF NetInv, IdsAreRight, SumsAreOfOneId, Held
<1>2. QED
  BY <1>1, NetHolds, PTL

-----------------------------------------------------------------------------
(* Each word keeps to one place.                                           *)

(* Word t among what is offered.                                           *)
LEMMA FreshHas ==
  ASSUME NetInv, NEW offer \in SUBSET Lane, NEW id \in [offer -> Ids], NEW out_ready,
         Clock(offer, id, out_ready), NEW t
  PROVE  /\ \A k \in Lane : t \in Fresh(offer, id)[k].word.parts
                              <=> k \in offer /\ Number(offer, k) = t
         /\ Once(Fresh(offer, id), t)
         /\ On(Fresh(offer, id), t) => t \notin DOMAIN idOf
         /\ t \in DOMAIN idOf' <=> t \in DOMAIN idOf \/ On(Fresh(offer, id), t)
<1>1. ASSUME NEW k \in Lane
      PROVE  t \in Fresh(offer, id)[k].word.parts <=> k \in offer /\ Number(offer, k) = t
  <2> DEFINE w == [id |-> id[k], parts |-> {Number(offer, k)}]
  <2>1. Fresh(offer, id)[k] = Signal(k \in offer, w)
    BY DEF Fresh
  <2>2. Signal(k \in offer, w).word = IF k \in offer THEN w ELSE NoWord
    BY DEF Signal
  <2>3. w.parts = {Number(offer, k)} /\ NoWord.parts = {}
    BY DEF NoWord
  <2> HIDE DEF w
  <2>4. QED
    BY <2>1, <2>2, <2>3
<1>2. /\ Sent \in Nat /\ Cardinality(offer) \in Nat /\ DOMAIN idOf = 1..Sent
      /\ DOMAIN idOf' = 1..(Sent + Cardinality(offer))
      /\ \A k \in offer : Number(offer, k) \notin DOMAIN idOf /\ Number(offer, k) \in DOMAIN idOf'
      /\ \A s \in DOMAIN idOf : s \in DOMAIN idOf'
  BY Accepted
<1>3. /\ \A k, l \in offer : Number(offer, k) = Number(offer, l) => k = l
      /\ \A s \in (Sent + 1)..(Sent + Cardinality(offer)) :
           \E k \in offer : Number(offer, k) = s
  BY <1>2, Numbering
<1>4. Once(Fresh(offer, id), t)
  BY <1>1, <1>3 DEF Once
<1>5. On(Fresh(offer, id), t) <=> \E k \in offer : Number(offer, k) = t
  BY <1>1 DEF On
<1>6. t \in DOMAIN idOf' => t \in DOMAIN idOf \/ \E k \in offer : Number(offer, k) = t
  <2> SUFFICES ASSUME t \in DOMAIN idOf', t \notin DOMAIN idOf
               PROVE  \E k \in offer : Number(offer, k) = t
    OBVIOUS
  <2>1. t \in (Sent + 1)..(Sent + Cardinality(offer))
    BY <1>2
  <2>2. QED
    BY <1>3, <2>1
<1>7. QED
  BY <1>1, <1>2, <1>4, <1>5, <1>6

(* The lanes whose output word, a sum with t in it, is popped: at most one.*)
LEMMA LeavesOnce ==
  ASSUME NetInv, NEW t \in Token, OnePlace(t), NEW out_ready \in SUBSET Waiting,
         NEW left, left = {k \in out_ready : /\ pipe[2][k].valid
                                             /\ t \in pipe[2][k].data.parts}
  PROVE  Cardinality(left) = IF \E k \in out_ready : InData(pipe[2][k], t) THEN 1 ELSE 0
<1>1. \A k \in Lane : InData(pipe[2][k], t) => pipe[2][k].valid
  <2> SUFFICES ASSUME NEW k \in Lane, ~pipe[2][k].valid PROVE ~InData(pipe[2][k], t)
    OBVIOUS
  <2>1. pipe[2][k].data = NoWord
    BY Borders DEF NetInv, GoodStage, Filled
  <2>2. QED
    BY <2>1 DEF NoWord, InData
<1>2. left = {k \in out_ready : InData(pipe[2][k], t)} /\ out_ready \subseteq Lane
  BY <1>1 DEF Waiting, InData
<1>3. \A k, l \in Lane : InData(pipe[2][k], t) /\ InData(pipe[2][l], t) => k = l
  BY Borders DEF OnePlace, Holds
<1>4. CASE \E k \in out_ready : InData(pipe[2][k], t)
  <2>1. PICK k \in out_ready : InData(pipe[2][k], t)
    BY <1>4
  <2>2. left = {k}
    BY <1>2, <1>3, <2>1
  <2>3. QED
    BY <1>4, <2>2, FS_Singleton
<1>5. CASE ~ \E k \in out_ready : InData(pipe[2][k], t)
  <2>1. left = {}
    BY <1>2, <1>5
  <2>2. QED
    BY <1>5, <2>1, FS_EmptySet
<1>6. QED
  BY <1>4, <1>5

LEMMA PlaceStep ==
  ASSUME ~CopierDrives, NetInv, NEW t \in Token, OnePlace(t), NEW offer \in SUBSET Lane,
         NEW id \in [offer -> Ids], NEW out_ready \in SUBSET Waiting,
         Clock(offer, id, out_ready)
  PROVE  OnePlace(t)'
<1> DEFINE D(p, k) == InData(pipe[p][k], t)
           S(p, k) == InSpare(pipe[p][k], t)
           I(p, k) == t \in Arrives(p, offer, id)[k].word.parts
           R(p, k) == Taken(p, out_ready)[k]
           Y(p, k) == pipe[p][k].ready
           D1(p, k) == InData(pipe'[p][k], t)
           S1(p, k) == InSpare(pipe'[p][k], t)
           Leaves == \E k \in Lane : R(2, k) /\ D(2, k)
           Old == t \in DOMAIN idOf
           New == t \in DOMAIN idOf'
<1>1. /\ \A p, q \in Row, k, l \in Lane :
           (D(p, k) \/ S(p, k)) /\ (D(q, l) \/ S(q, l)) => p = q /\ k = l
      /\ \A p \in Row, k \in Lane : ~(D(p, k) /\ S(p, k))
      /\ delivered[t] = IF Old /\ (\A p \in Row, k \in Lane : ~(D(p, k) \/ S(p, k)))
                        THEN 1 ELSE 0
  BY DEF OnePlace, Holds
<1>2. \A p \in Row, k \in Lane :
        /\ D1(p, k) \/ S1(p, k) <=> S(p, k) \/ (D(p, k) /\ ~R(p, k)) \/ (Y(p, k) /\ I(p, k))
        /\ ~(D(p, k) /\ S(p, k)) /\ ~((D(p, k) \/ S(p, k)) /\ I(p, k)) => ~(D1(p, k) /\ S1(p, k))
  <2> SUFFICES ASSUME NEW p \in Row, NEW k \in Lane
               PROVE  /\ D1(p, k) \/ S1(p, k)
                            <=> S(p, k) \/ (D(p, k) /\ ~R(p, k)) \/ (Y(p, k) /\ I(p, k))
                      /\ ~(D(p, k) /\ S(p, k)) /\ ~((D(p, k) \/ S(p, k)) /\ I(p, k))
                           => ~(D1(p, k) /\ S1(p, k))
    OBVIOUS
  <2>1. Keeps(pipe[p][k], pipe'[p][k], Arrives(p, offer, id)[k], Taken(p, out_ready)[k], t)
    BY NetStep
  <2>2. QED
    BY <2>1, Zenon DEF Keeps
<1>3. ASSUME NEW p \in 0..1
      PROVE  /\ (\E k \in Lane : D(p, k)) <=> (\E l \in Lane : I(p + 1, l))
             /\ \A k, l \in Lane : I(p + 1, k) /\ I(p + 1, l) => k = l
             /\ \A k, l \in Lane : D(p, k) /\ I(p + 1, l) => R(p, k) = Y(p + 1, l)
  <2>1. /\ Border(p) \in Nat /\ Border(p + 1) \in Nat /\ Border(p) <= Border(p + 1)
        /\ p \in Row /\ p + 1 \in Row /\ p # 2 /\ p + 1 # 0 /\ (p + 1) - 1 = p
    BY Borders
  <2> DEFINE out == Outputs(pipe[p])
             next == Arrives(p + 1, offer, id)
             back == Taken(p, out_ready)
  <2>2. out \in Signals /\ InReady(p + 1) \in Readys /\ \A k \in Lane : out[k].word = pipe[p][k].data
    BY <2>1, OutputsAre
  <2>3. next = Before(Border(p), Border(p + 1), out)
    BY <2>1 DEF Arrives
  <2>4. back = BackThrough(Border(p), Border(p + 1), out, InReady(p + 1))
    BY <2>1 DEF Taken
  <2> HIDE DEF out, next, back
  <2>5. Carries(out, next, back, InReady(p + 1))
    BY <2>1, <2>2, <2>3, <2>4, SectionCarries
  <2>6. \A k \in Lane : t \in out[k].word.parts <=> D(p, k)
    BY <2>2 DEF InData
  <2>7. Once(out, t)
    BY <1>1, <2>1, <2>6 DEF Once
  <2>8. /\ Once(next, t) /\ (On(out, t) <=> On(next, t))
        /\ \A k, l \in Lane : t \in out[k].word.parts /\ t \in next[l].word.parts
                                => back[k] = InReady(p + 1)[l]
    BY <2>5, <2>7 DEF Carries
  <2>9. \A l \in Lane : InReady(p + 1)[l] = Y(p + 1, l)
    BY DEF InReady
  <2>10. QED
    BY <2>6, <2>8, <2>9 DEF Once, On, next, back
<1>4. /\ \A k, l \in Lane : I(0, k) /\ I(0, l) => k = l
      /\ \A k \in Lane : I(0, k) => Y(0, k) /\ ~Old
      /\ New <=> Old \/ \E k \in Lane : I(0, k)
  <2>1. Arrives(0, offer, id) = Fresh(offer, id)
    BY DEF Arrives
  <2>2. \A k \in offer : Y(0, k)
    BY DEF Clock
  <2>3. QED
    BY <2>1, <2>2, FreshHas, Zenon DEF Once, On
<1>5. \A p \in Row, k \in Lane : D(p, k) \/ S(p, k) => Old
  BY DEF NetInv, IdsAreRight, InData, InSpare
<1>6. \A k \in Lane : R(2, k) <=> k \in out_ready
  BY DEF Taken, Popped
<1>7. /\ delivered'[t] = delivered[t] + IF Leaves THEN 1 ELSE 0
  <2> DEFINE left == {k \in out_ready : pipe[2][k].valid /\ t \in pipe[2][k].data.parts}
  <2>1. delivered'[t] = delivered[t] + Cardinality(left)
    BY DEF Clock
  <2>2. Cardinality(left) = IF \E k \in out_ready : D(2, k) THEN 1 ELSE 0
    BY LeavesOnce
  <2>3. out_ready \subseteq Lane
    BY DEF Waiting
  <2>4. Leaves <=> \E k \in out_ready : D(2, k)
    BY <1>6, <2>3
  <2> HIDE DEF left, D, Leaves
  <2>5. QED
    BY <2>1, <2>2, <2>4
<1>8. /\ \A p \in Row : p = 0 \/ p = 1 \/ p = 2
      /\ 0 \in Row /\ 1 \in Row /\ 2 \in Row /\ 0 # 1 /\ 0 # 2 /\ 1 # 2
  BY DEF Row
<1>9. /\ (\E k \in Lane : D(0, k)) <=> (\E l \in Lane : I(1, l))
      /\ \A k, l \in Lane : I(1, k) /\ I(1, l) => k = l
      /\ \A k, l \in Lane : D(0, k) /\ I(1, l) => R(0, k) = Y(1, l)
  <2>1. 0 \in 0..1 /\ 0 + 1 = 1
    OBVIOUS
  <2> HIDE DEF D, I, R, Y
  <2>2. QED
    BY <1>3, <2>1
<1>10. /\ (\E k \in Lane : D(1, k)) <=> (\E l \in Lane : I(2, l))
       /\ \A k, l \in Lane : I(2, k) /\ I(2, l) => k = l
       /\ \A k, l \in Lane : D(1, k) /\ I(2, l) => R(1, k) = Y(2, l)
  <2>1. 1 \in 0..1 /\ 1 + 1 = 2
    OBVIOUS
  <2> HIDE DEF D, I, R, Y
  <2>2. QED
    BY <1>3, <2>1
<1> DEFINE H(p, k) == D(p, k) \/ S(p, k)
           H1(p, k) == D1(p, k) \/ S1(p, k)
<1> HIDE DEF D, S, I, R, Y, D1, S1, Old, New
<1>11. \A p \in Row, k \in Lane : I(p, k) => \A l \in Lane : ~H(p, l)
  BY <1>1, <1>4, <1>5, <1>8, <1>9, <1>10
<1>12. \A p \in Row, k \in Lane : ~(D1(p, k) /\ S1(p, k))
  BY <1>1, <1>2, <1>11
<1>13. \A p, q \in Row, k, l \in Lane : H1(p, k) /\ H1(q, l) => p = q /\ k = l
  <2>1. ASSUME NEW p \in Row, NEW k \in Lane, H(p, k)
        PROVE  \A q \in Row, l \in Lane : I(q, l) => D(p, k) /\ ((q = 1 /\ p = 0) \/ (q = 2 /\ p = 1))
    BY <1>1, <1>4, <1>5, <1>8, <1>9, <1>10, <2>1
  <2>2. ASSUME NEW p \in Row, NEW k \in Lane, H1(p, k), NEW q \in Row, NEW l \in Lane, H1(q, l)
        PROVE  p = q /\ k = l
    <3>1. CASE H(p, k) /\ H(q, l)
      BY <1>1, <3>1
    <3>2. CASE H(p, k) /\ ~H(q, l)
      <4>1. Y(q, l) /\ I(q, l) /\ (S(p, k) \/ ~R(p, k))
        BY <1>1, <1>2, <1>11, <2>2, <3>2
      <4>2. D(p, k) /\ ((q = 1 /\ p = 0) \/ (q = 2 /\ p = 1))
        BY <2>1, <3>2, <4>1
      <4>3. QED
        BY <1>1, <1>9, <1>10, <4>1, <4>2
    <3>3. CASE ~H(p, k) /\ H(q, l)
      <4>1. Y(p, k) /\ I(p, k) /\ (S(q, l) \/ ~R(q, l))
        BY <1>1, <1>2, <1>11, <2>2, <3>3
      <4>2. D(q, l) /\ ((p = 1 /\ q = 0) \/ (p = 2 /\ q = 1))
        BY <2>1, <3>3, <4>1
      <4>3. QED
        BY <1>1, <1>9, <1>10, <4>1, <4>2
    <3>4. CASE ~H(p, k) /\ ~H(q, l)
      <4>1. I(p, k) /\ I(q, l)
        BY <1>2, <2>2, <3>4
      <4>2. QED
        BY <1>1, <1>4, <1>5, <1>8, <1>9, <1>10, <4>1
    <3>5. QED
      BY <3>1, <3>2, <3>3, <3>4
  <2>3. QED
    BY <2>2
<1> DEFINE E == \E p \in Row, k \in Lane : H(p, k)
           E1 == \E p \in Row, k \in Lane : H1(p, k)
<1>14. Leaves => Old /\ New /\ E /\ ~E1
  <2> SUFFICES ASSUME NEW k \in Lane, R(2, k), D(2, k) PROVE Old /\ New /\ E /\ ~E1
    OBVIOUS
  <2>1. Old /\ New /\ E
    BY <1>4, <1>5, <1>8
  <2>2. \A q \in Row, l \in Lane : ~I(q, l)
    BY <1>1, <1>4, <1>8, <1>9, <1>10, <2>1
  <2>3. QED
    BY <1>1, <1>2, <1>8, <2>1, <2>2
<1>15. ~Leaves => (Old /\ ~E <=> New /\ ~E1)
  <2>1. Old /\ ~E => New /\ ~E1
    BY <1>2, <1>4, <1>8, <1>9, <1>10
  <2>2. ASSUME ~Leaves, E PROVE E1
    <3>1. PICK p \in Row, k \in Lane : H(p, k)
      BY <2>2
    <3>2. CASE S(p, k) \/ ~R(p, k)
      BY <1>2, <3>1, <3>2
    <3>3. CASE D(p, k) /\ R(p, k) /\ p = 0
      BY <1>2, <1>8, <1>9, <3>3
    <3>4. CASE D(p, k) /\ R(p, k) /\ p = 1
      BY <1>2, <1>8, <1>10, <3>4
    <3>5. QED
      BY <1>8, <2>2, <3>1, <3>2, <3>3, <3>4
  <2>3. ASSUME NEW k \in Lane, I(0, k) PROVE E1
    BY <1>2, <1>4, <1>8, <2>3
  <2>4. QED
    BY <1>4, <2>1, <2>2, <2>3
<1>16. delivered'[t] = IF New /\ ~E1 THEN 1 ELSE 0
  BY <1>1, <1>7, <1>14, <1>15
<1>17. QED
  BY <1>12, <1>13, <1>16 DEF OnePlace, Holds, D1, S1, New

LEMMA PlaceInit == ASSUME Init, NEW t \in Token PROVE OnePlace(t)
<1>1. \A p \in Row, k \in Lane : ~InData(pipe[p][k], t) /\ ~InSpare(pipe[p][k], t)
  BY DEF Init, AfterReset, NoWord, InData, InSpare
<1>2. t \notin DOMAIN idOf /\ delivered[t] = 0
  BY NetInit DEF Init
<1>3. QED
  BY <1>1, <1>2 DEF OnePlace, Holds

LEMMA PlacesHold == ASSUME ~CopierDrives PROVE Spec => []PlaceInv
<1>1. Init => PlaceInv
  BY NetInit, PlaceInit DEF PlaceInv
<1>2. PlaceInv /\ [Next]_vars => PlaceInv'
  <2>1. ASSUME PlaceInv, Next PROVE PlaceInv'
    <3>1. PICK offer \in SUBSET Lane, out_ready \in SUBSET Waiting :
            \E id \in [offer -> Ids] : Clock(offer, id, out_ready)
      BY <2>1 DEF Next
    <3>2. NetInv' /\ \A t \in Token : OnePlace(t)'
      BY <2>1, <3>1, NetStep, PlaceStep DEF PlaceInv
    <3>3. QED
      BY <3>2 DEF PlaceInv
  <2>2. ASSUME PlaceInv, UNCHANGED vars PROVE PlaceInv'
    <3>1. NetInv'
      BY <2>2, NetStutters DEF PlaceInv
    <3>2. QED
      BY <2>2, <3>1 DEF PlaceInv, OnePlace, Holds, vars
  <2>3. QED
    BY <2>1, <2>2
<1>3. QED
  BY <1>1, <1>2, PTL DEF Spec

(* A word in one register is one copy; a word in none is no copy.          *)
LEMMA CopiesOfOne ==
  ASSUME NEW t \in Token, OnePlace(t)
  PROVE  Copies(t) = IF \E p \in Row, k \in Lane : Holds(p, k, t) THEN 1 ELSE 0
<1> DEFINE inData == {x \in Row \X Lane : t \in pipe[x[1]][x[2]]["data"].parts}
           inSpare == {x \in Row \X Lane : t \in pipe[x[1]][x[2]]["spare"].parts}
<1>1. Copies(t) = Cardinality(inData) + Cardinality(inSpare)
  BY DEF Copies
<1>2. /\ \A x \in inData : x = <<x[1], x[2]>> /\ x[1] \in Row /\ x[2] \in Lane
                           /\ InData(pipe[x[1]][x[2]], t)
      /\ \A x \in inSpare : x = <<x[1], x[2]>> /\ x[1] \in Row /\ x[2] \in Lane
                            /\ InSpare(pipe[x[1]][x[2]], t)
      /\ \A p \in Row, k \in Lane : /\ InData(pipe[p][k], t) => <<p, k>> \in inData
                                    /\ InSpare(pipe[p][k], t) => <<p, k>> \in inSpare
  BY DEF InData, InSpare
<1>3. \A p, q \in Row, k, l \in Lane : Holds(p, k, t) /\ Holds(q, l, t) => p = q /\ k = l
  BY DEF OnePlace
<1>4. \A p \in Row, k \in Lane : ~(InData(pipe[p][k], t) /\ InSpare(pipe[p][k], t))
  BY DEF OnePlace
<1> HIDE DEF inData, inSpare
<1>5. CASE \E p \in Row, k \in Lane : Holds(p, k, t)
  <2>1. PICK p \in Row, k \in Lane : Holds(p, k, t)
    BY <1>5
  <2>2. \A q \in Row, l \in Lane : Holds(q, l, t) => q = p /\ l = k
    BY <1>3, <2>1
  <2>3. (\A x \in inData : x = <<p, k>>) /\ (\A x \in inSpare : x = <<p, k>>)
    BY <1>2, <2>2 DEF Holds
  <2>4. \/ inData = {<<p, k>>} /\ inSpare = {}
        \/ inData = {} /\ inSpare = {<<p, k>>}
    BY <1>2, <1>4, <2>1, <2>3 DEF Holds
  <2>5. Cardinality({<<p, k>>}) = 1 /\ Cardinality({}) = 0
    BY FS_EmptySet, FS_Singleton
  <2>6. Copies(t) = 1
    BY <1>1, <2>4, <2>5
  <2>7. QED
    BY <1>5, <2>6
<1>6. CASE ~ \E p \in Row, k \in Lane : Holds(p, k, t)
  <2>1. inData = {} /\ inSpare = {}
    BY <1>2, <1>6 DEF Holds
  <2>2. QED
    BY <1>1, <1>6, <2>1, FS_EmptySet
<1>7. QED
  BY <1>5, <1>6

(* Every accepted word is in exactly one register or has left exactly      *)
(* once: stalls, merging and rerouting lose and double nothing, for every  *)
(* width and every number of words, when the operator drives the lane.     *)
THEOREM WordsConserved == ASSUME ~CopierDrives PROVE Spec => []Conservation
<1>1. PlaceInv => Conservation
  <2> SUFFICES ASSUME PlaceInv, NEW t \in Token
               PROVE  Copies(t) + delivered[t] = IF t \in DOMAIN idOf THEN 1 ELSE 0
    BY DEF Conservation
  <2>1. OnePlace(t)
    BY DEF PlaceInv
  <2>2. delivered[t] = IF t \in DOMAIN idOf /\ (\A p \in Row, k \in Lane : ~Holds(p, k, t))
                       THEN 1 ELSE 0
    BY <2>1 DEF OnePlace
  <2>3. \A p \in Row, k \in Lane : Holds(p, k, t) => t \in DOMAIN idOf
    BY DEF PlaceInv, NetInv, IdsAreRight, Holds, InData, InSpare
  <2>4. Copies(t) = IF \E p \in Row, k \in Lane : Holds(p, k, t) THEN 1 ELSE 0
    BY <2>1, CopiesOfOne
  <2>5. QED
    BY <2>2, <2>3, <2>4
<1>2. QED
  BY <1>1, PlacesHold, PTL
=============================================================================
