---------------------------- MODULE DataInduction ----------------------------
(***************************************************************************)
(* Induction and recursion over the natural numbers in a form that the     *)
(* provers can use.  The theorems of NaturalsInduction take a predicate or *)
(* a defining expression as an operator, and none of the provers in use    *)
(* can give them one; here the predicate is the set of the numbers that    *)
(* satisfy it and the recursion step is a function.  They rest on the      *)
(* library's fact that < is well founded on Nat.                           *)
(*                                                                         *)
(* From it: what the sums of the community modules, which choose the order *)
(* they add in, come to (SumFacts and what follows), and that members of a *)
(* finite set that stand in line make a list (InLineIsList).               *)
(***************************************************************************)
EXTENDS Integers, FiniteSets, Functions, FiniteSetTheorems, WellFoundedInduction, TLAPS

(* A set of natural numbers that is not empty has a least element.         *)
LEMMA LeastNatural ==
  ASSUME NEW T \in SUBSET Nat, T # {}
  PROVE  \E x \in T : \A y \in T : x <= y
<1> DEFINE R == OpToRel(<, Nat)
<1>1. IsWellFoundedOn(R, Nat)
  BY NatLessThanWellFounded
<1>2. \A x, y \in Nat : <<x, y>> \in R <=> x < y
  BY DEF OpToRel
<1> HIDE DEF R
<1>3. PICK x \in T : \A y \in T : ~ (<<y, x>> \in R)
  BY <1>1, WFMin
<1>4. x \in Nat /\ \A y \in T : y \in Nat /\ ~ (y < x)
  BY <1>2, <1>3, Zenon
<1>5. \A y \in T : x <= y
  BY <1>4
<1>6. QED
  BY <1>5

(* A set that holds zero and the successor of each number in it holds all. *)
LEMMA SetInduction ==
  ASSUME NEW T, 0 \in T, \A n \in Nat : n \in T => n + 1 \in T
  PROVE  Nat \subseteq T
<1> SUFFICES ASSUME NEW n \in Nat, n \notin T PROVE FALSE
  OBVIOUS
<1>1. Nat \ T # {} /\ Nat \ T \in SUBSET Nat
  OBVIOUS
<1>2. PICK m \in Nat \ T : \A y \in Nat \ T : m <= y
  BY <1>1, LeastNatural
<1>3. m # 0
  OBVIOUS
<1>4. m - 1 \in Nat /\ m - 1 \in T
  BY <1>2, <1>3
<1>5. QED
  BY <1>4

(* The same from m up to k.                                                *)
LEMMA IntervalInduction ==
  ASSUME NEW m \in Int, NEW k \in Int, NEW T, m \in T,
         \A n \in m..(k - 1) : n \in T => n + 1 \in T
  PROVE  \A n \in m..k : n \in T
<1> DEFINE U == {i \in Nat : m + i <= k => m + i \in T}
<1>1. 0 \in U
  OBVIOUS
<1>2. \A i \in Nat : i \in U => i + 1 \in U
  <2> SUFFICES ASSUME NEW i \in Nat, i \in U, m + (i + 1) <= k
               PROVE  m + (i + 1) \in T
    OBVIOUS
  <2>1. m + i \in m..(k - 1) /\ m + i \in T
    OBVIOUS
  <2>2. (m + i) + 1 \in T
    BY <2>1
  <2>3. QED
    BY <2>2
<1>3. Nat \subseteq U
  <2> HIDE DEF U
  <2>1. QED
    BY <1>1, <1>2, SetInduction
<1>4. QED
  <2> SUFFICES ASSUME NEW n \in m..k PROVE n \in T
    OBVIOUS
  <2>1. n - m \in Nat /\ n - m \in U
    BY <1>3
  <2>2. m + (n - m) = n
    OBVIOUS
  <2>3. QED
    BY <2>1, <2>2

-----------------------------------------------------------------------------
(* A function can be defined on the natural numbers by its value at zero   *)
(* and what makes each value of the one before.                            *)
Steps(S) == [Nat -> [S -> S]]

Recurses(f, S, a, step) ==
  f \in [Nat -> S] /\ f[0] = a /\ \A n \in Nat : f[n + 1] = step[n][f[n]]

(* Such a function exists, whatever the start and the steps.               *)
LEMMA PrimitiveRecursion ==
  ASSUME NEW S, NEW a \in S, NEW step \in Steps(S)
  PROVE  \E f : Recurses(f, S, a, step)
<1> USE DEF Steps
<1> DEFINE Begun(n) == {g \in [0..n -> S] :
                         g[0] = a /\ \A k \in 0..(n - 1) : g[k + 1] = step[k][g[k]]}
           T == {n \in Nat : Begun(n) # {}}
<1>1. 0 \in T
  <2>1. [k \in 0..0 |-> a] \in Begun(0)
    OBVIOUS
  <2>2. QED
    BY <2>1
<1>2. \A n \in Nat : n \in T => n + 1 \in T
  <2> SUFFICES ASSUME NEW n \in Nat, n \in T PROVE n + 1 \in T
    OBVIOUS
  <2>a. PICK g : g \in Begun(n)
    OBVIOUS
  <2> DEFINE h == [k \in 0..(n + 1) |-> IF k <= n THEN g[k] ELSE step[n][g[n]]]
  <2>1. /\ g \in [0..n -> S] /\ n \in 0..n /\ g[0] = a
        /\ \A k \in 0..(n - 1) : g[k + 1] = step[k][g[k]]
    BY <2>a
  <2>2. step[n][g[n]] \in S
    BY <2>1
  <2>3. h \in [0..(n + 1) -> S]
    BY <2>1, <2>2
  <2>4. h[0] = a
    BY <2>1
  <2>5. ASSUME NEW k \in 0..n PROVE h[k + 1] = step[k][h[k]]
    <3>1. k \in 0..(n + 1) /\ k + 1 \in 0..(n + 1) /\ h[k] = g[k]
      BY <2>1
    <3>2. CASE k = n
      BY <3>1, <3>2
    <3>3. CASE k # n
      <4>1. k \in 0..(n - 1) /\ k + 1 <= n
        BY <3>3
      <4>2. QED
        BY <2>1, <3>1, <4>1
    <3>4. QED
      BY <3>2, <3>3
  <2>6. h \in Begun(n + 1)
    <3>1. (n + 1) - 1 = n
      OBVIOUS
    <3> HIDE DEF h
    <3>2. QED
      BY <2>3, <2>4, <2>5, <3>1
  <2>7. n + 1 \in Nat
    OBVIOUS
  <2> HIDE DEF h, Begun
  <2>8. Begun(n + 1) # {}
    BY <2>6
  <2>9. QED
    BY <2>7, <2>8
<1>3. \A n \in Nat : Begun(n) # {}
  <2> HIDE DEF T
  <2>1. Nat \subseteq T
    BY <1>1, <1>2, SetInduction
  <2>2. QED
    BY <2>1 DEF T
<1>4. ASSUME NEW n \in Nat, NEW g \in Begun(n), NEW h \in Begun(n + 1)
      PROVE  \A k \in 0..n : g[k] = h[k]
  <2> DEFINE U == {k \in 0..n : g[k] = h[k]}
  <2>1. 0 \in U
    OBVIOUS
  <2>2. \A k \in 0..(n - 1) : k \in U => k + 1 \in U
    OBVIOUS
  <2> HIDE DEF U
  <2>3. \A k \in 0..n : k \in U
    BY <2>1, <2>2, IntervalInduction, 0 \in Int, n \in Int
  <2>4. QED
    BY <2>3 DEF U
<1> DEFINE some == [n \in Nat |-> CHOOSE g \in Begun(n) : TRUE]
           f == [n \in Nat |-> some[n][n]]
<1>5. \A n \in Nat : some[n] \in Begun(n)
  BY <1>3
<1> HIDE DEF some
<1>6. \A n \in Nat : f[n] \in S
  BY <1>5
<1>7. f[0] = a
  BY <1>5
<1>8. ASSUME NEW n \in Nat PROVE f[n + 1] = step[n][f[n]]
  <2>1. some[n] \in Begun(n) /\ some[n + 1] \in Begun(n + 1) /\ n \in 0..n
    BY <1>5
  <2>2. some[n][n] = some[n + 1][n]
    BY <1>4, <2>1
  <2>3. some[n + 1][n + 1] = step[n][some[n + 1][n]]
    BY <2>1
  <2>4. QED
    BY <2>2, <2>3
<1>9. QED
  BY <1>6, <1>7, <1>8 DEF Recurses

-----------------------------------------------------------------------------
(* Remainders.  They are stated here, where no assumption on constants     *)
(* distracts the provers from the arithmetic.                              *)
LEMMA RemainderFacts ==
  ASSUME NEW m \in Nat \ {0}
  PROVE  /\ \A x \in Nat :
              x % m \in 0..(m - 1) /\ x \div m \in Nat /\ x = m * (x \div m) + (x % m)
         /\ \A x \in Nat : x < m => x % m = x
         /\ \A x \in Nat : (x + m) % m = x % m
<1>1. ASSUME NEW x \in Nat
      PROVE  x % m \in 0..(m - 1) /\ x \div m \in Nat /\ x = m * (x \div m) + (x % m)
  OBVIOUS
<1>2. \A x \in 0..(m - 1) : x % m = x
  OBVIOUS
<1>3. ASSUME NEW x \in Nat PROVE (x + m) % m = x % m
  <2> DEFINE q == x \div m
             r == x % m
             u == (x + m) \div m
             v == (x + m) % m
  <2>1. q \in Nat /\ r \in 0..(m - 1) /\ x = m * q + r
    BY <1>1
  <2>2. x + m \in Nat
    OBVIOUS
  <2>3. u \in Nat /\ v \in 0..(m - 1) /\ x + m = m * u + v
    BY <1>1, <2>2
  <2> HIDE DEF q, r, u, v
  <2>4. m * (u - q - 1) = m * u - m * q - m
    BY <2>1, <2>3
  <2>5. m * q \in Nat /\ m * u \in Nat
    BY <2>1, <2>3
  <2>6. m * (u - q - 1) = r - v
    BY <2>1, <2>3, <2>4, <2>5
  <2>7. u - q - 1 \in Int /\ m * (u - q - 1) \in (1 - m)..(m - 1)
    BY <2>1, <2>3, <2>6
  <2>8. \A d \in Int : m * d \in (1 - m)..(m - 1) => d = 0
    OBVIOUS
  <2>9. u - q - 1 = 0
    BY <2>7, <2>8
  <2>10. m * (u - q - 1) = 0
    BY <2>9
  <2>11. r = v
    BY <2>1, <2>3, <2>6, <2>10
  <2>12. QED
    BY <2>11 DEF r, v
<1>4. \A x \in Nat : x < m => x \in 0..(m - 1)
  OBVIOUS
<1>5. QED
  BY <1>1, <1>2, <1>3, <1>4

(* A remainder may be taken before or after a number is added.             *)
LEMMA RemainderOfSum ==
  ASSUME NEW m \in Nat \ {0}, NEW x \in Nat, NEW y \in Nat
  PROVE  ((x % m) + y) % m = (x + y) % m
<1> DEFINE T == {q \in Nat : \A z \in Nat : (z + m * q) % m = z % m}
<1>1. 0 \in T
  OBVIOUS
<1>2. ASSUME NEW q \in Nat, q \in T PROVE q + 1 \in T
  <2> SUFFICES ASSUME NEW z \in Nat PROVE (z + m * (q + 1)) % m = z % m
    OBVIOUS
  <2>1. m * q \in Nat /\ m * (q + 1) = m * q + m
    OBVIOUS
  <2>2. z + m * (q + 1) = (z + m * q) + m /\ z + m * q \in Nat
    BY <2>1
  <2>3. (z + m * q) % m = z % m
    BY <1>2
  <2>4. QED
    BY <2>2, <2>3, RemainderFacts
<1>3. Nat \subseteq T
  <2> HIDE DEF T
  <2>1. QED
    BY <1>1, <1>2, SetInduction
<1>4. x \div m \in Nat /\ x % m \in Nat /\ x = m * (x \div m) + (x % m)
  BY RemainderFacts
<1>5. ((x % m) + y) + m * (x \div m) = x + y
  <2>1. m * (x \div m) \in Nat
    BY <1>4
  <2>2. QED
    BY <1>4, <2>1
<1>6. (((x % m) + y) + m * (x \div m)) % m = ((x % m) + y) % m
  <2> DEFINE q == x \div m
             z == (x % m) + y
  <2>1. q \in T
    BY <1>3, <1>4
  <2>0. z \in Nat
    BY <1>4
  <2>2. \A u \in Nat : (u + m * q) % m = u % m
    BY <2>1
  <2> HIDE DEF q, z
  <2>3. (z + m * q) % m = z % m
    BY <2>0, <2>2
  <2>4. QED
    BY <2>3 DEF q, z
<1>7. QED
  BY <1>5, <1>6

-----------------------------------------------------------------------------
(* Induction over a finite set, and over the sizes of its subsets.         *)
LEMMA FiniteInduction ==
  ASSUME NEW S, IsFiniteSet(S), NEW U, {} \in U,
         \A V \in SUBSET S : \A x \in S \ V : V \in U => V \cup {x} \in U
  PROVE  S \in U
<1> DEFINE c == Cardinality(S)
<1>1. c \in Nat /\ ExistsBijection(1..c, S)
  BY FS_CardinalityType
<1> HIDE DEF c
<1>2. PICK f \in Bijection(1..c, S) : TRUE
  BY <1>1 DEF ExistsBijection
<1>3. /\ f \in [1..c -> S] /\ \A m, n \in 1..c : m # n => f[m] # f[n]
      /\ \A x \in S : \E m \in 1..c : f[m] = x
  BY <1>2 DEF Bijection, Injection, Surjection, IsInjective
<1> DEFINE I(k) == {f[m] : m \in 1..k}
           D == {k \in Nat : k <= c => I(k) \in U}
<1>4. I(0) = {}
  OBVIOUS
<1>5. 0 \in D
  BY <1>4
<1>6. ASSUME NEW k \in Nat, k \in D PROVE k + 1 \in D
  <2> SUFFICES ASSUME k + 1 <= c PROVE I(k + 1) \in U
    OBVIOUS
  <2>1. I(k) \in U /\ I(k) \in SUBSET S
    BY <1>1, <1>3, <1>6
  <2>2. f[k + 1] \in S \ I(k)
    BY <1>1, <1>3
  <2>3. I(k + 1) = I(k) \cup {f[k + 1]}
    OBVIOUS
  <2> HIDE DEF I
  <2>4. QED
    BY <2>1, <2>2, <2>3
<1>7. I(c) = S
  BY <1>1, <1>3
<1> HIDE DEF D, I
<1>8. Nat \subseteq D
  BY <1>5, <1>6, SetInduction
<1>9. QED
  BY <1>1, <1>7, <1>8 DEF D

(* What SumFunctionOnSet chooses: the sums of f over the subsets of S.     *)
SumsOver(g, f, S) ==
  g = [s \in SUBSET S |->
        IF s = {} THEN 0 ELSE LET x == CHOOSE x \in s : TRUE IN f[x] + g[s \ {x}]]

SizesTo(S, k) == {s \in SUBSET S : Cardinality(s) <= k}

SumsTo(g, f, S, k) ==
  g = [s \in SizesTo(S, k) |->
        IF s = {} THEN 0 ELSE LET x == CHOOSE x \in s : TRUE IN f[x] + g[s \ {x}]]

(* A part of a finite set without one of its members is smaller by one.    *)
LEMMA TakeOneOut ==
  ASSUME NEW S, IsFiniteSet(S), NEW s \in SUBSET S, NEW x \in s
  PROVE  /\ s \ {x} \in SUBSET S /\ Cardinality(s \ {x}) = Cardinality(s) - 1
         /\ Cardinality(s) \in Nat \ {0}
<1>1. IsFiniteSet(s)
  BY FS_Subset
<1>2. Cardinality(s) \in Nat /\ Cardinality(s) # 0
  BY <1>1, FS_CardinalityType, FS_EmptySet
<1>3. QED
  BY <1>1, <1>2, FS_RemoveElement

(* There is a recursive sum over the parts of up to k members.             *)
LEMMA SumsToExist ==
  ASSUME NEW S, IsFiniteSet(S), NEW f, NEW k \in Nat
  PROVE  \E g : SumsTo(g, f, S, k)
<1> DEFINE D == {d \in Nat : \E g : SumsTo(g, f, S, d)}
<1>1. 0 \in D
  <2>1. ASSUME NEW s \in SizesTo(S, 0) PROVE s = {}
    <3>1. s \in SUBSET S /\ Cardinality(s) <= 0
      BY DEF SizesTo
    <3>2. IsFiniteSet(s) /\ Cardinality(s) \in Nat
      BY <3>1, FS_Subset, FS_CardinalityType
    <3>3. QED
      BY <3>1, <3>2, FS_EmptySet
  <2>2. SumsTo([s \in SizesTo(S, 0) |-> 0], f, S, 0)
    BY <2>1 DEF SumsTo
  <2>3. QED
    BY <2>2
<1>2. ASSUME NEW d \in Nat, d \in D PROVE d + 1 \in D
  <2>1. PICK g : SumsTo(g, f, S, d)
    BY <1>2
  <2> DEFINE ch(s) == CHOOSE x \in s : TRUE
             h == [s \in SizesTo(S, d + 1) |-> IF s = {} THEN 0 ELSE f[ch(s)] + g[s \ {ch(s)}]]
  <2>2. ASSUME NEW s \in SizesTo(S, d + 1), s # {}
        PROVE  /\ s \ {ch(s)} \in SizesTo(S, d) /\ s \ {ch(s)} \in SizesTo(S, d + 1)
               /\ h[s \ {ch(s)}] = g[s \ {ch(s)}]
    <3> DEFINE t == s \ {ch(s)}
    <3>1. ch(s) \in s /\ s \in SUBSET S /\ Cardinality(s) <= d + 1
      BY <2>2 DEF SizesTo
    <3> HIDE DEF ch
    <3>2. t \in SUBSET S /\ Cardinality(t) = Cardinality(s) - 1 /\ Cardinality(s) \in Nat
      BY <3>1, TakeOneOut
    <3>3. t \in SizesTo(S, d) /\ t \in SizesTo(S, d + 1)
      BY <3>1, <3>2 DEF SizesTo
    <3>4. g[t] = IF t = {} THEN 0 ELSE f[ch(t)] + g[t \ {ch(t)}]
      BY <2>1, <3>3 DEF SumsTo, ch
    <3>5. h[t] = IF t = {} THEN 0 ELSE f[ch(t)] + g[t \ {ch(t)}]
      BY <3>3
    <3>6. QED
      BY <3>3, <3>4, <3>5
  <2>3. ASSUME NEW s \in SizesTo(S, d + 1)
        PROVE  h[s] = IF s = {} THEN 0 ELSE f[ch(s)] + h[s \ {ch(s)}]
    <3>1. h[s] = IF s = {} THEN 0 ELSE f[ch(s)] + g[s \ {ch(s)}]
      OBVIOUS
    <3> HIDE DEF h, ch
    <3>2. CASE s = {}
      BY <3>1, <3>2
    <3>3. CASE s # {}
      BY <2>2, <3>1, <3>3
    <3>4. QED
      BY <3>2, <3>3
  <2>4. SumsTo(h, f, S, d + 1)
    <3>1. h = [s \in SizesTo(S, d + 1) |-> h[s]]
      OBVIOUS
    <3> HIDE DEF h
    <3>2. h = [s \in SizesTo(S, d + 1) |-> IF s = {} THEN 0 ELSE f[ch(s)] + h[s \ {ch(s)}]]
      BY <2>3, <3>1, Zenon
    <3>3. QED
      BY <3>2, Zenon DEF SumsTo
  <2>5. QED
    BY <2>4
<1> HIDE DEF D
<1>3. Nat \subseteq D
  BY <1>1, <1>2, SetInduction
<1>4. QED
  BY <1>3 DEF D

(* There is one over all parts of a finite set.                            *)
LEMMA SumsExist ==
  ASSUME NEW S, IsFiniteSet(S), NEW f
  PROVE  \E g : SumsOver(g, f, S)
<1>1. Cardinality(S) \in Nat
  BY FS_CardinalityType
<1>2. PICK g : SumsTo(g, f, S, Cardinality(S))
  BY <1>1, SumsToExist
<1>3. SizesTo(S, Cardinality(S)) = SUBSET S
  BY FS_Subset DEF SizesTo
<1>4. SumsOver(g, f, S)
  BY <1>2, <1>3 DEF SumsTo, SumsOver
<1>5. QED
  BY <1>4

(* The sum of the community modules is the value of such a function.       *)
LEMMA SumIsChosen ==
  ASSUME NEW S, IsFiniteSet(S), NEW f
  PROVE  \E g : SumsOver(g, f, S) /\ SumFunctionOnSet(f, S) = g[S]
<1> DEFINE F(g, s) == IF s = {} THEN 0 ELSE LET x == CHOOSE x \in s : TRUE IN f[x] + g[s \ {x}]
           r == CHOOSE g : g = [s \in SUBSET S |-> F(g, s)]
<1>1. SumFunctionOnSet(f, S) = r[S]
  BY DEF SumFunctionOnSet, FoldFunctionOnSet, MapThenFoldSet
<1>2. PICK g : SumsOver(g, f, S)
  BY SumsExist
<1>3. g = [s \in SUBSET S |-> F(g, s)]
  BY <1>2 DEF SumsOver
<1>4. r = [s \in SUBSET S |-> F(r, s)]
  <2> HIDE DEF F
  <2>1. QED
    BY <1>3
<1>5. SumsOver(r, f, S)
  BY <1>4 DEF SumsOver
<1>6. QED
  BY <1>1, <1>5

(* Two of them agree on the parts that both are defined on.                *)
LEMMA SumsAgree ==
  ASSUME NEW S, IsFiniteSet(S), NEW T \in SUBSET S, NEW f, NEW g, NEW h,
         SumsOver(g, f, S), SumsOver(h, f, T)
  PROVE  \A s \in SUBSET T : g[s] = h[s]
<1> DEFINE D == {k \in Nat : \A s \in SizesTo(T, k) : g[s] = h[s]}
           ch(s) == CHOOSE x \in s : TRUE
<1>0. IsFiniteSet(T)
  BY FS_Subset
<1>1. ASSUME NEW s \in SUBSET T
      PROVE  /\ g[s] = IF s = {} THEN 0 ELSE f[ch(s)] + g[s \ {ch(s)}]
             /\ h[s] = IF s = {} THEN 0 ELSE f[ch(s)] + h[s \ {ch(s)}]
  <2>1. s \in SUBSET S
    OBVIOUS
  <2>2. QED
    BY <2>1 DEF SumsOver
<1>2. ASSUME NEW s \in SUBSET T, s # {} PROVE ch(s) \in s
  BY <1>2
<1> HIDE DEF ch
<1>3. 0 \in D
  <2>1. ASSUME NEW s \in SizesTo(T, 0) PROVE g[s] = h[s]
    <3>1. s \in SUBSET T /\ Cardinality(s) <= 0
      BY DEF SizesTo
    <3>2. s = {}
      BY <1>0, <3>1, FS_Subset, FS_CardinalityType, FS_EmptySet
    <3>3. QED
      BY <1>1, <3>1, <3>2
  <2>2. QED
    BY <2>1
<1>4. ASSUME NEW k \in Nat, k \in D PROVE k + 1 \in D
  <2>1. ASSUME NEW s \in SizesTo(T, k + 1) PROVE g[s] = h[s]
    <3>1. s \in SUBSET T /\ Cardinality(s) <= k + 1
      BY <2>1 DEF SizesTo
    <3>2. CASE s = {}
      BY <1>1, <3>1, <3>2
    <3>3. CASE s # {}
      <4>1. ch(s) \in s
        BY <1>2, <3>1, <3>3
      <4>2. /\ s \ {ch(s)} \in SUBSET T /\ Cardinality(s \ {ch(s)}) = Cardinality(s) - 1
            /\ Cardinality(s) \in Nat \ {0}
        BY <1>0, <3>1, <4>1, TakeOneOut
      <4>3. s \ {ch(s)} \in SizesTo(T, k)
        BY <3>1, <4>2 DEF SizesTo
      <4>4. g[s \ {ch(s)}] = h[s \ {ch(s)}]
        BY <1>4, <4>3
      <4>5. QED
        BY <1>1, <3>1, <3>3, <4>4
    <3>4. QED
      BY <3>2, <3>3
  <2>2. QED
    BY <2>1
<1> HIDE DEF D
<1>5. Nat \subseteq D
  BY <1>3, <1>4, SetInduction
<1>6. ASSUME NEW s \in SUBSET T PROVE g[s] = h[s]
  <2>1. Cardinality(s) \in Nat
    BY <1>0, FS_Subset, FS_CardinalityType
  <2>2. s \in SizesTo(T, Cardinality(s))
    BY <2>1 DEF SizesTo
  <2>3. QED
    BY <1>5, <2>1, <2>2 DEF D
<1>7. QED
  BY <1>6

(* The sum of f over S, and how it goes on from a subset with one member   *)
(* less: first with the member that is chosen, then with any.              *)
SumOf(f, S) == SumFunctionOnSet(f, S)

(* Over no members it is zero.                                             *)
LEMMA SumEmpty ==
  ASSUME NEW f
  PROVE  SumOf(f, {}) = 0
<1>1. IsFiniteSet({})
  BY FS_EmptySet
<1>2. PICK g : SumsOver(g, f, {}) /\ SumOf(f, {}) = g[{}]
  BY <1>1, SumIsChosen DEF SumOf
<1>3. QED
  BY <1>2 DEF SumsOver

(* It adds the value at a chosen member to the sum over the others.        *)
LEMMA SumStep ==
  ASSUME NEW S, IsFiniteSet(S), NEW f, S # {}
  PROVE  LET x == CHOOSE x \in S : TRUE
         IN  x \in S /\ SumOf(f, S) = f[x] + SumOf(f, S \ {x})
<1> DEFINE c == CHOOSE x \in S : TRUE
<1>1. c \in S
  OBVIOUS
<1>2. PICK g : SumsOver(g, f, S) /\ SumOf(f, S) = g[S]
  BY SumIsChosen DEF SumOf
<1>3. g[S] = f[c] + g[S \ {c}]
  BY <1>2 DEF SumsOver
<1> HIDE DEF c
<1>4. IsFiniteSet(S \ {c})
  BY FS_Subset
<1>5. PICK h : SumsOver(h, f, S \ {c}) /\ SumOf(f, S \ {c}) = h[S \ {c}]
  BY <1>4, SumIsChosen DEF SumOf
<1>6. g[S \ {c}] = h[S \ {c}]
  BY <1>2, <1>5, SumsAgree
<1>7. c \in S /\ SumOf(f, S) = f[c] + SumOf(f, S \ {c})
  BY <1>1, <1>2, <1>3, <1>5, <1>6
<1>8. QED
  BY <1>7 DEF c

(* Any member may be taken out first, so the choice does not matter.       *)
LEMMA SumFacts ==
  ASSUME NEW S, IsFiniteSet(S), NEW f, \A x \in S : f[x] \in Int
  PROVE  /\ SumOf(f, S) \in Int
         /\ \A x \in S : SumOf(f, S) = f[x] + SumOf(f, S \ {x})
<1> DEFINE Q(s) == /\ SumOf(f, s) \in Int
                   /\ \A x \in s : SumOf(f, s) = f[x] + SumOf(f, s \ {x})
           D == {k \in Nat : \A s \in SizesTo(S, k) : Q(s)}
<1>1. 0 \in D
  <2>1. ASSUME NEW s \in SizesTo(S, 0) PROVE Q(s)
    <3>1. s \in SUBSET S /\ Cardinality(s) <= 0
      BY DEF SizesTo
    <3>2. s = {}
      BY <3>1, FS_Subset, FS_CardinalityType, FS_EmptySet
    <3>3. QED
      BY <3>2, SumEmpty
  <2> HIDE DEF Q
  <2>2. QED
    BY <2>1
<1>2. ASSUME NEW k \in Nat, k \in D PROVE k + 1 \in D
  <2>1. ASSUME NEW s \in SizesTo(S, k + 1) PROVE Q(s)
    <3>1. s \in SUBSET S /\ Cardinality(s) <= k + 1 /\ IsFiniteSet(s)
      BY <2>1, FS_Subset DEF SizesTo
    <3>2. ASSUME NEW x \in s PROVE s \ {x} \in SizesTo(S, k) /\ Q(s \ {x})
      <4>1. /\ s \ {x} \in SUBSET S /\ Cardinality(s \ {x}) = Cardinality(s) - 1
            /\ Cardinality(s) \in Nat \ {0}
        BY <3>1, TakeOneOut
      <4>2. s \ {x} \in SizesTo(S, k)
        BY <3>1, <4>1 DEF SizesTo
      <4> HIDE DEF Q
      <4>3. QED
        BY <1>2, <4>2
    <3>3. CASE s = {}
      BY <3>3, SumEmpty
    <3>4. CASE s # {}
      <4>1. PICK c \in s : SumOf(f, s) = f[c] + SumOf(f, s \ {c})
        BY <3>1, <3>4, SumStep
      <4>2. SumOf(f, s) \in Int
        BY <3>1, <3>2, <4>1
      <4>3. ASSUME NEW x \in s, x # c PROVE SumOf(f, s) = f[x] + SumOf(f, s \ {x})
        <5>1. x \in s \ {c} /\ c \in s \ {x} /\ (s \ {c}) \ {x} = (s \ {x}) \ {c}
          BY <4>3
        <5>2. /\ SumOf(f, s \ {c}) = f[x] + SumOf(f, (s \ {c}) \ {x})
              /\ SumOf(f, s \ {x}) = f[c] + SumOf(f, (s \ {x}) \ {c})
              /\ SumOf(f, s \ {c}) \in Int /\ SumOf(f, s \ {x}) \in Int
          BY <3>2, <5>1
        <5> DEFINE z == SumOf(f, (s \ {x}) \ {c})
        <5>3. SumOf(f, s \ {c}) = f[x] + z /\ SumOf(f, s \ {x}) = f[c] + z
          BY <5>1, <5>2
        <5>4. IsFiniteSet((s \ {x}) \ {c}) /\ (s \ {x}) \ {c} \in SizesTo(S, k)
          <6>1. (s \ {x}) \ {c} \in SUBSET S /\ s \ {x} \in SizesTo(S, k)
            BY <3>1, <3>2
          <6>2. IsFiniteSet(s \ {x})
            BY <3>1, FS_Subset
          <6>3. /\ Cardinality((s \ {x}) \ {c}) = Cardinality(s \ {x}) - 1
                /\ Cardinality(s \ {x}) \in Nat
            <7> DEFINE t == s \ {x}
            <7>1. IsFiniteSet(t) /\ t \in SUBSET t /\ c \in t
              BY <5>1, <6>2
            <7> HIDE DEF t
            <7>2. Cardinality(t \ {c}) = Cardinality(t) - 1 /\ Cardinality(t) \in Nat
              BY <7>1, TakeOneOut
            <7>3. QED
              BY <7>2 DEF t
          <6>4. IsFiniteSet((s \ {x}) \ {c})
            BY <6>2, FS_Subset
          <6>5. QED
            BY <6>1, <6>3, <6>4 DEF SizesTo
        <5>5. z \in Int
          <6> HIDE DEF Q
          <6>1. Q((s \ {x}) \ {c})
            BY <1>2, <5>4
          <6>2. QED
            BY <6>1 DEF Q
        <5>6. f[x] \in Int /\ f[c] \in Int
          BY <3>1
        <5> HIDE DEF z
        <5>7. QED
          BY <4>1, <5>3, <5>5, <5>6
      <4>4. QED
        BY <4>1, <4>2, <4>3
    <3>5. QED
      BY <3>3, <3>4
  <2> HIDE DEF Q
  <2>2. QED
    BY <2>1
<1> HIDE DEF D
<1>3. Nat \subseteq D
  BY <1>1, <1>2, SetInduction
<1>4. Cardinality(S) \in Nat
  BY FS_CardinalityType
<1>5. S \in SizesTo(S, Cardinality(S))
  BY <1>4 DEF SizesTo
<1> HIDE DEF Q
<1>6. Q(S)
  BY <1>3, <1>4, <1>5 DEF D
<1>7. QED
  BY <1>6 DEF Q

(* A new member adds its value.                                            *)
LEMMA SumExtends ==
  ASSUME NEW S, IsFiniteSet(S), NEW f, NEW x, x \notin S, \A y \in S \cup {x} : f[y] \in Int
  PROVE  /\ SumOf(f, S) \in Int /\ f[x] \in Int
         /\ SumOf(f, S \cup {x}) = f[x] + SumOf(f, S)
<1>1. IsFiniteSet(S \cup {x})
  BY FS_AddElement
<1>2. (S \cup {x}) \ {x} = S
  OBVIOUS
<1> DEFINE T == S \cup {x}
<1>3. IsFiniteSet(T) /\ x \in T /\ T \ {x} = S /\ \A y \in T : f[y] \in Int
  BY <1>1, <1>2
<1> HIDE DEF T
<1>4. SumOf(f, T) = f[x] + SumOf(f, S)
  BY <1>3, SumFacts
<1>5. SumOf(f, S) \in Int
  BY SumFacts
<1>6. QED
  BY <1>4, <1>5 DEF T

(* Functions that agree have the same sum.                                 *)
LEMMA SumSame ==
  ASSUME NEW S, IsFiniteSet(S), NEW f, NEW g,
         \A x \in S : f[x] \in Int /\ f[x] = g[x]
  PROVE  SumOf(f, S) = SumOf(g, S)
<1> DEFINE U == {V \in SUBSET S : SumOf(f, V) = SumOf(g, V)}
<1>1. {} \in U
  BY SumEmpty
<1>2. ASSUME NEW V \in SUBSET S, NEW x \in S \ V, V \in U PROVE V \cup {x} \in U
  <2>1. IsFiniteSet(V) /\ \A y \in V \cup {x} : f[y] \in Int /\ g[y] \in Int
    BY FS_Subset
  <2>2. SumOf(f, V \cup {x}) = f[x] + SumOf(f, V) /\ SumOf(g, V \cup {x}) = g[x] + SumOf(g, V)
    BY <2>1, SumExtends
  <2>3. QED
    BY <1>2, <2>2
<1> HIDE DEF U
<1>3. S \in U
  BY <1>1, <1>2, FiniteInduction
<1>4. QED
  BY <1>3 DEF U

(* The sum of a combination is the combination of the sums.                *)
LEMMA SumLinear ==
  ASSUME NEW S, IsFiniteSet(S), NEW a \in Int, NEW f, NEW g, NEW h,
         \A x \in S : f[x] \in Int /\ g[x] \in Int /\ h[x] = a * f[x] + g[x]
  PROVE  /\ SumOf(f, S) \in Int /\ SumOf(g, S) \in Int
         /\ SumOf(h, S) = a * SumOf(f, S) + SumOf(g, S)
<1> DEFINE U == {V \in SUBSET S : SumOf(h, V) = a * SumOf(f, V) + SumOf(g, V)}
<1>1. {} \in U
  BY SumEmpty
<1>2. ASSUME NEW V \in SUBSET S, NEW x \in S \ V, V \in U PROVE V \cup {x} \in U
  <2>1. /\ IsFiniteSet(V)
        /\ \A y \in V \cup {x} : f[y] \in Int /\ g[y] \in Int /\ h[y] \in Int
    BY FS_Subset
  <2>2. /\ SumOf(f, V \cup {x}) = f[x] + SumOf(f, V) /\ SumOf(f, V) \in Int /\ f[x] \in Int
        /\ SumOf(g, V \cup {x}) = g[x] + SumOf(g, V) /\ SumOf(g, V) \in Int /\ g[x] \in Int
        /\ SumOf(h, V \cup {x}) = h[x] + SumOf(h, V)
    BY <2>1, SumExtends
  <2>3. SumOf(h, V) = a * SumOf(f, V) + SumOf(g, V) /\ h[x] = a * f[x] + g[x]
    BY <1>2
  <2>4. a * (f[x] + SumOf(f, V)) = a * f[x] + a * SumOf(f, V)
    BY <2>2
  <2>5. a * f[x] \in Int /\ a * SumOf(f, V) \in Int
    BY <2>2
  <2>6. SumOf(h, V \cup {x}) = a * SumOf(f, V \cup {x}) + SumOf(g, V \cup {x})
    BY <2>2, <2>3, <2>4, <2>5
  <2>7. QED
    BY <1>2, <2>6
<1> HIDE DEF U
<1>3. S \in U
  BY <1>1, <1>2, FiniteInduction
<1>4. SumOf(f, S) \in Int /\ SumOf(g, S) \in Int
  BY SumFacts
<1>5. QED
  BY <1>3, <1>4 DEF U

(* A sum of zeros is zero.                                                 *)
LEMMA SumZero ==
  ASSUME NEW S, IsFiniteSet(S), NEW f, \A x \in S : f[x] = 0
  PROVE  SumOf(f, S) = 0
<1> DEFINE U == {V \in SUBSET S : SumOf(f, V) = 0}
<1>1. {} \in U
  BY SumEmpty
<1>2. ASSUME NEW V \in SUBSET S, NEW x \in S \ V, V \in U PROVE V \cup {x} \in U
  <2>1. IsFiniteSet(V) /\ \A y \in V \cup {x} : f[y] \in Int
    BY FS_Subset
  <2>2. SumOf(f, V \cup {x}) = f[x] + SumOf(f, V)
    BY <2>1, SumExtends
  <2>3. QED
    BY <1>2, <2>2
<1> HIDE DEF U
<1>3. S \in U
  BY <1>1, <1>2, FiniteInduction
<1>4. QED
  BY <1>3 DEF U

(* A common factor may be taken out of a sum.                              *)
LEMMA SumScaled ==
  ASSUME NEW S, IsFiniteSet(S), NEW a \in Int, NEW f, NEW h,
         \A x \in S : f[x] \in Int /\ h[x] = a * f[x]
  PROVE  SumOf(f, S) \in Int /\ SumOf(h, S) = a * SumOf(f, S)
<1> DEFINE U == {V \in SUBSET S : SumOf(h, V) = a * SumOf(f, V)}
<1>1. {} \in U
  BY SumEmpty
<1>2. ASSUME NEW V \in SUBSET S, NEW x \in S \ V, V \in U PROVE V \cup {x} \in U
  <2>1. IsFiniteSet(V) /\ \A y \in V \cup {x} : f[y] \in Int /\ h[y] \in Int
    BY FS_Subset
  <2>2. /\ SumOf(f, V \cup {x}) = f[x] + SumOf(f, V) /\ SumOf(f, V) \in Int /\ f[x] \in Int
        /\ SumOf(h, V \cup {x}) = h[x] + SumOf(h, V)
    BY <2>1, SumExtends
  <2>3. SumOf(h, V) = a * SumOf(f, V) /\ h[x] = a * f[x]
    BY <1>2
  <2>4. a * (f[x] + SumOf(f, V)) = a * f[x] + a * SumOf(f, V)
    BY <2>2
  <2>5. SumOf(h, V \cup {x}) = a * SumOf(f, V \cup {x})
    BY <2>2, <2>3, <2>4
  <2>6. QED
    BY <1>2, <2>5
<1> HIDE DEF U
<1>3. S \in U
  BY <1>1, <1>2, FiniteInduction
<1>4. SumOf(f, S) \in Int
  BY SumFacts
<1>5. QED
  BY <1>3, <1>4 DEF U

(* A function that is nowhere greater has no greater sum.                  *)
LEMMA SumMonotone ==
  ASSUME NEW S, IsFiniteSet(S), NEW f, NEW g,
         \A x \in S : f[x] \in Int /\ g[x] \in Int /\ f[x] <= g[x]
  PROVE  SumOf(f, S) <= SumOf(g, S)
<1> DEFINE U == {V \in SUBSET S : SumOf(f, V) <= SumOf(g, V)}
<1>1. {} \in U
  BY SumEmpty
<1>2. ASSUME NEW V \in SUBSET S, NEW x \in S \ V, V \in U PROVE V \cup {x} \in U
  <2>1. IsFiniteSet(V) /\ \A y \in V \cup {x} : f[y] \in Int /\ g[y] \in Int
    BY FS_Subset
  <2>2. /\ SumOf(f, V \cup {x}) = f[x] + SumOf(f, V) /\ SumOf(f, V) \in Int /\ f[x] \in Int
        /\ SumOf(g, V \cup {x}) = g[x] + SumOf(g, V) /\ SumOf(g, V) \in Int /\ g[x] \in Int
    BY <2>1, SumExtends
  <2>3. f[x] <= g[x] /\ SumOf(f, V) <= SumOf(g, V)
    BY <1>2
  <2>4. QED
    BY <1>2, <2>2, <2>3
<1> HIDE DEF U
<1>3. S \in U
  BY <1>1, <1>2, FiniteInduction
<1>4. QED
  BY <1>3 DEF U

(* Sums over a set in two parts, over what a set is renamed to, and over   *)
(* the fibres of a function.                                               *)
LEMMA SumUnion ==
  ASSUME NEW S, IsFiniteSet(S), NEW T, IsFiniteSet(T), S \cap T = {}, NEW f,
         \A x \in S \cup T : f[x] \in Int
  PROVE  /\ SumOf(f, S) \in Int /\ SumOf(f, T) \in Int
         /\ SumOf(f, S \cup T) = SumOf(f, S) + SumOf(f, T)
<1>1. SumOf(f, S) \in Int /\ SumOf(f, T) \in Int
  BY SumFacts
<1> DEFINE U == {V \in SUBSET S : SumOf(f, V \cup T) = SumOf(f, V) + SumOf(f, T)}
<1>2. {} \in U
  <2>1. {} \cup T = T
    OBVIOUS
  <2>2. QED
    BY <1>1, <2>1, SumEmpty
<1>3. ASSUME NEW V \in SUBSET S, NEW x \in S \ V, V \in U PROVE V \cup {x} \in U
  <2>1. /\ IsFiniteSet(V) /\ IsFiniteSet(V \cup T)
        /\ \A y \in V \cup {x} : f[y] \in Int
        /\ \A y \in (V \cup T) \cup {x} : f[y] \in Int
        /\ x \notin V \cup T /\ (V \cup {x}) \cup T = (V \cup T) \cup {x}
    BY FS_Subset, FS_Union
  <2>2. SumOf(f, V \cup {x}) = f[x] + SumOf(f, V) /\ SumOf(f, V) \in Int /\ f[x] \in Int
    BY <2>1, SumExtends
  <2> DEFINE W == V \cup T
  <2>3. IsFiniteSet(W) /\ x \notin W /\ \A y \in W \cup {x} : f[y] \in Int
    BY <2>1
  <2> HIDE DEF W
  <2>4. SumOf(f, W \cup {x}) = f[x] + SumOf(f, W)
    BY <2>3, SumExtends
  <2>5. SumOf(f, (V \cup {x}) \cup T) = f[x] + SumOf(f, V \cup T)
    BY <2>1, <2>4 DEF W
  <2>6. QED
    BY <1>1, <1>3, <2>2, <2>5
<1> HIDE DEF U
<1>4. S \in U
  BY <1>2, <1>3, FiniteInduction
<1>5. QED
  BY <1>1, <1>4 DEF U

(* The sum does not change when the members are renamed one to one.        *)
LEMMA SumRenamed ==
  ASSUME NEW S, IsFiniteSet(S), NEW b, NEW f, NEW g,
         \A x, y \in S : x # y => b[x] # b[y],
         \A x \in S : f[x] \in Int /\ f[x] = g[b[x]]
  PROVE  SumOf(f, S) = SumOf(g, {b[x] : x \in S})
<1> DEFINE I(V) == {b[x] : x \in V}
           U == {V \in SUBSET S : IsFiniteSet(I(V)) /\ SumOf(f, V) = SumOf(g, I(V))}
<1>1. {} \in U
  <2>1. I({}) = {}
    OBVIOUS
  <2>2. QED
    BY <2>1, SumEmpty, FS_EmptySet
<1>2. ASSUME NEW V \in SUBSET S, NEW x \in S \ V, V \in U PROVE V \cup {x} \in U
  <2>1. IsFiniteSet(V) /\ \A y \in V \cup {x} : f[y] \in Int
    BY FS_Subset
  <2>2. SumOf(f, V \cup {x}) = f[x] + SumOf(f, V)
    BY <2>1, SumExtends
  <2> DEFINE W == I(V)  z == b[x]
  <2>3. I(V \cup {x}) = W \cup {z} /\ z \notin W
    OBVIOUS
  <2>4. IsFiniteSet(W)
    BY <1>2
  <2>5. \A y \in W \cup {z} : g[y] \in Int
    OBVIOUS
  <2> HIDE DEF W, z
  <2>6. SumOf(g, W \cup {z}) = g[z] + SumOf(g, W)
    BY <2>3, <2>4, <2>5, SumExtends
  <2>7. g[z] = f[x] /\ SumOf(f, V) = SumOf(g, W)
    BY <1>2 DEF z, W
  <2> HIDE DEF I
  <2>8. IsFiniteSet(W \cup {z})
    BY <2>4, FS_AddElement
  <2>9. I(V \cup {x}) = W \cup {z}
    BY <2>3
  <2>10. IsFiniteSet(I(V \cup {x})) /\ SumOf(g, I(V \cup {x})) = SumOf(g, W \cup {z})
    BY <2>8, <2>9, Zenon
  <2>11. QED
    BY <1>2, <2>2, <2>6, <2>7, <2>10
<1> HIDE DEF U, I
<1>3. S \in U
  BY <1>1, <1>2, FiniteInduction
<1>4. QED
  BY <1>3 DEF U, I

Fibre(t, g, S) == {x \in S : g[x] = t}

(* Members may be added up in groups, then the groups.                     *)
LEMMA SumFibres ==
  ASSUME NEW S, IsFiniteSet(S), NEW T, IsFiniteSet(T), NEW f, NEW g, NEW h,
         \A x \in S : f[x] \in Int /\ g[x] \in T,
         \A t \in T : h[t] = SumOf(f, Fibre(t, g, S))
  PROVE  /\ \A t \in T : h[t] \in Int
         /\ SumOf(f, S) = SumOf(h, T)
<1> DEFINE I(V) == {x \in S : g[x] \in V}
           F(t) == Fibre(t, g, S)
           U == {V \in SUBSET T : SumOf(f, I(V)) = SumOf(h, V)}
<1> USE DEF Fibre
<1>0. \A t \in T : IsFiniteSet(F(t)) /\ h[t] \in Int /\ h[t] = SumOf(f, F(t))
  <2> SUFFICES ASSUME NEW t \in T PROVE IsFiniteSet(F(t)) /\ h[t] \in Int /\ h[t] = SumOf(f, F(t))
    OBVIOUS
  <2>1. IsFiniteSet(F(t)) /\ (\A x \in F(t) : f[x] \in Int) /\ h[t] = SumOf(f, F(t))
    BY FS_Subset
  <2> HIDE DEF F
  <2>2. QED
    BY <2>1, SumFacts
<1>1. {} \in U
  <2>1. I({}) = {}
    OBVIOUS
  <2>2. QED
    BY <2>1, SumEmpty
<1>2. ASSUME NEW V \in SUBSET T, NEW t \in T \ V, V \in U PROVE V \cup {t} \in U
  <2>1. IsFiniteSet(V) /\ \A y \in V \cup {t} : h[y] \in Int
    BY <1>0, FS_Subset
  <2>2. SumOf(h, V \cup {t}) = h[t] + SumOf(h, V) /\ h[t] \in Int /\ SumOf(h, V) \in Int
    BY <2>1, SumExtends
  <2>3. I(V \cup {t}) = I(V) \cup F(t) /\ I(V) \cap F(t) = {}
    OBVIOUS
  <2>4. IsFiniteSet(I(V)) /\ \A x \in I(V) \cup F(t) : f[x] \in Int
    BY FS_Subset
  <2>5. SumOf(f, I(V)) = SumOf(h, V)
    BY <1>2
  <2> HIDE DEF I, F
  <2>6. SumOf(f, I(V) \cup F(t)) = SumOf(f, I(V)) + SumOf(f, F(t))
    BY <1>0, <2>3, <2>4, SumUnion
  <2>7. SumOf(f, I(V \cup {t})) = SumOf(f, I(V) \cup F(t))
    BY <2>3, Zenon
  <2>8. SumOf(f, F(t)) = h[t]
    BY <1>0
  <2>9. SumOf(f, I(V \cup {t})) = SumOf(h, V \cup {t})
    BY <2>2, <2>5, <2>6, <2>7, <2>8
  <2>10. QED
    BY <1>2, <2>9
<1>3. I(T) = S
  OBVIOUS
<1> HIDE DEF U, I, F
<1>4. T \in U
  BY <1>1, <1>2, FiniteInduction
<1>5. QED
  BY <1>0, <1>3, <1>4 DEF U

(* What is zero outside a part of the set does not count there.            *)
LEMMA SumWithin ==
  ASSUME NEW S, IsFiniteSet(S), NEW T \in SUBSET S, NEW f,
         \A x \in T : f[x] \in Int, \A x \in S \ T : f[x] = 0
  PROVE  SumOf(f, S) = SumOf(f, T)
<1>1. IsFiniteSet(T) /\ IsFiniteSet(S \ T) /\ T \cap (S \ T) = {} /\ T \cup (S \ T) = S
  BY FS_Subset
<1>2. SumOf(f, S \ T) = 0
  BY <1>1, SumZero
<1>3. \A x \in T \cup (S \ T) : f[x] \in Int
  OBVIOUS
<1> DEFINE R == S \ T
<1>4. IsFiniteSet(R) /\ T \cap R = {} /\ T \cup R = S /\ SumOf(f, R) = 0
  BY <1>1, <1>2
<1>5. \A x \in T \cup R : f[x] \in Int
  BY <1>3
<1> HIDE DEF R
<1>6. SumOf(f, T \cup R) = SumOf(f, T) + SumOf(f, R) /\ SumOf(f, T) \in Int
  BY <1>1, <1>4, <1>5, SumUnion
<1>7. SumOf(f, S) = SumOf(f, T \cup R)
  BY <1>4, Zenon
<1>8. QED
  BY <1>4, <1>6, <1>7

(* A sum that is zero but at one member is the value there.                *)
LEMMA SumAt ==
  ASSUME NEW S, IsFiniteSet(S), NEW c \in S, NEW f, f[c] \in Int,
         \A x \in S : x # c => f[x] = 0
  PROVE  SumOf(f, S) = f[c]
<1>1. SumOf(f, S) = SumOf(f, {c})
  BY SumWithin
<1>2. IsFiniteSet({c}) /\ {c} \ {c} = {}
  BY FS_Singleton
<1>3. SumOf(f, {c}) = f[c] + SumOf(f, {c} \ {c})
  BY <1>2, SumFacts
<1>4. QED
  BY <1>1, <1>2, <1>3, SumEmpty

-----------------------------------------------------------------------------
(* A finite set in order, where R holds the pairs <<e, f>> with e before f.*)
InLine(R, E) ==
  /\ \A e \in E : <<e, e>> \notin R
  /\ \A e, f \in E : e # f => <<e, f>> \in R \/ <<f, e>> \in R
  /\ \A e, f, g \in E : <<e, f>> \in R /\ <<f, g>> \in R => <<e, g>> \in R

Ahead(e, R, E) == {f \in E : <<f, e>> \in R}

(* How many are ahead numbers the members from zero.                       *)
LEMMA AheadIsPlace ==
  ASSUME NEW E, IsFiniteSet(E), NEW R, InLine(R, E)
  PROVE  /\ Cardinality(E) \in Nat
         /\ \A e \in E : Cardinality(Ahead(e, R, E)) \in 0..(Cardinality(E) - 1)
         /\ \A e, f \in E : <<e, f>> \in R =>
              Cardinality(Ahead(e, R, E)) < Cardinality(Ahead(f, R, E))
         /\ \A k \in 0..(Cardinality(E) - 1) : \E e \in E : Cardinality(Ahead(e, R, E)) = k
<1> DEFINE A(e) == Ahead(e, R, E)
           rank(e) == Cardinality(A(e))
           c == Cardinality(E)
           I == {rank(e) : e \in E}
<1>1. c \in Nat
  BY FS_CardinalityType
<1>2. ASSUME NEW e \in E
      PROVE  /\ A(e) \cup {e} \in SUBSET E /\ IsFiniteSet(A(e)) /\ rank(e) \in Nat
             /\ Cardinality(A(e) \cup {e}) = rank(e) + 1 /\ IsFiniteSet(A(e) \cup {e})
  <2>1. A(e) \in SUBSET E /\ e \notin A(e)
    BY DEF Ahead, InLine
  <2>2. IsFiniteSet(A(e))
    BY <2>1, FS_Subset
  <2> HIDE DEF A
  <2>3. QED
    BY <2>1, <2>2, FS_CardinalityType, FS_AddElement
<1>3. ASSUME NEW e \in E PROVE rank(e) \in 0..(c - 1)
  <2>1. Cardinality(A(e) \cup {e}) <= c
    BY <1>2, FS_Subset
  <2> HIDE DEF A
  <2>2. QED
    BY <1>1, <1>2, <2>1
<1>4. ASSUME NEW e \in E, NEW f \in E, <<e, f>> \in R PROVE rank(e) < rank(f)
  <2>1. A(e) \cup {e} \in SUBSET A(f)
    BY <1>4 DEF Ahead, InLine
  <2>2. IsFiniteSet(A(f))
    BY <1>2
  <2>3. Cardinality(A(e) \cup {e}) <= rank(f)
    <3> DEFINE V == A(e) \cup {e}
               W == A(f)
    <3>1. V \in SUBSET W /\ IsFiniteSet(W)
      BY <2>1, <2>2
    <3> HIDE DEF V, W
    <3>2. Cardinality(V) <= Cardinality(W)
      BY <3>1, FS_Subset
    <3>3. QED
      BY <3>2, Zenon DEF V, W
  <2>4. Cardinality(A(e) \cup {e}) = rank(e) + 1 /\ rank(e) \in Nat /\ rank(f) \in Nat
    BY <1>2
  <2> HIDE DEF A
  <2>5. QED
    BY <2>3, <2>4
<1>5. I \in SUBSET (0..(c - 1))
  BY <1>3
<1>6. IsFiniteSet(0..(c - 1)) /\ Cardinality(0..(c - 1)) = c
  <2> HIDE DEF c
  <2>1. QED
    BY <1>1, FS_Interval
<1>7. IsFiniteSet(I) /\ Cardinality(I) = c
  <2> DEFINE g == [e \in E |-> rank(e)]
  <2>1. \A e, f \in E : e # f => g[e] # g[f]
    <3> SUFFICES ASSUME NEW e \in E, NEW f \in E, e # f PROVE g[e] # g[f]
      OBVIOUS
    <3>1. <<e, f>> \in R \/ <<f, e>> \in R
      BY DEF InLine
    <3>2. rank(e) \in Nat /\ rank(f) \in Nat
      BY <1>2
    <3> HIDE DEF A
    <3>3. rank(e) # rank(f)
      BY <1>4, <3>1, <3>2
    <3>4. QED
      BY <3>3
  <2>2. g \in Bijection(E, I)
    BY <2>1 DEF Bijection, Injection, Surjection, IsInjective
  <2>3. ExistsBijection(E, I)
    BY <2>2 DEF ExistsBijection
  <2>4. QED
    BY <2>3, FS_Bijection
<1>8. I = 0..(c - 1)
  BY <1>5, <1>6, <1>7, FS_Subset
<1>9. \A k \in 0..(c - 1) : \E e \in E : rank(e) = k
  BY <1>8
<1>10. QED
  BY <1>1, <1>3, <1>4, <1>9

(* So the list of the members by how many are ahead has each of them once. *)
Lists(s, R, E) ==
  /\ Cardinality(E) \in Nat /\ DOMAIN s = 1..Cardinality(E)
  /\ \A k \in 1..Cardinality(E) : s[k] \in E /\ Cardinality(Ahead(s[k], R, E)) = k - 1
  /\ \A k, l \in 1..Cardinality(E) : k # l => s[k] # s[l]
  /\ \A e \in E : \E k \in 1..Cardinality(E) : s[k] = e

(* Members in line, each at the place of how many are ahead, form a list.  *)
LEMMA InLineIsList ==
  ASSUME NEW E, IsFiniteSet(E), NEW R, InLine(R, E), NEW s, DOMAIN s = 1..Cardinality(E),
         \A k \in 1..Cardinality(E) :
           (\E e \in E : Cardinality(Ahead(e, R, E)) = k - 1) =>
             s[k] \in E /\ Cardinality(Ahead(s[k], R, E)) = k - 1
  PROVE  Lists(s, R, E)
<1> DEFINE rank(e) == Cardinality(Ahead(e, R, E))
           c == Cardinality(E)
<1>1. /\ c \in Nat
      /\ \A e \in E : rank(e) \in 0..(c - 1)
      /\ \A e, f \in E : <<e, f>> \in R => rank(e) < rank(f)
      /\ \A k \in 0..(c - 1) : \E e \in E : rank(e) = k
  BY AheadIsPlace
<1>2. \A k \in 1..c : (\E e \in E : rank(e) = k - 1) => s[k] \in E /\ rank(s[k]) = k - 1
  OBVIOUS
<1>3. DOMAIN s = 1..c
  OBVIOUS
<1> HIDE DEF rank, c
<1>4. ASSUME NEW k \in 1..c PROVE s[k] \in E /\ rank(s[k]) = k - 1
  <2>1. k - 1 \in 0..(c - 1)
    BY <1>1
  <2>2. \E e \in E : rank(e) = k - 1
    BY <1>1, <2>1
  <2>3. QED
    BY <1>2, <2>2
<1>5. ASSUME NEW k \in 1..c, NEW l \in 1..c, k # l PROVE s[k] # s[l]
  <2>1. rank(s[k]) = k - 1 /\ rank(s[l]) = l - 1
    BY <1>4
  <2>2. k - 1 # l - 1
    BY <1>1, <1>5
  <2>3. QED
    BY <2>1, <2>2
<1>6. ASSUME NEW e \in E PROVE \E k \in 1..c : s[k] = e
  <2>1. rank(e) \in 0..(c - 1)
    BY <1>1
  <2>2. rank(e) + 1 \in 1..c /\ (rank(e) + 1) - 1 = rank(e)
    BY <1>1, <2>1
  <2>3. s[rank(e) + 1] \in E /\ rank(s[rank(e) + 1]) = rank(e)
    BY <1>4, <2>2
  <2>4. ASSUME NEW f \in E, f # e PROVE rank(f) # rank(e)
    <3>1. <<e, f>> \in R \/ <<f, e>> \in R
      BY <2>4 DEF InLine
    <3>2. rank(e) \in Int /\ rank(f) \in Int
      BY <1>1
    <3>3. QED
      BY <1>1, <3>1, <3>2
  <2>5. s[rank(e) + 1] = e
    BY <2>3, <2>4
  <2>6. QED
    BY <2>2, <2>5
<1>7. QED
  BY <1>1, <1>3, <1>4, <1>5, <1>6 DEF c, rank, Lists

(* When the order goes by groups, numbered from 0 to n - 1, and beg counts *)
(* the members of the groups before one, the place p in the list lies in   *)
(* the group that beg says.                                                *)
Under(k, g, E) == {e \in E : g[e] < k}

Grouped(R, E, n, g, beg) ==
  /\ IsFiniteSet(E) /\ InLine(R, E) /\ n \in Nat
  /\ \A e \in E : g[e] \in 0..(n - 1)
  /\ \A e, f \in E : <<e, f>> \in R => g[e] <= g[f]
  /\ \A k \in 0..n : beg[k] = Cardinality(Under(k, g, E))

(* In a list that is grouped, the place of a member tells its group.       *)
LEMMA GroupOfPlace ==
  ASSUME NEW E, NEW R, NEW n, NEW g, NEW beg, Grouped(R, E, n, g, beg),
         NEW e \in E, NEW p \in Nat, Cardinality(Ahead(e, R, E)) = p - 1
  PROVE  /\ g[e] \in 0..n /\ beg[g[e]] < p /\ p <= beg[g[e] + 1]
         /\ \A l \in 0..n : beg[l] < p /\ p <= beg[l + 1] => l = g[e]
<1>0. /\ IsFiniteSet(E) /\ InLine(R, E) /\ n \in Nat
      /\ \A f \in E : g[f] \in 0..(n - 1)
      /\ \A f, h \in E : <<f, h>> \in R => g[f] <= g[h]
      /\ \A k \in 0..n : beg[k] = Cardinality(Under(k, g, E))
  BY DEF Grouped
<1> USE <1>0
<1> USE DEF Under
<1> DEFINE G(k) == Under(k, g, E)
           A == Ahead(e, R, E)
           k == g[e]
<1>1. \A l \in 0..n : IsFiniteSet(G(l)) /\ Cardinality(G(l)) \in Nat /\ beg[l] = Cardinality(G(l))
  <2> SUFFICES ASSUME NEW l \in 0..n
               PROVE  IsFiniteSet(G(l)) /\ Cardinality(G(l)) \in Nat /\ beg[l] = Cardinality(G(l))
    OBVIOUS
  <2>1. IsFiniteSet(G(l))
    BY FS_Subset
  <2>2. QED
    BY <2>1, FS_CardinalityType
<1>2. ASSUME NEW l \in 0..n, NEW m \in 0..n, l <= m PROVE beg[l] <= beg[m]
  <2>1. G(l) \in SUBSET G(m)
    BY <1>2
  <2>2. QED
    BY <1>1, <2>1, FS_Subset
<1>3. k \in 0..(n - 1) /\ k \in 0..n /\ k + 1 \in 0..n
  <2>1. k \in 0..(n - 1)
    OBVIOUS
  <2>2. QED
    BY <2>1
<1>4. A \in SUBSET E /\ IsFiniteSet(A) /\ Cardinality(A) = p - 1
  BY FS_Subset DEF Ahead
<1>5. beg[k] < p
  <2>1. G(k) \in SUBSET A
    <3> SUFFICES ASSUME NEW f \in E, g[f] < k PROVE <<f, e>> \in R
      BY DEF Ahead
    <3>1. f # e /\ ~(g[e] <= g[f])
      OBVIOUS
    <3>2. QED
      BY <3>1 DEF InLine
  <2> HIDE DEF A, G, k
  <2>2. Cardinality(G(k)) <= p - 1
    BY <1>4, <2>1, FS_Subset
  <2>3. QED
    BY <1>1, <1>3, <2>2
<1>6. p <= beg[k + 1]
  <2>1. A \cup {e} \in SUBSET G(k + 1)
    <3>1. ASSUME NEW f \in A PROVE f \in G(k + 1)
      <4>1. f \in E /\ g[f] <= g[e] /\ g[f] \in Int /\ g[e] \in Int
        BY <3>1 DEF Ahead
      <4>2. QED
        BY <4>1
    <3>2. e \in G(k + 1)
      <4>1. g[e] \in Int
        OBVIOUS
      <4>2. QED
        BY <4>1
    <3>3. QED
      BY <3>1, <3>2
  <2>2. e \notin A
    BY DEF Ahead, InLine
  <2> HIDE DEF A, G, k
  <2>3. Cardinality(A \cup {e}) = (p - 1) + 1
    BY <1>4, <2>2, FS_AddElement
  <2>4. Cardinality(A \cup {e}) <= Cardinality(G(k + 1))
    BY <1>1, <1>3, <2>1, FS_Subset
  <2>5. QED
    BY <1>1, <1>3, <2>3, <2>4
<1>7. ASSUME NEW l \in 0..n, beg[l] < p, p <= beg[l + 1] PROVE l = k
  <2> HIDE DEF A, G, k
  <2>1. CASE l < k
    <3>1. l + 1 \in 0..n /\ l + 1 <= k
      BY <1>3, <2>1
    <3>2. beg[l + 1] <= beg[k] /\ beg[l + 1] \in Nat /\ beg[k] \in Nat
      BY <1>1, <1>2, <1>3, <3>1
    <3>3. QED
      BY <1>5, <1>7, <3>2
  <2>2. CASE k < l
    <3>1. k + 1 <= l
      BY <1>3, <2>2
    <3>2. beg[k + 1] <= beg[l] /\ beg[k + 1] \in Nat /\ beg[l] \in Nat
      BY <1>1, <1>2, <1>3, <3>1
    <3>3. QED
      BY <1>6, <1>7, <3>2
  <2>3. QED
    BY <1>3, <2>1, <2>2
<1>8. QED
  BY <1>3, <1>5, <1>6, <1>7
=============================================================================
