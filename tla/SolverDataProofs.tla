-------------------------- MODULE SolverDataProofs --------------------------
(***************************************************************************)
(* The parameters that the solver goes by, for every set of command lines  *)
(* and whatever words are numbers; and the standard form of a program and  *)
(* what is returned of it, for every program, every sequence of scaling    *)
(* passes and every point the solver may come to.                          *)
(*                                                                         *)
(* SolvesAsAsked speaks of the end of the run only.  What makes it true is *)
(* what the two readers know at every word (ReadSoFar): they stop at the   *)
(* same words in turn, the last place of a flag so far is what counts, and *)
(* a line that makes the first of them stop early is refused by the other. *)
(*                                                                         *)
(* Rows are renumbered by their rank among the rows of their kind, so the  *)
(* rank in a finite set comes first (RankIsPlace).  The matrix is a list   *)
(* of entries in one order (OrderLists) and csr the same list in another   *)
(* (TransposeIs), so a sum over either is a sum over the entries: of a row *)
(* (RowSumIs), of a column (ColSumIs), and of all of them, once row by row *)
(* and once column by column (SumsCross).  Passes are folded over a record;*)
(* Formed and Exactly are what they keep (AllPasses): the program's own    *)
(* numbers come back when the scales are multiplied out.  With that, what  *)
(* is returned and judged is said in terms of the program (PointReturned,  *)
(* JudgedReturned), and each property of the run follows.                  *)
(***************************************************************************)
EXTENDS SolverInput, FiniteSetTheorems, DataInduction, TLAPS

(* The places of p's flag before word k, and what they ask of p.           *)
Before(p, k) == {x \in 1..(k - 1) : x < Len(argv) /\ argv[x] = User!Flag[p]}
AskedBefore(default, p, k) ==
  IF Before(p, k) = {} THEN default ELSE User!Atoi(argv[User!Max(Before(p, k)) + 1])

NoHelp(k) == \A x \in 1..(k - 1) : x < Len(argv) => argv[x] # "-h"

(* What getUserParam has read of each parameter before word k.             *)
ReadSoFar(k) ==
  \A p \in User!Params :
    /\ change[p] <=> Before(p, k) # {}
    /\ change[p] => param[p] = AskedBefore(0, p, k)

Unread == scaling = User!ScalingDefault /\ work = User!WorkDefault

Asked(default) == [p \in DOMAIN default |-> User!Asked(default[p], p)]

ParamsInv ==
  /\ argv \in Seq(ToSet(argv)) /\ i \in Nat \ {0} /\ (i = 1 \/ i <= Len(argv))
  /\ DOMAIN change = User!Params /\ DOMAIN param = User!Params
  /\ DOMAIN mine = {"fname", "out", "savesol", "ifPresolve", "outSol"}
  /\ uPc = "main" =>
       /\ Unread /\ NoHelp(i) /\ ReadSoFar(1)
       /\ mine.ifPresolve = AskedBefore(0, "IF_PRESOLVE", i)
  /\ uPc = "getUserParam" =>
       /\ Unread /\ NoHelp(i) /\ ReadSoFar(i)
       /\ NoHelp(Len(argv)) => mine.ifPresolve = User!Asked(0, "IF_PRESOLVE")
  /\ uPc \in {"Init_Scaling", "LP_SolvePDHG", "Solving"} =>
       /\ "-h" \notin ToSet(argv) /\ ReadSoFar(Len(argv))
       /\ mine.ifPresolve = User!Asked(0, "IF_PRESOLVE")
  /\ uPc = "Init_Scaling" => Unread
  /\ uPc \in {"LP_SolvePDHG", "Solving"} =>
       scaling = Asked(User!ScalingDefault) /\ scaled = Asked(User!ScalingDefault)
  /\ uPc = "LP_SolvePDHG" => work = User!WorkDefault
  /\ uPc = "Solving" => work = Asked(User!WorkDefault)

-----------------------------------------------------------------------------
(* The place read last is the last place.                                  *)
LEMMA MaxOfNew ==
  ASSUME NEW S, NEW k \in Nat, \A x \in S : x \in Nat /\ x < k
  PROVE  User!Max(S \cup {k}) = k
BY DEF User!Max

(* Reading one more word, and having read the line to its end.             *)
LEMMA OneMore ==
  ASSUME argv \in Seq(ToSet(argv)), NEW k \in Nat \ {0}, k < Len(argv), NEW p
  PROVE  /\ Before(p, k + 1) = IF argv[k] = User!Flag[p] THEN Before(p, k) \cup {k}
                               ELSE Before(p, k)
         /\ \A d : AskedBefore(d, p, k + 1) =
                     IF argv[k] = User!Flag[p] THEN User!Atoi(argv[k + 1])
                     ELSE AskedBefore(d, p, k)
<1> DEFINE B == Before(p, k)
<1>0. Len(argv) \in Nat
  OBVIOUS
<1>1. Before(p, k + 1) = IF argv[k] = User!Flag[p] THEN B \cup {k} ELSE B
  BY <1>0 DEF Before
<1>2. \A x \in B : x \in Nat /\ x < k
  BY DEF Before
<1> HIDE DEF B
<1>3. User!Max(B \cup {k}) = k
  BY <1>2, MaxOfNew
<1>4. ASSUME NEW d
      PROVE  AskedBefore(d, p, k + 1) = IF argv[k] = User!Flag[p] THEN User!Atoi(argv[k + 1])
                                        ELSE AskedBefore(d, p, k)
  <2>1. CASE argv[k] = User!Flag[p]
    <3>1. Before(p, k + 1) = B \cup {k}
      BY <1>1, <2>1
    <3>2. AskedBefore(d, p, k + 1) = User!Atoi(argv[User!Max(B \cup {k}) + 1])
      BY <3>1 DEF AskedBefore
    <3>3. QED
      BY <1>3, <2>1, <3>2
  <2>2. CASE argv[k] # User!Flag[p]
    BY <1>1, <2>2 DEF AskedBefore, B
  <2>3. QED
    BY <2>1, <2>2
<1>5. QED
  BY <1>1, <1>4 DEF B

(* At the end of the line everything has been read.                        *)
LEMMA AtTheEnd ==
  ASSUME argv \in Seq(ToSet(argv)), NEW k \in Nat \ {0}, ~(k < Len(argv))
  PROVE  /\ \A p : Before(p, k) = User!Places(p) /\ Before(p, Len(argv)) = User!Places(p)
         /\ \A p, d : /\ AskedBefore(d, p, k) = User!Asked(d, p)
                      /\ AskedBefore(d, p, Len(argv)) = User!Asked(d, p)
         /\ NoHelp(k) = NoHelp(Len(argv))
         /\ ReadSoFar(k) = ReadSoFar(Len(argv))
<1>0. Len(argv) \in Nat
  OBVIOUS
<1>1. ASSUME NEW p
      PROVE  Before(p, k) = User!Places(p) /\ Before(p, Len(argv)) = User!Places(p)
  BY <1>0 DEF Before, User!Places
<1>2. ASSUME NEW p, NEW d
      PROVE  /\ AskedBefore(d, p, k) = User!Asked(d, p)
             /\ AskedBefore(d, p, Len(argv)) = User!Asked(d, p)
  BY <1>1 DEF AskedBefore, User!Asked
<1>3. NoHelp(k) = NoHelp(Len(argv))
  BY <1>0 DEF NoHelp
<1>4. ReadSoFar(k) = ReadSoFar(Len(argv))
  BY <1>1, <1>2 DEF ReadSoFar
<1>5. QED
  BY <1>1, <1>2, <1>3, <1>4

-----------------------------------------------------------------------------
(* Before the line is read.                                                *)
LEMMA ParamsInit == User!Init => ParamsInv
<1> SUFFICES ASSUME User!Init PROVE ParamsInv
  OBVIOUS
<1>1. /\ argv \in CommandLines /\ uPc = "main" /\ i = 1
      /\ mine = [fname |-> "", out |-> "", savesol |-> 0, ifPresolve |-> 0, outSol |-> ""]
      /\ change = [p \in User!Params |-> FALSE] /\ param = [p \in User!Params |-> 0]
      /\ Unread
  BY DEF User!Init, Unread
<1>2. \A p : Before(p, 1) = {}
  BY DEF Before
<1>3. ReadSoFar(1) /\ AskedBefore(0, "IF_PRESOLVE", 1) = 0 /\ NoHelp(1)
  <2>1. ReadSoFar(1)
    BY <1>1, <1>2 DEF ReadSoFar
  <2>2. AskedBefore(0, "IF_PRESOLVE", 1) = 0
    BY <1>2 DEF AskedBefore
  <2>3. NoHelp(1)
    BY DEF NoHelp
  <2>4. QED
    BY <2>1, <2>2, <2>3
<1>4. argv \in Seq(ToSet(argv))
  BY <1>1, CommandLinesAssumption
<1>5. /\ mine.ifPresolve = 0
      /\ DOMAIN mine = {"fname", "out", "savesol", "ifPresolve", "outSol"}
      /\ DOMAIN change = User!Params /\ DOMAIN param = User!Params
  BY <1>1
<1>6. /\ uPc # "getUserParam" /\ uPc # "Init_Scaling" /\ uPc # "LP_SolvePDHG" /\ uPc # "Solving"
      /\ uPc = "main" /\ Unread /\ i = 1
  BY <1>1
<1>7. NoHelp(i) /\ mine.ifPresolve = AskedBefore(0, "IF_PRESOLVE", i)
  BY <1>3, <1>5, <1>6
<1>8. i \in Nat \ {0}
  BY <1>6
<1>9. QED
  BY <1>3, <1>4, <1>5, <1>6, <1>7, <1>8 DEF ParamsInv

(* main reads a word: -ifPre is the only flag that both readers know.      *)
LEMMA ParamsReadOwn == ParamsInv /\ User!ReadOwn => ParamsInv'
<1> SUFFICES ASSUME ParamsInv, User!ReadOwn PROVE ParamsInv'
  OBVIOUS
<1>1. /\ uPc = "main" /\ i < Len(argv) /\ argv[i] # "-h" /\ i' = i + 1
      /\ argv' = argv /\ uPc' = uPc /\ change' = change /\ param' = param
      /\ scaling' = scaling /\ work' = work
  BY DEF User!ReadOwn, User!HasValue
<1>2. /\ argv \in Seq(ToSet(argv)) /\ i \in Nat \ {0} /\ (i = 1 \/ i <= Len(argv))
      /\ Unread /\ NoHelp(i) /\ ReadSoFar(1)
      /\ mine.ifPresolve = AskedBefore(0, "IF_PRESOLVE", i)
      /\ DOMAIN change = User!Params /\ DOMAIN param = User!Params
      /\ DOMAIN mine = {"fname", "out", "savesol", "ifPresolve", "outSol"}
  BY <1>1 DEF ParamsInv
<1>3. /\ DOMAIN mine' = {"fname", "out", "savesol", "ifPresolve", "outSol"}
      /\ mine'.ifPresolve = IF argv[i] = "-ifPre" THEN User!Atoi(argv[i + 1])
                            ELSE mine.ifPresolve
  BY <1>2 DEF User!ReadOwn, User!Value
<1>4. User!Flag["IF_PRESOLVE"] = "-ifPre"
  BY DEF User!Flag
<1>5. mine'.ifPresolve = AskedBefore(0, "IF_PRESOLVE", i')
  BY <1>1, <1>2, <1>3, <1>4, OneMore
<1>6. NoHelp(i')
  <2>1. \A x \in 1..i : x = i \/ x \in 1..(i - 1)
    BY <1>2
  <2>2. i' - 1 = i
    BY <1>1, <1>2
  <2>3. \A x \in 1..i : x < Len(argv) => argv[x] # "-h"
    BY <1>1, <1>2, <2>1 DEF NoHelp
  <2>4. QED
    BY <2>2, <2>3 DEF NoHelp
<1>7. Unread'
  BY <1>1, <1>2 DEF Unread
<1>8. /\ NoHelp(i)' /\ ReadSoFar(1)'
      /\ AskedBefore(0, "IF_PRESOLVE", i)' = AskedBefore(0, "IF_PRESOLVE", i')
  BY <1>1, <1>2, <1>6 DEF NoHelp, ReadSoFar, AskedBefore, Before
<1>9. QED
  BY <1>1, <1>2, <1>3, <1>5, <1>7, <1>8 DEF ParamsInv

(* It stops at its end or at -h, and then getUserParam will not finish.    *)
LEMMA ParamsOwnRead == ParamsInv /\ User!OwnRead => ParamsInv'
<1> SUFFICES ASSUME ParamsInv, User!OwnRead PROVE ParamsInv'
  OBVIOUS
<1>1. /\ uPc = "main" /\ (i < Len(argv) => argv[i] = "-h") /\ i' = 1 /\ uPc' = "getUserParam"
      /\ argv' = argv /\ mine' = mine /\ change' = change /\ param' = param
      /\ scaling' = scaling /\ work' = work
  BY DEF User!OwnRead, User!HasValue
<1>2. /\ argv \in Seq(ToSet(argv)) /\ i \in Nat \ {0} /\ (i = 1 \/ i <= Len(argv))
      /\ Unread /\ NoHelp(i) /\ ReadSoFar(1)
      /\ mine.ifPresolve = AskedBefore(0, "IF_PRESOLVE", i)
      /\ DOMAIN change = User!Params /\ DOMAIN param = User!Params
      /\ DOMAIN mine = {"fname", "out", "savesol", "ifPresolve", "outSol"}
  BY <1>1 DEF ParamsInv
<1>3. NoHelp(Len(argv)) => mine.ifPresolve = User!Asked(0, "IF_PRESOLVE")
  <2>1. CASE i < Len(argv)
    BY <1>1, <1>2, <2>1 DEF NoHelp
  <2>2. CASE ~(i < Len(argv))
    BY <1>2, <2>2, AtTheEnd
  <2>3. QED
    BY <2>1, <2>2
<1>4. /\ NoHelp(Len(argv))' = NoHelp(Len(argv))
      /\ User!Asked(0, "IF_PRESOLVE")' = User!Asked(0, "IF_PRESOLVE")
  BY <1>1 DEF NoHelp, User!Asked, User!Places
<1>5. ReadSoFar(i)' /\ NoHelp(i)' /\ Unread'
  BY <1>1, <1>2 DEF ReadSoFar, NoHelp, Unread, AskedBefore, Before
<1>6. QED
  BY <1>1, <1>2, <1>3, <1>4, <1>5 DEF ParamsInv

(* getUserParam reads a word.                                              *)
LEMMA ParamsGetUserParam == ParamsInv /\ User!getUserParam => ParamsInv'
<1> SUFFICES ASSUME ParamsInv, User!getUserParam PROVE ParamsInv'
  OBVIOUS
<1>1. /\ uPc = "getUserParam" /\ i < Len(argv) /\ argv[i] # "-h" /\ i' = i + 1
      /\ argv' = argv /\ uPc' = uPc /\ mine' = mine /\ scaling' = scaling /\ work' = work
      /\ change' = [p \in User!Params |-> User!Flag[p] = argv[i] \/ change[p]]
      /\ param' = [p \in User!Params |-> IF User!Flag[p] = argv[i] THEN User!Atoi(argv[i + 1])
                                         ELSE param[p]]
  BY DEF User!getUserParam, User!HasValue, User!Value
<1>2. /\ argv \in Seq(ToSet(argv)) /\ i \in Nat \ {0} /\ (i = 1 \/ i <= Len(argv))
      /\ Unread /\ NoHelp(i) /\ ReadSoFar(i)
      /\ NoHelp(Len(argv)) => mine.ifPresolve = User!Asked(0, "IF_PRESOLVE")
      /\ DOMAIN change = User!Params /\ DOMAIN param = User!Params
      /\ DOMAIN mine = {"fname", "out", "savesol", "ifPresolve", "outSol"}
  BY <1>1 DEF ParamsInv
<1>3. NoHelp(i')
  <2>1. \A x \in 1..i : x = i \/ x \in 1..(i - 1)
    BY <1>2
  <2>2. i' - 1 = i
    BY <1>1, <1>2
  <2>3. \A x \in 1..i : x < Len(argv) => argv[x] # "-h"
    BY <1>1, <1>2, <2>1 DEF NoHelp
  <2>4. QED
    BY <2>2, <2>3 DEF NoHelp
<1>4. ASSUME NEW p \in User!Params
      PROVE  /\ change'[p] <=> Before(p, i') # {}
             /\ change'[p] => param'[p] = AskedBefore(0, p, i')
  <2>1. /\ change[p] <=> Before(p, i) # {}
        /\ change[p] => param[p] = AskedBefore(0, p, i)
    BY <1>2 DEF ReadSoFar
  <2>2. /\ Before(p, i') = IF argv[i] = User!Flag[p] THEN Before(p, i) \cup {i}
                           ELSE Before(p, i)
        /\ AskedBefore(0, p, i') = IF argv[i] = User!Flag[p] THEN User!Atoi(argv[i + 1])
                                   ELSE AskedBefore(0, p, i)
    BY <1>1, <1>2, OneMore
  <2>3. /\ change'[p] <=> (User!Flag[p] = argv[i] \/ change[p])
        /\ param'[p] = IF User!Flag[p] = argv[i] THEN User!Atoi(argv[i + 1]) ELSE param[p]
    BY <1>1
  <2>4. QED
    BY <2>1, <2>2, <2>3
<1>5. /\ NoHelp(i)' = NoHelp(i') /\ NoHelp(Len(argv))' = NoHelp(Len(argv))
      /\ User!Asked(0, "IF_PRESOLVE")' = User!Asked(0, "IF_PRESOLVE")
      /\ \A p : Before(p, i)' = Before(p, i') /\ AskedBefore(0, p, i)' = AskedBefore(0, p, i')
  BY <1>1 DEF NoHelp, User!Asked, User!Places, AskedBefore, Before
<1>6. ReadSoFar(i)'
  BY <1>4, <1>5 DEF ReadSoFar
<1>7. Unread'
  BY <1>1, <1>2 DEF Unread
<1>8. DOMAIN change' = User!Params /\ DOMAIN param' = User!Params
  BY <1>1
<1>9. QED
  BY <1>1, <1>2, <1>3, <1>5, <1>6, <1>7, <1>8 DEF ParamsInv

(* The usage text ends the program.                                        *)
LEMMA ParamsUsage == ParamsInv /\ User!Usage => ParamsInv'
BY DEF ParamsInv, User!Usage

(* What a parameter is given is what was asked of it.                      *)
LEMMA GivenIsAsked ==
  ASSUME ParamsInv, ReadSoFar(Len(argv)), NEW p \in User!Params, NEW d
  PROVE  User!Given(d, p) = User!Asked(d, p)
<1>1. argv \in Seq(ToSet(argv)) /\ Len(argv) \in Nat
  BY DEF ParamsInv
<1>2. Before(p, Len(argv)) = User!Places(p)
  BY <1>1 DEF Before, User!Places
<1>3. QED
  BY <1>2 DEF ReadSoFar, AskedBefore, User!Given, User!Asked

(* Reading the parameters is over.                                         *)
LEMMA ParamsRead == ParamsInv /\ User!ParamsRead => ParamsInv'
<1> SUFFICES ASSUME ParamsInv, User!ParamsRead PROVE ParamsInv'
  OBVIOUS
<1>1. /\ uPc = "getUserParam" /\ ~(i < Len(argv)) /\ (i <= Len(argv) => argv[i] # "-h")
      /\ uPc' = "Init_Scaling" /\ i' = i /\ argv' = argv /\ change' = change /\ param' = param
      /\ scaling' = scaling /\ work' = work
      /\ mine' = [mine EXCEPT !.ifPresolve = User!Given(@, "IF_PRESOLVE")]
  BY DEF User!ParamsRead, User!HasValue
<1>2. /\ argv \in Seq(ToSet(argv)) /\ i \in Nat \ {0} /\ (i = 1 \/ i <= Len(argv))
      /\ Unread /\ NoHelp(i) /\ ReadSoFar(i)
      /\ NoHelp(Len(argv)) => mine.ifPresolve = User!Asked(0, "IF_PRESOLVE")
      /\ DOMAIN change = User!Params /\ DOMAIN param = User!Params
      /\ DOMAIN mine = {"fname", "out", "savesol", "ifPresolve", "outSol"}
  BY <1>1 DEF ParamsInv
<1>3. ReadSoFar(Len(argv)) /\ NoHelp(Len(argv))
  BY <1>1, <1>2, AtTheEnd
<1>4. "-h" \notin ToSet(argv)
  <2>1. ASSUME NEW x \in DOMAIN argv PROVE argv[x] # "-h"
    <3>1. x \in 1..Len(argv) /\ i = Len(argv) /\ Len(argv) \in Nat
      BY <1>1, <1>2
    <3>2. CASE x = i
      BY <1>1, <3>1, <3>2
    <3>3. CASE x # i
      BY <1>2, <3>1, <3>3 DEF NoHelp
    <3>4. QED
      BY <3>2, <3>3
  <2>2. QED
    BY <2>1 DEF ToSet
<1>5. User!Given(mine.ifPresolve, "IF_PRESOLVE") = User!Asked(0, "IF_PRESOLVE")
  <2>1. mine.ifPresolve = User!Asked(0, "IF_PRESOLVE") /\ "IF_PRESOLVE" \in User!Params
    BY <1>2, <1>3 DEF User!Params, User!Flag
  <2>2. Before("IF_PRESOLVE", Len(argv)) = User!Places("IF_PRESOLVE")
    BY <1>2 DEF Before, User!Places
  <2>3. CASE change["IF_PRESOLVE"]
    BY <1>3, <2>1, <2>2, <2>3 DEF ReadSoFar, AskedBefore, User!Given, User!Asked
  <2>4. CASE ~change["IF_PRESOLVE"]
    BY <2>1, <2>4 DEF User!Given
  <2>5. QED
    BY <2>3, <2>4
<1>6. /\ mine'.ifPresolve = User!Asked(0, "IF_PRESOLVE")
      /\ DOMAIN mine' = {"fname", "out", "savesol", "ifPresolve", "outSol"}
  BY <1>1, <1>2, <1>5
<1>7. /\ ReadSoFar(Len(argv))' = ReadSoFar(Len(argv)) /\ Unread'
      /\ User!Asked(0, "IF_PRESOLVE")' = User!Asked(0, "IF_PRESOLVE")
  BY <1>1, <1>2 DEF ReadSoFar, Unread, User!Asked, User!Places, AskedBefore, Before
<1>8. QED
  BY <1>1, <1>2, <1>3, <1>4, <1>6, <1>7 DEF ParamsInv

(* The data is scaled by what was asked for, and so goes the solver.       *)
LEMMA ParamsScaleData == ParamsInv /\ User!ScaleData => ParamsInv'
<1> SUFFICES ASSUME ParamsInv, User!ScaleData PROVE ParamsInv'
  OBVIOUS
<1>1. /\ uPc = "Init_Scaling" /\ uPc' = "LP_SolvePDHG" /\ i' = i /\ argv' = argv /\ mine' = mine
      /\ change' = change /\ param' = param /\ work' = work /\ scaled' = scaling'
      /\ scaling' = [p \in DOMAIN scaling |-> User!Given(scaling[p], p)]
  BY DEF User!ScaleData
<1>2. /\ argv \in Seq(ToSet(argv)) /\ i \in Nat \ {0} /\ (i = 1 \/ i <= Len(argv))
      /\ "-h" \notin ToSet(argv) /\ ReadSoFar(Len(argv))
      /\ mine.ifPresolve = User!Asked(0, "IF_PRESOLVE")
      /\ scaling = User!ScalingDefault /\ work = User!WorkDefault
      /\ DOMAIN change = User!Params /\ DOMAIN param = User!Params
      /\ DOMAIN mine = {"fname", "out", "savesol", "ifPresolve", "outSol"}
  BY <1>1 DEF ParamsInv, Unread
<1>3. DOMAIN User!ScalingDefault \subseteq User!Params
  BY DEF User!ScalingDefault, User!Params, User!Flag
<1>4. \A p \in DOMAIN User!ScalingDefault :
        User!Given(User!ScalingDefault[p], p) = User!Asked(User!ScalingDefault[p], p)
  BY <1>2, <1>3, GivenIsAsked
<1>5. scaling' = Asked(User!ScalingDefault)
  BY <1>1, <1>2, <1>4 DEF Asked
<1>6. /\ Asked(User!ScalingDefault)' = Asked(User!ScalingDefault)
      /\ User!Asked(0, "IF_PRESOLVE")' = User!Asked(0, "IF_PRESOLVE")
      /\ ReadSoFar(Len(argv))' = ReadSoFar(Len(argv))
  BY <1>1 DEF Asked, User!Asked, User!Places, ReadSoFar, AskedBefore, Before,
              User!ScalingDefault
<1>7. QED
  BY <1>1, <1>2, <1>5, <1>6 DEF ParamsInv

(* PDHG_SetUserParam takes what was changed over.                          *)
LEMMA ParamsSetUserParam == ParamsInv /\ User!PDHG_SetUserParam => ParamsInv'
<1> SUFFICES ASSUME ParamsInv, User!PDHG_SetUserParam PROVE ParamsInv'
  OBVIOUS
<1>1. /\ uPc = "LP_SolvePDHG" /\ uPc' = "Solving" /\ i' = i /\ argv' = argv /\ mine' = mine
      /\ change' = change /\ param' = param /\ scaled' = scaled
      /\ work' = [p \in DOMAIN work |-> User!Given(work[p], p)]
      /\ scaling' = [p \in DOMAIN scaling |->
                       IF p \in User!Shared THEN User!Given(scaling[p], p) ELSE scaling[p]]
  BY DEF User!PDHG_SetUserParam
<1>2. /\ argv \in Seq(ToSet(argv)) /\ i \in Nat \ {0} /\ (i = 1 \/ i <= Len(argv))
      /\ "-h" \notin ToSet(argv) /\ ReadSoFar(Len(argv))
      /\ mine.ifPresolve = User!Asked(0, "IF_PRESOLVE")
      /\ scaling = Asked(User!ScalingDefault) /\ scaled = Asked(User!ScalingDefault)
      /\ work = User!WorkDefault
      /\ DOMAIN change = User!Params /\ DOMAIN param = User!Params
      /\ DOMAIN mine = {"fname", "out", "savesol", "ifPresolve", "outSol"}
  BY <1>1 DEF ParamsInv
<1>3. /\ DOMAIN User!ScalingDefault \subseteq User!Params
      /\ DOMAIN User!WorkDefault \subseteq User!Params
  BY DEF User!ScalingDefault, User!WorkDefault, User!Params, User!Flag
<1>4. \A p \in DOMAIN User!WorkDefault :
        User!Given(User!WorkDefault[p], p) = User!Asked(User!WorkDefault[p], p)
  BY <1>2, <1>3, GivenIsAsked
<1>5. work' = Asked(User!WorkDefault)
  BY <1>1, <1>2, <1>4 DEF Asked
<1>6. ASSUME NEW p \in DOMAIN User!ScalingDefault
      PROVE  User!Given(scaling[p], p) = scaling[p]
  <2>1. scaling[p] = User!Asked(User!ScalingDefault[p], p) /\ p \in User!Params
    BY <1>2, <1>3 DEF Asked
  <2>2. User!Given(scaling[p], p) = User!Asked(scaling[p], p)
    BY <1>2, <2>1, GivenIsAsked
  <2>3. QED
    BY <2>1, <2>2 DEF User!Asked
<1>7. scaling' = Asked(User!ScalingDefault)
  <2>1. DOMAIN scaling = DOMAIN User!ScalingDefault
    BY <1>2 DEF Asked
  <2>2. scaling' = [p \in DOMAIN User!ScalingDefault |-> scaling[p]]
    BY <1>1, <1>6, <2>1
  <2>3. QED
    BY <1>2, <2>2 DEF Asked
<1>8. /\ Asked(User!ScalingDefault)' = Asked(User!ScalingDefault)
      /\ Asked(User!WorkDefault)' = Asked(User!WorkDefault)
      /\ User!Asked(0, "IF_PRESOLVE")' = User!Asked(0, "IF_PRESOLVE")
      /\ ReadSoFar(Len(argv))' = ReadSoFar(Len(argv))
  BY <1>1 DEF Asked, User!Asked, User!Places, ReadSoFar, AskedBefore, Before,
              User!ScalingDefault, User!WorkDefault
<1>9. QED
  BY <1>1, <1>2, <1>5, <1>7, <1>8 DEF ParamsInv

(* What the other parts of the program do leaves it alone.                 *)
LEMMA ParamsStutter == ParamsInv /\ UNCHANGED paramVars => ParamsInv'
<1> SUFFICES ASSUME ParamsInv, UNCHANGED paramVars PROVE ParamsInv'
  OBVIOUS
<1>1. /\ argv' = argv /\ uPc' = uPc /\ i' = i /\ mine' = mine /\ change' = change
      /\ param' = param /\ scaling' = scaling /\ scaled' = scaled /\ work' = work
  BY DEF paramVars
<1>2. /\ NoHelp(i)' = NoHelp(i) /\ NoHelp(Len(argv))' = NoHelp(Len(argv))
      /\ ReadSoFar(1)' = ReadSoFar(1) /\ ReadSoFar(i)' = ReadSoFar(i)
      /\ ReadSoFar(Len(argv))' = ReadSoFar(Len(argv))
      /\ AskedBefore(0, "IF_PRESOLVE", i)' = AskedBefore(0, "IF_PRESOLVE", i)
      /\ User!Asked(0, "IF_PRESOLVE")' = User!Asked(0, "IF_PRESOLVE")
  BY <1>1 DEF NoHelp, ReadSoFar, AskedBefore, Before, User!Asked, User!Places
<1>3. /\ Unread' = Unread /\ Asked(User!ScalingDefault)' = Asked(User!ScalingDefault)
      /\ Asked(User!WorkDefault)' = Asked(User!WorkDefault)
  BY <1>1 DEF Unread, Asked, User!Asked, User!Places, User!ScalingDefault, User!WorkDefault
<1>4. QED
  BY <1>1, <1>2, <1>3 DEF ParamsInv

-----------------------------------------------------------------------------
(* At the end of the run the invariant says what was asked.                *)
LEMMA ParamsInvImplies == ParamsInv => SolvesAsAsked
<1> SUFFICES ASSUME ParamsInv, uPc = "Solving" PROVE SolvesAsAsked
  BY DEF SolvesAsAsked, User!SolvesAsAsked
<1>1. /\ "-h" \notin ToSet(argv) /\ mine.ifPresolve = User!Asked(0, "IF_PRESOLVE")
      /\ scaling = Asked(User!ScalingDefault) /\ scaled = Asked(User!ScalingDefault)
      /\ work = Asked(User!WorkDefault)
  BY DEF ParamsInv
<1>2. /\ scaling = [p \in DOMAIN scaling |-> User!Asked(User!ScalingDefault[p], p)]
      /\ work = [p \in DOMAIN work |-> User!Asked(User!WorkDefault[p], p)]
  BY <1>1 DEF Asked
<1>3. /\ "IF_SCALING" \in DOMAIN User!WorkDefault /\ "IF_SCALING" \in DOMAIN User!ScalingDefault
      /\ User!WorkDefault["IF_SCALING"] = User!ScalingDefault["IF_SCALING"]
  BY DEF User!WorkDefault, User!ScalingDefault, User!Params, User!Flag, User!Shared
<1>4. work["IF_SCALING"] = scaling["IF_SCALING"]
  BY <1>1, <1>3 DEF Asked
<1>5. work.IF_SCALING = scaling["IF_SCALING"]
  BY <1>4
<1>6. scaled = [scaling EXCEPT !["IF_SCALING"] = scaling["IF_SCALING"]]
  BY <1>1 DEF Asked
<1>7. ToSet(argv) = User!ToSet(argv)
  BY DEF ToSet, User!ToSet
<1>8. QED
  BY <1>1, <1>2, <1>5, <1>6, <1>7 DEF SolvesAsAsked, User!SolvesAsAsked

(* A run that is not refused solves with what was asked for, of every set  *)
(* of command lines and whatever words are numbers (main and getUserParam).*)
THEOREM SolvedAsAsked == User!Spec => []SolvesAsAsked
<1>1. User!Init => ParamsInv
  BY ParamsInit
<1>2. ParamsInv /\ [User!Next]_User!vars => ParamsInv'
  <2> SUFFICES ASSUME ParamsInv, [User!Next]_User!vars PROVE ParamsInv'
    OBVIOUS
  <2>1. CASE User!Next
    BY <2>1, ParamsReadOwn, ParamsOwnRead, ParamsGetUserParam, ParamsUsage, ParamsRead,
       ParamsScaleData, ParamsSetUserParam DEF User!Next
  <2>2. CASE UNCHANGED User!vars
    BY <2>2, ParamsStutter DEF User!vars, paramVars
  <2>3. QED
    BY <2>1, <2>2
<1>3. ParamsInv => SolvesAsAsked
  BY ParamsInvImplies
<1>4. QED
  BY <1>1, <1>2, <1>3, PTL DEF User!Spec

-----------------------------------------------------------------------------
(* The rank of a member of a finite set of numbers is its place in order.  *)
LEMMA RankIsPlace ==
  ASSUME NEW S, IsFiniteSet(S), S \subseteq Int
  PROVE  /\ Cardinality(S) \in Nat
         /\ \A r \in S : Rank(r, S) \in 0..(Cardinality(S) - 1)
         /\ \A r, s \in S : r < s => Rank(r, S) < Rank(s, S)
         /\ {Rank(r, S) : r \in S} = 0..(Cardinality(S) - 1)
<1> DEFINE Below(r) == {k \in S : k < r}
           c == Cardinality(S)
           R == {Rank(r, S) : r \in S}
<1>1. c \in Nat
  BY FS_CardinalityType
<1>2. ASSUME NEW r \in S
      PROVE  /\ IsFiniteSet(Below(r)) /\ Cardinality(Below(r)) \in Nat
             /\ IsFiniteSet(Below(r) \cup {r})
             /\ Cardinality(Below(r) \cup {r}) = Cardinality(Below(r)) + 1
  <2>1. IsFiniteSet(Below(r)) /\ r \notin Below(r)
    <3>1. Below(r) \in SUBSET S
      OBVIOUS
    <3>2. QED
      BY <3>1, FS_Subset
  <2>2. QED
    BY <2>1, FS_CardinalityType, FS_AddElement
<1>3. ASSUME NEW r \in S PROVE Rank(r, S) \in 0..(c - 1)
  <2>1. Below(r) \cup {r} \in SUBSET S
    OBVIOUS
  <2>2. Cardinality(Below(r) \cup {r}) <= c
    BY <2>1, FS_Subset
  <2>3. /\ Cardinality(Below(r) \cup {r}) = Cardinality(Below(r)) + 1
        /\ Cardinality(Below(r)) \in Nat
    BY <1>2
  <2>4. Rank(r, S) = Cardinality(Below(r))
    BY DEF Rank
  <2> HIDE DEF Below
  <2>5. QED
    BY <1>1, <2>2, <2>3, <2>4
<1>4. ASSUME NEW r \in S, NEW s \in S, r < s PROVE Rank(r, S) < Rank(s, S)
  <2>1. Below(r) \cup {r} \in SUBSET Below(s)
    <3>1. \A k \in S : k < r => k < s
      BY <1>4
    <3>2. QED
      BY <1>4, <3>1
  <2>2. IsFiniteSet(Below(s)) /\ Cardinality(Below(s)) \in Nat
    BY <1>2
  <2>3. Cardinality(Below(r) \cup {r}) <= Cardinality(Below(s))
    BY <2>1, <2>2, FS_Subset
  <2>4. Cardinality(Below(r) \cup {r}) = Cardinality(Below(r)) + 1 /\ Cardinality(Below(r)) \in Nat
    BY <1>2
  <2>5. Rank(r, S) = Cardinality(Below(r)) /\ Rank(s, S) = Cardinality(Below(s))
    BY DEF Rank
  <2> HIDE DEF Below
  <2>6. QED
    BY <2>2, <2>3, <2>4, <2>5
<1>5. R \in SUBSET (0..(c - 1))
  BY <1>3
<1>6. IsFiniteSet(0..(c - 1)) /\ Cardinality(0..(c - 1)) = c
  BY <1>1, FS_Interval
<1>7. IsFiniteSet(R) /\ Cardinality(R) = c
  <2> DEFINE f == [r \in S |-> Rank(r, S)]
  <2>1. \A r, s \in S : r # s => f[r] # f[s]
    <3> SUFFICES ASSUME NEW r \in S, NEW s \in S, r # s PROVE f[r] # f[s]
      OBVIOUS
    <3>1. r < s \/ s < r
      OBVIOUS
    <3>2. Rank(r, S) \in Nat /\ Rank(s, S) \in Nat
      BY <1>3
    <3>3. QED
      BY <1>4, <3>1, <3>2
  <2>2. f \in Bijection(S, R)
    BY <2>1 DEF Bijection, Injection, Surjection, IsInjective
  <2>3. ExistsBijection(S, R)
    BY <2>2 DEF ExistsBijection
  <2>4. QED
    BY <2>3, FS_Bijection
<1>8. R = 0..(c - 1)
  BY <1>5, <1>6, <1>7, FS_Subset
<1>9. QED
  BY <1>1, <1>3, <1>4, <1>8

-----------------------------------------------------------------------------
(* Equations and rows with a slack come first, then the inequalities; a    *)
(* BOUND row has the slack.                                                *)
Eqs == OfType({"EQ", "BOUND"})
Ineqs  == OfType({"LEQ", "GEQ"})
Bound == OfType({"BOUND"})

(* Rows and columns of a program are numbered from zero.                   *)
LEMMA Shape ==
  ASSUME lp \in Models
  PROVE  /\ IsFiniteSet(Rows) /\ Rows = 0..(nRows - 1) /\ nRows \in Nat
         /\ IsFiniteSet(Cols) /\ Cols = 0..(nColsOrigin - 1) /\ nColsOrigin \in Nat
BY ModelsAssumption, FS_CardinalityType DEF Rows, Cols, nRows, nColsOrigin

(* The kinds of rows part the rows, and nEqs and nCols count them.         *)
LEMMA Kinds ==
  ASSUME lp \in Models
  PROVE  /\ IsFiniteSet(Eqs) /\ IsFiniteSet(Ineqs) /\ IsFiniteSet(Bound)
         /\ Eqs \subseteq Int /\ Ineqs \subseteq Int /\ Bound \subseteq Int
         /\ Eqs \cup Ineqs = Rows /\ Eqs \cap Ineqs = {} /\ Bound \subseteq Eqs
         /\ nEqs = Cardinality(Eqs) /\ nEqs \in Nat /\ nRows - nEqs = Cardinality(Ineqs)
         /\ Cardinality(Ineqs) \in Nat
         /\ nCols - nColsOrigin = Cardinality(Bound) /\ Cardinality(Bound) \in 0..nRows
         /\ nCols \in Nat
<1>1. \A r \in Rows : constraint_type(r) \in {"EQ", "GEQ", "LEQ", "BOUND"}
  BY DEF constraint_type
<1>2. /\ Eqs \cup Ineqs = Rows /\ Eqs \cap Ineqs = {} /\ Bound \subseteq Eqs
      /\ Eqs \subseteq Rows /\ Ineqs \subseteq Rows /\ Bound \subseteq Rows
  BY <1>1 DEF Eqs, Ineqs, Bound, OfType
<1>3. /\ IsFiniteSet(Eqs) /\ IsFiniteSet(Ineqs) /\ IsFiniteSet(Bound)
      /\ Cardinality(Bound) <= Cardinality(Rows)
  BY <1>2, Shape, FS_Subset
<1>4. Cardinality(Eqs) \in Nat /\ Cardinality(Ineqs) \in Nat /\ Cardinality(Bound) \in Nat
  BY <1>3, FS_CardinalityType
<1>5. Cardinality(Rows) = Cardinality(Eqs) + Cardinality(Ineqs) - Cardinality({})
  BY <1>2, <1>3, FS_Union
<1>6. Cardinality({}) = 0
  BY FS_EmptySet
<1>7. QED
  BY <1>2, <1>3, <1>4, <1>5, <1>6, Shape DEF nRows, nEqs, nCols, Eqs, Bound

(* The new numbers are the old ones permuted, equations first, and within  *)
(* its part every row keeps its order.                                     *)
LEMMA Places ==
  ASSUME lp \in Models
  PROVE  /\ {constraint_new_idx(r) : r \in Rows} = 0..(nRows - 1)
         /\ \A r, s \in Rows : r # s => constraint_new_idx(r) # constraint_new_idx(s)
         /\ \A r \in Rows : r \in Eqs <=> constraint_new_idx(r) < nEqs
         /\ \A r, s \in Rows : r < s /\ (r \in Eqs <=> s \in Eqs) =>
              constraint_new_idx(r) < constraint_new_idx(s)
<1> DEFINE idx(r) == constraint_new_idx(r)
           f == Cardinality(Eqs)
           l == Cardinality(Ineqs)
<1>1. \A r \in Eqs : idx(r) = Rank(r, Eqs)
  BY DEF constraint_new_idx, Eqs
<1>2. \A r \in Ineqs : idx(r) = f + Rank(r, Ineqs)
  BY Kinds DEF constraint_new_idx, Eqs, Ineqs
<1>3. /\ f \in Nat /\ l \in Nat /\ nRows = f + l /\ nEqs = f /\ nRows \in Nat
      /\ Eqs \cup Ineqs = Rows /\ Eqs \cap Ineqs = {}
      /\ Eqs \subseteq Int /\ Ineqs \subseteq Int
  BY Kinds, Shape
<1>4. /\ \A r \in Eqs : idx(r) \in 0..(f - 1)
      /\ \A r, s \in Eqs : r < s => idx(r) < idx(s)
      /\ \A k \in 0..(f - 1) : \E r \in Eqs : idx(r) = k
  <2>1. /\ \A r \in Eqs : Rank(r, Eqs) \in 0..(f - 1)
        /\ \A r, s \in Eqs : r < s => Rank(r, Eqs) < Rank(s, Eqs)
        /\ {Rank(r, Eqs) : r \in Eqs} = 0..(f - 1)
    BY Kinds, RankIsPlace
  <2> HIDE DEF idx, f
  <2>2. QED
    BY <1>1, <2>1
<1>5. /\ \A r \in Ineqs : idx(r) \in f..(f + l - 1)
      /\ \A r, s \in Ineqs : r < s => idx(r) < idx(s)
      /\ \A k \in f..(f + l - 1) : \E r \in Ineqs : idx(r) = k
  <2>1. /\ \A r \in Ineqs : Rank(r, Ineqs) \in 0..(l - 1)
        /\ \A r, s \in Ineqs : r < s => Rank(r, Ineqs) < Rank(s, Ineqs)
        /\ {Rank(r, Ineqs) : r \in Ineqs} = 0..(l - 1)
    BY Kinds, RankIsPlace
  <2> HIDE DEF idx, f, l
  <2>2. ASSUME NEW k \in f..(f + l - 1) PROVE \E r \in Ineqs : idx(r) = k
    <3>1. k \in Int /\ k - f \in 0..(l - 1)
      BY <1>3
    <3>2. PICK r \in Ineqs : Rank(r, Ineqs) = k - f
      BY <2>1, <3>1
    <3>3. idx(r) = k
      BY <1>2, <1>3, <3>1, <3>2
    <3>4. QED
      BY <3>3
  <2>3. ASSUME NEW r \in Ineqs
        PROVE  idx(r) \in f..(f + l - 1) /\ Rank(r, Ineqs) \in Int /\ idx(r) = f + Rank(r, Ineqs)
    <3>1. Rank(r, Ineqs) \in 0..(l - 1)
      BY <2>1
    <3>2. QED
      BY <1>2, <1>3, <3>1
  <2>4. ASSUME NEW r \in Ineqs, NEW s \in Ineqs, r < s PROVE idx(r) < idx(s)
    <3>1. Rank(r, Ineqs) < Rank(s, Ineqs)
      BY <2>1, <2>4
    <3>2. QED
      BY <1>3, <2>3, <3>1
  <2>5. QED
    BY <2>2, <2>3, <2>4
<1> HIDE DEF idx, f, l
<1>6. {idx(r) : r \in Rows} = 0..(nRows - 1)
  <2>1. ASSUME NEW k \in 0..(nRows - 1) PROVE \E r \in Rows : idx(r) = k
    <3>1. k \in 0..(f - 1) \/ k \in f..(f + l - 1)
      BY <1>3
    <3>2. QED
      BY <1>3, <1>4, <1>5, <3>1
  <2>2. ASSUME NEW r \in Rows PROVE idx(r) \in 0..(nRows - 1)
    <3>1. idx(r) \in 0..(f - 1) \/ idx(r) \in f..(f + l - 1)
      BY <1>3, <1>4, <1>5
    <3>2. QED
      BY <1>3, <3>1
  <2>3. QED
    BY <2>1, <2>2
<1>7. \A r, s \in Rows : r # s => idx(r) # idx(s)
  <2> SUFFICES ASSUME NEW r \in Rows, NEW s \in Rows, r # s PROVE idx(r) # idx(s)
    OBVIOUS
  <2>1. r \in Int /\ s \in Int
    BY <1>3
  <2>2. r < s \/ s < r
    BY <2>1
  <2>3. CASE r \in Eqs /\ s \in Eqs
    BY <1>4, <2>2, <2>3
  <2>4. CASE r \in Ineqs /\ s \in Ineqs
    BY <1>3, <1>5, <2>2, <2>4
  <2>5. CASE r \in Eqs /\ s \in Ineqs
    <3>1. idx(r) \in 0..(f - 1) /\ idx(s) \in f..(f + l - 1)
      BY <1>4, <1>5, <2>5
    <3>2. QED
      BY <1>3, <3>1
  <2>6. CASE r \in Ineqs /\ s \in Eqs
    <3>1. idx(s) \in 0..(f - 1) /\ idx(r) \in f..(f + l - 1)
      BY <1>4, <1>5, <2>6
    <3>2. QED
      BY <1>3, <3>1
  <2>7. QED
    BY <1>3, <2>3, <2>4, <2>5, <2>6
<1>8. ASSUME NEW r \in Rows PROVE r \in Eqs <=> idx(r) < nEqs
  <2>1. CASE r \in Eqs
    <3>1. idx(r) \in 0..(f - 1)
      BY <1>4, <2>1
    <3>2. QED
      BY <1>3, <2>1, <3>1
  <2>2. CASE r \in Ineqs
    <3>1. idx(r) \in f..(f + l - 1)
      BY <1>5, <2>2
    <3>2. QED
      BY <1>3, <2>2, <3>1
  <2>3. QED
    BY <1>3, <2>1, <2>2
<1>9. \A r, s \in Rows : r < s /\ (r \in Eqs <=> s \in Eqs) => idx(r) < idx(s)
  BY <1>3, <1>4, <1>5
<1>10. QED
  BY <1>6, <1>7, <1>8, <1>9 DEF idx

(* Slacks are numbered on from the columns, and a slack finds its row.     *)
LEMMA SlackPlaces ==
  ASSUME lp \in Models
  PROVE  /\ {Slack(r) : r \in Bound} = nColsOrigin..(nCols - 1)
         /\ \A r, s \in Bound : r # s => Slack(r) # Slack(s)
         /\ \A r \in Bound : SlackRow(Slack(r)) = r
<1> DEFINE b == Cardinality(Bound)
<1>1. /\ b \in Nat /\ nCols = nColsOrigin + b /\ nColsOrigin \in Nat /\ Bound \subseteq Int
      /\ nCols \in Nat
  BY Kinds, Shape
<1>2. /\ \A r \in Bound : Rank(r, Bound) \in 0..(b - 1)
      /\ \A r, s \in Bound : r < s => Rank(r, Bound) < Rank(s, Bound)
      /\ {Rank(r, Bound) : r \in Bound} = 0..(b - 1)
  BY Kinds, RankIsPlace
<1>3. \A r : Slack(r) = nColsOrigin + Rank(r, Bound)
  BY DEF Slack, Bound
<1> HIDE DEF b
<1>4. ASSUME NEW k \in nColsOrigin..(nCols - 1) PROVE \E r \in Bound : Slack(r) = k
  <2>1. k \in Int /\ k - nColsOrigin \in 0..(b - 1)
    BY <1>1
  <2>2. PICK r \in Bound : Rank(r, Bound) = k - nColsOrigin
    BY <1>2, <2>1
  <2>3. Slack(r) = k
    BY <1>1, <1>3, <2>1, <2>2
  <2>4. QED
    BY <2>3
<1>5. {Slack(r) : r \in Bound} = nColsOrigin..(nCols - 1)
  <2>1. ASSUME NEW r \in Bound PROVE Slack(r) \in nColsOrigin..(nCols - 1)
    <3>1. Rank(r, Bound) \in 0..(b - 1)
      BY <1>2
    <3>2. QED
      BY <1>1, <1>3, <3>1
  <2>2. QED
    BY <1>4, <2>1
<1>6. \A r, s \in Bound : r # s => Slack(r) # Slack(s)
  <2> SUFFICES ASSUME NEW r \in Bound, NEW s \in Bound, r # s PROVE Slack(r) # Slack(s)
    OBVIOUS
  <2>1. r \in Int /\ s \in Int /\ (r < s \/ s < r)
    BY <1>1
  <2>2. QED
    BY <1>1, <1>2, <1>3, <2>1
<1>7. \A r \in Bound : SlackRow(Slack(r)) = r
  BY <1>6 DEF SlackRow, Bound
<1>8. QED
  BY <1>5, <1>6, <1>7

-----------------------------------------------------------------------------
(* The bounds of a column of the standard form: of the column itself or of *)
(* the row whose slack it is.                                              *)
Lo(j) == IF j \in Cols THEN lp.col[j].lo ELSE lp.row[SlackRow(j)].lo
Up(j) == IF j \in Cols THEN lp.col[j].up ELSE lp.row[SlackRow(j)].up

Columns == 0..(nCols - 1)

(* Every column of the standard form has bounds of the program.            *)
LEMMA BoundsAreNumbers ==
  ASSUME lp \in Models
  PROVE  \A j \in Columns : Lo(j) \in Int /\ Up(j) \in Int
<1> SUFFICES ASSUME NEW j \in Columns PROVE Lo(j) \in Int /\ Up(j) \in Int
  OBVIOUS
<1>1. CASE j \in Cols
  BY <1>1, ModelsAssumption DEF Lo, Up, Cols, HasBounds
<1>2. CASE j \notin Cols
  <2>1. j \in nColsOrigin..(nCols - 1)
    BY <1>2, Shape, Kinds DEF Columns
  <2>2. PICK r \in Bound : Slack(r) = j
    BY <2>1, SlackPlaces
  <2>3. SlackRow(j) = r /\ r \in Rows
    BY <2>2, SlackPlaces, Kinds
  <2>4. QED
    BY <1>2, <2>3, ModelsAssumption DEF Lo, Up, Rows, HasBounds
<1>3. QED
  BY <1>1, <1>2

(* Scaling by a positive factor is undone by dividing, and keeps order.    *)
LEMMA Products ==
  ASSUME NEW a \in Int, NEW b \in Int, NEW s \in Nat \ {0}
  PROVE  /\ (a * s) \div s = a
         /\ a * s <= b * s => a <= b
         /\ 0 <= b * s => 0 <= b
<1>1. a * s <= b * s => a <= b
  OBVIOUS
<1>2. 0 <= b * s => 0 <= b
  OBVIOUS
<1>3. (a * s) \div s = a
  OBVIOUS
<1>4. QED
  BY <1>1, <1>2, <1>3

-----------------------------------------------------------------------------
(* What FoldLeft chooses: a function from sets of places of s to what the  *)
(* passes at these places make of b, one after the other.                  *)
Runs(g, b, s, k) ==
  g = [u \in SUBSET k |->
        IF u = {} THEN b ELSE LET x == Max(u) IN scale_problem(g[u \ {x}], s[x])]

(* The last of the places.                                                 *)
LEMMA MaxIs ==
  ASSUME NEW k \in Nat, NEW u \in SUBSET (1..k), k \in u
  PROVE  Max(u) = k
<1>1. \A x \in u : k >= x
  OBVIOUS
<1>2. \A x \in u : (\A y \in u : x >= y) => x = k
  OBVIOUS
<1>3. QED
  BY <1>1, <1>2 DEF Max

(* There is such a function for a sequence of any length.                  *)
LEMMA RunsExists ==
  ASSUME NEW b, NEW s, NEW k \in Nat
  PROVE  \E g : Runs(g, b, s, 1..k)
<1> DEFINE D == {d \in Nat : \E g : Runs(g, b, s, 1..d)}
<1>1. 0 \in D
  <2> DEFINE g == [u \in SUBSET (1..0) |-> b]
  <2>1. \A u \in SUBSET (1..0) : u = {}
    OBVIOUS
  <2>2. Runs(g, b, s, 1..0)
    BY <2>1 DEF Runs
  <2>3. QED
    BY <2>2
<1>2. ASSUME NEW d \in Nat, d \in D PROVE d + 1 \in D
  <2>1. PICK g : Runs(g, b, s, 1..d)
    BY <1>2
  <2> DEFINE h == [u \in SUBSET (1..(d + 1)) |->
                    IF d + 1 \in u THEN scale_problem(g[u \ {d + 1}], s[d + 1]) ELSE g[u]]
  <2>2. ASSUME NEW u \in SUBSET (1..(d + 1))
        PROVE  h[u] = IF u = {} THEN b
                      ELSE LET x == Max(u) IN scale_problem(h[u \ {x}], s[x])
    <3>1. CASE d + 1 \in u
      <4>1. Max(u) = d + 1
        BY <3>1, MaxIs
      <4>2. u \ {d + 1} \in SUBSET (1..(d + 1)) /\ d + 1 \notin u \ {d + 1}
        OBVIOUS
      <4>3. h[u \ {d + 1}] = g[u \ {d + 1}]
        BY <4>2
      <4>4. h[u] = scale_problem(g[u \ {d + 1}], s[d + 1])
        BY <3>1
      <4>5. u # {}
        BY <3>1
      <4> HIDE DEF h
      <4>6. QED
        BY <4>1, <4>3, <4>4, <4>5
    <3>2. CASE d + 1 \notin u
      <4>1. u \in SUBSET (1..d)
        BY <3>2
      <4>2. u \ {Max(u)} \in SUBSET (1..d) /\ u \ {Max(u)} \in SUBSET (1..(d + 1))
            /\ d + 1 \notin u \ {Max(u)}
        BY <3>2, <4>1
      <4>3. h[u] = g[u] /\ h[u \ {Max(u)}] = g[u \ {Max(u)}]
        BY <3>2, <4>2
      <4>4. g[u] = IF u = {} THEN b ELSE scale_problem(g[u \ {Max(u)}], s[Max(u)])
        BY <2>1, <4>1 DEF Runs
      <4> HIDE DEF h
      <4>5. QED
        BY <4>3, <4>4
    <3>3. QED
      BY <3>1, <3>2
  <2>3. Runs(h, b, s, 1..(d + 1))
    BY <2>2 DEF Runs
  <2>4. QED
    BY <2>3
<1> HIDE DEF D
<1>3. Nat \subseteq D
  BY <1>1, <1>2, SetInduction
<1>4. QED
  BY <1>3 DEF D

(* So FoldLeft is what one of them gives for all places.                   *)
LEMMA FoldRuns ==
  ASSUME NEW b, NEW s, NEW k \in Nat, DOMAIN s = 1..k
  PROVE  \E g : Runs(g, b, s, 1..k) /\ FoldLeft(scale_problem, b, s) = g[1..k]
<1> DEFINE F(g, u) == IF u = {} THEN b ELSE LET x == Max(u) IN scale_problem(g[u \ {x}], s[x])
           r == CHOOSE g : g = [u \in SUBSET DOMAIN s |-> F(g, u)]
<1>1. FoldLeft(scale_problem, b, s) = r[DOMAIN s]
  BY DEF FoldLeft, MapThenFoldSet
<1>2. \E g : g = [u \in SUBSET DOMAIN s |-> F(g, u)]
  <2>1. PICK g : Runs(g, b, s, 1..k)
    BY RunsExists
  <2>2. g = [u \in SUBSET DOMAIN s |-> F(g, u)]
    BY <2>1 DEF Runs
  <2>3. QED
    BY <2>2
<1>3. r = [u \in SUBSET DOMAIN s |-> F(r, u)]
  <2> HIDE DEF F
  <2>1. QED
    BY <1>2
<1>4. Runs(r, b, s, 1..k)
  BY <1>3 DEF Runs
<1>5. QED
  BY <1>1, <1>4

(* The entries of the new matrix: where they are, and that each has a row  *)
(* and a value that counts in units.                                       *)
SlackCols == nColsOrigin..(nCols - 1)
Parts(V) == UNION {{j} \X (DOMAIN lp.col[j].entries) : j \in V}

(* The columns are those of the program and one for each BOUND row.        *)
LEMMA SlackRows ==
  ASSUME lp \in Models
  PROVE  /\ Columns = Cols \cup SlackCols /\ Cols \cap SlackCols = {} /\ IsFiniteSet(Columns)
         /\ IsFiniteSet(SlackCols)
         /\ \A j \in SlackCols : /\ SlackRow(j) \in Bound /\ SlackRow(j) \in Rows
                                 /\ Slack(SlackRow(j)) = j
         /\ \A r \in Bound : Slack(r) \in SlackCols /\ SlackRow(Slack(r)) = r
<1>1. /\ nColsOrigin \in Nat /\ Cols = 0..(nColsOrigin - 1) /\ nCols - nColsOrigin \in Nat
      /\ nCols \in Nat /\ Bound \subseteq Rows
  BY Shape, Kinds
<1>2. Columns = Cols \cup SlackCols /\ Cols \cap SlackCols = {}
  BY <1>1 DEF Columns, SlackCols
<1>3. IsFiniteSet(Columns) /\ IsFiniteSet(SlackCols)
  BY <1>1, FS_Interval DEF Columns, SlackCols
<1>4. ASSUME NEW j \in SlackCols
      PROVE  SlackRow(j) \in Bound /\ SlackRow(j) \in Rows /\ Slack(SlackRow(j)) = j
  <2>1. PICK r \in Bound : Slack(r) = j
    BY SlackPlaces DEF SlackCols
  <2>2. SlackRow(j) = r
    BY <2>1, SlackPlaces
  <2>3. QED
    BY <1>1, <2>1, <2>2
<1>5. ASSUME NEW r \in Bound PROVE Slack(r) \in SlackCols /\ SlackRow(Slack(r)) = r
  BY SlackPlaces DEF SlackCols
<1>6. QED
  BY <1>2, <1>3, <1>4, <1>5

(* What ModelsAssumption says of a column.                                 *)
LEMMA ColumnOf ==
  ASSUME lp \in Models, NEW j \in Cols
  PROVE  LET s == lp.col[j].entries
         IN /\ lp.col[j].cost \in Int /\ HasBounds(lp.col[j])
            /\ Len(s) \in Nat /\ DOMAIN s = 1..Len(s) /\ IsFiniteSet(DOMAIN s)
            /\ \A p \in DOMAIN s : s[p].idx \in Rows /\ s[p].val \in Int
<1> DEFINE s == lp.col[j].entries
<1>1. /\ lp.col[j].cost \in Int /\ HasBounds(lp.col[j])
      /\ s \in Seq(ToSet(s)) /\ \A p \in DOMAIN s : s[p].idx \in Rows /\ s[p].val \in Int
  BY ModelsAssumption DEF Cols, Rows
<1> HIDE DEF s
<1>2. Len(s) \in Nat /\ DOMAIN s = 1..Len(s)
  BY <1>1
<1>3. IsFiniteSet(DOMAIN s)
  BY <1>2, FS_Interval
<1>4. QED
  BY <1>1, <1>2, <1>3 DEF s

(* Only LEQ rows are turned.                                               *)
LEMMA Signs ==
  ASSUME NEW r
  PROVE  /\ Sign(r) \in {1, -1}
         /\ Sign(r) = -1 <=> constraint_type(r) = "LEQ"
BY DEF Sign

(* There are finitely many entries: one for every entry of the program and *)
(* one for every slack.                                                    *)
LEMMA NonzerosAre ==
  ASSUME lp \in Models
  PROVE  /\ IsFiniteSet(Nonzeros)
         /\ \A e : e \in Nonzeros <=>
              \/ \E j \in Cols : \E p \in DOMAIN lp.col[j].entries : e = <<j, p>>
              \/ \E j \in SlackCols : e = <<j, 1>>
<1> DEFINE U == {V \in SUBSET Cols : IsFiniteSet(Parts(V))}
<1>1. {} \in U
  <2>1. Parts({}) = {}
    BY DEF Parts
  <2>2. QED
    BY <2>1, FS_EmptySet
<1>2. ASSUME NEW V \in SUBSET Cols, NEW j \in Cols \ V, V \in U PROVE V \cup {j} \in U
  <2>1. Parts(V \cup {j}) = Parts(V) \cup ({j} \X (DOMAIN lp.col[j].entries))
    BY DEF Parts
  <2>2. IsFiniteSet({j}) /\ IsFiniteSet(DOMAIN lp.col[j].entries)
    BY FS_Singleton, ColumnOf
  <2>3. IsFiniteSet({j} \X (DOMAIN lp.col[j].entries))
    BY <2>2, FS_Product
  <2>4. IsFiniteSet(Parts(V) \cup ({j} \X (DOMAIN lp.col[j].entries)))
    BY <1>2, <2>3, FS_Union
  <2>5. IsFiniteSet(Parts(V \cup {j}))
    BY <2>1, <2>4, Zenon
  <2>6. QED
    BY <2>5
<1> HIDE DEF U
<1>3. Cols \in U
  BY <1>1, <1>2, Shape, FiniteInduction
<1>4. IsFiniteSet(Parts(Cols)) /\ IsFiniteSet(SlackCols \X {1})
  BY <1>3, SlackRows, FS_Singleton, FS_Product DEF U
<1>5. Nonzeros = Parts(Cols) \cup (SlackCols \X {1})
  BY DEF Nonzeros, Parts, SlackCols
<1>6. IsFiniteSet(Parts(Cols) \cup (SlackCols \X {1}))
  BY <1>4, FS_Union
<1>7. IsFiniteSet(Nonzeros)
  BY <1>5, <1>6, Zenon
<1>8. \A e : e \in Parts(Cols) <=>
              \E j \in Cols : \E p \in DOMAIN lp.col[j].entries : e = <<j, p>>
  BY DEF Parts
<1>9. \A e : e \in SlackCols \X {1} <=> \E j \in SlackCols : e = <<j, 1>>
  OBVIOUS
<1>10. QED
  BY <1>5, <1>7, <1>8, <1>9

(* Each entry has a row, a column and a value in units.                    *)
LEMMA EntryOf ==
  ASSUME lp \in Models
  PROVE  /\ \A e \in Nonzeros :
              /\ e = <<e[1], e[2]>> /\ e[1] \in Columns /\ e[2] \in Nat
              /\ Entry(e).idx \in Rows /\ Entry(e).val \in Int
              /\ \E v \in Int : Entry(e).val = Unit * v
         /\ \A j \in Cols : \A p \in DOMAIN lp.col[j].entries :
              LET old == lp.col[j].entries[p]
              IN  Entry(<<j, p>>) = [idx |-> constraint_new_idx(old.idx),
                                     val |-> Unit * Sign(old.idx) * old.val]
         /\ \A j \in SlackCols :
              Entry(<<j, 1>>) = [idx |-> constraint_new_idx(SlackRow(j)), val |-> -Unit]
<1>1. ASSUME NEW j \in Cols, NEW p \in DOMAIN lp.col[j].entries
      PROVE  LET old == lp.col[j].entries[p]
             IN  Entry(<<j, p>>) = [idx |-> constraint_new_idx(old.idx),
                                    val |-> Unit * Sign(old.idx) * old.val]
  BY DEF Entry
<1>2. ASSUME NEW j \in SlackCols
      PROVE  Entry(<<j, 1>>) = [idx |-> constraint_new_idx(SlackRow(j)), val |-> -Unit]
  <2>1. j \notin Cols
    BY SlackRows
  <2>2. QED
    BY <2>1 DEF Entry
<1>3. \A r \in Rows : constraint_new_idx(r) \in Rows
  BY Places, Shape
<1>4. Unit \in Int
  BY UnitsAssumption
<1>5. ASSUME NEW e \in Nonzeros
      PROVE  /\ e = <<e[1], e[2]>> /\ e[1] \in Columns /\ e[2] \in Nat
             /\ Entry(e).idx \in Rows /\ Entry(e).val \in Int
             /\ \E v \in Int : Entry(e).val = Unit * v
  <2>1. CASE \E j \in Cols : \E p \in DOMAIN lp.col[j].entries : e = <<j, p>>
    <3>1. PICK j \in Cols : \E p \in DOMAIN lp.col[j].entries : e = <<j, p>>
      BY <2>1
    <3>2. PICK p \in DOMAIN lp.col[j].entries : e = <<j, p>>
      BY <3>1
    <3> DEFINE old == lp.col[j].entries[p]
    <3>3. old.idx \in Rows /\ old.val \in Int /\ p \in Nat
      BY ColumnOf
    <3>4. Entry(e) = [idx |-> constraint_new_idx(old.idx), val |-> Unit * Sign(old.idx) * old.val]
      BY <1>1, <3>2
    <3> HIDE DEF old
    <3>5. Sign(old.idx) \in Int
      BY Signs
    <3>6. Sign(old.idx) * old.val \in Int
      BY <3>3, <3>5
    <3>7. /\ Unit * Sign(old.idx) * old.val = Unit * (Sign(old.idx) * old.val)
          /\ Unit * Sign(old.idx) * old.val \in Int
      BY <1>4, <3>3, <3>5
    <3>8. j \in Columns
      BY SlackRows
    <3>9. QED
      BY <1>3, <3>2, <3>3, <3>4, <3>6, <3>7, <3>8
  <2>2. CASE \E j \in SlackCols : e = <<j, 1>>
    <3>1. PICK j \in SlackCols : e = <<j, 1>>
      BY <2>2
    <3>2. Entry(e) = [idx |-> constraint_new_idx(SlackRow(j)), val |-> -Unit]
      BY <1>2, <3>1
    <3>3. SlackRow(j) \in Rows /\ j \in Columns
      BY SlackRows
    <3>4. -Unit = Unit * (-1) /\ -Unit \in Int
      BY <1>4
    <3>5. QED
      BY <1>3, <3>1, <3>2, <3>3, <3>4
  <2>3. QED
    BY <2>1, <2>2, NonzerosAre
<1>6. QED
  BY <1>1, <1>2, <1>5

(* The order of the entries is one, and so is the matrix they make.        *)
LEMMA CscInLine ==
  ASSUME lp \in Models
  PROVE  InLine(CscOrder, Nonzeros)
<1> DEFINE late(e) == Entry(e).idx >= nEqs
           B(e, f) == \/ e[1] < f[1]
                      \/ e[1] = f[1] /\ ~late(e) /\ late(f)
                      \/ e[1] = f[1] /\ (late(e) <=> late(f)) /\ e[2] < f[2]
<1>1. \A e \in Nonzeros : e = <<e[1], e[2]>> /\ e[1] \in Int /\ e[2] \in Int
  BY EntryOf DEF Columns
<1>2. \A e, f \in Nonzeros : <<e, f>> \in CscOrder <=> B(e, f)
  BY DEF CscOrder
<1> HIDE DEF late
<1>3. \A e \in Nonzeros : <<e, e>> \notin CscOrder
  BY <1>1, <1>2
<1>4. ASSUME NEW e \in Nonzeros, NEW f \in Nonzeros, e # f
      PROVE  <<e, f>> \in CscOrder \/ <<f, e>> \in CscOrder
  <2>1. e[1] # f[1] \/ e[2] # f[2]
    BY <1>1, <1>4
  <2>2. /\ e[1] \in Int /\ e[2] \in Int /\ f[1] \in Int /\ f[2] \in Int
    BY <1>1
  <2>3. B(e, f) \/ B(f, e)
    BY <2>1, <2>2
  <2> HIDE DEF B
  <2>4. QED
    BY <1>2, <2>3
<1>5. ASSUME NEW e \in Nonzeros, NEW f \in Nonzeros, NEW g \in Nonzeros,
             <<e, f>> \in CscOrder, <<f, g>> \in CscOrder
      PROVE  <<e, g>> \in CscOrder
  <2>1. /\ e[1] \in Int /\ e[2] \in Int /\ f[1] \in Int /\ f[2] \in Int
        /\ g[1] \in Int /\ g[2] \in Int
    BY <1>1
  <2>2. B(e, f) /\ B(f, g)
    BY <1>2, <1>5
  <2>3. B(e, g)
    BY <2>1, <2>2
  <2> HIDE DEF B
  <2>4. QED
    BY <1>2, <2>3
<1>6. QED
  BY <1>3, <1>4, <1>5 DEF InLine

-----------------------------------------------------------------------------
(* The order of the entries, and which column and row each place of the    *)
(* sequence is in.                                                         *)
Order == InOrder(Nonzeros, CscOrder)
Count == Cardinality(Nonzeros)
Column(k) == Order[k][1]
RowOf(k) == Entry(Order[k]).idx

(* The order lists every entry once.                                       *)
LEMMA OrderLists ==
  ASSUME lp \in Models
  PROVE  /\ Count \in Nat /\ DOMAIN Order = 1..Count /\ IsFiniteSet(1..Count)
         /\ \A k \in 1..Count : /\ Order[k] \in Nonzeros
                               /\ Column(k) \in Columns /\ RowOf(k) \in Rows
                               /\ Cardinality(Ahead(Order[k], CscOrder, Nonzeros)) = k - 1
         /\ \A k, l \in 1..Count : k # l => Order[k] # Order[l]
         /\ \A e \in Nonzeros : \E k \in 1..Count : Order[k] = e
<1>1. IsFiniteSet(Nonzeros) /\ InLine(CscOrder, Nonzeros)
  BY NonzerosAre, CscInLine
<1>2. /\ DOMAIN Order = 1..Cardinality(Nonzeros)
      /\ \A k \in 1..Cardinality(Nonzeros) :
           Order[k] = CHOOSE e \in Nonzeros : Cardinality(Ahead(e, CscOrder, Nonzeros)) = k - 1
  BY DEF Order, InOrder, Ahead
<1>3. Lists(Order, CscOrder, Nonzeros)
  BY <1>1, <1>2, InLineIsList
<1>4. ASSUME NEW k \in 1..Count PROVE Column(k) \in Columns /\ RowOf(k) \in Rows
  BY <1>3, EntryOf DEF Column, RowOf, Lists, Count
<1>5. IsFiniteSet(1..Count)
  BY <1>3, FS_Interval DEF Lists, Count
<1>6. QED
  BY <1>3, <1>4, <1>5 DEF Lists, Count

(* What csc is, and that beg counts its entries and finds their column.    *)
LEMMA CscIs ==
  ASSUME lp \in Models
  PROVE  /\ csc = [beg |-> [j \in 0..nCols |-> csc_beg(j)],
                    elem |-> [k \in 1..Count |-> Entry(Order[k])]]
         /\ csc_beg(nCols) = Count
         /\ \A m : DOMAIN m.elem = 1..Count /\ m.beg = csc.beg =>
              Major(m) = [p \in 1..Count |-> Column(p)]
<1>1. csc = [beg |-> [j \in 0..nCols |-> csc_beg(j)],
             elem |-> [k \in 1..Count |-> Entry(Order[k])]]
  BY OrderLists DEF csc, Order
<1>2. csc_beg(nCols) = Count
  <2>1. \A e \in Nonzeros : e[1] < nCols
    BY EntryOf, Kinds DEF Columns
  <2>2. {e \in Nonzeros : e[1] < nCols} = Nonzeros
    BY <2>1
  <2>3. QED
    BY <2>2, Zenon DEF csc_beg, Count
<1>3. ASSUME NEW m, DOMAIN m.elem = 1..Count, m.beg = csc.beg
      PROVE  Major(m) = [p \in 1..Count |-> Column(p)]
  <2> DEFINE g == [e \in Nonzeros |-> e[1]]
             beg == [j \in 0..nCols |-> csc_beg(j)]
  <2>1. DOMAIN m.beg = 0..nCols /\ m.beg = beg
    BY <1>1, <1>3
  <2>2. IsFiniteSet(Nonzeros) /\ InLine(CscOrder, Nonzeros) /\ nCols \in Nat
    BY NonzerosAre, CscInLine, Kinds
  <2>3. \A e \in Nonzeros : g[e] \in 0..(nCols - 1)
    BY EntryOf DEF Columns
  <2>4. \A e, f \in Nonzeros : <<e, f>> \in CscOrder => g[e] <= g[f]
    <3> SUFFICES ASSUME NEW e \in Nonzeros, NEW f \in Nonzeros, <<e, f>> \in CscOrder
                 PROVE  g[e] <= g[f]
      OBVIOUS
    <3>1. e[1] < f[1] \/ e[1] = f[1]
      BY DEF CscOrder
    <3>2. g[e] = e[1] /\ g[f] = f[1] /\ g[e] \in Int /\ g[f] \in Int
      BY <2>3
    <3>3. QED
      BY <3>1, <3>2
  <2>5. \A k \in 0..nCols : beg[k] = Cardinality(Under(k, g, Nonzeros))
    <3> SUFFICES ASSUME NEW k \in 0..nCols PROVE beg[k] = Cardinality(Under(k, g, Nonzeros))
      OBVIOUS
    <3>1. Under(k, g, Nonzeros) = {e \in Nonzeros : e[1] < k}
      BY DEF Under
    <3>2. beg[k] = Cardinality({e \in Nonzeros : e[1] < k})
      BY DEF csc_beg
    <3>3. QED
      BY <3>1, <3>2, Zenon
  <2> HIDE DEF g, beg
  <2>6. Grouped(CscOrder, Nonzeros, nCols, g, beg)
    BY <2>2, <2>3, <2>4, <2>5 DEF Grouped
  <2>7. ASSUME NEW p \in 1..Count
        PROVE  Column(p) = CHOOSE k \in DOMAIN m.beg : m.beg[k] < p /\ p <= m.beg[k + 1]
    <3>1. /\ Order[p] \in Nonzeros /\ p \in Nat
          /\ Cardinality(Ahead(Order[p], CscOrder, Nonzeros)) = p - 1
      BY OrderLists
    <3>2. g[Order[p]] = Column(p)
      BY <3>1 DEF g, Column
    <3> DEFINE o == Order[p]
    <3>3. o \in Nonzeros /\ Cardinality(Ahead(o, CscOrder, Nonzeros)) = p - 1
      BY <3>1
    <3> HIDE DEF o
    <3>4. /\ g[o] \in 0..nCols /\ beg[g[o]] < p /\ p <= beg[g[o] + 1]
          /\ \A l \in 0..nCols : beg[l] < p /\ p <= beg[l + 1] => l = g[o]
      BY <2>6, <3>1, <3>3, GroupOfPlace
    <3>5. g[o] = CHOOSE k \in 0..nCols : beg[k] < p /\ p <= beg[k + 1]
      BY <3>4
    <3>6. QED
      BY <2>1, <3>2, <3>5 DEF o
  <2>8. Major(m) = [p \in 1..Count |->
                     CHOOSE k \in DOMAIN m.beg : m.beg[k] < p /\ p <= m.beg[k + 1]]
    BY <1>3 DEF Major
  <2>9. QED
    BY <2>7, <2>8
<1>4. QED
  BY <1>1, <1>2, <1>3

-----------------------------------------------------------------------------
(* cupdlp_dcs_transpose of a matrix with the entries of csc, whatever      *)
(* their values: Sorted lists its places row by row.                       *)
SameEntries(m) ==
  /\ m.beg = csc.beg /\ DOMAIN m.elem = 1..Count
  /\ \A k \in 1..Count : m.elem[k].idx = RowOf(k) /\ m.elem[k].val \in Int

Sorted(m) == InOrder(1..Count, RowOrder(m))

(* cupdlp_dcs_transpose lists the entries of a matrix row by row, each     *)
(* once, and counts them.                                                  *)
LEMMA TransposeIs ==
  ASSUME lp \in Models, NEW m, SameEntries(m)
  PROVE  LET t == transpose(m, nRows)
             s == Sorted(m)
         IN /\ DOMAIN s = 1..Count /\ \A k \in 1..Count : s[k] \in 1..Count
            /\ \A k, l \in 1..Count : k # l => s[k] # s[l]
            /\ \A e \in 1..Count : \E k \in 1..Count : s[k] = e
            /\ t.beg[nRows] = Count
            /\ t.elem = [k \in 1..Count |-> [idx |-> Column(s[k]), val |-> m.elem[s[k]].val]]
            /\ Major(t) = [k \in 1..Count |-> RowOf(s[k])]
<1> DEFINE t == transpose(m, nRows)
           s == Sorted(m)
           K == 1..Count
           R == RowOrder(m)
           g == [k \in K |-> RowOf(k)]
           beg == [r \in 0..nRows |-> Cardinality(Under(r, g, K))]
<1>1. /\ Count \in Nat /\ IsFiniteSet(K) /\ Cardinality(K) = Count /\ nRows \in Nat
      /\ \A k \in K : RowOf(k) \in 0..(nRows - 1)
      /\ \A k \in K : m.elem[k].idx = RowOf(k) /\ k \in Int /\ RowOf(k) \in Int
      /\ DOMAIN m.elem = K
  <2>1. Count \in Nat /\ nRows \in Nat /\ Rows = 0..(nRows - 1)
    BY OrderLists, Shape
  <2>2. IsFiniteSet(K) /\ Cardinality(K) = Count
    <3>1. Cardinality(1..Count) = IF 1 > Count THEN 0 ELSE Count - 1 + 1
      BY <2>1, FS_Interval
    <3>2. QED
      BY <2>1, <3>1, FS_Interval
  <2>3. \A k \in K : RowOf(k) \in 0..(nRows - 1)
    BY <2>1, OrderLists
  <2>4. \A k \in K : m.elem[k].idx = RowOf(k) /\ k \in Int /\ RowOf(k) \in Int
    BY <2>1, <2>3 DEF SameEntries
  <2>5. QED
    BY <2>1, <2>2, <2>3, <2>4 DEF SameEntries
<1>2. ASSUME NEW k \in K, NEW l \in K
      PROVE  <<k, l>> \in R <=> RowOf(k) < RowOf(l) \/ (RowOf(k) = RowOf(l) /\ k < l)
  BY <1>1 DEF RowOrder
<1>3. InLine(R, K)
  <2> HIDE DEF R, K
  <2>1. \A k \in K : <<k, k>> \notin R
    BY <1>1, <1>2
  <2>2. \A k, l \in K : k # l => <<k, l>> \in R \/ <<l, k>> \in R
    BY <1>1, <1>2
  <2>3. ASSUME NEW k \in K, NEW l \in K, NEW q \in K, <<k, l>> \in R, <<l, q>> \in R
        PROVE  <<k, q>> \in R
    <3>1. /\ k \in Int /\ l \in Int /\ q \in Int
          /\ RowOf(k) \in Int /\ RowOf(l) \in Int /\ RowOf(q) \in Int
      BY <1>1
    <3>2. /\ RowOf(k) < RowOf(l) \/ (RowOf(k) = RowOf(l) /\ k < l)
          /\ RowOf(l) < RowOf(q) \/ (RowOf(l) = RowOf(q) /\ l < q)
      BY <1>2, <2>3
    <3>3. RowOf(k) < RowOf(q) \/ (RowOf(k) = RowOf(q) /\ k < q)
      BY <3>1, <3>2
    <3>4. QED
      BY <1>2, <3>3
  <2>4. QED
    BY <2>1, <2>2, <2>3 DEF InLine
<1>4. /\ DOMAIN s = 1..Cardinality(K)
      /\ \A k \in 1..Cardinality(K) :
           s[k] = CHOOSE e \in K : Cardinality(Ahead(e, R, K)) = k - 1
  BY DEF Sorted, InOrder, Ahead
<1> HIDE DEF s, R
<1>5. Lists(s, R, K)
  <2> HIDE DEF K
  <2>1. QED
    BY <1>1, <1>3, <1>4, InLineIsList
<1>6. /\ DOMAIN s = K /\ \A k \in K : s[k] \in K /\ Cardinality(Ahead(s[k], R, K)) = k - 1
      /\ \A k, l \in K : k # l => s[k] # s[l]
      /\ \A e \in K : \E k \in K : s[k] = e
  BY <1>1, <1>5 DEF Lists
<1>7. ASSUME NEW r \in 0..nRows
      PROVE  Cardinality({p \in DOMAIN m.elem : m.elem[p].idx < r}) = beg[r]
  <2>1. {p \in DOMAIN m.elem : m.elem[p].idx < r} = Under(r, g, K)
    BY <1>1 DEF Under
  <2>2. beg[r] = Cardinality(Under(r, g, K))
    OBVIOUS
  <2>3. QED
    BY <2>1, <2>2, Zenon
<1>8. m.beg = csc.beg /\ Major(m) = [p \in 1..Count |-> Column(p)]
  BY CscIs DEF SameEntries
<1>9. /\ t.beg = [r \in 0..nRows |-> Cardinality({p \in DOMAIN m.elem : m.elem[p].idx < r})]
      /\ t.elem = [k \in DOMAIN s |-> [idx |-> Major(m)[s[k]], val |-> m.elem[s[k]].val]]
  <2>1. DOMAIN m.elem = 1..Count
    BY DEF SameEntries
  <2>2. s = InOrder(DOMAIN m.elem, RowOrder(m))
    BY <2>1, Zenon DEF s, Sorted
  <2>3. QED
    BY <2>2 DEF transpose
<1>10. t.beg = beg /\ t.elem = [k \in K |-> [idx |-> Column(s[k]), val |-> m.elem[s[k]].val]]
  <2> HIDE DEF t
  <2>1. t.beg = beg
    BY <1>7, <1>9
  <2> HIDE DEF K, beg
  <2>2. \A k \in K : Major(m)[s[k]] = Column(s[k])
    BY <1>6, <1>8 DEF K
  <2>3. t.elem = [k \in K |-> [idx |-> Column(s[k]), val |-> m.elem[s[k]].val]]
    BY <1>6, <1>9, <2>2
  <2>4. QED
    BY <2>1, <2>3
<1>11. beg[nRows] = Count
  <2>1. Under(nRows, g, K) = K
    BY <1>1 DEF Under
  <2>2. Cardinality(Under(nRows, g, K)) = Cardinality(K)
    BY <2>1, Zenon
  <2>3. QED
    BY <1>1, <2>2
<1>12. Grouped(R, K, nRows, g, beg)
  <2>1. ASSUME NEW k \in K, NEW l \in K, <<k, l>> \in R PROVE g[k] <= g[l]
    <3>1. RowOf(k) < RowOf(l) \/ (RowOf(k) = RowOf(l) /\ k < l)
      BY <1>2, <2>1
    <3>2. g[k] = RowOf(k) /\ g[l] = RowOf(l) /\ RowOf(k) \in Int /\ RowOf(l) \in Int
      BY <1>1
    <3> HIDE DEF g
    <3>3. QED
      BY <3>1, <3>2
  <2>2. \A k \in K : g[k] \in 0..(nRows - 1)
    BY <1>1
  <2>3. \A k \in 0..nRows : beg[k] = Cardinality(Under(k, g, K))
    OBVIOUS
  <2> HIDE DEF g, K, beg
  <2>4. QED
    BY <1>1, <1>3, <2>1, <2>2, <2>3 DEF Grouped
<1>13. Major(t) = [k \in K |-> RowOf(s[k])]
  <2>1. DOMAIN t.beg = 0..nRows /\ DOMAIN t.elem = K
    BY <1>10
  <2>2. Major(t) = [k \in K |-> CHOOSE l \in 0..nRows : beg[l] < k /\ k <= beg[l + 1]]
    BY <1>10, <2>1 DEF Major
  <2>3. ASSUME NEW k \in K
        PROVE  RowOf(s[k]) = CHOOSE l \in 0..nRows : beg[l] < k /\ k <= beg[l + 1]
    <3> DEFINE o == s[k]
    <3>1. o \in K /\ k \in Nat /\ Cardinality(Ahead(o, R, K)) = k - 1 /\ g[o] = RowOf(o)
      <4>1. o \in K /\ Cardinality(Ahead(o, R, K)) = k - 1
        <5> HIDE DEF K
        <5>1. QED
          BY <1>6
      <4>2. g[o] = RowOf(o)
        BY <4>1
      <4>3. k \in Nat
        BY <1>1
      <4>4. QED
        BY <4>1, <4>2, <4>3
    <3> HIDE DEF o, g, beg, K
    <3>2. /\ g[o] \in 0..nRows /\ beg[g[o]] < k /\ k <= beg[g[o] + 1]
          /\ \A l \in 0..nRows : beg[l] < k /\ k <= beg[l + 1] => l = g[o]
      BY <1>12, <3>1, GroupOfPlace
    <3>3. g[o] = CHOOSE l \in 0..nRows : beg[l] < k /\ k <= beg[l + 1]
      BY <3>2
    <3>4. QED
      BY <3>1, <3>3 DEF o
  <2>4. QED
    BY <2>2, <2>3
<1>14. t.beg[nRows] = Count
  BY <1>10, <1>11
<1>15. QED
  BY <1>6, <1>10, <1>13, <1>14 DEF t, s

-----------------------------------------------------------------------------
(* The sums that the matrix and the program take are sums of functions.    *)
Hits(m, r)  == {p \in DOMAIN m.elem : m.elem[p].idx = r}
Terms(m, v) == [p \in DOMAIN m.elem |-> m.elem[p].val * v[Major(m)[p]]]

(* What ScatterCol and ScatterRow add up in a place is such a sum.         *)
LEMMA ScatterIs ==
  ASSUME NEW m, NEW v, NEW n0, NEW r \in 0..(n0 - 1), IsFiniteSet(DOMAIN m.elem)
  PROVE  Scatter(m, v, n0)[r] = SumOf(Terms(m, v), Hits(m, r))
<1> DEFINE f == [p \in DOMAIN m.elem |-> m.elem[p].val * v[Major(m)[p]]]
           P == {p \in DOMAIN m.elem : m.elem[p].idx = r}
           F(g, s) == IF s = {} THEN 0
                      ELSE LET x == CHOOSE x \in s : TRUE
                           IN (m.elem[x].val * v[Major(m)[x]]) + g[s \ {x}]
           c == CHOOSE g : g = [s \in SUBSET P |-> F(g, s)]
<1>1. Scatter(m, v, n0)[r] = c[P]
  BY DEF Scatter, MapThenSumSet, MapThenFoldSet
<1>2. IsFiniteSet(P)
  BY FS_Subset
<1>3. ASSUME NEW g, NEW s \in SUBSET P
      PROVE  F(g, s) = IF s = {} THEN 0
                       ELSE LET x == CHOOSE x \in s : TRUE IN f[x] + g[s \ {x}]
  <2>1. s # {} => (CHOOSE x \in s : TRUE) \in DOMAIN m.elem
    OBVIOUS
  <2>2. QED
    BY <2>1
<1>4. PICK g : SumsOver(g, f, P)
  BY <1>2, SumsExist
<1> HIDE DEF F, f, P
<1>5. g = [s \in SUBSET P |-> F(g, s)]
  BY <1>3, <1>4 DEF SumsOver
<1>6. c = [s \in SUBSET P |-> F(c, s)]
  BY <1>5
<1> HIDE DEF c
<1>7. SumsOver(c, f, P)
  BY <1>3, <1>6 DEF SumsOver
<1>8. PICK h : SumsOver(h, f, P) /\ SumOf(f, P) = h[P]
  BY <1>2, SumIsChosen DEF SumOf
<1>9. c[P] = h[P]
  BY <1>2, <1>7, <1>8, SumsAgree
<1>10. QED
  BY <1>1, <1>8, <1>9 DEF f, P, Hits, Terms

(* So is what a column has in a row,                                       *)
LEMMA CoefficientIs ==
  ASSUME lp \in Models, NEW r, NEW j \in Cols
  PROVE  LET s == lp.col[j].entries
         IN  Coefficient(r, j) =
               SumOf([p \in DOMAIN s |-> s[p].val], {p \in DOMAIN s : s[p].idx = r})
<1> DEFINE e == lp.col[j].entries
           f == [p \in DOMAIN e |-> e[p].val]
           P == {p \in DOMAIN e : e[p].idx = r}
           F(g, s) == IF s = {} THEN 0
                      ELSE LET x == CHOOSE x \in s : TRUE IN e[x].val + g[s \ {x}]
           c == CHOOSE g : g = [s \in SUBSET P |-> F(g, s)]
<1>1. Coefficient(r, j) = c[P]
  BY DEF Coefficient, MapThenSumSet, MapThenFoldSet
<1>2. IsFiniteSet(P)
  BY ColumnOf, FS_Subset
<1>3. ASSUME NEW g, NEW s \in SUBSET P
      PROVE  F(g, s) = IF s = {} THEN 0
                       ELSE LET x == CHOOSE x \in s : TRUE IN f[x] + g[s \ {x}]
  <2>1. s # {} => (CHOOSE x \in s : TRUE) \in DOMAIN e
    OBVIOUS
  <2>2. QED
    BY <2>1
<1>4. PICK g : SumsOver(g, f, P)
  BY <1>2, SumsExist
<1> HIDE DEF F, f, P
<1>5. g = [s \in SUBSET P |-> F(g, s)]
  BY <1>3, <1>4 DEF SumsOver
<1>6. c = [s \in SUBSET P |-> F(c, s)]
  BY <1>5
<1> HIDE DEF c
<1>7. SumsOver(c, f, P)
  BY <1>3, <1>6 DEF SumsOver
<1>8. PICK h : SumsOver(h, f, P) /\ SumOf(f, P) = h[P]
  BY <1>2, SumIsChosen DEF SumOf
<1>9. c[P] = h[P]
  BY <1>2, <1>7, <1>8, SumsAgree
<1>10. QED
  BY <1>1, <1>8, <1>9 DEF f, P

(* and the value of a row.                                                 *)
LEMMA ActivityIs ==
  ASSUME lp \in Models, NEW r, NEW x
  PROVE  Activity(r, x) = SumOf([j \in Cols |-> Coefficient(r, j) * x[j]], Cols)
BY DEF Activity, SumFunction, SumOf

-----------------------------------------------------------------------------
(* The entries in a row and in a column, and what they add up to: of a     *)
(* point in a row, of multipliers in a column.                             *)
InRow(r) == {e \in Nonzeros : Entry(e).idx = r}
InColumn(j) == {e \in Nonzeros : e[1] = j}
RowTerm(v) == [e \in Nonzeros |-> Entry(e).val * v[e[1]]]
ColTerm(v) == [e \in Nonzeros |-> Entry(e).val * v[Entry(e).idx]]
RowSum(r, v) == SumOf(RowTerm(v), InRow(r))
ColSum(j, v) == SumOf(ColTerm(v), InColumn(j))

OfRow(r, j) == {p \in DOMAIN lp.col[j].entries : lp.col[j].entries[p].idx = r}
Values(j) == [p \in DOMAIN lp.col[j].entries |-> lp.col[j].entries[p].val]

(* The entry of the standard form for one of the program.                  *)
LEMMA EntryAt ==
  ASSUME lp \in Models, NEW j \in Cols, NEW p \in DOMAIN lp.col[j].entries
  PROVE  /\ Entry(<<j, p>>).idx = constraint_new_idx(lp.col[j].entries[p].idx)
         /\ Entry(<<j, p>>).val = Unit * Sign(lp.col[j].entries[p].idx) * lp.col[j].entries[p].val
<1> DEFINE old == lp.col[j].entries[p]
<1>1. Entry(<<j, p>>)
        = [idx |-> constraint_new_idx(old.idx), val |-> Unit * Sign(old.idx) * old.val]
  BY EntryOf
<1> HIDE DEF old
<1>2. /\ Entry(<<j, p>>).idx = constraint_new_idx(old.idx)
      /\ Entry(<<j, p>>).val = Unit * Sign(old.idx) * old.val
  BY <1>1
<1>3. QED
  BY <1>2 DEF old

(* A coefficient is an integer, a sum over finitely many entries.          *)
LEMMA Coefficients ==
  ASSUME lp \in Models, NEW r, NEW j \in Cols
  PROVE  /\ Coefficient(r, j) = SumOf(Values(j), OfRow(r, j)) /\ Coefficient(r, j) \in Int
         /\ IsFiniteSet(OfRow(r, j))
         /\ \A p \in OfRow(r, j) : Values(j)[p] \in Int /\ p \in DOMAIN lp.col[j].entries
<1>1. Coefficient(r, j) = SumOf(Values(j), OfRow(r, j))
  BY CoefficientIs, Zenon DEF OfRow, Values
<1>2. IsFiniteSet(OfRow(r, j))
  BY ColumnOf, FS_Subset DEF OfRow
<1>3. \A p \in OfRow(r, j) : Values(j)[p] \in Int /\ p \in DOMAIN lp.col[j].entries
  BY ColumnOf DEF OfRow, Values
<1>4. SumOf(Values(j), OfRow(r, j)) \in Int
  BY <1>2, <1>3, SumFacts
<1>5. QED
  BY <1>1, <1>2, <1>3, <1>4

(* The value of a row at integers is an integer.                           *)
LEMMA Activities ==
  ASSUME lp \in Models, NEW r, NEW v, \A j \in Cols : v[j] \in Int
  PROVE  Activity(r, v) \in Int
<1> DEFINE f == [j \in Cols |-> Coefficient(r, j) * v[j]]
<1>1. \A j \in Cols : f[j] \in Int
  BY Coefficients
<1>2. Activity(r, v) = SumOf(f, Cols)
  BY ActivityIs
<1> HIDE DEF f
<1>3. QED
  BY <1>1, <1>2, Shape, SumFacts

(* The places in column j of the entries of row r add up to a multiple of  *)
(* the coefficient, for terms that are that multiple of the values.        *)
LEMMA PlacesAddUp ==
  ASSUME lp \in Models, NEW r, NEW j \in Cols, NEW w, NEW a \in Int, NEW W,
         W = {<<j, p>> : p \in OfRow(r, j)},
         \A p \in OfRow(r, j) : w[<<j, p>>] = a * Values(j)[p]
  PROVE  SumOf(w, W) = a * Coefficient(r, j)
<1> DEFINE P == OfRow(r, j)
           b == [p \in P |-> <<j, p>>]
           f == [p \in P |-> w[<<j, p>>]]
<1>1. IsFiniteSet(P) /\ \A p \in P : Values(j)[p] \in Int /\ f[p] = a * Values(j)[p]
  BY Coefficients
<1>2. \A p \in P : f[p] \in Int /\ f[p] = w[b[p]]
  BY <1>1
<1>3. \A p, q \in P : p # q => b[p] # b[q]
  OBVIOUS
<1>4. {b[p] : p \in P} = W
  OBVIOUS
<1> HIDE DEF f, b, P
<1>5. SumOf(f, P) = a * SumOf(Values(j), P)
  BY <1>1, SumScaled
<1>6. SumOf(f, P) = SumOf(w, {b[p] : p \in P})
  BY <1>1, <1>2, <1>3, SumRenamed
<1>7. SumOf(w, {b[p] : p \in P}) = SumOf(w, W)
  BY <1>4, Zenon
<1>8. QED
  BY <1>5, <1>6, <1>7, Coefficients DEF P

(* A row of the matrix at a point: the row of the program with its sign,   *)
(* less the slack.                                                         *)
LEMMA RowSumIs ==
  ASSUME lp \in Models, NEW v \in [Columns -> Int], NEW r \in Rows
  PROVE  RowSum(constraint_new_idx(r), v) =
           (Unit * Sign(r)) * Activity(r, v) - (IF r \in Bound THEN Unit * v[Slack(r)] ELSE 0)
<1> DEFINE w == RowTerm(v)
           S == InRow(constraint_new_idx(r))
           g == [e \in Nonzeros |-> e[1]]
           F(j) == Fibre(j, g, S)
           h == [j \in Columns |-> SumOf(w, F(j))]
           a == Unit * Sign(r)
<1>0. a \in Int /\ Unit \in Int
  BY UnitsAssumption, Signs
<1>1. /\ IsFiniteSet(S) /\ IsFiniteSet(Columns) /\ IsFiniteSet(Cols) /\ IsFiniteSet(SlackCols)
      /\ Columns = Cols \cup SlackCols /\ Cols \cap SlackCols = {}
      /\ \A j \in Columns : v[j] \in Int
  BY NonzerosAre, FS_Subset, SlackRows, Shape DEF InRow
<1>2. \A e \in S : e \in Nonzeros /\ w[e] \in Int /\ g[e] \in Columns
  BY EntryOf DEF InRow, RowTerm
<1>3. \A j \in Columns : h[j] = SumOf(w, F(j))
  OBVIOUS
<1>4. SumOf(w, S) = SumOf(h, Columns) /\ \A j \in Columns : h[j] \in Int
  <2> HIDE DEF w, S, g, h
  <2>1. QED
    BY <1>1, <1>2, <1>3, SumFibres
<1> USE DEF Fibre
<1>5. ASSUME NEW j \in Cols PROVE h[j] = a * (Coefficient(r, j) * v[j])
  <2>1. ASSUME NEW p \in DOMAIN lp.col[j].entries
        PROVE  /\ <<j, p>> \in Nonzeros
               /\ <<j, p>> \in S <=> p \in OfRow(r, j)
    <3>1. lp.col[j].entries[p].idx \in Rows
      BY ColumnOf
    <3>2. Entry(<<j, p>>).idx = constraint_new_idx(lp.col[j].entries[p].idx)
      BY EntryAt
    <3>3. Entry(<<j, p>>).idx = constraint_new_idx(r) <=> lp.col[j].entries[p].idx = r
      BY <3>1, <3>2, Places
    <3>4. <<j, p>> \in Nonzeros
      BY NonzerosAre
    <3>5. QED
      BY <3>3, <3>4 DEF InRow, OfRow
  <2>2. F(j) = {<<j, p>> : p \in OfRow(r, j)}
    <3>1. ASSUME NEW e \in F(j) PROVE \E p \in OfRow(r, j) : e = <<j, p>>
      <4>1. e \in Nonzeros /\ e[1] = j /\ e \in S
        BY <1>2
      <4>2. j \notin SlackCols
        BY <1>1
      <4>3. PICK p \in DOMAIN lp.col[j].entries : e = <<j, p>>
        BY <4>1, <4>2, NonzerosAre
      <4>4. QED
        BY <2>1, <4>1, <4>3
    <3>2. ASSUME NEW p \in OfRow(r, j) PROVE <<j, p>> \in F(j)
      <4>1. p \in DOMAIN lp.col[j].entries
        BY DEF OfRow
      <4>2. <<j, p>> \in S /\ g[<<j, p>>] = j
        BY <2>1, <4>1
      <4>3. QED
        BY <4>2
    <3> HIDE DEF F
    <3>3. QED
      BY <3>1, <3>2
  <2>3. ASSUME NEW p \in OfRow(r, j) PROVE w[<<j, p>>] = (a * v[j]) * Values(j)[p]
    <3>1. p \in DOMAIN lp.col[j].entries /\ lp.col[j].entries[p].idx = r
      BY DEF OfRow
    <3>2. Entry(<<j, p>>).val = a * Values(j)[p] /\ <<j, p>> \in Nonzeros
      BY <2>1, <3>1, EntryAt DEF Values
    <3>3. w[<<j, p>>] = (a * Values(j)[p]) * v[j]
      BY <3>2 DEF RowTerm
    <3>4. Values(j)[p] \in Int /\ v[j] \in Int
      BY <1>1, Coefficients
    <3> HIDE DEF a
    <3>5. QED
      BY <1>0, <3>3, <3>4
  <2>4. v[j] \in Int /\ j \in Columns
    BY <1>1
  <2>5. h[j] = SumOf(w, F(j))
    BY <2>4
  <2>6. a * v[j] \in Int
    BY <1>0, <2>4
  <2> HIDE DEF h, w, F, a
  <2>7. SumOf(w, F(j)) = (a * v[j]) * Coefficient(r, j)
    BY <2>2, <2>3, <2>6, PlacesAddUp
  <2>8. Coefficient(r, j) \in Int
    BY Coefficients
  <2>9. QED
    BY <1>0, <2>4, <2>5, <2>7, <2>8
<1>6. ASSUME NEW j \in SlackCols
      PROVE  h[j] = IF SlackRow(j) = r THEN -(Unit * v[j]) ELSE 0
  <2>1. /\ Entry(<<j, 1>>) = [idx |-> constraint_new_idx(SlackRow(j)), val |-> -Unit]
        /\ SlackRow(j) \in Rows /\ <<j, 1>> \in Nonzeros /\ j \notin Cols /\ j \in Columns
    BY <1>1, EntryOf, SlackRows, NonzerosAre
  <2>2. <<j, 1>> \in S <=> SlackRow(j) = r
    BY <2>1, Places DEF InRow
  <2>3. \A e \in F(j) : e = <<j, 1>>
    BY <1>2, <2>1, NonzerosAre
  <2>4. h[j] = SumOf(w, F(j))
    BY <2>1
  <2>5. CASE SlackRow(j) = r
    <3>1. <<j, 1>> \in F(j)
      BY <2>1, <2>2, <2>5
    <3>2. F(j) = {<<j, 1>>}
      BY <2>3, <3>1
    <3>3. w[<<j, 1>>] = (-Unit) * v[j]
      BY <2>1 DEF RowTerm
    <3>4. v[j] \in Int
      BY <1>1, <2>1
    <3>5. (-Unit) * v[j] = -(Unit * v[j]) /\ (-Unit) * v[j] \in Int
      BY <1>0, <3>4
    <3>6. IsFiniteSet(F(j)) /\ w[<<j, 1>>] \in Int
      BY <3>2, <3>3, <3>5, FS_Singleton
    <3> HIDE DEF w, F
    <3>7. SumOf(w, F(j)) = w[<<j, 1>>]
      BY <2>3, <3>1, <3>6, SumAt
    <3>8. QED
      BY <2>4, <2>5, <3>3, <3>5, <3>7
  <2>6. CASE SlackRow(j) # r
    <3>1. F(j) = {}
      BY <2>2, <2>3, <2>6
    <3> HIDE DEF F, w
    <3>2. SumOf(w, F(j)) = 0
      BY <3>1, SumEmpty
    <3>3. QED
      BY <2>4, <2>6, <3>2
  <2>7. QED
    BY <2>5, <2>6
<1> HIDE DEF h, w, S, g, F
<1>7. SumOf(h, Columns) = SumOf(h, Cols) + SumOf(h, SlackCols)
  <2>1. \A j \in Cols \cup SlackCols : h[j] \in Int
    BY <1>1, <1>4
  <2>2. SumOf(h, Cols \cup SlackCols) = SumOf(h, Cols) + SumOf(h, SlackCols)
    BY <1>1, <2>1, SumUnion
  <2>3. SumOf(h, Columns) = SumOf(h, Cols \cup SlackCols)
    BY <1>1, Zenon
  <2>4. QED
    BY <2>2, <2>3
<1>8. SumOf(h, Cols) = a * Activity(r, v)
  <2> DEFINE f == [j \in Cols |-> Coefficient(r, j) * v[j]]
  <2>1. \A j \in Cols : f[j] \in Int /\ h[j] = a * f[j]
    <3>1. \A j \in Cols : Coefficient(r, j) \in Int /\ v[j] \in Int
      BY <1>1, Coefficients
    <3>2. QED
      BY <1>5, <3>1
  <2>2. Activity(r, v) = SumOf(f, Cols)
    BY ActivityIs
  <2> HIDE DEF f, a
  <2>3. SumOf(h, Cols) = a * SumOf(f, Cols)
    BY <1>0, <1>1, <2>1, SumScaled
  <2>4. QED
    BY <2>2, <2>3
<1>9. SumOf(h, SlackCols) = IF r \in Bound THEN -(Unit * v[Slack(r)]) ELSE 0
  <2>1. CASE r \in Bound
    <3> DEFINE c == Slack(r)
    <3>1. c \in SlackCols /\ SlackRow(c) = r /\ c \in Columns /\ v[c] \in Int
      BY <1>1, <2>1, SlackRows
    <3>2. ASSUME NEW j \in SlackCols, j # c PROVE h[j] = 0
      <4>1. SlackRow(j) # r
        BY <3>2, SlackRows
      <4>2. QED
        BY <1>6, <4>1
    <3>3. h[c] = -(Unit * v[c]) /\ h[c] \in Int
      BY <1>0, <1>6, <3>1
    <3> HIDE DEF c
    <3>4. SumOf(h, SlackCols) = h[c]
      BY <1>1, <3>1, <3>2, <3>3, SumAt
    <3>5. QED
      BY <2>1, <3>3, <3>4 DEF c
  <2>2. CASE r \notin Bound
    <3>1. \A j \in SlackCols : h[j] = 0
      BY <1>6, <2>2, SlackRows
    <3>2. QED
      BY <1>1, <2>2, <3>1, SumZero
  <2>3. QED
    BY <2>1, <2>2
<1>10. Activity(r, v) \in Int /\ (r \in Bound => v[Slack(r)] \in Int)
  BY <1>1, Activities, SlackRows
<1>11. RowSum(constraint_new_idx(r), v) = SumOf(w, S)
  BY DEF RowSum, w, S
<1>12. a * Activity(r, v) \in Int
  BY <1>0, <1>10
<1> HIDE DEF a
<1>13. CASE r \in Bound
  <2>1. Unit * v[Slack(r)] \in Int
    BY <1>0, <1>10, <1>13
  <2>2. RowSum(constraint_new_idx(r), v) = a * Activity(r, v) - Unit * v[Slack(r)]
    BY <1>4, <1>7, <1>8, <1>9, <1>11, <1>12, <1>13, <2>1
  <2>3. QED
    BY <1>13, <2>2 DEF a
<1>14. CASE r \notin Bound
  <2>1. RowSum(constraint_new_idx(r), v) = a * Activity(r, v) - 0
    BY <1>4, <1>7, <1>8, <1>9, <1>11, <1>12, <1>14
  <2>2. QED
    BY <1>14, <2>1 DEF a
<1>15. QED
  BY <1>13, <1>14

(* A column of the program at multipliers of the matrix' rows: what they   *)
(* explain of its cost, each with the sign of its row.                     *)
Explained(j, v) ==
  SumOf([r \in Rows |-> Unit * Coefficient(r, j) * (Sign(r) * v[constraint_new_idx(r)])], Rows)

(* So do the entries of a column, weighed with multipliers.                *)
LEMMA ColSumIs ==
  ASSUME lp \in Models, NEW v \in [Rows -> Int], NEW j \in Cols
  PROVE  ColSum(j, v) = Explained(j, v)
<1> DEFINE w == ColTerm(v)
           S == InColumn(j)
           s == lp.col[j].entries
           g == [e \in Nonzeros |-> s[e[2]].idx]
           F(r) == Fibre(r, g, S)
           h == [r \in Rows |-> Unit * Coefficient(r, j) * (Sign(r) * v[constraint_new_idx(r)])]
<1>0. Unit \in Int /\ \A q \in Rows : constraint_new_idx(q) \in Rows
  <2>1. \A q \in Rows : constraint_new_idx(q) \in Rows
    BY Places, Shape
  <2>2. Unit \in Int
    BY UnitsAssumption
  <2>3. QED
    BY <2>1, <2>2
<1>1. IsFiniteSet(S) /\ IsFiniteSet(Rows) /\ j \notin SlackCols /\ j \in Columns
  BY NonzerosAre, FS_Subset, SlackRows, Shape DEF InColumn
<1>2. ASSUME NEW e \in S
      PROVE  \E p \in DOMAIN s : e = <<j, p>>
  BY <1>1, NonzerosAre DEF InColumn
<1>3. ASSUME NEW p \in DOMAIN s
      PROVE  /\ <<j, p>> \in S /\ <<j, p>> \in Nonzeros /\ g[<<j, p>>] = s[p].idx
             /\ s[p].idx \in Rows
  BY NonzerosAre, ColumnOf DEF InColumn
<1>4. \A e \in S : w[e] \in Int /\ g[e] \in Rows
  <2>1. ASSUME NEW e \in S PROVE w[e] \in Int
    <3>1. e \in Nonzeros /\ Entry(e).idx \in Rows /\ Entry(e).val \in Int
      BY EntryOf DEF InColumn
    <3>2. w[e] = Entry(e).val * v[Entry(e).idx]
      BY <3>1 DEF ColTerm
    <3>3. QED
      BY <3>1, <3>2
  <2>2. ASSUME NEW e \in S PROVE g[e] \in Rows
    BY <1>2, <1>3
  <2>3. QED
    BY <2>1, <2>2
<1>5. ASSUME NEW r \in Rows
      PROVE  h[r] = SumOf(w, F(r))
  <2> DEFINE a == Unit * (Sign(r) * v[constraint_new_idx(r)])
  <2>1. F(r) = {<<j, p>> : p \in OfRow(r, j)}
    <3>1. ASSUME NEW e \in F(r) PROVE \E p \in OfRow(r, j) : e = <<j, p>>
      <4>1. e \in S /\ g[e] = r
        BY DEF Fibre
      <4>2. PICK p \in DOMAIN s : e = <<j, p>>
        BY <1>2, <4>1
      <4>3. p \in OfRow(r, j)
        BY <1>3, <4>1, <4>2 DEF OfRow
      <4>4. QED
        BY <4>2, <4>3
    <3>2. ASSUME NEW p \in OfRow(r, j) PROVE <<j, p>> \in F(r)
      <4>1. p \in DOMAIN s /\ s[p].idx = r
        BY DEF OfRow
      <4>2. QED
        BY <1>3, <4>1 DEF Fibre
    <3> HIDE DEF F
    <3>3. QED
      BY <3>1, <3>2
  <2>2. v[constraint_new_idx(r)] \in Int /\ Sign(r) \in Int /\ Coefficient(r, j) \in Int
    BY <1>0, Signs, Coefficients
  <2>3. a \in Int
    BY <1>0, <2>2
  <2>4. ASSUME NEW p \in OfRow(r, j) PROVE w[<<j, p>>] = a * Values(j)[p]
    <3>1. p \in DOMAIN s /\ s[p].idx = r
      BY DEF OfRow
    <3>2. /\ Entry(<<j, p>>).val = Unit * Sign(r) * Values(j)[p]
          /\ Entry(<<j, p>>).idx = constraint_new_idx(r)
      BY <3>1, EntryAt DEF Values
    <3>3. w[<<j, p>>] = (Unit * Sign(r) * Values(j)[p]) * v[constraint_new_idx(r)]
      BY <1>3, <3>1, <3>2 DEF ColTerm
    <3>4. Values(j)[p] \in Int
      BY Coefficients
    <3>5. \A b, c, d, e \in Int : (b * c * d) * e = (b * (c * e)) * d
      OBVIOUS
    <3>6. QED
      BY <1>0, <2>2, <3>3, <3>4, <3>5
  <2>5. h[r] = Unit * Coefficient(r, j) * (Sign(r) * v[constraint_new_idx(r)])
    OBVIOUS
  <2>6. a * Coefficient(r, j) = h[r]
    <3>1. \A b, c, d, e \in Int : (b * (c * e)) * d = b * d * (c * e)
      OBVIOUS
    <3> HIDE DEF h
    <3>2. QED
      BY <1>0, <2>2, <2>5, <3>1
  <2> HIDE DEF w, F, h, a
  <2>7. SumOf(w, F(r)) = a * Coefficient(r, j)
    BY <2>1, <2>3, <2>4, PlacesAddUp
  <2>8. QED
    BY <2>6, <2>7
<1> HIDE DEF w, S, g, h
<1>6. SumOf(w, S) = SumOf(h, Rows)
  BY <1>1, <1>4, <1>5, SumFibres
<1>7. QED
  BY <1>6, Zenon DEF ColSum, Explained, w, S, h

(* All products of an entry, its point and its multiplier, added up by     *)
(* columns and by rows.                                                    *)
LEMMA SumsCross ==
  ASSUME lp \in Models, NEW u \in [Columns -> Int], NEW v \in [Rows -> Int]
  PROVE  /\ \A j \in Columns : ColSum(j, v) \in Int
         /\ \A r \in Rows : RowSum(r, u) \in Int
         /\ SumOf([j \in Columns |-> ColSum(j, v) * u[j]], Columns)
              = SumOf([r \in Rows |-> RowSum(r, u) * v[r]], Rows)
<1> DEFINE z == [e \in Nonzeros |-> Entry(e).val * u[e[1]] * v[Entry(e).idx]]
           g1 == [e \in Nonzeros |-> e[1]]
           g2 == [e \in Nonzeros |-> Entry(e).idx]
           h1 == [j \in Columns |-> ColSum(j, v) * u[j]]
           h2 == [r \in Rows |-> RowSum(r, u) * v[r]]
<1>1. IsFiniteSet(Nonzeros) /\ IsFiniteSet(Columns) /\ IsFiniteSet(Rows)
  BY NonzerosAre, SlackRows, Shape
<1>2. ASSUME NEW e \in Nonzeros
      PROVE  /\ Entry(e).val \in Int /\ g1[e] \in Columns /\ g2[e] \in Rows
             /\ u[e[1]] \in Int /\ v[Entry(e).idx] \in Int /\ z[e] \in Int
             /\ z[e] = u[e[1]] * (Entry(e).val * v[Entry(e).idx])
             /\ z[e] = v[Entry(e).idx] * (Entry(e).val * u[e[1]])
  <2>1. Entry(e).val \in Int /\ e[1] \in Columns /\ Entry(e).idx \in Rows
    BY EntryOf
  <2>2. u[e[1]] \in Int /\ v[Entry(e).idx] \in Int
    BY <2>1
  <2>3. \A a, b, c \in Int : a * b * c \in Int /\ a * b * c = b * (a * c) /\ a * b * c = c * (a * b)
    OBVIOUS
  <2>4. z[e] = Entry(e).val * u[e[1]] * v[Entry(e).idx]
    OBVIOUS
  <2> HIDE DEF z
  <2>5. QED
    BY <2>1, <2>2, <2>3, <2>4
<1>3. ASSUME NEW j \in Columns
      PROVE  ColSum(j, v) \in Int /\ h1[j] = SumOf(z, Fibre(j, g1, Nonzeros))
  <2> DEFINE S == InColumn(j)
             f == ColTerm(v)
  <2>1. Fibre(j, g1, Nonzeros) = S
    BY DEF Fibre, InColumn
  <2>2. IsFiniteSet(S) /\ u[j] \in Int
    BY <1>1, FS_Subset DEF InColumn
  <2>3. \A e \in S : f[e] \in Int /\ z[e] = u[j] * f[e]
    <3> SUFFICES ASSUME NEW e \in S PROVE f[e] \in Int /\ z[e] = u[j] * f[e]
      OBVIOUS
    <3>1. e \in Nonzeros /\ e[1] = j
      BY DEF InColumn
    <3>2. f[e] = Entry(e).val * v[Entry(e).idx]
      BY <3>1 DEF ColTerm
    <3> HIDE DEF z, f
    <3>3. QED
      BY <1>2, <3>1, <3>2
  <2> HIDE DEF S, f, z
  <2>4. SumOf(f, S) \in Int /\ SumOf(z, S) = u[j] * SumOf(f, S)
    BY <2>2, <2>3, SumScaled
  <2>5. ColSum(j, v) = SumOf(f, S)
    BY DEF ColSum, f, S
  <2>6. SumOf(z, Fibre(j, g1, Nonzeros)) = SumOf(z, S)
    BY <2>1, Zenon
  <2>7. h1[j] = ColSum(j, v) * u[j]
    OBVIOUS
  <2> HIDE DEF h1
  <2>8. QED
    BY <2>2, <2>4, <2>5, <2>6, <2>7
<1>4. ASSUME NEW r \in Rows
      PROVE  RowSum(r, u) \in Int /\ h2[r] = SumOf(z, Fibre(r, g2, Nonzeros))
  <2> DEFINE S == InRow(r)
             f == RowTerm(u)
  <2>1. Fibre(r, g2, Nonzeros) = S
    BY DEF Fibre, InRow
  <2>2. IsFiniteSet(S) /\ v[r] \in Int
    BY <1>1, FS_Subset DEF InRow
  <2>3. \A e \in S : f[e] \in Int /\ z[e] = v[r] * f[e]
    <3> SUFFICES ASSUME NEW e \in S PROVE f[e] \in Int /\ z[e] = v[r] * f[e]
      OBVIOUS
    <3>1. e \in Nonzeros /\ Entry(e).idx = r
      BY DEF InRow
    <3>2. f[e] = Entry(e).val * u[e[1]]
      BY <3>1 DEF RowTerm
    <3> HIDE DEF z, f
    <3>3. QED
      BY <1>2, <3>1, <3>2
  <2> HIDE DEF S, f, z
  <2>4. SumOf(f, S) \in Int /\ SumOf(z, S) = v[r] * SumOf(f, S)
    BY <2>2, <2>3, SumScaled
  <2>5. RowSum(r, u) = SumOf(f, S)
    BY DEF RowSum, f, S
  <2>6. SumOf(z, Fibre(r, g2, Nonzeros)) = SumOf(z, S)
    BY <2>1, Zenon
  <2>7. h2[r] = RowSum(r, u) * v[r]
    OBVIOUS
  <2> HIDE DEF h2
  <2>8. QED
    BY <2>2, <2>4, <2>5, <2>6, <2>7
<1> HIDE DEF z, g1, g2, h1, h2
<1>5. SumOf(z, Nonzeros) = SumOf(h1, Columns)
  <2>1. \A e \in Nonzeros : z[e] \in Int /\ g1[e] \in Columns
    BY <1>2
  <2>2. \A j \in Columns : h1[j] = SumOf(z, Fibre(j, g1, Nonzeros))
    BY <1>3
  <2>3. QED
    BY <1>1, <2>1, <2>2, SumFibres
<1>6. SumOf(z, Nonzeros) = SumOf(h2, Rows)
  <2>1. \A e \in Nonzeros : z[e] \in Int /\ g2[e] \in Rows
    BY <1>2
  <2>2. \A r \in Rows : h2[r] = SumOf(z, Fibre(r, g2, Nonzeros))
    BY <1>4
  <2>3. QED
    BY <1>1, <2>1, <2>2, SumFibres
<1>7. SumOf(h1, Columns) = SumOf(h2, Rows)
  BY <1>5, <1>6
<1>8. QED
  BY <1>3, <1>4, <1>7 DEF h1, h2

-----------------------------------------------------------------------------
Fields == {"nEqs", "type", "new", "slack", "cost", "lower", "upper", "rhs", "csc", "colScale",
           "rowScale", "csr", "ifScaled"}

(* What scaling leaves as it is, and what it leaves of bounds and scales:  *)
(* whatever passes there were, a bound is the program's times the scale.   *)
Formed(p) ==
  /\ DOMAIN p = Fields
  /\ p.nEqs = nEqs
  /\ p.type = [r \in Rows |-> constraint_type(r)]
  /\ p.new = [r \in Rows |-> constraint_new_idx(r)]
  /\ p.slack = [r \in Rows |-> Slack(r)]
  /\ DOMAIN p.cost = Columns /\ DOMAIN p.rhs = Rows
  /\ p.colScale \in [Columns -> Nat \ {0}]
  /\ p.rowScale \in [Rows -> Nat \ {0}]
  /\ p.lower = [j \in Columns |-> Lo(j) * p.colScale[j]]
  /\ p.upper = [j \in Columns |-> Up(j) * p.colScale[j]]
  /\ DOMAIN p.csc = {"beg", "elem"} /\ SameEntries(p.csc)
  /\ \A k \in 1..Count : DOMAIN p.csc.elem[k] = {"idx", "val"}

(* No pass has scaled anything.                                            *)
UnitScales(p) ==
  /\ \A j \in Columns : p.colScale[j] = 1
  /\ \A r \in Rows : p.rowScale[r] = 1

(* No division has lost anything: costs, right-hand sides and entries are  *)
(* the program's, in units, once they are scaled back; what has no entry   *)
(* is not scaled, and no scale is beyond the unit.                         *)
CostOf(j) == IF j \in Cols THEN lp.sense * lp.col[j].cost ELSE 0

Exactly(p) ==
  /\ \A k \in 1..Count :
       p.csc.elem[k].val * (p.rowScale[RowOf(k)] * p.colScale[Column(k)]) = Entry(Order[k]).val
  /\ \A j \in Columns : p.cost[j] \in Int /\ p.cost[j] * p.colScale[j] = Unit * CostOf(j)
  /\ \A r \in Rows :
       /\ p.rhs[constraint_new_idx(r)] \in Int
       /\ p.rhs[constraint_new_idx(r)] * p.rowScale[constraint_new_idx(r)] = Unit * rhs(r)
  /\ \A j \in Columns : (\A k \in 1..Count : Column(k) # j) => p.colScale[j] = 1
  /\ \A r \in Rows : (\A k \in 1..Count : RowOf(k) # r) => p.rowScale[r] = 1
  /\ \A j \in Columns : p.colScale[j] <= Unit

(* What the passes leave of the unit, where there is an entry.             *)
IsLeft(left, passes, r, j) ==
  /\ left \in [0..Len(passes) -> {d \in 1..Unit : Unit % d = 0}]
  /\ Leaves(left, passes, r, j)

LeftAt(p, passes, d) ==
  \A k \in 1..Count : \A left : IsLeft(left, passes, RowOf(k), Column(k)) =>
    (p.rowScale[RowOf(k)] * p.colScale[Column(k)]) * left[d] = Unit

(* What the passes leave of the unit at a row and a column exists by       *)
(* assumption,                                                             *)
LEMMA LeftExists ==
  ASSUME lp \in Models, NEW passes \in Passes, NEW r \in Rows, NEW j \in Columns
  PROVE  \E left : IsLeft(left, passes, r, j)
<1>1. r \in 0..(nRows - 1) /\ j \in 0..(nColsOrigin + nRows - 1)
  BY Shape, Kinds DEF Columns
<1>2. QED
  BY <1>1, PassesAssumption DEF IsLeft, nRows, nColsOrigin, Rows, Cols

(* and each pass takes its two factors from it.                            *)
LEMMA LeftIs ==
  ASSUME NEW passes, NEW r, NEW j, NEW left, IsLeft(left, passes, r, j), Len(passes) \in Nat,
         NEW d \in Nat, d < Len(passes)
  PROVE  /\ left[d] \in Nat \ {0} /\ left[d + 1] \in Nat \ {0} /\ left[0] = Unit
         /\ left[d] = left[d + 1] * (passes[d + 1].row[r] * passes[d + 1].col[j])
<1>1. d \in 0..Len(passes) /\ d + 1 \in 0..Len(passes) /\ d + 1 \in 1..Len(passes)
  OBVIOUS
<1>2. \A e \in 0..Len(passes) : left[e] \in 1..Unit
  BY DEF IsLeft
<1>3. Unit \in Nat
  BY UnitsAssumption
<1>4. left[d] \in Nat \ {0} /\ left[d + 1] \in Nat \ {0}
  BY <1>1, <1>2, <1>3
<1>5. \A e \in 1..Len(passes) : left[e - 1] = left[e] * (passes[e].row[r] * passes[e].col[j])
  BY DEF IsLeft, Leaves
<1>6. (d + 1) - 1 = d
  OBVIOUS
<1>7. left[d] = left[d + 1] * (passes[d + 1].row[r] * passes[d + 1].col[j])
  BY <1>1, <1>5, <1>6
<1>8. left[0] = Unit
  BY DEF IsLeft, Leaves
<1>9. QED
  BY <1>4, <1>7, <1>8

(* Dividing by a factor m that what is left, l * m, has: the number a is   *)
(* v units scaled by s.                                                    *)
Divides(a, v, s, m, l, u) ==
  /\ a \in Int /\ v \in Int /\ s \in Nat \ {0} /\ m \in Nat \ {0} /\ l \in Nat \ {0}
  /\ u \in Nat \ {0} /\ s * (l * m) = u /\ a * s = u * v

(* Such a division has no remainder.                                       *)
LEMMA DividesOut ==
  ASSUME NEW a, NEW v, NEW s, NEW m, NEW l, NEW u, Divides(a, v, s, m, l, u)
  PROVE  /\ a \div m \in Int
         /\ (a \div m) * (s * m) = u * v
         /\ (s * m) * l = u
<1>0. /\ a \in Int /\ v \in Int /\ s \in Nat \ {0} /\ m \in Nat \ {0} /\ l \in Nat \ {0}
      /\ u \in Nat \ {0} /\ s * (l * m) = u /\ a * s = u * v
  BY DEF Divides
<1>1. a * s = ((l * m) * v) * s
  <2>1. \A b, c, d, e \in Int : (b * (c * d)) * e = ((c * d) * e) * b
    OBVIOUS
  <2>2. QED
    BY <1>0, <2>1
<1>2. (l * m) * v \in Int
  BY <1>0
<1>3. \A b, c \in Int : b * s = c * s => b = c
  BY <1>0
<1>4. a = (l * m) * v
  BY <1>0, <1>1, <1>2, <1>3
<1>5. (l * m) * v = (l * v) * m /\ l * v \in Int
  BY <1>0
<1>6. a \div m = l * v
  BY <1>0, <1>4, <1>5, Products
<1>7. \A b, c, d, e \in Int : (b * c) * (d * e) = (d * (b * e)) * c
  OBVIOUS
<1>8. (l * v) * (s * m) = (s * (l * m)) * v
  BY <1>0, <1>7
<1>9. (s * m) * l = s * (l * m)
  BY <1>0
<1>10. QED
  BY <1>0, <1>5, <1>6, <1>8, <1>9

(* What a pass does to the numbers that it divides or multiplies.          *)
LEMMA PassDivides ==
  ASSUME NEW p, NEW f, NEW q, q = scale_problem(p, f), DOMAIN p = Fields
  PROVE  /\ \A j \in DOMAIN p.cost : q.cost[j] = p.cost[j] \div Factors(p, f).col[j]
         /\ \A r \in DOMAIN p.rhs : q.rhs[r] = p.rhs[r] \div Factors(p, f).row[r]
         /\ \A j \in DOMAIN p.colScale : q.colScale[j] = p.colScale[j] * Factors(p, f).col[j]
         /\ \A r \in DOMAIN p.rowScale : q.rowScale[r] = p.rowScale[r] * Factors(p, f).row[r]
BY DEF scale_problem, Fields

(* ... and to the entries of the matrix.                                   *)
LEMMA PassEntries ==
  ASSUME lp \in Models, NEW p, NEW f, Formed(p)
  PROVE  LET q == scale_problem(p, f)
             w == Factors(p, f).row
             c == Factors(p, f).col
         IN /\ DOMAIN q.csc = {"beg", "elem"} /\ q.csc.beg = p.csc.beg
            /\ DOMAIN q.csc.elem = 1..Count
            /\ \A k \in 1..Count :
                 /\ DOMAIN q.csc.elem[k] = {"idx", "val"} /\ q.csc.elem[k].idx = RowOf(k)
                 /\ q.csc.elem[k].val = (p.csc.elem[k].val \div w[RowOf(k)]) \div c[Column(k)]
<1> DEFINE q == scale_problem(p, f)
           w == Factors(p, f).row
           c == Factors(p, f).col
<1>1. /\ DOMAIN p = Fields /\ DOMAIN p.csc = {"beg", "elem"} /\ DOMAIN p.csc.elem = 1..Count
      /\ \A k \in 1..Count : DOMAIN p.csc.elem[k] = {"idx", "val"} /\ p.csc.elem[k].idx = RowOf(k)
      /\ p.csc.beg = csc.beg
  BY DEF Formed, SameEntries
<1>2. Major(p.csc) = [k \in 1..Count |-> Column(k)]
  BY <1>1, CscIs
<1> HIDE DEF w, c
<1> DEFINE x(k) == [idx |-> p.csc.elem[k].idx,
                    val |-> (p.csc.elem[k].val \div w[p.csc.elem[k].idx]) \div c[Major(p.csc)[k]]]
<1>3. q.csc = [beg |-> p.csc.beg, elem |-> [k \in DOMAIN p.csc.elem |-> x(k)]]
  BY <1>1 DEF scale_problem, Fields, w, c
<1> HIDE DEF q, x
<1>4. /\ \A k \in 1..Count : q.csc.elem[k] = x(k)
      /\ DOMAIN q.csc = {"beg", "elem"} /\ q.csc.beg = p.csc.beg /\ DOMAIN q.csc.elem = 1..Count
  BY <1>1, <1>3
<1>5. ASSUME NEW k \in 1..Count
      PROVE  /\ DOMAIN q.csc.elem[k] = {"idx", "val"} /\ q.csc.elem[k].idx = RowOf(k)
             /\ q.csc.elem[k].val = (p.csc.elem[k].val \div w[RowOf(k)]) \div c[Column(k)]
  <2>1. DOMAIN x(k) = {"idx", "val"} /\ x(k).idx = p.csc.elem[k].idx
    BY DEF x
  <2>2. x(k).val = (p.csc.elem[k].val \div w[p.csc.elem[k].idx]) \div c[Major(p.csc)[k]]
    BY DEF x
  <2>3. p.csc.elem[k].idx = RowOf(k) /\ Major(p.csc)[k] = Column(k)
    BY <1>1, <1>2
  <2>4. QED
    BY <1>4, <2>1, <2>2, <2>3
<1>6. QED
  BY <1>4, <1>5 DEF q, w, c

(* The factors of a pass: those computed where there is an entry.          *)
LEMMA FactorsAre ==
  ASSUME lp \in Models, NEW p, NEW f, Formed(p), IsPass(f, lp)
  PROVE  LET w == Factors(p, f).row
             c == Factors(p, f).col
         IN /\ \A j \in Columns : c[j] \in Nat \ {0}
            /\ \A r \in Rows : w[r] \in Nat \ {0}
            /\ \A k \in 1..Count : c[Column(k)] = f.col[Column(k)] /\ w[RowOf(k)] = f.row[RowOf(k)]
            /\ \A j \in Columns : (\A k \in 1..Count : Column(k) # j) => c[j] = 1
            /\ \A r \in Rows : (\A k \in 1..Count : RowOf(k) # r) => w[r] = 1
<1> DEFINE w == Factors(p, f).row
           c == Factors(p, f).col
           used == {Column(k) : k \in 1..Count}
           hit == {RowOf(k) : k \in 1..Count}
<1>1. /\ DOMAIN p.cost = Columns /\ DOMAIN p.rhs = Rows
      /\ DOMAIN p.csc.elem = 1..Count /\ p.csc.beg = csc.beg
      /\ \A k \in 1..Count : p.csc.elem[k].idx = RowOf(k)
  BY DEF Formed, SameEntries
<1>2. Major(p.csc) = [k \in 1..Count |-> Column(k)]
  BY <1>1, CscIs
<1>3. /\ {Major(p.csc)[k] : k \in DOMAIN Major(p.csc)} = used
      /\ {p.csc.elem[k].idx : k \in DOMAIN p.csc.elem} = hit
  BY <1>1, <1>2
<1> HIDE DEF used, hit
<1>4. /\ c = [j \in Columns |-> IF j \in used THEN f.col[j] ELSE 1]
      /\ w = [r \in Rows |-> IF r \in hit THEN f.row[r] ELSE 1]
  BY <1>1, <1>3 DEF Factors
<1>5. /\ \A j \in Columns : f.col[j] \in Nat \ {0}
      /\ \A r \in Rows : f.row[r] \in Nat \ {0}
  <2>1. Columns \subseteq 0..(nColsOrigin + nRows - 1) /\ Rows = 0..(nRows - 1)
    BY Shape, Kinds DEF Columns
  <2>2. QED
    BY <2>1 DEF IsPass, nRows, nColsOrigin, Rows, Cols
<1> HIDE DEF c, w
<1>6. /\ \A j \in Columns : c[j] \in Nat \ {0}
      /\ \A r \in Rows : w[r] \in Nat \ {0}
  BY <1>4, <1>5
<1>7. \A k \in 1..Count : c[Column(k)] = f.col[Column(k)] /\ w[RowOf(k)] = f.row[RowOf(k)]
  <2>1. \A k \in 1..Count : Column(k) \in Columns /\ RowOf(k) \in Rows
    BY OrderLists
  <2>2. QED
    BY <1>4, <2>1 DEF used, hit
<1>8. /\ \A j \in Columns : (\A k \in 1..Count : Column(k) # j) => c[j] = 1
      /\ \A r \in Rows : (\A k \in 1..Count : RowOf(k) # r) => w[r] = 1
  BY <1>4 DEF used, hit
<1>9. QED
  BY <1>6, <1>7, <1>8 DEF c, w

(* One pass keeps the form.                                                *)
LEMMA OnePass ==
  ASSUME lp \in Models, NEW p, NEW f, Formed(p), IsPass(f, lp)
  PROVE  Formed(scale_problem(p, f))
<1> DEFINE q == scale_problem(p, f)
           c == Factors(p, f).col
           w == Factors(p, f).row
<1>1. /\ DOMAIN p = Fields
      /\ DOMAIN p.cost = Columns /\ DOMAIN p.rhs = Rows
      /\ p.colScale \in [Columns -> Nat \ {0}] /\ p.rowScale \in [Rows -> Nat \ {0}]
      /\ p.lower = [j \in Columns |-> Lo(j) * p.colScale[j]]
      /\ p.upper = [j \in Columns |-> Up(j) * p.colScale[j]]
      /\ p.csc.beg = csc.beg /\ \A k \in 1..Count : p.csc.elem[k].val \in Int
      /\ p.nEqs = nEqs
      /\ p.type = [r \in Rows |-> constraint_type(r)]
      /\ p.new = [r \in Rows |-> constraint_new_idx(r)]
      /\ p.slack = [r \in Rows |-> Slack(r)]
  BY DEF Formed, SameEntries
<1>2. /\ DOMAIN q = Fields
      /\ q.nEqs = p.nEqs /\ q.type = p.type /\ q.new = p.new /\ q.slack = p.slack
      /\ DOMAIN q.cost = DOMAIN p.cost /\ DOMAIN q.rhs = DOMAIN p.rhs
      /\ q.lower = [j \in DOMAIN p.lower |-> p.lower[j] * c[j]]
      /\ q.upper = [j \in DOMAIN p.upper |-> p.upper[j] * c[j]]
      /\ q.colScale = [j \in DOMAIN p.colScale |-> p.colScale[j] * c[j]]
      /\ q.rowScale = [r \in DOMAIN p.rowScale |-> p.rowScale[r] * w[r]]
  <2>1. DOMAIN p = Fields
    BY <1>1
  <2>2. QED
    BY <2>1 DEF scale_problem, Fields
<1>3. /\ DOMAIN q.csc = {"beg", "elem"} /\ q.csc.beg = p.csc.beg /\ DOMAIN q.csc.elem = 1..Count
      /\ \A k \in 1..Count :
           /\ DOMAIN q.csc.elem[k] = {"idx", "val"} /\ q.csc.elem[k].idx = RowOf(k)
           /\ q.csc.elem[k].val = (p.csc.elem[k].val \div w[RowOf(k)]) \div c[Column(k)]
  BY PassEntries
<1>4. /\ \A j \in Columns : c[j] \in Nat \ {0}
      /\ \A r \in Rows : w[r] \in Nat \ {0}
  BY FactorsAre
<1> HIDE DEF q, c, w
<1>5. \A a, b \in Nat \ {0} : a * b \in Nat \ {0}
  OBVIOUS
<1>6. q.colScale \in [Columns -> Nat \ {0}] /\ q.rowScale \in [Rows -> Nat \ {0}]
  BY <1>1, <1>2, <1>4, <1>5
<1>7. ASSUME NEW j \in Columns
      PROVE  /\ (Lo(j) * p.colScale[j]) * c[j] = Lo(j) * (p.colScale[j] * c[j])
             /\ (Up(j) * p.colScale[j]) * c[j] = Up(j) * (p.colScale[j] * c[j])
  <2>1. Lo(j) \in Int /\ Up(j) \in Int /\ c[j] \in Int /\ p.colScale[j] \in Int
    BY <1>1, <1>4, BoundsAreNumbers
  <2>2. \A x, y, z \in Int : (x * y) * z = x * (y * z)
    OBVIOUS
  <2>3. QED
    BY <2>1, <2>2
<1>8. /\ q.lower = [j \in Columns |-> Lo(j) * q.colScale[j]]
      /\ q.upper = [j \in Columns |-> Up(j) * q.colScale[j]]
  BY <1>1, <1>2, <1>7
<1>9. ASSUME NEW k \in 1..Count PROVE q.csc.elem[k].val \in Int
  <2>1. p.csc.elem[k].val \in Int /\ w[RowOf(k)] \in Nat \ {0} /\ c[Column(k)] \in Nat \ {0}
    BY <1>1, <1>4, OrderLists
  <2>2. \A x \in Int, y \in Nat \ {0} : x \div y \in Int
    OBVIOUS
  <2>3. QED
    BY <1>3, <2>1, <2>2
<1>10. SameEntries(q.csc)
  BY <1>1, <1>3, <1>9 DEF SameEntries
<1>11. QED
  BY <1>1, <1>2, <1>3, <1>6, <1>8, <1>10 DEF Formed, q

(* Costs and right-hand sides are numbers.                                 *)
LEMMA Numbers ==
  ASSUME lp \in Models
  PROVE  /\ \A j : CostOf(j) \in Int
         /\ \A r \in Rows : rhs(r) \in Int
         /\ lp.sense \in {1, -1} /\ lp.offset \in Int
<1>1. lp.sense \in {1, -1} /\ lp.offset \in Int
  BY ModelsAssumption
<1>2. ASSUME NEW j PROVE CostOf(j) \in Int
  <2>1. CASE j \in Cols
    <3>1. lp.col[j].cost \in Int /\ lp.sense \in Int
      BY <1>1, <2>1, ColumnOf
    <3>2. QED
      BY <2>1, <3>1 DEF CostOf
  <2>2. CASE j \notin Cols
    BY <2>2 DEF CostOf
  <2>3. QED
    BY <2>1, <2>2
<1>3. ASSUME NEW r \in Rows PROVE rhs(r) \in Int
  <2>1. lp.row[r].lo \in Int /\ lp.row[r].up \in Int
    BY ModelsAssumption DEF Rows, HasBounds
  <2>2. constraint_type(r) \in {"EQ", "BOUND", "LEQ", "GEQ"}
    BY DEF constraint_type
  <2>3. QED
    BY <2>1, <2>2 DEF rhs
<1>4. QED
  BY <1>1, <1>2, <1>3

(* What is left where there is an entry, before and after a pass.          *)
Leaving(w, c, fw, fc, l, u) ==
  /\ w \in Nat \ {0} /\ c \in Nat \ {0} /\ fw \in Nat \ {0} /\ fc \in Nat \ {0}
  /\ l \in Nat \ {0} /\ u \in Nat \ {0} /\ (w * c) * (l * (fw * fc)) = u

(* The same product in the orders it is needed in.                         *)
LEMMA OneLeft ==
  ASSUME NEW w, NEW c, NEW fw, NEW fc, NEW l, NEW u, Leaving(w, c, fw, fc, l, u)
  PROVE  /\ ((w * fw) * (c * fc)) * l = u
         /\ (w * c) * ((l * fc) * fw) = u
         /\ c * ((w * (l * fw)) * fc) = u
         /\ w * ((c * (l * fc)) * fw) = u
         /\ c * fc <= u
<1>0. /\ w \in Nat \ {0} /\ c \in Nat \ {0} /\ fw \in Nat \ {0} /\ fc \in Nat \ {0}
      /\ l \in Nat \ {0} /\ u \in Nat \ {0} /\ (w * c) * (l * (fw * fc)) = u
  BY DEF Leaving
<1>2. \A a, b, d, e, g \in Int :
        /\ ((a * e) * (b * g)) * d = (a * b) * (d * (e * g))
        /\ (a * b) * ((d * g) * e) = (a * b) * (d * (e * g))
        /\ b * ((a * (d * e)) * g) = (a * b) * (d * (e * g))
        /\ a * ((b * (d * g)) * e) = (a * b) * (d * (e * g))
        /\ (b * g) * ((a * e) * d) = (a * b) * (d * (e * g))
  OBVIOUS
<1>3. (c * fc) * ((w * fw) * l) = u
  BY <1>0, <1>2
<1>4. \A a, b \in Nat \ {0} : a * b \in Nat \ {0} /\ a <= a * b
  OBVIOUS
<1>5. c * fc \in Nat \ {0} /\ (w * fw) * l \in Nat \ {0}
  <2>1. c * fc \in Nat \ {0} /\ w * fw \in Nat \ {0}
    BY <1>0, <1>4
  <2>2. QED
    BY <1>0, <1>4, <2>1
<1>6. c * fc <= u
  BY <1>3, <1>4, <1>5
<1>7. /\ ((w * fw) * (c * fc)) * l = u
      /\ (w * c) * ((l * fc) * fw) = u
      /\ c * ((w * (l * fw)) * fc) = u
      /\ w * ((c * (l * fc)) * fw) = u
  BY <1>0, <1>2
<1>8. QED
  BY <1>6, <1>7

(* A pass keeps the form exact, and takes its factors from what is left.   *)
LEMMA OneExactPass ==
  ASSUME lp \in Models, NEW passes \in Passes, Len(passes) \in Nat, NEW d \in Nat,
         d < Len(passes), NEW p, Formed(p), Exactly(p), LeftAt(p, passes, d),
         IsPass(passes[d + 1], lp)
  PROVE  LET q == scale_problem(p, passes[d + 1])
         IN  Exactly(q) /\ LeftAt(q, passes, d + 1)
<1> DEFINE f == passes[d + 1]
           q == scale_problem(p, f)
           c == Factors(p, f).col
           w == Factors(p, f).row
           W(k) == p.rowScale[RowOf(k)]
           C(k) == p.colScale[Column(k)]
<1>1. /\ DOMAIN p = Fields /\ DOMAIN p.cost = Columns /\ DOMAIN p.rhs = Rows
      /\ p.colScale \in [Columns -> Nat \ {0}] /\ p.rowScale \in [Rows -> Nat \ {0}]
      /\ \A k \in 1..Count : p.csc.elem[k].val \in Int
  BY DEF Formed, SameEntries
<1>2. /\ \A j \in Columns : /\ q.cost[j] = p.cost[j] \div c[j]
                            /\ q.colScale[j] = p.colScale[j] * c[j]
      /\ \A r \in Rows : /\ q.rhs[r] = p.rhs[r] \div w[r]
                         /\ q.rowScale[r] = p.rowScale[r] * w[r]
  <2>1. DOMAIN p.colScale = Columns /\ DOMAIN p.rowScale = Rows
    BY <1>1
  <2>2. QED
    BY <1>1, <2>1, PassDivides
<1>3. \A k \in 1..Count :
        q.csc.elem[k].val = (p.csc.elem[k].val \div w[RowOf(k)]) \div c[Column(k)]
  BY PassEntries
<1>4. /\ \A j \in Columns : c[j] \in Nat \ {0}
      /\ \A r \in Rows : w[r] \in Nat \ {0}
      /\ \A k \in 1..Count : c[Column(k)] = f.col[Column(k)] /\ w[RowOf(k)] = f.row[RowOf(k)]
      /\ \A j \in Columns : (\A k \in 1..Count : Column(k) # j) => c[j] = 1
      /\ \A r \in Rows : (\A k \in 1..Count : RowOf(k) # r) => w[r] = 1
  BY FactorsAre
<1>5. /\ Unit \in Nat \ {0} /\ \A r \in Rows : constraint_new_idx(r) \in Rows
  BY UnitsAssumption, Places, Shape
<1> HIDE DEF f, q, c, w
<1>6. ASSUME NEW k \in 1..Count, NEW left, IsLeft(left, passes, RowOf(k), Column(k))
      PROVE  LET l == left[d + 1]
                 fw == w[RowOf(k)]
                 fc == c[Column(k)]
             IN /\ l \in Nat \ {0} /\ fw \in Nat \ {0} /\ fc \in Nat \ {0}
                /\ W(k) \in Nat \ {0} /\ C(k) \in Nat \ {0}
                /\ ((W(k) * fw) * (C(k) * fc)) * l = Unit
                /\ (W(k) * C(k)) * ((l * fc) * fw) = Unit
                /\ C(k) * ((W(k) * (l * fw)) * fc) = Unit
                /\ W(k) * ((C(k) * (l * fc)) * fw) = Unit
                /\ C(k) * fc <= Unit
  <2>1. RowOf(k) \in Rows /\ Column(k) \in Columns
    BY OrderLists
  <2>2. /\ left[d] \in Nat \ {0} /\ left[d + 1] \in Nat \ {0}
        /\ left[d] = left[d + 1] * (passes[d + 1].row[RowOf(k)] * passes[d + 1].col[Column(k)])
    BY <1>6, LeftIs
  <2>3. left[d] = left[d + 1] * (w[RowOf(k)] * c[Column(k)])
    BY <1>4, <2>2 DEF f
  <2>4. (W(k) * C(k)) * left[d] = Unit
    BY <1>6 DEF LeftAt
  <2>5. /\ w[RowOf(k)] \in Nat \ {0} /\ c[Column(k)] \in Nat \ {0}
        /\ W(k) \in Nat \ {0} /\ C(k) \in Nat \ {0}
    BY <1>1, <1>4, <2>1
  <2> DEFINE x == W(k)
             y == C(k)
             fw == w[RowOf(k)]
             fc == c[Column(k)]
             l == left[d + 1]
  <2> HIDE DEF x, y, fw, fc, l
  <2>6. Leaving(x, y, fw, fc, l, Unit)
    BY <1>5, <2>2, <2>3, <2>4, <2>5 DEF Leaving, x, y, fw, fc, l
  <2>7. /\ ((x * fw) * (y * fc)) * l = Unit
        /\ (x * y) * ((l * fc) * fw) = Unit
        /\ y * ((x * (l * fw)) * fc) = Unit
        /\ x * ((y * (l * fc)) * fw) = Unit
        /\ y * fc <= Unit
    BY <2>6, OneLeft
  <2>8. QED
    BY <2>2, <2>5, <2>7 DEF x, y, fw, fc, l
<1>7. ASSUME NEW k \in 1..Count
      PROVE  \E left : IsLeft(left, passes, RowOf(k), Column(k))
  BY OrderLists, LeftExists
<1>8. LeftAt(q, passes, d + 1)
  <2> SUFFICES ASSUME NEW k \in 1..Count, NEW left, IsLeft(left, passes, RowOf(k), Column(k))
               PROVE  (q.rowScale[RowOf(k)] * q.colScale[Column(k)]) * left[d + 1] = Unit
    BY DEF LeftAt
  <2>1. /\ q.rowScale[RowOf(k)] = W(k) * w[RowOf(k)]
        /\ q.colScale[Column(k)] = C(k) * c[Column(k)]
    BY <1>2, OrderLists
  <2>2. ((W(k) * w[RowOf(k)]) * (C(k) * c[Column(k)])) * left[d + 1] = Unit
    BY <1>6
  <2>3. QED
    BY <2>1, <2>2
<1>9. ASSUME NEW k \in 1..Count
      PROVE  q.csc.elem[k].val * (q.rowScale[RowOf(k)] * q.colScale[Column(k)])
               = Entry(Order[k]).val
  <2>1. PICK left : IsLeft(left, passes, RowOf(k), Column(k))
    BY <1>7
  <2> DEFINE l == left[d + 1]
             fw == w[RowOf(k)]
             fc == c[Column(k)]
             a == p.csc.elem[k].val
             s == W(k) * C(k)
  <2>2. /\ l \in Nat \ {0} /\ fw \in Nat \ {0} /\ fc \in Nat \ {0}
        /\ W(k) \in Nat \ {0} /\ C(k) \in Nat \ {0} /\ s * ((l * fc) * fw) = Unit
    BY <1>6, <2>1
  <2>3. PICK v \in Int : Entry(Order[k]).val = Unit * v
    BY OrderLists, EntryOf
  <2>4. a \in Int /\ a * s = Unit * v
    BY <1>1, <2>3 DEF Exactly
  <2>5. q.csc.elem[k].val = (a \div fw) \div fc
    BY <1>3
  <2>6. /\ q.rowScale[RowOf(k)] = W(k) * fw /\ q.colScale[Column(k)] = C(k) * fc
    BY <1>2, OrderLists
  <2> HIDE DEF l, fw, fc, a, W, C
  <2>7. \A x, y \in Nat \ {0} : x * y \in Nat \ {0}
    OBVIOUS
  <2>8. s \in Nat \ {0} /\ l * fc \in Nat \ {0}
    BY <2>2, <2>7
  <2>9. s * fw \in Nat \ {0}
    BY <2>2, <2>7, <2>8
  <2> HIDE DEF s
  <2>10. a \div fw \in Int /\ (a \div fw) * (s * fw) = Unit * v /\ (s * fw) * (l * fc) = Unit
    <3>1. Divides(a, v, s, fw, l * fc, Unit)
      BY <1>5, <2>2, <2>4, <2>8 DEF Divides
    <3>2. QED
      BY <3>1, DividesOut
  <2>11. ((a \div fw) \div fc) * ((s * fw) * fc) = Unit * v /\ (a \div fw) \div fc \in Int
    <3>1. Divides(a \div fw, v, s * fw, fc, l, Unit)
      BY <1>5, <2>2, <2>9, <2>10 DEF Divides
    <3>2. QED
      BY <3>1, DividesOut
  <2>12. (s * fw) * fc = (W(k) * fw) * (C(k) * fc)
    <3>1. \A x, y, z, t \in Int : ((x * y) * z) * t = (x * z) * (y * t)
      OBVIOUS
    <3>2. QED
      BY <2>2, <3>1 DEF s
  <2>13. QED
    BY <2>3, <2>5, <2>6, <2>11, <2>12
<1>10. ASSUME NEW j \in Columns
       PROVE  /\ q.cost[j] \in Int /\ q.cost[j] * q.colScale[j] = Unit * CostOf(j)
              /\ (\A k \in 1..Count : Column(k) # j) => q.colScale[j] = 1
              /\ q.colScale[j] <= Unit
  <2> DEFINE a == p.cost[j]
             v == CostOf(j)
             s == p.colScale[j]
             fc == c[j]
  <2>1. /\ a \in Int /\ a * s = Unit * v /\ s \in Nat \ {0} /\ fc \in Nat \ {0} /\ v \in Int
        /\ q.cost[j] = a \div fc /\ q.colScale[j] = s * fc
        /\ (\A k \in 1..Count : Column(k) # j) => s = 1 /\ fc = 1
    BY <1>1, <1>2, <1>4, Numbers DEF Exactly
  <2> HIDE DEF a, v, s, fc
  <2>2. CASE \E k \in 1..Count : Column(k) = j
    <3>1. PICK k \in 1..Count : Column(k) = j
      BY <2>2
    <3>2. PICK left : IsLeft(left, passes, RowOf(k), Column(k))
      BY <1>7
    <3> DEFINE l == left[d + 1]
               fw == w[RowOf(k)]
               m == W(k) * (l * fw)
    <3>3. /\ l \in Nat \ {0} /\ fw \in Nat \ {0} /\ W(k) \in Nat \ {0}
          /\ C(k) * (m * fc) = Unit /\ C(k) * fc <= Unit /\ C(k) = s
      BY <1>6, <3>1, <3>2 DEF s, fc
    <3> HIDE DEF l, fw, W, C
    <3>4. \A x, y \in Nat \ {0} : x * y \in Nat \ {0}
      OBVIOUS
    <3>5. l * fw \in Nat \ {0}
      BY <3>3, <3>4
    <3>6. m \in Nat \ {0}
      BY <3>3, <3>4, <3>5
    <3> HIDE DEF m
    <3>7. s * (m * fc) = Unit /\ s * fc <= Unit
      BY <3>3
    <3>8. a \div fc \in Int /\ (a \div fc) * (s * fc) = Unit * v
      <4>1. Divides(a, v, s, fc, m, Unit)
        BY <1>5, <2>1, <3>6, <3>7 DEF Divides
      <4>2. QED
        BY <4>1, DividesOut
    <3>9. QED
      BY <2>1, <3>1, <3>7, <3>8 DEF v
  <2>3. CASE \A k \in 1..Count : Column(k) # j
    <3>1. s = 1 /\ fc = 1
      BY <2>1, <2>3
    <3>2. a \div 1 = a /\ a * 1 = a /\ 1 * 1 = 1
      BY <2>1
    <3>3. q.cost[j] = a /\ q.colScale[j] = 1 /\ a = Unit * v
      BY <2>1, <3>1, <3>2
    <3>4. q.cost[j] * q.colScale[j] = Unit * v /\ q.cost[j] \in Int
      BY <2>1, <3>2, <3>3
    <3>5. q.colScale[j] <= Unit
      BY <1>5, <3>3
    <3>6. QED
      BY <3>3, <3>4, <3>5 DEF v
  <2>4. QED
    BY <2>2, <2>3
<1>11. ASSUME NEW r \in Rows
       PROVE  (\A k \in 1..Count : RowOf(k) # r) => q.rowScale[r] = 1
  <2> SUFFICES ASSUME \A k \in 1..Count : RowOf(k) # r PROVE q.rowScale[r] = 1
    OBVIOUS
  <2>1. p.rowScale[r] = 1 /\ w[r] = 1
    BY <1>4 DEF Exactly
  <2>2. q.rowScale[r] = 1 * 1
    BY <1>2, <2>1
  <2>3. QED
    BY <2>2
<1>12. ASSUME NEW i0 \in Rows
       PROVE  /\ q.rhs[constraint_new_idx(i0)] \in Int
              /\ q.rhs[constraint_new_idx(i0)] * q.rowScale[constraint_new_idx(i0)]
                   = Unit * rhs(i0)
  <2> DEFINE r == constraint_new_idx(i0)
             a == p.rhs[r]
             v == rhs(i0)
             s == p.rowScale[r]
             fw == w[r]
  <2>1. /\ a \in Int /\ a * s = Unit * v /\ s \in Nat \ {0} /\ fw \in Nat \ {0} /\ v \in Int
        /\ q.rhs[r] = a \div fw /\ q.rowScale[r] = s * fw
        /\ (\A k \in 1..Count : RowOf(k) # r) => s = 1 /\ fw = 1
    BY <1>1, <1>2, <1>4, <1>5, Numbers DEF Exactly
  <2> HIDE DEF a, v, s, fw, r
  <2>2. CASE \E k \in 1..Count : RowOf(k) = r
    <3>1. PICK k \in 1..Count : RowOf(k) = r
      BY <2>2
    <3>2. PICK left : IsLeft(left, passes, RowOf(k), Column(k))
      BY <1>7
    <3> DEFINE l == left[d + 1]
               fc == c[Column(k)]
               m == C(k) * (l * fc)
    <3>3. /\ l \in Nat \ {0} /\ fc \in Nat \ {0} /\ C(k) \in Nat \ {0}
          /\ W(k) * (m * fw) = Unit /\ W(k) = s
      BY <1>6, <3>1, <3>2 DEF s, fw
    <3> HIDE DEF l, fc, W, C
    <3>4. \A x, y \in Nat \ {0} : x * y \in Nat \ {0}
      OBVIOUS
    <3>5. l * fc \in Nat \ {0}
      BY <3>3, <3>4
    <3>6. m \in Nat \ {0}
      BY <3>3, <3>4, <3>5
    <3> HIDE DEF m
    <3>7. s * (m * fw) = Unit
      BY <3>3
    <3>8. a \div fw \in Int /\ (a \div fw) * (s * fw) = Unit * v
      <4>1. Divides(a, v, s, fw, m, Unit)
        BY <1>5, <2>1, <3>6, <3>7 DEF Divides
      <4>2. QED
        BY <4>1, DividesOut
    <3>9. QED
      BY <2>1, <3>8 DEF v, r
  <2>3. CASE \A k \in 1..Count : RowOf(k) # r
    <3>1. s = 1 /\ fw = 1
      BY <2>1, <2>3
    <3>2. a \div 1 = a /\ a * 1 = a /\ 1 * 1 = 1
      BY <2>1
    <3>3. q.rhs[r] = a /\ q.rowScale[r] = 1 /\ a = Unit * v
      BY <2>1, <3>1, <3>2
    <3>4. QED
      BY <2>1, <3>2, <3>3 DEF v, r
  <2>4. QED
    BY <2>2, <2>3
<1>13. Exactly(q)
  BY <1>9, <1>10, <1>11, <1>12 DEF Exactly
<1>14. QED
  BY <1>8, <1>13 DEF q, f

-----------------------------------------------------------------------------
(* All passes keep the form, and no passes change nothing.                 *)
LEMMA AllPasses ==
  ASSUME lp \in Models, NEW b, Formed(b), Exactly(b), UnitScales(b), NEW passes \in Passes
  PROVE  /\ Formed(FoldLeft(scale_problem, b, passes))
         /\ Exactly(FoldLeft(scale_problem, b, passes))
         /\ passes = <<>> => FoldLeft(scale_problem, b, passes) = b
<1> DEFINE k == Len(passes)
<1>1. passes \in Seq(ToSet(passes)) /\ \A f \in ToSet(passes) : IsPass(f, lp)
  BY PassesAssumption
<1>2. k \in Nat /\ DOMAIN passes = 1..k /\ \A d \in 1..k : IsPass(passes[d], lp)
  BY <1>1 DEF ToSet
<1>3. LeftAt(b, passes, 0)
  <2> SUFFICES ASSUME NEW e \in 1..Count, NEW left, IsLeft(left, passes, RowOf(e), Column(e))
               PROVE  (b.rowScale[RowOf(e)] * b.colScale[Column(e)]) * left[0] = Unit
    BY DEF LeftAt
  <2>1. b.rowScale[RowOf(e)] = 1 /\ b.colScale[Column(e)] = 1
    BY OrderLists DEF UnitScales
  <2>2. left[0] = Unit /\ Unit \in Int
    BY UnitsAssumption DEF IsLeft, Leaves
  <2>3. QED
    BY <2>1, <2>2
<1> HIDE DEF k
<1>4. PICK g : Runs(g, b, passes, 1..k) /\ FoldLeft(scale_problem, b, passes) = g[1..k]
  BY <1>2, FoldRuns
<1> DEFINE F(d) == Formed(g[1..d]) /\ Exactly(g[1..d]) /\ LeftAt(g[1..d], passes, d)
           D == {d \in Nat : d <= k => F(d)}
<1>5. g[1..0] = b
  <2>1. 1..0 = {} /\ {} \in SUBSET (1..k)
    OBVIOUS
  <2>2. QED
    BY <1>4, <2>1 DEF Runs
<1>6. 0 \in D
  BY <1>3, <1>5
<1>7. ASSUME NEW d \in Nat, d \in D PROVE d + 1 \in D
  <2> SUFFICES ASSUME d + 1 <= k PROVE F(d + 1)
    OBVIOUS
  <2>1. F(d)
    BY <1>2, <1>7
  <2>2. /\ 1..(d + 1) \in SUBSET (1..k) /\ 1..(d + 1) # {} /\ d + 1 \in 1..k
        /\ (1..(d + 1)) \ {d + 1} = 1..d
    <3>1. d + 1 \in 1..k /\ d + 1 \in 1..(d + 1)
      BY <1>2
    <3>2. \A x \in 1..(d + 1) : x \in 1..k
      BY <1>2
    <3>3. \A x : x \in (1..(d + 1)) \ {d + 1} <=> x \in 1..d
      OBVIOUS
    <3>4. (1..(d + 1)) \ {d + 1} = 1..d
      BY <3>3
    <3>5. QED
      BY <3>1, <3>2, <3>4
  <2>3. Max(1..(d + 1)) = d + 1
    BY MaxIs
  <2>4. g[1..(d + 1)] = scale_problem(g[1..d], passes[d + 1])
    BY <1>4, <2>2, <2>3 DEF Runs
  <2>5. IsPass(passes[d + 1], lp) /\ d < Len(passes) /\ Len(passes) \in Nat
    BY <1>2, <2>2 DEF k
  <2> DEFINE a == g[1..d]
             z == scale_problem(a, passes[d + 1])
  <2>6. Formed(a) /\ Exactly(a) /\ LeftAt(a, passes, d)
    BY <2>1
  <2> HIDE DEF a
  <2>7. Formed(z)
    BY <2>5, <2>6, OnePass
  <2>8. Exactly(z) /\ LeftAt(z, passes, d + 1)
    BY <2>5, <2>6, OneExactPass
  <2>9. g[1..(d + 1)] = z
    BY <2>4 DEF a
  <2> HIDE DEF z
  <2>10. QED
    BY <2>7, <2>8, <2>9
<1> HIDE DEF D
<1>8. Nat \subseteq D
  BY <1>6, <1>7, SetInduction
<1>9. F(k)
  BY <1>2, <1>8 DEF D
<1>10. passes = <<>> => k = 0
  BY DEF k
<1>11. QED
  BY <1>4, <1>5, <1>9, <1>10

-----------------------------------------------------------------------------
(* What depends on the program only does not change.                       *)
LEMMA ProgramStays ==
  ASSUME lp' = lp
  PROVE  /\ Rows' = Rows /\ Cols' = Cols /\ nRows' = nRows /\ nColsOrigin' = nColsOrigin
         /\ nCols' = nCols /\ nEqs' = nEqs /\ Columns' = Columns
         /\ \A r : /\ constraint_type(r)' = constraint_type(r) /\ Slack(r)' = Slack(r)
                   /\ constraint_new_idx(r)' = constraint_new_idx(r) /\ Sign(r)' = Sign(r)
                   /\ rhs(r)' = rhs(r)
         /\ \A j : /\ SlackRow(j)' = SlackRow(j) /\ Lo(j)' = Lo(j) /\ Up(j)' = Up(j)
                   /\ CostOf(j)' = CostOf(j)
<1>1. Rows' = Rows /\ Cols' = Cols
  BY DEF Rows, Cols
<1>2. nRows' = nRows /\ nColsOrigin' = nColsOrigin
  BY <1>1, Zenon DEF nRows, nColsOrigin
<1>3. \A r : constraint_type(r)' = constraint_type(r)
  BY DEF constraint_type
<1>4. \A K : OfType(K)' = OfType(K)
  BY <1>1, <1>3 DEF OfType
<1>5. nCols' = nCols /\ nEqs' = nEqs
  BY <1>2, <1>4, Zenon DEF nCols, nEqs
<1>6. Columns' = Columns
  BY <1>5, Zenon DEF Columns
<1>7. \A r : Slack(r)' = Slack(r) /\ constraint_new_idx(r)' = constraint_new_idx(r)
  BY <1>2, <1>4, <1>5, Zenon DEF Slack, constraint_new_idx
<1>8. \A r : Sign(r)' = Sign(r) /\ rhs(r)' = rhs(r)
  BY <1>3 DEF Sign, rhs
<1>9. \A j : SlackRow(j)' = SlackRow(j)
  BY <1>4, <1>7 DEF SlackRow
<1>10. \A j : Lo(j)' = Lo(j) /\ Up(j)' = Up(j) /\ CostOf(j)' = CostOf(j)
  BY <1>1, <1>9 DEF Lo, Up, CostOf
<1>11. QED
  BY <1>1, <1>2, <1>3, <1>5, <1>6, <1>7, <1>8, <1>9, <1>10

(* The entries of the standard form do not change either,                  *)
LEMMA EntriesStay ==
  ASSUME lp' = lp
  PROVE  /\ Nonzeros' = Nonzeros /\ \A e : Entry(e)' = Entry(e)
         /\ Order' = Order /\ Count' = Count /\ csc' = csc
         /\ \A k : Column(k)' = Column(k) /\ RowOf(k)' = RowOf(k)
<1>1. Nonzeros' = Nonzeros
  <2>1. \A j : ({j} \X (DOMAIN lp.col[j].entries))' = {j} \X (DOMAIN lp.col[j].entries)
    BY Zenon
  <2>2. (UNION {{j} \X (DOMAIN lp.col[j].entries) : j \in Cols})'
          = UNION {{j} \X (DOMAIN lp.col[j].entries) : j \in Cols}
    BY ProgramStays, <2>1
  <2>3. ((nColsOrigin..nCols-1) \X {1})' = (nColsOrigin..nCols-1) \X {1}
    BY ProgramStays, Zenon
  <2>4. QED
    BY <2>2, <2>3, Zenon DEF Nonzeros
<1>2. \A e : Entry(e)' = Entry(e)
  BY ProgramStays DEF Entry
<1>3. CscOrder' = CscOrder
  <2>1. nEqs' = nEqs
    BY ProgramStays
  <2>2. QED
    BY <1>1, <1>2, <2>1 DEF CscOrder
<1>4. Order' = Order
  <2>1. Order = InOrder(Nonzeros, CscOrder) /\ Order' = InOrder(Nonzeros', CscOrder')
    BY DEF Order
  <2>2. QED
    BY <1>1, <1>3, <2>1
<1>5. Count' = Count
  BY <1>1, Zenon DEF Count
<1>6. \A k : Column(k)' = Column(k) /\ RowOf(k)' = RowOf(k)
  BY <1>2, <1>4 DEF Column, RowOf
<1>7. csc' = csc
  <2>1. \A j : csc_beg(j)' = csc_beg(j)
    <3>1. \A j : {e \in Nonzeros : e[1] < j}' = {e \in Nonzeros : e[1] < j}
      BY <1>1
    <3>2. QED
      BY <3>1, Zenon DEF csc_beg
  <2>2. csc = [beg |-> [j \in 0..nCols |-> csc_beg(j)],
               elem |-> [k \in DOMAIN Order |-> Entry(Order[k])]]
    BY DEF csc, Order
  <2>3. csc' = [beg |-> [j \in 0..nCols' |-> csc_beg(j)'],
                elem |-> [k \in DOMAIN Order' |-> Entry(Order[k])']]
    BY DEF csc, Order
  <2>4. nCols' = nCols /\ \A k : Entry(Order[k])' = Entry(Order[k])
    BY <1>2, <1>4, ProgramStays DEF Entry
  <2>5. QED
    BY <1>4, <2>1, <2>2, <2>3, <2>4
<1>8. QED
  BY <1>1, <1>2, <1>4, <1>5, <1>6, <1>7

(* nor does what is said of an array.                                      *)
LEMMA FormStays ==
  ASSUME lp' = lp
  PROVE  /\ \A p : Formed(p)' = Formed(p)
         /\ \A p : Exactly(p)' = Exactly(p)
         /\ \A p : UnitScales(p)' = UnitScales(p)
<1>1. \A p : UnitScales(p)' = UnitScales(p)
  BY ProgramStays DEF UnitScales
<1>2. \A p : SameEntries(p)' = SameEntries(p)
  BY EntriesStay DEF SameEntries
<1>3. \A p : Formed(p)' = Formed(p)
  BY <1>2, ProgramStays, EntriesStay DEF Formed, Fields
<1>4. \A p : Exactly(p)' = Exactly(p)
  <2>1. \A k : Entry(Order[k])' = Entry(Order[k])
    <3>1. Order' = Order /\ \A e : Entry(e)' = Entry(e)
      BY EntriesStay
    <3>2. QED
      BY <3>1
  <2>2. QED
    BY <2>1, ProgramStays, EntriesStay DEF Exactly
<1>5. QED
  BY <1>1, <1>3, <1>4

(* Nor does what is judged and returned of a point and its multipliers.    *)
LEMMA SolutionStays ==
  ASSUME lp' = lp, std' = std
  PROVE  \A x, y : /\ PostSolve(x, y)' = PostSolve(x, y)
                   /\ InBounds(x)' = InBounds(x) /\ InCone(y)' = InCone(y)
<1>0. /\ Rows' = Rows /\ Cols' = Cols /\ nRows' = nRows /\ nCols' = nCols
  BY ProgramStays
<1>1. \A j : hasLower(j)' = hasLower(j) /\ hasUpper(j)' = hasUpper(j)
  BY DEF hasLower, hasUpper
<1>2. \A x : InBounds(x)' = InBounds(x) /\ InCone(x)' = InCone(x)
  BY <1>1 DEF InBounds, InCone
<1>4. \A x : Ax(x)' = Ax(x) /\ ATy(x)' = ATy(x)
  BY <1>0, Zenon DEF Ax, ATy
<1>5. ASSUME NEW x PROVE PrimalResidual(x)' = PrimalResidual(x)
  <2> DEFINE v == [r \in DOMAIN Ax(x) |->
                    IF r >= std.nEqs /\ Ax(x)[r] - std.rhs[r] > 0 THEN 0
                    ELSE Ax(x)[r] - std.rhs[r]]
  <2>1. v' = v
    BY <1>4
  <2> DEFINE w == [r \in DOMAIN v |-> IF std.ifScaled THEN v[r] * std.rowScale[r] ELSE v[r]]
  <2>2. PrimalResidual(x) = w /\ PrimalResidual(x)' = w'
    BY DEF PrimalResidual, Unscaled
  <2> HIDE DEF v
  <2>3. w' = w
    BY <2>1
  <2> HIDE DEF w
  <2>4. QED
    BY <2>2, <2>3
<1>6. ASSUME NEW y PROVE DualSide(y)' = DualSide(y)
  <2> DEFINE c == DOMAIN std.cost
             red == [j \in c |-> std.cost[j] - ATy(y)[j]]
             sp == [j \in c |-> IF red[j] > 0 /\ hasLower(j) THEN red[j] ELSE 0]
             sn == [j \in c |-> IF red[j] < 0 /\ hasUpper(j) THEN -red[j] ELSE 0]
             dl == [j \in c |-> IF hasLower(j) THEN std.lower[j] ELSE 0]
             du == [j \in c |-> IF hasUpper(j) THEN std.upper[j] ELSE 0]
             re == [j \in c |-> red[j] - sp[j] + sn[j]]
             un(v) == [j \in DOMAIN v |-> IF std.ifScaled THEN v[j] * std.colScale[j] ELSE v[j]]
             d == [slackPos |-> sp, slackNeg |-> sn, residual |-> un(re),
                   obj |-> Unit * lp.offset + lp.sense * (Dot(std.rhs, y)
                             + Dot(sp, dl) - Dot(sn, du))]
  <2>1. DualSide(y) = d /\ DualSide(y)' = d'
    BY DEF DualSide, Unscaled
  <2>2. c' = c
    OBVIOUS
  <2>3. red' = red
    BY <1>4
  <2>4. dl' = dl /\ du' = du
    BY <1>1
  <2> HIDE DEF red
  <2>5. sp' = sp /\ sn' = sn
    BY <1>1, <2>3
  <2> HIDE DEF sp, sn
  <2>6. re' = re
    BY <2>3, <2>5
  <2> HIDE DEF re, dl, du
  <2>7. d' = d
    BY <2>4, <2>5, <2>6
  <2> HIDE DEF d
  <2>8. QED
    BY <2>1, <2>7
<1>7. \A r, ax, x : RowValue(r, ax, x)' = RowValue(r, ax, x)
  <2>1. nColsOrigin' = nColsOrigin
    BY ProgramStays
  <2>2. QED
    BY <2>1 DEF RowValue
<1>8. \A r, y : RowDual(r, y)' = RowDual(r, y)
  BY DEF RowDual
<1>9. ASSUME NEW x, NEW y PROVE PostSolve(x, y)' = PostSolve(x, y)
  <2> DEFINE dual == DualSide(y)
             un(v, s) == [k \in DOMAIN v |-> IF std.ifScaled THEN v[k] * s[k] ELSE v[k]]
             di(v, s) == [k \in DOMAIN v |-> IF std.ifScaled THEN v[k] \div s[k] ELSE v[k]]
             x0 == di(x, std.colScale)
             y0 == di(y, std.rowScale)
             ax == un(Ax(x), std.rowScale)
             sp == un(dual.slackPos, std.colScale)
             sn == un(dual.slackNeg, std.colScale)
             f1 == [r \in Rows |-> IF std.type[r] = "BOUND" THEN x0[std.slack[r]] ELSE 0]
             f2 == [j \in Cols |-> x0[j]]
             f3 == [r \in Rows |-> RowValue(r, ax, x0)]
             f4 == [j \in Cols |-> lp.sense * (sp[j] - sn[j])]
             f5 == [r \in Rows |-> RowDual(r, y0)]
             s == [primalResidual |-> PrimalResidual(x), dualResidual |-> dual.residual,
                   dualObj |-> dual.obj, slack |-> f1, col_value |-> f2, row_value |-> f3,
                   col_dual |-> f4, row_dual |-> f5]
  <2>1. PostSolve(x, y) = s /\ PostSolve(x, y)' = s'
    BY DEF PostSolve, Unscaled, Divided
  <2>2. dual' = dual
    BY <1>6
  <2> HIDE DEF dual
  <2>3. x0' = x0 /\ y0' = y0 /\ ax' = ax /\ sp' = sp /\ sn' = sn
    BY <1>4, <2>2
  <2> HIDE DEF x0, y0, ax, sp, sn
  <2>4. f1' = f1 /\ f2' = f2
    BY <1>0, <2>3
  <2>5. f3' = f3
    BY <1>0, <1>7, <2>3
  <2>6. f4' = f4
    BY <1>0, <2>3
  <2>7. f5' = f5
    BY <1>0, <1>8, <2>3
  <2> HIDE DEF f1, f2, f3, f4, f5
  <2>8. s' = s
    BY <1>5, <2>2, <2>4, <2>5, <2>6, <2>7
  <2> HIDE DEF s
  <2>9. QED
    BY <2>1, <2>8
<1>10. QED
  BY <1>2, <1>9

(* The point x0 as the solver sees it, and what the solver may answer.     *)
ScaledUp(v, scale) == [k \in DOMAIN scale |-> v[k] * scale[k]]

Answer(x0, y0, x, y) ==
  /\ x = ScaledUp(x0, std.colScale) /\ y = ScaledUp(y0, std.rowScale)
  /\ InBounds(x) /\ InCone(y) /\ sol = PostSolve(x, y)

(* What holds of the program, its standard form and what is returned: the  *)
(* form is exactly the program's in whatever scale, csr is csc transposed, *)
(* and what is judged and returned is that of one point and one vector of  *)
(* multipliers.                                                            *)
FormInv ==
  /\ lp \in Models
  /\ pc \in {"Loaded", "Formulated", "Scaled", "Solved"}
  /\ pc # "Loaded" => Formed(std) /\ Exactly(std)
  /\ pc = "Formulated" \/ (pc \in {"Scaled", "Solved"} /\ ~ std.ifScaled) => UnitScales(std)
  /\ pc \in {"Scaled", "Solved"} =>
       std.ifScaled \in BOOLEAN /\ std.csr = transpose(std.csc, nRows)
  /\ pc = "Solved" =>
       \E x0 \in [Columns -> XValues], y0 \in [Rows -> YValues] :
       \E x \in {ScaledUp(x0, std.colScale)}, y \in {ScaledUp(y0, std.rowScale)} :
         Answer(x0, y0, x, y)

(* The form depends on what Formed and Exactly speak of only.              *)
LEMMA SameForm ==
  ASSUME NEW p, NEW q, Formed(p), DOMAIN q = Fields,
         \A f \in Fields \ {"csr", "ifScaled"} : q[f] = p[f]
  PROVE  /\ Formed(q) /\ (Exactly(p) => Exactly(q)) /\ (UnitScales(p) => UnitScales(q))
<1>1. /\ q.nEqs = p.nEqs /\ q.type = p.type /\ q.new = p.new /\ q.slack = p.slack
      /\ q.cost = p.cost /\ q.lower = p.lower /\ q.upper = p.upper /\ q.rhs = p.rhs
      /\ q.csc = p.csc /\ q.colScale = p.colScale /\ q.rowScale = p.rowScale
  BY DEF Fields
<1>2. Formed(q)
  BY <1>1 DEF Formed
<1>3. Exactly(p) => Exactly(q)
  BY <1>1 DEF Exactly
<1>4. UnitScales(p) => UnitScales(q)
  BY <1>1 DEF UnitScales
<1>5. QED
  BY <1>2, <1>3, <1>4

-----------------------------------------------------------------------------
(* The inductive invariant, from the program loaded to the solution.       *)
LEMMA FormInit == Init => FormInv
BY DEF Init, FormInv

(* The matrix that formulateLP_highs leaves lists the entries.             *)
LEMMA CscFormed ==
  ASSUME lp \in Models
  PROVE  /\ DOMAIN csc = {"beg", "elem"} /\ SameEntries(csc) /\ csc.beg[nCols] = Count
         /\ \A k \in 1..Count : /\ DOMAIN csc.elem[k] = {"idx", "val"}
                               /\ csc.elem[k].val = Entry(Order[k]).val
                               /\ Entry(Order[k]).val \in Int
<1>1. /\ DOMAIN csc = {"beg", "elem"} /\ DOMAIN csc.elem = 1..Count
      /\ csc.beg[nCols] = Count
      /\ \A k \in 1..Count : csc.elem[k] = Entry(Order[k])
  <2> DEFINE beg == [j \in 0..nCols |-> csc_beg(j)]
             F(k) == Entry(Order[k])
             elem == [k \in 1..Count |-> F(k)]
  <2>1. csc = [beg |-> beg, elem |-> elem]
    BY CscIs
  <2>5. beg[nCols] = Count
    <3>1. nCols \in 0..nCols
      BY Kinds
    <3>2. csc_beg(nCols) = Count
      BY CscIs
    <3>3. QED
      BY <3>1, <3>2
  <2> HIDE DEF beg, F
  <2>2. DOMAIN csc = {"beg", "elem"} /\ csc.elem = elem /\ csc.beg = beg
    BY <2>1
  <2>3. DOMAIN csc.elem = 1..Count /\ \A k \in 1..Count : csc.elem[k] = F(k)
    BY <2>2
  <2>4. QED
    BY <2>2, <2>3, <2>5 DEF F
<1>2. \A e : DOMAIN Entry(e) = {"idx", "val"}
  BY DEF Entry
<1>3. \A k \in 1..Count : Entry(Order[k]).val \in Int
  BY EntryOf, OrderLists
<1>4. SameEntries(csc)
  BY <1>1, <1>3 DEF SameEntries, RowOf
<1>5. QED
  BY <1>1, <1>2, <1>3, <1>4

(* formulateLP_highs forms it, exactly.                                    *)
LEMMA FormFormulate ==
  ASSUME FormInv, Formulate
  PROVE  FormInv'
<1>1. /\ pc = "Loaded" /\ pc' = "Formulated" /\ lp' = lp /\ lp \in Models
  BY DEF Formulate, FormInv
<1>2. /\ DOMAIN std' = Fields
      /\ std'.nEqs = nEqs
      /\ std'.type = [r \in Rows |-> constraint_type(r)]
      /\ std'.new = [r \in Rows |-> constraint_new_idx(r)]
      /\ std'.slack = [r \in Rows |-> Slack(r)]
      /\ std'.lower = [j \in 0..nCols-1 |-> Lo(j)]
      /\ std'.upper = [j \in 0..nCols-1 |-> Up(j)]
      /\ std'.csc = csc
      /\ std'.colScale = [j \in 0..nCols-1 |-> 1]
      /\ std'.rowScale = [r \in 0..nRows-1 |-> 1]
  BY DEF Formulate, Fields, Lo, Up
<1>3. std'.cost = [j \in 0..nCols-1 |->
                    IF j \in Cols THEN Unit * lp.sense * lp.col[j].cost ELSE 0]
  BY DEF Formulate
<1>4. /\ DOMAIN std'.rhs = {constraint_new_idx(r) : r \in Rows}
      /\ \A r \in Rows : std'.rhs[constraint_new_idx(r)] = Unit * rhs(r)
  <2> DEFINE new == [s \in Rows |-> constraint_new_idx(s)]
             old(q) == CHOOSE s \in Rows : new[s] = q
             F(q) == Unit * rhs(old(q))
  <2>1. std'.rhs = [q \in {new[s] : s \in Rows} |-> F(q)]
    BY DEF Formulate
  <2>2. \A s \in Rows : new[s] = constraint_new_idx(s)
    OBVIOUS
  <2>3. ASSUME NEW r \in Rows PROVE F(constraint_new_idx(r)) = Unit * rhs(r)
    <3>1. old(constraint_new_idx(r)) \in Rows
          /\ new[old(constraint_new_idx(r))] = constraint_new_idx(r)
      BY <2>2
    <3>2. old(constraint_new_idx(r)) = r
      BY <1>1, <2>2, <3>1, Places
    <3>3. QED
      BY <3>2
  <2> HIDE DEF new, F
  <2>4. QED
    BY <2>1, <2>2, <2>3
<1>5. {constraint_new_idx(r) : r \in Rows} = Rows /\ Rows = 0..nRows-1
  BY <1>1, Places, Shape
<1>6. ASSUME NEW j \in Columns PROVE Lo(j) * 1 = Lo(j) /\ Up(j) * 1 = Up(j)
  <2>1. Lo(j) \in Int /\ Up(j) \in Int
    BY <1>1, BoundsAreNumbers
  <2>2. QED
    BY <2>1
<1>7. Formed(std')
  <2>1. /\ DOMAIN std'.cost = Columns /\ DOMAIN std'.rhs = Rows
    BY <1>3, <1>4, <1>5 DEF Columns
  <2>2. /\ std'.colScale \in [Columns -> Nat \ {0}] /\ std'.rowScale \in [Rows -> Nat \ {0}]
        /\ std'.lower = [j \in Columns |-> Lo(j) * std'.colScale[j]]
        /\ std'.upper = [j \in Columns |-> Up(j) * std'.colScale[j]]
    BY <1>2, <1>5, <1>6 DEF Columns
  <2>3. DOMAIN std'.csc = {"beg", "elem"} /\ SameEntries(std'.csc)
    BY <1>1, <1>2, CscFormed
  <2>4. \A k \in 1..Count : DOMAIN std'.csc.elem[k] = {"idx", "val"}
    BY <1>1, <1>2, CscFormed
  <2>5. QED
    BY <1>2, <2>1, <2>2, <2>3, <2>4 DEF Formed
<1>8. UnitScales(std')
  BY <1>2, <1>5 DEF UnitScales, Columns
<1>9. Exactly(std')
  <2>1. ASSUME NEW k \in 1..Count
        PROVE  std'.csc.elem[k].val * (std'.rowScale[RowOf(k)] * std'.colScale[Column(k)])
                 = Entry(Order[k]).val
    <3>1. std'.csc.elem[k].val = Entry(Order[k]).val /\ Entry(Order[k]).val \in Int
      BY <1>1, <1>2, CscFormed
    <3>2. std'.rowScale[RowOf(k)] = 1 /\ std'.colScale[Column(k)] = 1
      BY <1>1, <1>8, OrderLists DEF UnitScales
    <3>3. QED
      BY <3>1, <3>2
  <2>2. ASSUME NEW j \in Columns
        PROVE  std'.cost[j] \in Int /\ std'.cost[j] * std'.colScale[j] = Unit * CostOf(j)
    <3>1. std'.colScale[j] = 1 /\ Unit \in Nat
      BY <1>8, UnitsAssumption DEF UnitScales
    <3>2. CASE j \in Cols
      <4>1. std'.cost[j] = Unit * lp.sense * lp.col[j].cost /\ CostOf(j) = lp.sense * lp.col[j].cost
        BY <1>3, <3>2 DEF CostOf, Columns
      <4>2. lp.sense \in Int /\ lp.col[j].cost \in Int
        BY <1>1, <3>2, ColumnOf, Numbers
      <4>3. QED
        BY <3>1, <4>1, <4>2
    <3>3. CASE j \notin Cols
      <4>1. std'.cost[j] = 0 /\ CostOf(j) = 0
        BY <1>3, <3>3 DEF CostOf, Columns
      <4>2. QED
        BY <3>1, <4>1
    <3>4. QED
      BY <3>2, <3>3
  <2>3. ASSUME NEW r \in Rows
        PROVE  LET s == constraint_new_idx(r)
               IN  std'.rhs[s] \in Int /\ std'.rhs[s] * std'.rowScale[s] = Unit * rhs(r)
    <3> DEFINE s == constraint_new_idx(r)
    <3>1. s \in Rows
      BY <1>5
    <3>2. std'.rowScale[s] = 1 /\ Unit \in Nat
      BY <1>8, <3>1, UnitsAssumption DEF UnitScales
    <3>3. std'.rhs[s] = Unit * rhs(r) /\ rhs(r) \in Int
      BY <1>1, <1>4, Numbers
    <3>4. QED
      BY <3>2, <3>3
  <2>4. /\ \A j \in Columns : std'.colScale[j] = 1 /\ 1 <= Unit
        /\ \A r \in Rows : std'.rowScale[r] = 1
    BY <1>8, UnitsAssumption DEF UnitScales
  <2>5. QED
    BY <2>1, <2>2, <2>3, <2>4 DEF Exactly
<1>10. Formed(std)' /\ Exactly(std)' /\ UnitScales(std)'
  BY <1>1, <1>7, <1>8, <1>9, FormStays
<1>11. QED
  BY <1>1, <1>10 DEF FormInv

(* PDHG_Scale_Data keeps it, with any passes.                              *)
LEMMA FormScale ==
  ASSUME FormInv, NEW passes \in Passes, NEW ifScaled \in BOOLEAN, Scale(passes, ifScaled)
  PROVE  FormInv'
<1> DEFINE p == FoldLeft(scale_problem, std, passes)
           t == transpose(p.csc, nRows)
<1>1. /\ pc = "Formulated" /\ pc' = "Scaled" /\ lp' = lp
      /\ passes # <<>> => ifScaled
      /\ std' = [p EXCEPT !.csr = t, !.ifScaled = ifScaled]
  BY DEF Scale
<1>2. lp \in Models /\ Formed(std) /\ Exactly(std) /\ UnitScales(std)
  BY <1>1 DEF FormInv
<1>3. Formed(p) /\ Exactly(p) /\ (passes = <<>> => p = std)
  BY <1>2, AllPasses
<1> HIDE DEF p
<1>4. DOMAIN p = Fields
  BY <1>3 DEF Formed
<1> HIDE DEF t
<1>5. /\ DOMAIN std' = Fields /\ \A f \in Fields \ {"csr", "ifScaled"} : std'[f] = p[f]
      /\ std'.csr = t /\ std'.ifScaled = ifScaled
  BY <1>1, <1>4 DEF Fields
<1>6. Formed(std') /\ Exactly(std') /\ (~ ifScaled => UnitScales(std'))
  BY <1>1, <1>2, <1>3, <1>5, SameForm
<1>7. Formed(std)' /\ Exactly(std)' /\ (~ ifScaled => UnitScales(std)')
  BY <1>1, <1>6, FormStays
<1>8. std'.csr = transpose(std'.csc, nRows')
  <2>1. std'.csc = p.csc /\ nRows' = nRows
    BY <1>1, <1>5, ProgramStays DEF Fields
  <2>2. QED
    BY <1>5, <2>1 DEF t
<1>9. (std.csr = transpose(std.csc, nRows))'
  BY <1>8 DEF transpose, Major, RowOrder, InOrder
<1>10. QED
  BY <1>1, <1>2, <1>5, <1>7, <1>9 DEF FormInv

-----------------------------------------------------------------------------
(* An answer stays one as long as the program and its form do.             *)
LEMMA AnswerStays ==
  ASSUME lp' = lp, std' = std, NEW x0, NEW y0, NEW x, NEW y
  PROVE  /\ ScaledUp(x0, std.colScale)' = ScaledUp(x0, std.colScale)
         /\ ScaledUp(y0, std.rowScale)' = ScaledUp(y0, std.rowScale)
         /\ sol' = PostSolve(x, y) /\ x = ScaledUp(x0, std.colScale)
              /\ y = ScaledUp(y0, std.rowScale) /\ InBounds(x) /\ InCone(y)
            => Answer(x0, y0, x, y)'
<1>1. /\ ScaledUp(x0, std.colScale)' = ScaledUp(x0, std.colScale)
      /\ ScaledUp(y0, std.rowScale)' = ScaledUp(y0, std.rowScale)
  BY DEF ScaledUp
<1>2. /\ PostSolve(x, y)' = PostSolve(x, y)
      /\ InBounds(x)' = InBounds(x) /\ InCone(y)' = InCone(y)
  BY SolutionStays
<1>3. QED
  BY <1>1, <1>2 DEF Answer

(* The transposed matrix stays what it is.                                 *)
LEMMA CsrStays ==
  ASSUME lp' = lp, std' = std
  PROVE  (std.csr = transpose(std.csc, nRows))' = (std.csr = transpose(std.csc, nRows))
<1>1. nRows' = nRows
  BY ProgramStays
<1>2. QED
  BY <1>1 DEF transpose, Major, RowOrder, InOrder

(* PDHG_PostSolve returns an answer.                                       *)
LEMMA FormSolve ==
  ASSUME FormInv, Solve
  PROVE  FormInv'
<1>1. /\ pc = "Scaled" /\ pc' = "Solved" /\ lp' = lp /\ std' = std
      /\ lp \in Models /\ Formed(std) /\ Exactly(std) /\ std.ifScaled \in BOOLEAN
      /\ (~ std.ifScaled => UnitScales(std)) /\ std.csr = transpose(std.csc, nRows)
  BY DEF Solve, FormInv
<1>2. PICK x0 \in [DOMAIN std.cost -> XValues], y0 \in [DOMAIN std.rhs -> YValues] :
        LET x == [j \in DOMAIN x0 |-> x0[j] * std.colScale[j]]
            y == [r \in DOMAIN y0 |-> y0[r] * std.rowScale[r]]
        IN InBounds(x) /\ InCone(y) /\ sol' = PostSolve(x, y)
  BY DEF Solve
<1>3. /\ DOMAIN std.cost = Columns /\ DOMAIN std.rhs = Rows
      /\ DOMAIN std.colScale = Columns /\ DOMAIN std.rowScale = Rows
  BY <1>1 DEF Formed
<1> DEFINE x == ScaledUp(x0, std.colScale)
           y == ScaledUp(y0, std.rowScale)
<1>4. /\ x = [j \in DOMAIN x0 |-> x0[j] * std.colScale[j]]
      /\ y = [r \in DOMAIN y0 |-> y0[r] * std.rowScale[r]]
  BY <1>2, <1>3 DEF ScaledUp
<1>5. InBounds(x) /\ InCone(y) /\ sol' = PostSolve(x, y)
  BY <1>2, <1>4
<1>6. PICK u, v : u = x /\ v = y
  OBVIOUS
<1>7. InBounds(u) /\ InCone(v) /\ sol' = PostSolve(u, v)
  BY <1>5, <1>6
<1>8. /\ u = ScaledUp(x0, std.colScale)' /\ v = ScaledUp(y0, std.rowScale)'
      /\ Answer(x0, y0, u, v)'
  BY <1>1, <1>6, <1>7, AnswerStays
<1>9. x0 \in [Columns' -> XValues] /\ y0 \in [Rows' -> YValues]
  BY <1>1, <1>2, <1>3, ProgramStays
<1>10. (std.csr = transpose(std.csc, nRows))'
  BY <1>1, CsrStays
<1>11. Formed(std)' /\ Exactly(std)' /\ (~ std'.ifScaled => UnitScales(std)')
  BY <1>1, FormStays
<1>12. (\E a \in [Columns -> XValues], b \in [Rows -> YValues] :
        \E c \in {ScaledUp(a, std.colScale)}, d \in {ScaledUp(b, std.rowScale)} :
          Answer(a, b, c, d))'
  BY <1>8, <1>9
<1>13. QED
  BY <1>1, <1>10, <1>11, <1>12 DEF FormInv

(* What the other parts of the program do leaves it alone.                 *)
LEMMA FormStutter ==
  ASSUME FormInv, UNCHANGED vars
  PROVE  FormInv'
<1>1. lp' = lp /\ pc' = pc /\ std' = std /\ sol' = sol
  BY DEF vars
<1>2. /\ Formed(std)' = Formed(std) /\ Exactly(std)' = Exactly(std)
      /\ UnitScales(std)' = UnitScales(std) /\ nRows' = nRows
  BY <1>1, FormStays, ProgramStays
<1>3. (std.csr = transpose(std.csc, nRows))' = (std.csr = transpose(std.csc, nRows))
  BY <1>1, CsrStays
<1>4. ASSUME pc = "Solved"
      PROVE  (\E a \in [Columns -> XValues], b \in [Rows -> YValues] :
              \E c \in {ScaledUp(a, std.colScale)}, d \in {ScaledUp(b, std.rowScale)} :
                Answer(a, b, c, d))'
  <2>0. PICK a \in [Columns -> XValues], b \in [Rows -> YValues] : \E c, d : Answer(a, b, c, d)
    BY <1>4 DEF FormInv
  <2>1. PICK c, d : Answer(a, b, c, d)
    BY <2>0
  <2>2. /\ c = ScaledUp(a, std.colScale)' /\ d = ScaledUp(b, std.rowScale)'
        /\ Answer(a, b, c, d)'
    BY <1>1, <2>1, AnswerStays DEF Answer
  <2>3. a \in [Columns' -> XValues] /\ b \in [Rows' -> YValues]
    BY <1>1, ProgramStays
  <2>4. QED
    BY <2>2, <2>3
<1>5. QED
  BY <1>1, <1>2, <1>3, <1>4 DEF FormInv

(* The invariant holds of every program.                                   *)
LEMMA FormCorrect == Spec => []FormInv
<1>1. Init => FormInv
  BY FormInit
<1>2. FormInv /\ [Next]_vars => FormInv'
  BY FormFormulate, FormScale, FormSolve, FormStutter DEF Next
<1>3. QED
  BY <1>1, <1>2, PTL DEF Spec

-----------------------------------------------------------------------------
(* Well-formed arrays place every row.                                     *)
LEMMA FormedIsPlaced ==
  ASSUME lp \in Models, Formed(std)
  PROVE  RowsPlaced /\ DOMAIN std.rhs = 0..(nRows - 1)
<1>1. /\ std.nEqs = nEqs /\ DOMAIN std.rhs = Rows
      /\ \A r \in Rows : /\ std.type[r] = constraint_type(r) /\ std.new[r] = constraint_new_idx(r)
                         /\ std.slack[r] = Slack(r)
  BY DEF Formed
<1>2. /\ \A r \in Rows : r \in Eqs <=> std.type[r] \in {"EQ", "BOUND"}
      /\ Bound = {r \in Rows : std.type[r] = "BOUND"} /\ Bound \subseteq Rows
  BY <1>1 DEF Eqs, Bound, OfType
<1>3. {std.new[r] : r \in Rows} = 0..(nRows - 1)
  <2>1. {std.new[r] : r \in Rows} = {constraint_new_idx(r) : r \in Rows}
    BY <1>1
  <2>2. QED
    BY <2>1, Places
<1>4. {std.slack[r] : r \in Bound} = nColsOrigin..(nCols - 1)
  <2>1. {std.slack[r] : r \in Bound} = {Slack(r) : r \in Bound}
    BY <1>1, <1>2
  <2>2. QED
    BY <2>1, SlackPlaces
<1>5. \A r, s \in Bound : r # s => std.slack[r] # std.slack[s]
  BY <1>1, <1>2, SlackPlaces
<1>6. /\ \A r, s \in Rows : r # s => std.new[r] # std.new[s]
      /\ \A r \in Rows : r \in Eqs <=> std.new[r] < std.nEqs
      /\ \A r, s \in Rows : r < s /\ (r \in Eqs <=> s \in Eqs) => std.new[r] < std.new[s]
  BY <1>1, Places
<1>7. RowsPlaced
  BY <1>2, <1>3, <1>4, <1>5, <1>6 DEF RowsPlaced
<1>8. QED
  BY <1>1, <1>7, Shape

(* The transposed matrix has as many entries.                              *)
LEMMA TransposeHas ==
  ASSUME lp \in Models, NEW m, SameEntries(m)
  PROVE  transpose(m, nRows).beg[nRows] = Count /\ DOMAIN transpose(m, nRows).elem = 1..Count
<1> DEFINE t == transpose(m, nRows)
           F(k) == [idx |-> Column(Sorted(m)[k]), val |-> m.elem[Sorted(m)[k]].val]
<1>1. t.beg[nRows] = Count /\ t.elem = [k \in 1..Count |-> F(k)]
  BY TransposeIs
<1> HIDE DEF t, F
<1>2. t.beg[nRows] = Count /\ DOMAIN t.elem = 1..Count
  BY <1>1
<1>3. QED
  BY <1>2 DEF t

(* What is numbered from one has a length.                                 *)
LEMMA Numbered ==
  ASSUME NEW s, NEW k \in Nat, DOMAIN s = 1..k
  PROVE  Len(s) = k
OBVIOUS

(* The permutation of formulateLP_highs is one, equations first, slacks    *)
(* one to one with BOUND rows, for every program; no pass of               *)
(* PDHG_Scale_Data disturbs it.                                            *)
THEOREM RowsKeepTheirPlaces == Spec => [](pc # "Loaded" => RowsPlaced)
<1>1. FormInv => (pc # "Loaded" => RowsPlaced)
  BY FormedIsPlaced DEF FormInv
<1>2. QED
  BY <1>1, FormCorrect, PTL

(* The arrays have the shape they should in every state, and the counting  *)
(* sort of csc2csr keeps every entry of csc, for every program and every   *)
(* sequence of passes.                                                     *)
THEOREM TypeCorrect == Spec => []TypeOK
<1>1. ASSUME FormInv, pc # "Loaded"
      PROVE  /\ RowsPlaced /\ DOMAIN std.rhs = 0..(nRows - 1)
             /\ std.csc.beg[nCols] = Len(std.csc.elem)
             /\ Len(std.csc.elem) = Count /\ Count \in Nat
  <2>1. lp \in Models /\ Formed(std)
    BY <1>1 DEF FormInv
  <2>2. std.csc.beg[nCols] = Count /\ DOMAIN std.csc.elem = 1..Count /\ Count \in Nat
    BY <2>1, CscFormed, OrderLists DEF Formed, SameEntries
  <2>3. Len(std.csc.elem) = Count
    BY <2>2, Numbered
  <2>4. QED
    BY <2>1, <2>2, <2>3, FormedIsPlaced
<1>2. ASSUME FormInv, pc \in {"Scaled", "Solved"}
      PROVE  std.csr.beg[nRows] = Count /\ Len(std.csr.elem) = Count
  <2>1. lp \in Models /\ SameEntries(std.csc) /\ std.csr = transpose(std.csc, nRows)
    BY <1>2 DEF FormInv, Formed
  <2>2. std.csr.beg[nRows] = Count /\ DOMAIN std.csr.elem = 1..Count /\ Count \in Nat
    BY <2>1, TransposeHas, OrderLists
  <2>3. QED
    BY <2>2, Numbered
<1>3. FormInv => TypeOK
  BY <1>1, <1>2 DEF TypeOK, FormInv
<1>4. QED
  BY <1>3, FormCorrect, PTL

-----------------------------------------------------------------------------
(* What problem_alloc leaves for the solver.                               *)
Ready ==
  /\ lp \in Models /\ Formed(std) /\ Exactly(std)
  /\ std.ifScaled \in BOOLEAN /\ (~ std.ifScaled => UnitScales(std))
  /\ std.csr = transpose(std.csc, nRows)

(* Scales are positive, none is beyond the unit, and all are one where     *)
(* nothing was scaled.                                                     *)
LEMMA Scales ==
  ASSUME Ready
  PROVE  /\ DOMAIN std.colScale = Columns /\ DOMAIN std.rowScale = Rows
         /\ \A j \in Columns : std.colScale[j] \in Nat \ {0} /\ std.colScale[j] <= Unit
         /\ \A r \in Rows : std.rowScale[r] \in Nat \ {0}
         /\ ~ std.ifScaled => (\A j \in Columns : std.colScale[j] = 1)
                              /\ (\A r \in Rows : std.rowScale[r] = 1)
<1>1. Formed(std) /\ Exactly(std) /\ (~ std.ifScaled => UnitScales(std))
  BY DEF Ready
<1>2. std.colScale \in [Columns -> Nat \ {0}] /\ std.rowScale \in [Rows -> Nat \ {0}]
  BY <1>1 DEF Formed
<1>3. \A j \in Columns : std.colScale[j] <= Unit
  BY <1>1 DEF Exactly
<1>4. QED
  BY <1>1, <1>2, <1>3 DEF UnitScales

(* Unscaled multiplies and Divided divides, whether or not ifScaled says   *)
(* that there is anything to do.                                           *)
LEMMA UnscaledIs ==
  ASSUME NEW v, NEW scale, \A k \in DOMAIN v : v[k] \in Int,
         ~ std.ifScaled => \A k \in DOMAIN v : scale[k] = 1
  PROVE  /\ DOMAIN Unscaled(v, scale) = DOMAIN v
         /\ \A k \in DOMAIN v : Unscaled(v, scale)[k] = v[k] * scale[k]
BY DEF Unscaled

(* What is scaled up and divided is what it was.                           *)
LEMMA DividedIs ==
  ASSUME NEW scale, NEW v, \A k \in DOMAIN scale : v[k] \in Int /\ scale[k] \in Nat \ {0},
         ~ std.ifScaled => \A k \in DOMAIN scale : scale[k] = 1
  PROVE  /\ DOMAIN ScaledUp(v, scale) = DOMAIN scale
         /\ DOMAIN Divided(ScaledUp(v, scale), scale) = DOMAIN scale
         /\ \A k \in DOMAIN scale : /\ ScaledUp(v, scale)[k] = v[k] * scale[k]
                                    /\ ScaledUp(v, scale)[k] \in Int
                                    /\ Divided(ScaledUp(v, scale), scale)[k] = v[k]
<1> DEFINE u == ScaledUp(v, scale)
<1>1. DOMAIN u = DOMAIN scale /\ \A k \in DOMAIN scale : u[k] = v[k] * scale[k]
  BY DEF ScaledUp
<1> HIDE DEF u
<1>2. /\ DOMAIN Divided(u, scale) = DOMAIN scale
      /\ \A k \in DOMAIN scale :
           Divided(u, scale)[k] = IF std.ifScaled THEN u[k] \div scale[k] ELSE u[k]
  BY <1>1 DEF Divided
<1>3. ASSUME NEW k \in DOMAIN scale
      PROVE  u[k] \in Int /\ Divided(u, scale)[k] = v[k]
  <2>1. v[k] \in Int /\ scale[k] \in Nat \ {0} /\ u[k] = v[k] * scale[k]
    BY <1>1
  <2>2. (v[k] * scale[k]) \div scale[k] = v[k]
    BY <2>1, Products
  <2>3. ~ std.ifScaled => u[k] = v[k]
    BY <2>1
  <2>4. QED
    BY <1>2, <2>1, <2>2, <2>3
<1>4. QED
  BY <1>1, <1>2, <1>3 DEF u

-----------------------------------------------------------------------------
(* A bound is one in every scale, and none in none.                        *)
LEMMA InfinityStays ==
  ASSUME NEW b \in Int, NEW s \in Nat \ {0}, s <= Unit
  PROVE  /\ (b > -Infinity => Unit * b > -Infinity) => (b * s > -Infinity <=> b > -Infinity)
         /\ (b < Infinity => Unit * b < Infinity) => (b * s < Infinity <=> b < Infinity)
<1>1. Infinity \in Nat /\ Unit \in Nat \ {0}
  BY UnitsAssumption
<1>2. CASE b >= 0
  <2>1. b * s >= b /\ b * s <= Unit * b
    BY <1>1, <1>2
  <2>2. QED
    BY <1>1, <1>2, <2>1
<1>3. CASE b < 0
  <2>1. b * s <= b /\ b * s >= Unit * b
    BY <1>1, <1>3
  <2>2. QED
    BY <1>1, <1>3, <2>1
<1>4. QED
  BY <1>2, <1>3

(* The bounds of columns and slacks stay numbers, or none, in every scale. *)
LEMMA BoundsOf ==
  ASSUME lp \in Models, NEW j \in Columns
  PROVE  /\ Lo(j) \in Int /\ (Lo(j) > -Infinity => Unit * Lo(j) > -Infinity)
         /\ Up(j) \in Int /\ (Up(j) < Infinity => Unit * Up(j) < Infinity)
<1>1. CASE j \in Cols
  <2>1. HasBounds(lp.col[j])
    BY <1>1, ColumnOf
  <2>2. QED
    BY <1>1, <2>1 DEF HasBounds, Lo, Up
<1>2. CASE j \notin Cols
  <2>1. SlackRow(j) \in Rows
    BY <1>2, SlackRows
  <2>2. HasBounds(lp.row[SlackRow(j)])
    BY <2>1, ModelsAssumption DEF Rows
  <2>3. QED
    BY <1>2, <2>2 DEF HasBounds, Lo, Up
<1>3. QED
  BY <1>1, <1>2

(* The solver sees a bound where the program has one.                      *)
LEMMA LowerUpper ==
  ASSUME Ready, NEW j \in Columns
  PROVE  /\ hasLower(j) <=> Lo(j) > -Infinity
         /\ hasUpper(j) <=> Up(j) < Infinity
         /\ std.lower[j] = Lo(j) * std.colScale[j] /\ std.upper[j] = Up(j) * std.colScale[j]
         /\ Lo(j) \in Int /\ Up(j) \in Int
<1>1. lp \in Models /\ Formed(std)
  BY DEF Ready
<1>2. std.lower[j] = Lo(j) * std.colScale[j] /\ std.upper[j] = Up(j) * std.colScale[j]
  BY <1>1 DEF Formed
<1>3. /\ Lo(j) \in Int /\ (Lo(j) > -Infinity => Unit * Lo(j) > -Infinity)
      /\ Up(j) \in Int /\ (Up(j) < Infinity => Unit * Up(j) < Infinity)
  BY <1>1, BoundsOf
<1>4. std.colScale[j] \in Nat \ {0} /\ std.colScale[j] <= Unit
  BY Scales
<1>5. /\ Lo(j) * std.colScale[j] > -Infinity <=> Lo(j) > -Infinity
      /\ Up(j) * std.colScale[j] < Infinity <=> Up(j) < Infinity
  BY <1>3, <1>4, InfinityStays
<1>6. QED
  BY <1>2, <1>3, <1>5 DEF hasLower, hasUpper

(* A point is within the scaled bounds where it is within the bounds.      *)
LEMMA InBoundsIs ==
  ASSUME Ready, NEW v \in [Columns -> Int]
  PROVE  InBounds(ScaledUp(v, std.colScale)) <=>
           \A j \in Columns : /\ Lo(j) > -Infinity => Lo(j) <= v[j]
                              /\ Up(j) < Infinity => v[j] <= Up(j)
<1> DEFINE x == ScaledUp(v, std.colScale)
<1>1. DOMAIN x = Columns /\ \A j \in Columns : x[j] = v[j] * std.colScale[j]
  BY Scales DEF ScaledUp
<1> HIDE DEF x
<1>2. ASSUME NEW j \in Columns
      PROVE  /\ std.lower[j] <= x[j] <=> Lo(j) <= v[j]
             /\ x[j] <= std.upper[j] <=> v[j] <= Up(j)
  <2>1. /\ std.lower[j] = Lo(j) * std.colScale[j] /\ std.upper[j] = Up(j) * std.colScale[j]
        /\ Lo(j) \in Int /\ Up(j) \in Int /\ v[j] \in Int /\ std.colScale[j] \in Nat \ {0}
    BY LowerUpper, Scales
  <2>2. \A a, b \in Int : \A s \in Nat \ {0} : a * s <= b * s <=> a <= b
    OBVIOUS
  <2>3. QED
    BY <1>1, <2>1, <2>2
<1>3. InBounds(x) <=> \A j \in Columns : /\ hasLower(j) => std.lower[j] <= x[j]
                                         /\ hasUpper(j) => x[j] <= std.upper[j]
  BY <1>1 DEF InBounds
<1>4. QED
  BY <1>2, <1>3, LowerUpper DEF x

(* Multipliers are in the scaled cone where they are in the cone.          *)
LEMMA InConeIs ==
  ASSUME Ready, NEW v \in [Rows -> Int]
  PROVE  InCone(ScaledUp(v, std.rowScale)) <=> \A r \in Rows : r >= nEqs => v[r] >= 0
<1> DEFINE y == ScaledUp(v, std.rowScale)
<1>1. DOMAIN y = Rows /\ \A r \in Rows : y[r] = v[r] * std.rowScale[r]
  BY Scales DEF ScaledUp
<1> HIDE DEF y
<1>2. ASSUME NEW r \in Rows PROVE y[r] >= 0 <=> v[r] >= 0
  <2>1. v[r] \in Int /\ std.rowScale[r] \in Nat \ {0}
    BY Scales
  <2>2. \A a \in Int : \A s \in Nat \ {0} : a * s >= 0 <=> a >= 0
    OBVIOUS
  <2>3. QED
    BY <1>1, <2>1, <2>2
<1>3. std.nEqs = nEqs
  BY DEF Ready, Formed
<1>4. QED
  BY <1>1, <1>2, <1>3 DEF InCone, y

-----------------------------------------------------------------------------
(* AxCPU: scaled back, it is what the entries of the row add up to.        *)
LEMMA AxIs ==
  ASSUME Ready, NEW v \in [Columns -> Int], NEW r \in Rows
  PROVE  LET ax == Ax(ScaledUp(v, std.colScale))
         IN  DOMAIN ax = Rows /\ ax[r] \in Int /\ ax[r] * std.rowScale[r] = RowSum(r, v)
<1> DEFINE x == ScaledUp(v, std.colScale)
           m == std.csc
           D == 1..Count
           f == Terms(m, x)
           S == Hits(m, r)
           a0 == std.rowScale[r]
           b == [p \in D |-> Order[p]]
           g == RowTerm(v)
           h == [p \in D |-> g[b[p]]]
<1>1. lp \in Models /\ SameEntries(m) /\ Exactly(std) /\ Rows = 0..(nRows - 1)
  BY Shape DEF Ready, Formed
<1>2. /\ m.beg = csc.beg /\ DOMAIN m.elem = D /\ IsFiniteSet(D)
      /\ \A p \in D : m.elem[p].idx = RowOf(p) /\ m.elem[p].val \in Int
  BY <1>1, OrderLists DEF SameEntries
<1>3. \A p \in D : Major(m)[p] = Column(p)
  <2>1. Major(m) = [p \in 1..Count |-> Column(p)]
    BY <1>1, <1>2, CscIs
  <2>2. QED
    BY <2>1
<1>4. Ax(x)[r] = SumOf(f, S) /\ DOMAIN Ax(x) = Rows
  <2>1. Ax(x) = Scatter(m, x, nRows)
    BY DEF Ax
  <2>2. DOMAIN Scatter(m, x, nRows) = 0..(nRows - 1)
    BY DEF Scatter
  <2>3. IsFiniteSet(DOMAIN m.elem) /\ r \in 0..(nRows - 1)
    BY <1>1, <1>2
  <2>4. Scatter(m, x, nRows)[r] = SumOf(f, S)
    BY <2>3, ScatterIs
  <2>5. QED
    BY <1>1, <2>1, <2>2, <2>4
<1>5. IsFiniteSet(S) /\ \A p : p \in S <=> p \in D /\ m.elem[p].idx = r
  <2>1. S = {p \in D : m.elem[p].idx = r}
    BY <1>2 DEF Hits
  <2>2. QED
    BY <1>2, <2>1, FS_Subset
<1> HIDE DEF S
<1>6. ASSUME NEW p \in S
      PROVE  /\ f[p] \in Int /\ h[p] = a0 * f[p]
             /\ h[p] \in Int /\ h[p] = g[b[p]] /\ b[p] \in InRow(r)
  <2> DEFINE a == m.elem[p].val
             c == std.colScale[Column(p)]
             w == std.rowScale[r]
             u == v[Column(p)]
             t == Entry(Order[p]).val
  <2>1. p \in D /\ RowOf(p) = r /\ Column(p) \in Columns /\ Order[p] \in Nonzeros
    BY <1>1, <1>2, <1>5, OrderLists
  <2>2. x[Column(p)] = u * c
    BY <2>1, Scales DEF ScaledUp
  <2>3. f[p] = a * (u * c)
    BY <1>2, <1>3, <2>1, <2>2 DEF Terms
  <2>4. a * (w * c) = t
    BY <1>1, <2>1 DEF Exactly
  <2>5. a \in Int /\ c \in Int /\ w \in Int /\ u \in Int
    BY <1>2, <2>1, Scales
  <2>6. h[p] = t * u
    <3>1. h[p] = g[Order[p]]
      BY <2>1
    <3>2. g[Order[p]] = Entry(Order[p]).val * v[Order[p][1]]
      BY <2>1 DEF RowTerm
    <3>3. QED
      BY <3>1, <3>2 DEF Column
  <2>7. Order[p] \in InRow(r) /\ b[p] = Order[p]
    BY <2>1 DEF InRow, RowOf
  <2>8. h[p] = g[b[p]]
    BY <2>1
  <2> HIDE DEF a, c, w, u, t, f, h, b, g
  <2>9. \A i1, i2, i3, i4 \in Int : (i1 * (i3 * i2)) * i4 = i3 * (i1 * (i4 * i2))
    OBVIOUS
  <2>10. t * u = w * (a * (u * c)) /\ t * u \in Int /\ a * (u * c) \in Int
    BY <2>4, <2>5, <2>9
  <2>11. QED
    BY <2>3, <2>6, <2>7, <2>8, <2>10 DEF w
<1>7. \A p, q \in S : p # q => b[p] # b[q]
  BY <1>1, <1>5, OrderLists
<1>8. {b[p] : p \in S} = InRow(r)
  <2>1. \A p \in S : b[p] \in InRow(r)
    BY <1>6
  <2>2. ASSUME NEW e \in InRow(r) PROVE \E p \in S : b[p] = e
    <3>1. e \in Nonzeros /\ Entry(e).idx = r
      BY DEF InRow
    <3>2. PICK k \in D : Order[k] = e
      BY <1>1, <3>1, OrderLists
    <3>3. m.elem[k].idx = r
      BY <1>2, <3>1, <3>2 DEF RowOf
    <3>4. QED
      BY <1>5, <3>2, <3>3
  <2> HIDE DEF b
  <2>3. QED
    BY <2>1, <2>2
<1>9. a0 \in Int
  BY Scales
<1> HIDE DEF f, h, b, g, x, a0
<1>10. SumOf(f, S) \in Int /\ SumOf(h, S) = a0 * SumOf(f, S)
  <2>1. \A k \in S : f[k] \in Int /\ h[k] = a0 * f[k]
    BY <1>6
  <2>2. IsFiniteSet(S)
    BY <1>5
  <2>3. QED
    BY <1>9, <2>1, <2>2, SumScaled
<1>11. SumOf(h, S) = SumOf(g, {b[p] : p \in S})
  BY <1>5, <1>6, <1>7, SumRenamed
<1>12. SumOf(h, S) = RowSum(r, v)
  <2>1. SumOf(g, {b[p] : p \in S}) = SumOf(g, InRow(r))
    BY <1>8, Zenon
  <2>2. QED
    BY <1>11, <2>1 DEF RowSum, g
<1>13. QED
  <2>1. \A i1, i2 \in Int : i1 * i2 = i2 * i1
    OBVIOUS
  <2>2. QED
    BY <1>4, <1>9, <1>10, <1>12, <2>1 DEF x, a0

(* What csc2csr lists, entry by entry.                                     *)
LEMMA CsrLists ==
  ASSUME Ready
  PROVE  LET s == Sorted(std.csc)
         IN /\ DOMAIN s = 1..Count /\ \A k \in 1..Count : s[k] \in 1..Count
            /\ \A k, l \in 1..Count : k # l => s[k] # s[l]
            /\ \A e \in 1..Count : \E k \in 1..Count : s[k] = e
            /\ DOMAIN std.csr.elem = 1..Count
            /\ \A k \in 1..Count : /\ std.csr.elem[k].idx = Column(s[k])
                                   /\ std.csr.elem[k].val = std.csc.elem[s[k]].val
                                   /\ Major(std.csr)[k] = RowOf(s[k])
<1> DEFINE s == Sorted(std.csc)
           F(k) == [idx |-> Column(s[k]), val |-> std.csc.elem[s[k]].val]
           G(k) == RowOf(s[k])
<1>1. lp \in Models /\ SameEntries(std.csc) /\ std.csr = transpose(std.csc, nRows)
  BY DEF Ready, Formed
<1>2. /\ DOMAIN s = 1..Count /\ \A k \in 1..Count : s[k] \in 1..Count
      /\ \A k, l \in 1..Count : k # l => s[k] # s[l]
      /\ \A e \in 1..Count : \E k \in 1..Count : s[k] = e
  BY <1>1, TransposeIs
<1>3. /\ std.csr.elem = [k \in 1..Count |-> F(k)]
      /\ Major(std.csr) = [k \in 1..Count |-> G(k)]
  <2> DEFINE t == transpose(std.csc, nRows)
  <2>1. t.elem = [k \in 1..Count |-> F(k)]
    BY <1>1, TransposeIs
  <2>2. Major(t) = [k \in 1..Count |-> G(k)]
    BY <1>1, TransposeIs
  <2>3. std.csr = t
    BY <1>1
  <2> HIDE DEF t, F, G
  <2>4. QED
    BY <2>1, <2>2, <2>3
<1>4. /\ \A k : F(k).idx = Column(s[k]) /\ F(k).val = std.csc.elem[s[k]].val
      /\ \A k : G(k) = RowOf(s[k])
  OBVIOUS
<1> HIDE DEF s, F, G
<1>5. /\ DOMAIN std.csr.elem = 1..Count
      /\ \A k \in 1..Count : std.csr.elem[k] = F(k) /\ Major(std.csr)[k] = G(k)
  BY <1>3
<1>6. QED
  BY <1>2, <1>4, <1>5 DEF s

(* ATyCPU: scaled back, it is what the entries of the column add up to.    *)
LEMMA ATyIs ==
  ASSUME Ready, NEW v \in [Rows -> Int], NEW j \in Columns
  PROVE  LET aty == ATy(ScaledUp(v, std.rowScale))
         IN  DOMAIN aty = Columns /\ aty[j] \in Int /\ aty[j] * std.colScale[j] = ColSum(j, v)
<1> DEFINE y == ScaledUp(v, std.rowScale)
           m == std.csr
           s == Sorted(std.csc)
           D == 1..Count
           f == Terms(m, y)
           S == Hits(m, j)
           a0 == std.colScale[j]
           b == [k \in D |-> Order[s[k]]]
           g == ColTerm(v)
           h == [k \in D |-> g[b[k]]]
<1>1. /\ lp \in Models /\ SameEntries(std.csc) /\ Exactly(std)
      /\ Columns = 0..(nCols - 1) /\ IsFiniteSet(D)
  BY OrderLists DEF Ready, Formed, Columns
<1>2. /\ \A k \in D : s[k] \in D
      /\ \A k, l \in D : k # l => s[k] # s[l]
      /\ \A e \in D : \E k \in D : s[k] = e
      /\ DOMAIN m.elem = D
      /\ \A k \in D : /\ m.elem[k].idx = Column(s[k]) /\ m.elem[k].val = std.csc.elem[s[k]].val
                      /\ Major(m)[k] = RowOf(s[k])
  BY CsrLists
<1> HIDE DEF s
<1>3. \A k \in D : m.elem[k].val \in Int
  <2>1. \A p \in D : std.csc.elem[p].val \in Int
    BY <1>1 DEF SameEntries
  <2>2. QED
    BY <1>2, <2>1
<1>4. ATy(y)[j] = SumOf(f, S) /\ DOMAIN ATy(y) = Columns
  <2>1. ATy(y) = Scatter(m, y, nCols)
    BY DEF ATy
  <2>2. DOMAIN Scatter(m, y, nCols) = 0..(nCols - 1)
    BY DEF Scatter
  <2>3. IsFiniteSet(DOMAIN m.elem) /\ j \in 0..(nCols - 1)
    BY <1>1, <1>2
  <2>4. Scatter(m, y, nCols)[j] = SumOf(f, S)
    BY <2>3, ScatterIs
  <2>5. QED
    BY <1>1, <2>1, <2>2, <2>4
<1>5. IsFiniteSet(S) /\ \A k : k \in S <=> k \in D /\ m.elem[k].idx = j
  <2>1. S = {k \in D : m.elem[k].idx = j}
    BY <1>2 DEF Hits
  <2>2. QED
    BY <1>1, <2>1, FS_Subset
<1> HIDE DEF S
<1>6. ASSUME NEW k \in S
      PROVE  /\ f[k] \in Int /\ h[k] = a0 * f[k]
             /\ h[k] \in Int /\ h[k] = g[b[k]] /\ b[k] \in InColumn(j)
  <2> DEFINE p == s[k]
             a == m.elem[k].val
             c == std.colScale[j]
             w == std.rowScale[RowOf(p)]
             u == v[RowOf(p)]
             t == Entry(Order[p]).val
  <2>1. /\ k \in D /\ p \in D /\ Column(p) = j /\ RowOf(p) \in Rows /\ Order[p] \in Nonzeros
    BY <1>1, <1>2, <1>5, OrderLists
  <2>2. y[RowOf(p)] = u * w
    BY <2>1, Scales DEF ScaledUp
  <2>3. f[k] = a * (u * w)
    BY <1>2, <2>1, <2>2 DEF Terms
  <2>4. a * (w * c) = t
    BY <1>1, <1>2, <2>1 DEF Exactly
  <2>5. a \in Int /\ c \in Int /\ w \in Int /\ u \in Int
    BY <1>3, <2>1, Scales
  <2>6. h[k] = t * u
    <3>1. h[k] = g[Order[p]]
      BY <2>1
    <3>2. g[Order[p]] = Entry(Order[p]).val * v[Entry(Order[p]).idx]
      BY <2>1 DEF ColTerm
    <3>3. QED
      BY <3>1, <3>2 DEF RowOf
  <2>7. Order[p] \in InColumn(j) /\ b[k] = Order[p]
    BY <2>1 DEF InColumn, Column
  <2>8. h[k] = g[b[k]]
    BY <2>1
  <2> HIDE DEF p, a, c, w, u, t, f, h, b, g
  <2>9. \A i1, i2, i3, i4 \in Int : (i1 * (i3 * i2)) * i4 = i2 * (i1 * (i4 * i3))
    OBVIOUS
  <2>10. t * u = c * (a * (u * w)) /\ t * u \in Int /\ a * (u * w) \in Int
    BY <2>4, <2>5, <2>9
  <2>11. QED
    BY <2>3, <2>6, <2>7, <2>8, <2>10 DEF c
<1>7. ASSUME NEW k \in S, NEW l \in S, k # l PROVE b[k] # b[l]
  <2>1. s[k] \in D /\ s[l] \in D /\ s[k] # s[l] /\ k \in D /\ l \in D
    BY <1>2, <1>5, <1>7
  <2>2. QED
    BY <1>1, <2>1, OrderLists
<1>8. {b[k] : k \in S} = InColumn(j)
  <2>1. \A k \in S : b[k] \in InColumn(j)
    BY <1>6
  <2>2. ASSUME NEW e \in InColumn(j) PROVE \E k \in S : b[k] = e
    <3>1. e \in Nonzeros /\ e[1] = j
      BY DEF InColumn
    <3>2. PICK p \in D : Order[p] = e
      BY <1>1, <3>1, OrderLists
    <3>3. PICK k \in D : s[k] = p
      BY <1>2, <3>2
    <3>4. m.elem[k].idx = j
      BY <1>2, <3>1, <3>2, <3>3 DEF Column
    <3>5. QED
      BY <1>5, <3>2, <3>3, <3>4
  <2> HIDE DEF b
  <2>3. QED
    BY <2>1, <2>2
<1>9. a0 \in Int
  BY Scales
<1> HIDE DEF f, h, b, g, y, a0
<1>10. SumOf(f, S) \in Int /\ SumOf(h, S) = a0 * SumOf(f, S)
  <2>1. \A k \in S : f[k] \in Int /\ h[k] = a0 * f[k]
    BY <1>6
  <2>2. IsFiniteSet(S)
    BY <1>5
  <2>3. QED
    BY <1>9, <2>1, <2>2, SumScaled
<1>11. SumOf(h, S) = SumOf(g, {b[k] : k \in S})
  BY <1>5, <1>6, <1>7, SumRenamed
<1>12. SumOf(h, S) = ColSum(j, v)
  <2>1. SumOf(g, {b[k] : k \in S}) = SumOf(g, InColumn(j))
    BY <1>8, Zenon
  <2>2. QED
    BY <1>11, <2>1 DEF ColSum, g
<1>13. QED
  <2>1. \A i1, i2 \in Int : i1 * i2 = i2 * i1
    OBVIOUS
  <2>2. QED
    BY <1>4, <1>9, <1>10, <1>12, <2>1 DEF y, a0

-----------------------------------------------------------------------------
(* By how much row r is violated, in the units of the program: what the    *)
(* residual says of its place.                                             *)
Over(r, v) == RowSum(constraint_new_idx(r), v) - Unit * rhs(r)

(* The residual at the row's place, scaled back, is the violation if the   *)
(* row is violated.                                                        *)
LEMMA PrimalIs ==
  ASSUME Ready, NEW v \in [Columns -> Int], NEW r \in Rows
  PROVE  LET z == PrimalResidual(ScaledUp(v, std.colScale))
         IN /\ DOMAIN z = Rows /\ Over(r, v) \in Int /\ constraint_new_idx(r) \in Rows
            /\ z[constraint_new_idx(r)] =
                 IF constraint_new_idx(r) >= nEqs /\ Over(r, v) > 0 THEN 0 ELSE Over(r, v)
<1> DEFINE ax == Ax(ScaledUp(v, std.colScale))
           d(q) == ax[q] - std.rhs[q]
           w == [q \in DOMAIN ax |-> IF q >= std.nEqs /\ d(q) > 0 THEN 0 ELSE d(q)]
           z == PrimalResidual(ScaledUp(v, std.colScale))
           s == constraint_new_idx(r)
<1>1. lp \in Models /\ Exactly(std) /\ std.nEqs = nEqs
  BY DEF Ready, Formed
<1>2. s \in Rows
  BY <1>1, Places, Shape
<1>3. z = Unscaled(w, std.rowScale)
  BY DEF PrimalResidual
<1> HIDE DEF ax, z
<1>4. /\ DOMAIN ax = Rows
      /\ \A q \in Rows : ax[q] \in Int /\ ax[q] * std.rowScale[q] = RowSum(q, v)
  BY <1>2, AxIs DEF ax
<1>5. \A q \in Rows : std.rhs[q] \in Int
  <2>1. \A q \in Rows : \E p \in Rows : constraint_new_idx(p) = q
    BY <1>1, Places, Shape
  <2>2. QED
    BY <1>1, <2>1 DEF Exactly
<1>6. \A q \in Rows : d(q) \in Int
  BY <1>4, <1>5
<1>7. d(s) * std.rowScale[s] = Over(r, v)
  <2>1. std.rhs[s] \in Int /\ std.rhs[s] * std.rowScale[s] = Unit * rhs(r)
    BY <1>1 DEF Exactly
  <2>2. ax[s] \in Int /\ ax[s] * std.rowScale[s] = RowSum(s, v)
    BY <1>2, <1>4
  <2>3. std.rowScale[s] \in Int
    BY <1>2, Scales
  <2>4. \A a, b, c \in Int : (a - b) * c = a * c - b * c
    OBVIOUS
  <2>5. (ax[s] - std.rhs[s]) * std.rowScale[s] = RowSum(s, v) - Unit * rhs(r)
    BY <2>1, <2>2, <2>3, <2>4
  <2>6. QED
    BY <2>5 DEF Over
<1>8. /\ DOMAIN w = Rows /\ \A q \in Rows : w[q] \in Int
      /\ \A q \in Rows : w[q] = IF q >= nEqs /\ d(q) > 0 THEN 0 ELSE d(q)
  BY <1>1, <1>4, <1>6
<1> HIDE DEF d, w
<1>9. DOMAIN z = Rows /\ \A q \in Rows : z[q] = w[q] * std.rowScale[q]
  <2>1. /\ \A q \in DOMAIN w : w[q] \in Int
        /\ ~ std.ifScaled => \A q \in DOMAIN w : std.rowScale[q] = 1
    BY <1>8, Scales
  <2>2. QED
    BY <1>3, <1>8, <2>1, UnscaledIs
<1>10. d(s) \in Int /\ std.rowScale[s] \in Nat \ {0}
  BY <1>2, <1>6, Scales
<1>11. Over(r, v) \in Int /\ (d(s) > 0 <=> Over(r, v) > 0)
  <2>1. \A a \in Int : \A c \in Nat \ {0} : a * c \in Int /\ (a > 0 <=> a * c > 0)
    OBVIOUS
  <2>2. QED
    BY <1>7, <1>10, <2>1
<1>12. z[s] = IF s >= nEqs /\ Over(r, v) > 0 THEN 0 ELSE Over(r, v)
  <2>1. CASE s >= nEqs /\ Over(r, v) > 0
    <3>1. w[s] = 0
      BY <1>2, <1>8, <1>11, <2>1
    <3>2. QED
      BY <1>2, <1>9, <1>10, <2>1, <3>1
  <2>2. CASE ~ (s >= nEqs /\ Over(r, v) > 0)
    <3>1. w[s] = d(s)
      BY <1>2, <1>8, <1>11, <2>2
    <3>2. QED
      BY <1>2, <1>7, <1>9, <2>2, <3>1
  <2>3. QED
    BY <2>1, <2>2
<1>13. QED
  BY <1>2, <1>9, <1>11, <1>12 DEF z

-----------------------------------------------------------------------------
(* What the multipliers leave of column j's cost, in the units of the      *)
(* program, and what of it is put down to each of its bounds.              *)
Reduced(j, v) == Unit * CostOf(j) - ColSum(j, v)
AtLower(j, v) == IF Reduced(j, v) > 0 /\ Lo(j) > -Infinity THEN Reduced(j, v) ELSE 0
AtUpper(j, v) == IF Reduced(j, v) < 0 /\ Up(j) < Infinity THEN -Reduced(j, v) ELSE 0

(* The solver's numbers, scaled back, are those.                           *)
LEMMA ReducedIs ==
  ASSUME Ready, NEW v \in [Rows -> Int], NEW j \in Columns
  PROVE  LET aty == ATy(ScaledUp(v, std.rowScale))
             red == std.cost[j] - aty[j]
             sp == IF red > 0 /\ hasLower(j) THEN red ELSE 0
             sn == IF red < 0 /\ hasUpper(j) THEN -red ELSE 0
         IN /\ red \in Int /\ red * std.colScale[j] = Reduced(j, v)
            /\ sp \in Int /\ sp * std.colScale[j] = AtLower(j, v)
            /\ sn \in Int /\ sn * std.colScale[j] = AtUpper(j, v)
            /\ Reduced(j, v) \in Int /\ AtLower(j, v) \in Int /\ AtUpper(j, v) \in Int
<1> DEFINE aty == ATy(ScaledUp(v, std.rowScale))
           red == std.cost[j] - aty[j]
           c == std.colScale[j]
           sp == IF red > 0 /\ hasLower(j) THEN red ELSE 0
           sn == IF red < 0 /\ hasUpper(j) THEN -red ELSE 0
<1>1. /\ std.cost[j] \in Int /\ std.cost[j] * c = Unit * CostOf(j)
  BY DEF Ready, Exactly
<1>2. aty[j] \in Int /\ aty[j] * c = ColSum(j, v)
  BY ATyIs
<1>3. c \in Nat \ {0}
  BY Scales
<1>4. hasLower(j) <=> Lo(j) > -Infinity
  BY LowerUpper
<1>5. hasUpper(j) <=> Up(j) < Infinity
  BY LowerUpper
<1> HIDE DEF aty, c
<1>6. red \in Int /\ red * c = Reduced(j, v)
  <2>1. \A i1, i2, i3 \in Int : (i1 - i2) * i3 = i1 * i3 - i2 * i3
    OBVIOUS
  <2>2. red \in Int /\ (std.cost[j] - aty[j]) * c = Unit * CostOf(j) - ColSum(j, v)
    BY <1>1, <1>2, <1>3, <2>1
  <2>3. QED
    BY <2>2 DEF Reduced
<1> HIDE DEF red
<1>7. /\ Reduced(j, v) \in Int
      /\ red > 0 <=> Reduced(j, v) > 0
      /\ red < 0 <=> Reduced(j, v) < 0
      /\ (-red) * c = -Reduced(j, v) /\ 0 * c = 0
  <2>1. \A a \in Int : \A s \in Nat \ {0} :
          a * s \in Int /\ (a > 0 <=> a * s > 0) /\ (a < 0 <=> a * s < 0)
          /\ (-a) * s = -(a * s) /\ 0 * s = 0
    OBVIOUS
  <2>2. QED
    BY <1>3, <1>6, <2>1
<1>8. sp \in Int /\ sp * c = AtLower(j, v)
  BY <1>4, <1>6, <1>7 DEF AtLower
<1>9. sn \in Int /\ sn * c = AtUpper(j, v)
  BY <1>5, <1>6, <1>7 DEF AtUpper
<1>10. AtLower(j, v) \in Int /\ AtUpper(j, v) \in Int
  BY <1>7 DEF AtLower, AtUpper
<1>11. QED
  BY <1>6, <1>7, <1>8, <1>9, <1>10 DEF red, aty, c

(* The inner product as a sum.                                             *)
LEMMA DotIs ==
  ASSUME NEW S, NEW f, NEW g, NEW h, DOMAIN f = S, h = [k \in S |-> h[k]],
         \A k \in S : f[k] * g[k] = h[k]
  PROVE  Dot(f, g) = SumOf(h, S)
<1>1. [k \in DOMAIN f |-> f[k] * g[k]] = h
  OBVIOUS
<1>2. DOMAIN h = S
  OBVIOUS
<1>3. Dot(f, g) = SumFunction(h)
  BY <1>1 DEF Dot
<1>4. QED
  BY <1>2, <1>3 DEF SumFunction, SumOf

(* The parts of the dual objective: what right-hand sides and bounds weigh *)
(* with the multipliers, in units.                                         *)
RhsTerm(v) == [q \in Rows |-> (std.rhs[q] * std.rowScale[q]) * v[q]]
LowerTerm(v) ==
  [j \in Columns |-> AtLower(j, v) * (IF Lo(j) > -Infinity THEN Lo(j) ELSE 0)]
UpperTerm(v) ==
  [j \in Columns |-> AtUpper(j, v) * (IF Up(j) < Infinity THEN Up(j) ELSE 0)]

(* What PDHG_Compute_Dual_Feasibility makes of multipliers, scaled back.   *)
LEMMA DualIs ==
  ASSUME Ready, NEW v \in [Rows -> Int]
  PROVE  LET d == DualSide(ScaledUp(v, std.rowScale))
             sp == Unscaled(d.slackPos, std.colScale)
             sn == Unscaled(d.slackNeg, std.colScale)
         IN /\ \A j \in Columns : sp[j] = AtLower(j, v) /\ sn[j] = AtUpper(j, v)
            /\ DOMAIN d.residual = Columns
            /\ \A j \in Columns : d.residual[j] = Reduced(j, v) - AtLower(j, v) + AtUpper(j, v)
            /\ d.obj = Unit * lp.offset + lp.sense *
                 (SumOf(RhsTerm(v), Rows) + SumOf(LowerTerm(v), Columns)
                    - SumOf(UpperTerm(v), Columns))
<1> DEFINE y == ScaledUp(v, std.rowScale)
           aty == ATy(y)
           red == [j \in DOMAIN std.cost |-> std.cost[j] - aty[j]]
           sp == [j \in DOMAIN std.cost |-> IF red[j] > 0 /\ hasLower(j) THEN red[j] ELSE 0]
           sn == [j \in DOMAIN std.cost |-> IF red[j] < 0 /\ hasUpper(j) THEN -red[j] ELSE 0]
           dl == [j \in DOMAIN std.cost |-> IF hasLower(j) THEN std.lower[j] ELSE 0]
           du == [j \in DOMAIN std.cost |-> IF hasUpper(j) THEN std.upper[j] ELSE 0]
           re == [j \in DOMAIN std.cost |-> red[j] - sp[j] + sn[j]]
           ob == Unit * lp.offset + lp.sense * (Dot(std.rhs, y) + Dot(sp, dl) - Dot(sn, du))
           d == DualSide(y)
           c(j) == std.colScale[j]
<1>1. /\ d.slackPos = sp /\ d.slackNeg = sn /\ d.residual = Unscaled(re, std.colScale)
      /\ d.obj = ob
  BY DEF DualSide
<1>2. lp \in Models /\ DOMAIN std.cost = Columns /\ DOMAIN std.rhs = Rows /\ Exactly(std)
  BY DEF Ready, Formed
<1>3. /\ \A j \in Columns : c(j) \in Nat \ {0}
      /\ ~ std.ifScaled => \A j \in Columns : c(j) = 1
  BY Scales
<1>4. ASSUME NEW j \in Columns
      PROVE  /\ red[j] \in Int /\ red[j] * c(j) = Reduced(j, v)
             /\ sp[j] \in Int /\ sp[j] * c(j) = AtLower(j, v)
             /\ sn[j] \in Int /\ sn[j] * c(j) = AtUpper(j, v)
             /\ Reduced(j, v) \in Int /\ AtLower(j, v) \in Int /\ AtUpper(j, v) \in Int
  <2>1. red[j] = std.cost[j] - aty[j]
    BY <1>2
  <2> DEFINE z == std.cost[j] - aty[j]
  <2>2. /\ sp[j] = IF z > 0 /\ hasLower(j) THEN z ELSE 0
        /\ sn[j] = IF z < 0 /\ hasUpper(j) THEN -z ELSE 0
    BY <1>2, <2>1
  <2> HIDE DEF red, sp, sn
  <2>3. /\ z \in Int /\ z * c(j) = Reduced(j, v)
        /\ Reduced(j, v) \in Int /\ AtLower(j, v) \in Int /\ AtUpper(j, v) \in Int
    BY ReducedIs
  <2>4. sp[j] \in Int /\ sp[j] * c(j) = AtLower(j, v)
    BY <2>2, ReducedIs
  <2>5. sn[j] \in Int /\ sn[j] * c(j) = AtUpper(j, v)
    BY <2>2, ReducedIs
  <2>6. QED
    BY <2>1, <2>3, <2>4, <2>5
<1>5. /\ DOMAIN sp = Columns /\ DOMAIN sn = Columns /\ DOMAIN re = Columns
      /\ \A j \in Columns : re[j] = red[j] - sp[j] + sn[j]
  BY <1>2
<1>6. \A j \in Columns : /\ dl[j] = IF hasLower(j) THEN std.lower[j] ELSE 0
                         /\ du[j] = IF hasUpper(j) THEN std.upper[j] ELSE 0
  BY <1>2
<1> HIDE DEF red, sp, sn, re, dl, du, d
<1>7. \A j \in Columns : /\ Unscaled(sp, std.colScale)[j] = AtLower(j, v)
                         /\ Unscaled(sn, std.colScale)[j] = AtUpper(j, v)
  <2>1. \A j \in Columns : Unscaled(sp, std.colScale)[j] = sp[j] * c(j)
    BY <1>3, <1>4, <1>5, UnscaledIs
  <2>2. \A j \in Columns : Unscaled(sn, std.colScale)[j] = sn[j] * c(j)
    BY <1>3, <1>4, <1>5, UnscaledIs
  <2>3. QED
    BY <1>4, <2>1, <2>2
<1>8. /\ DOMAIN d.residual = Columns
      /\ \A j \in Columns : d.residual[j] = Reduced(j, v) - AtLower(j, v) + AtUpper(j, v)
  <2>1. \A j \in Columns : re[j] \in Int
    BY <1>4, <1>5
  <2>2. DOMAIN d.residual = Columns /\ \A j \in Columns : d.residual[j] = re[j] * c(j)
    BY <1>1, <1>3, <1>5, <2>1, UnscaledIs
  <2>3. ASSUME NEW j \in Columns
        PROVE  re[j] * c(j) = Reduced(j, v) - AtLower(j, v) + AtUpper(j, v)
    <3>1. \A i1, i2, i3, i4 \in Int : (i1 - i2 + i3) * i4 = i1 * i4 - i2 * i4 + i3 * i4
      OBVIOUS
    <3>2. (red[j] - sp[j] + sn[j]) * c(j) = red[j] * c(j) - sp[j] * c(j) + sn[j] * c(j)
      BY <1>3, <1>4, <3>1
    <3>3. QED
      BY <1>4, <1>5, <3>2
  <2>4. QED
    BY <2>2, <2>3
<1>9. Dot(std.rhs, y) = SumOf(RhsTerm(v), Rows)
  <2>1. ASSUME NEW q \in Rows PROVE std.rhs[q] * y[q] = RhsTerm(v)[q]
    <3>1. y[q] = v[q] * std.rowScale[q] /\ v[q] \in Int /\ std.rowScale[q] \in Int
      BY Scales DEF ScaledUp
    <3>2. std.rhs[q] \in Int
      <4>1. \E p \in Rows : constraint_new_idx(p) = q
        BY <1>2, Places, Shape
      <4>2. QED
        BY <1>2, <4>1 DEF Exactly
    <3>3. RhsTerm(v)[q] = (std.rhs[q] * std.rowScale[q]) * v[q]
      BY DEF RhsTerm
    <3>4. \A i1, i2, i3 \in Int : i1 * (i2 * i3) = (i1 * i3) * i2
      OBVIOUS
    <3>5. QED
      BY <3>1, <3>2, <3>3, <3>4
  <2>2. RhsTerm(v) = [q \in Rows |-> RhsTerm(v)[q]]
    BY DEF RhsTerm
  <2> HIDE DEF y
  <2>3. QED
    BY <1>2, <2>1, <2>2, DotIs
<1>10. Dot(sp, dl) = SumOf(LowerTerm(v), Columns)
  <2>1. ASSUME NEW j \in Columns PROVE sp[j] * dl[j] = LowerTerm(v)[j]
    <3>1. LowerTerm(v)[j] = AtLower(j, v) * (IF Lo(j) > -Infinity THEN Lo(j) ELSE 0)
      BY DEF LowerTerm
    <3>2. /\ hasLower(j) <=> Lo(j) > -Infinity
          /\ std.lower[j] = Lo(j) * c(j) /\ Lo(j) \in Int
      BY LowerUpper
    <3>3. \A i1, i2, i3 \in Int : i1 * (i2 * i3) = (i1 * i3) * i2
      OBVIOUS
    <3>4. sp[j] \in Int /\ c(j) \in Int /\ sp[j] * c(j) = AtLower(j, v) /\ AtLower(j, v) \in Int
      BY <1>3, <1>4
    <3>5. CASE Lo(j) > -Infinity
      BY <1>6, <3>1, <3>2, <3>3, <3>4, <3>5
    <3>6. CASE ~ (Lo(j) > -Infinity)
      BY <1>6, <3>1, <3>2, <3>4, <3>6
    <3>7. QED
      BY <3>5, <3>6
  <2>2. LowerTerm(v) = [j \in Columns |-> LowerTerm(v)[j]]
    BY DEF LowerTerm
  <2>3. QED
    BY <1>5, <2>1, <2>2, DotIs
<1>11. Dot(sn, du) = SumOf(UpperTerm(v), Columns)
  <2>1. ASSUME NEW j \in Columns PROVE sn[j] * du[j] = UpperTerm(v)[j]
    <3>1. UpperTerm(v)[j] = AtUpper(j, v) * (IF Up(j) < Infinity THEN Up(j) ELSE 0)
      BY DEF UpperTerm
    <3>2. /\ hasUpper(j) <=> Up(j) < Infinity
          /\ std.upper[j] = Up(j) * c(j) /\ Up(j) \in Int
      BY LowerUpper
    <3>3. \A i1, i2, i3 \in Int : i1 * (i2 * i3) = (i1 * i3) * i2
      OBVIOUS
    <3>4. sn[j] \in Int /\ c(j) \in Int /\ sn[j] * c(j) = AtUpper(j, v) /\ AtUpper(j, v) \in Int
      BY <1>3, <1>4
    <3>5. CASE Up(j) < Infinity
      BY <1>6, <3>1, <3>2, <3>3, <3>4, <3>5
    <3>6. CASE ~ (Up(j) < Infinity)
      BY <1>6, <3>1, <3>2, <3>4, <3>6
    <3>7. QED
      BY <3>5, <3>6
  <2>2. UpperTerm(v) = [j \in Columns |-> UpperTerm(v)[j]]
    BY DEF UpperTerm
  <2>3. QED
    BY <1>5, <2>1, <2>2, DotIs
<1> HIDE DEF y
<1>12. QED
  BY <1>1, <1>7, <1>8, <1>9, <1>10, <1>11 DEF d, y

-----------------------------------------------------------------------------
(* What a row adds up to depends on the columns of the program only.       *)
LEMMA ActivityAgrees ==
  ASSUME NEW u, NEW v, \A j \in Cols : u[j] = v[j], NEW r
  PROVE  Activity(r, u) = Activity(r, v)
<1>1. [j \in Cols |-> Coefficient(r, j) * u[j]] = [j \in Cols |-> Coefficient(r, j) * v[j]]
  OBVIOUS
<1>2. QED
  BY <1>1, Zenon DEF Activity

(* What PDHG_PostSolve returns of an answer, in terms of the program.      *)
LEMMA PointReturned ==
  ASSUME Ready, NEW x0 \in [Columns -> Int], NEW y0 \in [Rows -> Int], NEW x, NEW y,
         Answer(x0, y0, x, y)
  PROVE  /\ \A j \in Cols : sol.col_value[j] = x0[j] /\ sol.col_value[j] \in Int
         /\ \A r \in Bound : sol.slack[r] = x0[Slack(r)]
         /\ \A r \in Rows : sol.row_value[r] = Unit * Activity(r, sol.col_value)
         /\ \A r \in Rows : sol.row_dual[r] = (Sign(r) * lp.sense) * y0[constraint_new_idx(r)]
<1> DEFINE dx == Divided(x, std.colScale)
           dy == Divided(y, std.rowScale)
           ax == Unscaled(Ax(x), std.rowScale)
<1>1. /\ x = ScaledUp(x0, std.colScale) /\ y = ScaledUp(y0, std.rowScale)
      /\ sol = PostSolve(x, y)
  BY DEF Answer
<1>2. /\ lp \in Models
      /\ \A r \in Rows : /\ std.type[r] = constraint_type(r) /\ std.new[r] = constraint_new_idx(r)
                         /\ std.slack[r] = Slack(r)
  BY DEF Ready, Formed
<1>3. Bound = {r \in Rows : constraint_type(r) = "BOUND"}
  BY DEF Bound, OfType
<1>4. /\ sol.col_value = [j \in Cols |-> dx[j]]
      /\ sol.slack = [r \in Rows |-> IF std.type[r] = "BOUND" THEN dx[std.slack[r]] ELSE 0]
      /\ sol.row_value = [r \in Rows |-> RowValue(r, ax, dx)]
      /\ sol.row_dual = [r \in Rows |-> RowDual(r, dy)]
  BY <1>1 DEF PostSolve
<1>5. \A j \in Columns : dx[j] = x0[j]
  BY <1>1, Scales, DividedIs
<1>6. \A r \in Rows : dy[r] = y0[r]
  BY <1>1, Scales, DividedIs
<1>7. ASSUME NEW r \in Rows PROVE ax[r] = RowSum(r, x0)
  <2>1. /\ DOMAIN Ax(x) = Rows /\ \A q \in Rows : Ax(x)[q] \in Int
        /\ Ax(x)[r] * std.rowScale[r] = RowSum(r, x0)
    BY <1>1, AxIs
  <2>2. ax[r] = Ax(x)[r] * std.rowScale[r]
    BY <2>1, Scales, UnscaledIs
  <2>3. QED
    BY <2>1, <2>2
<1> HIDE DEF dx, dy, ax
<1>8. /\ \A j \in Cols : j \in Columns
      /\ \A r \in Bound : r \in Rows /\ Slack(r) \in Columns
      /\ \A r \in Rows : constraint_new_idx(r) \in Rows
  BY <1>2, <1>3, SlackRows, Places, Shape
<1>9. \A j \in Cols : sol.col_value[j] = x0[j] /\ x0[j] \in Int
  BY <1>4, <1>5, <1>8
<1>10. \A r \in Bound : sol.slack[r] = x0[Slack(r)]
  BY <1>2, <1>3, <1>4, <1>5, <1>8
<1>11. ASSUME NEW r \in Rows PROVE sol.row_value[r] = Unit * Activity(r, sol.col_value)
  <2> DEFINE a == Activity(r, x0)
             s == constraint_new_idx(r)
             t == constraint_type(r)
  <2>1. a \in Int /\ a = Activity(r, sol.col_value) /\ Unit \in Int
    BY <1>2, <1>9, Activities, ActivityAgrees, UnitsAssumption
  <2>2. ax[s] = (Unit * Sign(r)) * a - (IF r \in Bound THEN Unit * x0[Slack(r)] ELSE 0)
    BY <1>2, <1>7, <1>8, RowSumIs
  <2>3. sol.row_value[r] = CASE t = "LEQ" -> -ax[s]
                             [] t = "BOUND" -> ax[s] + Unit * dx[Slack(r)]
                             [] OTHER -> ax[s]
    <3>1. sol.row_value[r] = RowValue(r, ax, dx)
      BY <1>4
    <3>2. QED
      BY <1>2, <3>1 DEF RowValue
  <2> HIDE DEF a, s
  <2>4. CASE t = "LEQ"
    <3>1. Sign(r) = -1 /\ r \notin Bound
      BY <1>3, <2>4 DEF Sign
    <3>2. ax[s] = (Unit * (-1)) * a
      BY <2>1, <2>2, <3>1
    <3>3. sol.row_value[r] = -ax[s]
      BY <2>3, <2>4
    <3>4. QED
      BY <2>1, <3>2, <3>3
  <2>5. CASE t = "BOUND"
    <3>1. Sign(r) = 1 /\ r \in Bound
      BY <1>3, <2>5 DEF Sign
    <3>2. dx[Slack(r)] = x0[Slack(r)] /\ x0[Slack(r)] \in Int
      BY <1>5, <1>8, <3>1
    <3>3. ax[s] = (Unit * 1) * a - Unit * x0[Slack(r)]
      BY <2>2, <3>1
    <3>4. sol.row_value[r] = ax[s] + Unit * x0[Slack(r)]
      BY <2>3, <2>5, <3>2
    <3>5. QED
      BY <2>1, <3>2, <3>3, <3>4
  <2>6. CASE t \notin {"LEQ", "BOUND"}
    <3>1. Sign(r) = 1 /\ r \notin Bound
      BY <1>3, <2>6 DEF Sign
    <3>2. ax[s] = (Unit * 1) * a - 0
      BY <2>2, <3>1
    <3>3. sol.row_value[r] = ax[s]
      BY <2>3, <2>6
    <3>4. QED
      BY <2>1, <3>2, <3>3
  <2>7. QED
    BY <2>4, <2>5, <2>6
<1>12. ASSUME NEW r \in Rows
       PROVE  sol.row_dual[r] = (Sign(r) * lp.sense) * y0[constraint_new_idx(r)]
  <2>1. sol.row_dual[r] = RowDual(r, dy)
    BY <1>4
  <2>2. RowDual(r, dy) = Sign(r) * lp.sense * dy[constraint_new_idx(r)]
    BY <1>2 DEF RowDual, Sign
  <2>3. QED
    BY <1>6, <1>8, <2>1, <2>2
<1>13. QED
  BY <1>9, <1>10, <1>11, <1>12

(* ... and what is judged of it.                                           *)
LEMMA JudgedReturned ==
  ASSUME Ready, NEW x0 \in [Columns -> Int], NEW y0 \in [Rows -> Int], NEW x, NEW y,
         Answer(x0, y0, x, y)
  PROVE  /\ DOMAIN sol.primalResidual = Rows /\ DOMAIN sol.dualResidual = Columns
         /\ \A r \in Rows :
              sol.primalResidual[constraint_new_idx(r)] =
                IF constraint_new_idx(r) >= nEqs /\ Over(r, x0) > 0 THEN 0 ELSE Over(r, x0)
         /\ \A j \in Columns :
              sol.dualResidual[j] = Reduced(j, y0) - AtLower(j, y0) + AtUpper(j, y0)
         /\ \A j \in Cols : sol.col_dual[j] = lp.sense * (AtLower(j, y0) - AtUpper(j, y0))
         /\ sol.dualObj = Unit * lp.offset + lp.sense *
              (SumOf(RhsTerm(y0), Rows) + SumOf(LowerTerm(y0), Columns)
                 - SumOf(UpperTerm(y0), Columns))
<1> DEFINE d == DualSide(y)
           sp == Unscaled(d.slackPos, std.colScale)
           sn == Unscaled(d.slackNeg, std.colScale)
<1>1. /\ x = ScaledUp(x0, std.colScale) /\ y = ScaledUp(y0, std.rowScale)
      /\ sol = PostSolve(x, y)
  BY DEF Answer
<1>2. /\ sol.primalResidual = PrimalResidual(x) /\ sol.dualResidual = d.residual
      /\ sol.dualObj = d.obj /\ sol.col_dual = [j \in Cols |-> lp.sense * (sp[j] - sn[j])]
  BY <1>1 DEF PostSolve
<1>3. lp \in Models
  BY DEF Ready
<1>4. \A r \in Rows :
        /\ DOMAIN PrimalResidual(x) = Rows
        /\ PrimalResidual(x)[constraint_new_idx(r)] =
             IF constraint_new_idx(r) >= nEqs /\ Over(r, x0) > 0 THEN 0 ELSE Over(r, x0)
  BY <1>1, PrimalIs
<1>5. DOMAIN PrimalResidual(x) = Rows
  <2>1. DOMAIN Ax(x) = Rows
    BY <1>3, Shape DEF Ax, Scatter
  <2>2. QED
    BY <2>1 DEF PrimalResidual, Unscaled
<1>6. \A j \in Columns : sp[j] = AtLower(j, y0) /\ sn[j] = AtUpper(j, y0)
  BY <1>1, DualIs
<1>7. /\ DOMAIN d.residual = Columns
      /\ \A j \in Columns : d.residual[j] = Reduced(j, y0) - AtLower(j, y0) + AtUpper(j, y0)
  BY <1>1, DualIs
<1>8. d.obj = Unit * lp.offset + lp.sense *
              (SumOf(RhsTerm(y0), Rows) + SumOf(LowerTerm(y0), Columns)
                 - SumOf(UpperTerm(y0), Columns))
  BY <1>1, DualIs
<1> HIDE DEF d, sp, sn
<1>9. \A j \in Cols : sol.col_dual[j] = lp.sense * (AtLower(j, y0) - AtUpper(j, y0))
  <2>1. \A j \in Cols : j \in Columns
    BY <1>3, SlackRows
  <2>2. QED
    BY <1>2, <1>6, <2>1
<1>10. QED
  BY <1>2, <1>4, <1>5, <1>7, <1>8, <1>9

-----------------------------------------------------------------------------
(* The violation of a row, kind by kind.                                   *)
LEMMA OverIs ==
  ASSUME lp \in Models, NEW v \in [Columns -> Int], NEW r \in Rows
  PROVE  LET a == Activity(r, v)
         IN /\ a \in Int /\ Over(r, v) \in Int
            /\ constraint_type(r) = "EQ" =>
                 /\ Over(r, v) = Unit * (a - lp.row[r].lo) /\ lp.row[r].lo = lp.row[r].up
                 /\ lp.row[r].lo \in Int /\ constraint_new_idx(r) < nEqs
            /\ constraint_type(r) = "BOUND" =>
                 /\ Over(r, v) = Unit * (a - v[Slack(r)]) /\ v[Slack(r)] \in Int
                 /\ r \in Bound /\ constraint_new_idx(r) < nEqs
            /\ constraint_type(r) = "LEQ" =>
                 /\ Over(r, v) = Unit * (lp.row[r].up - a) /\ lp.row[r].up \in Int
                 /\ lp.row[r].up < Infinity /\ ~ (lp.row[r].lo > -Infinity)
                 /\ ~ (constraint_new_idx(r) < nEqs)
            /\ constraint_type(r) = "GEQ" =>
                 /\ Over(r, v) = Unit * (a - lp.row[r].lo) /\ lp.row[r].lo \in Int
                 /\ lp.row[r].lo > -Infinity /\ ~ (lp.row[r].up < Infinity)
                 /\ ~ (constraint_new_idx(r) < nEqs)
            /\ constraint_type(r) \in {"EQ", "BOUND", "LEQ", "GEQ"}
<1> DEFINE a == Activity(r, v)
           t == constraint_type(r)
           s == constraint_new_idx(r)
           lo == lp.row[r].lo
           up == lp.row[r].up
<1>1. a \in Int
  <2>1. \A j \in Cols : v[j] \in Int
    BY SlackRows
  <2>2. QED
    BY <2>1, Activities
<1>2. RowSum(s, v) = (Unit * Sign(r)) * a - (IF r \in Bound THEN Unit * v[Slack(r)] ELSE 0)
  BY RowSumIs
<1>3. lo \in Int /\ up \in Int /\ Unit \in Int /\ Infinity \in Int
  BY ModelsAssumption, UnitsAssumption DEF HasBounds, Rows
<1>4. /\ r \in Bound <=> t = "BOUND"
      /\ r \in Eqs <=> t \in {"EQ", "BOUND"}
      /\ r \in Eqs <=> s < nEqs
  BY Places DEF Bound, Eqs, OfType
<1>5. r \in Bound => v[Slack(r)] \in Int
  BY SlackRows
<1>6. Over(r, v) = RowSum(s, v) - Unit * rhs(r)
  BY DEF Over
<1>7. /\ t \in {"EQ", "BOUND", "LEQ", "GEQ"}
      /\ t = "EQ" => lo = up
      /\ t = "LEQ" => up < Infinity /\ ~ (lo > -Infinity)
      /\ t = "GEQ" => lo > -Infinity /\ ~ (up < Infinity)
  BY DEF constraint_type
<1>8. /\ t = "EQ" => rhs(r) = lo /\ Sign(r) = 1
      /\ t = "BOUND" => rhs(r) = 0 /\ Sign(r) = 1
      /\ t = "LEQ" => rhs(r) = -up /\ Sign(r) = -1
      /\ t = "GEQ" => rhs(r) = lo /\ Sign(r) = 1
  BY DEF rhs, Sign
<1> HIDE DEF a, t, s, lo, up
<1>9. \A i1, i2, i3 \in Int : /\ (i1 * 1) * i2 - 0 - i1 * i3 = i1 * (i2 - i3)
                              /\ (i1 * 1) * i2 - i1 * i3 - i1 * 0 = i1 * (i2 - i3)
                              /\ (i1 * (-1)) * i2 - 0 - i1 * (-i3) = i1 * (i3 - i2)
                              /\ i1 * (i2 - i3) \in Int
  OBVIOUS
<1>10. CASE t = "EQ"
  <2>1. Over(r, v) = (Unit * 1) * a - 0 - Unit * lo
    BY <1>2, <1>4, <1>6, <1>8, <1>10
  <2>2. Over(r, v) = Unit * (a - lo) /\ Over(r, v) \in Int
    BY <1>1, <1>3, <1>9, <2>1
  <2>3. QED
    BY <1>1, <1>3, <1>4, <1>7, <1>10, <2>2 DEF a, t, s, lo, up
<1>11. CASE t = "BOUND"
  <2>1. Over(r, v) = (Unit * 1) * a - Unit * v[Slack(r)] - Unit * 0
    BY <1>2, <1>4, <1>6, <1>8, <1>11
  <2>2. Over(r, v) = Unit * (a - v[Slack(r)]) /\ Over(r, v) \in Int
    BY <1>1, <1>3, <1>4, <1>5, <1>9, <1>11, <2>1
  <2>3. QED
    BY <1>1, <1>4, <1>5, <1>11, <2>2 DEF a, t, s
<1>12. CASE t = "LEQ"
  <2>1. Over(r, v) = (Unit * (-1)) * a - 0 - Unit * (-up)
    BY <1>2, <1>4, <1>6, <1>8, <1>12
  <2>2. Over(r, v) = Unit * (up - a) /\ Over(r, v) \in Int
    BY <1>1, <1>3, <1>9, <2>1
  <2>3. QED
    BY <1>1, <1>3, <1>4, <1>7, <1>12, <2>2 DEF a, t, s, lo, up
<1>13. CASE t = "GEQ"
  <2>1. Over(r, v) = (Unit * 1) * a - 0 - Unit * lo
    BY <1>2, <1>4, <1>6, <1>8, <1>13
  <2>2. Over(r, v) = Unit * (a - lo) /\ Over(r, v) \in Int
    BY <1>1, <1>3, <1>9, <2>1
  <2>3. QED
    BY <1>1, <1>3, <1>4, <1>7, <1>13, <2>2 DEF a, t, s, lo, up
<1>14. QED
  BY <1>7, <1>10, <1>11, <1>12, <1>13

(* A point that satisfies the program, with its slacks.                    *)
Extended(v) == [j \in Columns |-> IF j \in Cols THEN v[j] ELSE Activity(SlackRow(j), v)]

(* It is within all bounds, equations hold exactly, and no inequality is   *)
(* violated.                                                               *)
LEMMA ExtendedFits ==
  ASSUME lp \in Models, NEW v \in [Cols -> Int], Satisfies(v)
  PROVE  /\ Extended(v) \in [Columns -> Int]
         /\ \A j \in Columns : /\ Lo(j) > -Infinity => Lo(j) <= Extended(v)[j]
                               /\ Up(j) < Infinity => Extended(v)[j] <= Up(j)
         /\ \A r \in Rows : /\ Over(r, Extended(v)) \in Int /\ Over(r, Extended(v)) >= 0
                            /\ constraint_new_idx(r) < nEqs => Over(r, Extended(v)) = 0
<1> DEFINE u == Extended(v)
<1>1. ASSUME NEW j \in Columns
      PROVE  /\ u[j] \in Int
             /\ Lo(j) > -Infinity => Lo(j) <= u[j]
             /\ Up(j) < Infinity => u[j] <= Up(j)
  <2>1. CASE j \in Cols
    <3>1. u[j] = v[j] /\ Lo(j) = lp.col[j].lo /\ Up(j) = lp.col[j].up
      BY <2>1 DEF Extended, Lo, Up
    <3>2. Within(v[j], lp.col[j])
      BY <2>1 DEF Satisfies
    <3>3. QED
      BY <2>1, <3>1, <3>2 DEF Within
  <2>2. CASE j \notin Cols
    <3> DEFINE r == SlackRow(j)
    <3>1. r \in Rows
      BY <2>2, SlackRows
    <3>2. u[j] = Activity(r, v) /\ Lo(j) = lp.row[r].lo /\ Up(j) = lp.row[r].up
      BY <2>2 DEF Extended, Lo, Up
    <3>3. Within(Activity(r, v), lp.row[r])
      BY <3>1 DEF Satisfies
    <3>4. Activity(r, v) \in Int
      BY Activities
    <3>5. QED
      BY <3>2, <3>3, <3>4 DEF Within
  <2>3. QED
    BY <2>1, <2>2
<1>2. u \in [Columns -> Int]
  <2>1. u = [j \in Columns |-> u[j]]
    BY DEF Extended
  <2> HIDE DEF u
  <2>2. QED
    BY <1>1, <2>1
<1>3. \A j \in Cols : u[j] = v[j]
  BY SlackRows DEF Extended
<1>4. \A r \in Bound : u[Slack(r)] = Activity(r, v)
  <2>1. \A r \in Bound : /\ Slack(r) \in Columns /\ Slack(r) \notin Cols
                         /\ SlackRow(Slack(r)) = r
    BY SlackRows
  <2>2. QED
    BY <2>1 DEF Extended
<1> HIDE DEF u
<1>5. ASSUME NEW r \in Rows
      PROVE  /\ Over(r, u) \in Int /\ Over(r, u) >= 0
             /\ constraint_new_idx(r) < nEqs => Over(r, u) = 0
  <2> DEFINE a == Activity(r, u)
  <2>1. a = Activity(r, v)
    BY <1>3, ActivityAgrees
  <2>2. Within(a, lp.row[r])
    BY <2>1 DEF Satisfies
  <2>3. a \in Int /\ Over(r, u) \in Int
    BY <1>2, OverIs
  <2>4. \A b \in Int : Unit * b \in Int /\ (b >= 0 => Unit * b >= 0) /\ (b = 0 => Unit * b = 0)
    BY UnitsAssumption
  <2>5. CASE constraint_type(r) = "EQ"
    <3>1. /\ Over(r, u) = Unit * (a - lp.row[r].lo) /\ lp.row[r].lo = lp.row[r].up
          /\ lp.row[r].lo \in Int
      BY <1>2, <2>5, OverIs
    <3>2. lp.row[r].lo > -Infinity /\ lp.row[r].up < Infinity
      BY <2>5 DEF constraint_type
    <3>3. a - lp.row[r].lo = 0
      BY <2>2, <2>3, <3>1, <3>2 DEF Within
    <3>4. QED
      BY <2>3, <2>4, <3>1, <3>3
  <2>6. CASE constraint_type(r) = "BOUND"
    <3>1. Over(r, u) = Unit * (a - u[Slack(r)]) /\ r \in Bound
      BY <1>2, <2>6, OverIs
    <3>2. a - u[Slack(r)] = 0
      BY <1>4, <2>1, <2>3, <3>1
    <3>3. QED
      BY <2>3, <2>4, <3>1, <3>2
  <2>7. CASE constraint_type(r) = "LEQ"
    <3>1. /\ Over(r, u) = Unit * (lp.row[r].up - a) /\ lp.row[r].up \in Int
          /\ lp.row[r].up < Infinity /\ ~ (constraint_new_idx(r) < nEqs)
      BY <1>2, <2>7, OverIs
    <3>2. lp.row[r].up - a >= 0 /\ lp.row[r].up - a \in Int
      BY <2>2, <2>3, <3>1 DEF Within
    <3>3. QED
      BY <2>3, <2>4, <3>1, <3>2
  <2>8. CASE constraint_type(r) = "GEQ"
    <3>1. /\ Over(r, u) = Unit * (a - lp.row[r].lo) /\ lp.row[r].lo \in Int
          /\ lp.row[r].lo > -Infinity /\ ~ (constraint_new_idx(r) < nEqs)
      BY <1>2, <2>8, OverIs
    <3>2. a - lp.row[r].lo >= 0 /\ a - lp.row[r].lo \in Int
      BY <2>2, <2>3, <3>1 DEF Within
    <3>3. QED
      BY <2>3, <2>4, <3>1, <3>2
  <2>9. constraint_type(r) \in {"EQ", "BOUND", "LEQ", "GEQ"}
    BY <1>2, OverIs
  <2>10. QED
    BY <2>5, <2>6, <2>7, <2>8, <2>9
<1>6. QED
  BY <1>1, <1>2, <1>5 DEF u

-----------------------------------------------------------------------------
(* Where the solver has solved, it has given an answer.                    *)
LEMMA OneAnswer ==
  ASSUME FormInv, pc = "Solved"
  PROVE  /\ Ready
         /\ \E x0 \in [Columns -> Int], y0 \in [Rows -> Int] : \E x, y : Answer(x0, y0, x, y)
<1>1. Ready
  BY DEF FormInv, Ready
<1>2. PICK x0 \in [Columns -> XValues], y0 \in [Rows -> YValues] : \E x, y : Answer(x0, y0, x, y)
  BY DEF FormInv
<1>3. x0 \in [Columns -> Int] /\ y0 \in [Rows -> Int]
  BY ValuesAssumption
<1>4. QED
  BY <1>1, <1>2, <1>3

(* The row values that PDHG_PostSolve returns are those of the point that  *)
(* it returns, in the rows of the program that was loaded: permuting,      *)
(* turning and scaling rows and adding slacks is undone without a trace,   *)
(* for every program, every passes and every answer of the solver.         *)
THEOREM RowValuesOfPoint == Spec => []RowValuesReturned
<1>1. FormInv => RowValuesReturned
  <2> SUFFICES ASSUME FormInv, pc = "Solved"
               PROVE  \A r \in Rows : sol.row_value[r] = Unit * Activity(r, sol.col_value)
    BY DEF RowValuesReturned
  <2>1. PICK x0 \in [Columns -> Int], y0 \in [Rows -> Int] : \E x, y : Answer(x0, y0, x, y)
    BY OneAnswer
  <2>2. PICK x, y : Answer(x0, y0, x, y)
    BY <2>1
  <2>3. QED
    BY <2>2, OneAnswer, PointReturned
<1>2. QED
  BY <1>1, FormCorrect, PTL

(* An answer is within the bounds that columns and slacks have, and its    *)
(* multipliers are in the cone.                                            *)
LEMMA AnswerWithin ==
  ASSUME Ready, NEW x0 \in [Columns -> Int], NEW y0 \in [Rows -> Int], NEW x, NEW y,
         Answer(x0, y0, x, y)
  PROVE  /\ \A j \in Columns : /\ Lo(j) > -Infinity => Lo(j) <= x0[j]
                               /\ Up(j) < Infinity => x0[j] <= Up(j)
         /\ \A r \in Rows : r >= nEqs => y0[r] >= 0
         /\ WithinBounds /\ DualsOnTheirSide
<1>1. /\ InBounds(ScaledUp(x0, std.colScale)) /\ InCone(ScaledUp(y0, std.rowScale))
      /\ lp \in Models
  BY DEF Answer, Ready
<1>2. \A j \in Columns : /\ Lo(j) > -Infinity => Lo(j) <= x0[j]
                         /\ Up(j) < Infinity => x0[j] <= Up(j)
  BY <1>1, InBoundsIs
<1>3. \A r \in Rows : r >= nEqs => y0[r] >= 0
  BY <1>1, InConeIs
<1>4. ASSUME NEW j \in Cols PROVE Within(sol.col_value[j], lp.col[j])
  <2>1. j \in Columns /\ Lo(j) = lp.col[j].lo /\ Up(j) = lp.col[j].up
    BY <1>1, SlackRows DEF Lo, Up
  <2>2. sol.col_value[j] = x0[j]
    BY PointReturned
  <2>3. QED
    BY <1>2, <2>1, <2>2 DEF Within
<1>5. ASSUME NEW r \in Rows, constraint_type(r) \in {"GEQ", "LEQ"}
      PROVE  lp.sense * sol.row_dual[r] = Sign(r) * y0[constraint_new_idx(r)]
             /\ y0[constraint_new_idx(r)] \in Nat
  <2> DEFINE z == y0[constraint_new_idx(r)]
  <2>1. constraint_new_idx(r) \in Rows /\ constraint_new_idx(r) >= nEqs
    <3>1. r \notin Eqs
      BY <1>5 DEF Eqs, OfType
    <3>2. ~ (constraint_new_idx(r) < nEqs)
      BY <1>1, <3>1, Places
    <3>3. constraint_new_idx(r) \in 0..(nRows - 1) /\ Rows = 0..(nRows - 1) /\ nEqs \in Nat
      BY <1>1, Places, Shape, Kinds
    <3>4. QED
      BY <3>2, <3>3
  <2>2. z \in Nat
    BY <1>3, <2>1
  <2>3. sol.row_dual[r] = (Sign(r) * lp.sense) * z
    BY PointReturned
  <2>4. lp.sense \in {1, -1} /\ Sign(r) \in {1, -1}
    BY <1>1, Numbers, Signs
  <2> HIDE DEF z
  <2>5. QED
    BY <2>2, <2>3, <2>4 DEF z
<1>6. DualsOnTheirSide
  <2>1. ASSUME NEW r \in Rows, constraint_type(r) = "GEQ" PROVE lp.sense * sol.row_dual[r] >= 0
    <3>1. Sign(r) = 1
      BY <2>1 DEF Sign
    <3>2. QED
      BY <1>5, <2>1, <3>1
  <2>2. ASSUME NEW r \in Rows, constraint_type(r) = "LEQ" PROVE lp.sense * sol.row_dual[r] <= 0
    <3>1. Sign(r) = -1
      BY <2>2 DEF Sign
    <3>2. QED
      BY <1>5, <2>2, <3>1
  <2>3. QED
    BY <2>1, <2>2 DEF DualsOnTheirSide
<1>7. QED
  BY <1>2, <1>3, <1>4, <1>6 DEF WithinBounds

(* What PDHG_PostSolve returns lies within the bounds of the program that  *)
(* was loaded, and its row duals have the signs that the rows allow, for   *)
(* every program, every sequence of passes and every point that the        *)
(* solver's projections leave possible.                                    *)
THEOREM ReturnedWithinBounds == Spec => [](pc = "Solved" => WithinBounds /\ DualsOnTheirSide)
<1>1. ASSUME FormInv, pc = "Solved" PROVE WithinBounds /\ DualsOnTheirSide
  <2>1. PICK x0 \in [Columns -> Int], y0 \in [Rows -> Int] : \E x, y : Answer(x0, y0, x, y)
    BY <1>1, OneAnswer
  <2>2. PICK x, y : Answer(x0, y0, x, y)
    BY <2>1
  <2>3. QED
    BY <1>1, <2>2, OneAnswer, AnswerWithin
<1>2. FormInv => (pc = "Solved" => WithinBounds /\ DualsOnTheirSide)
  BY <1>1
<1>3. QED
  BY <1>2, FormCorrect, PTL

-----------------------------------------------------------------------------
(* What the returned row duals leave of a column's cost is what the        *)
(* multipliers leave of it.                                                *)
LEMMA UnexplainedIs ==
  ASSUME Ready, NEW x0 \in [Columns -> Int], NEW y0 \in [Rows -> Int], NEW x, NEW y,
         Answer(x0, y0, x, y), NEW j \in Cols
  PROVE  Unexplained(j) = lp.sense * Reduced(j, y0) /\ Reduced(j, y0) \in Int
<1> DEFINE f == [r \in Rows |-> Unit * Coefficient(r, j) * sol.row_dual[r]]
           g == [r \in Rows |-> Unit * Coefficient(r, j) * (Sign(r) * y0[constraint_new_idx(r)])]
           s == lp.sense
           c == lp.col[j].cost
<1>1. /\ lp \in Models /\ IsFiniteSet(Rows) /\ s \in {1, -1} /\ s \in Int /\ c \in Int
      /\ Unit \in Int /\ j \in Columns
  BY Shape, Numbers, ColumnOf, SlackRows, UnitsAssumption DEF Ready
<1>2. ASSUME NEW r \in Rows PROVE g[r] \in Int /\ f[r] = s * g[r]
  <2> DEFINE a == Coefficient(r, j)
             z == y0[constraint_new_idx(r)]
             w == Sign(r)
  <2>1. a \in Int /\ z \in Int /\ w \in Int
    <3>1. a \in Int
      BY <1>1, Coefficients
    <3>2. constraint_new_idx(r) \in Rows
      BY <1>1, Places, Shape
    <3>3. w \in Int
      BY Signs
    <3>4. QED
      BY <3>1, <3>2, <3>3
  <2>2. sol.row_dual[r] = (w * s) * z
    BY PointReturned
  <2>3. f[r] = Unit * a * ((w * s) * z) /\ g[r] = Unit * a * (w * z)
    BY <2>2
  <2> HIDE DEF a, z, w, s, f, g
  <2>4. \A i1, i2, i3, i4, i5 \in Int :
          i1 * i2 * ((i3 * i4) * i5) = i4 * (i1 * i2 * (i3 * i5)) /\ i1 * i2 * (i3 * i5) \in Int
    OBVIOUS
  <2>5. s \in Int /\ Unit \in Int
    BY <1>1
  <2>6. Unit * a * ((w * s) * z) = s * (Unit * a * (w * z)) /\ Unit * a * (w * z) \in Int
    BY <2>1, <2>4, <2>5
  <2>7. QED
    BY <2>3, <2>6
<1>3. SumOf(g, Rows) = ColSum(j, y0)
  BY <1>1, ColSumIs DEF Explained
<1>4. Unexplained(j) = Unit * c - SumOf(f, Rows)
  <2>1. Unexplained(j) = Unit * c - SumFunction(f)
    BY DEF Unexplained
  <2>2. DOMAIN f = Rows
    OBVIOUS
  <2>3. QED
    BY <2>1, <2>2 DEF SumFunction, SumOf
<1>5. Reduced(j, y0) = Unit * (s * c) - ColSum(j, y0)
  BY DEF Reduced, CostOf
<1> HIDE DEF f, g, s, c
<1>6. SumOf(g, Rows) \in Int /\ SumOf(f, Rows) = s * SumOf(g, Rows)
  BY <1>1, <1>2, SumScaled
<1>7. \A i1, i2, i3 \in Int : /\ i1 * i2 - i3 \in Int
                              /\ i1 * i2 - 1 * i3 = 1 * (i1 * (1 * i2) - i3)
                              /\ i1 * i2 - (-1) * i3 = (-1) * (i1 * ((-1) * i2) - i3)
  OBVIOUS
<1>8. Unexplained(j) = s * Reduced(j, y0) /\ Reduced(j, y0) \in Int
  BY <1>1, <1>3, <1>4, <1>5, <1>6, <1>7
<1>9. QED
  BY <1>8 DEF s

(* The reduced cost returned for a column with two bounds is its cost less *)
(* what the returned row duals explain of it, and the row duals have the   *)
(* signs that their rows allow: for a program of either sense, whatever    *)
(* scaled it.                                                              *)
THEOREM DualsFitProgram == Spec => []DualsReturned
<1>1. ASSUME FormInv, pc = "Solved"
      PROVE  /\ \A j \in Cols : -Infinity < lp.col[j].lo /\ lp.col[j].up < Infinity =>
                  sol.col_dual[j] = Unexplained(j)
             /\ DualsOnTheirSide
  <2>1. PICK x0 \in [Columns -> Int], y0 \in [Rows -> Int] : \E x, y : Answer(x0, y0, x, y)
    BY <1>1, OneAnswer
  <2>2. PICK x, y : Answer(x0, y0, x, y)
    BY <2>1
  <2>3. Ready
    BY <1>1, OneAnswer
  <2>4. DualsOnTheirSide
    BY <2>2, <2>3, AnswerWithin
  <2>5. ASSUME NEW j \in Cols, -Infinity < lp.col[j].lo, lp.col[j].up < Infinity
        PROVE  sol.col_dual[j] = Unexplained(j)
    <3> DEFINE d == Reduced(j, y0)
    <3>1. Unexplained(j) = lp.sense * d /\ d \in Int
      BY <2>2, <2>3, UnexplainedIs
    <3>2. sol.col_dual[j] = lp.sense * (AtLower(j, y0) - AtUpper(j, y0))
      BY <2>2, <2>3, JudgedReturned
    <3>3. lp.col[j].lo \in Int /\ Infinity \in Int
      BY <2>3, ColumnOf, UnitsAssumption DEF Ready, HasBounds
    <3>4. Lo(j) > -Infinity /\ Up(j) < Infinity
      BY <2>5, <3>3 DEF Lo, Up
    <3>5. AtLower(j, y0) - AtUpper(j, y0) = d
      <4>1. AtLower(j, y0) = IF d > 0 THEN d ELSE 0
        BY <3>4 DEF AtLower
      <4>2. AtUpper(j, y0) = IF d < 0 THEN -d ELSE 0
        BY <3>4 DEF AtUpper
      <4> HIDE DEF d
      <4>3. QED
        BY <3>1, <4>1, <4>2
    <3>6. QED
      BY <3>1, <3>2, <3>5
  <2>6. QED
    BY <2>4, <2>5
<1>2. FormInv => DualsReturned
  BY <1>1 DEF DualsReturned
<1>3. QED
  BY <1>2, FormCorrect, PTL

(* The residuals that the tolerances are compared with are those of the    *)
(* point and the duals that are returned, in the units of the program that *)
(* was loaded: whatever passes scaled the data, a program is judged by its *)
(* own rows and costs.                                                     *)
THEOREM JudgedInOwnUnits == Spec => []JudgedUnscaled
<1>1. ASSUME FormInv, pc = "Solved"
      PROVE  /\ \A r \in Rows : sol.primalResidual[std.new[r]] = Unit * Violation(r)
             /\ \A j \in Cols :
                  sol.dualResidual[j] = lp.sense * (Unexplained(j) - sol.col_dual[j])
  <2>1. PICK x0 \in [Columns -> Int], y0 \in [Rows -> Int] : \E x, y : Answer(x0, y0, x, y)
    BY <1>1, OneAnswer
  <2>2. PICK x, y : Answer(x0, y0, x, y)
    BY <2>1
  <2>3. Ready /\ lp \in Models
    BY <1>1, OneAnswer DEF Ready
  <2>4. ASSUME NEW r \in Rows PROVE sol.primalResidual[std.new[r]] = Unit * Violation(r)
    <3> DEFINE a == Activity(r, sol.col_value)
               o == Over(r, x0)
               s == constraint_new_idx(r)
               t == constraint_type(r)
               lo == lp.row[r].lo
               up == lp.row[r].up
               z == sol.primalResidual[s]
    <3>1. std.new[r] = s /\ std.type[r] = t
      BY <2>3 DEF Ready, Formed
    <3>2. z = IF s >= nEqs /\ o > 0 THEN 0 ELSE o
      BY <2>2, <2>3, JudgedReturned
    <3>3. a = Activity(r, x0)
      <4>1. \A j \in Cols : sol.col_value[j] = x0[j]
        BY <2>2, <2>3, PointReturned
      <4>2. QED
        BY <4>1, ActivityAgrees
    <3>4. \A q \in Bound : sol.slack[q] = x0[Slack(q)]
      BY <2>2, <2>3, PointReturned
    <3>5. a \in Int /\ o \in Int /\ t \in {"EQ", "BOUND", "LEQ", "GEQ"}
      BY <2>3, <3>3, OverIs
    <3>6. s \in Int /\ nEqs \in Int
      BY <2>3, Places, Kinds
    <3>7. Violation(r) = CASE t = "EQ" -> a - lo
                           [] t = "BOUND" -> a - sol.slack[r]
                           [] t = "LEQ" -> IF a > up THEN up - a ELSE 0
                           [] t = "GEQ" -> IF a < lo THEN a - lo ELSE 0
      BY <3>1 DEF Violation
    <3>8. \A b \in Int : /\ Unit * b \in Int /\ (Unit * b > 0 <=> b > 0) /\ Unit * 0 = 0
      BY UnitsAssumption
    <3> HIDE DEF a, o, s, z, lo, up
    <3>9. CASE t = "EQ"
      <4>1. o = Unit * (a - lo) /\ s < nEqs
        BY <2>3, <3>3, <3>9, OverIs DEF o, s, lo
      <4>2. z = o /\ Violation(r) = a - lo
        BY <3>2, <3>6, <3>7, <3>9, <4>1
      <4>3. QED
        BY <3>1, <4>1, <4>2 DEF z
    <3>10. CASE t = "BOUND"
      <4>1. o = Unit * (a - x0[Slack(r)]) /\ s < nEqs /\ r \in Bound
        BY <2>3, <3>3, <3>10, OverIs DEF o, s
      <4>2. z = o /\ Violation(r) = a - x0[Slack(r)]
        BY <3>2, <3>4, <3>6, <3>7, <3>10, <4>1
      <4>3. QED
        BY <3>1, <4>1, <4>2 DEF z
    <3>11. CASE t = "LEQ"
      <4>1. o = Unit * (up - a) /\ up \in Int /\ ~ (s < nEqs)
        BY <2>3, <3>3, <3>11, OverIs DEF o, s, up
      <4>2. z = (IF o > 0 THEN 0 ELSE o) /\ Violation(r) = IF a > up THEN up - a ELSE 0
        BY <3>2, <3>6, <3>7, <3>11, <4>1
      <4>3. up - a \in Int
        BY <3>5, <4>1
      <4>4. o > 0 <=> up - a > 0
        BY <3>8, <4>1, <4>3
      <4>5. CASE up - a > 0
        <5>1. z = 0 /\ Violation(r) = 0
          BY <3>5, <4>1, <4>2, <4>4, <4>5
        <5>2. QED
          BY <3>1, <3>8, <5>1 DEF z
      <4>6. CASE up - a = 0
        <5>1. z = o /\ Violation(r) = 0 /\ o = Unit * 0
          BY <3>5, <4>1, <4>2, <4>4, <4>6
        <5>2. QED
          BY <3>1, <5>1 DEF z
      <4>7. CASE up - a < 0
        <5>1. z = o /\ Violation(r) = up - a
          BY <3>5, <4>1, <4>2, <4>4, <4>7
        <5>2. QED
          BY <3>1, <4>1, <5>1 DEF z
      <4>8. QED
        BY <4>3, <4>5, <4>6, <4>7
    <3>12. CASE t = "GEQ"
      <4>1. o = Unit * (a - lo) /\ lo \in Int /\ ~ (s < nEqs)
        BY <2>3, <3>3, <3>12, OverIs DEF o, s, lo
      <4>2. z = (IF o > 0 THEN 0 ELSE o) /\ Violation(r) = IF a < lo THEN a - lo ELSE 0
        BY <3>2, <3>6, <3>7, <3>12, <4>1
      <4>3. a - lo \in Int
        BY <3>5, <4>1
      <4>4. o > 0 <=> a - lo > 0
        BY <3>8, <4>1, <4>3
      <4>5. CASE a - lo > 0
        <5>1. z = 0 /\ Violation(r) = 0
          BY <3>5, <4>1, <4>2, <4>4, <4>5
        <5>2. QED
          BY <3>1, <3>8, <5>1 DEF z
      <4>6. CASE a - lo = 0
        <5>1. z = o /\ Violation(r) = 0 /\ o = Unit * 0
          BY <3>5, <4>1, <4>2, <4>4, <4>6
        <5>2. QED
          BY <3>1, <5>1 DEF z
      <4>7. CASE a - lo < 0
        <5>1. z = o /\ Violation(r) = a - lo
          BY <3>5, <4>1, <4>2, <4>4, <4>7
        <5>2. QED
          BY <3>1, <4>1, <5>1 DEF z
      <4>8. QED
        BY <4>3, <4>5, <4>6, <4>7
    <3>13. QED
      BY <3>5, <3>9, <3>10, <3>11, <3>12
  <2>5. ASSUME NEW j \in Cols
        PROVE  sol.dualResidual[j] = lp.sense * (Unexplained(j) - sol.col_dual[j])
    <3> DEFINE d == Reduced(j, y0)
               p == AtLower(j, y0)
               n1 == AtUpper(j, y0)
    <3>1. j \in Columns
      BY <2>3, SlackRows
    <3>2. Unexplained(j) = lp.sense * d /\ d \in Int
      BY <2>2, <2>3, UnexplainedIs
    <3>3. sol.col_dual[j] = lp.sense * (p - n1)
      BY <2>2, <2>3, JudgedReturned
    <3>4. sol.dualResidual[j] = d - p + n1
      BY <2>2, <2>3, <3>1, JudgedReturned
    <3>5. p \in Int /\ n1 \in Int
      BY <3>2 DEF AtLower, AtUpper
    <3>6. lp.sense \in {1, -1}
      BY <2>3, Numbers
    <3> HIDE DEF d, p, n1
    <3>7. \A i1, i2, i3 \in Int :
            /\ i1 - i2 + i3 = 1 * (1 * i1 - 1 * (i2 - i3))
            /\ i1 - i2 + i3 = (-1) * ((-1) * i1 - (-1) * (i2 - i3))
      OBVIOUS
    <3>8. QED
      BY <3>2, <3>3, <3>4, <3>5, <3>6, <3>7
  <2>6. QED
    BY <2>4, <2>5
<1>2. FormInv => JudgedUnscaled
  BY <1>1 DEF JudgedUnscaled
<1>3. QED
  BY <1>2, FormCorrect, PTL

-----------------------------------------------------------------------------
(* A point that satisfies the program satisfies the standard form.         *)
LEMMA PointKept ==
  ASSUME Ready, NEW v \in [Cols -> Int], Satisfies(v)
  PROVE  InBounds(WithSlacks(v)) /\ PrimalFeasible(WithSlacks(v))
<1> DEFINE u == Extended(v)
           x == ScaledUp(u, std.colScale)
<1>1. lp \in Models /\ DOMAIN std.cost = Columns /\ DOMAIN std.rhs = Rows
  BY DEF Ready, Formed
<1>2. /\ u \in [Columns -> Int]
      /\ \A j \in Columns : /\ Lo(j) > -Infinity => Lo(j) <= u[j]
                            /\ Up(j) < Infinity => u[j] <= Up(j)
      /\ \A r \in Rows : /\ Over(r, u) \in Int /\ Over(r, u) >= 0
                         /\ constraint_new_idx(r) < nEqs => Over(r, u) = 0
  BY <1>1, ExtendedFits
<1>3. WithSlacks(v) = x
  <2> DEFINE w == WithSlacks(v)
             F(j) == std.colScale[j] * (IF j \in Cols THEN v[j] ELSE Activity(SlackRow(j), v))
  <2>1. w = [j \in Columns |-> F(j)]
    BY <1>1 DEF WithSlacks
  <2>2. x = [j \in Columns |-> u[j] * std.colScale[j]]
    BY Scales DEF ScaledUp
  <2>3. ASSUME NEW j \in Columns PROVE F(j) = u[j] * std.colScale[j]
    <3>1. F(j) = std.colScale[j] * u[j]
      BY DEF Extended
    <3>2. std.colScale[j] \in Int /\ u[j] \in Int
      BY <1>2, Scales
    <3>3. \A i1, i2 \in Int : i1 * i2 = i2 * i1
      OBVIOUS
    <3> HIDE DEF F, u
    <3>4. QED
      BY <3>1, <3>2, <3>3
  <2> HIDE DEF F, u, x, w
  <2>4. w = x
    BY <2>1, <2>2, <2>3
  <2>5. QED
    BY <2>4 DEF w
<1> HIDE DEF u
<1>4. InBounds(x)
  BY <1>2, InBoundsIs
<1>5. ASSUME NEW q \in Rows PROVE PrimalResidual(x)[q] = 0
  <2>1. PICK r \in Rows : constraint_new_idx(r) = q
    BY <1>1, Places, Shape
  <2>2. /\ Over(r, u) \in Int
        /\ PrimalResidual(x)[q] = IF q >= nEqs /\ Over(r, u) > 0 THEN 0 ELSE Over(r, u)
    BY <1>2, <2>1, PrimalIs
  <2>3. q \in Int /\ nEqs \in Int
    BY <1>1, Shape, Kinds
  <2>4. QED
    BY <1>2, <2>1, <2>2, <2>3
<1>6. PrimalFeasible(x)
  BY <1>1, <1>5 DEF PrimalFeasible
<1>7. QED
  BY <1>3, <1>4, <1>6

(* What is returned without a residual satisfies the program.              *)
LEMMA PointFound ==
  ASSUME Ready, NEW x0 \in [Columns -> Int], NEW y0 \in [Rows -> Int], NEW x, NEW y,
         Answer(x0, y0, x, y), IsZero(sol.primalResidual)
  PROVE  Satisfies(sol.col_value)
<1>1. lp \in Models
  BY DEF Ready
<1>2. WithinBounds
  BY AnswerWithin
<1>3. /\ DOMAIN sol.primalResidual = Rows
      /\ \A r \in Rows :
           sol.primalResidual[constraint_new_idx(r)] =
             IF constraint_new_idx(r) >= nEqs /\ Over(r, x0) > 0 THEN 0 ELSE Over(r, x0)
  BY JudgedReturned
<1>4. ASSUME NEW r \in Rows PROVE Within(Activity(r, sol.col_value), lp.row[r])
  <2> DEFINE a == Activity(r, sol.col_value)
             o == Over(r, x0)
             s == constraint_new_idx(r)
             lo == lp.row[r].lo
             up == lp.row[r].up
  <2>1. a = Activity(r, x0)
    <3>1. \A j \in Cols : sol.col_value[j] = x0[j]
      BY PointReturned
    <3>2. QED
      BY <3>1, ActivityAgrees
  <2>2. a \in Int /\ o \in Int /\ constraint_type(r) \in {"EQ", "BOUND", "LEQ", "GEQ"}
    BY <1>1, <2>1, OverIs
  <2>3. s \in Rows /\ s \in Int /\ nEqs \in Int
    <3>1. s \in Rows
      BY <1>1, Places, Shape
    <3>2. Rows = 0..(nRows - 1) /\ nEqs \in Int
      BY <1>1, Shape, Kinds
    <3>3. QED
      BY <3>1, <3>2
  <2>4. (s >= nEqs /\ o > 0) \/ o = 0
    <3>1. sol.primalResidual[s] = 0
      BY <1>3, <2>3 DEF IsZero
    <3>2. sol.primalResidual[s] = IF s >= nEqs /\ o > 0 THEN 0 ELSE o
      BY <1>3
    <3>3. QED
      BY <2>2, <3>1, <3>2
  <2>5. \A b \in Int : (Unit * b > 0 <=> b > 0) /\ (Unit * b = 0 <=> b = 0)
    BY UnitsAssumption
  <2>6. CASE constraint_type(r) = "EQ"
    <3>1. o = Unit * (a - lo) /\ lo = up /\ lo \in Int /\ s < nEqs
      BY <1>1, <2>1, <2>6, OverIs
    <3>2. a - lo = 0
      BY <2>2, <2>3, <2>4, <2>5, <3>1
    <3>3. a = lo /\ a = up
      BY <2>2, <3>1, <3>2
    <3>4. QED
      BY <2>2, <3>1, <3>3 DEF Within
  <2>7. CASE constraint_type(r) = "BOUND"
    <3>1. o = Unit * (a - x0[Slack(r)]) /\ x0[Slack(r)] \in Int /\ s < nEqs /\ r \in Bound
      BY <1>1, <2>1, <2>7, OverIs
    <3>2. a - x0[Slack(r)] = 0
      BY <2>2, <2>3, <2>4, <2>5, <3>1
    <3>3. /\ Slack(r) \in Columns /\ Slack(r) \notin Cols
          /\ SlackRow(Slack(r)) = r
      BY <1>1, <3>1, SlackRows
    <3>4. Lo(Slack(r)) = lo /\ Up(Slack(r)) = up
      BY <3>3 DEF Lo, Up
    <3>5. /\ Lo(Slack(r)) > -Infinity => Lo(Slack(r)) <= x0[Slack(r)]
          /\ Up(Slack(r)) < Infinity => x0[Slack(r)] <= Up(Slack(r))
      BY <3>3, AnswerWithin
    <3>6. a = x0[Slack(r)]
      BY <2>2, <3>1, <3>2
    <3> HIDE DEF a
    <3>7. (lo > -Infinity => lo <= a) /\ (up < Infinity => a <= up)
      BY <3>4, <3>5, <3>6
    <3>8. QED
      BY <3>7 DEF Within, a
  <2>8. CASE constraint_type(r) = "LEQ"
    <3>1. o = Unit * (up - a) /\ up \in Int /\ ~ (lo > -Infinity)
      BY <1>1, <2>1, <2>8, OverIs
    <3>2. up - a \in Int
      BY <2>2, <3>1
    <3>3. a <= up
      BY <2>2, <2>4, <2>5, <3>1, <3>2
    <3>4. QED
      BY <3>1, <3>3 DEF Within
  <2>9. CASE constraint_type(r) = "GEQ"
    <3>1. o = Unit * (a - lo) /\ lo \in Int /\ ~ (up < Infinity)
      BY <1>1, <2>1, <2>9, OverIs
    <3>2. a - lo \in Int
      BY <2>2, <3>1
    <3>3. lo <= a
      BY <2>2, <2>4, <2>5, <3>1, <3>2
    <3>4. QED
      BY <3>1, <3>3 DEF Within
  <2>10. QED
    BY <2>2, <2>6, <2>7, <2>8, <2>9
<1>5. QED
  BY <1>2, <1>4 DEF Satisfies, WithinBounds

(* The standard form has the points of the program, no less and no more:   *)
(* every point that satisfies the program satisfies it together with its   *)
(* slacks, and what is returned without a residual satisfies the program,  *)
(* for every program and every sequence of passes.                         *)
THEOREM FormHasSamePoints == Spec => []SamePoints
<1>1. ASSUME FormInv, pc = "Scaled", NEW v \in [Cols -> XValues], Satisfies(v)
      PROVE  InBounds(WithSlacks(v)) /\ PrimalFeasible(WithSlacks(v))
  <2>1. Ready
    BY <1>1 DEF FormInv, Ready
  <2>2. v \in [Cols -> Int]
    BY ValuesAssumption
  <2>3. QED
    BY <1>1, <2>1, <2>2, PointKept
<1>2. ASSUME FormInv, pc = "Solved"
      PROVE  WithinBounds /\ (IsZero(sol.primalResidual) => Satisfies(sol.col_value))
  <2>1. PICK x0 \in [Columns -> Int], y0 \in [Rows -> Int] : \E x, y : Answer(x0, y0, x, y)
    BY <1>2, OneAnswer
  <2>2. PICK x, y : Answer(x0, y0, x, y)
    BY <2>1
  <2>3. Ready
    BY <1>2, OneAnswer
  <2>4. QED
    BY <2>2, <2>3, AnswerWithin, PointFound
<1>3. FormInv => SamePoints
  BY <1>1, <1>2 DEF SamePoints
<1>4. QED
  BY <1>3, FormCorrect, PTL

-----------------------------------------------------------------------------
(* What a point weighs with the multipliers, column by column and row by   *)
(* row: no less than what they make of bounds and right-hand sides.        *)
LEMMA ColumnWeighs ==
  ASSUME lp \in Models, NEW v \in [Rows -> Int], NEW u \in [Columns -> Int], NEW j \in Columns,
         Reduced(j, v) \in Int, Reduced(j, v) - AtLower(j, v) + AtUpper(j, v) = 0,
         Lo(j) > -Infinity => Lo(j) <= u[j], Up(j) < Infinity => u[j] <= Up(j)
  PROVE  /\ LowerTerm(v)[j] \in Int /\ UpperTerm(v)[j] \in Int
         /\ LowerTerm(v)[j] - UpperTerm(v)[j] <= Reduced(j, v) * u[j]
<1> DEFINE d == Reduced(j, v)
           p == AtLower(j, v)
           n1 == AtUpper(j, v)
           lo == IF Lo(j) > -Infinity THEN Lo(j) ELSE 0
           up == IF Up(j) < Infinity THEN Up(j) ELSE 0
<1>1. LowerTerm(v)[j] = p * lo /\ UpperTerm(v)[j] = n1 * up
  BY DEF LowerTerm, UpperTerm
<1>2. p = (IF d > 0 /\ Lo(j) > -Infinity THEN d ELSE 0)
  BY DEF AtLower
<1>3. n1 = (IF d < 0 /\ Up(j) < Infinity THEN -d ELSE 0)
  BY DEF AtUpper
<1>4. Lo(j) \in Int /\ Up(j) \in Int /\ lo \in Int /\ up \in Int /\ u[j] \in Int /\ d \in Int
  BY BoundsOf
<1>5. d - p + n1 = 0
  OBVIOUS
<1> HIDE DEF d, p, n1
<1>6. p \in Int /\ n1 \in Int
  BY <1>2, <1>3, <1>4
<1>7. \A a, b, c \in Int : a >= 0 /\ b <= c => a * b <= a * c
  OBVIOUS
<1>8. CASE d > 0
  <2>1. p = d /\ n1 = 0 /\ Lo(j) > -Infinity
    BY <1>2, <1>3, <1>4, <1>5, <1>8
  <2>2. lo <= u[j]
    BY <2>1
  <2>3. d * lo <= d * u[j]
    BY <1>4, <1>7, <1>8, <2>2
  <2> HIDE DEF lo, up
  <2>4. QED
    BY <1>1, <1>4, <2>1, <2>3 DEF d
<1>9. CASE d < 0
  <2>1. p = 0 /\ n1 = -d /\ Up(j) < Infinity
    BY <1>2, <1>3, <1>4, <1>5, <1>9
  <2>2. u[j] <= up
    BY <2>1
  <2>3. (-d) * u[j] <= (-d) * up
    <3>1. -d \in Int /\ -d >= 0
      BY <1>4, <1>9
    <3>2. QED
      BY <1>4, <1>7, <2>2, <3>1
  <2> HIDE DEF lo, up
  <2>4. 0 * lo - (-d) * up <= d * u[j] /\ 0 * lo \in Int /\ (-d) * up \in Int
    <3>1. (-d) * u[j] = -(d * u[j]) /\ 0 * lo = 0
      BY <1>4
    <3>2. QED
      BY <1>4, <2>3, <3>1
  <2>5. QED
    BY <1>1, <2>1, <2>4 DEF d
<1>10. CASE d = 0
  <2>1. p = 0 /\ n1 = 0
    BY <1>2, <1>3, <1>10
  <2> HIDE DEF lo, up
  <2>2. QED
    BY <1>1, <1>4, <1>10, <2>1 DEF d
<1>11. QED
  BY <1>4, <1>8, <1>9, <1>10

(* Row by row.                                                             *)
LEMMA RowWeighs ==
  ASSUME Ready, NEW v \in [Rows -> Int], NEW u \in [Columns -> Int], NEW q \in Rows,
         q >= nEqs => v[q] >= 0,
         \A r \in Rows : /\ Over(r, u) \in Int /\ Over(r, u) >= 0
                         /\ constraint_new_idx(r) < nEqs => Over(r, u) = 0
  PROVE  RhsTerm(v)[q] \in Int /\ RhsTerm(v)[q] <= RowSum(q, u) * v[q]
<1>1. lp \in Models /\ Exactly(std)
  BY DEF Ready
<1>2. PICK r \in Rows : constraint_new_idx(r) = q
  BY <1>1, Places, Shape
<1> DEFINE b == Unit * rhs(r)
           a == RowSum(q, u)
<1>3. RhsTerm(v)[q] = b * v[q]
  BY <1>1, <1>2 DEF RhsTerm, Exactly
<1>4. a \in Int /\ v[q] \in Int /\ q \in Int /\ nEqs \in Int
  <2>1. a \in Int
    BY <1>1, SumsCross
  <2>2. q \in Int /\ nEqs \in Int
    BY <1>1, Shape, Kinds
  <2>3. QED
    BY <2>1, <2>2
<1>5. b \in Int
  BY <1>1, Numbers, UnitsAssumption
<1>6. a - b >= 0 /\ (q < nEqs => a - b = 0)
  BY <1>2 DEF Over
<1> HIDE DEF a, b
<1>7. \A i1, i2, i3 \in Int : i3 >= 0 /\ i1 <= i2 => i1 * i3 <= i2 * i3
  OBVIOUS
<1>8. CASE q < nEqs
  <2>1. a = b
    BY <1>4, <1>5, <1>6, <1>8
  <2>2. QED
    BY <1>3, <1>4, <1>5, <2>1 DEF a
<1>9. CASE ~ (q < nEqs)
  <2>1. v[q] >= 0 /\ b <= a
    BY <1>4, <1>5, <1>6, <1>9
  <2>2. QED
    BY <1>3, <1>4, <1>5, <1>7, <2>1 DEF a
<1>10. QED
  BY <1>8, <1>9

(* The costs of a point, counted by the columns of the standard form.      *)
CostTerm(u) == [j \in Columns |-> (Unit * CostOf(j)) * u[j]]

(* Together: multipliers that leave no cost unexplained bound the costs of *)
(* the point.                                                              *)
LEMMA WeakDuality ==
  ASSUME Ready, NEW v \in [Rows -> Int], NEW u \in [Columns -> Int],
         \A r \in Rows : r >= nEqs => v[r] >= 0,
         \A j \in Columns : /\ Lo(j) > -Infinity => Lo(j) <= u[j]
                            /\ Up(j) < Infinity => u[j] <= Up(j),
         \A r \in Rows : /\ Over(r, u) \in Int /\ Over(r, u) >= 0
                         /\ constraint_new_idx(r) < nEqs => Over(r, u) = 0,
         \A j \in Columns : Reduced(j, v) - AtLower(j, v) + AtUpper(j, v) = 0
  PROVE  LET weighed == SumOf(RhsTerm(v), Rows) + SumOf(LowerTerm(v), Columns)
                          - SumOf(UpperTerm(v), Columns)
         IN weighed \in Int /\ weighed <= SumOf(CostTerm(u), Columns)
            /\ SumOf(CostTerm(u), Columns) \in Int
<1> DEFINE t == CostTerm(u)
           d == [j \in Columns |-> Reduced(j, v) * u[j]]
           c == [j \in Columns |-> ColSum(j, v) * u[j]]
           l == LowerTerm(v)
           p == UpperTerm(v)
           b == [j \in Columns |-> l[j] - p[j]]
           s == RhsTerm(v)
           w == [r \in Rows |-> RowSum(r, u) * v[r]]
<1>1. lp \in Models /\ IsFiniteSet(Columns) /\ IsFiniteSet(Rows)
  BY SlackRows, Shape DEF Ready
<1>2. ASSUME NEW j \in Columns
      PROVE  /\ l[j] \in Int /\ p[j] \in Int /\ d[j] \in Int /\ b[j] \in Int /\ b[j] <= d[j]
             /\ b[j] = (-1) * p[j] + l[j]
             /\ c[j] \in Int /\ t[j] = 1 * d[j] + c[j]
  <2>1. Reduced(j, v) \in Int
    BY ReducedIs
  <2>2. l[j] \in Int /\ p[j] \in Int /\ l[j] - p[j] <= Reduced(j, v) * u[j]
    BY <1>1, <2>1, ColumnWeighs
  <2>3. b[j] = l[j] - p[j] /\ d[j] = Reduced(j, v) * u[j] /\ c[j] = ColSum(j, v) * u[j]
    OBVIOUS
  <2>4. t[j] = (Unit * CostOf(j)) * u[j] /\ Reduced(j, v) = Unit * CostOf(j) - ColSum(j, v)
    BY DEF CostTerm, Reduced
  <2>5. u[j] \in Int /\ ColSum(j, v) \in Int /\ Unit * CostOf(j) \in Int
    <3>1. ColSum(j, v) \in Int
      BY <1>1, SumsCross
    <3>2. CostOf(j) \in Int /\ Unit \in Int
      BY <1>1, Numbers, UnitsAssumption
    <3>3. QED
      BY <3>1, <3>2
  <2> HIDE DEF b, d, c, t, l, p
  <2>6. \A i1, i2, i3 \in Int : /\ i1 * i2 = 1 * ((i1 - i3) * i2) + i3 * i2
                                /\ (i1 - i3) * i2 \in Int /\ i3 * i2 \in Int
    OBVIOUS
  <2>7. c[j] \in Int /\ d[j] \in Int /\ t[j] = 1 * d[j] + c[j]
    BY <2>3, <2>4, <2>5, <2>6
  <2>8. b[j] \in Int /\ b[j] <= d[j] /\ b[j] = (-1) * p[j] + l[j]
    BY <2>2, <2>3
  <2>9. QED
    BY <2>2, <2>7, <2>8
<1>3. ASSUME NEW q \in Rows PROVE s[q] \in Int /\ w[q] \in Int /\ s[q] <= w[q]
  <2>1. s[q] \in Int /\ s[q] <= RowSum(q, u) * v[q]
    BY RowWeighs
  <2>2. RowSum(q, u) \in Int
    BY <1>1, SumsCross
  <2>3. QED
    BY <2>1, <2>2
<1>4. SumOf(c, Columns) = SumOf(w, Rows)
  BY <1>1, SumsCross
<1> HIDE DEF t, d, c, l, p, b, s, w
<1>5. SumOf(d, Columns) \in Int /\ SumOf(c, Columns) \in Int
      /\ SumOf(t, Columns) = SumOf(d, Columns) + SumOf(c, Columns)
  <2> DEFINE a == 1
  <2>1. \A j \in Columns : d[j] \in Int /\ c[j] \in Int /\ t[j] = a * d[j] + c[j]
    BY <1>2
  <2>2. a \in Int
    OBVIOUS
  <2> HIDE DEF a
  <2>3. SumOf(d, Columns) \in Int /\ SumOf(c, Columns) \in Int
        /\ SumOf(t, Columns) = a * SumOf(d, Columns) + SumOf(c, Columns)
    BY <1>1, <2>1, <2>2, SumLinear
  <2>4. QED
    BY <2>3 DEF a
<1>6. SumOf(p, Columns) \in Int /\ SumOf(l, Columns) \in Int
      /\ SumOf(b, Columns) = (-1) * SumOf(p, Columns) + SumOf(l, Columns)
  BY <1>1, <1>2, SumLinear
<1>7. SumOf(b, Columns) <= SumOf(d, Columns)
  BY <1>1, <1>2, SumMonotone
<1>8. SumOf(s, Rows) <= SumOf(w, Rows) /\ SumOf(s, Rows) \in Int /\ SumOf(w, Rows) \in Int
  <2>1. SumOf(s, Rows) <= SumOf(w, Rows)
    BY <1>1, <1>3, SumMonotone
  <2>2. SumOf(s, Rows) \in Int
    BY <1>1, <1>3, SumFacts
  <2>3. SumOf(w, Rows) \in Int
    BY <1>1, <1>3, SumFacts
  <2>4. QED
    BY <2>1, <2>2, <2>3
<1>9. /\ SumOf(s, Rows) + SumOf(l, Columns) - SumOf(p, Columns) \in Int
      /\ SumOf(s, Rows) + SumOf(l, Columns) - SumOf(p, Columns) <= SumOf(t, Columns)
      /\ SumOf(t, Columns) \in Int
  BY <1>4, <1>5, <1>6, <1>7, <1>8
<1>10. QED
  BY <1>9 DEF s, l, p, t

(* Slacks cost nothing: it is the program's own objective.                 *)
LEMMA CostsAre ==
  ASSUME lp \in Models, NEW x \in [Cols -> Int], NEW u \in [Columns -> Int],
         \A j \in Cols : u[j] = x[j]
  PROVE  LET f == [j \in Cols |-> lp.col[j].cost * x[j]]
         IN  SumFunction(f) \in Int
             /\ SumOf(CostTerm(u), Columns) = (Unit * lp.sense) * SumFunction(f)
<1> DEFINE f == [j \in Cols |-> lp.col[j].cost * x[j]]
           t == CostTerm(u)
           a == Unit * lp.sense
<1>1. /\ IsFiniteSet(Columns) /\ Cols \subseteq Columns /\ IsFiniteSet(Cols)
      /\ Unit \in Int /\ lp.sense \in Int /\ a \in Int
  BY SlackRows, Shape, Numbers, UnitsAssumption
<1>2. ASSUME NEW j \in Cols PROVE f[j] \in Int /\ t[j] = a * f[j] /\ t[j] \in Int
  <2> DEFINE c == lp.col[j].cost
  <2>1. c \in Int /\ x[j] \in Int
    BY ColumnOf
  <2>2. t[j] = (Unit * (lp.sense * c)) * x[j] /\ f[j] = c * x[j]
    BY <1>1 DEF CostTerm, CostOf
  <2> HIDE DEF c, t, f
  <2>3. \A i1, i2, i3, i4 \in Int : /\ (i1 * (i2 * i3)) * i4 = (i1 * i2) * (i3 * i4)
                                    /\ (i1 * i2) * (i3 * i4) \in Int /\ i3 * i4 \in Int
    OBVIOUS
  <2>4. QED
    BY <1>1, <2>1, <2>2, <2>3
<1>3. ASSUME NEW j \in Columns \ Cols PROVE t[j] = 0
  BY UnitsAssumption DEF CostTerm, CostOf
<1>4. SumFunction(f) = SumOf(f, Cols)
  <2>1. DOMAIN f = Cols
    OBVIOUS
  <2>2. QED
    BY <2>1 DEF SumFunction, SumOf
<1> HIDE DEF f, t, a
<1>5. SumOf(f, Cols) \in Int /\ SumOf(t, Cols) = a * SumOf(f, Cols)
  BY <1>1, <1>2, SumScaled
<1>6. SumOf(t, Columns) = SumOf(t, Cols)
  BY <1>1, <1>2, <1>3, SumWithin
<1>7. SumFunction(f) \in Int /\ SumOf(t, Columns) = a * SumFunction(f)
  BY <1>4, <1>5, <1>6
<1>8. QED
  BY <1>7 DEF f, t, a

(* Weak duality across the translation: where no cost is left unexplained, *)
(* the dual objective that the solver reports bounds the program's own     *)
(* objective at every point that satisfies the program, from below when it *)
(* minimises and from above when it maximises.                             *)
THEOREM DualObjectiveIsBound == Spec => []DualObjectiveBounds
<1>1. ASSUME FormInv, pc = "Solved", IsZero(sol.dualResidual),
             NEW x1 \in [Cols -> XValues], Satisfies(x1)
      PROVE  lp.sense * sol.dualObj <= Unit * lp.sense *
               (lp.offset + SumFunction([j \in Cols |-> lp.col[j].cost * x1[j]]))
  <2> DEFINE f == [j \in Cols |-> lp.col[j].cost * x1[j]]
             u == Extended(x1)
             e == SumFunction(f)
             o == lp.offset
             s == lp.sense
  <2>1. PICK x0 \in [Columns -> Int], y0 \in [Rows -> Int] : \E x, y : Answer(x0, y0, x, y)
    BY <1>1, OneAnswer
  <2>2. PICK x, y : Answer(x0, y0, x, y)
    BY <2>1
  <2>3. Ready /\ lp \in Models
    BY <1>1, OneAnswer DEF Ready
  <2>4. x1 \in [Cols -> Int]
    BY ValuesAssumption
  <2>5. /\ u \in [Columns -> Int]
        /\ \A j \in Columns : /\ Lo(j) > -Infinity => Lo(j) <= u[j]
                              /\ Up(j) < Infinity => u[j] <= Up(j)
        /\ \A r \in Rows : /\ Over(r, u) \in Int /\ Over(r, u) >= 0
                           /\ constraint_new_idx(r) < nEqs => Over(r, u) = 0
    BY <1>1, <2>3, <2>4, ExtendedFits
  <2>6. \A j \in Cols : u[j] = x1[j]
    BY <2>3, SlackRows DEF Extended
  <2>7. \A r \in Rows : r >= nEqs => y0[r] >= 0
    BY <2>2, <2>3, AnswerWithin
  <2>8. \A j \in Columns : Reduced(j, y0) - AtLower(j, y0) + AtUpper(j, y0) = 0
    <3>1. /\ DOMAIN sol.dualResidual = Columns
          /\ \A j \in Columns :
               sol.dualResidual[j] = Reduced(j, y0) - AtLower(j, y0) + AtUpper(j, y0)
      BY <2>2, <2>3, JudgedReturned
    <3>2. QED
      BY <1>1, <3>1 DEF IsZero
  <2> DEFINE w == SumOf(RhsTerm(y0), Rows) + SumOf(LowerTerm(y0), Columns)
                    - SumOf(UpperTerm(y0), Columns)
  <2>9. sol.dualObj = Unit * o + s * w
    BY <2>2, <2>3, JudgedReturned
  <2> HIDE DEF u
  <2>10. w \in Int /\ w <= SumOf(CostTerm(u), Columns)
    BY <2>3, <2>5, <2>7, <2>8, WeakDuality
  <2>11. e \in Int /\ SumOf(CostTerm(u), Columns) = (Unit * s) * e
    BY <2>3, <2>4, <2>5, <2>6, CostsAre
  <2>12. Unit \in Int /\ o \in Int /\ s \in {1, -1}
    BY <2>3, Numbers, UnitsAssumption
  <2> HIDE DEF w, e, o, s
  <2>13. w <= (Unit * s) * e
    BY <2>10, <2>11
  <2>14. \A i1, i2, i3, i4 \in Int :
           /\ i4 <= (i1 * 1) * i3 => 1 * (i1 * i2 + 1 * i4) <= i1 * 1 * (i2 + i3)
           /\ i4 <= (i1 * (-1)) * i3 =>
                (-1) * (i1 * i2 + (-1) * i4) <= i1 * (-1) * (i2 + i3)
    <3>1. \A i1, i2, i3 \in Int : /\ i1 * 1 * (i2 + i3) = i1 * i2 + i1 * i3
                                  /\ i1 * (-1) * (i2 + i3) = -(i1 * i2) - i1 * i3
                                  /\ (i1 * 1) * i3 = i1 * i3 /\ (i1 * (-1)) * i3 = -(i1 * i3)
                                  /\ i1 * i2 \in Int /\ i1 * i3 \in Int
      OBVIOUS
    <3>2. QED
      BY <3>1
  <2>15. s * sol.dualObj <= Unit * s * (o + e)
    BY <2>9, <2>10, <2>11, <2>12, <2>13, <2>14
  <2>16. QED
    BY <2>15 DEF s, o, e
<1>2. FormInv => DualObjectiveBounds
  BY <1>1 DEF DualObjectiveBounds
<1>3. QED
  BY <1>2, FormCorrect, PTL

-----------------------------------------------------------------------------
(* The program as a whole does to these variables what their part does, so *)
=============================================================================
