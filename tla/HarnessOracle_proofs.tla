------------------------- MODULE HarnessOracle_proofs -------------------------
(***************************************************************************)
(* What the harnesses record, suppress and leave behind, for campaigns     *)
(* under any set of them and minja templates of any length and nesting.    *)
(* First the operators: the depth the scan computes, the superclasses of   *)
(* an exception, the clause that takes it.  Then the inductive invariant.  *)
(***************************************************************************)
EXTENDS HarnessOracle, FiniteSetTheorems, TLAPS

(* A set of numbers with a member has a least one. *)
LEMMA NatMin ==
    ASSUME NEW S, S \subseteq Nat, S # {}
    PROVE  \E x \in S : \A y \in S : x <= y
<1> DEFINE R == OpToRel(<, Nat)
<1>1. IsWellFoundedOn(R, Nat)
  BY NatLessThanWellFounded
<1>2. \A x, y \in Nat : x < y => <<x, y>> \in R
  BY DEF OpToRel
<1> HIDE DEF R
<1>3. PICK x \in S : \A y \in S : ~ (<<y, x>> \in R)
  BY <1>1, WFMin
<1>4. ASSUME NEW y \in S PROVE x <= y
  <2>1. x \in Nat /\ y \in Nat
    OBVIOUS
  <2>2. ~(y < x)
    BY <1>2, <1>3, <2>1, Zenon
  <2>3. QED
    BY <2>1, <2>2
<1>5. QED
  BY <1>4

(* A set of numbers up to N that has 0 and, with a number, the next one.   *)
LEMMA UpTo ==
    ASSUME NEW N \in Nat, NEW S, 0 \in S, \A n \in 0..(N - 1) : n \in S => n + 1 \in S
    PROVE  0..N \subseteq S
<1> DEFINE Gap == {n \in 0..N : n \notin S}
<1>1. SUFFICES ASSUME Gap # {} PROVE FALSE
  OBVIOUS
<1>2. PICK x \in Gap : \A y \in Gap : x <= y
  <2>1. Gap \subseteq Nat
    OBVIOUS
  <2> HIDE DEF Gap
  <2>2. QED BY <1>1, <2>1, NatMin
<1>3. x # 0 /\ x \in 0..N
  OBVIOUS
<1>4. x - 1 \in 0..(N - 1) /\ x - 1 \notin Gap
  BY <1>2, <1>3
<1>5. x - 1 \in S
  BY <1>4
<1>6. QED BY <1>3, <1>4, <1>5

(* depth is what the scan computes: the recursion has a solution. *)
LEMMA DepthUnfolds ==
    ASSUME NEW text \in Seq(Symbols), NEW n \in 0..Len(text)
    PROVE  Depth(text)[n] = IF n = 0 THEN 0 ELSE After(text[n], Depth(text)[n - 1])
<1> DEFINE N == Len(text)
           Step(g, m) == IF m = 0 THEN 0 ELSE After(text[m], g[m - 1])
           Solves(k) == \E g : \A m \in 0..k : g[m] = Step(g, m)
           S == {k \in 0..N : Solves(k)}
<1>1. N \in Nat
  OBVIOUS
<1>2. Solves(0)
  <2> DEFINE g == [m \in 0..0 |-> 0]
  <2>1. \A m \in 0..0 : g[m] = Step(g, m)
    OBVIOUS
  <2>2. QED BY <2>1
<1>3. ASSUME NEW k \in 0..(N - 1), Solves(k) PROVE Solves(k + 1)
  <2>1. PICK g : \A m \in 0..k : g[m] = Step(g, m)
    BY <1>3
  <2> DEFINE h == [m \in 0..N |-> IF m = k + 1 THEN Step(g, m) ELSE g[m]]
  <2>2. \A m \in 0..(k + 1) : m \in 0..N /\ (m # 0 => h[m - 1] = g[m - 1])
    BY <1>1
  <2>3. \A m \in 0..(k + 1) : Step(h, m) = Step(g, m)
    BY <2>2
  <2>4. \A m \in 0..(k + 1) : h[m] = Step(g, m)
    BY <2>1, <1>1
  <2>5. QED BY <2>3, <2>4
<1>4. Solves(N)
  <2> HIDE DEF N, Solves
  <2>1. 0 \in S /\ \A k \in 0..(N - 1) : k \in S => k + 1 \in S
    BY <1>1, <1>2, <1>3
  <2> HIDE DEF S
  <2>2. 0..N \subseteq S
    BY <1>1, <2>1, UpTo
  <2>3. N \in S
    BY <1>1, <2>2
  <2>4. QED BY <2>3 DEF S
<1>5. PICK g : \A m \in 0..N : g[m] = Step(g, m)
  BY <1>4
<1>6. [m \in 0..N |-> g[m]] = [m \in 0..N |-> Step([i \in 0..N |-> g[i]], m)]
  BY <1>1, <1>5
<1>7. Depth(text) = [m \in 0..N |-> Step(Depth(text), m)]
  BY <1>6 DEF Depth
<1>8. QED BY <1>7

(* The brackets of a stretch, whether or not in a literal. *)
Among(text, kind, i, j) == {n \in i..j : text[n] = kind}
PlainSurplus(text, i, j) ==
    Cardinality(Among(text, "open", i, j)) - Cardinality(Among(text, "close", i, j))

(* What one more symbol does to the brackets of a stretch. *)
LEMMA AmongGrows ==
    ASSUME NEW text, NEW kind, NEW i \in Nat, NEW j \in Nat, i <= j
    PROVE  /\ Cardinality(Among(text, kind, i, j)) \in Nat
           /\ Cardinality(Among(text, kind, i, j - 1)) \in Nat
           /\ Cardinality(Among(text, kind, i, j)) =
                 Cardinality(Among(text, kind, i, j - 1)) + (IF text[j] = kind THEN 1 ELSE 0)
<1> DEFINE A == Among(text, kind, i, j - 1)
<1>1. IsFiniteSet(A)
  <2>1. IsFiniteSet(i..(j - 1))
    BY FS_Interval
  <2>2. A \subseteq i..(j - 1)
    BY DEF Among
  <2>3. QED BY <2>1, <2>2, FS_Subset
<1>2. j \notin A
  BY DEF Among
<1>3. Among(text, kind, i, j) = IF text[j] = kind THEN A \cup {j} ELSE A
  <2>1. i..j = (i..(j - 1)) \cup {j}
    OBVIOUS
  <2>2. QED BY <2>1 DEF Among
<1>4. Cardinality(A) \in Nat /\ Cardinality(A \cup {j}) = Cardinality(A) + 1
  BY <1>1, <1>2, FS_CardinalityType, FS_AddElement
<1> HIDE DEF A
<1>5. CASE text[j] = kind
  BY <1>3, <1>4, <1>5 DEF A
<1>6. CASE text[j] # kind
  BY <1>3, <1>4, <1>6 DEF A
<1>7. QED BY <1>5, <1>6

(* An empty stretch has no surplus. *)
LEMMA NoStretch == ASSUME NEW text, NEW i \in Nat PROVE PlainSurplus(text, i, i - 1) = 0
<1>1. \A kind : Among(text, kind, i, i - 1) = {}
  <2>1. i..(i - 1) = {}
    OBVIOUS
  <2>2. QED BY <2>1 DEF Among
<1>2. QED BY <1>1, FS_EmptySet DEF PlainSurplus

(* What one more symbol does to the surplus. *)
LEMMA SurplusGrows ==
    ASSUME NEW text, NEW i \in Nat, NEW j \in Nat, i <= j
    PROVE  /\ PlainSurplus(text, i, j - 1) \in Int
           /\ PlainSurplus(text, i, j) =
                 PlainSurplus(text, i, j - 1) + (CASE text[j] = "open" -> 1
                                                  [] text[j] = "close" -> -1
                                                  [] OTHER -> 0)
<1> DEFINE O == Cardinality(Among(text, "open", i, j - 1))
           C == Cardinality(Among(text, "close", i, j - 1))
<1>1. O \in Nat /\ C \in Nat
  BY AmongGrows
<1>2. /\ Cardinality(Among(text, "open", i, j)) = O + (IF text[j] = "open" THEN 1 ELSE 0)
      /\ Cardinality(Among(text, "close", i, j)) = C + (IF text[j] = "close" THEN 1 ELSE 0)
  BY AmongGrows
<1> HIDE DEF O, C
<1>3. PlainSurplus(text, i, j - 1) = O - C
  BY DEF PlainSurplus, O, C
<1>4. QED
  BY <1>1, <1>2, <1>3 DEF PlainSurplus

(* The depth after n bytes is the largest surplus of a stretch that ends   *)
(* there, or 0.                                                            *)
DepthIsSurplus(text, n) ==
    /\ Depth(text)[n] \in Nat
    /\ \A i \in 1..n : PlainSurplus(text, i, n) <= Depth(text)[n]
    /\ Depth(text)[n] > 0 => \E i \in 1..n : PlainSurplus(text, i, n) = Depth(text)[n]

(* By induction over the bytes scanned. *)
LEMMA ScanCounts ==
    ASSUME NEW text \in Seq(Symbols), NEW n \in 0..Len(text)
    PROVE  DepthIsSurplus(text, n)
<1> DEFINE N == Len(text)
           S == {k \in 0..N : DepthIsSurplus(text, k)}
<1>1. N \in Nat
  OBVIOUS
<1>2. DepthIsSurplus(text, 0)
  BY DepthUnfolds DEF DepthIsSurplus
<1>3. ASSUME NEW k \in 0..(N - 1), DepthIsSurplus(text, k) PROVE DepthIsSurplus(text, k + 1)
  <2> DEFINE d == Depth(text)[k]
             e == Depth(text)[k + 1]
             delta == CASE text[k + 1] = "open" -> 1
                        [] text[k + 1] = "close" -> -1
                        [] OTHER -> 0
  <2>1. k \in Nat /\ k + 1 \in 0..N /\ (k + 1) - 1 = k /\ k + 1 # 0
    BY <1>1
  <2>2. e = After(text[k + 1], d)
    BY <2>1, DepthUnfolds
  <2>3. /\ d \in Nat
        /\ \A i \in 1..k : PlainSurplus(text, i, k) <= d
        /\ d > 0 => \E i \in 1..k : PlainSurplus(text, i, k) = d
    BY <1>3 DEF DepthIsSurplus
  <2>4. ASSUME NEW i \in 1..(k + 1)
        PROVE  /\ PlainSurplus(text, i, k) \in Int
               /\ PlainSurplus(text, i, k + 1) = PlainSurplus(text, i, k) + delta
    <3>1. i \in Nat /\ k + 1 \in Nat /\ i <= k + 1
      BY <2>1
    <3>2. /\ PlainSurplus(text, i, (k + 1) - 1) \in Int
          /\ PlainSurplus(text, i, k + 1) = PlainSurplus(text, i, (k + 1) - 1) + delta
      BY <3>1, SurplusGrows
    <3>3. QED BY <2>1, <3>2
  <2>5. PlainSurplus(text, k + 1, k) = 0
    BY <2>1, NoStretch
  <2> HIDE DEF d, e
  <2>6. e \in Nat /\ \A i \in 1..(k + 1) : PlainSurplus(text, i, k) + delta <= e
    <3>1. \A i \in 1..(k + 1) : PlainSurplus(text, i, k) <= d
      BY <2>1, <2>3, <2>5
    <3>2. e \in Nat /\ d + delta <= e /\ delta \in Int
      BY <2>2, <2>3 DEF After
    <3> HIDE DEF delta
    <3>3. QED BY <2>3, <2>4, <3>1, <3>2
  <2>7. ASSUME e > 0 PROVE \E i \in 1..(k + 1) : PlainSurplus(text, i, k) + delta = e
    <3>1. e = d + delta
      BY <2>2, <2>3, <2>7 DEF After
    <3>2. CASE d > 0
      <4>1. PICK i \in 1..k : PlainSurplus(text, i, k) = d
        BY <2>3, <3>2
      <4>2. i \in 1..(k + 1)
        BY <2>1
      <4>3. QED BY <3>1, <4>1, <4>2
    <3>3. CASE d = 0
      <4>1. k + 1 \in 1..(k + 1)
        BY <2>1
      <4>2. QED BY <2>5, <3>1, <3>3, <4>1
    <3>4. QED BY <2>3, <3>2, <3>3
  <2>8. QED
    BY <2>4, <2>6, <2>7 DEF DepthIsSurplus, e
<1>4. 0..N \subseteq S
  <2> HIDE DEF N
  <2>1. 0 \in S /\ \A k \in 0..(N - 1) : k \in S => k + 1 \in S
    BY <1>1, <1>2, <1>3
  <2> HIDE DEF S
  <2>2. QED BY <1>1, <2>1, UpTo
<1>5. QED BY <1>4

(* Outside literals, the scan and the parser count the same. *)
LEMMA SameSurplus ==
    ASSUME NEW text \in Seq(Symbols), ~BracketInLiteral(text),
           NEW i \in 1..Len(text), NEW j \in 1..Len(text)
    PROVE  Surplus(text, i, j) = PlainSurplus(text, i, j)
<1>1. ASSUME NEW kind \in {"open", "close"}
      PROVE  Brackets(text, kind, i, j) = Among(text, kind, i, j)
  <2>1. \A n \in i..j : n \in DOMAIN text
    OBVIOUS
  <2>2. QED BY <2>1 DEF BracketInLiteral, Brackets, Among
<1>2. QED BY <1>1 DEF Surplus, PlainSurplus

(* The guard lets a template pass exactly when its nesting is within the   *)
(* bound, unless brackets stand in a string literal.                       *)
LEMMA ScanIsNesting ==
    ASSUME NEW text \in Seq(Symbols), ~BracketInLiteral(text)
    PROVE  (\E n \in 0..Len(text) : Depth(text)[n] > MaxDepth) <=> ~NestsWithin(text, MaxDepth)
<1>1. MaxDepth \in Nat /\ Len(text) \in Nat
  BY GuardAssumption
<1>2. ASSUME NEW n \in 0..Len(text), Depth(text)[n] > MaxDepth
      PROVE  ~NestsWithin(text, MaxDepth)
  <2>1. Depth(text)[n] \in Nat /\ Depth(text)[n] > 0
    BY <1>1, <1>2, ScanCounts DEF DepthIsSurplus
  <2>2. PICK i \in 1..n : PlainSurplus(text, i, n) = Depth(text)[n]
    BY <2>1, ScanCounts DEF DepthIsSurplus
  <2>3. n \in 1..Len(text) /\ i \in 1..Len(text)
    BY <1>1
  <2>4. Surplus(text, i, n) > MaxDepth
    BY <2>2, <2>3, <1>2, SameSurplus
  <2>5. ~(Surplus(text, i, n) <= MaxDepth)
    BY <1>1, <2>1, <2>2, <2>3, <2>4, SameSurplus
  <2>6. QED BY <2>3, <2>5 DEF NestsWithin
<1>3. ASSUME \A n \in 0..Len(text) : ~(Depth(text)[n] > MaxDepth)
      PROVE  NestsWithin(text, MaxDepth)
  <2> SUFFICES ASSUME NEW i \in 1..Len(text), NEW j \in 1..Len(text)
               PROVE  Surplus(text, i, j) <= MaxDepth
    BY DEF NestsWithin
  <2>1. Surplus(text, i, j) = PlainSurplus(text, i, j)
    BY SameSurplus
  <2>2. j \in 0..Len(text) /\ DepthIsSurplus(text, j)
    BY ScanCounts
  <2>3. Depth(text)[j] \in Nat /\ Depth(text)[j] <= MaxDepth
    BY <1>1, <1>3, <2>2 DEF DepthIsSurplus
  <2>4. CASE i <= j
    <3>1. PlainSurplus(text, i, j) \in Int
      <4>1. i \in Nat /\ j \in Nat
        OBVIOUS
      <4>2. QED BY <2>4, <4>1, SurplusGrows
    <3>2. i \in 1..j
      BY <2>4
    <3>3. PlainSurplus(text, i, j) <= Depth(text)[j]
      BY <2>2, <3>2 DEF DepthIsSurplus
    <3>4. QED BY <1>1, <2>1, <2>3, <3>1, <3>3
  <2>5. CASE i > j
    <3>1. \A kind : Among(text, kind, i, j) = {}
      <4>1. i..j = {}
        BY <2>5
      <4>2. QED BY <4>1 DEF Among
    <3>2. PlainSurplus(text, i, j) = 0
      <4>1. Cardinality({}) = 0
        BY FS_EmptySet
      <4>2. Among(text, "open", i, j) = {} /\ Among(text, "close", i, j) = {}
        BY <3>1
      <4>3. /\ Cardinality(Among(text, "open", i, j)) = 0
            /\ Cardinality(Among(text, "close", i, j)) = 0
        BY <4>1, <4>2
      <4>4. QED BY <4>3 DEF PlainSurplus
    <3>3. QED BY <1>1, <2>1, <3>2
  <2>6. QED BY <2>4, <2>5
<1>4. QED BY <1>2, <1>3
--------------------------------------------------------------------------------
(* The tables the harnesses run. *)

(* The table of each harness. *)
LEMMA StagesOf ==
    /\ Stages("gguf_py") = GgufPy                  /\ Stages("weights_only") = WeightsOnly
    /\ Stages("rebuild_args") = RebuildArgs        /\ Stages("msgpack_restore") = MsgpackRestore
    /\ Stages("from_state_dict") = FromStateDict   /\ Stages("config") = Config
    /\ Stages("tokenizers") = Tokenizers           /\ Stages("differential") = Differential
    /\ Stages("gguf") = Gguf                       /\ Stages("minja_parse") = MinjaParse
    /\ Stages("minja_render") = MinjaRender        /\ Stages("clip") = Clip
BY DEF Stages

(* What no clause of any table names. *)
Uncaught == {"PanicException", "BaseException", "Fault", "fault"}

(* The stages have names of their own, nothing is raised by returning, and *)
(* no clause names a BaseException or a fault.                             *)
Sound(table) ==
    \A s \in DOMAIN table :
        /\ s \notin {"raise", "suppress", "end"}
        /\ table[s].next # "raise"
        /\ \A c \in DOMAIN table[s].clauses : table[s].clauses[c].classes \cap Uncaught = {}

(* Table by table. *)
LEMMA TablesSound == \A h \in Fuzzed : Sound(Stages(h))
<1> USE DEF Sound, Uncaught, Guarded, Except, Building
<1>1. Sound(GgufPy)
  BY DEF GgufPy, GgufPyExpected
<1>2. Sound(WeightsOnly)
  BY DEF WeightsOnly, UnpicklerExpected
<1>3. Sound(RebuildArgs)
  BY DEF RebuildArgs, UnpicklerExpected
<1>4. Sound(MsgpackRestore)
  BY DEF MsgpackRestore, MsgpackExpected
<1>5. Sound(FromStateDict)
  BY DEF FromStateDict
<1>6. Sound(Config)
  BY DEF Config, ConfigLoad, ConfigExpected
<1>7. Sound(Tokenizers)
  BY DEF Tokenizers
<1>8. Sound(Differential)
  BY DEF Differential
<1>9. Sound(Gguf) /\ Sound(MinjaParse) /\ Sound(MinjaRender) /\ Sound(Clip)
  BY DEF Gguf, MinjaParse, MinjaRender, Clip, StdCaught
<1> HIDE DEF Sound, Uncaught, Guarded, Except, Building
<1>10. QED
  BY StagesOf, <1>1, <1>2, <1>3, <1>4, <1>5, <1>6, <1>7, <1>8, <1>9 DEF Fuzzed, Cxx, Minja

(* A stage no other one leads to. *)
Begins(table, s) ==
    /\ s \in DOMAIN table
    /\ \A t \in DOMAIN table : /\ table[t].next # s
                               /\ \A c \in DOMAIN table[t].clauses : table[t].clauses[c].then # s

(* Every table has one, and FirstStage chooses it. *)
LEMMA FirstStageBegins == \A h \in Fuzzed : Begins(Stages(h), FirstStage(h))
<1>1. ASSUME NEW h, NEW s, Begins(Stages(h), s) PROVE Begins(Stages(h), FirstStage(h))
  BY <1>1 DEF FirstStage, Begins
<1>2. /\ Begins(GgufPy, "load") /\ Begins(WeightsOnly, "load") /\ Begins(Gguf, "init")
  BY DEF Begins, GgufPy, WeightsOnly, Gguf, Guarded, Except
<1>3. Begins(RebuildArgs, "build") /\ Begins(Tokenizers, "build")
  BY DEF Begins, RebuildArgs, Tokenizers, Guarded, Except, Building
<1>4. Begins(MsgpackRestore, "build")
  BY DEF Begins, MsgpackRestore, Guarded, Except, Building
<1>5. Begins(FromStateDict, "build")
  BY DEF Begins, FromStateDict, Guarded, Except, Building
<1>6. /\ Begins(Config, "build") /\ Begins(Differential, "slow")
  BY DEF Begins, Config, ConfigLoad, Differential, Guarded, Except, Building
<1>7. /\ Begins(MinjaParse, "guard") /\ Begins(MinjaRender, "guard") /\ Begins(Clip, "temp")
  BY DEF Begins, MinjaParse, MinjaRender, Clip, StdCaught, Guarded, Except
<1>8. QED
  BY StagesOf, <1>1, <1>2, <1>3, <1>4, <1>5, <1>6, <1>7 DEF Fuzzed, Cxx, Minja

(* The exceptions by their distance from a root. *)
D1 == {e \in DOMAIN Super : Super[e] \in Roots}
D2 == {e \in DOMAIN Super : Super[e] \in D1}
D3 == {e \in DOMAIN Super : Super[e] \in D2}
D4 == {e \in DOMAIN Super : Super[e] \in D3}

(* No exception is further from its root than UnicodeDecodeError. *)
LEMMA FourLevels == DOMAIN Super \subseteq D1 \cup D2 \cup D3 \cup D4
<1>1. {"Exception", "PanicException", "exception", "number", "Fault"} \subseteq D1
  BY DEF D1, Super, Roots
<1>2. {"ValueError", "LookupError", "RuntimeError", "MemoryError", "EOFError", "OSError",
       "TypeError", "AttributeError", "ImportError", "ArithmeticError", "AssertionError",
       "StructError", "UnpicklingError", "SerializationError", "UnpackException",
       "runtime_error", "bad_alloc"} \subseteq D2
  BY <1>1 DEF D2, Super
<1>3. {"UnicodeError", "JSONDecodeError", "KeyError", "IndexError", "RecursionError",
       "NotImplementedError", "OverflowError", "ExtraData"} \subseteq D3
  BY <1>2 DEF D3, Super
<1>4. {"UnicodeDecodeError"} \subseteq D4
  BY <1>3 DEF D4, Super
<1>5. QED
  BY <1>1, <1>2, <1>3, <1>4 DEF Super

(* The superclasses are those of the direct superclass and the class: the  *)
(* recursion has a solution, which four rounds reach from anything.        *)
LEMMA MroUnfolds ==
    Mro = [e \in DOMAIN Super \cup Roots |->
              IF e \in Roots THEN {e} ELSE {e} \cup Mro[Super[e]]]
<1> DEFINE D == DOMAIN Super \cup Roots
           F(g) == [e \in D |-> IF e \in Roots THEN {e} ELSE {e} \cup g[Super[e]]]
           Unwound == F(F(F(F(F([e \in D |-> {e}])))))
<1>1. \A g, h : \A e \in D : e \in Roots \/ g[Super[e]] = h[Super[e]] => F(g)[e] = F(h)[e]
  OBVIOUS
<1>2. \A g, h : (\A e \in D : F(g)[e] = F(h)[e]) => F(g) = F(h)
  OBVIOUS
<1>3. D = Roots \cup D1 \cup D2 \cup D3 \cup D4
  BY FourLevels DEF D1, D2, D3, D4
<1> HIDE DEF F, D
<1>4. \A g, h : \A e \in D1 : F(F(g))[e] = F(F(h))[e]
  BY <1>1, <1>3 DEF D1
<1>5. \A g, h : \A e \in D2 : F(F(F(g)))[e] = F(F(F(h)))[e]
  BY <1>1, <1>3, <1>4 DEF D2
<1>6. ASSUME NEW g, NEW h, NEW e \in D3 PROVE F(F(F(F(g))))[e] = F(F(F(F(h))))[e]
  <2>1. e \in D /\ Super[e] \in D2
    BY <1>3 DEF D3
  <2>2. F(F(F(g)))[Super[e]] = F(F(F(h)))[Super[e]]
    BY <2>1, <1>5
  <2>3. QED BY <2>1, <2>2, <1>1, Zenon
<1>7. ASSUME NEW g, NEW h, NEW e \in D4 PROVE F(F(F(F(F(g)))))[e] = F(F(F(F(F(h)))))[e]
  <2>1. e \in D /\ Super[e] \in D3
    BY <1>3 DEF D4
  <2>2. F(F(F(F(g))))[Super[e]] = F(F(F(F(h))))[Super[e]]
    BY <2>1, <1>6
  <2>3. QED BY <2>1, <2>2, <1>1, Zenon
<1>8. Unwound = F(Unwound)
  <2> DEFINE g == [e \in D |-> {e}]
             h == F(g)
  <2>1. ASSUME NEW e \in D PROVE F(F(F(F(F(g)))))[e] = F(F(F(F(F(h)))))[e]
    <3>1. CASE e \in Roots
      BY <3>1, <1>1
    <3>2. CASE e \in D1
      BY <3>2, <1>4
    <3>3. CASE e \in D2
      BY <3>3, <1>5
    <3>4. CASE e \in D3
      BY <3>4, <1>6
    <3>5. CASE e \in D4
      BY <3>5, <1>7
    <3>6. QED BY <3>1, <3>2, <3>3, <3>4, <3>5, <1>3
  <2>2. QED BY <2>1, <1>2
<1>9. QED BY <1>8 DEF Mro, D, F

(* The classes a clause may name to take a RecursionError. *)
RecursionMro == {"RecursionError", "RuntimeError", "Exception", "BaseException"}

(* The superclasses of the exceptions the properties are about. *)
LEMMA Ancestors ==
    /\ Mro["RecursionError"] = RecursionMro
    /\ Mro["PanicException"] = {"PanicException", "BaseException"}
    /\ Mro["Fault"] = {"Fault", "fault"}
<1>1. \A e \in Roots : Mro[e] = {e}
  BY MroUnfolds
<1>2. \A e \in DOMAIN Super : Mro[e] = {e} \cup Mro[Super[e]]
  <2>1. \A e \in DOMAIN Super : e \notin Roots
    BY DEF Super, Roots
  <2>2. QED BY <2>1, MroUnfolds
<1>3. /\ Mro["Exception"] = {"Exception", "BaseException"}
      /\ Mro["PanicException"] = {"PanicException", "BaseException"}
      /\ Mro["Fault"] = {"Fault", "fault"}
  BY <1>1, <1>2 DEF Super, Roots
<1>4. Mro["RuntimeError"] = {"RuntimeError", "Exception", "BaseException"}
  BY <1>2, <1>3 DEF Super
<1>5. Mro["RecursionError"] = RecursionMro
  BY <1>2, <1>4 DEF Super, RecursionMro
<1>6. QED BY <1>3, <1>5

(* What a call may give is told from what it may raise. *)
LEMMA NotExceptions ==
    \A r \in {"null", "short", "none", "value", "ids", "otherIds", "EXC", "oom", "timeout"} :
        r \notin DOMAIN Super
BY DEF Super

(* An exception no clause takes escapes. *)
LEMMA FateIfUncaught ==
    ASSUME NEW e \in DOMAIN Super, Catching(e) = {} PROVE Fate(e) = "raise"
BY NotExceptions DEF Fate

(* The first clause that takes an exception decides. *)
LEMMA FateOfFirst ==
    ASSUME NEW e \in DOMAIN Super, DOMAIN Current.clauses \subseteq Nat,
           NEW n \in Catching(e), \A m \in Catching(e) : n <= m
    PROVE  Fate(e) = Current.clauses[n].then
<1>1. (CHOOSE c \in Catching(e) : \A d \in Catching(e) : c <= d) = n
  BY DEF Catching
<1>2. QED
  BY <1>1, NotExceptions DEF Fate

(* If a clause takes a RecursionError, the first that does raises it. *)
Reraised(clauses) ==
    /\ DOMAIN clauses \subseteq Nat
    /\ \A n \in DOMAIN clauses : clauses[n].classes \cap RecursionMro # {} =>
          \E m \in DOMAIN clauses : /\ m <= n
                                   /\ clauses[m].classes \cap RecursionMro # {}
                                   /\ clauses[m].then = "raise"
                                   /\ \A k \in DOMAIN clauses :
                                         clauses[k].classes \cap RecursionMro # {} => m <= k

(* Table by table, but for those of rebuild_args and of the differential   *)
(* harness, of which it is false.                                          *)
LEMMA RecursionReraised ==
    \A h \in Fuzzed \ {"rebuild_args", "differential"} : \A s \in LibraryCalls \cap DOMAIN Stages(h) :
        Reraised(Stages(h)[s].clauses)
<1> USE DEF Reraised, RecursionMro, Guarded, Except
<1>1. Reraised(GgufPy["load"].clauses)
  BY DEF GgufPy, GgufPyExpected
<1>2. Reraised(WeightsOnly["load"].clauses)
  BY DEF WeightsOnly, UnpicklerExpected
<1>3. Reraised(MsgpackRestore["load"].clauses)
  BY DEF MsgpackRestore, MsgpackExpected
<1>4. Reraised(FromStateDict["load"].clauses)
  BY DEF FromStateDict
<1>5. Reraised(Config["load"].clauses) /\ Reraised(Config["loads"].clauses)
  BY DEF Config, ConfigLoad, ConfigExpected
<1>6. Reraised(Tokenizers["load"].clauses)
  BY DEF Tokenizers
<1>7. /\ Reraised(Gguf["load"].clauses) /\ Reraised(MinjaParse["load"].clauses) 
      /\ Reraised(MinjaRender["load"].clauses) /\ Reraised(MinjaRender["loads"].clauses)
      /\ Reraised(Clip["load"].clauses)
  BY DEF Gguf, MinjaParse, MinjaRender, Clip, StdCaught
<1>8. /\ \A t \in {GgufPy, WeightsOnly, MsgpackRestore, FromStateDict, Tokenizers, Gguf,
                   MinjaParse, Clip} : LibraryCalls \cap DOMAIN t = {"load"}
      /\ \A t \in {Config, MinjaRender} : LibraryCalls \cap DOMAIN t = {"load", "loads"}
  BY DEF LibraryCalls, GgufPy, WeightsOnly, MsgpackRestore, FromStateDict, Tokenizers, Gguf,
         MinjaParse, Clip, Config, MinjaRender
<1> HIDE DEF Reraised, RecursionMro, Guarded, Except
<1>9. QED
  BY StagesOf, <1>1, <1>2, <1>3, <1>4, <1>5, <1>6, <1>7, <1>8 DEF Fuzzed, Cxx, Minja, LibraryCalls

(* What a call gave, if it is not one of the two special returns, leads to *)
(* the stage that follows, to what a clause says, or escapes.              *)
LEMMA FateRange ==
    ASSUME NEW r, r \notin {"null", "short"}, DOMAIN Current.clauses \subseteq Nat
    PROVE  \/ r \in DOMAIN Super /\ Fate(r) = "raise"
           \/ r \notin DOMAIN Super /\ Fate(r) = Current.next
           \/ r \in DOMAIN Super /\ \E c \in Catching(r) : Fate(r) = Current.clauses[c].then
<1>1. CASE r \notin DOMAIN Super
  BY <1>1 DEF Fate
<1>2. CASE r \in DOMAIN Super /\ Catching(r) = {}
  BY <1>2, FateIfUncaught
<1>3. CASE r \in DOMAIN Super /\ Catching(r) # {}
  <2>1. Catching(r) \subseteq Nat
    BY DEF Catching
  <2>2. PICK n \in Catching(r) : \A m \in Catching(r) : n <= m
    BY <1>3, <2>1, NatMin
  <2>3. Fate(r) = Current.clauses[n].then
    BY <1>3, <2>2, FateOfFirst
  <2>4. QED BY <1>3, <2>3
<1>4. QED BY <1>1, <1>2, <1>3

(* The classes of a Python exception's report. *)
PyClasses == {"py-exception", "py-recursion", "py-memory", "py-valueerror", "py-keyerror",
              "py-other"}

(* A text with frames and no line of a native kind has one of them. *)
LEMMA PythonReport ==
    ASSUME NEW text,
           \A kind \in {"ubsan", "asan", "assert", "panic"} : Of(text, kind) = {},
           Of(text, "frame") # {}
    PROVE  Parse(text).class \in PyClasses
<1>1. /\ ParseUbsan(text) = NoSig /\ ParseAsan(text) = NoSig
      /\ ParseAssert(text) = NoSig /\ ParseRust(text) = NoSig
  BY DEF ParseUbsan, ParseAsan, ParseAssert, ParseRust
<1>2. \A name : PyClass(name) \in PyClasses
  BY DEF PyClass, PyClasses
<1>3. ParsePython(text).class \in PyClasses
  BY <1>2 DEF ParsePython, Sig, PyClasses
<1>4. ParsePython(text) # NoSig
  BY <1>3 DEF NoSig, PyClasses
<1>5. QED
  BY <1>1, <1>3, <1>4 DEF Parse, OrElse

(* Triage judges a native fault real, of the panics those of three kinds,  *)
(* no other exception, and not what did not happen again.                  *)
RealPanic(e, text) == e = "PanicException" /\ text[1].what \in {"unwrap", "expect", "index"}

(* A panic is judged by the words of its message. *)
LEMMA PanicReport ==
    ASSUME NEW word \in PanicWords, NEW text,
           text = <<[by |-> "panic", what |-> word, loc |-> "b.rs:1"],
                    [by |-> "frame", what |-> "in", loc |-> "a.py:1"]>>
    PROVE  Triaged(text) = "real" <=> word \in {"unwrap", "expect", "index"}
<1>1. DOMAIN text = 1..2 /\ text[1].by = "panic" /\ text[2].by = "frame"
      /\ text[1].what = word /\ text[2].what = "in"
  OBVIOUS
<1>2. \A kind \in {"ubsan", "asan", "assert"} : Of(text, kind) = {}
  BY <1>1 DEF Of
<1>3. Of(text, "panic") # {}
  BY <1>1 DEF Of
<1>4. WordsOf(text) = {word, "in"}
  <2>1. {text[i].what : i \in 1..2} = {text[1].what, text[2].what}
    OBVIOUS
  <2>2. QED BY <1>1, <2>1 DEF WordsOf
<1> HIDE DEF Of
<1>5. ParseUbsan(text) = NoSig /\ ParseAsan(text) = NoSig /\ ParseAssert(text) = NoSig
  BY <1>2 DEF ParseUbsan, ParseAsan, ParseAssert
<1>6. ParseRust(text).class = RustClass({word, "in"})
  BY <1>3, <1>4 DEF ParseRust, Sig
<1>7. /\ word \in {"unwrap", "expect"} => RustClass({word, "in"}) = "rust-panic-unwrap"
      /\ word = "index" => RustClass({word, "in"}) = "rust-panic-index"
      /\ word = "overflow" => RustClass({word, "in"}) = "rust-panic-overflow"
      /\ word = "other" => RustClass({word, "in"}) = "rust-panic"
  BY DEF RustClass
<1>8. RustClass({word, "in"}) \in
         {"rust-panic-unwrap", "rust-panic-index", "rust-panic-overflow", "rust-panic"}
  BY <1>7 DEF PanicWords
<1>9. Parse(text).class = RustClass({word, "in"})
  <2>1. ParseRust(text) # NoSig
    BY <1>6, <1>8 DEF NoSig
  <2>2. QED BY <1>5, <1>6, <2>1 DEF Parse, OrElse
<1>10. Triaged(text) = "real" <=>
          RustClass({word, "in"}) \in {"rust-panic-unwrap", "rust-panic-index"}
  BY <1>8, <1>9 DEF Triaged, Classify, RealClasses, AsanRealPrefixed, ShallowClasses
<1>11. QED BY <1>7, <1>10 DEF PanicWords

(* A text without lines is not judged. *)
LEMMA NothingReal == Triaged(<<>>) # "real"
<1>1. \A kind : Of(<<>>, kind) = {}
  BY DEF Of
<1>2. /\ ParseUbsan(<<>>) = NoSig /\ ParseAsan(<<>>) = NoSig /\ ParseAssert(<<>>) = NoSig
      /\ ParseRust(<<>>) = NoSig /\ ParsePython(<<>>) = NoSig /\ ParseSignal(<<>>) = NoSig
  BY <1>1 DEF ParseUbsan, ParseAsan, ParseAssert, ParseRust, ParsePython, ParseSignal
<1>3. Parse(<<>>) = NoSig
  BY <1>2 DEF Parse, OrElse
<1>4. QED
  BY <1>3 DEF Triaged, NoSig, Classify, RealClasses, AsanRealPrefixed, ShallowClasses

(* Each report that is not empty. *)
LEMMA TriagedReal ==
    ASSUME NEW e \in DOMAIN Super, NEW text \in ReportsOf(e)
    PROVE  /\ text # <<>>
           /\ Triaged(text) = "real" <=> e = "Fault" \/ RealPanic(e, text)
<1>1. CASE e = "Fault"
  <2>1. text = <<[by |-> "signal", what |-> "deadly", loc |-> "unknown"]>>
    BY <1>1 DEF ReportsOf, Unmatched
  <2>2. \A kind \in {"ubsan", "asan", "assert", "panic", "frame", "exc"} : Of(text, kind) = {}
    BY <2>1 DEF Of
  <2>3. Of(text, "signal") # {}
    <3>1. 1 \in DOMAIN text /\ text[1].by = "signal"
      BY <2>1
    <3>2. QED BY <3>1 DEF Of
  <2>4. text # <<>>
    BY <2>1
  <2>5. /\ ParseUbsan(text) = NoSig /\ ParseAsan(text) = NoSig
        /\ ParseAssert(text) = NoSig /\ ParseRust(text) = NoSig /\ ParsePython(text) = NoSig
    BY <2>2 DEF ParseUbsan, ParseAsan, ParseAssert, ParseRust, ParsePython
  <2>6. Parse(text).class = "native-signal"
    BY <2>3, <2>5 DEF Parse, OrElse, ParseSignal, Sig, NoSig
  <2>7. "native-signal" \in RealClasses
    BY DEF RealClasses
  <2>8. QED BY <1>1, <2>4, <2>6, <2>7 DEF Triaged, Classify, ShallowClasses
<1>2. CASE e = "PanicException"
  <2>1. PICK word \in PanicWords : text = <<[by |-> "panic", what |-> word, loc |-> "b.rs:1"],
                                            [by |-> "frame", what |-> "in", loc |-> "a.py:1"]>>
    BY <1>2 DEF ReportsOf, Unmatched
  <2>2. text # <<>> /\ text[1].what = word
    BY <2>1
  <2>3. Triaged(text) = "real" <=> word \in {"unwrap", "expect", "index"}
    BY <2>1, PanicReport
  <2>4. QED BY <1>2, <2>2, <2>3 DEF RealPanic
<1>3. CASE e \notin {"Fault", "PanicException"}
  <2>1. \/ text = <<[by |-> "frame", what |-> "in", loc |-> "a.py:1"]>>
        \/ text = <<[by |-> "exc", what |-> e, loc |-> "unknown"],
                    [by |-> "frame", what |-> "in", loc |-> "a.py:1"]>>
    BY <1>3 DEF ReportsOf
  <2>2. \A kind \in {"ubsan", "asan", "assert", "panic"} : Of(text, kind) = {}
    BY <2>1 DEF Of
  <2>3. Of(text, "frame") # {} /\ text # <<>>
    <3>1. CASE text = <<[by |-> "frame", what |-> "in", loc |-> "a.py:1"]>>
      <4>1. 1 \in DOMAIN text /\ text[1].by = "frame"
        BY <3>1
      <4>2. QED BY <4>1 DEF Of
    <3>2. CASE text = <<[by |-> "exc", what |-> e, loc |-> "unknown"],
                        [by |-> "frame", what |-> "in", loc |-> "a.py:1"]>>
      <4>1. 2 \in DOMAIN text /\ text[2].by = "frame"
        BY <3>2
      <4>2. QED BY <4>1 DEF Of
    <3>3. QED BY <2>1, <3>1, <3>2
  <2>4. Parse(text).class \in PyClasses
    BY <2>2, <2>3, PythonReport
  <2>5. Triaged(text) # "real"
    BY <2>4 DEF Triaged, Classify, RealClasses, AsanRealPrefixed, ShallowClasses, PyClasses
  <2>6. QED BY <1>3, <2>3, <2>5 DEF RealPanic
<1>4. QED BY <1>1, <1>2, <1>3

--------------------------------------------------------------------------------
(* The inductive invariant. *)

(* The ranges of the variables; what calls gave is about known stages. *)
TypeOK == /\ harness \in Campaigns
          /\ input \in Seq(Symbols)
          /\ stage \in DOMAIN Stages(harness) \cup {"end"}
          /\ DOMAIN given \subseteq DOMAIN Stages(harness)
          /\ artifact \in DOMAIN Super \cup {"none", "oom", "timeout"}
          /\ job \in {"running", "green", "red"}

(* The guard's answer is about the input the campaign has. *)
GuardAnswered ==
    "guard" \in DOMAIN given => given["guard"] = IF Skipped(input) THEN "null" ELSE "value"

(* Before the dict path has returned, it has given nothing. *)
DictPathAhead ==
    harness = "config" /\ artifact = "none" /\ stage \in {"build", "load"} =>
        "load" \notin DOMAIN given

(* The encoders have run when their results are compared, which ends the   *)
(* input or the campaign.                                                  *)
EncodersRun ==
    harness = "differential" =>
        /\ \A s \in {"slow", "fast"} \cap DOMAIN given :
              given[s] \in {"ids", "otherIds"} \cup DOMAIN Super
        /\ artifact = "none" /\ stage \in {"fast", "compare"} => "slow" \in DOMAIN given
        /\ artifact = "none" /\ stage = "compare" => "fast" \in DOMAIN given
        /\ "compare" \in DOMAIN given => artifact # "none" \/ stage = "end"

(* One harness loses a RecursionError, and one has no clause for it. *)
RecursionEscapes == harness # "rebuild_args" => RecursionIsRecorded

(* The properties, and what they rest on. *)
HInv == /\ TypeOK
        /\ GuardAnswered
        /\ DictPathAhead
        /\ EncodersRun
        /\ RecursionEscapes
        /\ PanicIsRecorded
        /\ BothPathsExercised
        /\ TempFileRemoved
        /\ DivergenceExact
        /\ JobsAreExact

(* A stage is one of its harness only. *)
LEMMA OwnStages ==
    \A h \in Fuzzed : /\ "compare" \in DOMAIN Stages(h) => h = "differential"
                      /\ "temp" \in DOMAIN Stages(h) => h = "clip"
<1>1. /\ \A t \in {GgufPy, WeightsOnly, Gguf} : "compare" \notin DOMAIN t /\ "temp" \notin DOMAIN t
      /\ \A t \in {RebuildArgs, MsgpackRestore, FromStateDict, Tokenizers, Config} :
            "compare" \notin DOMAIN t /\ "temp" \notin DOMAIN t
      /\ \A t \in {MinjaParse, MinjaRender} : "compare" \notin DOMAIN t /\ "temp" \notin DOMAIN t
      /\ "compare" \notin DOMAIN Clip /\ "temp" \notin DOMAIN Differential
  BY DEF GgufPy, WeightsOnly, Gguf, RebuildArgs, MsgpackRestore, FromStateDict, Tokenizers, Config,
         MinjaParse, MinjaRender, Clip, Differential
<1>2. QED BY <1>1, StagesOf DEF Fuzzed, Cxx, Minja

(* At the start of an input nothing is claimed of what calls gave. *)
Fresh == /\ given = NothingGiven /\ artifact = "none" /\ job = "running"
         /\ harness \in Campaigns /\ input \in InputsOf(harness)
         /\ stage = FirstStage(harness)

(* Hence the invariant. *)
LEMMA FreshInput == Fresh => HInv
<1> SUFFICES ASSUME Fresh PROVE HInv
    OBVIOUS
<1> USE DEF Fresh
<1>1. DOMAIN given = {}
  BY DEF NothingGiven
<1>2. harness \in Fuzzed /\ FirstStage(harness) \in DOMAIN Stages(harness)
  BY FirstStageBegins, CampaignsAssumption DEF Begins
<1>3. input \in Seq(Symbols)
  <2>1. <<>> \in Seq(Symbols)
    OBVIOUS
  <2>2. QED BY <2>1, TemplatesAssumption DEF InputsOf
<1>4. TypeOK
  BY <1>1, <1>2, <1>3 DEF TypeOK
<1>5. EncodersRun
  <2>1. harness = "differential" => stage \notin {"fast", "compare"}
    <3>1. Begins(Differential, FirstStage("differential")) => FirstStage("differential") = "slow"
      BY DEF Begins, Differential, Guarded, Except
    <3>2. QED BY <1>2, <3>1, FirstStageBegins, StagesOf
  <2>2. QED BY <1>1, <2>1 DEF EncodersRun
<1>6. GuardAnswered /\ DictPathAhead /\ RecursionEscapes /\ PanicIsRecorded /\ BothPathsExercised
      /\ TempFileRemoved /\ DivergenceExact /\ JobsAreExact
  BY <1>1 DEF GuardAnswered, DictPathAhead, RecursionEscapes, RecursionIsRecorded, PanicIsRecorded,
     BothPathsExercised, TempFileRemoved, DivergenceExact, JobsAreExact
<1>7. QED BY <1>4, <1>5, <1>6 DEF HInv

(* A campaign begins with a fresh input ... *)
LEMMA InitHInv == Init => HInv
BY FreshInput DEF Init, Fresh

(* ... and the next input is one. *)
LEMMA FreshInputAgain == Fresh' => HInv'
BY FreshInput, PTL

(* The two ways a call leaves the stage. *)
GoesTo(r) == /\ artifact' = "none"
             /\ stage' \in DOMAIN Stages(harness) \cup {"end"}
             /\ Fate(r) # "raise"
             /\ IF Fate(r) = "suppress" THEN stage' = "end" ELSE stage' = Fate(r)

(* It goes on, or what was raised escapes. *)
Escapes(r) == artifact' = r /\ r \in DOMAIN Super /\ Fate(r) = "raise" /\ UNCHANGED stage

(* What the three actions of a call have in common. *)
LEMMA CallStep ==
    ASSUME HInv, NEW r \in Outcomes, GoesOn(r) \/ Suppress(r) \/ Record(r)
    PROVE  /\ harness \in Fuzzed /\ stage \in DOMAIN Stages(harness) /\ artifact = "none"
           /\ DOMAIN given' = DOMAIN given \cup {stage}
           /\ given'[stage] = r
           /\ \A s \in DOMAIN given : s # stage => given'[s] = given[s]
           /\ UNCHANGED <<harness, input, report, job>> /\ job = "running"
           /\ GoesTo(r) \/ Escapes(r)
<1>1. Gives(r)
  BY DEF GoesOn, Suppress, Record
<1>2. harness \in Fuzzed /\ stage \in DOMAIN Stages(harness) /\ artifact = "none" /\ job = "running"
  BY <1>1, CampaignsAssumption DEF Gives, Running, HInv, TypeOK
<1>3. /\ DOMAIN given' = DOMAIN given \cup {stage}
      /\ given'[stage] = r
      /\ \A s \in DOMAIN given : s # stage => given'[s] = given[s]
      /\ UNCHANGED <<harness, input, report, job>>
  BY <1>1 DEF Gives
<1>4. Sound(Stages(harness))
  BY <1>2, TablesSound
<1>5. CASE GoesOn(r) \/ Suppress(r)
  <2>1. Fate(r) # "raise" /\ (GoesOn(r) => Fate(r) # "suppress")
    BY <1>4, <1>5 DEF GoesOn, Suppress, Sound
  <2>2. QED BY <1>2, <1>3, <1>5, <2>1 DEF GoesOn, Suppress, GoesTo
<1>6. CASE Record(r)
  <2>1. Fate(r) = "raise"
    BY <1>6 DEF Record
  <2>2. r \in DOMAIN Super
    BY <1>2, <1>4, <2>1, NotExceptions DEF Fate, Sound, Current
  <2>3. QED BY <1>2, <1>3, <1>6, <2>1, <2>2 DEF Record, Escapes
<1>7. QED BY <1>5, <1>6

(* What the calls that matter may give. *)
LEMMA GivenThere ==
    ASSUME NEW r \in Outcomes
    PROVE  /\ harness = "config" /\ stage \in DOMAIN Config => r \in {"value"} \cup DOMAIN Super
           /\ harness = "clip" /\ stage = "load" => r \in {"value"} \cup DOMAIN Super
           /\ stage = "temp" => r \in {"value", "null"}
           /\ stage = "write" => r \in {"value", "short"}
           /\ stage = "unlink" => r = "value"
           /\ stage \in {"slow", "fast"} => r \in {"ids", "otherIds"} \cup DOMAIN Super
<1>1. PyExceptions \subseteq DOMAIN Super /\ CxxExceptions \subseteq DOMAIN Super
  <2>1. "Fault" \in DOMAIN Super
    BY DEF Super
  <2>2. QED BY <2>1 DEF PyExceptions, CxxExceptions
<1>2. DOMAIN Config = {"build", "load", "dumps", "loads"}
  BY DEF Config
<1>3. CASE stage \in {"temp", "write", "unlink", "slow", "fast"}
  BY <1>1, <1>2, <1>3 DEF Outcomes
<1>4. CASE stage \in {"build", "load", "dumps", "loads"}
  <2>1. r \in {"value"} \cup (IF MayGiveNull THEN {"null"} ELSE {})
                        \cup (IF harness \in Cxx THEN CxxExceptions ELSE PyExceptions)
    BY <1>4 DEF Outcomes
  <2>2. harness \in {"config", "clip"} => ~MayGiveNull
    BY <1>4 DEF MayGiveNull
  <2>3. QED BY <1>1, <1>4, <2>1, <2>2
<1>5. QED BY <1>2, <1>3, <1>4

(* Where a call of the config harness leads. *)
LEMMA ConfigFate ==
    ASSUME harness = "config", stage \in DOMAIN Config, NEW r \in Outcomes
    PROVE  /\ stage = "build" => Fate(r) \in {"load", "suppress", "raise"}
           /\ stage = "load" => Fate(r) \in {"dumps", "raise"}
           /\ stage = "dumps" =>
                 \/ Fate(r) \in {"loads", "raise"}
                 \/ /\ Fate(r) = "suppress" /\ r \in DOMAIN Super
                    /\ Mro[r] \cap {"TypeError", "ValueError"} # {}
           /\ stage = "loads" => Fate(r) \in {"end", "suppress", "raise"}
<1>1. Current = Config[stage]
  BY StagesOf DEF Current
<1>2. r \notin {"null", "short"}
  BY GivenThere, NotExceptions
<1> USE DEF Guarded, Except, Building
<1>3. CASE stage = "build"
  <2>1. /\ DOMAIN Current.clauses = {1} /\ Current.next = "load"
        /\ Current.clauses[1].then = "suppress"
    BY <1>1, <1>3 DEF Config
  <2>2. QED BY <1>2, <1>3, <2>1, FateRange DEF Catching
<1>4. CASE stage = "load"
  <2>1. /\ DOMAIN Current.clauses = {1, 2} /\ Current.next = "dumps"
        /\ Current.clauses[1].then = "dumps" /\ Current.clauses[2].then = "raise"
    BY <1>1, <1>4 DEF Config, ConfigLoad
  <2>2. QED BY <1>2, <1>4, <2>1, FateRange DEF Catching
<1>5. CASE stage = "dumps"
  <2>1. /\ DOMAIN Current.clauses = {1} /\ Current.next = "loads"
        /\ Current.clauses[1].classes = {"TypeError", "ValueError"}
        /\ Current.clauses[1].then = "suppress"
    BY <1>1, <1>5 DEF Config
  <2>2. QED BY <1>2, <1>5, <2>1, FateRange DEF Catching
<1>6. CASE stage = "loads"
  <2>1. /\ DOMAIN Current.clauses = {1, 2} /\ Current.next = "end"
        /\ Current.clauses[1].then = "suppress" /\ Current.clauses[2].then = "raise"
    BY <1>1, <1>6 DEF Config, ConfigLoad
  <2>2. QED BY <1>2, <1>6, <2>1, FateRange DEF Catching
<1>7. QED BY <1>3, <1>4, <1>5, <1>6 DEF Config

(* Where a call of the clip harness leads. *)
LEMMA ClipFate ==
    ASSUME harness = "clip", stage \in DOMAIN Clip, NEW r \in Outcomes
    PROVE  /\ stage = "temp" /\ r = "value" => Fate(r) = "write"
           /\ stage = "write" => Fate(r) \in {"load", "unlink"}
           /\ stage = "load" => Fate(r) \in {"unlink", "raise"}
<1>1. Current = Clip[stage]
  BY StagesOf DEF Current
<1> USE DEF Guarded, Except
<1>2. CASE stage \in {"temp", "write"}
  <2>1. /\ stage = "temp" => Current.next = "write"
        /\ stage = "write" => Current.next = "load"
    BY <1>1, <1>2 DEF Clip
  <2>2. QED BY <1>2, <2>1, GivenThere, NotExceptions DEF Fate
<1>3. CASE stage = "load"
  <2>1. /\ DOMAIN Current.clauses = {1, 2} /\ Current.next = "unlink"
        /\ Current.clauses[1].then = "unlink" /\ Current.clauses[2].then = "unlink"
    BY <1>1, <1>3 DEF Clip
  <2>2. r \notin {"null", "short"}
    BY <1>3, GivenThere, NotExceptions
  <2>3. QED BY <1>3, <2>1, <2>2, FateRange DEF Catching
<1>4. QED BY <1>2, <1>3

(* Where a call of the differential harness leads. *)
LEMMA DifferentialFate ==
    ASSUME harness = "differential", stage \in DOMAIN Differential, NEW r \in Outcomes
    PROVE  /\ stage = "slow" => Fate(r) \in {"fast", "raise"}
           /\ stage = "fast" => Fate(r) \in {"compare", "raise"}
           /\ stage = "compare" => Fate(r) = IF r = "value" THEN "end" ELSE "raise"
<1>1. Current = Differential[stage]
  BY StagesOf DEF Current
<1> USE DEF Guarded, Except
<1>2. CASE stage \in {"slow", "fast"}
  <2>1. /\ DOMAIN Current.clauses = {1}
        /\ stage = "slow" => Current.next = "fast" /\ Current.clauses[1].then = "fast"
        /\ stage = "fast" => Current.next = "compare" /\ Current.clauses[1].then = "compare"
    BY <1>1, <1>2 DEF Differential
  <2>2. r \notin {"null", "short"}
    BY <1>2, GivenThere, NotExceptions
  <2>3. QED BY <1>2, <2>1, <2>2, FateRange DEF Catching
<1>3. CASE stage = "compare"
  <2>1. r \in {"value", "AssertionError"}
    BY <1>3 DEF Outcomes
  <2>2. "AssertionError" \in DOMAIN Super
    BY DEF Super
  <2>3. DOMAIN Current.clauses = {} /\ Current.next = "end"
    BY <1>1, <1>3 DEF Differential
  <2>4. Catching("AssertionError") = {}
    BY <2>3 DEF Catching
  <2>5. Fate("AssertionError") = "raise"
    BY <2>2, <2>4, FateIfUncaught
  <2>6. Fate("value") = "end"
    BY <2>3, NotExceptions DEF Fate
  <2>7. QED BY <1>3, <2>1, <2>5, <2>6
<1>4. QED BY <1>2, <1>3

(* A fault and a panic are caught nowhere. *)
LEMMA PanicFate ==
    ASSUME harness \in Fuzzed, stage \in DOMAIN Stages(harness),
           NEW e \in {"PanicException", "Fault"}
    PROVE  Fate(e) = "raise"
<1>1. e \in DOMAIN Super
  BY DEF Super
<1>2. Mro[e] \subseteq Uncaught
  BY Ancestors DEF Uncaught
<1>3. Catching(e) = {}
  BY <1>2, TablesSound DEF Catching, Current, Sound
<1>4. QED BY <1>1, <1>3, FateIfUncaught

(* A RecursionError of the library is re-raised by all harnesses but two. *)
LEMMA RecursionFate ==
    ASSUME harness \in Fuzzed \ {"rebuild_args", "differential"},
           stage \in DOMAIN Stages(harness), stage \in LibraryCalls
    PROVE  Fate("RecursionError") = "raise"
<1> DEFINE e == "RecursionError"
           clauses == Current.clauses
<1>1. e \in DOMAIN Super
  BY DEF Super
<1>2. Reraised(clauses)
  BY RecursionReraised DEF Current
<1>3. Catching(e) = {c \in DOMAIN clauses : clauses[c].classes \cap RecursionMro # {}}
  BY Ancestors DEF Catching
<1>4. CASE Catching(e) = {}
  BY <1>1, <1>4, FateIfUncaught
<1>5. CASE Catching(e) # {}
  <2>1. PICK m \in Catching(e) : clauses[m].then = "raise" /\ \A k \in Catching(e) : m <= k
    BY <1>2, <1>3, <1>5 DEF Reraised
  <2>2. QED BY <1>1, <1>2, <2>1, FateOfFirst DEF Reraised
<1>6. QED BY <1>4, <1>5

(* Every step keeps the invariant. *)
LEMMA StepHInv == HInv /\ [Next]_vars => HInv'
<1> SUFFICES ASSUME HInv, [Next]_vars PROVE HInv'
    OBVIOUS
<1>1. ASSUME NEW r \in Outcomes, GoesOn(r) \/ Suppress(r) \/ Record(r) PROVE HInv'
  <2>1. /\ harness \in Fuzzed /\ stage \in DOMAIN Stages(harness) /\ artifact = "none"
        /\ DOMAIN given' = DOMAIN given \cup {stage}
        /\ given'[stage] = r
        /\ \A s \in DOMAIN given : s # stage => given'[s] = given[s]
        /\ UNCHANGED <<harness, input, report, job>> /\ job = "running"
        /\ GoesTo(r) \/ Escapes(r)
    BY <1>1, CallStep
  <2>2. /\ TypeOK /\ GuardAnswered /\ DictPathAhead /\ EncodersRun /\ RecursionEscapes
        /\ PanicIsRecorded /\ BothPathsExercised /\ TempFileRemoved /\ DivergenceExact
    BY DEF HInv
  <2>3. Sound(Stages(harness))
    BY <2>1, TablesSound
  <2>4. stage # "end"
    BY <2>1, <2>3 DEF Sound
  <2>5. TypeOK'
    BY <2>1, <2>2 DEF TypeOK, GoesTo, Escapes
  <2>6. GuardAnswered'
    <3>1. CASE stage = "guard"
      <4>1. r = IF Skipped(input) THEN "null" ELSE "value"
        BY <3>1 DEF Outcomes
      <4>2. QED BY <2>1, <3>1, <4>1 DEF GuardAnswered, Skipped
    <3>2. CASE stage # "guard"
      BY <2>1, <2>2, <3>2 DEF GuardAnswered, Skipped
    <3>3. QED BY <3>1, <3>2
  <2>7. PanicIsRecorded'
    <3> SUFFICES ASSUME NEW s \in DOMAIN given', given'[s] \in {"PanicException", "Fault"}
                 PROVE  artifact' = given'[s]
      BY DEF PanicIsRecorded
    <3>1. CASE s = stage
      BY <2>1, <3>1, PanicFate DEF GoesTo, Escapes
    <3>2. CASE s # stage
      BY <2>1, <2>2, <3>2 DEF PanicIsRecorded
    <3>3. QED BY <3>1, <3>2
  <2>8. RecursionEscapes'
    <3> SUFFICES ASSUME harness \notin {"rebuild_args", "differential"},
                        NEW s \in LibraryCalls \cap DOMAIN given',
                        given'[s] = "RecursionError"
                 PROVE  artifact' = "RecursionError"
      BY <2>1 DEF RecursionEscapes, RecursionIsRecorded
    <3>1. CASE s = stage
      BY <2>1, <3>1, RecursionFate DEF GoesTo, Escapes
    <3>2. CASE s # stage
      BY <2>1, <2>2, <3>2 DEF RecursionEscapes, RecursionIsRecorded
    <3>3. QED BY <3>1, <3>2
  <2>9. DictPathAhead' /\ BothPathsExercised'
    <3> SUFFICES ASSUME harness = "config" PROVE DictPathAhead' /\ BothPathsExercised'
      BY <2>1 DEF DictPathAhead, BothPathsExercised
    <3>1. /\ DOMAIN Stages(harness) = DOMAIN Config
          /\ DOMAIN Config = {"build", "load", "dumps", "loads"}
      BY StagesOf DEF Config
    <3>2. /\ stage = "build" => Fate(r) \in {"load", "suppress", "raise"}
          /\ stage = "load" => Fate(r) \in {"dumps", "raise"}
          /\ stage = "dumps" =>
                \/ Fate(r) \in {"loads", "raise"}
                \/ /\ Fate(r) = "suppress" /\ r \in DOMAIN Super
                   /\ Mro[r] \cap {"TypeError", "ValueError"} # {}
          /\ stage = "loads" => Fate(r) \in {"end", "suppress", "raise"}
      BY <2>1, <3>1, ConfigFate
    <3>3. stage \in {"build", "load"} => "load" \notin DOMAIN given
      BY <2>1, <2>2 DEF DictPathAhead
    <3>4. CASE stage = "build"
      BY <2>1, <2>4, <3>2, <3>3, <3>4 DEF DictPathAhead, BothPathsExercised, GoesTo, Escapes
    <3>5. CASE artifact' # "none" /\ stage' = stage
      BY <2>4, <3>5 DEF DictPathAhead, BothPathsExercised
    <3>6. CASE stage \in {"load", "dumps", "loads"} /\ GoesTo(r)
      <4>1. stage' \notin {"build", "load"}
        BY <3>2, <3>6 DEF GoesTo
      <4>2. stage' = "end" => stage = "loads" \/ (stage = "dumps" /\ Fate(r) = "suppress")
        BY <3>2, <3>6 DEF GoesTo
      <4>3. DictPathAhead'
        BY <4>1 DEF DictPathAhead
      <4>4. CASE stage = "loads"
        BY <2>1, <4>3, <4>4 DEF BothPathsExercised
      <4>5. CASE stage = "dumps" /\ Fate(r) = "suppress"
        <5>1. r \in DOMAIN Super /\ Mro[r] \cap {"TypeError", "ValueError"} # {}
          BY <3>2, <4>5
        <5>2. QED BY <2>1, <4>3, <4>5, <5>1 DEF BothPathsExercised, Raised
      <4>6. CASE stage' # "end"
        BY <4>3, <4>6 DEF BothPathsExercised
      <4>7. QED BY <4>2, <4>4, <4>5, <4>6
    <3>7. Escapes(r) => artifact' # "none" /\ stage' = stage
      BY NotExceptions DEF Escapes
    <3>8. QED BY <2>1, <3>1, <3>4, <3>5, <3>6, <3>7
  <2>10. TempFileRemoved'
    <3>1. CASE harness = "clip"
      <4>1. stage \in DOMAIN Clip /\ DOMAIN Clip = {"temp", "write", "load", "unlink"}
        BY <2>1, <3>1, StagesOf DEF Clip
      <4>2. stage = "unlink" => TempFileRemoved'
        BY <2>1 DEF TempFileRemoved
      <4>3. stage # "unlink" /\ stage' = "end" => stage = "temp" /\ r # "value"
        BY <2>1, <2>4, <3>1, <4>1, ClipFate DEF GoesTo, Escapes
      <4>4. QED BY <2>1, <4>2, <4>3 DEF TempFileRemoved
    <3>2. CASE harness # "clip"
      <4>1. "temp" \notin DOMAIN given'
        BY <2>1, <2>5, <3>2, OwnStages DEF TypeOK
      <4>2. QED BY <4>1 DEF TempFileRemoved
    <3>3. QED BY <3>1, <3>2
  <2>11. EncodersRun' /\ DivergenceExact'
    <3>1. CASE harness # "differential"
      <4>1. "compare" \notin DOMAIN given'
        BY <2>1, <2>5, <3>1, OwnStages DEF TypeOK
      <4>2. QED BY <2>1, <3>1, <4>1 DEF EncodersRun, DivergenceExact
    <3>2. CASE harness = "differential"
      <4>1. stage \in DOMAIN Differential /\ DOMAIN Differential = {"slow", "fast", "compare"}
        BY <2>1, <3>2, StagesOf DEF Differential
      <4>2. /\ "compare" \notin DOMAIN given
            /\ \A s \in {"slow", "fast"} \cap DOMAIN given :
                  given[s] \in {"ids", "otherIds"} \cup DOMAIN Super
            /\ stage \in {"fast", "compare"} => "slow" \in DOMAIN given
            /\ stage = "compare" => "fast" \in DOMAIN given
        BY <2>1, <2>2, <2>4, <3>2 DEF EncodersRun
      <4>3. CASE stage \in {"slow", "fast"}
        <5>1. r \in {"ids", "otherIds"} \cup DOMAIN Super
          BY <4>3, GivenThere
        <5>2. /\ stage = "slow" => Fate(r) \in {"fast", "raise"}
              /\ stage = "fast" => Fate(r) \in {"compare", "raise"}
          BY <3>2, <4>1, DifferentialFate
        <5>3. "compare" \notin DOMAIN given'
          BY <2>1, <4>2, <4>3
        <5>4. EncodersRun'
          BY <2>1, <3>2, <4>2, <4>3, <5>1, <5>2, <5>3, NotExceptions
             DEF EncodersRun, GoesTo, Escapes
        <5>5. QED BY <5>3, <5>4 DEF DivergenceExact
      <4>4. CASE stage = "compare"
        <5> DEFINE slow == given["slow"]
                   fast == given["fast"]
        <5>1. r = IF Encode(slow) # Encode(fast) THEN "AssertionError" ELSE "value"
          BY <4>4 DEF Outcomes
        <5>2. Fate(r) = IF r = "value" THEN "end" ELSE "raise"
          BY <3>2, <4>1, <4>4, DifferentialFate
        <5>3. /\ slow \in {"ids", "otherIds"} \cup DOMAIN Super
              /\ fast \in {"ids", "otherIds"} \cup DOMAIN Super
          BY <4>2, <4>4
        <5>4. Encode(slow) = Encode(fast) <=>
                 slow = fast \/ (slow \in DOMAIN Super /\ fast \in DOMAIN Super)
          BY <5>3, NotExceptions DEF Encode
        <5>5. /\ "slow" \in DOMAIN given' /\ given'["slow"] = slow
              /\ "fast" \in DOMAIN given' /\ given'["fast"] = fast
          BY <2>1, <4>2, <4>4
        <5>6. artifact' = "none" <=> Encode(slow) = Encode(fast)
          BY <2>1, <5>1, <5>2 DEF GoesTo, Escapes
        <5>7. DivergenceExact'
          BY <5>4, <5>5, <5>6 DEF DivergenceExact, Raised
        <5>8. artifact' # "none" \/ stage' = "end"
          BY <2>1, <5>1, <5>2 DEF GoesTo, Escapes
        <5>9. \A s \in {"slow", "fast"} \cap DOMAIN given' :
                 given'[s] \in {"ids", "otherIds"} \cup DOMAIN Super
          BY <5>3, <5>5
        <5>10. EncodersRun'
          BY <5>5, <5>8, <5>9 DEF EncodersRun
        <5>11. QED BY <5>7, <5>10
      <4>5. QED BY <4>1, <4>3, <4>4
    <3>3. QED BY <3>1, <3>2
  <2>12. JobsAreExact'
    BY <2>1 DEF JobsAreExact
  <2>13. QED
    BY <2>5, <2>6, <2>7, <2>8, <2>9, <2>10, <2>11, <2>12 DEF HInv
<1>2. CASE NextInput
  <2>1. /\ given' = NothingGiven /\ artifact' = "none" /\ job' = "running"
        /\ harness' \in Campaigns /\ input' \in InputsOf(harness)' /\ stage' = FirstStage(harness)'
    BY <1>2 DEF NextInput, HInv, TypeOK, InputsOf, FirstStage
  <2>2. QED
    BY <2>1, FreshInputAgain DEF Fresh
<1>3. CASE Gate
  <2>1. UNCHANGED <<harness, input, stage, given, artifact>>
        /\ harness \in {"differential", "config"} /\ job' \in {"running", "green", "red"}
    BY <1>3 DEF Gate
  <2>2. JobsAreExact'
    <3>1. PICK text \in Replays : report' = text /\ job' = IF Trips(text) THEN "red" ELSE "green"
      BY <1>3 DEF Gate
    <3>2. CASE harness = "differential"
      <4>1. Trips(text) <=> artifact \in DOMAIN Super
        BY <3>2 DEF Trips, LeftCrash
      <4>2. QED BY <2>1, <3>1, <3>2, <4>1 DEF JobsAreExact
    <3>3. CASE harness = "config" /\ text = <<>>
      <4>1. ~Trips(text)
        BY <3>3, NothingReal DEF Trips
      <4>2. QED BY <2>1, <3>1, <3>3, <4>1 DEF JobsAreExact
    <3>4. CASE harness = "config" /\ text # <<>>
      <4>1. artifact \in DOMAIN Super /\ text \in ReportsOf(artifact)
        BY <3>1, <3>4 DEF Replays, LeftCrash
      <4>2. Triaged(text) = "real" <=> artifact = "Fault" \/ RealPanic(artifact, text)
        BY <4>1, TriagedReal
      <4>3. Trips(text) <=> artifact = "Fault" \/ RealPanic(artifact, text)
        BY <3>4, <4>2 DEF Trips
      <4>4. QED BY <2>1, <3>1, <3>4, <4>3 DEF JobsAreExact, RealPanic
    <3>5. QED BY <2>1, <3>2, <3>3, <3>4
  <2>3. /\ TypeOK' /\ GuardAnswered' /\ DictPathAhead' /\ EncodersRun' /\ RecursionEscapes'
        /\ PanicIsRecorded' /\ BothPathsExercised' /\ TempFileRemoved' /\ DivergenceExact'
    BY <2>1 DEF HInv, TypeOK, GuardAnswered, DictPathAhead, EncodersRun, RecursionEscapes, Skipped,
       RecursionIsRecorded, PanicIsRecorded, BothPathsExercised, TempFileRemoved, DivergenceExact,
       Raised
  <2>4. QED BY <2>2, <2>3 DEF HInv
<1>4. ASSUME NEW limit \in {"oom", "timeout"}, Overruns(limit) PROVE HInv'
  <2>1. /\ UNCHANGED <<harness, input, stage, given, report, job>> /\ artifact = "none"
        /\ artifact' = limit /\ job = "running"
    BY <1>4 DEF Overruns, Running
  <2>2. stage # "end"
    BY <1>4 DEF Overruns, Running
  <2>3. TypeOK' /\ GuardAnswered' /\ DictPathAhead' /\ BothPathsExercised' /\ TempFileRemoved'
    BY <2>1, <2>2 DEF HInv, TypeOK, GuardAnswered, DictPathAhead, BothPathsExercised,
       TempFileRemoved, Skipped, Raised
  <2>4. RecursionEscapes' /\ PanicIsRecorded'
    BY <2>1 DEF HInv, RecursionEscapes, RecursionIsRecorded, PanicIsRecorded
  <2>5. "compare" \notin DOMAIN given
    BY <2>1, <2>2, CampaignsAssumption, OwnStages DEF HInv, TypeOK, EncodersRun
  <2>6. EncodersRun' /\ DivergenceExact'
    BY <2>1, <2>5 DEF HInv, EncodersRun, DivergenceExact
  <2>7. JobsAreExact'
    BY <2>1 DEF JobsAreExact
  <2>8. QED BY <2>3, <2>4, <2>6, <2>7 DEF HInv
<1>5. CASE UNCHANGED vars
  BY <1>5 DEF vars, HInv, TypeOK, GuardAnswered, DictPathAhead, EncodersRun, RecursionEscapes,
     Skipped, RecursionIsRecorded, PanicIsRecorded, BothPathsExercised, TempFileRemoved,
     DivergenceExact, JobsAreExact, Raised
<1>6. QED BY <1>1, <1>2, <1>3, <1>4, <1>5 DEF Next

--------------------------------------------------------------------------------
(* The invariant holds in every behaviour. *)
THEOREM Invariance == Spec => []HInv
BY InitHInv, StepHInv, PTL DEF Spec

(* RecursionIsRecorded: a RecursionError of the library under test becomes *)
(* the crash artifact, under every Python harness but two: the clause of   *)
(* rebuild_args for RuntimeError takes it for a rejection first, and the   *)
(* differential harness has no clause for it.                              *)
THEOREM RecursionNeverDropped == Spec => [](harness # "rebuild_args" => RecursionIsRecorded)
<1>1. HInv => (harness # "rebuild_args" => RecursionIsRecorded)
  BY DEF HInv, RecursionEscapes
<1>2. QED BY <1>1, Invariance, PTL

(* PanicIsRecorded: a Rust panic or a native fault that any call of any    *)
(* harness gives becomes the crash artifact.                               *)
THEOREM PanicNeverDropped == Spec => []PanicIsRecorded
<1>1. HInv => PanicIsRecorded
  BY DEF HInv
<1>2. QED BY <1>1, Invariance, PTL

(* BothPathsExercised: the config harness tries the JSON path whatever the *)
(* dict path did, if the config could be dumped.                           *)
THEOREM JsonPathIsTried == Spec => []BothPathsExercised
<1>1. HInv => BothPathsExercised
  BY DEF HInv
<1>2. QED BY <1>1, Invariance, PTL

(* TempFileRemoved: the clip harness leaves no temporary file behind.      *)
THEOREM NoFileLeft == Spec => []TempFileRemoved
<1>1. HInv => TempFileRemoved
  BY DEF HInv
<1>2. QED BY <1>1, Invariance, PTL

(* DivergenceExact: the differential harness reports an input exactly when *)
(* one encoder accepts it and the other does not, or with other ids.       *)
THEOREM OracleIsExact == Spec => []DivergenceExact
<1>1. HInv => DivergenceExact
  BY DEF HInv
<1>2. QED BY <1>1, Invariance, PTL

(* JobsAreExact: the differential job is red for every crash artifact and  *)
(* nothing else, the config job for a replay that shows a native fault or  *)
(* one of three kinds of panic.                                            *)
THEOREM JobColours == Spec => []JobsAreExact
<1>1. HInv => JobsAreExact
  BY DEF HInv
<1>2. QED BY <1>1, Invariance, PTL

(* GuardExact: the byte scan before the minja parser lets through exactly  *)
(* the templates that are short enough and whose brackets, if none stands  *)
(* in a string literal, nest within the bound.                             *)
THEOREM GuardIsExact == Spec => []GuardExact
<1>1. HInv => GuardExact
  <2> SUFFICES ASSUME HInv, "guard" \in DOMAIN given, ~BracketInLiteral(input)
               PROVE  given["guard"] = "value" <=>
                         NestsWithin(input, MaxDepth) /\ Len(input) <= MaxSize
    BY DEF GuardExact
  <2>1. input \in Seq(Symbols) /\ given["guard"] = IF Skipped(input) THEN "null" ELSE "value"
    BY DEF HInv, TypeOK, GuardAnswered
  <2>2. Len(input) \in Nat /\ MaxSize \in Nat
    BY <2>1, GuardAssumption
  <2>3. (\E n \in 0..Len(input) : Depth(input)[n] > MaxDepth) <=> ~NestsWithin(input, MaxDepth)
    BY <2>1, ScanIsNesting
  <2>4. QED BY <2>1, <2>2, <2>3 DEF Skipped
<1>2. QED BY <1>1, Invariance, PTL
===============================================================================
