--------------------------- MODULE Generators_proofs ---------------------------
(***************************************************************************)
(* The nesting and the size of the values the generators build, for inputs *)
(* of any length and any recursion limit.                                  *)
(***************************************************************************)
EXTENDS Generators, SequenceTheorems, WellFoundedInduction, TLAPS

(* What a frame with a child to build has paid for beyond NestingPaid: a   *)
(* child count above zero needs a byte left after the pick.                *)
TopPaid == harness = "config" /\ stack # <<>> /\ Top > 0 =>
               2 * (Depth - 4) + 1 <= data - left

IInv == TypeOK /\ NestingPaid /\ TopPaid

(* The sequences of frames and their lengths. *)
LEMMA FramesOf == ASSUME TypeOK, stack # <<>>
                  PROVE  /\ stack \in Seq(Nat) /\ Len(stack) \in Nat \ {0}
                         /\ Top \in Nat /\ Depth \in Nat
                         /\ left \in Nat /\ data \in Nat /\ left <= data
<1>. 0..Roots(harness) \cup 0..Fanout(harness) \subseteq Nat
  BY DEF Roots, Fanout
<1>. stack \in Seq(Nat)
  BY DEF TypeOK
<1>. QED
  BY GeneratorAssumption DEF TypeOK, Top, Depth

(* One byte less, and none when there was none. *)
LEMMA Drawn == ASSUME TypeOK, NEW rest \in 0..After(left)
               PROVE  rest \in 0..data /\ rest <= left /\ (left > 0 => rest < left)
  BY GeneratorAssumption DEF TypeOK, After

(* Two bytes less, when a number above zero was drawn after the first.     *)
LEMMA DrawnTwice == ASSUME NEW b \in Nat, b > 0, NEW n \in Nat, n > 0 => After(b) > 0,
                           NEW rest \in 0..After(After(b))
                    PROVE  rest \in Nat /\ rest < b /\ (n > 0 => rest + 2 <= b)
<1>1. After(b) = b - 1
  BY DEF After
<1>2. CASE b = 1
  BY <1>1, <1>2 DEF After
<1>3. CASE b > 1
  <2>1. After(After(b)) = b - 2
    BY <1>1, <1>3 DEF After
  <2>. QED
    BY <1>3, <2>1
<1>. QED
  BY <1>2, <1>3

(* One level deeper for two bytes. *)
LEMMA TwoPerLevel == ASSUME NEW d \in Nat, NEW b \in Nat, NEW rest \in Nat, NEW all \in Nat,
                            2 * (d - 4) + 1 <= all - b, rest + 2 <= b
                     PROVE  2 * (d + 1 - 4) + 1 <= all - rest
  OBVIOUS

(* A sequence without its last element. *)
LEMMA AllButLast == ASSUME NEW S, NEW s \in Seq(S), s # <<>>
                    PROVE  /\ SubSeq(s, 1, Len(s) - 1) \in Seq(S)
                           /\ Len(SubSeq(s, 1, Len(s) - 1)) = Len(s) - 1
<1>1. Len(s) \in Nat \ {0} /\ \A i \in 1..(Len(s) - 1) : s[i] \in S
  OBVIOUS
<1>. DEFINE n == Len(s) - 1
<1>2. n \in Int /\ 1 \in Int /\ \A i \in 1..n : s[i] \in S
  BY <1>1
<1>3. SubSeq(s, 1, n) \in Seq(S) /\ Len(SubSeq(s, 1, n)) = IF 1 <= n THEN n - 1 + 1 ELSE 0
  <2>. HIDE DEF n
  <2>. QED
    BY <1>2, SubSeqProperties
<1>4. n \in Nat
  BY <1>1
<1>5. Len(SubSeq(s, 1, n)) = n
  <2>. HIDE DEF n
  <2>. QED
    BY <1>3, <1>4
<1>. QED
  BY <1>3, <1>5

(* Beginning a child keeps every frame but the last, which loses one.      *)
LEMMA FilledFrames == ASSUME TypeOK, Building
                      PROVE  /\ Filled \in Seq(0..Roots(harness) \cup 0..Fanout(harness))
                             /\ Len(Filled) = Len(stack) /\ Filled # <<>>
                             /\ Filled[Len(stack)] = Top - 1
<1>. DEFINE S == 0..Roots(harness) \cup 0..Fanout(harness)
<1>1. stack # <<>> /\ Top > 0 /\ stack \in Seq(S) /\ Len(stack) \in Nat \ {0} /\ Top \in Nat
  BY FramesOf DEF Building, TypeOK
<1>2. Top \in S
  BY <1>1 DEF Top
<1>3. Top - 1 \in S
  BY <1>1, <1>2 DEF Roots, Fanout
<1>. QED
  BY <1>1, <1>3 DEF Filled, Top

(* What may be drawn: nothing but the least once the data are exhausted.   *)
LEMMA Draws == ASSUME NEW last \in Nat, NEW bytes \in Nat, NEW v \in Draw(last, bytes)
               PROVE  v \in 0..last /\ (v > 0 => bytes > 0)
  BY DEF Draw

(* A frame more, above the one whose child it is. *)
LEMMA Pushed ==
    ASSUME TypeOK, Building, NEW n \in 0..Fanout(harness), stack' = Append(Filled, n),
           UNCHANGED harness
    PROVE  /\ stack' \in Seq(0..Roots(harness) \cup 0..Fanout(harness))
           /\ stack' # <<>> /\ Depth' = Depth + 1 /\ Top' = n
<1>. DEFINE S == 0..Roots(harness) \cup 0..Fanout(harness)
<1>1. Filled \in Seq(S) /\ Len(Filled) = Len(stack) /\ n \in S
  BY FilledFrames
<1>2. Len(stack) \in Nat
  BY FramesOf DEF Building
<1>3. stack' \in Seq(S) /\ Len(stack') = Len(stack) + 1 /\ stack'[Len(stack) + 1] = n
  BY <1>1, <1>2
<1>. HIDE DEF S
<1>. QED
  BY <1>2, <1>3 DEF Depth, Top, S

(* It holds initially. *)
LEMMA Initially == Init => IInv
<1>. SUFFICES ASSUME Init PROVE IInv
  OBVIOUS
<1>1. TypeOK
  <2>1. stack \in Seq(0..Roots(harness) \cup 0..Fanout(harness))
    <3>1. CASE harness = "config"
      <4>1. PICK n \in Draw(8, data) : stack = <<n>>
        BY <3>1 DEF Init
      <4>2. n \in 0..8
        BY <4>1 DEF Draw
      <4>. QED
        BY <3>1, <4>1, <4>2 DEF Roots
    <3>2. CASE harness # "config"
      <4>1. stack = <<1>> /\ 1 \in 0..Roots(harness)
        BY <3>2 DEF Init, Roots
      <4>. QED
        BY <4>1
    <3>. QED
      BY <3>1, <3>2
  <2>. QED
    BY <2>1 DEF Init, TypeOK
<1>2. Len(stack) = 1
  BY DEF Init
<1>3. data \in Nat /\ left \in Nat /\ left <= data
  BY GeneratorAssumption DEF Init
<1>4. NestingPaid
  BY <1>2, <1>3 DEF NestingPaid, Depth, Deepest
<1>5. TopPaid
  BY <1>2, <1>3 DEF TopPaid, Depth
<1>. QED
  BY <1>1, <1>4, <1>5 DEF IInv

(* Each action keeps it. *)
LEMMA LeafKeeps == IInv /\ Leaf => IInv'
<1>. SUFFICES ASSUME IInv, Leaf PROVE IInv'
  OBVIOUS
<1>. USE DEF IInv
<1>1. Building /\ stack' = Filled /\ harness' = harness /\ data' = data /\ left' \in 0..After(left)
  BY DEF Leaf
<1>2. left' \in 0..data /\ left' <= left
  BY <1>1, Drawn
<1>3. /\ stack' \in Seq(0..Roots(harness) \cup 0..Fanout(harness))
      /\ Len(stack') = Len(stack) /\ Top' = Top - 1 /\ stack' # <<>>
  BY <1>1, FilledFrames DEF Top
<1>4. /\ Depth' = Depth /\ Depth \in Nat /\ Top \in Nat /\ Top > 0
      /\ left \in Nat /\ data \in Nat /\ stack # <<>>
  BY <1>1, <1>3, FramesOf DEF Depth, Building
<1>5. TypeOK'
  BY <1>1, <1>2, <1>3 DEF TypeOK, Roots, Fanout
<1>6. NestingPaid'
  BY <1>1, <1>2, <1>3, <1>4 DEF NestingPaid, Deepest, Depth
<1>7. TopPaid'
  BY <1>1, <1>2, <1>3, <1>4 DEF TopPaid, Depth, Top
<1>. QED
  BY <1>5, <1>6, <1>7

(* A container goes one level deeper, for two bytes. *)
LEMMA ContainerKeeps == IInv /\ Container => IInv'
<1>. SUFFICES ASSUME IInv, Container PROVE IInv'
  OBVIOUS
<1>. USE DEF IInv
<1>1. Building /\ harness' = harness /\ data' = data /\ left' \in 0..After(After(left))
  BY DEF Container
<1>2. /\ stack # <<>> /\ Depth \in Nat /\ Top \in Nat /\ Top > 0
      /\ left \in Nat /\ data \in Nat /\ left <= data
  BY <1>1, FramesOf DEF Building
<1>3. After(left) \in Nat /\ left' \in Nat /\ left' <= left
  BY <1>1, <1>2 DEF After
<1>4. PICK pick \in Draw(LastPick(harness, Depth), left) : pick \in Many(harness)
  BY DEF Container
<1>5. harness \in {"msgpack_restore", "from_state_dict", "config"}
  BY GeneratorAssumption DEF TypeOK
<1>6. LastPick(harness, Depth) \in Nat
  BY <1>5 DEF LastPick
<1>7. pick \in 0..LastPick(harness, Depth) /\ (pick > 0 => left > 0)
  BY <1>2, <1>4, <1>6, Draws
<1>8. left > 0 /\ (harness # "config" => Depth < Deepest(harness))
  BY <1>2, <1>4, <1>5, <1>7 DEF Many, LastPick, Deepest
<1>9. PICK n \in Draw(Fanout(harness), After(left)) : stack' = Append(Filled, n)
  BY DEF Container
<1>10. n \in 0..Fanout(harness) /\ (n > 0 => After(left) > 0)
  BY <1>3, <1>9, Draws DEF Fanout
<1>11. left' < left /\ (n > 0 => left' + 2 <= left)
  <2>1. n \in Nat
    BY <1>10 DEF Fanout
  <2>. QED
    BY <1>1, <1>2, <1>8, <1>10, <2>1, DrawnTwice
<1>12. /\ stack' \in Seq(0..Roots(harness) \cup 0..Fanout(harness))
       /\ stack' # <<>> /\ Depth' = Depth + 1 /\ Top' = n
  BY <1>1, <1>9, <1>10, Pushed
<1>13. TypeOK'
  BY <1>1, <1>2, <1>3, <1>12 DEF TypeOK, Roots, Fanout
<1>14. NestingPaid'
  BY <1>1, <1>2, <1>3, <1>5, <1>8, <1>11, <1>12 DEF NestingPaid, Deepest, TopPaid, Depth, Top
<1>15. TopPaid'
  <2>1. n \in Nat /\ (harness = "config" => 2 * (Depth - 4) + 1 <= data - left)
    BY <1>2, <1>10 DEF TopPaid, Fanout
  <2>2. n > 0 /\ harness = "config" => 2 * (Depth + 1 - 4) + 1 <= data - left'
    <3>. SUFFICES ASSUME n > 0, harness = "config"
                  PROVE  2 * (Depth + 1 - 4) + 1 <= data - left'
      OBVIOUS
    <3>. HIDE DEF IInv
    <3>. QED
      BY <1>2, <1>3, <1>11, <2>1, TwoPerLevel
  <2>. HIDE DEF IInv
  <2>. QED
    BY <1>1, <1>12, <2>2 DEF TopPaid, Depth, Top
<1>. QED
  BY <1>13, <1>14, <1>15

(* A dict of one key is drawn within the bound only. *)
LEMMA SingleKeeps == IInv /\ Single => IInv'
<1>. SUFFICES ASSUME IInv, Single PROVE IInv'
  OBVIOUS
<1>. USE DEF IInv
<1>1. /\ Building /\ harness' = harness /\ data' = data /\ left' \in 0..After(left)
      /\ stack' = Append(Filled, 1)
  BY DEF Single
<1>2. /\ stack # <<>> /\ Depth \in Nat
      /\ left \in Nat /\ data \in Nat /\ left <= data
  BY <1>1, FramesOf DEF Building
<1>3. PICK pick \in Draw(LastPick(harness, Depth), left) : pick \in One(harness)
  BY DEF Single
<1>4. harness \in {"msgpack_restore", "from_state_dict", "config"}
  BY GeneratorAssumption DEF TypeOK
<1>5. LastPick(harness, Depth) \in Nat
  BY <1>4 DEF LastPick
<1>6. pick \in 0..LastPick(harness, Depth) /\ (pick > 0 => left > 0)
  BY <1>2, <1>3, <1>5, Draws
<1>7. left > 0 /\ Depth < Deepest(harness) /\ Depth < 6 /\ (harness = "config" => Depth < 4)
  BY <1>2, <1>3, <1>4, <1>6 DEF One, LastPick, Deepest
<1>8. left' \in 0..data /\ left' < left
  BY <1>1, <1>7, Drawn
<1>9. 1 \in 0..Fanout(harness)
  BY DEF Fanout
<1>10. /\ stack' \in Seq(0..Roots(harness) \cup 0..Fanout(harness))
       /\ stack' # <<>> /\ Depth' = Depth + 1 /\ Top' = 1
  BY <1>1, <1>9, Pushed
<1>11. TypeOK'
  BY <1>1, <1>8, <1>10 DEF TypeOK, Roots, Fanout
<1>12. NestingPaid'
  BY <1>1, <1>2, <1>4, <1>7, <1>8, <1>10 DEF NestingPaid, Deepest, Depth, Top
<1>13. TopPaid'
  BY <1>1, <1>2, <1>7, <1>8, <1>10 DEF TopPaid, Depth, Top
<1>. QED
  BY <1>11, <1>12, <1>13

(* A container that is returned leaves one level. *)
LEMMA CloseKeeps == IInv /\ Close => IInv'
<1>. SUFFICES ASSUME IInv, Close PROVE IInv'
  OBVIOUS
<1>. USE DEF IInv
<1>. DEFINE S == 0..Roots(harness) \cup 0..Fanout(harness)
<1>1. /\ stack # <<>> /\ stack' = SubSeq(stack, 1, Len(stack) - 1)
      /\ harness' = harness /\ data' = data /\ left' = left
  BY DEF Close
<1>2. /\ Len(stack) \in Nat \ {0} /\ Depth \in Nat /\ left \in Nat /\ data \in Nat /\ left <= data
      /\ stack \in Seq(S)
  BY <1>1, FramesOf DEF TypeOK
<1>3. stack' \in Seq(S) /\ Len(stack') = Len(stack) - 1
  <2>. HIDE DEF S
  <2>. QED
    BY <1>1, <1>2, AllButLast
<1>4. TypeOK'
  BY <1>1, <1>3 DEF TypeOK, Roots, Fanout
<1>5. Depth' = Depth - 1
  BY <1>2, <1>3 DEF Depth
<1>6. harness = "config" => 2 * (Depth - 4) <= data - left
  BY <1>1 DEF NestingPaid, Deepest
<1>7. harness # "config" => Depth <= Deepest(harness)
  BY <1>1 DEF NestingPaid
<1>8. Deepest(harness) \in Nat /\ (harness = "config" => Deepest(harness) = 4)
  BY DEF Deepest
<1>. HIDE DEF IInv, S
<1>9. NestingPaid'
  BY <1>1, <1>2, <1>3, <1>6, <1>7, <1>8 DEF NestingPaid, Depth
<1>10. TopPaid'
  BY <1>1, <1>2, <1>3, <1>6 DEF TopPaid, Depth
<1>. QED
  BY <1>4, <1>9, <1>10 DEF IInv

(* Nothing is left of an input that nests too deep. *)
LEMMA TooDeepKeeps == IInv /\ TooDeep => IInv'
  BY DEF IInv, TooDeep, TypeOK, NestingPaid, TopPaid, Roots, Fanout

(* The invariant, and with it that the stack keeps its type. *)
THEOREM Invariance == Spec => []IInv
<1>1. IInv /\ [Next]_vars => IInv'
  <2>. SUFFICES ASSUME IInv, [Next]_vars PROVE IInv'
    OBVIOUS
  <2>1. CASE UNCHANGED vars
    BY <2>1 DEF vars, IInv, TypeOK, NestingPaid, TopPaid, Top, Depth, Roots, Fanout, Deepest
  <2>. QED
    BY <2>1, LeafKeeps, ContainerKeeps, SingleKeeps, CloseKeeps, TooDeepKeeps DEF Next
<1>. QED
  BY <1>1, Initially, PTL DEF Spec

(* Values of the flax harnesses nest at most four and six deep; those of   *)
(* the config harness past the fourth level pay two bytes for each, which  *)
(* for inputs of any length is all that bounds them.                       *)
THEOREM NestingIsPaid == Spec => [](TypeOK /\ NestingPaid)
  BY Invariance, PTL DEF IInv

--------------------------------------------------------------------------------
(* What the frames owe. *)

(* A set of numbers with a member has a least one. *)
LEMMA NatMin ==
    ASSUME NEW S, S \subseteq Nat, S # {}
    PROVE  \E x \in S : \A y \in S : x <= y
<1> DEFINE R == OpToRel(<, Nat)
<1>1. IsWellFoundedOn(R, Nat)
  BY NatLessThanWellFounded
<1>2. \A x, y \in Nat : x < y => <<x, y>> \in R
  BY DEF OpToRel
<1> HIDE DEF R
<1>3. PICK x \in S : \A y \in S : ~ (<<y, x>> \in R)
  BY <1>1, WFMin
<1>4. ASSUME NEW y \in S PROVE x <= y
  <2>1. x \in Nat /\ y \in Nat
    OBVIOUS
  <2>2. ~(y < x)
    BY <1>2, <1>3, <2>1, Zenon
  <2>3. QED
    BY <2>1, <2>2
<1>5. QED
  BY <1>4

(* A set of numbers up to N that has 0 and, with a number, the next one.   *)
LEMMA UpTo ==
    ASSUME NEW N \in Nat, NEW S, 0 \in S, \A n \in 0..(N - 1) : n \in S => n + 1 \in S
    PROVE  0..N \subseteq S
<1> DEFINE Gap == {n \in 0..N : n \notin S}
<1>1. SUFFICES ASSUME Gap # {} PROVE FALSE
  OBVIOUS
<1>2. PICK x \in Gap : \A y \in Gap : x <= y
  <2>1. Gap \subseteq Nat
    OBVIOUS
  <2> HIDE DEF Gap
  <2>2. QED BY <1>1, <2>1, NatMin
<1>3. x # 0 /\ x \in 0..N
  OBVIOUS
<1>4. x - 1 \in 0..(N - 1) /\ x - 1 \notin Gap
  BY <1>2, <1>3
<1>5. x - 1 \in S
  BY <1>4
<1>6. QED BY <1>3, <1>4, <1>5

(* Owed adds the frames up: the recursion has a solution. *)
LEMMA OwedUnfolds ==
    ASSUME NEW frames \in Seq(Nat), NEW n \in 0..Len(frames)
    PROVE  Owed(frames)[n] = IF n = 0 THEN 0 ELSE Owed(frames)[n - 1] + frames[n]
<1> DEFINE N == Len(frames)
           Step(g, m) == IF m = 0 THEN 0 ELSE g[m - 1] + frames[m]
           Solves(k) == \E g : \A m \in 0..k : g[m] = Step(g, m)
           S == {k \in 0..N : Solves(k)}
<1>1. N \in Nat
  OBVIOUS
<1>2. Solves(0)
  <2> DEFINE g == [m \in 0..0 |-> 0]
  <2>1. \A m \in 0..0 : g[m] = Step(g, m)
    OBVIOUS
  <2>2. QED BY <2>1
<1>3. ASSUME NEW k \in 0..(N - 1), Solves(k) PROVE Solves(k + 1)
  <2>1. PICK g : \A m \in 0..k : g[m] = Step(g, m)
    BY <1>3
  <2> DEFINE h == [m \in 0..N |-> IF m = k + 1 THEN Step(g, m) ELSE g[m]]
  <2>2. \A m \in 0..(k + 1) : m \in 0..N /\ (m # 0 => h[m - 1] = g[m - 1])
    BY <1>1
  <2>3. \A m \in 0..(k + 1) : Step(h, m) = Step(g, m)
    BY <2>2
  <2>4. \A m \in 0..(k + 1) : h[m] = Step(g, m)
    BY <2>1, <1>1
  <2>5. QED BY <2>3, <2>4
<1>4. Solves(N)
  <2> HIDE DEF N, Solves
  <2>1. 0 \in S /\ \A k \in 0..(N - 1) : k \in S => k + 1 \in S
    BY <1>1, <1>2, <1>3
  <2> HIDE DEF S
  <2>2. 0..N \subseteq S
    BY <1>1, <2>1, UpTo
  <2>3. N \in S
    BY <1>1, <2>2
  <2>4. QED BY <2>3 DEF S
<1>5. PICK g : \A m \in 0..N : g[m] = Step(g, m)
  BY <1>4
<1>6. [m \in 0..N |-> g[m]] = [m \in 0..N |-> Step([i \in 0..N |-> g[i]], m)]
  BY <1>1, <1>5
<1>7. Owed(frames) = [m \in 0..N |-> Step(Owed(frames), m)]
  BY <1>6 DEF Owed
<1>8. QED BY <1>7

(* It is a number, and depends on the frames it adds up only.              *)
LEMMA OwedAgree ==
    ASSUME NEW s \in Seq(Nat), NEW t \in Seq(Nat), NEW m \in Nat, m <= Len(s), m <= Len(t),
           \A i \in 1..m : s[i] = t[i]
    PROVE  Owed(s)[m] \in Nat /\ Owed(s)[m] = Owed(t)[m]
<1> DEFINE S == {k \in 0..m : Owed(s)[k] \in Nat /\ Owed(s)[k] = Owed(t)[k]}
<1>1. 0 \in S
  BY OwedUnfolds
<1>2. ASSUME NEW k \in 0..(m - 1), k \in S PROVE k + 1 \in S
  <2>1. /\ k + 1 \in 0..Len(s) /\ k + 1 \in 0..Len(t) /\ k + 1 # 0 /\ (k + 1) - 1 = k
        /\ k + 1 \in 1..m
    OBVIOUS
  <2>2. Owed(s)[k + 1] = Owed(s)[k] + s[k + 1] /\ Owed(t)[k + 1] = Owed(t)[k] + t[k + 1]
    BY <2>1, OwedUnfolds
  <2>3. s[k + 1] \in Nat /\ s[k + 1] = t[k + 1]
    BY <2>1
  <2>4. QED BY <1>2, <2>1, <2>2, <2>3
<1> HIDE DEF S
<1>3. 0..m \subseteq S
  BY <1>1, <1>2, UpTo
<1>4. m \in S
  BY <1>3
<1>5. QED BY <1>4 DEF S

(* What all the frames of a stack owe. *)
Total(frames) == Owed(frames)[Len(frames)]

(* A frame more or less on the top. *)
LEMMA TotalSplits ==
    ASSUME NEW s \in Seq(Nat), NEW t \in Seq(Nat), Len(s) = Len(t) + 1,
           \A i \in 1..Len(t) : s[i] = t[i]
    PROVE  Total(t) \in Nat /\ Total(s) = Total(t) + s[Len(s)]
<1> DEFINE n == Len(t)
<1>1. n \in Nat /\ n + 1 = Len(s) /\ n + 1 \in 0..Len(s) /\ n + 1 # 0 /\ (n + 1) - 1 = n
  OBVIOUS
<1>2. Owed(t)[n] \in Nat /\ Owed(t)[n] = Owed(s)[n]
  <2>1. n <= Len(t) /\ n <= Len(s) /\ \A i \in 1..n : t[i] = s[i]
    BY <1>1
  <2> HIDE DEF n
  <2>2. QED BY <1>1, <2>1, OwedAgree
<1>3. Owed(s)[n + 1] = Owed(s)[n] + s[n + 1]
  BY <1>1, OwedUnfolds
<1>4. QED BY <1>1, <1>2, <1>3 DEF Total

(* Beginning a child owes one less. *)
LEMMA TotalFilled ==
    ASSUME TypeOK, Building
    PROVE  Filled \in Seq(Nat) /\ Total(stack) \in Nat /\ Total(Filled) = Total(stack) - 1
<1> DEFINE n == Len(stack) - 1
           below == SubSeq(stack, 1, n)
<1>1. stack # <<>> /\ stack \in Seq(Nat) /\ Len(stack) \in Nat \ {0} /\ Top \in Nat /\ Top > 0
  BY FramesOf DEF Building
<1>2. below \in Seq(Nat) /\ Len(below) = n /\ n \in Nat
  BY <1>1, AllButLast
<1>3. \A i \in 1..n : below[i] = stack[i]
  BY <1>1
<1>4. Filled \in Seq(Nat) /\ Len(Filled) = Len(stack) /\ Filled[Len(stack)] = Top - 1
  <2>1. 0..Roots(harness) \cup 0..Fanout(harness) \subseteq Nat
    BY DEF Roots, Fanout
  <2>2. QED BY <2>1, FilledFrames
<1>5. \A i \in 1..n : Filled[i] = stack[i]
  BY <1>1 DEF Filled
<1> HIDE DEF below, n
<1>6. Total(below) \in Nat /\ Total(stack) = Total(below) + stack[Len(stack)]
  <2>1. Len(stack) = Len(below) + 1 /\ \A i \in 1..Len(below) : stack[i] = below[i]
    BY <1>1, <1>2, <1>3 DEF n
  <2>2. QED BY <1>1, <1>2, <2>1, TotalSplits
<1>7. Total(Filled) = Total(below) + Filled[Len(Filled)]
  <2>1. Len(Filled) = Len(below) + 1 /\ \A i \in 1..Len(below) : Filled[i] = below[i]
    BY <1>1, <1>2, <1>3, <1>4, <1>5 DEF n
  <2>2. QED BY <1>2, <1>4, <2>1, TotalSplits
<1>8. QED BY <1>1, <1>4, <1>6, <1>7 DEF Top

(* A container owes what it adds. *)
LEMMA TotalPushed ==
    ASSUME TypeOK, Building, NEW n \in Nat
    PROVE  Total(Append(Filled, n)) = Total(stack) - 1 + n
<1>1. Filled \in Seq(Nat) /\ Total(stack) \in Nat /\ Total(Filled) = Total(stack) - 1
  BY TotalFilled
<1> DEFINE s == Append(Filled, n)
<1>2. /\ s \in Seq(Nat) /\ Len(s) = Len(Filled) + 1 /\ s[Len(s)] = n
      /\ \A i \in 1..Len(Filled) : s[i] = Filled[i]
  BY <1>1
<1> HIDE DEF s
<1>3. Total(s) = Total(Filled) + n
  BY <1>1, <1>2, TotalSplits
<1>4. QED BY <1>1, <1>3 DEF s

(* SizeLinear, said of the total. *)
LEMMA SizeIsTotal ==
    SizeLinear <=> 2 * Total(stack) <= 2 * Roots(harness) + Fanout(harness) * (data - left)
BY DEF SizeLinear, Total

(* More bytes used allow for more. *)
LEMMA Allowance ==
    ASSUME TypeOK, NEW rest \in Nat, rest <= left
    PROVE  /\ Fanout(harness) * (data - left) \in Nat /\ Roots(harness) \in Nat
           /\ Fanout(harness) * (data - rest) \in Nat
           /\ Fanout(harness) * (data - rest) >= Fanout(harness) * (data - left)
           /\ rest + 2 <= left =>
                 Fanout(harness) * (data - rest) >=
                    Fanout(harness) * (data - left) + 2 * Fanout(harness)
<1>1. data \in Nat /\ left \in Nat /\ left <= data
  BY GeneratorAssumption DEF TypeOK
<1>2. CASE harness = "msgpack_restore"
  BY <1>1, <1>2 DEF Fanout, Roots
<1>3. CASE harness # "msgpack_restore"
  BY <1>1, <1>3 DEF Fanout, Roots
<1>4. QED BY <1>2, <1>3

(* At first, the roots are owed. *)
LEMMA SizeAtFirst == Init => SizeLinear
<1> SUFFICES ASSUME Init PROVE SizeLinear
    OBVIOUS
<1>1. TypeOK
  BY Initially DEF IInv
<1>2. PICK n \in 0..Roots(harness) : stack = <<n>>
  BY DEF Init, Draw, Roots
<1>3. Roots(harness) \in Nat /\ Fanout(harness) * (data - left) \in Nat
  <2>1. left \in Nat
    BY <1>1, GeneratorAssumption DEF TypeOK
  <2>2. QED BY <1>1, <2>1, Allowance
<1>4. n \in Nat /\ n <= Roots(harness)
  BY <1>3
<1>5. Total(<<n>>) = n
  <2> DEFINE s == <<n>>
  <2>1. s \in Seq(Nat) /\ Len(s) = 1 /\ s[1] = n
    BY <1>4
  <2> HIDE DEF s
  <2>2. 0 \in 0..Len(s) /\ 1 \in 0..Len(s)
    BY <2>1
  <2>3. Owed(s)[0] = 0 /\ Owed(s)[1] = Owed(s)[0] + n
    BY <2>1, <2>2, OwedUnfolds
  <2>4. QED BY <1>4, <2>1, <2>3 DEF Total, s
<1>6. QED BY <1>2, <1>3, <1>4, <1>5, SizeIsTotal

(* Every step keeps what is owed within the bytes used. *)
LEMMA SizeKept == IInv /\ SizeLinear /\ [Next]_vars => SizeLinear'
<1> SUFFICES ASSUME TypeOK, SizeLinear, [Next]_vars
             PROVE  2 * Total(stack') <= 2 * Roots(harness') + Fanout(harness') * (data' - left')
    BY DEF SizeLinear, Total, IInv, Roots, Fanout
<1>1. 2 * Total(stack) <= 2 * Roots(harness) + Fanout(harness) * (data - left)
  BY SizeIsTotal
<1>2. data \in Nat /\ left \in Nat /\ left <= data
  BY GeneratorAssumption DEF TypeOK
<1>3. CASE Leaf
  <2>1. /\ Building /\ stack' = Filled /\ harness' = harness /\ data' = data
        /\ left' \in Nat /\ left' <= left
    BY <1>2, <1>3 DEF Leaf, After
  <2>2. Total(stack) \in Nat /\ Total(stack') = Total(stack) - 1
    BY <2>1, TotalFilled
  <2>3. QED BY <1>1, <2>1, <2>2, Allowance
<1>4. CASE Container
  <2>1. /\ Building /\ harness' = harness /\ data' = data /\ left' \in 0..After(After(left))
    BY <1>4 DEF Container
  <2>2. After(left) \in Nat /\ left' \in Nat /\ left' <= left
    BY <1>2, <2>1 DEF After
  <2>3. PICK n \in Draw(Fanout(harness), After(left)) : stack' = Append(Filled, n)
    BY <1>4 DEF Container
  <2>4. n \in 0..Fanout(harness) /\ Fanout(harness) \in Nat /\ (n > 0 => After(left) > 0)
    BY <2>2, <2>3, Draws DEF Fanout
  <2>5. n > 0 => left' + 2 <= left
    <3> SUFFICES ASSUME n > 0 PROVE left' + 2 <= left
      OBVIOUS
    <3>1. left > 0 /\ n \in Nat
      BY <1>2, <2>4 DEF After
    <3>2. QED BY <1>2, <2>1, <2>4, <3>1, DrawnTwice
  <2>6. Total(stack) \in Nat /\ Total(stack') = Total(stack) - 1 + n
    BY <2>1, <2>3, <2>4, TotalFilled, TotalPushed
  <2> DEFINE F == Fanout(harness)
             U == F * (data - left)
             V == F * (data - left')
             W == Roots(harness)
  <2>7. /\ U \in Nat /\ V \in Nat /\ W \in Nat /\ V >= U
        /\ (left' + 2 <= left => V >= U + 2 * F)
    BY <2>2, Allowance
  <2>8. F \in Nat /\ n \in Nat /\ n <= F /\ 2 * Total(stack) <= 2 * W + U
    BY <1>1, <2>4
  <2> HIDE DEF F, U, V, W
  <2>9. 2 * Total(stack') <= 2 * W + V
    BY <2>5, <2>6, <2>7, <2>8
  <2>10. QED BY <2>1, <2>9 DEF F, V, W
<1>5. CASE Single
  <2>1. /\ Building /\ stack' = Append(Filled, 1) /\ harness' = harness /\ data' = data
        /\ left' \in Nat /\ left' <= left
    BY <1>2, <1>5 DEF Single, After
  <2>2. Total(stack) \in Nat /\ Total(stack') = Total(stack)
    BY <2>1, TotalFilled, TotalPushed
  <2>3. QED BY <1>1, <2>1, <2>2, Allowance
<1>6. CASE Close
  <2>1. /\ stack # <<>> /\ Top = 0 /\ stack' = SubSeq(stack, 1, Len(stack) - 1)
        /\ harness' = harness /\ data' = data /\ left' = left
    BY <1>6 DEF Close
  <2>2. stack \in Seq(Nat) /\ Len(stack) \in Nat \ {0}
    BY <2>1, FramesOf
  <2>3. /\ stack' \in Seq(Nat) /\ Len(stack) = Len(stack') + 1
        /\ \A i \in 1..Len(stack') : stack[i] = stack'[i]
    <3>1. stack' \in Seq(Nat) /\ Len(stack') = Len(stack) - 1
      BY <2>1, <2>2, AllButLast
    <3>2. \A i \in 1..(Len(stack) - 1) : stack'[i] = stack[i]
      BY <2>1, <2>2
    <3>3. QED BY <2>2, <3>1, <3>2
  <2>4. Total(stack') \in Nat /\ Total(stack) = Total(stack') + stack[Len(stack)]
    BY <2>2, <2>3, TotalSplits
  <2>5. QED BY <1>1, <2>1, <2>4 DEF Top
<1>7. CASE TooDeep
  <2>1. stack' = <<>> /\ harness' = harness /\ data' = data /\ left' = left
    BY <1>7 DEF TooDeep
  <2>2. Total(<<>>) = 0
    <3> DEFINE none == <<>>
    <3>1. none \in Seq(Nat) /\ Len(none) = 0
      OBVIOUS
    <3> HIDE DEF none
    <3>2. 0 \in 0..Len(none)
      BY <3>1
    <3>3. Owed(none)[0] = 0
      BY <3>1, <3>2, OwedUnfolds
    <3>4. QED BY <3>1, <3>3 DEF Total, none
  <2>3. Roots(harness) \in Nat /\ Fanout(harness) * (data - left) \in Nat
    BY <1>2, Allowance
  <2>4. QED BY <2>1, <2>2, <2>3
<1>8. CASE UNCHANGED vars
  BY <1>1, <1>8 DEF vars
<1>9. QED BY <1>3, <1>4, <1>5, <1>6, <1>7, <1>8 DEF Next

(* However values nest, and for inputs of any length, what is still to be  *)
(* built is linear in the bytes used.                                      *)
THEOREM SizeIsLinear == Spec => []SizeLinear
BY SizeAtFirst, SizeKept, Invariance, PTL DEF Spec

--------------------------------------------------------------------------------
(* Every run ends: what a generator may still do. *)

(* A step left for each frame, two for each child that is owed, and what a *)
(* byte may pay for: a container of up to five children.                   *)
Remaining == 10 * left + 2 * Total(stack) + Len(stack)

(* The total of any stack, and what its top adds. *)
LEMMA TotalBelow ==
    ASSUME TypeOK, stack # <<>>
    PROVE  LET below == SubSeq(stack, 1, Len(stack) - 1)
           IN  /\ Total(below) \in Nat /\ Total(stack) = Total(below) + Top /\ Top \in Nat
               /\ Len(below) \in Nat /\ Len(stack) = Len(below) + 1
<1> DEFINE below == SubSeq(stack, 1, Len(stack) - 1)
<1>1. stack \in Seq(Nat) /\ Len(stack) \in Nat \ {0} /\ Top \in Nat
  BY FramesOf
<1>2. /\ below \in Seq(Nat) /\ Len(below) = Len(stack) - 1
      /\ \A i \in 1..Len(below) : stack[i] = below[i]
  <2>1. below \in Seq(Nat) /\ Len(below) = Len(stack) - 1
    BY <1>1, AllButLast
  <2>2. \A i \in 1..(Len(stack) - 1) : below[i] = stack[i]
    BY <1>1
  <2>3. QED BY <2>1, <2>2
<1> HIDE DEF below
<1>3. Len(stack) = Len(below) + 1 /\ Len(below) \in Nat
  BY <1>1, <1>2
<1>4. Total(below) \in Nat /\ Total(stack) = Total(below) + stack[Len(stack)]
  BY <1>1, <1>2, <1>3, TotalSplits
<1>5. QED BY <1>1, <1>3, <1>4 DEF below, Top

(* Nothing is owed by no frames. *)
LEMMA TotalOfNone == Total(<<>>) = 0
<1> DEFINE none == <<>>
<1>1. none \in Seq(Nat) /\ Len(none) = 0
  OBVIOUS
<1> HIDE DEF none
<1>2. 0 \in 0..Len(none)
  BY <1>1
<1>3. Owed(none)[0] = 0
  BY <1>1, <1>2, OwedUnfolds
<1>4. QED BY <1>1, <1>3 DEF Total, none

(* It is a number. *)
LEMMA RemainingIsNat == TypeOK => Remaining \in Nat
<1> SUFFICES ASSUME TypeOK PROVE Remaining \in Nat
    OBVIOUS
<1>1. left \in Nat
  BY GeneratorAssumption DEF TypeOK
<1>2. Total(stack) \in Nat /\ Len(stack) \in Nat
  <2>1. CASE stack = <<>>
    BY <2>1, TotalOfNone
  <2>2. CASE stack # <<>>
    BY <2>2, TotalBelow
  <2>3. QED BY <2>1, <2>2
<1>3. QED BY <1>1, <1>2 DEF Remaining

(* A byte pays for five children and the frame they are in. *)
LEMMA ContainerPaid ==
    ASSUME NEW all \in Nat, NEW rest \in Nat, rest <= all - 1, NEW n \in Nat, n <= 5,
           NEW owed \in Nat, NEW frames \in Nat
    PROVE  10 * rest + 2 * (owed - 1 + n) + (frames + 1) < 10 * all + 2 * owed + frames
<1>1. 10 * rest <= 10 * all - 10
  OBVIOUS
<1>2. 2 * (owed - 1 + n) <= 2 * owed + 8
  OBVIOUS
<1>3. QED BY <1>1, <1>2

(* Every step leaves less. *)
LEMMA StepDescends == TypeOK /\ Next => Remaining' < Remaining
<1> SUFFICES ASSUME TypeOK, Next PROVE Remaining' < Remaining
    OBVIOUS
<1>1. left \in Nat
  BY GeneratorAssumption DEF TypeOK
<1>2. ASSUME Building
      PROVE  /\ Len(stack) \in Nat /\ Total(stack) \in Nat
             /\ Filled \in Seq(Nat) /\ Len(Filled) = Len(stack)
             /\ Total(Filled) = Total(stack) - 1
             /\ \A n \in Nat : /\ Len(Append(Filled, n)) = Len(stack) + 1
                              /\ Total(Append(Filled, n)) = Total(stack) - 1 + n
  <2>1. Filled \in Seq(Nat) /\ Total(stack) \in Nat /\ Total(Filled) = Total(stack) - 1
    BY <1>2, TotalFilled
  <2>2. Len(stack) \in Nat /\ Len(Filled) = Len(stack)
    BY <1>2, FramesOf, FilledFrames DEF Building
  <2>3. \A n \in Nat : Len(Append(Filled, n)) = Len(stack) + 1
    BY <2>1, <2>2
  <2>4. \A n \in Nat : Total(Append(Filled, n)) = Total(stack) - 1 + n
    BY <1>2, TotalPushed
  <2>5. QED BY <2>1, <2>2, <2>3, <2>4
<1>3. \A pick \in Draw(LastPick(harness, Depth), left) :
         pick \in Many(harness) \cup One(harness) => left > 0
  <2>1. \A pick \in Many(harness) \cup One(harness) : pick > 0
    BY GeneratorAssumption DEF TypeOK, Many, One
  <2>2. QED BY <1>1, <2>1 DEF Draw
<1>4. CASE Leaf
  <2>1. Building /\ stack' = Filled /\ left' \in Nat /\ left' <= left
    BY <1>1, <1>4 DEF Leaf, After
  <2>2. /\ Len(stack) \in Nat /\ Total(stack) \in Nat
        /\ Len(stack') = Len(stack) /\ Total(stack') = Total(stack) - 1
    BY <1>2, <2>1
  <2>3. QED BY <1>1, <2>1, <2>2 DEF Remaining
<1>5. CASE Container
  <2>1. Building /\ left > 0 /\ left' \in 0..After(After(left))
    BY <1>3, <1>5 DEF Container
  <2>2. left' \in Nat /\ left' <= left - 1 /\ After(left) \in Nat
    BY <1>1, <2>1 DEF After
  <2>3. PICK n \in Draw(Fanout(harness), After(left)) : stack' = Append(Filled, n)
    BY <1>5 DEF Container
  <2>4. n \in Nat /\ n <= 5
    BY <2>3 DEF Draw, Fanout
  <2>5. /\ Len(stack) \in Nat /\ Total(stack) \in Nat
        /\ Len(stack') = Len(stack) + 1 /\ Total(stack') = Total(stack) - 1 + n
    BY <1>2, <2>1, <2>3, <2>4
  <2>6. 10 * left' + 2 * (Total(stack) - 1 + n) + (Len(stack) + 1)
           < 10 * left + 2 * Total(stack) + Len(stack)
    BY <1>1, <2>2, <2>4, <2>5, ContainerPaid
  <2>7. QED BY <2>5, <2>6 DEF Remaining
<1>6. CASE Single
  <2>1. Building /\ left > 0 /\ left' \in 0..After(left) /\ stack' = Append(Filled, 1)
    BY <1>3, <1>6 DEF Single
  <2>2. left' \in Nat /\ left' <= left - 1
    BY <1>1, <2>1 DEF After
  <2>3. /\ Len(stack) \in Nat /\ Total(stack) \in Nat
        /\ Len(stack') = Len(stack) + 1 /\ Total(stack') = Total(stack) - 1 + 1
    BY <1>2, <2>1
  <2>4. QED BY <1>1, <2>2, <2>3 DEF Remaining
<1>7. CASE Close
  <2>1. stack # <<>> /\ stack' = SubSeq(stack, 1, Len(stack) - 1) /\ left' = left
    BY <1>7 DEF Close
  <2>2. /\ Total(stack') \in Nat /\ Total(stack) = Total(stack') + Top /\ Top \in Nat
        /\ Len(stack') \in Nat /\ Len(stack) = Len(stack') + 1
    BY <2>1, TotalBelow
  <2>3. QED BY <1>1, <2>1, <2>2 DEF Remaining
<1>8. CASE TooDeep
  <2>1. stack # <<>> /\ stack' = <<>> /\ left' = left
    BY <1>8 DEF TooDeep
  <2>2. Total(stack) \in Nat /\ Len(stack) \in Nat /\ Len(stack) > 0
    BY <2>1, TotalBelow
  <2>3. Total(stack') = 0 /\ Len(stack') = 0
    BY <2>1, TotalOfNone
  <2>4. QED BY <1>1, <2>1, <2>2, <2>3 DEF Remaining
<1>9. QED BY <1>4, <1>5, <1>6, <1>7, <1>8 DEF Next

(* No run of a generator goes on for ever, for inputs of any length: every *)
(* step leaves less to do, by a number that is never below zero.  What is  *)
(* left of Completes is that a step is taken while one can be.             *)
THEOREM RunsDescend == Spec => [](Remaining \in Nat) /\ [][Remaining' < Remaining]_vars
<1>1. IInv => Remaining \in Nat
  BY RemainingIsNat DEF IInv
<1>2. IInv /\ [Next]_vars => [Remaining' < Remaining]_vars
  BY StepDescends DEF IInv
<1>3. QED
  BY <1>1, <1>2, Invariance, PTL DEF Spec
================================================================================
