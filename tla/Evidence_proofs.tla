---------------------------- MODULE Evidence_proofs ----------------------------
(***************************************************************************)
(* The verdict of the workflow, for any claims and any number of them: it  *)
(* stands for the files it was given on, however they were edited; and     *)
(* what a green one publishes is the whole record, each claim once.        *)
(***************************************************************************)
EXTENDS Evidence, FiniteSetTheorems, FunctionTheorems, SequenceTheorems,
        WellFoundedInduction, TLAPS

UpToDate == Valid(yaml) /\ InSync

(* A verdict that was not withdrawn is that of the files as they are, and  *)
(* what the tool vouched for is up to date, committed or not.              *)
IInv == /\ vouched \in BOOLEAN /\ verdict \in {"none", "green", "red"}
        /\ verdict = "green" => UpToDate
        /\ verdict = "red" => ~UpToDate
        /\ vouched => Valid(yaml) /\ md = Rendered(yaml)

(* Rendering files that are up to date leaves them as they are. *)
LEMMA VerdictStands ==
    ASSUME IInv, UNCHANGED <<yaml, tracked>>, md' = Rendered(yaml),
           verdict' = (IF md' = md THEN verdict ELSE "none")
    PROVE  /\ verdict' \in {"none", "green", "red"}
           /\ verdict' = "green" => UpToDate'
           /\ verdict' = "red" => ~UpToDate'
<1>1. CASE md' = md
  BY <1>1 DEF IInv, UpToDate, InSync
<1>2. CASE md' # md
  BY <1>2 DEF IInv
<1>3. QED
  BY <1>1, <1>2

(* The invariant holds in every state. *)
THEOREM Invariance == Spec => []IInv
<1>1. Init => IInv
  BY DEF Init, IInv
<1>2. IInv /\ [Next]_vars => IInv'
  <2> SUFFICES ASSUME IInv, [Next]_vars PROVE IInv'
    OBVIOUS
  <2>1. ASSUME Edited PROVE IInv'
    BY <2>1 DEF Edited, IInv
  <2>2. ASSUME RunRender PROVE IInv'
    <3>1. UNCHANGED <<yaml, tracked>> /\ md' = Rendered(yaml)
      BY <2>2 DEF RunRender
    <3>2. vouched' \in BOOLEAN /\ (vouched' => Valid(yaml)' /\ md' = Rendered(yaml)')
      <4>1. vouched' = (vouched /\ md' = md)
        BY <2>2 DEF RunRender
      <4>2. ASSUME vouched' PROVE Valid(yaml)' /\ md' = Rendered(yaml)'
        BY <3>1, <4>1, <4>2 DEF IInv
      <4>3. QED
        BY <4>1, <4>2 DEF IInv
    <3>3. QED
      BY <2>2, <3>1, <3>2, VerdictStands DEF RunRender, IInv
  <2>3. ASSUME RunTool PROVE IInv'
    <3>1. UNCHANGED <<yaml, tracked>> /\ md' = Rendered(yaml) /\ Valid(yaml) /\ vouched' = TRUE
      BY <2>3 DEF RunTool
    <3>2. Valid(yaml)' /\ md' = Rendered(yaml)'
      BY <3>1
    <3>3. QED
      BY <2>3, <3>1, <3>2, VerdictStands DEF RunTool, IInv
  <2>4. ASSUME Push PROVE IInv'
    <3>1. UNCHANGED <<yaml, md, tracked, vouched>> /\ (UpToDate' <=> UpToDate)
      BY <2>4 DEF Push, UpToDate, InSync
    <3>2. verdict' = IF UpToDate THEN "green" ELSE "red"
      BY <2>4 DEF Push, UpToDate
    <3>3. QED
      BY <3>1, <3>2 DEF IInv
  <2>5. ASSUME UNCHANGED vars PROVE IInv'
    BY <2>5 DEF vars, IInv, UpToDate, InSync
  <2>6. ASSUME Track \/ Untrack PROVE IInv'
    BY <2>6 DEF Track, Untrack, IInv
  <2>7. QED
    BY <2>1, <2>2, <2>3, <2>4, <2>5, <2>6 DEF Next, Add, Revise, Delete, EditByHand
<1>3. QED
  BY <1>1, <1>2, PTL DEF Spec

(* Files on which the tool, run with no flag, succeeded, and that were not *)
(* edited since, pass the workflow (evidence-check.yml).                   *)
THEOREM WhatIsVouchedPasses == Spec => []VouchedPasses
<1>1. IInv => VouchedPasses
  BY DEF IInv, VouchedPasses, UpToDate, InSync
<1>2. QED
  BY <1>1, Invariance, PTL

--------------------------------------------------------------------------------
(* Numbers and ranks. *)

(* A set of numbers with a member has a least one. *)
LEMMA NatMin ==
    ASSUME NEW S, S \subseteq Nat, S # {}
    PROVE  \E x \in S : \A y \in S : x <= y
<1> DEFINE R == OpToRel(<, Nat)
<1>1. IsWellFoundedOn(R, Nat)
  BY NatLessThanWellFounded
<1>2. \A x, y \in Nat : x < y => <<x, y>> \in R
  BY DEF OpToRel
<1> HIDE DEF R
<1>3. PICK x \in S : \A y \in S : ~ (<<y, x>> \in R)
  BY <1>1, WFMin
<1>4. ASSUME NEW y \in S PROVE x <= y
  <2>1. x \in Nat /\ y \in Nat
    OBVIOUS
  <2>2. ~(y < x)
    BY <1>2, <1>3, <2>1, Zenon
  <2>3. QED
    BY <2>1, <2>2
<1>5. QED
  BY <1>4

(* A set of numbers up to N that has 0 and, with a number, the next one.   *)
LEMMA UpTo ==
    ASSUME NEW N \in Nat, NEW S, 0 \in S, \A n \in 0..(N - 1) : n \in S => n + 1 \in S
    PROVE  0..N \subseteq S
<1> DEFINE Gap == {n \in 0..N : n \notin S}
<1>1. SUFFICES ASSUME Gap # {} PROVE FALSE
  OBVIOUS
<1>2. PICK x \in Gap : \A y \in Gap : x <= y
  <2>1. Gap \subseteq Nat
    OBVIOUS
  <2> HIDE DEF Gap
  <2>2. QED BY <1>1, <2>1, NatMin
<1>3. x # 0 /\ x \in 0..N
  OBVIOUS
<1>4. x - 1 \in 0..(N - 1) /\ x - 1 \notin Gap
  BY <1>2, <1>3
<1>5. x - 1 \in S
  BY <1>4
<1>6. QED BY <1>3, <1>4, <1>5

(* A strict total order, as the set of its pairs. *)
StrictOrder(S, R) ==
    /\ \A k \in S : <<k, k>> \notin R
    /\ \A k, l, m \in S : <<k, l>> \in R /\ <<l, m>> \in R => <<k, m>> \in R
    /\ \A k, l \in S : k # l => <<k, l>> \in R \/ <<l, k>> \in R

(* One more than the number of smaller elements. *)
RankIn(S, R) == [k \in S |-> Cardinality({l \in S : <<l, k>> \in R}) + 1]

(* The ranks are the numbers from 1 to the size of the set, each once.     *)
LEMMA RanksAreNumbers ==
    ASSUME NEW S, IsFiniteSet(S), NEW R, StrictOrder(S, R)
    PROVE  /\ \A k \in S : RankIn(S, R)[k] \in 1..Cardinality(S)
           /\ \A r \in 1..Cardinality(S) : \E k \in S : RankIn(S, R)[k] = r
           /\ \A k, l \in S : <<k, l>> \in R => RankIn(S, R)[k] < RankIn(S, R)[l]
<1> DEFINE rank == RankIn(S, R)
           below(k) == {l \in S : <<l, k>> \in R}
           n == Cardinality(S)
<1>1. n \in Nat
  BY FS_CardinalityType
<1>2. ASSUME NEW k \in S
      PROVE  IsFiniteSet(below(k)) /\ Cardinality(below(k)) \in Nat /\ Cardinality(below(k)) < n
  <2>1. IsFiniteSet(below(k)) /\ Cardinality(below(k)) \in Nat
    <3>1. below(k) \in SUBSET S
      OBVIOUS
    <3>2. QED BY <3>1, FS_Subset, FS_CardinalityType
  <2>2. k \notin below(k) /\ below(k) \cup {k} \in SUBSET S
    BY DEF StrictOrder
  <2>3. Cardinality(below(k) \cup {k}) = Cardinality(below(k)) + 1
    <3> HIDE DEF below
    <3>1. QED BY <2>1, <2>2, FS_AddElement
  <2>4. Cardinality(below(k) \cup {k}) <= n
    <3> HIDE DEF below
    <3>1. QED BY <2>2, FS_Subset
  <2> HIDE DEF below, n
  <2>5. QED BY <1>1, <2>1, <2>3, <2>4
<1>3. DOMAIN rank = S /\ \A k \in S : rank[k] = Cardinality(below(k)) + 1
  BY DEF RankIn
<1> HIDE DEF rank
<1>4. ASSUME NEW k \in S, NEW l \in S, <<k, l>> \in R PROVE rank[k] < rank[l]
  <2>1. below(k) \cup {k} \in SUBSET below(l) /\ k \notin below(k)
    BY <1>4 DEF StrictOrder
  <2> HIDE DEF below, n
  <2>2. Cardinality(below(k) \cup {k}) = Cardinality(below(k)) + 1
    BY <1>2, <2>1, FS_AddElement
  <2>3. Cardinality(below(k) \cup {k}) <= Cardinality(below(l))
    BY <1>2, <2>1, FS_Subset
  <2>4. QED BY <1>2, <1>3, <2>2, <2>3
<1>5. \A k \in S : rank[k] \in 1..n
  <2> HIDE DEF below, n
  <2>1. QED BY <1>1, <1>2, <1>3
<1>6. rank \in Injection(S, 1..n)
  <2>1. rank \in [S -> 1..n]
    <3> HIDE DEF n
    <3>1. DOMAIN rank = S /\ rank = [k \in S |-> rank[k]]
      BY <1>3 DEF rank, RankIn
    <3>2. QED BY <1>5, <3>1
  <2>2. ASSUME NEW k \in S, NEW l \in S, rank[k] = rank[l] PROVE k = l
    <3>1. rank[k] \in 1..n /\ rank[l] \in 1..n
      BY <1>5
    <3> HIDE DEF n
    <3>2. ~(rank[k] < rank[l]) /\ ~(rank[l] < rank[k])
      BY <1>1, <2>2, <3>1
    <3>3. QED BY <1>4, <3>2 DEF StrictOrder
  <2>3. QED BY <2>1, <2>2 DEF Injection, IsInjective
<1>7. IsFiniteSet(1..n) /\ Cardinality(1..n) = n
  <2> HIDE DEF n
  <2>1. QED BY <1>1, FS_Interval
<1>8. rank \in Surjection(S, 1..n)
  <2> HIDE DEF n
  <2>1. Cardinality(S) = Cardinality(1..n)
    BY <1>7 DEF n
  <2>2. QED BY <1>6, <1>7, <2>1, FS_Injection
<1>9. \A r \in 1..n : \E k \in S : rank[k] = r
  BY <1>8 DEF Surjection
<1>10. QED BY <1>4, <1>5, <1>9 DEF rank

--------------------------------------------------------------------------------
(* What render writes. *)

(* The positions of the claims of a kind, which are those of one section. *)
Mine(claims, kind) == {i \in Listed(claims) : claims[i].kind = kind}

(* claims lists the claims of base at the positions at, each one once.     *)
Lists(list, base, at) ==
    /\ list \in Seq(Claims)
    /\ Len(list) = Cardinality(at)
    /\ Elements(list) = {base[i] : i \in at}

(* A section lists the claims of its kind, each one once.                  *)
LEMMA SectionLists ==
    ASSUME NEW claims \in Seq(Claims), NEW kind
    PROVE  Lists(Section(claims, kind), claims, Mine(claims, kind))
<1> DEFINE mine == Mine(claims, kind)
           before(i, j) == \/ claims[i].id < claims[j].id
                           \/ claims[i].id = claims[j].id /\ i < j
           R == {p \in mine \X mine : before(p[1], p[2])}
           n == Cardinality(mine)
           section == Section(claims, kind)
           below(i) == {j \in mine : before(j, i)}
<1>1. IsFiniteSet(mine) /\ mine \subseteq DOMAIN claims /\ n \in Nat
  <2>1. mine \in SUBSET (1..Len(claims)) /\ Len(claims) \in Nat
    BY DEF Mine, Listed
  <2> HIDE DEF mine
  <2>2. IsFiniteSet(1..Len(claims))
    BY <2>1, FS_Interval
  <2>3. IsFiniteSet(mine)
    BY <2>1, <2>2, FS_Subset
  <2>4. QED BY <2>1, <2>3, FS_CardinalityType
<1>2. \A i \in mine : i \in Nat /\ claims[i] \in Claims /\ claims[i].id \in Nat
  <2>1. \A c \in Claims : c.id \in Nat
    BY ClaimsAssumption
  <2> HIDE DEF mine
  <2>2. QED BY <1>1, <2>1
<1>3. section = [m \in 1..n |-> claims[CHOOSE i \in mine : Cardinality(below(i)) = m - 1]]
  BY DEF Section, Mine
<1> HIDE DEF mine, section
<1>4. \A i, j \in mine : <<i, j>> \in R <=> before(i, j)
  OBVIOUS
<1>5. StrictOrder(mine, R)
  <2>1. \A i \in mine : ~before(i, i)
    BY <1>2
  <2>2. \A i, j, k \in mine : before(i, j) /\ before(j, k) => before(i, k)
    BY <1>2
  <2>3. \A i, j \in mine : i # j => before(i, j) \/ before(j, i)
    BY <1>2
  <2> HIDE DEF before, R
  <2>4. QED BY <1>4, <2>1, <2>2, <2>3 DEF StrictOrder
<1>6. \A i \in mine : /\ RankIn(mine, R)[i] = Cardinality(below(i)) + 1
                      /\ Cardinality(below(i)) \in Nat
  <2> SUFFICES ASSUME NEW i \in mine
               PROVE  /\ RankIn(mine, R)[i] = Cardinality(below(i)) + 1
                      /\ Cardinality(below(i)) \in Nat
    OBVIOUS
  <2>1. {j \in mine : <<j, i>> \in R} = below(i)
    BY <1>4
  <2>2. below(i) \in SUBSET mine
    OBVIOUS
  <2> HIDE DEF below, R
  <2>3. Cardinality(below(i)) \in Nat
    BY <1>1, <2>2, FS_Subset, FS_CardinalityType
  <2>4. QED BY <2>1, <2>3 DEF RankIn
<1> DEFINE rank == RankIn(mine, R)
<1> HIDE DEF R, n, rank, below
<1>7. /\ \A i \in mine : rank[i] \in 1..n
      /\ \A m \in 1..n : \E i \in mine : rank[i] = m
      /\ \A i, j \in mine : <<i, j>> \in R => rank[i] < rank[j]
  BY <1>1, <1>5, RanksAreNumbers DEF n, rank
<1>8. ASSUME NEW m \in 1..n
      PROVE  \E i \in mine : rank[i] = m /\ section[m] = claims[i]
  <2> DEFINE i == CHOOSE i \in mine : Cardinality(below(i)) = m - 1
  <2>1. PICK j \in mine : rank[j] = m
    BY <1>7
  <2>2. Cardinality(below(j)) = m - 1
    BY <1>1, <1>6, <2>1 DEF rank
  <2>3. i \in mine /\ Cardinality(below(i)) = m - 1
    BY <2>2
  <2>4. section[m] = claims[i]
    BY <1>3
  <2> HIDE DEF i
  <2>5. rank[i] = m
    BY <1>1, <1>6, <2>3 DEF rank
  <2>6. QED BY <2>3, <2>4, <2>5
<1>9. DOMAIN section = 1..n /\ section \in Seq(Claims) /\ Len(section) = n
  <2>1. DOMAIN section = 1..n
    BY <1>3
  <2>2. section \in [1..n -> Claims]
    <3>1. section = [m \in 1..n |-> section[m]]
      BY <1>3
    <3>2. \A m \in 1..n : section[m] \in Claims
      BY <1>2, <1>8
    <3>3. QED BY <3>1, <3>2
  <2>3. QED BY <1>1, <2>1, <2>2
<1>10. ASSUME NEW i \in mine PROVE \E m \in 1..n : section[m] = claims[i]
  <2>1. rank[i] \in 1..n
    BY <1>7
  <2>2. PICK j \in mine : rank[j] = rank[i] /\ section[rank[i]] = claims[j]
    BY <1>8, <2>1
  <2>3. i = j
    <3>1. ~(rank[i] < rank[j]) /\ ~(rank[j] < rank[i])
      BY <1>1, <2>1, <2>2
    <3>2. <<i, j>> \notin R /\ <<j, i>> \notin R
      BY <1>7, <3>1
    <3>3. QED BY <1>5, <3>2 DEF StrictOrder
  <2>4. QED BY <2>1, <2>2, <2>3
<1>11. Elements(section) = {claims[i] : i \in mine}
  BY <1>8, <1>9, <1>10 DEF Elements
<1>12. QED BY <1>9, <1>11 DEF Lists, mine, n, section

(* The sections, and what is listed are the claims of their kinds.         *)
LEMMA Sections ==
    /\ Len(Order) = 6 /\ DOMAIN Order = 1..6
    /\ Elements(Order) = Kinds
    /\ \A m, n \in 1..6 : Order[m] = Order[n] => m = n
<1>1. Len(Order) = 6 /\ DOMAIN Order = 1..6
  BY DEF Order
<1>2. /\ Order[1] = "finding" /\ Order[2] = "correction" /\ Order[3] = "non-finding"
      /\ Order[4] = "negative" /\ Order[5] = "audit" /\ Order[6] = "method"
  BY DEF Order
<1>3. \A m \in 1..6 : m = 1 \/ m = 2 \/ m = 3 \/ m = 4 \/ m = 5 \/ m = 6
  OBVIOUS
<1>4. Elements(Order) = Kinds
  <2>1. \A m \in 1..6 : Order[m] \in Kinds
    BY <1>2, <1>3 DEF Kinds
  <2>2. \A k \in Kinds : \E m \in 1..6 : Order[m] = k
    <3>1. 1 \in 1..6 /\ 2 \in 1..6 /\ 3 \in 1..6 /\ 4 \in 1..6 /\ 5 \in 1..6 /\ 6 \in 1..6
      OBVIOUS
    <3>2. QED BY <1>2, <3>1 DEF Kinds
  <2>3. QED BY <1>1, <2>1, <2>2 DEF Elements
<1>5. \A m, n \in 1..6 : Order[m] = Order[n] => m = n
  BY <1>2, <1>3
<1>6. QED BY <1>1, <1>4, <1>5

(* Section by section: the recursion has a solution.                       *)
LEMMA WrittenUnfolds ==
    ASSUME NEW claims, NEW n \in 0..Len(Order)
    PROVE  Written(claims)[n] =
              IF n = 0 THEN <<>> ELSE Written(claims)[n - 1] \o Section(claims, Order[n])
<1> DEFINE N == Len(Order)
           Step(g, m) == IF m = 0 THEN <<>> ELSE g[m - 1] \o Section(claims, Order[m])
           Solves(k) == \E g : \A m \in 0..k : g[m] = Step(g, m)
           S == {k \in 0..N : Solves(k)}
<1>1. N \in Nat
  BY Sections
<1>2. Solves(0)
  <2> DEFINE g == [m \in 0..0 |-> <<>>]
  <2>1. \A m \in 0..0 : g[m] = Step(g, m)
    OBVIOUS
  <2>2. QED BY <2>1
<1> HIDE DEF N
<1>3. ASSUME NEW k \in 0..(N - 1), Solves(k) PROVE Solves(k + 1)
  <2>1. PICK g : \A m \in 0..k : g[m] = Step(g, m)
    BY <1>3
  <2> DEFINE h == [m \in 0..N |-> IF m = k + 1 THEN Step(g, m) ELSE g[m]]
  <2>2. \A m \in 0..(k + 1) : m \in 0..N /\ (m # 0 => h[m - 1] = g[m - 1])
    BY <1>1
  <2>3. \A m \in 0..(k + 1) : Step(h, m) = Step(g, m)
    <3> HIDE DEF h
    <3>1. QED BY <2>2
  <2>4. \A m \in 0..(k + 1) : h[m] = Step(g, m)
    BY <2>1, <1>1
  <2>5. QED BY <2>3, <2>4
<1>4. Solves(N)
  <2> HIDE DEF Solves
  <2>1. 0 \in S /\ \A k \in 0..(N - 1) : k \in S => k + 1 \in S
    BY <1>1, <1>2, <1>3
  <2> HIDE DEF S
  <2>2. 0..N \subseteq S
    BY <1>1, <2>1, UpTo
  <2>3. N \in S
    BY <1>1, <2>2
  <2>4. QED BY <2>3 DEF S
<1>5. PICK g : \A m \in 0..N : g[m] = Step(g, m)
  BY <1>4
<1>6. [m \in 0..N |-> g[m]] = [m \in 0..N |-> Step([i \in 0..N |-> g[i]], m)]
  BY <1>1, <1>5
<1>7. Written(claims) = [m \in 0..N |-> Step(Written(claims), m)]
  BY <1>6 DEF Written, N
<1>8. n \in 0..N
  BY DEF N
<1>9. Written(claims)[n] = Step(Written(claims), n)
  <2> HIDE DEF Step
  <2>1. QED BY <1>7, <1>8
<1>10. QED BY <1>9

(* The positions whose claims are in the first n sections.                 *)
Upto(claims, n) == {i \in Listed(claims) : \E m \in 1..n : claims[i].kind = Order[m]}

(* Two lists of different claims, one after the other. *)
LEMMA ListsConcat ==
    ASSUME NEW base, NEW at, NEW more, IsFiniteSet(at), IsFiniteSet(more), at \cap more = {},
           NEW s, NEW t, Lists(s, base, at), Lists(t, base, more)
    PROVE  Lists(s \o t, base, at \cup more)
<1>1. s \in Seq(Claims) /\ t \in Seq(Claims)
  BY DEF Lists
<1>2. /\ s \o t \in Seq(Claims) /\ Len(s \o t) = Len(s) + Len(t)
      /\ Elements(s \o t) = Elements(s) \cup Elements(t)
  <2>1. /\ s \o t \in Seq(Claims) /\ Len(s \o t) = Len(s) + Len(t)
        /\ DOMAIN (s \o t) = 1..(Len(s) + Len(t)) /\ Len(s) \in Nat /\ Len(t) \in Nat
        /\ DOMAIN s = 1..Len(s) /\ DOMAIN t = 1..Len(t)
    BY <1>1
  <2>2. /\ \A i \in DOMAIN s : i \in DOMAIN (s \o t) /\ (s \o t)[i] = s[i]
        /\ \A i \in DOMAIN t : i + Len(s) \in DOMAIN (s \o t) /\ (s \o t)[i + Len(s)] = t[i]
    BY <1>1, <2>1
  <2>3. ASSUME NEW i \in DOMAIN (s \o t)
        PROVE  \/ i \in DOMAIN s
               \/ i - Len(s) \in DOMAIN t /\ i = (i - Len(s)) + Len(s)
    BY <2>1
  <2>4. \A i \in DOMAIN (s \o t) : (s \o t)[i] \in Elements(s) \cup Elements(t)
    BY <2>2, <2>3 DEF Elements
  <2>5. Elements(s) \cup Elements(t) \subseteq Elements(s \o t)
    BY <2>2 DEF Elements
  <2>6. QED BY <2>1, <2>4, <2>5 DEF Elements
<1>3. Cardinality(at \cup more) = Cardinality(at) + Cardinality(more)
  <2>1. Cardinality({}) = 0
    BY FS_EmptySet
  <2>2. Cardinality(at \cup more) = Cardinality(at) + Cardinality(more) - Cardinality(at \cap more)
    BY FS_Union
  <2>3. Cardinality(at) \in Nat /\ Cardinality(more) \in Nat
    BY FS_CardinalityType
  <2>4. Cardinality(at \cap more) = 0
    BY <2>1
  <2>5. QED BY <2>2, <2>3, <2>4
<1>4. {base[i] : i \in at \cup more} = {base[i] : i \in at} \cup {base[i] : i \in more}
  OBVIOUS
<1>5. QED BY <1>2, <1>3, <1>4 DEF Lists

(* render lists what is listed, each claim once. *)
LEMMA RenderLists ==
    ASSUME NEW claims \in Seq(Claims)
    PROVE  Lists(Render(claims), claims, Listed(claims))
<1> DEFINE S == {n \in 0..6 : Lists(Written(claims)[n], claims, Upto(claims, n))}
<1>1. IsFiniteSet(Listed(claims))
  <2>1. Listed(claims) \in SUBSET (1..Len(claims)) /\ Len(claims) \in Nat
    BY DEF Listed
  <2>2. IsFiniteSet(1..Len(claims))
    BY <2>1, FS_Interval
  <2>3. QED BY <2>1, <2>2, FS_Subset
<1>2. 0 \in S
  <2>1. Written(claims)[0] = <<>>
    BY Sections, WrittenUnfolds
  <2>2. Upto(claims, 0) = {}
    BY DEF Upto
  <2>3. Cardinality({}) = 0
    BY FS_EmptySet
  <2>4. Lists(<<>>, claims, {})
    BY <2>3 DEF Lists, Elements
  <2>5. Lists(Written(claims)[0], claims, Upto(claims, 0))
    BY <2>1, <2>2, <2>4
  <2>6. 0 \in 0..6
    OBVIOUS
  <2>7. QED BY <2>5, <2>6
<1>3. ASSUME NEW n \in 0..5, n \in S PROVE n + 1 \in S
  <2> DEFINE kind == Order[n + 1]
             at == Upto(claims, n)
             more == Mine(claims, kind)
  <2>1. n + 1 \in 1..6 /\ n + 1 # 0 /\ (n + 1) - 1 = n /\ n + 1 \in 0..Len(Order)
    BY Sections
  <2>2. Written(claims)[n + 1] = Written(claims)[n] \o Section(claims, kind)
    BY <2>1, WrittenUnfolds
  <2>3. at \in SUBSET Listed(claims) /\ more \in SUBSET Listed(claims)
    BY DEF Upto, Mine
  <2>4. at \cap more = {}
    <3> SUFFICES ASSUME NEW i \in at, i \in more PROVE FALSE
      OBVIOUS
    <3>1. PICK m \in 1..n : claims[i].kind = Order[m]
      BY DEF Upto
    <3>2. Order[m] = Order[n + 1] /\ m \in 1..6 /\ m # n + 1
      BY <2>1, <3>1 DEF Mine
    <3>3. QED BY <2>1, <3>2, Sections
  <2>5. Upto(claims, n + 1) = at \cup more
    <3>1. 1..(n + 1) = (1..n) \cup {n + 1}
      OBVIOUS
    <3>2. QED BY <3>1 DEF Upto, Mine
  <2>6. IsFiniteSet(at) /\ IsFiniteSet(more)
    BY <1>1, <2>3, FS_Subset
  <2>7. Lists(Section(claims, kind), claims, more)
    BY SectionLists
  <2>8. Lists(Written(claims)[n], claims, at)
    BY <1>3
  <2> HIDE DEF at, more, kind
  <2>9. Lists(Written(claims)[n] \o Section(claims, kind), claims, at \cup more)
    BY <2>4, <2>6, <2>7, <2>8, ListsConcat
  <2>10. Lists(Written(claims)[n + 1], claims, Upto(claims, n + 1))
    BY <2>2, <2>5, <2>9
  <2>11. n + 1 \in 0..6
    OBVIOUS
  <2>12. QED BY <2>10, <2>11
<1> HIDE DEF S
<1>4. 6 \in S
  <2>1. 0..6 \subseteq S
    <3>1. 6 \in Nat /\ \A n \in 0..(6 - 1) : n \in S => n + 1 \in S
      BY <1>3
    <3>2. QED BY <1>2, <3>1, UpTo
  <2>2. QED BY <2>1
<1>5. Upto(claims, 6) = Listed(claims)
  BY Sections DEF Upto, Listed, Elements
<1>6. QED BY <1>4, <1>5, Sections DEF S, Render

--------------------------------------------------------------------------------
(* claims.yaml and claims.md. *)

(* Deleting a claim leaves claims, and one fewer of them. *)
LEMMA ClaimDeleted ==
    ASSUME NEW claims \in Seq(Claims), NEW i \in DOMAIN claims
    PROVE  RemoveAt(claims, i) \in Seq(Claims) /\ Len(RemoveAt(claims, i)) = Len(claims) - 1
<1> DEFINE n == Len(claims)
           front == SubSeq(claims, 1, i - 1)
           back == SubSeq(claims, i + 1, n)
<1>1. n \in Nat /\ i \in 1..n /\ \A j \in 1..n : claims[j] \in Claims
  OBVIOUS
<1> HIDE DEF n
<1>2. front \in Seq(Claims) /\ Len(front) = i - 1
  <2>1. 1 \in Int /\ i - 1 \in Int /\ \A j \in 1..(i - 1) : claims[j] \in Claims
    BY <1>1
  <2>2. /\ front \in Seq(Claims)
        /\ Len(front) = IF 1 <= i - 1 THEN (i - 1) - 1 + 1 ELSE 0
    <3> HIDE <1>1
    <3>1. QED BY <2>1, SubSeqProperties
  <2>3. QED BY <1>1, <2>2
<1>3. back \in Seq(Claims) /\ Len(back) = n - i
  <2>1. i + 1 \in Int /\ n \in Int /\ \A j \in (i + 1)..n : claims[j] \in Claims
    BY <1>1
  <2>2. /\ back \in Seq(Claims)
        /\ Len(back) = IF i + 1 <= n THEN n - (i + 1) + 1 ELSE 0
    <3> HIDE <1>1
    <3>1. QED BY <2>1, SubSeqProperties
  <2>3. QED BY <1>1, <2>2
<1>4. RemoveAt(claims, i) = front \o back
  BY DEF RemoveAt, n
<1> HIDE DEF front, back
<1>5. QED
  <2>1. front \o back \in Seq(Claims) /\ Len(front \o back) = Len(front) + Len(back)
    BY <1>2, <1>3, ConcatProperties
  <2>2. (i - 1) + (n - i) = n - 1
    BY <1>1
  <2>3. QED BY <1>2, <1>3, <1>4, <2>1, <2>2 DEF n

(* No more is listed than there is. *)
LEMMA ListedFits ==
    ASSUME NEW claims \in Seq(Claims)
    PROVE  Cardinality(Listed(claims)) <= Len(claims)
<1> DEFINE n == Len(claims)
<1>1. Listed(claims) \in SUBSET (1..n) /\ n \in Nat
  BY DEF Listed
<1> HIDE DEF n
<1>2. IsFiniteSet(1..n) /\ Cardinality(1..n) = n
  BY <1>1, FS_Interval
<1>3. Cardinality(Listed(claims)) <= Cardinality(1..n)
  BY <1>1, <1>2, FS_Subset
<1>4. QED BY <1>2, <1>3 DEF n

(* The type invariant: whatever order claims.yaml is edited and rendered   *)
(* in, claims.md holds claims, and no more of them than claims.yaml may.   *)
THEOREM TypeCorrect == Spec => []TypeOK
<1> <<>> \in Seq(Claims) /\ Len(<<>>) = 0 /\ 0 <= MaxClaims
  BY MaxClaimsAssumption
<1>1. Init => TypeOK
  <2> SUFFICES ASSUME Init PROVE TypeOK
    OBVIOUS
  <2>1. yaml = <<>> /\ md.lists = <<>> /\ md.byHand = FALSE
    BY DEF Init
  <2>2. tracked \in BOOLEAN /\ vouched \in BOOLEAN /\ verdict \in {"none", "green", "red"}
    BY DEF Init
  <2>3. QED BY <2>1, <2>2 DEF TypeOK
<1>2. TypeOK /\ [Next]_vars => TypeOK'
  <2> SUFFICES ASSUME TypeOK, [Next]_vars PROVE TypeOK'
    OBVIOUS
  <2> USE DEF TypeOK
  <2>1. ASSUME NEW c \in Claims, Add(c) PROVE TypeOK'
    <3>1. Append(yaml, c) \in Seq(Claims) /\ Len(Append(yaml, c)) = Len(yaml) + 1
      OBVIOUS
    <3>2. Len(yaml) + 1 <= MaxClaims
      BY <2>1, MaxClaimsAssumption DEF Add
    <3>3. QED BY <2>1, <3>1, <3>2 DEF Add, Edited
  <2>2. ASSUME NEW c \in Claims, NEW i \in DOMAIN yaml, Revise(i, c) PROVE TypeOK'
    <3>1. [yaml EXCEPT ![i] = c] \in Seq(Claims) /\ Len([yaml EXCEPT ![i] = c]) = Len(yaml)
      OBVIOUS
    <3>2. QED BY <2>2, <3>1 DEF Revise, Edited
  <2>3. ASSUME NEW i \in DOMAIN yaml, Delete(i) PROVE TypeOK'
    <3>1. RemoveAt(yaml, i) \in Seq(Claims) /\ Len(RemoveAt(yaml, i)) = Len(yaml) - 1
      BY ClaimDeleted
    <3>2. Len(yaml) - 1 <= MaxClaims
      BY MaxClaimsAssumption
    <3>3. QED BY <2>3, <3>1, <3>2 DEF Delete, Edited
  <2>4. ASSUME EditByHand PROVE TypeOK'
    <3>1. md'.lists = <<>> /\ md'.byHand = TRUE /\ yaml' = yaml
      BY <2>4 DEF EditByHand
    <3>2. vouched' = FALSE /\ verdict' = "none" /\ tracked' = tracked
      BY <2>4 DEF EditByHand, Edited
    <3>3. QED BY <3>1, <3>2
  <2>5. Render(yaml) \in Seq(Claims) /\ Len(Render(yaml)) <= MaxClaims
    <3>1. Lists(Render(yaml), yaml, Listed(yaml))
      BY RenderLists
    <3>2. Cardinality(Listed(yaml)) <= Len(yaml)
      BY ListedFits
    <3>3. Render(yaml) \in Seq(Claims) /\ Len(Render(yaml)) = Cardinality(Listed(yaml))
      BY <3>1 DEF Lists
    <3>4. QED BY <3>2, <3>3, MaxClaimsAssumption
  <2>6. ASSUME md' = Rendered(yaml), vouched' \in BOOLEAN,
               verdict' = (IF md' = md THEN verdict ELSE "none"),
               UNCHANGED <<yaml, tracked>>
        PROVE  TypeOK'
    <3>1. md'.lists = Render(yaml) /\ md'.byHand = FALSE
      BY <2>6 DEF Rendered
    <3>2. verdict' \in {"none", "green", "red"}
      BY <2>6
    <3>3. QED BY <2>5, <2>6, <3>1, <3>2
  <2>7. ASSUME RunRender PROVE TypeOK'
    <3>1. vouched' \in BOOLEAN
      BY <2>7 DEF RunRender
    <3>2. QED BY <2>6, <2>7, <3>1 DEF RunRender
  <2>8. ASSUME RunTool PROVE TypeOK'
    BY <2>6, <2>8 DEF RunTool
  <2>9. ASSUME Push PROVE TypeOK'
    <3>1. verdict' \in {"none", "green", "red"} /\ UNCHANGED <<yaml, md, tracked, vouched>>
      BY <2>9 DEF Push
    <3>2. QED BY <3>1
  <2>10. ASSUME UNCHANGED vars PROVE TypeOK'
    BY <2>10 DEF vars
  <2>11. ASSUME Track \/ Untrack PROVE TypeOK'
    <3>1. tracked' \in BOOLEAN /\ verdict' = "none" /\ UNCHANGED <<yaml, md, vouched>>
      BY <2>11 DEF Track, Untrack
    <3>2. QED BY <3>1
  <2>12. QED
    BY <2>1, <2>2, <2>3, <2>4, <2>7, <2>8, <2>9, <2>10, <2>11 DEF Next
<1>3. QED
  BY <1>1, <1>2, PTL DEF Spec

(* What is rendered from a valid base is the whole base: there is a        *)
(* section for every kind.                                                 *)
LEMMA ValidIsListed ==
    ASSUME NEW claims \in Seq(Claims), Valid(claims)
    PROVE  /\ Elements(Render(claims)) = Elements(claims)
           /\ Len(Render(claims)) = Len(claims)
           /\ Render(claims) \in Seq(Claims)
<1>1. Listed(claims) = DOMAIN claims
  <2>1. \A i \in DOMAIN claims : claims[i].kind \in Kinds
    BY DEF Valid, Elements
  <2>2. Elements(Order) = Kinds
    BY Sections
  <2>3. QED BY <2>1, <2>2 DEF Listed
<1>2. Lists(Render(claims), claims, DOMAIN claims)
  BY <1>1, RenderLists
<1>3. Cardinality(DOMAIN claims) = Len(claims)
  <2>1. DOMAIN claims = 1..Len(claims) /\ Len(claims) \in Nat
    OBVIOUS
  <2>2. QED BY <2>1, FS_Interval
<1>4. QED BY <1>2, <1>3 DEF Lists, Elements

(* A claims.md that is in a green push is the record, all of it and        *)
(* nothing else: each claim of claims.yaml once, whatever its kind, and    *)
(* nothing that was written by hand or left from an earlier rendering.     *)
THEOREM GreenPublishesAll == Spec => []GreenIsComplete
<1>1. TypeOK /\ IInv => GreenIsComplete
  <2> SUFFICES ASSUME TypeOK, IInv, verdict = "green", tracked
               PROVE  /\ ~md.byHand
                      /\ Elements(md.lists) = Elements(yaml)
                      /\ Len(md.lists) = Len(yaml)
    BY DEF GreenIsComplete
  <2>1. Valid(yaml) /\ md = Rendered(yaml) /\ yaml \in Seq(Claims)
    BY DEF IInv, UpToDate, InSync, TypeOK
  <2>2. md.lists = Render(yaml) /\ md.byHand = FALSE
    BY <2>1 DEF Rendered
  <2>3. QED BY <2>1, <2>2, ValidIsListed
<1>2. QED
  BY <1>1, Invariance, TypeCorrect, PTL

(* A list of as many claims as a base of different ids, and of the same    *)
(* claims, has each id once.                                               *)
LEMMA EachIdOnce ==
    ASSUME NEW base \in Seq(Claims), NEW list \in Seq(Claims),
           \A i, j \in DOMAIN base : base[i].id = base[j].id => i = j,
           Elements(list) = Elements(base), Len(list) = Len(base)
    PROVE  \A i, j \in DOMAIN list : list[i].id = list[j].id => i = j
<1> DEFINE n == Len(base)
           E == Elements(base)
<1>1. /\ n \in Nat /\ Len(list) = n /\ DOMAIN base = 1..n /\ DOMAIN list = 1..n
      /\ base = [i \in 1..n |-> base[i]] /\ list = [i \in 1..n |-> list[i]]
  OBVIOUS
<1>2. IsFiniteSet(1..n) /\ Cardinality(1..n) = n
  <2> HIDE DEF n
  <2>1. QED BY <1>1, FS_Interval
<1>3. /\ \A i \in 1..n : base[i] \in E /\ list[i] \in E
      /\ \A c \in E : (\E i \in 1..n : base[i] = c) /\ (\E i \in 1..n : list[i] = c)
  <2> HIDE DEF n
  <2>1. E = {base[i] : i \in 1..n} /\ E = {list[i] : i \in 1..n}
    BY <1>1 DEF Elements
  <2> HIDE DEF E
  <2>2. QED BY <2>1
<1> HIDE DEF n, E
<1>4. base \in [1..n -> E] /\ list \in [1..n -> E]
  BY <1>1, <1>3
<1>5. base \in Surjection(1..n, E) /\ list \in Surjection(1..n, E)
  BY <1>3, <1>4 DEF Surjection
<1>6. base \in Injection(1..n, E)
  BY <1>1, <1>4 DEF Injection, IsInjective
<1>7. Cardinality(E) = Cardinality(1..n)
  BY <1>2, <1>5, <1>6, FS_Surjection
<1>8. list \in Injection(1..n, E)
  BY <1>2, <1>5, <1>7, FS_SurjSameCardinalityImpliesInj
<1>9. ASSUME NEW i \in 1..n, NEW j \in 1..n, list[i].id = list[j].id PROVE i = j
  <2>1. PICK k \in 1..n : base[k] = list[i]
    BY <1>3
  <2>2. PICK l \in 1..n : base[l] = list[j]
    BY <1>3
  <2>3. k = l
    BY <1>1, <1>9, <2>1, <2>2
  <2>4. QED BY <1>8, <2>1, <2>2, <2>3 DEF Injection, IsInjective
<1>10. QED BY <1>1, <1>9

(* ... and a reader of it can follow every citation, to one claim.         *)
THEOREM GreenCitationsResolve == Spec => []GreenResolves
<1>1. TypeOK /\ IInv => GreenResolves
  <2> SUFFICES ASSUME TypeOK, IInv, verdict = "green", tracked,
                      NEW c \in Elements(md.lists), NEW id \in c.cites
               PROVE  Cardinality({i \in DOMAIN md.lists : md.lists[i].id = id}) = 1
    BY DEF GreenResolves
  <2> DEFINE list == md.lists
  <2>1. Valid(yaml) /\ md = Rendered(yaml) /\ yaml \in Seq(Claims)
    BY DEF IInv, UpToDate, InSync, TypeOK
  <2>2. list = Render(yaml)
    BY <2>1 DEF Rendered
  <2> HIDE DEF list
  <2>3. /\ list \in Seq(Claims) /\ Elements(list) = Elements(yaml)
        /\ Len(list) = Len(yaml)
    BY <2>1, <2>2, ValidIsListed
  <2>4. \A i, j \in DOMAIN list : list[i].id = list[j].id => i = j
    <3>1. \A i, j \in DOMAIN yaml : yaml[i].id = yaml[j].id => i = j
      BY <2>1 DEF Valid
    <3>2. QED BY <2>1, <2>3, <3>1, EachIdOnce
  <2>5. id \in Ids(yaml)
    <3>1. c \in Elements(yaml)
      BY <2>3 DEF list
    <3>2. QED BY <2>1, <3>1 DEF Valid
  <2>6. PICK i \in DOMAIN list : list[i].id = id
    BY <2>3, <2>5 DEF Ids, Elements
  <2>7. {j \in DOMAIN list : list[j].id = id} = {i}
    BY <2>4, <2>6
  <2>8. Cardinality({i}) = 1
    BY FS_Singleton
  <2>9. QED BY <2>7, <2>8 DEF list
<1>2. QED
  BY <1>1, Invariance, TypeCorrect, PTL
================================================================================
