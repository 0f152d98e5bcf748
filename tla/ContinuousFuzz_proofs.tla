------------------------- MODULE ContinuousFuzz_proofs -------------------------
(***************************************************************************)
(* What a run knows of the entry it restored, step by step, is an          *)
(* invariant, and from it follow the properties of the cache, of the gate  *)
(* and of the time limit, for any inputs, coverage, faults and versions.   *)
(***************************************************************************)
EXTENDS ContinuousFuzz, FiniteSetTheorems, TLAPS

Entry == [run : Runs, corpus : SUBSET Inputs, from : Nat]
WorkPCs == {"merge", "swap", "gate", "save"}

(* What the run with restored index h of the cache c set out from. *)
Base(c, h) == Seeded(IF h = 0 THEN {} ELSE c[h].corpus)

(* What holds of one run: of its pc p, its version v, its index h, its     *)
(* corpus C, its corpus_min M, its flag k, its artifacts A, the death d of *)
(* its campaign and the minutes t it has lost.  A base that fails was told *)
(* by an artifact, or the campaign died; a hang that was met has taken its *)
(* time, and before the merge no other has.                                *)
RunOK(c, p, v, h, C, M, k, A, d, t) ==
    /\ h \in 0..Len(c)
    /\ t \in Nat /\ t < JobLimit
    /\ p \notin WorkPCs => ~k /\ t = 0
    /\ p = "fuzz" => C = IF h = 0 THEN {} ELSE c[h].corpus
    /\ p \in {"merge", "swap"} => Base(c, h) \subseteq C
    /\ p = "merge" => Hanging(v, C) \subseteq Base(c, h) /\ ~k
    /\ p \in WorkPCs => C # {} /\ (Crashing(v, Base(c, h)) # {} => A # {} \/ d)
    /\ p \in WorkPCs => /\ Hanging(v, A) # {} => UnitTimeout <= t
                        /\ Hanging(v, A) = {} /\ Hanging(v, Base(c, h)) = {} => t = 0
    /\ p = "swap" => k \/ Covered(Mergeable(v, C)) \subseteq Covered(M)
    /\ p \in {"gate", "save"} => k \/ Covered(Mergeable(v, Base(c, h))) \subseteq Covered(C)
    /\ p = "save" => /\ \A i \in A : Fault[v][i] # "real"
                     /\ Hanging(v, A) = {}

Here(r) == RunOK(cache, pc[r], installed[r], restored[r], corpus[r], corpusMin[r], cut[r],
                 artifacts[r], died[r], spent[r])

RunsOK == \A r \in Runs : Here(r)

IInv == TypeOK /\ NeverSavesEmpty /\ RunsOK

--------------------------------------------------------------------------------
(* Lemmas about the operators. *)

(* More inputs cover more. *)
LEMMA CoversMore ==
    ASSUME NEW S, NEW T, S \subseteq T
    PROVE  Covered(S) \subseteq Covered(T)
  BY DEF Covered

(* Appending an entry to the cache changes nothing for a run. *)
LEMMA AppendKeeps ==
    ASSUME NEW c \in Seq(Entry), NEW e \in Entry
    PROVE  /\ Append(c, e) \in Seq(Entry)
           /\ Len(Append(c, e)) = Len(c) + 1
           /\ Len(c) \in Nat
           /\ DOMAIN c = 1..Len(c) /\ DOMAIN Append(c, e) = 1..(Len(c) + 1)
           /\ \A i \in 1..Len(c) : Append(c, e)[i] = c[i] /\ c[i] \in Entry
           /\ Append(c, e)[Len(c) + 1] = e
  OBVIOUS

(* What is said of a run stands when an entry is appended. *)
LEMMA RunKept ==
    ASSUME NEW c \in Seq(Entry), NEW e \in Entry, NEW p, NEW v, NEW h, NEW C, NEW M, NEW k,
           NEW A, NEW d, NEW t, RunOK(c, p, v, h, C, M, k, A, d, t)
    PROVE  RunOK(Append(c, e), p, v, h, C, M, k, A, d, t)
<1>1. h \in 0..Len(c)
  BY DEF RunOK
<1>2. h \in 0..Len(Append(c, e)) /\ (h # 0 => Append(c, e)[h] = c[h])
  BY <1>1, AppendKeeps
<1>3. Base(Append(c, e), h) = Base(c, h)
  BY <1>2 DEF Base
<1>4. QED
  BY <1>2, <1>3 DEF RunOK

(* What the campaign loads is the base of the run, and never empty. *)
LEMMA LoadedIsBase ==
    ASSUME NEW c, NEW h, NEW C, C = IF h = 0 THEN {} ELSE c[h].corpus
    PROVE  Seeded(C) = Base(c, h) /\ Seeded(C) # {}
  BY SeedsAssumption DEF Seeded, Base

(* Inputs that hang cost no time, or a unit timeout at least. *)
LEMMA Minutes ==
    ASSUME NEW v, NEW S \in SUBSET Inputs, NEW met \in SUBSET Hanging(v, S)
    PROVE  /\ Cardinality(met) \in Nat
           /\ met = {} <=> Cardinality(met) = 0
           /\ UnitTimeout * Cardinality(met) \in Nat
           /\ met # {} => UnitTimeout <= UnitTimeout * Cardinality(met)
           /\ met = {} => UnitTimeout * Cardinality(met) = 0
<1>1. met \subseteq Inputs
  BY DEF Hanging
<1>2. IsFiniteSet(met)
  BY <1>1, InputsAssumption, FS_Subset
<1>3. Cardinality(met) \in Nat /\ (met = {} <=> Cardinality(met) = 0)
  BY <1>2, FS_CardinalityType, FS_EmptySet
<1>4. QED
  BY <1>3 DEF UnitTimeout

--------------------------------------------------------------------------------
(* The steps of a job, as facts about the state of one run. *)

(* The campaign: a failing base has left an artifact or the campaign died. *)
LEMMA CampaignStep ==
    ASSUME NEW c, NEW v, NEW h, NEW C, NEW M, NEW k, NEW A, NEW d, NEW t,
           RunOK(c, "fuzz", v, h, C, M, k, A, d, t),
           NEW found, Hanging(v, found) = {},
           NEW left \in SUBSET Inputs, NEW dies,
           Crashing(v, Seeded(C)) # {} => left # {} \/ dies,
           t + UnitTimeout * Cardinality(Hanging(v, left)) < JobLimit
    PROVE  RunOK(c, "merge", v, h, Seeded(C) \cup found, M, k, left, dies,
                 t + UnitTimeout * Cardinality(Hanging(v, left)))
<1>1. C = IF h = 0 THEN {} ELSE c[h].corpus
  BY DEF RunOK
<1>2. Seeded(C) = Base(c, h) /\ Seeded(C) # {}
  BY <1>1, LoadedIsBase
<1>3. /\ UnitTimeout * Cardinality(Hanging(v, left)) \in Nat
      /\ Hanging(v, left) # {} => UnitTimeout <= UnitTimeout * Cardinality(Hanging(v, left))
      /\ Hanging(v, left) = {} => UnitTimeout * Cardinality(Hanging(v, left)) = 0
  BY Minutes
<1>4. Hanging(v, Seeded(C) \cup found) \subseteq Base(c, h)
  BY <1>2 DEF Hanging
<1> DEFINE minutes == UnitTimeout * Cardinality(Hanging(v, left))
<1> HIDE DEF minutes
<1>5. /\ minutes \in Nat
      /\ Hanging(v, left) # {} => UnitTimeout <= minutes
      /\ Hanging(v, left) = {} => minutes = 0
      /\ t + minutes < JobLimit
  BY <1>3 DEF minutes
<1>6. t = 0 /\ h \in 0..Len(c) /\ ~k
  BY DEF RunOK, WorkPCs
<1>7. t + minutes = minutes
  BY <1>5, <1>6
<1>8. RunOK(c, "merge", v, h, Seeded(C) \cup found, M, k, left, dies, minutes)
  BY <1>2, <1>4, <1>5, <1>6, <1>7 DEF RunOK, WorkPCs
<1>9. QED
  BY <1>7, <1>8 DEF minutes

(* A merge covers what may be merged, unless it was cut short; only a base *)
(* that hangs costs it time.                                               *)
LEMMA MergeStep ==
    ASSUME NEW c, NEW v, NEW h, NEW C \in SUBSET Inputs, NEW M, NEW k, NEW A, NEW d, NEW t,
           RunOK(c, "merge", v, h, C, M, k, A, d, t),
           NEW part, NEW short \in BOOLEAN,
           short \/ part \in Merged(v, C),
           NEW met \in SUBSET Hanging(v, C),
           t + UnitTimeout * Cardinality(met) < JobLimit
    PROVE  RunOK(c, "swap", v, h, C, part, short, A, d, t + UnitTimeout * Cardinality(met))
<1>1. short \/ Covered(Mergeable(v, C)) \subseteq Covered(part)
  BY DEF Merged
<1> DEFINE minutes == UnitTimeout * Cardinality(met)
<1>2. minutes \in Nat /\ (met = {} => minutes = 0)
  BY Minutes
<1>3. t \in Nat /\ t + minutes < JobLimit /\ Hanging(v, C) \subseteq Base(c, h)
  BY DEF RunOK
<1>4. Hanging(v, Base(c, h)) = {} => met = {}
  BY <1>3 DEF Hanging
<1> HIDE DEF minutes
<1>5. /\ t + minutes \in Nat /\ t + minutes < JobLimit
      /\ t <= t + minutes
      /\ Hanging(v, Base(c, h)) = {} => t + minutes = t
  BY <1>2, <1>3, <1>4
<1>6. /\ Hanging(v, A) # {} => UnitTimeout <= t
      /\ Hanging(v, A) = {} /\ Hanging(v, Base(c, h)) = {} => t = 0
  BY DEF RunOK, WorkPCs
<1>7. /\ Hanging(v, A) # {} => UnitTimeout <= t + minutes
      /\ Hanging(v, A) = {} /\ Hanging(v, Base(c, h)) = {} => t + minutes = 0
  BY <1>2, <1>3, <1>5, <1>6 DEF UnitTimeout
<1>8. RunOK(c, "swap", v, h, C, part, short, A, d, t + minutes)
  BY <1>1, <1>5, <1>7 DEF RunOK, WorkPCs
<1>9. QED
  BY <1>8 DEF minutes

(* The corpus after the swap still covers the base: either the merge did,  *)
(* or nothing was swapped.                                                 *)
LEMMA SwapStep ==
    ASSUME NEW c, NEW v, NEW h, NEW C, NEW M, NEW k, NEW A, NEW d, NEW t,
           RunOK(c, "swap", v, h, C, M, k, A, d, t)
    PROVE  /\ M # {} => RunOK(c, "gate", v, h, M, {}, k, A, d, t)
           /\ RunOK(c, "gate", v, h, C, M, k, A, d, t)
<1>1. Base(c, h) \subseteq C
  BY DEF RunOK
<1>2. Mergeable(v, Base(c, h)) \subseteq Mergeable(v, C) /\ Mergeable(v, C) \subseteq C
  BY <1>1 DEF Mergeable
<1>3. /\ Covered(Mergeable(v, Base(c, h))) \subseteq Covered(Mergeable(v, C))
      /\ Covered(Mergeable(v, C)) \subseteq Covered(C)
  BY <1>2, CoversMore
<1>4. k \/ Covered(Mergeable(v, C)) \subseteq Covered(M)
  BY DEF RunOK
<1>5. QED
  BY <1>3, <1>4 DEF RunOK, WorkPCs

(* Past the gate, nothing the campaign met is a real crash that is sure to *)
(* strike, nor a hang: meeting it and replaying it take more time than     *)
(* either job has.                                                         *)
LEMMA GateStep ==
    ASSUME NEW c, NEW v, NEW h, NEW C, NEW M, NEW k, NEW A \in SUBSET Inputs, NEW d, NEW t,
           RunOK(c, "gate", v, h, C, M, k, A, d, t),
           NEW met, met = (IF Job = "gguf" THEN Hanging(v, A) ELSE {}),
           t + UnitTimeout * Cardinality(met) < JobLimit,
           \A i \in A : Fault[v][i] # "real"
    PROVE  RunOK(c, "save", v, h, C, M, k, A, d, t + UnitTimeout * Cardinality(met))
<1> DEFINE minutes == UnitTimeout * Cardinality(met)
<1>1. minutes \in Nat /\ (met # {} => UnitTimeout <= minutes) /\ (met = {} => minutes = 0)
  BY Minutes
<1>2. t \in Nat /\ t + minutes < JobLimit /\ (Hanging(v, A) # {} => UnitTimeout <= t)
  BY DEF RunOK, WorkPCs
<1> HIDE DEF minutes
<1>3. Hanging(v, A) = {}
  <2>1. CASE Job = "gguf"
    BY <1>1, <1>2, <2>1 DEF UnitTimeout, JobLimit
  <2>2. CASE Job = "config"
    BY <1>1, <1>2, <2>2 DEF UnitTimeout, JobLimit
  <2>3. QED
    BY <2>1, <2>2, JobAssumption
<1>4. met = {} /\ t + minutes = t
  BY <1>1, <1>2, <1>3
<1>5. RunOK(c, "save", v, h, C, M, k, A, d, t)
  BY <1>3 DEF RunOK, WorkPCs
<1>6. QED
  BY <1>4, <1>5 DEF minutes

(* A run that is not at work is asked for little. *)
LEMMA AtRest ==
    ASSUME NEW c, NEW p, NEW v, NEW h \in 0..Len(c), NEW C, NEW M, NEW k, NEW A, NEW d, NEW t,
           p \in {"idle", "restore", "green", "red"}, ~k, t = 0
    PROVE  RunOK(c, p, v, h, C, M, k, A, d, t)
  BY JobAssumption DEF RunOK, WorkPCs, JobLimit

--------------------------------------------------------------------------------
(* Types. *)

(* The entry a run restores is one of the cache. *)
LEMMA HitIsEntry ==
    ASSUME TypeOK, NEW r \in Runs
    PROVE  /\ Hit(r) \in 0..Len(cache)
           /\ Hit(r) # 0 => Hit(r) \in DOMAIN cache /\ cache[Hit(r)] \in Entry
<1>1. cache \in Seq(Entry) /\ DOMAIN cache = 1..Len(cache) /\ Len(cache) \in Nat
  BY DEF TypeOK, Entry
<1>2. CASE EntriesOf(r) # {}
  <2>1. Hit(r) \in EntriesOf(r)
    BY <1>2 DEF Hit
  <2>2. QED
    BY <1>1, <2>1 DEF EntriesOf
<1>3. CASE EntriesOf(r) = {}
  BY <1>1, <1>3 DEF Hit
<1>4. QED
  BY <1>2, <1>3

(* What a save does to the cache. *)
Saved(r) == [run |-> r, corpus |-> corpus[r], from |-> restored[r]]

(* A save appends one entry, or none if its key is taken. *)
LEMMA SavedIsEntry ==
    ASSUME TypeOK, NEW r \in Runs, Save(r)
    PROVE  /\ cache \in Seq(Entry) /\ cache' \in Seq(Entry) /\ Saved(r) \in Entry
           /\ \/ EntriesOf(r) = {} /\ cache' = Append(cache, Saved(r))
              \/ cache' = cache
<1>1. cache \in Seq(Entry) /\ Saved(r) \in Entry
  BY DEF TypeOK, Entry, Saved
<1>2. \/ EntriesOf(r) = {} /\ cache' = Append(cache, Saved(r))
      \/ cache' = cache
  BY DEF Save, Saved
<1>3. QED
  BY <1>1, <1>2, AppendKeeps

(* Time that is lost stays within the limit. *)
LEMMA LosesTyped ==
    ASSUME TypeOK, NEW r \in Runs, NEW v, NEW S \in SUBSET Inputs,
           NEW met \in SUBSET Hanging(v, S), Loses(r, met)
    PROVE  /\ spent' \in [Runs -> 0..JobLimit]
           /\ spent' = [spent EXCEPT ![r] = spent[r] + UnitTimeout * Cardinality(met)]
           /\ spent[r] + UnitTimeout * Cardinality(met) < JobLimit
<1> DEFINE minutes == UnitTimeout * Cardinality(met)
<1>1. minutes \in Nat
  BY Minutes
<1>2. spent[r] + minutes < JobLimit /\ spent' = [spent EXCEPT ![r] = spent[r] + minutes]
  BY DEF Loses
<1>3. spent \in [Runs -> 0..JobLimit] /\ JobLimit \in Nat
  BY JobAssumption DEF TypeOK, JobLimit
<1> HIDE DEF minutes
<1>4. spent' \in [Runs -> 0..JobLimit]
  BY <1>1, <1>2, <1>3
<1>5. QED
  BY <1>2, <1>4 DEF minutes

(* What a campaign leaves and appends is of its types. *)
LEMMA CampaignTyped ==
    ASSUME TypeOK, NEW r \in Runs, NEW left \in SUBSET Inputs, Leaves(r, left)
    PROVE  /\ artifacts' = [artifacts EXCEPT ![r] = left]
           /\ pc' = [pc EXCEPT ![r] = "merge"]
           /\ spent' \in [Runs -> 0..JobLimit]
           /\ spent' = [spent EXCEPT ![r] = spent[r]
                          + UnitTimeout * Cardinality(Hanging(installed[r], left))]
           /\ spent[r] + UnitTimeout * Cardinality(Hanging(installed[r], left)) < JobLimit
           /\ UNCHANGED <<cache, version, installed, restored, corpusMin, cut, reruns>>
<1>1. Loses(r, Hanging(installed[r], left))
  BY DEF Leaves
<1>2. QED
  BY <1>1, LosesTyped DEF Leaves

(* Every campaign leaves some artifacts, and its corpus is what it loaded  *)
(* and appended, none of which hangs.                                      *)
LEMMA CampaignOf ==
    ASSUME TypeOK, NEW r \in Runs,
           CampaignStopsOnStored(r) \/ CampaignRuns(r) \/ CampaignDies(r)
    PROVE  /\ pc[r] = "fuzz"
           /\ \E found \in SUBSET Inputs :
                 /\ Hanging(installed[r], found) = {}
                 /\ corpus' = [corpus EXCEPT ![r] = Seeded(corpus[r]) \cup found]
           /\ \E left \in SUBSET Inputs, dies \in BOOLEAN :
                 /\ Leaves(r, left)
                 /\ died' = [died EXCEPT ![r] = dies]
                 /\ Crashing(installed[r], Seeded(corpus[r])) # {} =>
                       left # {} \/ dies
<1> DEFINE loaded == Seeded(corpus[r])
<1>1. loaded \in SUBSET Inputs
  BY SeedsAssumption DEF TypeOK, Seeded
<1>2. died' = died => died' = [died EXCEPT ![r] = died[r]] /\ died[r] \in BOOLEAN
  BY DEF TypeOK
<1>3. ASSUME Appends(r, loaded)
      PROVE  \E found \in SUBSET Inputs :
                 /\ Hanging(installed[r], found) = {}
                 /\ corpus' = [corpus EXCEPT ![r] = loaded \cup found]
  BY <1>3 DEF Appends, Hanging, Crashing, Striking, Clean, Elusive
<1>4. CASE CampaignStopsOnStored(r)
  <2>1. PICK c \in Striking(installed[r], loaded) : Leaves(r, {c})
    BY <1>4 DEF CampaignStopsOnStored
  <2>2. {c} \in SUBSET Inputs /\ {c} # {}
    BY <1>1 DEF Striking
  <2>3. corpus' = [corpus EXCEPT ![r] = loaded \cup {}] /\ Hanging(installed[r], {}) = {}
    BY <1>4 DEF CampaignStopsOnStored, Hanging
  <2>4. QED
    BY <1>2, <1>4, <2>1, <2>2, <2>3 DEF CampaignStopsOnStored
<1>5. CASE CampaignRuns(r)
  <2>1. PICK left \in {{}} \cup {{c} : c \in Striking(installed[r], Inputs)} : Leaves(r, left)
    BY <1>5 DEF CampaignRuns
  <2>2. left \in SUBSET Inputs
    BY DEF Striking
  <2>3. QED
    BY <1>2, <1>3, <1>5, <2>1, <2>2 DEF CampaignRuns
<1>6. CASE CampaignDies(r)
  <2>1. {} \in SUBSET Inputs /\ TRUE \in BOOLEAN
    OBVIOUS
  <2>2. QED
    BY <1>3, <1>6, <2>1 DEF CampaignDies
<1>7. QED
  BY <1>4, <1>5, <1>6

(* The variables stay in their types. *)
THEOREM TypeInvariance == Spec => []TypeOK
<1>1. Init => TypeOK
  <2>1. JobLimit \in Nat
    BY JobAssumption DEF JobLimit
  <2>2. QED
    BY <2>1, FaultAssumption, BoundsAssumption DEF Init, TypeOK, PCs
<1>2. TypeOK /\ [Next]_vars => TypeOK'
  <2> SUFFICES ASSUME TypeOK, [Next]_vars PROVE TypeOK'
    OBVIOUS
  <2>0. 0 \in 0..JobLimit
    BY JobAssumption DEF JobLimit
  <2> USE FaultAssumption, BoundsAssumption DEF TypeOK, PCs
  <2>1. ASSUME UpstreamReleases PROVE TypeOK'
    BY <2>1 DEF UpstreamReleases, work
  <2>2. ASSUME NEW r \in Runs, Start(r) PROVE TypeOK'
    BY <2>2 DEF Start, Begin, work
  <2>3. ASSUME NEW r \in Runs, Rerun(r) PROVE TypeOK'
    <3>1. reruns' \in 0..MaxReruns
      BY <2>3 DEF Rerun
    <3>2. Begin(r)
      BY <2>3 DEF Rerun
    <3>3. QED
      BY <3>1, <3>2 DEF Begin, work
  <2>4. ASSUME NEW r \in Runs, RestoreCache(r) PROVE TypeOK'
    <3>a. /\ Hit(r) \in 0..Len(cache) /\ Len(cache) \in Nat
          /\ Hit(r) # 0 => cache[Hit(r)] \in Entry
      BY HitIsEntry
    <3>1. Hit(r) \in Nat /\ Stored(Hit(r)) \in SUBSET Inputs
      BY <3>a DEF Entry, Stored
    <3>2. QED
      BY <2>4, <3>1 DEF RestoreCache
  <2>5. ASSUME NEW r \in Runs,
               CampaignStopsOnStored(r) \/ CampaignRuns(r) \/ CampaignDies(r)
        PROVE  TypeOK'
    <3>1. PICK found \in SUBSET Inputs :
                  corpus' = [corpus EXCEPT ![r] = Seeded(corpus[r]) \cup found]
      BY <2>5, CampaignOf
    <3>2. PICK left \in SUBSET Inputs, dies \in BOOLEAN :
                  Leaves(r, left) /\ died' = [died EXCEPT ![r] = dies]
      BY <2>5, CampaignOf
    <3>3. corpus' \in [Runs -> SUBSET Inputs]
      BY <3>1, SeedsAssumption DEF Seeded
    <3>4. /\ artifacts' = [artifacts EXCEPT ![r] = left] /\ pc' = [pc EXCEPT ![r] = "merge"]
          /\ spent' \in [Runs -> 0..JobLimit]
          /\ UNCHANGED <<cache, version, installed, restored, corpusMin, cut, reruns>>
      BY <3>2, CampaignTyped
    <3>5. died' \in [Runs -> BOOLEAN]
      BY <3>2
    <3>6. artifacts' \in [Runs -> SUBSET Inputs] /\ pc' \in [Runs -> PCs]
      BY <3>4
    <3>7. QED
      BY <3>3, <3>4, <3>5, <3>6
  <2>6. ASSUME NEW r \in Runs, Merge(r) PROVE TypeOK'
    <3>1. PICK short \in BOOLEAN, met \in SUBSET Hanging(installed[r], corpus[r]),
               part \in SUBSET (Mergeable(installed[r], corpus[r])
                                  \cup Elusive(installed[r], corpus[r])) :
                  /\ corpusMin' = [corpusMin EXCEPT ![r] = part]
                  /\ cut' = [cut EXCEPT ![r] = short]
                  /\ Loses(r, met)
      BY <2>6 DEF Merge
    <3>2. part \in SUBSET Inputs
      BY DEF Mergeable, Elusive
    <3>3. spent' \in [Runs -> 0..JobLimit]
      BY <3>1, LosesTyped
    <3>4. QED
      BY <2>6, <3>1, <3>2, <3>3 DEF Merge
  <2>8. ASSUME NEW r \in Runs, Swap(r) PROVE TypeOK'
    BY <2>8 DEF Swap
  <2>9. ASSUME NEW r \in Runs, GatePasses(r) PROVE TypeOK'
    <3>1. Loses(r, Replayed(r)) /\ Replayed(r) \in SUBSET Hanging(installed[r], artifacts[r])
      BY <2>9 DEF GatePasses, Replayed
    <3>2. spent' \in [Runs -> 0..JobLimit]
      BY <3>1, LosesTyped
    <3>3. QED
      BY <2>9, <3>2 DEF GatePasses
  <2>10. ASSUME NEW r \in Runs, GateFails(r) PROVE TypeOK'
    BY <2>0, <2>10 DEF GateFails, End
  <2>11. ASSUME NEW r \in Runs, Save(r) PROVE TypeOK'
    <3>1. cache' \in Seq([run : Runs, corpus : SUBSET Inputs, from : Nat])
      BY <2>11, SavedIsEntry DEF Entry
    <3>2. End(r, "green")
      BY <2>11 DEF Save
    <3>3. QED
      BY <2>0, <3>1, <3>2 DEF End
  <2>12. ASSUME NEW r \in Runs, JobDies(r) PROVE TypeOK'
    BY <2>0, <2>12 DEF JobDies, End
  <2>13. ASSUME UNCHANGED vars PROVE TypeOK'
    BY <2>13 DEF vars, work
  <2>14. QED
    BY <2>1, <2>2, <2>3, <2>4, <2>5, <2>6, <2>8, <2>9, <2>10, <2>11, <2>12, <2>13 DEF Next
<1>3. QED
  BY <1>1, <1>2, PTL DEF Spec

--------------------------------------------------------------------------------
(* The invariant. *)

(* A step that leaves the cache alone keeps what is said of it. *)
LEMMA CacheKept ==
    ASSUME NeverSavesEmpty, cache' = cache
    PROVE  NeverSavesEmpty'
  BY DEF NeverSavesEmpty

(* What a step of run r leaves of the others. *)
OthersKept(r) ==
    \A q \in Runs \ {r} :
        /\ pc'[q] = pc[q] /\ installed'[q] = installed[q] /\ restored'[q] = restored[q]
        /\ corpus'[q] = corpus[q] /\ corpusMin'[q] = corpusMin[q] /\ cut'[q] = cut[q]
        /\ artifacts'[q] = artifacts[q] /\ died'[q] = died[q] /\ spent'[q] = spent[q]

(* A step of one run, which may append to the cache, keeps what is said of all. *)
LEMMA OneRunMoves ==
    ASSUME RunsOK, NEW r \in Runs, OthersKept(r), cache \in Seq(Entry),
           cache' = cache \/ \E e \in Entry : cache' = Append(cache, e),
           Here(r)'
    PROVE  RunsOK'
<1> SUFFICES ASSUME NEW q \in Runs, q # r
             PROVE  Here(q)'
  BY DEF RunsOK
<1>1. RunOK(cache, pc[q], installed[q], restored[q], corpus[q], corpusMin[q], cut[q],
            artifacts[q], died[q], spent[q])
  BY DEF RunsOK, Here
<1>2. RunOK(cache', pc[q], installed[q], restored[q], corpus[q], corpusMin[q], cut[q],
            artifacts[q], died[q], spent[q])
  BY <1>1, RunKept
<1>3. QED
  BY <1>2 DEF OthersKept, Here

(* A run that ends leaves nothing to be said of it. *)
LEMMA EndsClean ==
    ASSUME TypeOK, RunsOK, NEW r \in Runs, NEW colour \in {"green", "red"}, End(r, colour),
           cache' = cache \/ \E e \in Entry : cache' = Append(cache, e)
    PROVE  RunsOK'
<1>1. OthersKept(r)
  BY DEF End, TypeOK, OthersKept
<1>2. cache \in Seq(Entry)
  BY DEF TypeOK, Entry
<1>3. pc'[r] = colour /\ restored'[r] = 0 /\ ~cut'[r] /\ spent'[r] = 0
  BY DEF End, TypeOK
<1>4. 0 \in 0..Len(cache')
  BY <1>2, AppendKeeps
<1>5. RunOK(cache', pc'[r], installed'[r], restored'[r], corpus'[r], corpusMin'[r], cut'[r],
            artifacts'[r], died'[r], spent'[r])
  BY <1>3, <1>4, AtRest
<1>6. QED
  BY <1>1, <1>2, <1>5, OneRunMoves DEF Here

(* What a save appends is not empty. *)
LEMMA SavesWell ==
    ASSUME IInv, NEW r \in Runs, Save(r)
    PROVE  NeverSavesEmpty'
<1> USE DEF IInv
<1>1. CASE cache' = cache
  BY <1>1, CacheKept
<1>2. CASE cache' = Append(cache, Saved(r))
  <2>1. /\ cache \in Seq(Entry) /\ Saved(r) \in Entry
    BY SavedIsEntry
  <2>2. /\ DOMAIN cache = 1..Len(cache) /\ DOMAIN cache' = 1..(Len(cache) + 1)
        /\ \A e \in 1..Len(cache) : cache'[e] = cache[e]
        /\ cache'[Len(cache) + 1] = Saved(r) /\ Len(cache) \in Nat
    BY <1>2, <2>1, AppendKeeps
  <2>3. Saved(r).corpus # {}
    BY DEF Save, Saved, RunsOK, Here, RunOK, WorkPCs
  <2>4. QED
    BY <2>2, <2>3 DEF NeverSavesEmpty
<1>3. QED
  BY <1>1, <1>2, SavedIsEntry

(* The invariant holds in every state. *)
THEOREM Invariance == Spec => []IInv
<1>1. Init => IInv
  <2> SUFFICES ASSUME Init PROVE IInv
    OBVIOUS
  <2>1. TypeOK
    <3>1. JobLimit \in Nat
      BY JobAssumption DEF JobLimit
    <3>2. QED
      BY <3>1, FaultAssumption, BoundsAssumption DEF Init, TypeOK, PCs
  <2>2. cache = <<>> /\ Len(cache) = 0 /\ DOMAIN cache = {}
    BY DEF Init
  <2>3. RunsOK
    <3>1. \A r \in Runs : pc[r] = "idle" /\ restored[r] = 0 /\ ~cut[r] /\ spent[r] = 0
      BY DEF Init
    <3>2. 0 \in 0..Len(cache)
      BY <2>2
    <3>3. SUFFICES ASSUME NEW r \in Runs PROVE Here(r)
      BY DEF RunsOK
    <3>4. QED
      BY <3>1, <3>2, AtRest DEF Here
  <2>4. QED
    BY <2>1, <2>2, <2>3 DEF IInv, NeverSavesEmpty
<1>2. TypeOK /\ TypeOK' /\ IInv /\ [Next]_vars => IInv'
  <2> SUFFICES ASSUME TypeOK, TypeOK', IInv, [Next]_vars PROVE IInv'
    OBVIOUS
  <2>0. cache \in Seq(Entry) /\ NeverSavesEmpty /\ RunsOK
    BY DEF TypeOK, Entry, IInv
  <2>1. ASSUME NEW r \in Runs, Here(r) => Here(r)', OthersKept(r), cache' = cache
        PROVE  IInv'
    BY <2>0, <2>1, CacheKept, OneRunMoves DEF IInv, RunsOK
  <2>2. ASSUME UpstreamReleases PROVE IInv'
    <3>1. UNCHANGED <<cache, pc, installed, restored, work>>
      BY <2>2 DEF UpstreamReleases
    <3>2. RunsOK'
      BY <2>0, <3>1 DEF RunsOK, Here, work
    <3>3. QED
      BY <2>0, <3>1, <3>2, CacheKept DEF IInv
  <2>3. ASSUME NEW r \in Runs, Start(r) \/ Rerun(r) PROVE IInv'
    <3>1. Begin(r) /\ pc[r] \notin WorkPCs
      BY <2>3 DEF Start, Rerun, WorkPCs
    <3>2. cache' = cache /\ OthersKept(r)
      BY <3>1 DEF Begin, work, TypeOK, OthersKept
    <3>3. ASSUME Here(r) PROVE Here(r)'
      <4>1. /\ restored' = restored /\ pc'[r] = "restore" /\ cut' = cut /\ spent' = spent
        BY <3>1 DEF Begin, work, TypeOK
      <4>2. restored[r] \in 0..Len(cache) /\ ~cut[r] /\ spent[r] = 0
        BY <3>1, <3>3 DEF Here, RunOK
      <4>3. RunOK(cache', pc'[r], installed'[r], restored'[r], corpus'[r], corpusMin'[r],
                  cut'[r], artifacts'[r], died'[r], spent'[r])
        BY <3>2, <4>1, <4>2, AtRest
      <4>4. QED
        BY <4>3 DEF Here
    <3>4. QED
      BY <2>1, <3>2, <3>3
  <2>4. ASSUME NEW r \in Runs, RestoreCache(r) PROVE IInv'
    <3>1. cache' = cache /\ OthersKept(r)
      BY <2>4 DEF RestoreCache, TypeOK, OthersKept
    <3>2. ASSUME Here(r) PROVE Here(r)'
      <4>1. /\ pc[r] = "restore" /\ pc'[r] = "fuzz" /\ restored'[r] = Hit(r)
            /\ cut' = cut /\ spent' = spent
            /\ corpus'[r] = IF Hit(r) = 0 THEN {} ELSE cache[Hit(r)].corpus
        BY <2>4 DEF RestoreCache, TypeOK, Stored
      <4>2. Hit(r) \in 0..Len(cache)
        BY HitIsEntry
      <4>3. ~cut[r] /\ spent[r] = 0 /\ spent[r] \in Nat /\ spent[r] < JobLimit
        BY <3>2, <4>1 DEF Here, RunOK, WorkPCs
      <4>4. QED
        BY <3>1, <4>1, <4>2, <4>3 DEF Here, RunOK, WorkPCs
    <3>3. QED
      BY <2>1, <3>1, <3>2
  <2>5. ASSUME NEW r \in Runs,
               CampaignStopsOnStored(r) \/ CampaignRuns(r) \/ CampaignDies(r)
        PROVE  IInv'
    <3>1. PICK found \in SUBSET Inputs :
                  /\ Hanging(installed[r], found) = {}
                  /\ corpus' = [corpus EXCEPT ![r] = Seeded(corpus[r]) \cup found]
      BY <2>5, CampaignOf
    <3>2. PICK left \in SUBSET Inputs, dies \in BOOLEAN :
                  /\ Leaves(r, left)
                  /\ died' = [died EXCEPT ![r] = dies]
                  /\ Crashing(installed[r], Seeded(corpus[r])) # {} => left # {} \/ dies
      BY <2>5, CampaignOf
    <3> DEFINE minutes == UnitTimeout * Cardinality(Hanging(installed[r], left))
    <3>3. /\ artifacts' = [artifacts EXCEPT ![r] = left]
          /\ pc' = [pc EXCEPT ![r] = "merge"]
          /\ spent' = [spent EXCEPT ![r] = spent[r] + minutes]
          /\ spent[r] + minutes < JobLimit
          /\ UNCHANGED <<cache, version, installed, restored, corpusMin, cut, reruns>>
      BY <3>2, CampaignTyped
    <3>4. pc[r] = "fuzz"
      BY <2>5, CampaignOf
    <3> HIDE DEF minutes
    <3>5. OthersKept(r)
      BY <3>1, <3>2, <3>3 DEF TypeOK, OthersKept
    <3>6. /\ pc'[r] = "merge" /\ artifacts'[r] = left /\ died'[r] = dies
          /\ corpus'[r] = Seeded(corpus[r]) \cup found /\ spent'[r] = spent[r] + minutes
      BY <3>1, <3>2, <3>3 DEF TypeOK
    <3>7. ASSUME Here(r) PROVE Here(r)'
      <4>1. RunOK(cache, "fuzz", installed[r], restored[r], corpus[r], corpusMin[r], cut[r],
                  artifacts[r], died[r], spent[r])
        BY <3>4, <3>7 DEF Here
      <4>2. RunOK(cache, "merge", installed[r], restored[r], Seeded(corpus[r]) \cup found,
                  corpusMin[r], cut[r], left, dies, spent[r] + minutes)
        BY <3>1, <3>2, <3>3, <4>1, CampaignStep DEF minutes
      <4>3. QED
        BY <3>3, <3>6, <4>2 DEF Here
    <3>8. QED
      BY <2>1, <3>3, <3>5, <3>7
  <2>6. ASSUME NEW r \in Runs, Merge(r) PROVE IInv'
    <3>1. PICK short \in BOOLEAN, met \in SUBSET Hanging(installed[r], corpus[r]),
               part \in SUBSET (Mergeable(installed[r], corpus[r])
                                  \cup Elusive(installed[r], corpus[r])) :
                  /\ short \/ (/\ part \in Merged(installed[r], corpus[r])
                                /\ met = Hanging(installed[r], corpus[r]))
                  /\ corpusMin' = [corpusMin EXCEPT ![r] = part]
                  /\ cut' = [cut EXCEPT ![r] = short]
                  /\ Loses(r, met)
      BY <2>6 DEF Merge
    <3> DEFINE minutes == UnitTimeout * Cardinality(met)
    <3>2. corpus[r] \in SUBSET Inputs
      BY DEF TypeOK
    <3>3. /\ spent' = [spent EXCEPT ![r] = spent[r] + minutes]
          /\ spent[r] + minutes < JobLimit
      BY <3>1, <3>2, LosesTyped
    <3>4. /\ pc[r] = "merge" /\ pc' = [pc EXCEPT ![r] = "swap"]
          /\ UNCHANGED <<cache, version, installed, restored, corpus, artifacts, died, reruns>>
      BY <2>6 DEF Merge
    <3> HIDE DEF minutes
    <3>5. OthersKept(r)
      BY <3>1, <3>3, <3>4 DEF TypeOK, OthersKept
    <3>6. /\ pc'[r] = "swap" /\ corpusMin'[r] = part /\ cut'[r] = short
          /\ spent'[r] = spent[r] + minutes
      BY <3>1, <3>3, <3>4 DEF TypeOK
    <3>7. ASSUME Here(r) PROVE Here(r)'
      <4>1. RunOK(cache, "merge", installed[r], restored[r], corpus[r], corpusMin[r], cut[r],
                  artifacts[r], died[r], spent[r])
        BY <3>4, <3>7 DEF Here
      <4>2. RunOK(cache, "swap", installed[r], restored[r], corpus[r], part, short,
                  artifacts[r], died[r], spent[r] + minutes)
        BY <3>1, <3>2, <3>3, <4>1, MergeStep DEF minutes
      <4>3. QED
        BY <3>4, <3>6, <4>2 DEF Here
    <3>8. QED
      BY <2>1, <3>4, <3>5, <3>7
  <2>7. ASSUME NEW r \in Runs, Swap(r) PROVE IInv'
    <3>1. cache' = cache /\ OthersKept(r)
      BY <2>7 DEF Swap, TypeOK, OthersKept
    <3>2. ASSUME Here(r) PROVE Here(r)'
      <4>1. /\ pc[r] = "swap" /\ pc'[r] = "gate" /\ installed' = installed
            /\ restored' = restored /\ cut' = cut /\ artifacts' = artifacts
            /\ died' = died /\ spent' = spent
            /\ \/ corpusMin[r] # {} /\ corpus'[r] = corpusMin[r] /\ corpusMin'[r] = {}
               \/ corpus' = corpus /\ corpusMin' = corpusMin
        BY <2>7 DEF Swap, TypeOK
      <4>2. QED
        BY <3>1, <3>2, <4>1, SwapStep DEF Here
    <3>3. QED
      BY <2>1, <3>1, <3>2
  <2>8. ASSUME NEW r \in Runs, GatePasses(r) PROVE IInv'
    <3> DEFINE minutes == UnitTimeout * Cardinality(Replayed(r))
    <3>1. Loses(r, Replayed(r)) /\ Replayed(r) \in SUBSET Hanging(installed[r], artifacts[r])
      BY <2>8 DEF GatePasses, Replayed
    <3>2. artifacts[r] \in SUBSET Inputs
      BY DEF TypeOK
    <3>3. /\ spent' = [spent EXCEPT ![r] = spent[r] + minutes]
          /\ spent[r] + minutes < JobLimit
      BY <3>1, <3>2, LosesTyped
    <3>4. /\ pc[r] = "gate" /\ pc' = [pc EXCEPT ![r] = "save"]
          /\ UNCHANGED <<cache, version, installed, restored, corpus, corpusMin, cut,
                         artifacts, died, reruns>>
      BY <2>8 DEF GatePasses
    <3>5. \A i \in artifacts[r] : Fault[installed[r]][i] # "real"
      BY <2>8 DEF GatePasses, GateTrips, Triage!Tripped, Reports, Verdicts
    <3> HIDE DEF minutes
    <3>6. OthersKept(r)
      BY <3>3, <3>4 DEF TypeOK, OthersKept
    <3>7. pc'[r] = "save" /\ spent'[r] = spent[r] + minutes
      BY <3>3, <3>4 DEF TypeOK
    <3>8. ASSUME Here(r) PROVE Here(r)'
      <4>1. RunOK(cache, "gate", installed[r], restored[r], corpus[r], corpusMin[r], cut[r],
                  artifacts[r], died[r], spent[r])
        BY <3>4, <3>8 DEF Here
      <4>2. Replayed(r) = IF Job = "gguf" THEN Hanging(installed[r], artifacts[r]) ELSE {}
        BY DEF Replayed
      <4>3. RunOK(cache, "save", installed[r], restored[r], corpus[r], corpusMin[r], cut[r],
                  artifacts[r], died[r], spent[r] + minutes)
        BY <3>2, <3>3, <3>5, <4>1, <4>2, GateStep DEF minutes
      <4>4. QED
        BY <3>4, <3>7, <4>3 DEF Here
    <3>9. QED
      BY <2>1, <3>4, <3>6, <3>8
  <2>9. ASSUME NEW r \in Runs, GateFails(r) PROVE IInv'
    BY <2>0, <2>9, CacheKept, EndsClean DEF GateFails, IInv
  <2>10. ASSUME NEW r \in Runs, Save(r) PROVE IInv'
    <3>1. End(r, "green")
      BY <2>10 DEF Save
    <3>2. RunsOK'
      BY <2>0, <2>10, <3>1, SavedIsEntry, EndsClean
    <3>3. QED
      BY <2>10, <3>2, SavesWell DEF IInv
  <2>11. ASSUME NEW r \in Runs, JobDies(r) PROVE IInv'
    BY <2>0, <2>11, CacheKept, EndsClean DEF JobDies, IInv
  <2>12. ASSUME UNCHANGED vars PROVE IInv'
    <3>1. RunsOK'
      BY <2>0, <2>12 DEF vars, work, RunsOK, Here
    <3>2. QED
      BY <2>0, <2>12, <3>1, CacheKept DEF vars, IInv
  <2>13. QED
    BY <2>2, <2>3, <2>4, <2>5, <2>6, <2>7, <2>8, <2>9, <2>10, <2>11, <2>12 DEF Next
<1>3. IInv => TypeOK
  BY DEF IInv
<1>4. QED
  BY <1>1, <1>2, <1>3, TypeInvariance, PTL DEF Spec

--------------------------------------------------------------------------------
(* What follows from it. *)

(* An empty corpus is never saved (corpus.sh, minimize). *)
THEOREM SavesNoEmpty == Spec => []NeverSavesEmpty
<1>1. IInv => NeverSavesEmpty
  BY DEF IInv
<1>2. QED
  BY <1>1, Invariance, PTL

(* A run of either job whose campaign met a hang never gets as far as      *)
(* saving, and one that saves has lost time in its merge only, to a stored *)
(* input that hangs, behind a campaign that something else had ended.      *)
THEOREM HangIsNeverGreen == Spec => []HangNeverGreen
<1>1. IInv => HangNeverGreen
  <2> SUFFICES ASSUME IInv, NEW r \in Runs, pc[r] = "save"
               PROVE  /\ Hanging(installed[r], artifacts[r]) = {}
                      /\ spent[r] > 0 =>
                           /\ Hanging(installed[r], Seeded(Stored(restored[r]))) # {}
                           /\ artifacts[r] # {} \/ died[r]
    BY DEF HangNeverGreen
  <2>1. RunOK(cache, pc[r], installed[r], restored[r], corpus[r], corpusMin[r], cut[r],
              artifacts[r], died[r], spent[r])
    BY DEF IInv, RunsOK, Here
  <2>2. Base(cache, restored[r]) = Seeded(Stored(restored[r]))
    BY DEF Base, Stored
  <2>3. Hanging(installed[r], Base(cache, restored[r]))
          \subseteq Crashing(installed[r], Base(cache, restored[r]))
    BY DEF Hanging, Crashing, Striking, Clean, Elusive
  <2>4. /\ Hanging(installed[r], artifacts[r]) = {}
        /\ Hanging(installed[r], Base(cache, restored[r])) = {} => spent[r] = 0
        /\ Crashing(installed[r], Base(cache, restored[r])) # {} => artifacts[r] # {} \/ died[r]
    BY <2>1 DEF RunOK, WorkPCs
  <2>5. spent[r] = 0 => ~(spent[r] > 0)
    OBVIOUS
  <2>6. QED
    BY <2>2, <2>3, <2>4, <2>5
<1>2. QED
  BY <1>1, Invariance, PTL

(* A run is green over a real crash that is sure to strike only if its     *)
(* campaign never met it, having been ended by another input, or having    *)
(* died: for every corpus, every version and every timing of the runs.     *)
THEOREM CrashFailsJob == Spec => []GenuineCrashFailsJob
<1>1. IInv => GenuineCrashFailsJob
  <2> SUFFICES ASSUME IInv, NEW r \in Runs, pc[r] = "save"
               PROVE  /\ \A i \in artifacts[r] : Fault[installed[r]][i] # "real"
                      /\ Crashing(installed[r], Seeded(Stored(restored[r]))) # {} =>
                            artifacts[r] # {} \/ died[r]
    BY DEF GenuineCrashFailsJob
  <2>1. RunOK(cache, pc[r], installed[r], restored[r], corpus[r], corpusMin[r], cut[r],
              artifacts[r], died[r], spent[r])
    BY DEF IInv, RunsOK, Here
  <2>2. Base(cache, restored[r]) = Seeded(Stored(restored[r]))
    BY DEF Base, Stored
  <2>3. QED
    BY <2>1, <2>2 DEF RunOK, WorkPCs
<1>2. QED
  BY <1>1, Invariance, PTL

(* Coverage accumulates along a lineage of entries (corpus.sh:4), whatever *)
(* the inputs cover and however they fail from one version to the next.    *)
THEOREM LineageKept == Spec => LineageAccumulates
<1>1. IInv /\ [Next]_vars =>
        [cache' # cache =>
           LET e == cache'[Len(cache')]
               built == Seeded(Stored(e.from))
           IN  \/ cut[e.run]
               \/ Covered(Mergeable(installed[e.run], built)) \subseteq Covered(e.corpus)]_vars
  <2> SUFFICES ASSUME IInv, Next, cache' # cache
               PROVE  LET e == cache'[Len(cache')]
                          built == Seeded(Stored(e.from))
                      IN  \/ cut[e.run]
                          \/ Covered(Mergeable(installed[e.run], built)) \subseteq Covered(e.corpus)
    BY DEF vars
  <2>1. PICK r \in Runs : Save(r)
    BY DEF Next, UpstreamReleases, Start, Rerun, Begin, RestoreCache, CampaignStopsOnStored,
           CampaignRuns, CampaignDies, Leaves, Merge, Swap, GatePasses, GateFails, JobDies
  <2>2. /\ cache \in Seq(Entry) /\ Saved(r) \in Entry
        /\ cache' = Append(cache, Saved(r))
    BY <2>1, SavedIsEntry DEF IInv
  <2>3. cache'[Len(cache')] = Saved(r)
    BY <2>2, AppendKeeps
  <2>4. RunOK(cache, pc[r], installed[r], restored[r], corpus[r], corpusMin[r], cut[r],
              artifacts[r], died[r], spent[r]) /\ pc[r] = "save"
    BY <2>1 DEF IInv, RunsOK, Here, Save
  <2>5. cut[r] \/ Covered(Mergeable(installed[r], Base(cache, restored[r])))
                     \subseteq Covered(corpus[r])
    BY <2>4 DEF RunOK
  <2>6. Saved(r).run = r /\ Saved(r).from = restored[r] /\ Saved(r).corpus = corpus[r]
    BY DEF Saved
  <2>7. QED
    BY <2>3, <2>5, <2>6 DEF Base, Stored
<1>2. QED
  BY <1>1, Invariance, PTL DEF Spec, LineageAccumulates
================================================================================
