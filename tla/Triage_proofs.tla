---------------------------- MODULE Triage_proofs -----------------------------
(***************************************************************************)
(* Proofs about Triage for every set of reports and every number of them:  *)
(* no bucket forgets a report, the gate sees every report, the table is    *)
(* ranked, and a report with a fault line is never passed over.            *)
(***************************************************************************)
EXTENDS Triage, FiniteSetTheorems, TLAPS

(* The signature of a bucket is that of some report that was read. *)
SignaturesFromStream ==
    \A k \in DOMAIN buckets : \E i \in DOMAIN stream :
        /\ Parse(stream[i]) # NoSig
        /\ Key(Parse(stream[i])) = k
        /\ buckets[k].sig = Parse(stream[i])

(* Every report with a signature has a bucket. *)
ReportsBucketed ==
    \A i \in DOMAIN stream : Parse(stream[i]) # NoSig => Key(Parse(stream[i])) \in DOMAIN buckets

IInv == TypeOK /\ SignaturesFromStream /\ ReportsBucketed

(* A key determines the class, so the first signature of a bucket stands   *)
(* for all of its reports when classify is asked.                          *)
LEMMA KeyDeterminesClass ==
    ASSUME NEW s, NEW t, Key(s) = Key(t)
    PROVE  s.class = t.class
BY DEF Key

(* It holds initially. *)
LEMMA InitIInv == Init => IInv
<1> SUFFICES ASSUME Init PROVE IInv
    OBVIOUS
<1>1. TypeOK
  BY DEF Init, TypeOK
<1>2. SignaturesFromStream /\ ReportsBucketed
  BY DEF Init, SignaturesFromStream, ReportsBucketed
<1>3. QED BY <1>1, <1>2 DEF IInv

(* What Append does to the stream, seen by its readers. *)
LEMMA StreamGrows ==
    ASSUME TypeOK, NEW text \in Reports, Reading(text)
    PROVE  /\ stream' \in Seq(Reports)
           /\ DOMAIN stream' = DOMAIN stream \cup {Source}
           /\ Source \notin DOMAIN stream
           /\ \A i \in DOMAIN stream : stream'[i] = stream[i]
           /\ stream'[Source] = text
           /\ Source \in Nat
BY DEF TypeOK, Reading, Source

(* Every step keeps it. *)
LEMMA StepIInv == IInv /\ [Next]_vars => IInv'
<1> SUFFICES ASSUME IInv, [Next]_vars PROVE IInv'
    OBVIOUS
<1> USE DEF IInv
<1>1. ASSUME NEW text \in Reports, Unrecognized(text) PROVE IInv'
  <2>1. Reading(text) /\ Parse(text) = NoSig
    BY <1>1 DEF Unrecognized
  <2>2. UNCHANGED <<buckets, exitCode>> /\ unparsed' = Append(unparsed, Source)
    BY <1>1 DEF Unrecognized, Reading
  <2>3. TypeOK'
    BY <2>1, <2>2, StreamGrows DEF TypeOK
  <2>4. SignaturesFromStream' /\ ReportsBucketed'
    BY <2>1, <2>2, StreamGrows DEF SignaturesFromStream, ReportsBucketed
  <2>6. QED BY <2>3, <2>4
<1>2. ASSUME NEW text \in Reports, NewBucket(text) PROVE IInv'
  <2> DEFINE key == Key(Parse(text))
  <2> DEFINE fresh == [sig |-> Parse(text), count |-> 1, sources |-> <<Source>>]
  <2>1. /\ Reading(text)
        /\ Parse(text) # NoSig
        /\ exitCode = -1 /\ UNCHANGED <<unparsed, exitCode>>
        /\ key \notin DOMAIN buckets
        /\ buckets' = [k \in DOMAIN buckets \cup {key} |-> IF k = key THEN fresh ELSE buckets[k]]
    BY <1>2 DEF NewBucket, Reading
  <2>2. /\ DOMAIN buckets' = DOMAIN buckets \cup {key}
        /\ buckets'[key] = fresh
        /\ \A k \in DOMAIN buckets : buckets'[k] = buckets[k]
    BY <2>1
  <2>3. fresh \in [sig : {Parse(t) : t \in Reports}, count : Nat, sources : Seq(Nat)]
    BY <2>1, StreamGrows
  <2>4. TypeOK'
    BY <2>1, <2>2, <2>3, StreamGrows DEF TypeOK
  <2>5. SignaturesFromStream'
    <3> SUFFICES ASSUME NEW k \in DOMAIN buckets'
                 PROVE  \E i \in DOMAIN stream' : /\ Parse(stream'[i]) # NoSig
                                                  /\ Key(Parse(stream'[i])) = k
                                                  /\ buckets'[k].sig = Parse(stream'[i])
        BY DEF SignaturesFromStream
    <3>1. CASE k = key
      <4>1. Source \in DOMAIN stream' /\ stream'[Source] = text
        BY <2>1, StreamGrows
      <4>2. buckets'[k].sig = Parse(text)
        BY <2>2, <3>1
      <4>3. QED BY <2>1, <3>1, <4>1, <4>2
    <3>2. CASE k # key
      <4>1. PICK i \in DOMAIN stream : /\ Parse(stream[i]) # NoSig
                                       /\ Key(Parse(stream[i])) = k
                                       /\ buckets[k].sig = Parse(stream[i])
        BY <2>2, <3>2 DEF SignaturesFromStream
      <4>2. i \in DOMAIN stream' /\ stream'[i] = stream[i] /\ buckets'[k] = buckets[k]
        BY <2>1, <2>2, <3>2, StreamGrows
      <4>3. QED BY <4>1, <4>2
    <3>3. QED BY <3>1, <3>2
  <2>6. ReportsBucketed'
    BY <2>1, <2>2, StreamGrows DEF ReportsBucketed
  <2>8. QED BY <2>4, <2>5, <2>6
<1>3. ASSUME NEW text \in Reports, SameBucket(text) PROVE IInv'
  <2> DEFINE key == Key(Parse(text))
  <2> DEFINE old == buckets[key]
  <2> DEFINE grown == [sig |-> old.sig, count |-> old.count + 1,
                       sources |-> IF Len(old.sources) < 3
                                   THEN Append(old.sources, Source) ELSE old.sources]
  <2>1. /\ Reading(text)
        /\ Parse(text) # NoSig
        /\ exitCode = -1 /\ UNCHANGED <<unparsed, exitCode>>
        /\ key \in DOMAIN buckets
        /\ buckets' = [buckets EXCEPT ![key] = grown]
    BY <1>3 DEF SameBucket, Reading
  <2>2. /\ DOMAIN buckets' = DOMAIN buckets
        /\ buckets'[key] = grown
        /\ \A k \in DOMAIN buckets : k # key => buckets'[k] = buckets[k]
        /\ \A k \in DOMAIN buckets : buckets'[k].sig = buckets[k].sig
    BY <2>1 DEF TypeOK
  <2>3. grown \in [sig : {Parse(t) : t \in Reports}, count : Nat, sources : Seq(Nat)]
    BY <2>1, StreamGrows DEF TypeOK
  <2>4. TypeOK'
    BY <2>1, <2>2, <2>3, StreamGrows DEF TypeOK
  <2>5. SignaturesFromStream'
    BY <2>1, <2>2, StreamGrows DEF SignaturesFromStream
  <2>6. ReportsBucketed'
    BY <2>1, <2>2, StreamGrows DEF ReportsBucketed
  <2>8. QED BY <2>4, <2>5, <2>6
<1>4. CASE Main
  <2>1. TypeOK'
    BY <1>4 DEF Main, TypeOK
  <2>2. SignaturesFromStream' /\ ReportsBucketed'
    BY <1>4 DEF Main, SignaturesFromStream, ReportsBucketed
  <2>3. QED BY <2>1, <2>2
<1>5. CASE UNCHANGED vars
  BY <1>5 DEF vars, TypeOK, SignaturesFromStream, ReportsBucketed
<1>6. QED BY <1>1, <1>2, <1>3, <1>4, <1>5 DEF Next

(* The invariant holds in every state. *)
THEOREM Invariance == Spec => []IInv
BY InitIInv, StepIInv, PTL DEF Spec

(* The variables stay in their types. *)
THEOREM TypeCorrect == Spec => []TypeOK
<1>1. IInv => TypeOK
  BY DEF IInv
<1>2. QED BY <1>1, Invariance, PTL

(* The buckets tell of a real report exactly when one was read. *)
LEMMA BucketsTell == IInv => (GateTrips <=> "real" \in Seen)
<1>. SUFFICES ASSUME IInv PROVE GateTrips <=> "real" \in Seen
  OBVIOUS
<1>. USE DEF IInv
<1>1. ASSUME GateTrips PROVE "real" \in Seen
  BY <1>1 DEF GateTrips, SignaturesFromStream, Seen
<1>2. ASSUME "real" \in Seen PROVE GateTrips
  <2>1. PICK i \in DOMAIN stream : Parse(stream[i]) # NoSig /\ Classify(Parse(stream[i]).class) = "real"
    BY <1>2 DEF Seen
  <2>2. PICK j \in DOMAIN stream : /\ Key(Parse(stream[j])) = Key(Parse(stream[i]))
                                   /\ buckets[Key(Parse(stream[i]))].sig = Parse(stream[j])
    BY <2>1 DEF ReportsBucketed, SignaturesFromStream
  <2>3. Parse(stream[j]).class = Parse(stream[i]).class
    BY <2>2, KeyDeterminesClass
  <2>. QED
    BY <2>1, <2>2, <2>3 DEF GateTrips, ReportsBucketed
<1>. QED
  BY <1>1, <1>2

(* A report read adds its verdict, if it has one, to those seen. *)
LEMMA SeenGrows ==
    ASSUME TypeOK, NEW text \in Reports, Reading(text)
    PROVE  Seen' = IF Parse(text) = NoSig THEN Seen
                   ELSE Seen \cup {Classify(Parse(text).class)}
<1>1. /\ DOMAIN stream' = DOMAIN stream \cup {Source} /\ Source \notin DOMAIN stream
      /\ \A i \in DOMAIN stream : stream'[i] = stream[i]
      /\ stream'[Source] = text
  BY StreamGrows
<1>2. CASE Parse(text) = NoSig
  <2>1. {j \in DOMAIN stream' : Parse(stream'[j]) # NoSig}
           = {j \in DOMAIN stream : Parse(stream[j]) # NoSig}
    BY <1>1, <1>2
  <2>. QED
    BY <1>1, <1>2, <2>1 DEF Seen
<1>3. CASE Parse(text) # NoSig
  <2>1. {j \in DOMAIN stream' : Parse(stream'[j]) # NoSig}
           = {j \in DOMAIN stream : Parse(stream[j]) # NoSig} \cup {Source}
    BY <1>1, <1>3
  <2>. QED
    BY <1>1, <1>3, <2>1 DEF Seen
<1>. QED
  BY <1>2, <1>3

(* triage implements the gate: for every set, number and order of reports, *)
(* it reads and it decides as one that remembers every verdict.            *)
THEOREM Implements == Spec => ImplementsGate
<1>1. Init => Promise!Init
  BY DEF Init, Promise!Init, Seen
<1>2. IInv /\ [Next]_vars => [Promise!Next]_<<Seen, exitCode>>
  <2>. SUFFICES ASSUME IInv, [Next]_vars
                PROVE  [Promise!Next]_<<Seen, exitCode>>
    OBVIOUS
  <2>. USE DEF IInv
  <2>1. ASSUME NEW text \in Reports, Unrecognized(text) PROVE UNCHANGED <<Seen, exitCode>>
    BY <2>1, SeenGrows DEF Unrecognized, Reading
  <2>2. ASSUME NEW text \in Reports, NewBucket(text) \/ SameBucket(text) PROVE Promise!Next
    <3>1. Reading(text) /\ Parse(text) # NoSig
      BY <2>2 DEF NewBucket, SameBucket
    <3>2. Seen' = Seen \cup {Classify(Parse(text).class)}
      BY <3>1, SeenGrows
    <3>3. Classify(Parse(text).class) \in {"real", "shallow", "review"}
      BY DEF Classify
    <3>. QED
      BY <3>1, <3>2, <3>3 DEF Reading, Promise!Next, Promise!See
  <2>3. ASSUME Main PROVE Promise!Next
    <3>1. exitCode = -1 /\ exitCode' = (IF GateTrips THEN 1 ELSE 0) /\ stream' = stream
      BY <2>3 DEF Main
    <3>2. Seen' = Seen
      BY <3>1 DEF Seen
    <3>. QED
      BY <3>1, <3>2, BucketsTell DEF Promise!Next, Promise!Decide, Promise!Tripped
  <2>4. CASE UNCHANGED vars
    BY <2>4 DEF vars, Seen
  <2>. QED
    BY <2>1, <2>2, <2>3, <2>4 DEF Next
<1>. QED
  BY <1>1, <1>2, Invariance, PTL DEF Spec, ImplementsGate, Promise!Spec

--------------------------------------------------------------------------------
(* Counting. *)

CountsExact == \A k \in DOMAIN buckets : buckets[k].count = Cardinality(SourcesOf(k))

(* A key has finitely many sources. *)
LEMMA SourcesFinite == ASSUME TypeOK, NEW k PROVE IsFiniteSet(SourcesOf(k))
<1>1. DOMAIN stream = 1..Len(stream) /\ Len(stream) \in Nat
  BY DEF TypeOK
<1>2. IsFiniteSet(1..Len(stream))
  BY <1>1, FS_Interval
<1>3. SourcesOf(k) \subseteq 1..Len(stream)
  BY <1>1 DEF SourcesOf
<1>4. QED BY <1>2, <1>3, FS_Subset

(* Reading a report adds its position to the sources of its own key and    *)
(* to no other.                                                            *)
LEMMA SourcesGrow ==
    ASSUME TypeOK, NEW text \in Reports, Reading(text), NEW k
    PROVE  /\ Parse(text) # NoSig /\ Key(Parse(text)) = k =>
                 /\ SourcesOf(k)' = SourcesOf(k) \cup {Source}
                 /\ Source \notin SourcesOf(k)
           /\ ~(Parse(text) # NoSig /\ Key(Parse(text)) = k) => SourcesOf(k)' = SourcesOf(k)
BY StreamGrows DEF SourcesOf

(* Every step keeps the counts exact. *)
LEMMA StepCounts == IInv /\ CountsExact /\ [Next]_vars => CountsExact'
<1> SUFFICES ASSUME IInv, CountsExact, [Next]_vars, NEW k \in DOMAIN buckets'
             PROVE  buckets'[k].count = Cardinality(SourcesOf(k))'
    BY DEF CountsExact
<1> USE DEF IInv, CountsExact
<1>1. ASSUME NEW text \in Reports, Unrecognized(text)
      PROVE  buckets'[k].count = Cardinality(SourcesOf(k)')
  BY <1>1, SourcesGrow DEF Unrecognized
<1>2. ASSUME NEW text \in Reports, NewBucket(text)
      PROVE  buckets'[k].count = Cardinality(SourcesOf(k)')
  <2>1. CASE k = Key(Parse(text))
    <3>1. SourcesOf(k) = {}
      BY <1>2, <2>1 DEF NewBucket, SourcesOf, ReportsBucketed
    <3>2. SourcesOf(k)' = {Source}
      BY <1>2, <2>1, <3>1, SourcesGrow DEF NewBucket
    <3>3. buckets'[k].count = 1
      BY <1>2, <2>1 DEF NewBucket
    <3>4. QED BY <3>2, <3>3, FS_Singleton
  <2>2. CASE k # Key(Parse(text))
    BY <1>2, <2>2, SourcesGrow DEF NewBucket
  <2>3. QED BY <2>1, <2>2
<1>3. ASSUME NEW text \in Reports, SameBucket(text)
      PROVE  buckets'[k].count = Cardinality(SourcesOf(k)')
  <2>1. CASE k = Key(Parse(text))
    <3>1. SourcesOf(k)' = SourcesOf(k) \cup {Source} /\ Source \notin SourcesOf(k)
      BY <1>3, <2>1, SourcesGrow DEF SameBucket
    <3>2. Cardinality(SourcesOf(k)') = Cardinality(SourcesOf(k)) + 1
      BY <3>1, SourcesFinite, FS_AddElement
    <3>3. buckets'[k].count = buckets[k].count + 1 /\ k \in DOMAIN buckets
      BY <1>3, <2>1 DEF SameBucket, TypeOK
    <3>4. QED BY <3>2, <3>3
  <2>2. CASE k # Key(Parse(text))
    BY <1>3, <2>2, SourcesGrow DEF SameBucket, TypeOK
  <2>3. QED BY <2>1, <2>2
<1>4. CASE Main
  BY <1>4 DEF Main, SourcesOf
<1>5. CASE UNCHANGED vars
  BY <1>5 DEF vars, SourcesOf
<1>6. QED BY <1>1, <1>2, <1>3, <1>4, <1>5 DEF Next

(* Every report with a signature is counted once, in the bucket of its     *)
(* key, and there is no other bucket.                                      *)
THEOREM NothingLost == Spec => []BucketsExact
<1>1. Init => CountsExact
  BY DEF Init, CountsExact
<1>2. IInv /\ CountsExact => BucketsExact
  BY DEF IInv, SignaturesFromStream, ReportsBucketed, CountsExact, BucketsExact, SourcesOf
<1>3. QED BY <1>1, <1>2, StepCounts, Invariance, PTL DEF Spec

--------------------------------------------------------------------------------
(* The sources a bucket remembers. *)

(* kept holds the first elements of S, at most three, in ascending order.  *)
FirstOf(S, kept) ==
    /\ Len(kept) = (IF Cardinality(S) < 3 THEN Cardinality(S) ELSE 3)
    /\ \A i \in DOMAIN kept : /\ kept[i] \in S
                              /\ Cardinality({j \in S : j < kept[i]}) = i - 1

(* A later source keeps the first ones first. *)
LEMMA FirstGrows ==
    ASSUME NEW S \in SUBSET Nat, IsFiniteSet(S), NEW kept \in Seq(Nat), FirstOf(S, kept),
           NEW n \in Nat, \A j \in S : j < n
    PROVE  FirstOf(S \cup {n}, IF Len(kept) < 3 THEN Append(kept, n) ELSE kept)
<1>1. Cardinality(S) \in Nat /\ Cardinality(S \cup {n}) = Cardinality(S) + 1
  <2>1. n \notin S
    OBVIOUS
  <2>2. Cardinality(S) \in Nat
    BY FS_CardinalityType
  <2>3. Cardinality(S \cup {n}) = Cardinality(S) + 1
    BY <2>1, FS_AddElement
  <2>4. QED
    BY <2>2, <2>3
<1>2. /\ Len(kept) = (IF Cardinality(S) < 3 THEN Cardinality(S) ELSE 3)
      /\ DOMAIN kept = 1..Len(kept) /\ Len(kept) \in Nat
      /\ \A i \in DOMAIN kept : kept[i] \in S /\ Cardinality({j \in S : j < kept[i]}) = i - 1
  <2>1. DOMAIN kept = 1..Len(kept) /\ Len(kept) \in Nat
    OBVIOUS
  <2>2. \A i \in DOMAIN kept : kept[i] \in S /\ Cardinality({j \in S : j < kept[i]}) = i - 1
    BY Zenon DEF FirstOf
  <2>3. Len(kept) = (IF Cardinality(S) < 3 THEN Cardinality(S) ELSE 3)
    BY Zenon DEF FirstOf
  <2>4. QED
    BY <2>1, <2>2, <2>3
<1>3. \A i \in DOMAIN kept : /\ kept[i] \in S \cup {n}
                            /\ Cardinality({j \in S \cup {n} : j < kept[i]}) = i - 1
  <2> SUFFICES ASSUME NEW i \in DOMAIN kept
               PROVE  {j \in S \cup {n} : j < kept[i]} = {j \in S : j < kept[i]}
    BY <1>2
  <2>1. kept[i] < n /\ kept[i] \in Nat
    BY <1>2
  <2>2. QED
    BY <2>1
<1>4. CASE Len(kept) < 3
  <2> DEFINE more == Append(kept, n)
  <2>1. /\ Len(more) = Len(kept) + 1 /\ DOMAIN more = 1..(Len(kept) + 1)
        /\ more[Len(kept) + 1] = n
        /\ \A i \in DOMAIN kept : more[i] = kept[i]
    BY <1>2
  <2>2. {j \in S \cup {n} : j < n} = S
    <3>1. ~(n < n)
      OBVIOUS
    <3>2. QED
      BY <3>1
  <2>3. Len(kept) = Cardinality(S)
    BY <1>1, <1>2, <1>4
  <2> HIDE DEF more
  <2>4. Len(more) = (IF Cardinality(S \cup {n}) < 3 THEN Cardinality(S \cup {n}) ELSE 3)
    BY <1>1, <1>4, <2>1, <2>3
  <2>5. ASSUME NEW i \in DOMAIN more
        PROVE  more[i] \in S \cup {n} /\ Cardinality({j \in S \cup {n} : j < more[i]}) = i - 1
    <3>1. CASE i \in DOMAIN kept
      BY <1>3, <2>1, <3>1
    <3>2. CASE i = Len(kept) + 1
      <4>1. more[i] = n
        BY <2>1, <3>2
      <4>2. Cardinality({j \in S \cup {n} : j < more[i]}) = Cardinality(S)
        BY <2>2, <4>1
      <4>3. QED
        BY <1>1, <1>2, <2>3, <3>2, <4>1, <4>2
    <3>3. QED
      BY <1>2, <2>1, <3>1, <3>2
  <2>6. FirstOf(S \cup {n}, more)
    BY <2>4, <2>5 DEF FirstOf
  <2>7. QED
    BY <1>4, <2>6 DEF more
<1>5. CASE ~(Len(kept) < 3)
  <2>1. Len(kept) = (IF Cardinality(S \cup {n}) < 3 THEN Cardinality(S \cup {n}) ELSE 3)
    BY <1>1, <1>2, <1>5
  <2>2. FirstOf(S \cup {n}, kept)
    BY <1>3, <2>1 DEF FirstOf
  <2>3. QED
    BY <1>5, <2>2
<1>6. QED
  BY <1>4, <1>5

(* The source that creates a bucket. *)
LEMMA FirstSingleton == ASSUME NEW n \in Nat PROVE FirstOf({n}, <<n>>)
<1>1. Cardinality({n}) = 1 /\ {j \in {n} : j < n} = {}
  <2>1. Cardinality({n}) = 1
    BY FS_Singleton
  <2>2. ~(n < n)
    OBVIOUS
  <2>3. QED
    BY <2>1, <2>2
<1>2. Cardinality({j \in {n} : j < n}) = 0
  BY <1>1, FS_EmptySet
<1>3. Len(<<n>>) = 1 /\ DOMAIN <<n>> = {1} /\ <<n>>[1] = n
  OBVIOUS
<1>4. \A i \in DOMAIN <<n>> : /\ <<n>>[i] \in {n}
                             /\ Cardinality({j \in {n} : j < <<n>>[i]}) = i - 1
  BY <1>2, <1>3
<1>5. QED
  BY <1>1, <1>3, <1>4 DEF FirstOf

AllFirst == \A k \in DOMAIN buckets : FirstOf(SourcesOf(k), buckets[k].sources)

(* Every step keeps the remembered sources the first ones. *)
LEMMA StepFirst == IInv /\ AllFirst /\ [Next]_vars => AllFirst'
<1> SUFFICES ASSUME IInv, AllFirst, [Next]_vars, NEW k \in DOMAIN buckets'
             PROVE  FirstOf(SourcesOf(k)', buckets'[k].sources)
    BY DEF AllFirst
<1> USE DEF IInv
<1>1. ASSUME NEW text \in Reports, Unrecognized(text)
      PROVE  FirstOf(SourcesOf(k)', buckets'[k].sources)
  BY <1>1, SourcesGrow DEF Unrecognized, AllFirst
<1>2. ASSUME NEW text \in Reports, NewBucket(text)
      PROVE  FirstOf(SourcesOf(k)', buckets'[k].sources)
  <2>1. CASE k = Key(Parse(text))
    <3>1. SourcesOf(k) = {}
      BY <1>2, <2>1 DEF NewBucket, SourcesOf, ReportsBucketed
    <3>2. SourcesOf(k)' = {Source}
      BY <1>2, <2>1, <3>1, SourcesGrow DEF NewBucket
    <3>3. buckets'[k].sources = <<Source>> /\ Source \in Nat
      BY <1>2, <2>1, StreamGrows DEF NewBucket
    <3>4. QED BY <3>2, <3>3, FirstSingleton
  <2>2. CASE k # Key(Parse(text))
    BY <1>2, <2>2, SourcesGrow DEF NewBucket, AllFirst
  <2>3. QED BY <2>1, <2>2
<1>3. ASSUME NEW text \in Reports, SameBucket(text)
      PROVE  FirstOf(SourcesOf(k)', buckets'[k].sources)
  <2>1. CASE k = Key(Parse(text))
    <3>1. SourcesOf(k)' = SourcesOf(k) \cup {Source}
      BY <1>3, <2>1, SourcesGrow DEF SameBucket
    <3>2. k \in DOMAIN buckets /\ buckets[k].sources \in Seq(Nat)
      BY <1>3, <2>1 DEF SameBucket, TypeOK
    <3>3. buckets'[k].sources = IF Len(buckets[k].sources) < 3
                                THEN Append(buckets[k].sources, Source)
                                ELSE buckets[k].sources
      BY <1>3, <2>1 DEF SameBucket, TypeOK
    <3>4. /\ SourcesOf(k) \in SUBSET Nat /\ Source \in Nat
          /\ \A j \in SourcesOf(k) : j < Source
      BY DEF SourcesOf, TypeOK, Source
    <3>5. FirstOf(SourcesOf(k), buckets[k].sources)
      BY <3>2 DEF AllFirst
    <3>6. QED BY <3>1, <3>2, <3>3, <3>4, <3>5, SourcesFinite, FirstGrows
  <2>2. CASE k # Key(Parse(text))
    BY <1>3, <2>2, SourcesGrow DEF SameBucket, TypeOK, AllFirst
  <2>3. QED BY <2>1, <2>2
<1>4. CASE Main
  BY <1>4 DEF Main, SourcesOf, AllFirst
<1>5. CASE UNCHANGED vars
  BY <1>5 DEF vars, SourcesOf, AllFirst
<1>6. QED BY <1>1, <1>2, <1>3, <1>4, <1>5 DEF Next

(* A bucket remembers its first sources, at most three, in their order.    *)
THEOREM FirstSourcesKept == Spec => []SourcesAreFirst
<1>1. Init => AllFirst
  BY DEF Init, AllFirst
<1>2. AllFirst => SourcesAreFirst
  BY DEF AllFirst, FirstOf, SourcesAreFirst
<1>3. QED BY <1>1, <1>2, StepFirst, Invariance, PTL DEF Spec

--------------------------------------------------------------------------------
(* The table. *)

(* A strict total order, as the set of its pairs. *)
StrictOrder(S, R) ==
    /\ \A k \in S : <<k, k>> \notin R
    /\ \A k, l, m \in S : <<k, l>> \in R /\ <<l, m>> \in R => <<k, m>> \in R
    /\ \A k, l \in S : k # l => <<k, l>> \in R \/ <<l, k>> \in R

(* One more than the number of smaller elements. *)
RankIn(S, R) == [k \in S |-> Cardinality({l \in S : <<l, k>> \in R}) + 1]

(* The ranks are the numbers from 1 to the size of the set, each once.     *)
LEMMA RanksAreNumbers ==
    ASSUME NEW S, IsFiniteSet(S), NEW R, StrictOrder(S, R)
    PROVE  /\ \A k \in S : RankIn(S, R)[k] \in 1..Cardinality(S)
           /\ \A r \in 1..Cardinality(S) : \E k \in S : RankIn(S, R)[k] = r
           /\ \A k, l \in S : <<k, l>> \in R => RankIn(S, R)[k] < RankIn(S, R)[l]
<1> DEFINE rank == RankIn(S, R)
           below(k) == {l \in S : <<l, k>> \in R}
           n == Cardinality(S)
<1>1. n \in Nat
  BY FS_CardinalityType
<1>2. ASSUME NEW k \in S
      PROVE  IsFiniteSet(below(k)) /\ Cardinality(below(k)) \in Nat /\ Cardinality(below(k)) < n
  <2>1. IsFiniteSet(below(k)) /\ Cardinality(below(k)) \in Nat
    <3>1. below(k) \in SUBSET S
      OBVIOUS
    <3>2. QED BY <3>1, FS_Subset, FS_CardinalityType
  <2>2. k \notin below(k) /\ below(k) \cup {k} \in SUBSET S
    BY DEF StrictOrder
  <2>3. Cardinality(below(k) \cup {k}) = Cardinality(below(k)) + 1
    <3> HIDE DEF below
    <3>1. QED BY <2>1, <2>2, FS_AddElement
  <2>4. Cardinality(below(k) \cup {k}) <= n
    <3> HIDE DEF below
    <3>1. QED BY <2>2, FS_Subset
  <2> HIDE DEF below, n
  <2>5. QED BY <1>1, <2>1, <2>3, <2>4
<1>3. DOMAIN rank = S /\ \A k \in S : rank[k] = Cardinality(below(k)) + 1
  BY DEF RankIn
<1> HIDE DEF rank
<1>4. ASSUME NEW k \in S, NEW l \in S, <<k, l>> \in R PROVE rank[k] < rank[l]
  <2>1. below(k) \cup {k} \in SUBSET below(l) /\ k \notin below(k)
    BY <1>4 DEF StrictOrder
  <2> HIDE DEF below, n
  <2>2. Cardinality(below(k) \cup {k}) = Cardinality(below(k)) + 1
    BY <1>2, <2>1, FS_AddElement
  <2>3. Cardinality(below(k) \cup {k}) <= Cardinality(below(l))
    BY <1>2, <2>1, FS_Subset
  <2>4. QED BY <1>2, <1>3, <2>2, <2>3
<1>5. \A k \in S : rank[k] \in 1..n
  <2> HIDE DEF below, n
  <2>1. QED BY <1>1, <1>2, <1>3
<1>6. rank \in Injection(S, 1..n)
  <2>1. rank \in [S -> 1..n]
    <3> HIDE DEF n
    <3>1. DOMAIN rank = S /\ rank = [k \in S |-> rank[k]]
      BY <1>3 DEF rank, RankIn
    <3>2. QED BY <1>5, <3>1
  <2>2. ASSUME NEW k \in S, NEW l \in S, rank[k] = rank[l] PROVE k = l
    <3>1. rank[k] \in 1..n /\ rank[l] \in 1..n
      BY <1>5
    <3> HIDE DEF n
    <3>2. ~(rank[k] < rank[l]) /\ ~(rank[l] < rank[k])
      BY <1>1, <2>2, <3>1
    <3>3. QED BY <1>4, <3>2 DEF StrictOrder
  <2>3. QED BY <2>1, <2>2 DEF Injection, IsInjective
<1>7. IsFiniteSet(1..n) /\ Cardinality(1..n) = n
  <2> HIDE DEF n
  <2>1. QED BY <1>1, FS_Interval
<1>8. rank \in Surjection(S, 1..n)
  <2> HIDE DEF n
  <2>1. Cardinality(S) = Cardinality(1..n)
    BY <1>7 DEF n
  <2>2. QED BY <1>6, <1>7, <2>1, FS_Injection
<1>9. \A r \in 1..n : \E k \in S : rank[k] = r
  BY <1>8 DEF Surjection
<1>10. QED BY <1>4, <1>5, <1>9 DEF rank

(* The report that created a bucket. *)
Entry(k) == buckets[k].sources[1]

(* order lists every bucket once, in the order they were created. *)
OrderInv ==
    /\ order \in Seq(DOMAIN buckets)
    /\ \A k \in DOMAIN buckets : \E i \in DOMAIN order : order[i] = k
    /\ \A k \in DOMAIN buckets : Len(buckets[k].sources) > 0 /\ Entry(k) \in DOMAIN stream
    /\ \A i, j \in DOMAIN order : i < j => Entry(order[i]) < Entry(order[j])

(* What was printed is the table of the buckets there are. *)
Printed == exitCode # -1 => table = [r \in DOMAIN Ordered |-> Row(Ordered[r])]

(* Every step keeps the order. *)
LEMMA StepOrder == IInv /\ OrderInv /\ [Next]_vars => OrderInv'
<1> SUFFICES ASSUME IInv, OrderInv, [Next]_vars PROVE OrderInv'
    OBVIOUS
<1> USE DEF IInv, Entry
<1>1. ASSUME NEW text \in Reports, Unrecognized(text) PROVE OrderInv'
  BY <1>1, StreamGrows DEF Unrecognized, OrderInv
<1>2. ASSUME NEW text \in Reports, NewBucket(text) PROVE OrderInv'
  <2> DEFINE key == Key(Parse(text))
  <2>1. /\ Reading(text)
        /\ key \notin DOMAIN buckets
        /\ DOMAIN buckets' = DOMAIN buckets \cup {key}
        /\ buckets'[key].sources = <<Source>>
        /\ \A k \in DOMAIN buckets : buckets'[k] = buckets[k]
        /\ order' = Append(order, key)
    BY <1>2 DEF NewBucket
  <2>2. /\ DOMAIN stream' = DOMAIN stream \cup {Source} /\ Source \in Nat
        /\ \A i \in DOMAIN stream : i \in Nat /\ i < Source
    <3>1. DOMAIN stream' = DOMAIN stream \cup {Source}
      BY <2>1, StreamGrows
    <3>2. Source \in Nat /\ \A i \in DOMAIN stream : i \in Nat /\ i < Source
      BY DEF TypeOK, Source
    <3>3. QED BY <3>1, <3>2
  <2>3. /\ order' \in Seq(DOMAIN buckets')
        /\ Len(order) \in Nat /\ DOMAIN order = 1..Len(order)
        /\ DOMAIN order' = 1..(Len(order) + 1)
        /\ order'[Len(order) + 1] = key
        /\ \A i \in DOMAIN order : order'[i] = order[i] /\ order[i] \in DOMAIN buckets
    BY <2>1 DEF OrderInv
  <2> HIDE DEF key
  <2>4. \A k \in DOMAIN buckets' : \E i \in DOMAIN order' : order'[i] = k
    <3> SUFFICES ASSUME NEW k \in DOMAIN buckets' PROVE \E i \in DOMAIN order' : order'[i] = k
      OBVIOUS
    <3>1. CASE k = key
      BY <2>3, <3>1
    <3>2. CASE k \in DOMAIN buckets
      <4>1. PICK i \in DOMAIN order : order[i] = k
        BY <3>2 DEF OrderInv
      <4>2. QED BY <2>3, <4>1
    <3>3. QED BY <2>1, <3>1, <3>2
  <2>5. ASSUME NEW k \in DOMAIN buckets'
        PROVE  Len(buckets'[k].sources) > 0 /\ buckets'[k].sources[1] \in DOMAIN stream'
    <3>1. CASE k = key
      <4>1. Len(<<Source>>) = 1 /\ <<Source>>[1] = Source
        OBVIOUS
      <4>2. QED BY <2>1, <2>2, <3>1, <4>1
    <3>2. CASE k \in DOMAIN buckets
      BY <2>1, <2>2, <3>2 DEF OrderInv
    <3>3. QED BY <2>1, <3>1, <3>2
  <2>6. ASSUME NEW i \in DOMAIN order', NEW j \in DOMAIN order', i < j
        PROVE  buckets'[order'[i]].sources[1] < buckets'[order'[j]].sources[1]
    <3>1. i \in DOMAIN order /\ order'[i] = order[i] /\ order[i] \in DOMAIN buckets
      BY <2>3, <2>6
    <3>2. buckets'[order'[i]].sources[1] = Entry(order[i]) /\ Entry(order[i]) \in DOMAIN stream
      BY <2>1, <3>1 DEF OrderInv
    <3>3. CASE j \in DOMAIN order
      BY <2>1, <2>3, <2>6, <3>1, <3>2, <3>3 DEF OrderInv
    <3>4. CASE j = Len(order) + 1
      BY <2>1, <2>2, <2>3, <3>2, <3>4
    <3>5. QED BY <2>3, <3>3, <3>4
  <2>7. QED BY <2>3, <2>4, <2>5, <2>6 DEF OrderInv
<1>3. ASSUME NEW text \in Reports, SameBucket(text) PROVE OrderInv'
  <2>1. /\ Reading(text) /\ order' = order
        /\ DOMAIN buckets' = DOMAIN buckets
        /\ \A k \in DOMAIN buckets :
              \/ buckets'[k] = buckets[k]
              \/ buckets'[k].sources = Append(buckets[k].sources, Source)
              \/ buckets'[k].sources = buckets[k].sources
    BY <1>3 DEF SameBucket, TypeOK
  <2>2. ASSUME NEW k \in DOMAIN buckets
        PROVE  Len(buckets'[k].sources) > 0 /\ buckets'[k].sources[1] = Entry(k)
    <3>1. buckets[k].sources \in Seq(Nat) /\ Len(buckets[k].sources) > 0
      BY DEF OrderInv, TypeOK
    <3>2. Source \in Nat
      BY <2>1, StreamGrows
    <3> DEFINE kept == buckets[k].sources
    <3>3. Len(Append(kept, Source)) > 0 /\ Append(kept, Source)[1] = kept[1]
      BY <3>1, <3>2
    <3>4. QED BY <2>1, <3>1, <3>3
  <2>3. DOMAIN stream \subseteq DOMAIN stream'
    BY <2>1, StreamGrows
  <2>4. \A i \in DOMAIN order : order[i] \in DOMAIN buckets
    BY DEF OrderInv
  <2>5. QED BY <2>1, <2>2, <2>3, <2>4 DEF OrderInv
<1>4. CASE Main
  BY <1>4 DEF Main, OrderInv
<1>5. CASE UNCHANGED vars
  BY <1>5 DEF vars, OrderInv
<1>6. QED BY <1>1, <1>2, <1>3, <1>4, <1>5 DEF Next

(* After main, nothing changes that the table is computed from. *)
LEMMA StepPrinted == Printed /\ [Next]_vars => Printed'
<1> SUFFICES ASSUME Printed, [Next]_vars PROVE Printed'
    OBVIOUS
<1>1. ASSUME UNCHANGED <<buckets, order>> PROVE Ordered' = Ordered /\ \A k : Row(k)' = Row(k)
  BY <1>1 DEF Ordered, Rank, Before, Position, Row
<1>2. ASSUME NEW text \in Reports, Unrecognized(text) \/ NewBucket(text) \/ SameBucket(text)
      PROVE  Printed'
  BY <1>2 DEF Printed, Unrecognized, NewBucket, SameBucket, Reading
<1>3. CASE Main
  BY <1>1, <1>3 DEF Printed, Main
<1>4. CASE UNCHANGED vars
  BY <1>1, <1>4 DEF Printed, vars
<1>5. QED BY <1>2, <1>3, <1>4 DEF Next

(* The rows are the buckets, each one once, ranked. *)
LEMMA OrderedRanks ==
    ASSUME IInv, OrderInv
    PROVE  /\ DOMAIN Ordered = 1..Len(order)
           /\ \A r \in DOMAIN Ordered : Ordered[r] \in DOMAIN buckets
           /\ \A k \in DOMAIN buckets : \E r \in DOMAIN Ordered : Ordered[r] = k
           /\ \A r, s \in DOMAIN Ordered : r < s =>
                 \/ buckets[Ordered[r]].count > buckets[Ordered[s]].count
                 \/ /\ buckets[Ordered[r]].count = buckets[Ordered[s]].count
                    /\ Entry(Ordered[r]) < Entry(Ordered[s])
<1> DEFINE D == DOMAIN buckets
           R == {p \in D \X D : Before(p[1], p[2])}
           rank == RankIn(D, R)
           n == Len(order)
<1>1. /\ n \in Nat /\ DOMAIN order = 1..n
      /\ \A i \in 1..n : order[i] \in D
      /\ \A k \in D : \E i \in 1..n : order[i] = k
      /\ \A i, j \in 1..n : i < j => Entry(order[i]) < Entry(order[j])
      /\ \A k \in D : Entry(k) \in Nat
  <2>1. n \in Nat /\ DOMAIN order = 1..n /\ \A i \in 1..n : order[i] \in D
    BY DEF OrderInv
  <2>2. DOMAIN stream \subseteq Nat
    BY DEF IInv, TypeOK
  <2>3. \A k \in D : Entry(k) \in Nat
    BY <2>2 DEF OrderInv
  <2>4. QED BY <2>1, <2>3 DEF OrderInv
<1>2. \A k \in D : buckets[k].count \in Nat
  BY DEF IInv, TypeOK
<1>3. \A i, j \in 1..n : order[i] = order[j] => i = j
  <2> SUFFICES ASSUME NEW i \in 1..n, NEW j \in 1..n, order[i] = order[j], i # j PROVE FALSE
    OBVIOUS
  <2>1. Entry(order[i]) \in Nat /\ Entry(order[i]) = Entry(order[j])
    BY <1>1
  <2>2. i < j \/ j < i
    BY <1>1
  <2>3. QED BY <1>1, <2>1, <2>2
<1>4. IsFiniteSet(D) /\ Cardinality(D) = n
  <2>1. order \in Bijection(1..n, D)
    <3>1. order \in [1..n -> D]
      BY <1>1 DEF OrderInv
    <3>2. QED BY <1>1, <1>3, <3>1 DEF Bijection, Injection, IsInjective, Surjection
  <2>2. ExistsBijection(1..n, D)
    BY <2>1 DEF ExistsBijection
  <2> HIDE DEF n, D
  <2>3. IsFiniteSet(1..n) /\ Cardinality(1..n) = n
    BY <1>1, FS_Interval
  <2>4. QED BY <2>2, <2>3, FS_Bijection
<1>5. ASSUME NEW k \in D PROVE Position(k) \in 1..n /\ order[Position(k)] = k
  BY <1>1 DEF Position
<1>6. \A k, l \in D : <<k, l>> \in R <=> Before(k, l)
  OBVIOUS
<1>7. /\ \A k \in D : ~Before(k, k)
      /\ \A k, l, m \in D : Before(k, l) /\ Before(l, m) => Before(k, m)
      /\ \A k, l \in D : k # l => Before(k, l) \/ Before(l, k)
  <2> HIDE DEF D, n, R
  <2>1. \A k \in D : Position(k) \in Nat /\ buckets[k].count \in Nat
    BY <1>1, <1>2, <1>5
  <2>2. \A k, l \in D : k # l => Position(k) # Position(l)
    BY <1>5
  <2>3. QED BY <2>1, <2>2 DEF Before
<1>8. \A k \in D : Rank(k) = rank[k]
  <2> SUFFICES ASSUME NEW k \in D PROVE {l \in D : Before(l, k)} = {l \in D : <<l, k>> \in R}
    BY DEF Rank, RankIn
  <2>1. QED BY <1>6
<1>9. /\ \A k \in D : rank[k] \in 1..n
      /\ \A r \in 1..n : \E k \in D : rank[k] = r
      /\ \A k, l \in D : <<k, l>> \in R => rank[k] < rank[l]
  <2> HIDE DEF R, n, D
  <2>1. StrictOrder(D, R)
    BY <1>6, <1>7 DEF StrictOrder
  <2>2. QED BY <1>4, <2>1, RanksAreNumbers
<1> HIDE DEF R, rank
<1>10. ASSUME NEW r \in 1..n PROVE Ordered[r] \in D /\ rank[Ordered[r]] = r
  <2>1. \E k \in D : Rank(k) = r
    BY <1>8, <1>9
  <2>2. Ordered[r] \in D /\ Rank(Ordered[r]) = r
    BY <2>1 DEF Ordered
  <2>3. QED BY <1>8, <2>2
<1>11. DOMAIN Ordered = 1..n
  BY DEF Ordered
<1>12. ASSUME NEW k \in D PROVE \E r \in DOMAIN Ordered : Ordered[r] = k
  <2> DEFINE r == rank[k]
             l == Ordered[r]
  <2>1. r \in 1..n /\ l \in D /\ rank[l] = r
    BY <1>9, <1>10
  <2>2. ~(rank[l] < rank[k]) /\ ~(rank[k] < rank[l])
    BY <1>1, <2>1
  <2>3. l = k
    BY <1>6, <1>7, <1>9, <2>1, <2>2
  <2>4. QED BY <1>11, <2>1, <2>3
<1>13. ASSUME NEW r \in 1..n, NEW s \in 1..n, r < s
       PROVE  \/ buckets[Ordered[r]].count > buckets[Ordered[s]].count
              \/ /\ buckets[Ordered[r]].count = buckets[Ordered[s]].count
                 /\ Entry(Ordered[r]) < Entry(Ordered[s])
  <2> DEFINE k == Ordered[r]
             l == Ordered[s]
  <2>1. k \in D /\ l \in D /\ rank[k] = r /\ rank[l] = s
    BY <1>10
  <2>2. k # l
    BY <1>1, <1>13, <2>1
  <2> HIDE DEF k, l, n, D
  <2>3. <<l, k>> \notin R
    <3>1. <<l, k>> \in R => rank[l] < rank[k]
      BY <1>9, <2>1
    <3>2. r \in Int /\ s \in Int
      OBVIOUS
    <3>3. QED BY <1>13, <2>1, <3>1, <3>2
  <2>4. Before(k, l)
    BY <1>6, <1>7, <2>1, <2>2, <2>3
  <2>5. Position(k) < Position(l) => Entry(k) < Entry(l)
    BY <1>1, <1>5, <2>1
  <2>6. QED BY <2>4, <2>5 DEF Before, k, l
<1>14. QED BY <1>10, <1>11, <1>12, <1>13

(* The table lists every bucket once, most frequent first, and of equally  *)
(* frequent ones the one met first.                                        *)
THEOREM TableInOrder == Spec => []TableRanked
<1>1. Init => OrderInv /\ Printed
  BY DEF Init, OrderInv, Printed
<1>2. IInv /\ OrderInv /\ Printed => TableRanked
  <2> SUFFICES ASSUME IInv, OrderInv, Printed, exitCode # -1
               PROVE  /\ {table[r].key : r \in DOMAIN table} = DOMAIN buckets
                      /\ \A r, s \in DOMAIN table : r < s =>
                            \/ table[r].count > table[s].count
                            \/ /\ table[r].count = table[s].count
                               /\ table[r].example < table[s].example
    BY DEF TableRanked
  <2>1. /\ DOMAIN table = DOMAIN Ordered
        /\ \A r \in DOMAIN Ordered : /\ table[r].key = Ordered[r]
                                     /\ table[r].count = buckets[Ordered[r]].count
                                     /\ table[r].example = Entry(Ordered[r])
    BY DEF Printed, Row, Entry
  <2>2. {table[r].key : r \in DOMAIN table} = DOMAIN buckets
    <3>1. {table[r].key : r \in DOMAIN table} = {Ordered[r] : r \in DOMAIN Ordered}
      BY <2>1
    <3>2. {Ordered[r] : r \in DOMAIN Ordered} = DOMAIN buckets
      BY OrderedRanks
    <3>3. QED BY <3>1, <3>2
  <2>3. ASSUME NEW r \in DOMAIN table, NEW s \in DOMAIN table, r < s
        PROVE  \/ table[r].count > table[s].count
               \/ table[r].count = table[s].count /\ table[r].example < table[s].example
    <3>1. r \in DOMAIN Ordered /\ s \in DOMAIN Ordered
      BY <2>1
    <3>2. \/ buckets[Ordered[r]].count > buckets[Ordered[s]].count
          \/ /\ buckets[Ordered[r]].count = buckets[Ordered[s]].count
             /\ Entry(Ordered[r]) < Entry(Ordered[s])
      BY <2>3, <3>1, OrderedRanks
    <3>3. QED BY <2>1, <3>1, <3>2
  <2>4. QED BY <2>2, <2>3
<1>3. QED BY <1>1, <1>2, StepOrder, StepPrinted, Invariance, PTL DEF Spec

--------------------------------------------------------------------------------
(* The reports no parser recognizes. *)

(* A set of numbers with a member has a least one. *)
LEMMA NatMin ==
    ASSUME NEW S, S \subseteq Nat, S # {}
    PROVE  \E x \in S : \A y \in S : x <= y
<1> DEFINE R == OpToRel(<, Nat)
<1>1. IsWellFoundedOn(R, Nat)
  BY NatLessThanWellFounded
<1>2. \A x, y \in Nat : x < y => <<x, y>> \in R
  BY DEF OpToRel
<1> HIDE DEF R
<1>3. PICK x \in S : \A y \in S : ~ (<<y, x>> \in R)
  BY <1>1, WFMin
<1>4. ASSUME NEW y \in S PROVE x <= y
  <2>1. x \in Nat /\ y \in Nat
    OBVIOUS
  <2>2. ~(y < x)
    BY <1>2, <1>3, <2>1, Zenon
  <2>3. QED
    BY <2>1, <2>2
<1>5. QED
  BY <1>4

(* What a line is. *)
LEMMA LineOf ==
    ASSUME NEW text \in Seq(Lines), NEW i \in DOMAIN text
    PROVE  text[i].by \in Kinds /\ text[i].loc # "none"
<1>1. text[i] \in Lines
  OBVIOUS
<1>2. \A line \in Lines : line.by \in Kinds /\ line.loc # "none"
  BY DEF Lines
<1>3. QED BY <1>1, <1>2

(* A parser takes its location from a line of the report. *)
LEMMA FirstIsOne ==
    ASSUME NEW text \in Seq(Lines), NEW at \in SUBSET DOMAIN text, at # {}
    PROVE  First(at) \in at /\ text[First(at)].loc # "none"
<1>1. at \subseteq Nat
  OBVIOUS
<1>2. First(at) \in at
  BY <1>1, NatMin DEF First
<1>3. QED BY <1>2, LineOf

(* Each parser recognizes the texts that have a line of its kind. *)
LEMMA ParserRecognizes ==
    ASSUME NEW text \in Seq(Lines)
    PROVE  /\ ParseUbsan(text) # NoSig <=> Of(text, "ubsan") # {}
           /\ ParseAsan(text) # NoSig <=> Of(text, "asan") # {}
           /\ ParseAssert(text) # NoSig <=> Of(text, "assert") # {}
           /\ ParseRust(text) # NoSig <=> Of(text, "panic") # {}
           /\ ParsePython(text) # NoSig <=> Of(text, "frame") # {} \/ Of(text, "exc") # {}
           /\ ParseSignal(text) # NoSig <=> Of(text, "signal") # {}
<1>1. ASSUME NEW kind PROVE Of(text, kind) \in SUBSET DOMAIN text
  BY DEF Of
<1>2. \A at \in SUBSET DOMAIN text : at # {} => text[First(at)].loc # "none"
  BY FirstIsOne
<1>3. \A class, loc : loc # "none" \/ class # "none" => Sig(class, loc) # NoSig
  BY DEF Sig, NoSig
<1>4. ParseUbsan(text) # NoSig <=> Of(text, "ubsan") # {}
  BY <1>1, <1>2, <1>3 DEF ParseUbsan
<1>5. ParseAsan(text) # NoSig <=> Of(text, "asan") # {}
  <2>1. Symbolized(text, Of(text, "asan")) \in SUBSET DOMAIN text
    BY <1>1 DEF Symbolized
  <2>2. QED BY <1>1, <1>2, <1>3, <2>1 DEF ParseAsan
<1>6. ParseAssert(text) # NoSig <=> Of(text, "assert") # {}
  BY <1>1, <1>2, <1>3 DEF ParseAssert
<1>7. ParseRust(text) # NoSig <=> Of(text, "panic") # {}
  BY <1>1, <1>2, <1>3 DEF ParseRust
<1>8. ParsePython(text) # NoSig <=> Of(text, "frame") # {} \/ Of(text, "exc") # {}
  <2>1. \A name : PyClass(name) # "none"
    BY DEF PyClass
  <2>2. QED BY <1>3, <2>1 DEF ParsePython
<1>9. ParseSignal(text) # NoSig <=> Of(text, "signal") # {}
  BY <1>3 DEF ParseSignal
<1>10. QED BY <1>4, <1>5, <1>6, <1>7, <1>8, <1>9

(* So a text has no signature exactly when it has no fault line. *)
LEMMA UnparsedIsFaultless ==
    ASSUME NEW text \in Seq(Lines)
    PROVE  Parse(text) = NoSig <=> Faultless(text)
<1> DEFINE Fault == {"ubsan", "asan", "assert", "panic", "frame", "exc", "signal"}
<1>1. Parse(text) = NoSig <=> \A kind \in Fault : Of(text, kind) = {}
  BY ParserRecognizes DEF Parse, OrElse
<1>2. \A i \in DOMAIN text : text[i].by \in Fault \cup {"words"}
  BY LineOf DEF Kinds
<1>3. (\A kind \in Fault : Of(text, kind) = {}) <=> \A i \in DOMAIN text : text[i].by \notin Fault
  BY DEF Of
<1>4. QED BY <1>1, <1>2, <1>3 DEF Faultless

(* unparsed lists the reports without a signature. *)
Unparsed == {unparsed[u] : u \in DOMAIN unparsed} = {i \in DOMAIN stream : Parse(stream[i]) = NoSig}

(* Every step keeps the list. *)
LEMMA StepUnparsed == IInv /\ Unparsed /\ [Next]_vars => Unparsed'
<1> SUFFICES ASSUME IInv, Unparsed, [Next]_vars PROVE Unparsed'
    OBVIOUS
<1> USE DEF Unparsed
<1>1. ASSUME NEW text \in Reports, Reading(text)
      PROVE  {i \in DOMAIN stream' : Parse(stream'[i]) = NoSig} =
                {i \in DOMAIN stream : Parse(stream[i]) = NoSig}
                   \cup (IF Parse(text) = NoSig THEN {Source} ELSE {})
  BY <1>1, StreamGrows DEF IInv
<1>2. ASSUME NEW text \in Reports, Unrecognized(text) PROVE Unparsed'
  <2>1. Reading(text) /\ Parse(text) = NoSig /\ unparsed' = Append(unparsed, Source)
    BY <1>2 DEF Unrecognized
  <2>2. unparsed \in Seq(Nat) /\ Source \in Nat
    BY <2>1, StreamGrows DEF IInv, TypeOK
  <2>3. {unparsed'[u] : u \in DOMAIN unparsed'} =
           {unparsed[u] : u \in DOMAIN unparsed} \cup {Source}
    <3>1. /\ Len(unparsed) \in Nat /\ DOMAIN unparsed = 1..Len(unparsed)
          /\ DOMAIN unparsed' = 1..(Len(unparsed) + 1)
          /\ unparsed'[Len(unparsed) + 1] = Source
          /\ \A u \in DOMAIN unparsed : unparsed'[u] = unparsed[u]
      BY <2>1, <2>2
    <3>2. DOMAIN unparsed' = DOMAIN unparsed \cup {Len(unparsed) + 1}
      BY <3>1
    <3>3. QED BY <3>1, <3>2
  <2>4. QED BY <1>1, <2>1, <2>3
<1>3. ASSUME NEW text \in Reports, NewBucket(text) \/ SameBucket(text) PROVE Unparsed'
  <2>1. Reading(text) /\ Parse(text) # NoSig /\ unparsed' = unparsed
    BY <1>3 DEF NewBucket, SameBucket
  <2>2. QED BY <1>1, <2>1
<1>4. CASE Main
  BY <1>4 DEF Main
<1>5. CASE UNCHANGED vars
  BY <1>5 DEF vars
<1>6. QED BY <1>2, <1>3, <1>4, <1>5 DEF Next

(* A report goes unparsed, past the gate, only if it has no fault line.    *)
THEOREM FaultsAreBucketed == Spec => []OnlyFaultlessUnparsed
<1>1. Init => Unparsed
  BY DEF Init, Unparsed
<1>2. IInv /\ Unparsed => OnlyFaultlessUnparsed
  <2> SUFFICES ASSUME IInv, Unparsed, NEW i \in DOMAIN stream
               PROVE  (\E u \in DOMAIN unparsed : unparsed[u] = i) <=> Faultless(stream[i])
    BY DEF OnlyFaultlessUnparsed
  <2>1. stream[i] \in Seq(Lines)
    BY ReportsAssumption DEF IInv, TypeOK
  <2>2. (\E u \in DOMAIN unparsed : unparsed[u] = i) <=> Parse(stream[i]) = NoSig
    BY DEF Unparsed
  <2>3. QED BY <2>1, <2>2, UnparsedIsFaultless
<1>3. QED BY <1>1, <1>2, StepUnparsed, Invariance, PTL DEF Spec
===============================================================================
