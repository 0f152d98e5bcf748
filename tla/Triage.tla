-------------------------------- MODULE Triage --------------------------------
(***************************************************************************)
(* chassis/triage.py's dedup, format_table and main (220-272): fault       *)
(* reports are read one by one, in whatever order the inputs are listed,   *)
(* collapsed into buckets by signature key, and the exit code on which CI  *)
(* gates is computed from the buckets alone.                               *)
(***************************************************************************)
EXTENDS FaultReports, Integers, FiniteSets

CONSTANTS Reports,      \* the fault reports that may be read
          MaxReports    \* a bound on their number, for TLC

ASSUME MaxReportsAssumption == MaxReports \in Nat
ASSUME ReportsAssumption == Reports \subseteq Seq(Lines)

(* A source is named by its position: files are read in sorted order. *)
VARIABLES stream,       \* the reports read so far
          buckets,      \* dict: key -> [signature, count, sources]
          order,        \* the keys in the dict's insertion order
          unparsed,     \* sources of the reports no parser recognized
          table,        \* the rows printed at the end
          exitCode      \* -1 until main returns

vars == <<stream, buckets, order, unparsed, table, exitCode>>

Init == /\ stream = <<>>
        /\ buckets = [k \in {} |-> <<>>]
        /\ order = <<>>
        /\ unparsed = <<>>
        /\ table = <<>>
        /\ exitCode = -1

Reading(text) == /\ exitCode = -1
                 /\ Len(stream) < MaxReports
                 /\ stream' = Append(stream, text)
                 /\ UNCHANGED <<table, exitCode>>

Source == Len(stream) + 1

Unrecognized(text) == /\ Reading(text)
                      /\ Parse(text) = NoSig
                      /\ unparsed' = Append(unparsed, Source)
                      /\ UNCHANGED <<buckets, order>>

(* Mutant: the report that creates a bucket is not counted. *)
NewBucketUncounted(text) ==
    LET sig == Parse(text)
    IN  /\ Reading(text)
        /\ sig # NoSig
        /\ Key(sig) \notin DOMAIN buckets
        /\ buckets' = [k \in DOMAIN buckets \cup {Key(sig)} |->
                          IF k = Key(sig)
                          THEN [sig |-> sig, count |-> 0, sources |-> <<Source>>]
                          ELSE buckets[k]]
        /\ order' = Append(order, Key(sig))
        /\ UNCHANGED unparsed

(* buckets.setdefault(sig.key(), Bucket(sig)) creates the bucket ... *)
NewBucket(text) ==
    LET sig == Parse(text)
    IN  /\ Reading(text)
        /\ sig # NoSig
        /\ Key(sig) \notin DOMAIN buckets
        /\ buckets' = [k \in DOMAIN buckets \cup {Key(sig)} |->
                          IF k = Key(sig)
                          THEN [sig |-> sig, count |-> 1, sources |-> <<Source>>]
                          ELSE buckets[k]]
        /\ order' = Append(order, Key(sig))
        /\ UNCHANGED unparsed

(* Mutant: the last three sources are kept, not the first three. *)
SameBucketLastSources(text) ==
    LET sig == Parse(text)
    IN  /\ Reading(text)
        /\ sig # NoSig
        /\ Key(sig) \in DOMAIN buckets
        /\ buckets' = [buckets EXCEPT ![Key(sig)] =
                          [sig |-> @.sig, count |-> @.count + 1,
                           sources |-> IF Len(@.sources) < 3
                                       THEN Append(@.sources, Source)
                                       ELSE Append(Tail(@.sources), Source)]]
        /\ UNCHANGED <<order, unparsed>>

(* ... or finds it, with the signature of the report that created it. *)
SameBucket(text) ==
    LET sig == Parse(text)
    IN  /\ Reading(text)
        /\ sig # NoSig
        /\ Key(sig) \in DOMAIN buckets
        /\ buckets' = [buckets EXCEPT ![Key(sig)] =
                          [sig |-> @.sig, count |-> @.count + 1,
                           sources |-> IF Len(@.sources) < 3
                                       THEN Append(@.sources, Source) ELSE @.sources]]
        /\ UNCHANGED <<order, unparsed>>

(* sorted(..., key=count, reverse=True) keeps the order of equal elements. *)
Position(k) == CHOOSE i \in DOMAIN order : order[i] = k
(* Mutant: ascending order, then reversed, which turns ties around. *)
BeforeReversed(k, l) == \/ buckets[k].count > buckets[l].count
                        \/ buckets[k].count = buckets[l].count /\ Position(k) > Position(l)

Before(k, l) == \/ buckets[k].count > buckets[l].count
                \/ buckets[k].count = buckets[l].count /\ Position(k) < Position(l)
Rank(k) == Cardinality({l \in DOMAIN buckets : Before(l, k)}) + 1
Ordered == [r \in 1..Len(order) |-> CHOOSE k \in DOMAIN buckets : Rank(k) = r]

Row(k) == [key |-> k, count |-> buckets[k].count,
           verdict |-> Classify(buckets[k].sig.class), example |-> buckets[k].sources[1]]

(* Mutant: only the most frequent bucket is looked at. *)
TopBucketTrips == order # <<>> /\ Classify(buckets[Ordered[1]].sig.class) = "real"

GateTrips == \E k \in DOMAIN buckets : Classify(buckets[k].sig.class) = "real"

(* Mutant: the exit code is the number of real buckets. *)
MainCountsReal ==
    /\ exitCode = -1
    /\ table' = [r \in DOMAIN Ordered |-> Row(Ordered[r])]
    /\ exitCode' = Cardinality({k \in DOMAIN buckets : Classify(buckets[k].sig.class) = "real"})
    /\ UNCHANGED <<stream, buckets, order, unparsed>>

Main == /\ exitCode = -1
        /\ table' = [r \in DOMAIN Ordered |-> Row(Ordered[r])]
        /\ exitCode' = IF GateTrips THEN 1 ELSE 0
        /\ UNCHANGED <<stream, buckets, order, unparsed>>

Next == \/ \E text \in Reports : Unrecognized(text) \/ NewBucket(text) \/ SameBucket(text)
        \/ Main

Spec == Init /\ [][Next]_vars

--------------------------------------------------------------------------------
(* Properties. *)

(* The sources whose report has key k, and those with no signature. *)
SourcesOf(k) == {i \in DOMAIN stream : Parse(stream[i]) # NoSig /\ Key(Parse(stream[i])) = k}
Faultless(text) == \A i \in DOMAIN text : text[i].by = "words"

TypeOK == /\ stream \in Seq(Reports)
          /\ buckets \in [DOMAIN buckets -> [sig : {Parse(text) : text \in Reports},
                                             count : Nat, sources : Seq(Nat)]]
          /\ unparsed \in Seq(Nat)
          /\ exitCode \in {-1, 0, 1}

(* The verdicts of the reports read so far. *)
Seen == {Classify(Parse(stream[i]).class) : i \in {j \in DOMAIN stream : Parse(stream[j]) # NoSig}}

Promise == INSTANCE Gate WITH Verdicts <- {"real", "shallow", "review"},
                              seen <- Seen, code <- exitCode

(* The gate of CI (main, line 272): triage, which computes the exit code   *)
(* from its buckets and their first signatures, decides as if it had kept  *)
(* the verdict of every report it read, so the order of the files, the     *)
(* buckets and the three sources each remembers make no difference.        *)
ImplementsGate == Promise!Spec

(* Nothing is lost or counted twice: a key has a bucket exactly when some  *)
(* report has that key, and the bucket's count is the number of them.      *)
BucketsExact ==
    /\ \A i \in DOMAIN stream : Parse(stream[i]) # NoSig => Key(Parse(stream[i])) \in DOMAIN buckets
    /\ \A k \in DOMAIN buckets : /\ SourcesOf(k) # {}
                                 /\ buckets[k].count = Cardinality(SourcesOf(k))

(* The sources a bucket remembers are its first ones, at most three, in    *)
(* the order they were read (lines 231-232), so its example is the first.  *)
SourcesAreFirst ==
    \A k \in DOMAIN buckets :
        LET kept == buckets[k].sources
        IN  /\ Len(kept) = (IF Cardinality(SourcesOf(k)) < 3 THEN Cardinality(SourcesOf(k)) ELSE 3)
            /\ \A i \in DOMAIN kept :
                  /\ kept[i] \in SourcesOf(k)
                  /\ Cardinality({j \in SourcesOf(k) : j < kept[i]}) = i - 1

(* The table lists every bucket once, most frequent first, and of equally  *)
(* frequent ones the one met first.                                        *)
TableRanked ==
    exitCode # -1 =>
        /\ {table[r].key : r \in DOMAIN table} = DOMAIN buckets
        /\ \A r, s \in DOMAIN table : r < s =>
              \/ table[r].count > table[s].count
              \/ table[r].count = table[s].count /\ table[r].example < table[s].example

(* A report goes unparsed, and so past the gate, only when it has no fault *)
(* line at all: an unsymbolized or cut-off report is still bucketed.       *)
OnlyFaultlessUnparsed ==
    \A i \in DOMAIN stream :
        (\E u \in DOMAIN unparsed : unparsed[u] = i) <=> Faultless(stream[i])

(* "real: AddressSanitizer memory-safety violations ..." and "Exit code is *)
(* non-zero if any bucket is classified real" (chassis/README.md:30-35):   *)
(* a heap overflow report fails the gate, whatever else its text holds.    *)
HeapOverflowFailsGate ==
    exitCode = 0 => \A i \in DOMAIN stream : \A j \in DOMAIN stream[i] :
        stream[i][j].by = "asan" => stream[i][j].what # "asan-heap-buffer-overflow"
================================================================================
