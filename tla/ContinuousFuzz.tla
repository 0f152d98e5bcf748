---------------------------- MODULE ContinuousFuzz ----------------------------
(***************************************************************************)
(* The jobs config-fuzz (90-134) and gguf-fuzz (139-176) of                *)
(* .github/workflows/continuous-fuzz.yml and chassis/corpus.sh: runs of    *)
(* the workflow that share one cache of corpora, restore it, fuzz, merge,  *)
(* swap, gate on triage and save.  An input is what it covers and how it   *)
(* fails on a version of the upstream library; that the gate is a test on  *)
(* the verdicts of the artifacts is what Triage implements, module Gate.   *)
(***************************************************************************)
EXTENDS Integers, Sequences, FiniteSets

CONSTANTS
    Job,          \* which of the two jobs this is
    Runs,         \* workflow runs (github.run_id)
    Inputs,       \* fuzzing inputs
    Seeds,        \* the inputs checked in under corpus/
    Cov,          \* input -> the coverage features it reaches
    Fault,        \* version -> input -> how it fails, "none" if it runs cleanly
    MaxActive,    \* runs that may be active at a time
    MaxReruns     \* a bound on re-runs, for TLC

(* A verdict of triage on the report of a crash; "elusive": a crash that   *)
(* is judged real when it strikes, and need not strike again, because it   *)
(* depends on what ran before it, or needs more than the 2048 MB that      *)
(* libFuzzer grants merge and replay (the campaign has -rss_limit_mb=4096);*)
(* "heavy": runs cleanly, in more than those 2048 MB; "oom" and "hang",    *)
(* which libFuzzer ends with an artifact of its own kind and a report no   *)
(* parser of triage knows.                                                 *)
Verdicts == {"shallow", "review", "real", "unparsed"}
Faults == Verdicts \cup {"none", "elusive", "heavy", "oom", "hang"}

ASSUME InputsAssumption == IsFiniteSet(Inputs)
ASSUME JobAssumption == Job \in {"config", "gguf"}
ASSUME SeedsAssumption == Seeds \subseteq Inputs /\ Seeds # {}
ASSUME FaultAssumption == /\ Len(Fault) > 0
                          /\ Fault \in Seq([Inputs -> Faults])
ASSUME BoundsAssumption == MaxActive \in Nat \ {0} /\ MaxReruns \in Nat

VARIABLES
    cache,       \* saved entries [run, corpus, from], in the order of creation
    version,     \* the upstream version pip installs now
    pc,          \* per run: the step it is about to take
    installed,   \* per run: the version it installed
    restored,    \* per run: the index of the entry it restored, 0 if none
    corpus,      \* per run: corpus_run
    corpusMin,   \* per run: corpus_min
    cut,         \* per run: was its merge cut short?
    artifacts,   \* per run: the inputs in artifacts/
    died,        \* per run: did its campaign end with neither time up nor artifact?
    spent,       \* per run: minutes it has lost to inputs that hang
    reruns

work == <<corpus, corpusMin, cut, artifacts, died, spent>>
vars == <<cache, version, pc, installed, restored, work, reruns>>

Active == {r \in Runs : pc[r] \notin {"idle", "green", "red"}}
Covered(S) == UNION {Cov[i] : i \in S}

(* Of the inputs in S, on version v: those that cannot end a campaign,     *)
(* those that may, and those that do; those a merge is bound to run to     *)
(* their end.                                                              *)
Clean(v, S) == {i \in S : Fault[v][i] \in {"none", "heavy"}}
Elusive(v, S) == {i \in S : Fault[v][i] = "elusive"}
Striking(v, S) == S \ Clean(v, S)
Crashing(v, S) == Striking(v, S) \ Elusive(v, S)
Hanging(v, S) == {i \in S : Fault[v][i] = "hang"}
Mergeable(v, S) == {i \in S : Fault[v][i] = "none"}

(* Minutes.  libFuzzer gives one input 1200 seconds. *)
UnitTimeout == 20

(* Mutant: timeout-minutes is raised to let the replay of a hang finish. *)
RaisedLimit == 60

(* timeout-minutes *)
JobLimit == IF Job = "config" THEN 20 ELSE 30

(* Run r meets the inputs met that hang, one after the other, and is still *)
(* within its time limit; else the runner is about to stop it, JobDies.    *)
Loses(r, met) == LET minutes == UnitTimeout * Cardinality(met)
                 IN  /\ spent[r] + minutes < JobLimit
                     /\ spent' = [spent EXCEPT ![r] = @ + minutes]

Init == /\ cache = <<>>
        /\ version = 1
        /\ pc = [r \in Runs |-> "idle"]
        /\ installed = [r \in Runs |-> 1]
        /\ restored = [r \in Runs |-> 0]
        /\ corpus = [r \in Runs |-> {}]
        /\ corpusMin = [r \in Runs |-> {}]
        /\ cut = [r \in Runs |-> FALSE]
        /\ artifacts = [r \in Runs |-> {}]
        /\ died = [r \in Runs |-> FALSE]
        /\ spent = [r \in Runs |-> 0]
        /\ reruns = 0

(* pip install transformers: the newest release, pinned to nothing; for    *)
(* the job gguf-fuzz, a push that moves the pin of llama.cpp.              *)
UpstreamReleases == /\ version < Len(Fault)
                    /\ version' = version + 1
                    /\ UNCHANGED <<cache, pc, installed, restored, work, reruns>>

(* A fresh checkout on a fresh runner, up to "Install harness deps". *)
Begin(r) == /\ Cardinality(Active) < MaxActive
            /\ pc' = [pc EXCEPT ![r] = "restore"]
            /\ installed' = [installed EXCEPT ![r] = version]
            /\ UNCHANGED <<cache, version, restored, work>>

(* The job is over, and its runner is thrown away with all it holds. *)
End(r, colour) == /\ pc' = [pc EXCEPT ![r] = colour]
                  /\ installed' = [installed EXCEPT ![r] = 1]
                  /\ restored' = [restored EXCEPT ![r] = 0]
                  /\ corpus' = [corpus EXCEPT ![r] = {}]
                  /\ corpusMin' = [corpusMin EXCEPT ![r] = {}]
                  /\ cut' = [cut EXCEPT ![r] = FALSE]
                  /\ artifacts' = [artifacts EXCEPT ![r] = {}]
                  /\ died' = [died EXCEPT ![r] = FALSE]
                  /\ spent' = [spent EXCEPT ![r] = 0]
                  /\ UNCHANGED <<version, reruns>>

Start(r) == /\ pc[r] = "idle"
            /\ Begin(r)
            /\ UNCHANGED reruns

(* "Re-run jobs": a new attempt with the same run_id. *)
Rerun(r) == /\ pc[r] \in {"green", "red"}
            /\ reruns < MaxReruns
            /\ reruns' = reruns + 1
            /\ Begin(r)

EntriesOf(r) == {e \in DOMAIN cache : cache[e].run = r}

(* actions/cache: the exact key, else the newest entry with the prefix. *)
Hit(r) == IF EntriesOf(r) # {} THEN CHOOSE e \in EntriesOf(r) : TRUE ELSE Len(cache)

(* What cache entry e holds; nothing was restored when it is 0. *)
Stored(e) == IF e = 0 THEN {} ELSE cache[e].corpus

RestoreCache(r) ==
    /\ pc[r] = "restore"
    /\ restored' = [restored EXCEPT ![r] = Hit(r)]
    /\ corpus' = [corpus EXCEPT ![r] = Stored(Hit(r))]
    /\ pc' = [pc EXCEPT ![r] = "fuzz"]
    /\ UNCHANGED <<cache, version, installed, corpusMin, cut, artifacts, died, spent, reruns>>

(* corpus.sh seed: copies the seeds into an empty corpus only. *)
Seeded(S) == IF S = {} THEN Seeds ELSE S

(* The campaign of run r leaves the artifacts left. *)
Leaves(r, left) == /\ artifacts' = [artifacts EXCEPT ![r] = left]
                   /\ Loses(r, Hanging(installed[r], left))
                   /\ pc' = [pc EXCEPT ![r] = "merge"]
                   /\ UNCHANGED <<cache, version, installed, restored, corpusMin, cut, reruns>>

(* Inputs with new coverage that ran without a fault are appended. *)
Appends(r, loaded) ==
    LET fresh == {i \in Inputs \ loaded : /\ i \notin Crashing(installed[r], Inputs)
                                          /\ ~(Cov[i] \subseteq Covered(loaded))}
    IN  \E found \in SUBSET fresh : corpus' = [corpus EXCEPT ![r] = loaded \cup found]

(* A stored input that now fails ends the campaign as it is loaded ...     *)
CampaignStopsOnStored(r) ==
    LET loaded == Seeded(corpus[r])
    IN  /\ pc[r] = "fuzz"
        /\ \E c \in Striking(installed[r], loaded) : Leaves(r, {c})
        /\ corpus' = [corpus EXCEPT ![r] = loaded]
        /\ UNCHANGED died

(* ... else the campaign goes on until the time is up or an input ends it  *)
(* (|| true keeps the job going) ...                                       *)
CampaignRuns(r) ==
    LET loaded == Seeded(corpus[r])
    IN  /\ pc[r] = "fuzz"
        /\ Crashing(installed[r], loaded) = {}
        /\ Appends(r, loaded)
        /\ \E left \in {{}} \cup {{c} : c \in Striking(installed[r], Inputs)} : Leaves(r, left)
        /\ UNCHANGED died

(* ... or the fuzzer dies, at any moment, in a way that leaves no artifact *)
(* (a kill, an import that fails), which || true hides as well.            *)
CampaignDies(r) ==
    /\ pc[r] = "fuzz"
    /\ Appends(r, Seeded(corpus[r]))
    /\ Leaves(r, {})
    /\ died' = [died EXCEPT ![r] = TRUE]

(* -merge=1 corpus_min corpus_run: a subset with the coverage of all that  *)
(* ran to its end; an input that fails, of the memory limit too, or hangs  *)
(* is skipped, a hang after its timeout.                                   *)
Merged(v, S) == {M \in SUBSET (Mergeable(v, S) \cup Elusive(v, S)) :
                    Covered(Mergeable(v, S)) \subseteq Covered(M)}

(* Nobody looks at its exit code: a merge that was cut short leaves any    *)
(* part of it, and has met any of the inputs that hang.                    *)
Merge(r) ==
    LET v == installed[r]
    IN  /\ pc[r] = "merge"
        /\ \E short \in BOOLEAN, met \in SUBSET Hanging(v, corpus[r]),
              part \in SUBSET (Mergeable(v, corpus[r]) \cup Elusive(v, corpus[r])) :
              /\ short \/ (part \in Merged(v, corpus[r]) /\ met = Hanging(v, corpus[r]))
              /\ corpusMin' = [corpusMin EXCEPT ![r] = part]
              /\ cut' = [cut EXCEPT ![r] = short]
              /\ Loses(r, met)
        /\ pc' = [pc EXCEPT ![r] = "swap"]
        /\ UNCHANGED <<cache, version, installed, restored, corpus, artifacts, died, reruns>>

(* Mutants: mv without the rm -rf, which moves corpus_min into corpus_run; *)
(* a swap that does not look whether corpus_min is empty.                  *)
SwapNesting(r) == /\ pc[r] = "swap"
                  /\ corpus' = [corpus EXCEPT ![r] = @ \cup {corpusMin[r]}]
                  /\ corpusMin' = [corpusMin EXCEPT ![r] = {}]
                  /\ pc' = [pc EXCEPT ![r] = "gate"]
                  /\ UNCHANGED <<cache, version, installed, restored, cut, artifacts, died, spent,
                                  reruns>>

SwapUnguarded(r) == /\ pc[r] = "swap"
                    /\ corpus' = [corpus EXCEPT ![r] = corpusMin[r]]
                    /\ corpusMin' = [corpusMin EXCEPT ![r] = {}]
                    /\ pc' = [pc EXCEPT ![r] = "gate"]
                    /\ UNCHANGED <<cache, version, installed, restored, cut, artifacts, died, spent,
                                  reruns>>

(* if corpus_min is not empty: rm -rf corpus_run && mv corpus_min corpus_run *)
Swap(r) == /\ pc[r] = "swap"
           /\ IF corpusMin[r] # {}
              THEN /\ corpus' = [corpus EXCEPT ![r] = corpusMin[r]]
                   /\ corpusMin' = [corpusMin EXCEPT ![r] = {}]
              ELSE UNCHANGED <<corpus, corpusMin>>
           /\ pc' = [pc EXCEPT ![r] = "gate"]
           /\ UNCHANGED <<cache, version, installed, restored, cut, artifacts, died, spent,
                                  reruns>>

(* Mutant: triage piped into tee without pipefail loses its exit code. *)
GateIgnored(reports) == FALSE

(* Triage of the reports on the artifacts, as module Gate promises it.     *)
Triage(reports) == INSTANCE Gate WITH seen <- reports, code <- -1
GateTrips(reports) == Triage(reports)!Tripped

(* The reports are those of a replay: an elusive crash is reported if it   *)
(* strikes again, and no oom-* artifact is replayed.                       *)
Reports(r, struck) == ({Fault[installed[r]][a] : a \in artifacts[r]} \cap Verdicts)
                         \cup {"real" : a \in struck}

(* Only the gguf job replays timeout-* artifacts, || true. *)
Replayed(r) == IF Job = "gguf" THEN Hanging(installed[r], artifacts[r]) ELSE {}

GatePasses(r) == /\ pc[r] = "gate"
                 /\ \E struck \in SUBSET Elusive(installed[r], artifacts[r]) :
                       ~GateTrips(Reports(r, struck))
                 /\ Loses(r, Replayed(r))
                 /\ pc' = [pc EXCEPT ![r] = "save"]
                 /\ UNCHANGED <<cache, version, installed, restored, corpus, corpusMin,
                                cut, artifacts, died, reruns>>

GateFails(r) == /\ pc[r] = "gate"
                /\ \E struck \in SUBSET Elusive(installed[r], artifacts[r]) :
                      GateTrips(Reports(r, struck))
                /\ End(r, "red")
                /\ UNCHANGED cache

(* Mutant: corpus_min is what is saved. *)
SaveWrongPath(r) ==
    /\ pc[r] = "save"
    /\ IF EntriesOf(r) = {}
       THEN cache' = Append(cache, [run |-> r, corpus |-> corpusMin[r], from |-> restored[r]])
       ELSE UNCHANGED cache
    /\ End(r, "green")

(* The post step of actions/cache: only a job that succeeded saves, and an *)
(* existing key is never overwritten.                                      *)
Save(r) == /\ pc[r] = "save"
           /\ IF EntriesOf(r) = {}
              THEN cache' = Append(cache, [run |-> r, corpus |-> corpus[r], from |-> restored[r]])
              ELSE UNCHANGED cache
           /\ End(r, "green")

(* The time limit, a cancelled run, a lost runner, a failing self-test.   *)
JobDies(r) == /\ r \in Active
              /\ End(r, "red")
              /\ UNCHANGED cache

Next == \/ UpstreamReleases
        \/ \E r \in Runs :
              \/ Start(r) \/ Rerun(r) \/ RestoreCache(r)
              \/ CampaignStopsOnStored(r) \/ CampaignRuns(r) \/ CampaignDies(r)
              \/ Merge(r) \/ Swap(r) \/ GatePasses(r) \/ GateFails(r)
              \/ Save(r) \/ JobDies(r)

Spec == Init /\ [][Next]_vars

--------------------------------------------------------------------------------
(* Properties. *)

PCs == {"idle", "restore", "fuzz", "merge", "swap", "gate", "save", "green", "red"}

TypeOK == /\ cache \in Seq([run : Runs, corpus : SUBSET Inputs, from : Nat])
          /\ version \in DOMAIN Fault
          /\ pc \in [Runs -> PCs]
          /\ installed \in [Runs -> DOMAIN Fault]
          /\ restored \in [Runs -> Nat]
          /\ corpus \in [Runs -> SUBSET Inputs]
          /\ corpusMin \in [Runs -> SUBSET Inputs]
          /\ cut \in [Runs -> BOOLEAN]
          /\ artifacts \in [Runs -> SUBSET Inputs]
          /\ died \in [Runs -> BOOLEAN]
          /\ spent \in [Runs -> 0..JobLimit]
          /\ reruns \in 0..MaxReruns

(* An empty corpus is never saved (the guard on corpus_min, line 124): not *)
(* after a merge that was cut short, nor when every input now crashes.     *)
NeverSavesEmpty == \A e \in DOMAIN cache : cache[e].corpus # {}

(* Coverage accumulates (corpus.sh:4) along one lineage: an entry covers   *)
(* all that the entry it was built on covers with the inputs that still    *)
(* run cleanly, whatever runs fail, are re-run or overlap, unless the      *)
(* merge was cut short, which minimize hides (corpus.sh:40).  An input     *)
(* that needs more memory than the merge grants itself is lost each time.  *)
LineageAccumulates ==
    [][cache' # cache =>
        LET e == cache'[Len(cache')]
            built == Seeded(Stored(e.from))
        IN  \/ cut[e.run]
            \/ Covered(Mergeable(installed[e.run], built)) \subseteq Covered(e.corpus)]_vars

(* "a genuine new crash fails the job (gate)" (workflow lines 5-7), also   *)
(* one of a stored input on a new release.  A run is green over a crash    *)
(* that is real and sure to strike only if its campaign never met it:      *)
(* because another input ended it first, one that fails in a lesser way or *)
(* does not fail again when it is replayed, or because the fuzzer died.    *)
GenuineCrashFailsJob ==
    \A r \in Runs : pc[r] = "save" =>
        /\ \A i \in artifacts[r] : Fault[installed[r]][i] # "real"
        /\ Crashing(installed[r], Seeded(Stored(restored[r]))) # {} => artifacts[r] # {} \/ died[r]

(* No run whose campaign met a hang goes green, in either job: its time    *)
(* limit ends it, while the hang is met or while it is replayed (line      *)
(* 173), and nothing else does, since triage takes the report of a timeout *)
(* for no fault.  A green run has lost time to a hang only in its merge,   *)
(* to a stored input, after a campaign that another input or the death of  *)
(* the fuzzer had ended.                                                   *)
HangNeverGreen ==
    \A r \in Runs : pc[r] = "save" =>
        /\ Hanging(installed[r], artifacts[r]) = {}
        /\ spent[r] > 0 => /\ Hanging(installed[r], Seeded(Stored(restored[r]))) # {}
                           /\ artifacts[r] # {} \/ died[r]
================================================================================
