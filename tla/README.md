# mapfuzz in TLA+

mapfuzz fuzzes the parsers of machine-learning file formats. What it computes is
mostly done by libraries (libFuzzer, Atheris, the sanitizers, the parser under
test); what it *decides* is its own: whether a loader that ran away was bounded,
whether a fault fails the nightly job, what is kept of a corpus, which exceptions
are rejections, which build a binary is, which claim is published. A wrong decision
is silent, because the job is green. The modules in this directory specify those decisions
with the processes, steps and failures around them. TLC checks them on small
instances, and TLAPS proves all but the two liveness properties for every value of the
constants.

Line numbers below are those of the repository's files.

## The system

| Component | State it keeps | Operations | Hard behaviour | Correct when |
|---|---|---|---|---|
| Resource oracle, `chassis/resource_oracle.py` | a spawned child, the queue's pipe, the deadline, a list of failures | `run_capped`, `assert_guards_class`, `_selftest` | child, feeder thread, parent, deadline, SIGTERM and OOM killer interleave; the cap may be refused; a report may be torn or too large | an outcome is true of the loader, no child is left behind, the guard has no false pass, the call returns |
| Crash triage, `chassis/triage.py` | buckets by signature, unparsed sources | `parse_report`, `classify`, `dedup`, `format_table`, `main` | first parser wins; a bucket keeps its first signature and three sources; order of the files | the exit code says whether a real fault was read, whatever the order |
| Corpus persistence, `chassis/corpus.sh` and the jobs `config-fuzz` and `gguf-fuzz` of `.github/workflows/continuous-fuzz.yml` | the cache of corpora shared by runs; each runner's disk | restore, seed, fuzz, merge, swap, replay, gate, save, re-run | overlapping runs, jobs that die at any step, merges cut short behind `\|\| true`, hangs against the time limit of the job, two memory limits, a new upstream release | nothing empty is saved, coverage is kept, a run whose campaign met a hang or a crash that is sure to strike never passes |
| Python harness oracles, `targets/*/harness/*.py`, and the differential tokenizer oracle | none beyond the current input | `TestOneInput` | order of `except` clauses against the class hierarchy; two paths, or two encoders, for one input | what is interesting escapes, both paths are taken, a divergence is exactly an artifact |
| Gates of the `config-fuzz` and `differential-fuzz` jobs | the artifact of the campaign | campaign, triage or `test -e`, exit | `\|\| true` hides the exit code of the campaign | red is exactly a divergence, or a replay that is judged real |
| C++ harnesses, `targets/{gguf,minja_template,clip_mmproj}/harness` | a temporary file (clip) | size and nesting guard, load, `catch` clauses, unlink | early returns, exceptions of any class, brackets in string literals | the file goes on every path, the guard bounds the nesting |
| Structure-stable generators (pytorch, tokenizers) | none | decode bytes to a pickle or a config | offsets, padding, slots unused | one byte is one field |
| FuzzedDataProvider generators (flax, transformers) | the rest of the input; the call stack | recursive value generators | depth and size bounds, exhausted data | nesting and size are bounded by the input, every run ends |
| GGUF build, `targets/gguf/build.sh` | checkout, objects and binary in a work directory that outlives a build | clone, fetch, checkout, reset, patch, count, compile, link | failed and killed builds, change of pin, a patch that is partly there | a binary is exactly what was asked for |
| Evidence base, `evidence/tool.py`, `evidence-check.yml` | `claims.yaml`, `claims.md` | check, render, push | any order of edits, hand edits, renderings and pushes | what is published is complete and its citations resolve |
| Rust harness, OSS-Fuzz and ClusterFuzzLite layouts, minja and pip builds, seed generators, jobs of one command | none | hand an input to the library; straight-line builds | none | without a decision of their own |

How they interact: a campaign of a harness leaves crash artifacts; the workflow
replays them and pipes the reports into triage, whose exit code is the gate of the
job; the same job restores and saves the corpus that the next campaign starts from. The
workflow also runs the self-test of the resource oracle. A build script makes the
binaries of a campaign. Findings end up in the evidence base, which has a workflow of
its own.

## The modules

| Module | Models | Correspondence |
|---|---|---|
| `CappedCall` | what a caller of `run_capped` may rely on (abstract) | calls one after the other, each with one `Answer`, which is `Honest` about the loader |
| `RunCapped` | `run_capped` and `_child`, lines 42-90 | `parent` and `child` are the two processes' control points; `msg`, `pending`, `inPipe` the queue, its feeder thread and its pipe; one action per statement that can interleave: `JoinSeesExit`/`JoinTimesOut` (82), `CheckAlive` (83-84), `Reap` (85-86), `PollFinds...` (87-90), `GetReport` (88) |
| `ResourceOracle`, `MCResourceOracle` | `assert_guards_class` and `_selftest` on top of `RunCapped` | a suite of cases; two calls a case; `BombDone` and `BenignDone` read the outcome and start the next call |
| `FaultReports` | the six parsers and `classify` | a report is the sequence of lines some parser matches; one operator per parser |
| `Gate` | what a triage step promises its job (abstract) | sees verdicts in any order, then decides once |
| `Triage`, `MCTriage` | `dedup`, `format_table`, `main` | reading a report is `Unrecognized`, `NewBucket` or `SameBucket`; `Main` ranks and exits |
| `ContinuousFuzz`, `MCContinuousFuzz` | the jobs `config-fuzz` and `gguf-fuzz` (`Job` says which) and `corpus.sh` | one action per workflow step and run; the end of a job throws its runner away; `spent` are the minutes lost to inputs that hang, in the campaign, the merge and the replay, against `timeout-minutes` (`Loses`); `Reports` is what a replay shows of the artifacts |
| `Harnesses` | eight Python and four C++ test functions as tables | a stage is a call, the `except` or `catch` clauses around it in order, and what follows |
| `NestingGuard` | the scan of the minja harnesses | `Depth` is the scan, `NestsWithin` bounds the nesting a parser meets, by its definition |
| `HarnessOracle`, `MCHarnessOracle` | campaigns under the tables of `Harnesses`, and the gates of two jobs | `GoesOn`, `Suppress`, `Record` by `Fate`, the language's choice of a clause; `Overruns` is libFuzzer's own memory and time limit; `Gate` parses what a replay of the artifact may print (`Replays`) with `FaultReports` |
| `StableDecode` | two fixed-layout decoders | `Decoded` is a function of the input; the fuzzer overwrites, appends and drops bytes |
| `Generators` | `_make_value`, `_make_state`, `_rand_value` with `_build_dict` | the recursion is a stack of containers being filled; a draw from exhausted data gives the least value |
| `GgufBuild`, `MCGgufBuild` | `build.sh` | one action per command; `Fails` is `set -e`; `ResetFails` is the failure that `\|\| true` hides (39); what outlives a build is state |
| `Evidence`, `MCEvidence` | `tool.py` and the workflow | edits of the researcher, who may leave claims.md out of version control (`Track`, `Untrack`), `RunRender`, `RunTool`, `Push` |
| `X_proofs` | theorems about `X`, for `ResourceOracle` (with those about `RunCapped`), `Triage`, `ContinuousFuzz`, `HarnessOracle` (with those about `Harnesses` and `NestingGuard`), `Generators`, `StableDecode`, `GgufBuild`, `Evidence` | the helper lemmas on numbers and ranks (`NatMin`, `UpTo`, `RanksAreNumbers`) stand in each module that needs them |

The modules compose as the parts do. `ResourceOracle` EXTENDS `RunCapped`, one call after
the other, and the whole of it implements `CappedCall` (`Call == INSTANCE CappedCall`).
`Triage` implements `Gate` (`Promise == INSTANCE Gate WITH seen <- Seen`, where `Seen` is the
verdict of every report read, which triage itself does not keep); and `ContinuousFuzz` uses of
triage only what `Gate` promises (`Triage(r) == INSTANCE Gate WITH ...`). `HarnessOracle`
goes through the parsers of `FaultReports` itself, to see what becomes of each exception.

What is outside the repository is modelled from its use: CPython's
`multiprocessing.Queue` (put hands the message to a feeder thread; a process does not
exit before the feeder is done; the pipe is bounded; the parent holds a write end too),
the OOM killer, `actions/cache` (exact key, else newest entry of the prefix; only a
successful job saves; a key is never overwritten), libFuzzer's merge, `git checkout`
and `git apply`, Python's `try`.

## The runs

| Run | Question | Bounds and why they are enough |
|---|---|---|
| `oracle_races` | is every outcome honest, no child left behind, a calm timeout the loader's fault? has the guard a false pass or a false alarm, the self-test a green without a cap? does a suite end? | all ten loader behaviours, three of which may keep their report from being put, each pair of them as bomb and benign input, and the three cases of the self-test, whose loop loader (it appends to a list) may meet the memory cap first; cap granted or not, calm machine or loaded, the OOM killer while the child boots, runs or exits; a pipe of 3 writes, so that short and two-write reports fit and a huge one (4) does not |
| `capped_torn` | "Process died without reporting: treat as exhausted" (line 89): does the call always return? Violated | a two-write report and a kill between the writes |
| `triage_streams` | does triage implement the gate? are buckets, sources and table exact, and only faultless reports unparsed? | sequences of up to 5 reports of 8 kinds: enough for a bucket to outgrow its three sources, for ties in the table and for two classes at one location |
| `triage_masked` | does a heap overflow always fail the gate? Violated | one report with a recovered UBSan line first |
| `corpus_runs` | what may be in the cache, and does a crash or a hang pass the gate? | the gguf job, which replays hangs too; 2 runs that overlap, 1 re-run, so three jobs and a lineage or a fork of them; 2 library versions, 4 inputs over 4 features, one covered twice: a merge that drops an input, a seed too large to merge, a hang, an out-of-memory, a crash that does not repeat, one that does and is new with the release, and a fuzzer that dies all occur, each alone and next to another in one corpus. `config-fuzz` has the same theorems |
| `harness_all` | are RecursionError, panics and native faults recorded, both config paths taken, the temporary file removed? is the nesting guard exact, an artifact a divergence, a job's colour its artifact's? | every exception class at every call of eleven harnesses; every template of up to five symbols, one past the size limit, with a depth limit of 1; a memory or a time limit met at any call, every sort of panic message, and replays that show nothing |
| `harness_recursion` | is RecursionError recorded by the rebuild-args harness? Violated | |
| `generators` | is nesting bounded or paid for, is the size linear, does each run end? | inputs of up to 12 bytes: config lists nest past the depth test up to a recursion limit of 7 (1000 in Python), which is met |
| `generator_depth` | "deep nesting (recursion surface), still bounded" (line 100 of the config harness): by its depth test? Violated | |
| `build_pins` | is a binary what was asked for, and can a build be run again? | 3 pins, two with the same `gguf.cpp`, one a hunk does not fit; a whole patch file, one without a hunk, one with that hunk only and one that mentions the marker elsewhere, so that what a reset left behind may or may not collide with what is applied; builds of any number |
| `evidence_base` | is a green push complete, do its citations resolve, does what the tool vouched for pass? | files of up to 3 claims over 3 ids: duplicates, self citations, orphaned citations and a claim of each flawed sort; claims.md tracked or not |
| `decode_local` | does a one-byte step change at most one field, and padding none? | every input up to one byte past the layout over 3 byte values (zero, and two that select different classes in both nibbles), two dimensions, no pool |

Bounds in guards: `MaxReports`, `MaxActive`, `MaxReruns`, `MaxClaims`, and in
`StableDecode` one byte past the layout. `SYMMETRY` is used in `corpus_runs`, on runs, which no
definition tells apart; its properties are invariants and one property of single steps, and
renaming runs takes a step to a step that satisfies it as well.
`CHECK_DEADLOCK FALSE` is set where the system stops by itself (a call, a suite, a triage, a
job, a campaign and a generator end); builds, edits and the mutations of a fuzzer never do, and
there deadlock is checked.

### Fairness

`RunCapped` and `ResourceOracle` assume weak fairness of the child's, of the parent's and of the
caller's steps: the operating system schedules both processes, delivers SIGTERM and lets the
deadline pass. Nothing obliges the OOM killer to strike. `Generators` is one thread that
nothing interrupts, so its `Next` is weakly fair. The other modules claim no liveness and
assume none: a workflow run can be cancelled, a researcher can stop.

## What is proved

TLAPS checks eight modules. The only assumptions are those named on the constants, which TLC
evaluates in the runs: types of the constants (harnesses that exist, reports made of lines,
templates made of symbols, claims made of fields, bounds that are numbers), a pipe of at
least two writes, at least one seed and one version, a finite set of hunks.

What a recursive definition computes is proved where a property needs it: the depth of a scan,
the superclasses of an exception, the children a stack owes, the sections of a rendering. Each is
a recursive function over `0..n`, bounded by the length of what it walks through, so no
induction theorem with an operator as parameter is called for: `NatMin` (a set of numbers
with a member has a least one, from the well-foundedness of `<`) gives `UpTo` (a set that
has 0 and is closed under the next number has them all), and one lemma a function
(`DepthUnfolds`, `MroUnfolds`, `OwedUnfolds`, `WrittenUnfolds`) shows with it that the
recursion has a solution and so that the definition unfolds.

`ResourceOracle_proofs` begins with `RunCapped`, for any capacity of the pipe, any set of
behaviours and any kill points:
`TypeCorrect`, `LeavesNoOrphan`, `CalmTimeout` and `Refinement` (RunCapped implements
CappedCall). None of the invariants is inductive as it stands: that "exhausted" is
honest when the queue is found empty needs to know why a dead child said nothing.
`IInv` adds that a queued message is true of the loader (`MsgHonest`), that a silent
child had a reason (`SilenceExplained`), that writes are neither lost nor invented
before the parent reads (`WritesAccounted`), what the parent knows at each control point
(`ParentKnows`), and on a calm machine who can be waited for in vain (`StuckBehaviour`). Each
step of `Next` is one case. Refinement then maps every step to a stutter but the OOM killer's and the
three that return an outcome, which are `Answer`s.

Its second half is about any suite: `GuardHasNoFalsePass`, `GreenNeedsCap`,
`GuardHasNoFalseAlarm`, `SelftestTellsTheCap` and
`SuiteOfHonestCalls` (the suite implements CappedCall too, the start of a call being its
`NewCall`). `OInv` is `IInv` of the current call, the honesty of its outcome, what a second
call of a case knows of the first (`BombJudged`), whose doing a complaint on a calm machine is
(`AlarmIsReal`) and what an exit code means (`Progress`); a call starts in `IInv` whatever the last one
left (`StartCallIInv`), so one lemma carries the proof of RunCapped over.

`Triage_proofs`, for any set of reports and any number of them:

- `TypeCorrect`; `Implements`: triage implements the gate that remembers every verdict, although
  main looks only at the signature of the first report of each bucket. The invariant adds that
  a bucket's signature has the key of the bucket (`SignaturesFromStream`) and that each report has
  one (`ReportsBucketed`), and a key determines the class and thereby the verdict.
- `NothingLost`: a bucket counts exactly the reports of its key; `FirstSourcesKept`: it
  remembers the first three of them. Both by induction on the reading of one more report, with the
  cardinality theorems of the library.
- `TableInOrder`: the table is sorted and complete. A row's place is one more than the number of
  buckets ahead of it; ahead is a strict total order because a bucket's first source is its
  own and the dictionary lists buckets in the order of these (`OrderInv`), and in such an order the
  places are the numbers up to the number of buckets, each once (`RanksAreNumbers`).
- `FaultsAreBucketed`: a report goes unparsed exactly if it has no fault line, by one case a
  parser (`ParserRecognizes`).

`HarnessOracle_proofs`, for campaigns under any of the twelve harnesses, and for templates and
bounds of any size: `RecursionNeverDropped` (for all but rebuild_args and the differential
harness, which drop them, see below), `PanicNeverDropped`, `JsonPathIsTried`, `NoFileLeft`, `OracleIsExact`, `JobColours`,
`GuardIsExact`.

- The tables are shown to be sound once (`TablesSound`: each names stages that exist, and no
  clause of any of them catches a panic or a fault), and the clause the language chooses is reasoned
  about by the superclasses of an exception (`MroUnfolds`, `FourLevels`).
- The properties together are inductive once the invariant says what earlier stages of the
  same input established: what the guard answered is what the scan says of this template
  (`GuardAnswered`), the dict path of the config harness gives nothing before it has returned
  (`DictPathAhead`), both encoders ran before their answers are compared (`EncodersRun`).
- `ScanIsNesting`: the depth with a clamp at zero is the largest surplus of opening over closing
  brackets in a stretch that ends where the scan is (`DepthIsSurplus`, kept by each symbol), so
  its maximum is the largest surplus of any stretch.

`ContinuousFuzz_proofs`, for either job, any inputs, coverage, faults and versions, any number of
runs: `TypeInvariance`, `SavesNoEmpty`, `CrashFailsJob`, `HangIsNeverGreen`,
`LineageKept`. The invariant says of each run what it knows, step by step, of the entry it restored
(`RunOK`): until the swap its corpus contains that entry's, after it covers it unless the merge
was cut short; a restored input that is sure to fail has left an artifact, or the fuzzer died; a
hang among the artifacts has taken its 20 minutes, so that the replay of the gguf job is over the
limit; and without a hang among the artifacts or in the restored entry no time was lost. Entries are
never changed or removed, so what a run knows survives the saves of others.

`GgufBuild_proofs`, for any commits, contents, patch files and pins: `TypeCorrect`, `AlwaysRetries`,
`BuildsWhatWasAsked`. `Progress` says how much of what an earlier build left has been
overwritten at each command: nothing before the reset, the whole work tree after it, and of a
reset that failed only that the count of the hunks, once it has been passed, leaves no room for
more than the patch has (a finite set of as many members as a subset of it is that subset).

`Generators_proofs`, for inputs of any length: `NestingIsPaid`. That a level past the depth test
costs two bytes is not inductive, because the length of a list is drawn before its elements:
`TopPaid` adds that a frame with children left to build has been paid for already. `SizeIsLinear`
is inductive with it: a leaf or a closed container takes from the sum, a container adds at most
what the two bytes before it allow (`Allowance`), and the sum of a stack splits at its top
(`TotalSplits`). `RunsDescend` is the part of `Completes` that is not about fairness: every step
lowers `Remaining`, a natural number in which a byte weighs what it may pay for.

`StableDecode_proofs`, for any number of dimensions, pool and bytes: `FlipsAreLocal` and
`PaddingIsIgnored`, from the fact that a field reads offsets of its own.

`Evidence_proofs`, for any claims and any number of them: `TypeCorrect`, `WhatIsVouchedPasses`,
since rendering a file that is up to date changes nothing, and, of a tracked claims.md with a green verdict,
`GreenPublishesAll` and `GreenCitationsResolve`. The invariant says that a verdict was not outlived
by the files it is about. The rest is about the rendering: a section lists the claims of its kind, each one
once (`SectionLists`, by ranks again), sections put end to end list those of all kinds
(`RenderLists`), which is every claim of a valid file (`ValidIsListed`). As many
entries as claims and the same claims is one entry a claim (`EachIdOnce`, by counting), so an id
leads to one of them.

Model-checked only:

- Liveness: `SuiteEnds` and `Completes`. Fairness and ENABLED are out of the prover's reach; that
  a generator does not step for ever is proved (`RunsDescend`).
- The four disagreements below: a violation is a behaviour, and TLC shows it.

Every other property of a run is the statement of a theorem.

## Where code and text disagree

Four disagreements have a run and a finding:

- `run_capped` may wait for ever on a torn report (`capped_torn`).
- A UBSan line hides an ASan heap overflow from the gate (`triage_masked`).
- The stable rebuild-args harness suppresses RecursionError as a RuntimeError, before its own
  clause that re-raises it (`harness_recursion`).
- The depth test of the config generator stops dicts and not lists (`generator_depth`): input bytes, two a
  level, and Python's recursion limit are what bounds the nesting (`NestingPaid`), and at that
  limit the input is dropped.

Others were met while reading; no run is spent on them:

- `fuzz_gguf_reader.py:75`: ValueError is suppressed before the clause that re-raises its
  subclass UnicodeDecodeError (83-86), which line 16 lists as interesting.
- `resource_oracle.py:82`: a loader that raises at once with a message larger than the pipe is
  a timeout, and not REJECTED (73). `TimeoutMeansStuck` states exactly this exception.
- `triage.py:195`: "ASan memory-corruption family is always real", but dynamic-stack-buffer-overflow
  and container-overflow match no prefix and are judged review.
- `triage.py:125`: of a chained traceback the class is the first exception's and not the final one's.
- `corpus.sh:4`: coverage accumulates along one lineage; of two runs that overlap, the last
  to save wins and what only the other found is not restored again.
- `continuous-fuzz.yml:5-7`: "a genuine new crash fails the job", but a restored input that fails in
  a lesser way, or does not fail again, ends the campaign first, and the merge drops a genuine crash
  stored next to it: the job is green (`GenuineCrashFailsJob` states exactly this exception).
- `continuous-fuzz.yml:130-131`, `174`: the gate reads a replay, which runs under `|| true` and without
  the campaign's `-rss_limit_mb=4096`: a real crash that depends on what ran before it, or that needs
  more than libFuzzer's 2048 MB, leaves a report with no fault and a green job.
- `continuous-fuzz.yml:81`, `118`, `163`: a fuzzer that dies without an artifact is a green run.
- `continuous-fuzz.yml:84`: only `crash-*` is counted; an input that makes the differential harness run
  out of memory leaves an `oom-*` and a green job (`JobsAreExact`).
- `continuous-fuzz.yml:129`, `173`: only `crash-` artifacts are replayed in the config job, and triage
  knows no report of a timeout: nothing but `timeout-minutes`, shorter than a hang in that job and
  than a hang and its replay in the other, keeps a run whose campaign met one from going green.
  Raising that limit breaks it (`HangNeverGreen`, and its mutant). A stored hang that only the merge
  of the gguf job meets, because something else ended the campaign, costs 20 of the 30 minutes and is
  dropped: that run may be green (`HangNeverGreen` states this exception).
- `corpus.sh:40`: the merge has libFuzzer's 2048 MB and the campaign 4096: an input in between is
  found, and lost again at each merge.
- `continuous-fuzz.yml:134`: what the config harness calls a finding, RecursionError included, triage
  judges review, so its job is red only for native faults, and for Rust panics whose message speaks
  of unwrap, expect or an index (`JobsAreExact`).
- `fuzz_fast_slow_divergence.py:63`, `67`: `except Exception` takes a RecursionError of an encoder for a
  rejection, so one that both encoders raise is agreement (`RecursionIsRecorded` leaves this harness
  out).
- `resource_oracle.py:60`: a bounded loader that raises while its traceback holds the memory may fail to
  put its rejection, and ends EXHAUSTED.
- `gguf/build.sh:39`: a reset that fails is swallowed. With the blockers off, a tree an earlier build
  patched is then compiled and linked as unpatched (`BinaryAsAsked` states this exception); with them
  on, the count of the hunks stops it.
- `evidence-check.yml:24`: `git diff --quiet` ignores an untracked file: a push without claims.md is
  green, "in sync", and publishes nothing (`GreenIsComplete` is about a claims.md that is tracked).
- `fuzz_parse.cc:37`, `fuzz_render.cc:64`: brackets in a string literal count, so some templates that nest
  within the bound are skipped, and some that nest past it are not (`GuardExact` leaves them out).
- `continuous-fuzz.yml:71`: "fast==slow must hold", but the self-test returns 0 when it does not.
- `evidence/tool.py:63`: a claim may cite itself, or two each other.
- `fuzz_from_state_dict.py:17-19`: KeyError and TypeError are suppressed as well.
- `gguf/build.sh:43-44`: the hunks are counted in the patch file itself, so one that is missing there is
  not missed.
- `evidence/schema.md:44-45`: a finding that is only inferred passes (C-0001 is one).
- `evidence/README.md:41`: a deleted claim goes unnoticed.
- `fuzz_rebuild_args_stable.py:11-12`: byte 4 (the storage offset) changes no field.
- `fuzz_config_stable.py:48`: byte 4 never includes a post-processor.

## Not modelled

- Regular expressions, `_scrub`, the function and detail fields of a signature, wording and
  layout of the tables: they decide nothing (`FaultReports` starts from matched lines).
- Pickle opcodes and JSON text of the generators: the properties are about fields.
- The contents of leaves in the FuzzedDataProvider generators, and the accessors of the gguf harness
  (they read values and drop them: one call).
- The self-tests of the harnesses, which change nothing, and the one-command jobs that run the tests
  of triage and of the oracle.
- The Rust harness, the other build scripts, the OSS-Fuzz and ClusterFuzzLite layouts and the seed
  generators: straight-line code without state of its own. `PROJECT.json` has the reason for each.
