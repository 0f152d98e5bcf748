----------------------------- MODULE HarnessOracle -----------------------------
(***************************************************************************)
(* Campaigns under the harnesses: an input goes through the stages of a    *)
(* harness, a rejection is suppressed and what escapes is recorded as a    *)
(* crash artifact, which ends the campaign.  Python (C++) takes the first  *)
(* clause whose class is the exception's class or a superclass of it.  For *)
(* the harnesses that have a job of their own in continuous-fuzz.yml, the  *)
(* job then judges the artifact, by triage or by its mere existence.       *)
(***************************************************************************)
EXTENDS Harnesses, FaultReports, NestingGuard

CONSTANTS Campaigns,    \* the harnesses under which a campaign may run
          Templates     \* the inputs of the minja harnesses

ASSUME CampaignsAssumption == Campaigns \subseteq Fuzzed
ASSUME TemplatesAssumption == Templates \subseteq Seq(Symbols)

VARIABLES harness,      \* whose campaign this is
          input,        \* the template, for the minja harnesses
          stage,        \* the call the current input is in
          given,        \* stage -> what the call gave: a value or an exception
          artifact,     \* what was recorded: an exception, "oom" or "timeout"; "none" so far
          report,       \* what the job's replay of it printed, <<>> so far
          job           \* "running", "green" or "red"

vars == <<harness, input, stage, given, artifact, report, job>>

InputsOf(h) == IF h \in Minja THEN Templates ELSE {<<>>}
NothingGiven == [s \in {} |-> "value"]

Init == /\ harness \in Campaigns
        /\ input \in InputsOf(harness)
        /\ stage = FirstStage(harness)
        /\ given = NothingGiven
        /\ artifact = "none"
        /\ report = <<>>
        /\ job = "running"

Running == artifact = "none" /\ stage # "end" /\ job = "running"
Raised(s) == s \in DOMAIN given /\ given[s] \in DOMAIN Super

(* Mutant: the exceptions themselves are compared. *)
EncodeAsIs(result) == result

(* Any exception is ("EXC",): two rejections are equal whatever they say. *)
Encode(result) == IF result \in DOMAIN Super THEN "EXC" ELSE result

MayGiveNull == \/ stage = "init"
               \/ harness = "minja_render" /\ stage = "load"

(* What a call may give.  "null" is a return that ends the input: of the   *)
(* loader of gguf and the parser of minja_render, a null pointer, and of   *)
(* the temporary file of clip, a failure.  The two steps the harnesses     *)
(* take themselves are determined by what went before.                     *)
Outcomes ==
    CASE stage = "compare" ->
            {IF Encode(given["slow"]) # Encode(given["fast"]) THEN "AssertionError" ELSE "value"}
      [] stage = "guard" -> {IF Skipped(input) THEN "null" ELSE "value"}
      [] stage = "temp" -> {"value", "null"}
      [] stage = "write" -> {"value", "short"}
      [] stage = "unlink" -> {"value"}
      [] stage \in {"slow", "fast"} -> {"ids", "otherIds"} \cup PyExceptions
      [] OTHER -> {"value"} \cup (IF MayGiveNull THEN {"null"} ELSE {})
                            \cup (IF harness \in Cxx THEN CxxExceptions ELSE PyExceptions)

Current == Stages(harness)[stage]
Catching(e) == {c \in DOMAIN Current.clauses : Current.clauses[c].classes \cap Mro[e] # {}}

(* What becomes of what a call gave: an uncaught exception escapes like a  *)
(* raised one.                                                             *)
Fate(r) == CASE r = "null" -> "suppress"
             [] r = "short" -> "unlink"
             [] r \in DOMAIN Super /\ Catching(r) = {} -> "raise"
             [] r \in DOMAIN Super /\ Catching(r) # {} ->
                   Current.clauses[CHOOSE c \in Catching(r) : \A d \in Catching(r) : c <= d].then
             [] OTHER -> Current.next

Gives(r) == /\ Running
            /\ r \in Outcomes
            /\ given' = [s \in DOMAIN given \cup {stage} |-> IF s = stage THEN r ELSE given[s]]
            /\ UNCHANGED <<harness, input, report, job>>

(* The input goes on to the next call ... *)
GoesOn(r) == /\ Gives(r)
             /\ Fate(r) \in DOMAIN Stages(harness) \cup {"end"}
             /\ stage' = Fate(r)
             /\ UNCHANGED artifact

(* ... or is dropped, with what was raised ... *)
Suppress(r) == /\ Gives(r)
               /\ Fate(r) = "suppress"
               /\ stage' = "end"
               /\ UNCHANGED artifact

(* ... or the exception escapes, re-raised or caught by nothing. *)
Record(r) == /\ Gives(r)
             /\ Fate(r) = "raise"
             /\ artifact' = r
             /\ UNCHANGED stage

(* A call runs over the memory limit or the time limit of libFuzzer, whose *)
(* artifact is then an oom-* or a timeout-*; the two jobs have less time   *)
(* than the 1200 seconds an input has.                                     *)
Overruns(limit) == /\ Running
                   /\ limit = "timeout" => harness \notin {"differential", "config"}
                   /\ artifact' = limit
                   /\ UNCHANGED <<harness, input, stage, given, report, job>>

NextInput == /\ artifact = "none" /\ stage = "end" /\ job = "running"
             /\ input' \in InputsOf(harness)
             /\ stage' = FirstStage(harness)
             /\ given' = NothingGiven
             /\ UNCHANGED <<harness, artifact, report, job>>

--------------------------------------------------------------------------------
(* The jobs. *)

(* What replaying the artifact of a Python harness prints, as triage sees  *)
(* it: the exception's line, if its name has the form triage looks for     *)
(* (struct.error has not), and the frames; of a panic, before the frames,  *)
(* Rust's own "thread ... panicked at" with a message that says what it    *)
(* says; of a fault, libFuzzer's "deadly signal".                          *)
Unmatched == {"UnpackException", "ExtraData", "StructError"}
PanicWords == {"unwrap", "expect", "index", "overflow", "other"}

ReportsOf(e) ==
    LET line(by, what, loc) == [by |-> by, what |-> what, loc |-> loc]
        frames == line("frame", "in", "a.py:1")
    IN  CASE e = "Fault" -> {<<line("signal", "deadly", "unknown")>>}
          [] e = "PanicException" -> {<<line("panic", word, "b.rs:1"), frames>> : word \in PanicWords}
          [] e \in Unmatched -> {<<frames>>}
          [] OTHER -> {<<line("exc", e, "unknown"), frames>>}

(* The config job replays crash-* files only, under || true: what does not *)
(* happen again leaves a report with nothing in it.                        *)
LeftCrash == artifact \in DOMAIN Super
Replays == IF harness = "config" /\ LeftCrash THEN ReportsOf(artifact) \cup {<<>>} ELSE {<<>>}

Triaged(text) == Classify(Parse(text).class)

(* Mutant: the exit code of the campaign, which || true has made 0. *)
TripsOnExitCode(text) == FALSE

Trips(text) == \/ harness = "differential" /\ LeftCrash
               \/ harness = "config" /\ Triaged(text) = "real"

(* The time is up, or the campaign has stopped at an artifact.  A campaign *)
(* that dies without one is no different here: || true drops its exit code.*)
Gate == /\ harness \in {"differential", "config"}
        /\ job = "running"
        /\ \E text \in Replays : /\ report' = text
                                 /\ job' = IF Trips(text) THEN "red" ELSE "green"
        /\ UNCHANGED <<harness, input, stage, given, artifact>>

Next == \/ \E r \in Outcomes : GoesOn(r) \/ Suppress(r) \/ Record(r)
        \/ \E limit \in {"oom", "timeout"} : Overruns(limit)
        \/ NextInput \/ Gate

Spec == Init /\ [][Next]_vars

--------------------------------------------------------------------------------
(* Properties.  A library call is a call into the library that is fuzzed.  *)

LibraryCalls == {"load", "loads", "slow", "fast"}

(* A RecursionError of the library under test is recorded and never taken  *)
(* for a rejection: the Python harnesses, but for the differential one,    *)
(* have a clause that re-raises it, and no clause before that one may      *)
(* catch its superclass RuntimeError.  The differential harness has none:  *)
(* except Exception (fuzz_fast_slow_divergence.py:63, 67) takes a          *)
(* RecursionError of an encoder for a rejection like any other, and it is  *)
(* a finding only as a divergence, if the other encoder accepts.           *)
RecursionIsRecorded ==
    harness # "differential" =>
        \A s \in LibraryCalls \cap DOMAIN given :
            given[s] = "RecursionError" => artifact = "RecursionError"

(* A Rust panic (a BaseException) and a native fault escape every harness  *)
(* and every stage, catch (...) and the two encoders included.             *)
PanicIsRecorded ==
    \A s \in DOMAIN given : given[s] \in {"PanicException", "Fault"} => artifact = given[s]

(* "Exercise both the dict path and the JSON-text path" (config harness,   *)
(* line 116): an input whose config was built and could be dumped reaches  *)
(* the JSON path, also when the dict path rejected it.                     *)
BothPathsExercised ==
    harness = "config" /\ stage = "end" /\ "load" \in DOMAIN given =>
        \/ "loads" \in DOMAIN given
        \/ Raised("dumps") /\ Mro[given["dumps"]] \cap {"TypeError", "ValueError"} # {}

(* A temporary file of the clip harness is removed on every path, also     *)
(* when it could not be written or the loader threw, unless the process    *)
(* died.                                                                   *)
TempFileRemoved ==
    stage = "end" /\ "temp" \in DOMAIN given /\ given["temp"] = "value" => "unlink" \in DOMAIN given

(* A template that reaches the parser nests within the bound, and one that *)
(* does and is not too long reaches it, unless brackets stand in a string  *)
(* literal, which the scan counts and the parser does not.                 *)
GuardExact ==
    "guard" \in DOMAIN given /\ ~BracketInLiteral(input) =>
        (given["guard"] = "value" <=> NestsWithin(input, MaxDepth) /\ Len(input) <= MaxSize)

(* "Both implementations rejecting the input the same way, or both         *)
(* producing the same ids, is agreement" (lines 13-14): an input ends in a *)
(* finding exactly when one encoder accepts it and the other does not, or  *)
(* not with the same ids; two exceptions are never a finding.              *)
DivergenceExact ==
    "compare" \in DOMAIN given =>
        (artifact = "none" <=> \/ given["slow"] = given["fast"]
                               \/ Raised("slow") /\ Raised("fast"))

(* The differential job is red exactly if its campaign left a crash-*      *)
(* artifact: a divergence, a panic or a fault; an input that ran over the  *)
(* memory limit leaves an oom-*, which is not counted, and a campaign that *)
(* died by itself leaves nothing.  The config job is red exactly if the    *)
(* replay of a crash-* artifact shows a native fault, or a Rust panic      *)
(* whose message speaks of unwrap, expect or an index: no Python           *)
(* exception, a RecursionError included, is judged real, no other panic,   *)
(* and nothing that does not happen again.                                 *)
JobsAreExact ==
    job # "running" =>
        (job = "red" <=>
            \/ harness = "differential" /\ artifact \in DOMAIN Super
            \/ /\ harness = "config" /\ report # <<>>
               /\ \/ artifact = "Fault"
                  \/ /\ artifact = "PanicException"
                     /\ report[1].what \in {"unwrap", "expect", "index"})
================================================================================
