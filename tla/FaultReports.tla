----------------------------- MODULE FaultReports -----------------------------
(***************************************************************************)
(* parse_report and classify of chassis/triage.py (42-209) as pure         *)
(* operators.  A report is the sequence of the lines some parser's regular *)
(* expression matches, in the order of the text; a line says which kind it *)
(* is, what it says and where it points ("unknown" when it has no          *)
(* file:line, as an unsymbolized sanitizer summary).                       *)
(*                                                                         *)
(*   ubsan   "f.cc:1:2: runtime error: ..."       what: the kind of error  *)
(*   asan    "AddressSanitizer: kind [f.cc:1 in]" what: the fault class    *)
(*   assert  "f.cc:1: GGML_ASSERT(...) failed"                             *)
(*   panic   "panicked at f.rs:1:"                what: a word of the line *)
(*   words   any other line                       what: a word of it       *)
(*   frame   a File "f.py", line 1, in f entry of a Python traceback       *)
(*   exc     "SomeError: message"                 what: the error's name   *)
(*   signal  SIGSEGV, "deadly signal", ...                                 *)
(***************************************************************************)
EXTENDS Naturals, Sequences

Kinds == {"ubsan", "asan", "assert", "panic", "words", "frame", "exc", "signal"}

(* No location is the one that stands for the lack of a signature. *)
Lines == [by : Kinds, what : STRING, loc : STRING \ {"none"}]

NoSig == [class |-> "none", loc |-> "none"]
Sig(class, loc) == [class |-> class, loc |-> loc]

(* Signature.key: no class contains the "@" between the two. *)
Key(sig) == <<sig.class, sig.loc>>

(* The lines of one kind, by their positions; the first and the last.      *)
Of(text, kind) == {i \in DOMAIN text : text[i].by = kind}
First(at) == CHOOSE i \in at : \A j \in at : i <= j
Final(at) == CHOOSE i \in at : \A j \in at : j <= i

UbsanClass == [enum |-> "ubsan-invalid-enum", overflow |-> "ubsan-int-overflow",
               div |-> "ubsan-div-zero", index |-> "ubsan-oob-index",
               other |-> "ubsan-other"]

ParseUbsan(text) ==
    LET hits == Of(text, "ubsan")
        hit == text[First(hits)]
    IN  IF hits = {} THEN NoSig ELSE Sig(UbsanClass[hit.what], hit.loc)

Symbolized(text, at) == {i \in at : text[i].loc # "unknown"}

(* Mutant: only a symbolized summary is recognized. *)
ParseSymbolizedAsan(text) ==
    LET hits == Symbolized(text, Of(text, "asan"))
        hit == text[First(hits)]
    IN  IF hits = {} THEN NoSig ELSE Sig(hit.what, hit.loc)

(* A summary with a location is looked for in the whole text first; then   *)
(* any mention of AddressSanitizer will do.                                *)
ParseAsan(text) ==
    LET hits == Of(text, "asan")
        symbolized == Symbolized(text, hits)
        best == text[First(IF symbolized = {} THEN hits ELSE symbolized)]
    IN  IF hits = {} THEN NoSig ELSE Sig(best.what, best.loc)

ParseAssert(text) ==
    LET hits == Of(text, "assert")
    IN  IF hits = {} THEN NoSig ELSE Sig("assertion-abort", text[First(hits)].loc)

(* The class is guessed from words found anywhere in the text. *)
WordsOf(text) == {text[i].what : i \in DOMAIN text}

RustClass(words) ==
    CASE words \cap {"unwrap", "expect"} # {} -> "rust-panic-unwrap"
      [] words \cap {"unwrap", "expect"} = {} /\ "index" \in words -> "rust-panic-index"
      [] words \cap {"unwrap", "expect", "index"} = {} /\ "overflow" \in words
            -> "rust-panic-overflow"
      [] OTHER -> "rust-panic"

ParseRust(text) ==
    LET hits == Of(text, "panic")
    IN  IF hits = {} THEN NoSig ELSE Sig(RustClass(WordsOf(text)), text[First(hits)].loc)

(* Two names are told apart by classify; of the rest, "py-" and the name,  *)
(* it is enough to have two classes of their own and one for all others.   *)
PyClass(name) == CASE name = "RecursionError" -> "py-recursion"
                   [] name = "MemoryError" -> "py-memory"
                   [] name = "ValueError" -> "py-valueerror"
                   [] name = "KeyError" -> "py-keyerror"
                   [] OTHER -> "py-other"

(* The last frame (findall, [-1]) but the first exception line (search).   *)
ParsePython(text) ==
    LET frames == Of(text, "frame")
        excs == Of(text, "exc")
    IN  IF frames = {} /\ excs = {} THEN NoSig
        ELSE Sig(IF excs = {} THEN "py-exception" ELSE PyClass(text[First(excs)].what),
                 IF frames = {} THEN "unknown" ELSE text[Final(frames)].loc)

ParseSignal(text) ==
    IF Of(text, "signal") = {} THEN NoSig ELSE Sig("native-signal", "unknown")

OrElse(sig, other) == IF sig # NoSig THEN sig ELSE other

(* parse_report: the first parser of _PARSERS that recognizes the text. *)
Parse(text) ==
    OrElse(ParseUbsan(text), OrElse(ParseAsan(text), OrElse(ParseAssert(text),
        OrElse(ParseRust(text), OrElse(ParsePython(text), ParseSignal(text))))))

--------------------------------------------------------------------------------
(* classify. *)

(* The fault classes of ASan one of _ASAN_REAL_PREFIXES is a prefix of.  A *)
(* use of poisoned memory is one; a bad or invalid free, a leak, a failed  *)
(* allocation, a SEGV or an FPE is not.                                    *)
AsanRealPrefixed ==
    {"asan-heap-buffer-overflow", "asan-heap-use-after-free",
     "asan-stack-buffer-overflow", "asan-stack-buffer-underflow", "asan-stack-overflow",
     "asan-stack-use-after-return", "asan-stack-use-after-scope",
     "asan-global-buffer-overflow", "asan-use-after-poison", "asan-double-free"}

ShallowClasses == {"ubsan-invalid-enum", "assertion-abort"}
RealClasses == AsanRealPrefixed \cup {"rust-panic-unwrap", "rust-panic-index", "native-signal"}

Classify(class) == CASE class \in RealClasses -> "real"
                     [] class \in ShallowClasses -> "shallow"
                     [] OTHER -> "review"
================================================================================
