------------------------------- MODULE Harnesses -------------------------------
(***************************************************************************)
(* The test functions of targets/*/harness as tables: the calls an input   *)
(* goes through, the except (catch) clauses that guard each, in order, and *)
(* what follows.  HarnessOracle runs them.                                 *)
(***************************************************************************)
EXTENDS Naturals

(* The direct superclass of every class that matters here.  C++ classes    *)
(* derive from "anything", which catch (...) takes; a fault is a signal or *)
(* a sanitizer's report, which ends the process whatever is caught.        *)
Super == [
    Exception |-> "BaseException",          PanicException |-> "BaseException",
    ValueError |-> "Exception",             UnicodeError |-> "ValueError",
    UnicodeDecodeError |-> "UnicodeError",  JSONDecodeError |-> "ValueError",
    LookupError |-> "Exception",            KeyError |-> "LookupError",
    IndexError |-> "LookupError",           RuntimeError |-> "Exception",
    RecursionError |-> "RuntimeError",      NotImplementedError |-> "RuntimeError",
    MemoryError |-> "Exception",            EOFError |-> "Exception",
    OSError |-> "Exception",                TypeError |-> "Exception",
    AttributeError |-> "Exception",         ImportError |-> "Exception",
    ArithmeticError |-> "Exception",        OverflowError |-> "ArithmeticError",
    AssertionError |-> "Exception",         StructError |-> "Exception",
    UnpicklingError |-> "Exception",        SerializationError |-> "Exception",
    UnpackException |-> "Exception",        ExtraData |-> "ValueError",
    exception |-> "anything",               runtime_error |-> "exception",
    bad_alloc |-> "exception",              number |-> "anything",
    Fault |-> "fault"]

Roots == {"BaseException", "anything", "fault"}

Mro[e \in DOMAIN Super \cup Roots] == IF e \in Roots THEN {e} ELSE {e} \cup Mro[Super[e]]

PyExceptions == {e \in DOMAIN Super : "BaseException" \in Mro[e]} \cup {"Fault"}
CxxExceptions == {e \in DOMAIN Super : "anything" \in Mro[e]} \cup {"Fault"}

(* except <classes>: <what then>; the names of the stages are what an      *)
(* exception that is passed over goes on to.                               *)
Except(classes, then) == [classes |-> classes, then |-> then]

(* A call, the clauses that guard it, and what follows when it returns.    *)
Guarded(clauses, next) == [clauses |-> clauses, next |-> next]

(* The generators run in code of their own, under except Exception: return *)
Building(next) == Guarded(<<Except({"Exception"}, "suppress")>>, next)

--------------------------------------------------------------------------------
(* The Python harnesses. *)

GgufPyExpected == {"ValueError", "KeyError", "StructError", "IndexError", "EOFError", "OSError"}

GgufPy ==
    [load |-> Guarded(<<Except(GgufPyExpected, "suppress"),
                        Except({"RecursionError", "MemoryError"}, "raise"),
                        Except({"UnicodeDecodeError"}, "raise"),
                        Except({"Exception"}, "raise")>>, "end")]

UnpicklerExpected == {"UnpicklingError", "EOFError", "ValueError", "KeyError", "IndexError",
                      "TypeError", "AttributeError", "ImportError", "StructError"}

(* Mutant: RuntimeError is taken for a rejection, and RecursionError is one.*)
WeightsOnlyRuntime ==
    [load |-> Guarded(<<Except(UnpicklerExpected \cup {"RuntimeError"}, "suppress"),
                        Except({"RecursionError"}, "raise")>>, "end")]

WeightsOnly ==
    [load |-> Guarded(<<Except(UnpicklerExpected, "suppress"),
                        Except({"RecursionError"}, "raise")>>, "end")]

RebuildArgs ==
    [build |-> Building("load"),
     load  |-> Guarded(<<Except(UnpicklerExpected \cup {"RuntimeError"}, "suppress"),
                         Except({"RecursionError"}, "raise")>>, "end")]

MsgpackExpected == {"ValueError", "TypeError", "KeyError", "IndexError", "UnpackException",
                    "ExtraData", "OverflowError", "UnicodeDecodeError", "OSError",
                    "NotImplementedError", "AttributeError"}

(* A tree that does not pack is packed again without the default hook. *)
MsgpackRestore ==
    [build  |-> Guarded(<<Except({"Exception"}, "repack")>>, "load"),
     repack |-> Building("load"),
     load   |-> Guarded(<<Except(MsgpackExpected, "suppress"),
                          Except({"RecursionError"}, "raise"),
                          Except({"Exception"}, "raise")>>, "end")]

FromStateDict ==
    [build |-> Building("load"),
     load  |-> Guarded(<<Except({"RecursionError"}, "raise"),
                         Except({"SerializationError", "ValueError", "KeyError", "TypeError"},
                                "suppress"),
                         Except({"Exception"}, "raise")>>, "end")]

ConfigExpected == {"ValueError", "TypeError", "KeyError", "AttributeError", "OverflowError",
                   "JSONDecodeError", "UnicodeError", "OSError"}

ConfigLoad(then, next) == Guarded(<<Except(ConfigExpected, then),
                                    Except({"RecursionError"}, "raise")>>, next)

(* Mutant: a rejection of the dict path ends the input, JSON path untried. *)
ConfigOnePath ==
    [build |-> Building("load"),
     load  |-> ConfigLoad("suppress", "dumps"),
     dumps |-> Guarded(<<Except({"TypeError", "ValueError"}, "suppress")>>, "loads"),
     loads |-> ConfigLoad("suppress", "end")]

(* The dict path, then the JSON path, whatever came of the first. *)
Config ==
    [build |-> Building("load"),
     load  |-> ConfigLoad("dumps", "dumps"),
     dumps |-> Guarded(<<Except({"TypeError", "ValueError"}, "suppress")>>, "loads"),
     loads |-> ConfigLoad("suppress", "end")]

(* Mutant: a bare except, which takes a panic for a rejection. *)
TokenizersBareExcept ==
    [build |-> Building("load"),
     load  |-> Guarded(<<Except({"RecursionError"}, "raise"),
                         Except({"BaseException"}, "suppress")>>, "end")]

Tokenizers ==
    [build |-> Building("load"),
     load  |-> Guarded(<<Except({"RecursionError"}, "raise"),
                         Except({"Exception"}, "suppress")>>, "end")]

(* Two encoders, each under except Exception; then their results are       *)
(* compared, and a difference is raised as an AssertionError.              *)
Differential ==
    [slow    |-> Guarded(<<Except({"Exception"}, "fast")>>, "fast"),
     fast    |-> Guarded(<<Except({"Exception"}, "compare")>>, "compare"),
     compare |-> Guarded(<<>>, "end")]

--------------------------------------------------------------------------------
(* The C++ harnesses.  A call that gives null ends the input. *)

StdCaught == <<Except({"runtime_error"}, "suppress"), Except({"exception"}, "suppress")>>

Gguf == [init |-> Guarded(<<>>, "load"), load |-> Guarded(<<>>, "end")]

MinjaParse == [guard |-> Guarded(<<>>, "load"), load |-> Guarded(StdCaught, "end")]

MinjaRender == [guard |-> Guarded(<<>>, "load"),
                load  |-> Guarded(StdCaught, "loads"),
                loads |-> Guarded(StdCaught, "end")]

(* Mutant: a caught exception returns at once. *)
ClipReturnsEarly ==
    [temp |-> Guarded(<<>>, "write"),
     write |-> Guarded(<<>>, "load"),
     load |-> Guarded(<<Except({"exception"}, "suppress"), Except({"anything"}, "unlink")>>,
                      "unlink"),
     unlink |-> Guarded(<<>>, "end")]

(* clip_init loads from a path: the input goes through a temporary file,   *)
(* which is removed at once when it could not be written in full.          *)
Clip ==
    [temp |-> Guarded(<<>>, "write"),
     write |-> Guarded(<<>>, "load"),
     load |-> Guarded(<<Except({"exception"}, "unlink"), Except({"anything"}, "unlink")>>,
                      "unlink"),
     unlink |-> Guarded(<<>>, "end")]

--------------------------------------------------------------------------------
Minja == {"minja_parse", "minja_render"}
Cxx == Minja \cup {"gguf", "clip"}
Fuzzed == Cxx \cup {"gguf_py", "weights_only", "rebuild_args", "msgpack_restore", "from_state_dict",
                    "config", "tokenizers", "differential"}

Stages(h) == CASE h = "gguf_py" -> GgufPy
               [] h = "weights_only" -> WeightsOnly
               [] h = "rebuild_args" -> RebuildArgs
               [] h = "msgpack_restore" -> MsgpackRestore
               [] h = "from_state_dict" -> FromStateDict
               [] h = "config" -> Config
               [] h = "tokenizers" -> Tokenizers
               [] h = "differential" -> Differential
               [] h = "gguf" -> Gguf
               [] h = "minja_parse" -> MinjaParse
               [] h = "minja_render" -> MinjaRender
               [] h = "clip" -> Clip

(* The stage no other one leads to. *)
FirstStage(h) == CHOOSE s \in DOMAIN Stages(h) :
    \A t \in DOMAIN Stages(h) :
        /\ Stages(h)[t].next # s
        /\ \A c \in DOMAIN Stages(h)[t].clauses : Stages(h)[t].clauses[c].then # s
================================================================================
