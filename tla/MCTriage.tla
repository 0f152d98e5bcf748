------------------------------- MODULE MCTriage -------------------------------
(* The reports TLC feeds to Triage: each as the lines a parser would see.  *)
EXTENDS Triage

L(by, what, loc) == [by |-> by, what |-> what, loc |-> loc]

(* Every parser and every verdict: two classes at one location, one class  *)
(* with and without a location, a family of ASan no prefix matches, a      *)
(* panic whose class comes from a later line, a traceback with a signal    *)
(* after it, and a report with no fault line.                              *)
StreamReports ==
    {<<L("ubsan", "enum", "gguf.cpp:575")>>,
     <<L("ubsan", "div", "gguf.cpp:575")>>,
     <<L("asan", "asan-heap-buffer-overflow", "unknown"),
       L("asan", "asan-heap-buffer-overflow", "f.cc:12")>>,
     <<L("asan", "asan-heap-buffer-overflow", "unknown")>>,
     <<L("words", "recovered", "unknown"), L("asan", "asan-container-overflow", "f.cc:12")>>,
     <<L("panic", "panicked", "mod.rs:90"), L("words", "unwrap", "unknown")>>,
     <<L("frame", "in", "b.py:2"), L("exc", "ValueError", "unknown"),
       L("signal", "deadly", "unknown")>>,
     <<L("words", "timeout", "unknown")>>}

(* UBSan prints and goes on (-fsanitize-recover); ASan then aborts. *)
RecoveredReports ==
    {<<L("ubsan", w, "a:1"), L("asan", "asan-heap-buffer-overflow", "b:2")>> : w \in {"enum", "div"}}
================================================================================
