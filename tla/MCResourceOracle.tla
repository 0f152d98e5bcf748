--------------------------- MODULE MCResourceOracle ---------------------------
(* The suites TLC tries: every pair of behaviours as a suite of one case,  *)
(* and the three cases of _selftest.  The unbounded-loop loader appends to *)
(* a list, so it may meet the memory cap before the deadline.              *)
EXTENDS ResourceOracle

AnyLoader == {<<[bomb |-> b, benign |-> g, mustFlag |-> TRUE]>> : b, g \in Behaviours}

Selftest ==
    {<<[bomb |-> "memory", benign |-> "returns", mustFlag |-> TRUE],
       [bomb |-> b,        benign |-> "returns", mustFlag |-> TRUE],
       [bomb |-> "raises", benign |-> "returns", mustFlag |-> FALSE]>>
        : b \in {"loops", "memory", "hoards"}}

MCSuites == AnyLoader \cup Selftest
================================================================================
