---------------------------- MODULE MCHarnessOracle ----------------------------
(* Every template of up to one symbol past the size limit. *)
EXTENDS HarnessOracle

MCTemplates == UNION {[1..n -> Symbols] : n \in 0..(MaxSize + 1)}
================================================================================
