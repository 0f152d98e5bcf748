--------------------------- MODULE MCContinuousFuzz ---------------------------
(* Inputs a..d over four coverage features, one of them covered twice, and *)
(* the ways their faults may change from one upstream version to the next. *)
EXTENDS ContinuousFuzz, TLC
CONSTANTS a, b, c, d, r1, r2

MCInputs == {a, b, c, d}
MCSeeds == {a}
MCCov == (a :> {1}) @@ (b :> {1, 2}) @@ (c :> {3}) @@ (d :> {4})

(* At first the seed is too large to merge and d crashes now and then; the *)
(* next release mends the seed, makes c a crash that is judged real and d  *)
(* a hang, and lets b fail of its memory.                                  *)
MCFault == <<(a :> "heavy") @@ (b :> "none") @@ (c :> "none") @@ (d :> "elusive"),
             (a :> "none")  @@ (b :> "oom")  @@ (c :> "real") @@ (d :> "hang")>>

RunSymmetry == Permutations({r1, r2})
================================================================================
