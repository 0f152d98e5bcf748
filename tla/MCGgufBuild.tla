----------------------------- MODULE MCGgufBuild -----------------------------
(* Three commits, two of them with the same gguf.cpp, and the patch file   *)
(* whole, without a hunk, with that hunk only, and with the marker in its  *)
(* description.                                                            *)
EXTENDS GgufBuild, TLC

MCCommits == {"c1", "c2", "c3"}
MCGgufCpp == ("c1" :> "f1") @@ ("c2" :> "f1") @@ ("c3" :> "f2")
MCHunks == {"enum", "align", "zero"}

Whole == [hunks |-> MCHunks, strays |-> 0]
Incomplete == [hunks |-> MCHunks \ {"zero"}, strays |-> 0]
Rest == [hunks |-> {"zero"}, strays |-> 0]
Described == [hunks |-> MCHunks, strays |-> 1]

MCPatches == {Whole, Incomplete, Rest, Described}

(* Upstream has rewritten the place of one hunk by commit c3. *)
MCFits == ("c1" :> MCHunks) @@ ("c2" :> MCHunks) @@ ("c3" :> MCHunks \ {"zero"})
================================================================================
