----------------------------- MODULE NestingGuard -----------------------------
(***************************************************************************)
(* The guard of the minja harnesses (fuzz_parse.cc 22-40, fuzz_render.cc   *)
(* 57-69): a template that is too long, or whose brackets nest too deep by *)
(* one scan of its bytes, is skipped.  A template is a sequence of what    *)
(* the scan and the parser tell apart: an opening or a closing bracket,    *)
(* and a quote, which begins or ends a string literal.                     *)
(***************************************************************************)
EXTENDS Integers, Sequences, FiniteSets

CONSTANTS MaxSize,     \* 64 * 1024 in the source
          MaxDepth     \* 200 in the source

ASSUME GuardAssumption == MaxSize \in Nat /\ MaxDepth \in Nat

Symbols == {"open", "close", "quote"}

(* Mutant: no clamp at zero. *)
AfterUnclamped(symbol, depth) == CASE symbol = "open" -> depth + 1
                                   [] symbol = "close" -> depth - 1
                                   [] OTHER -> depth

(* A closing bracket takes the depth down, to zero at most. *)
After(symbol, depth) == CASE symbol = "open" -> depth + 1
                          [] symbol = "close" -> IF depth > 0 THEN depth - 1 ELSE 0
                          [] OTHER -> depth

(* depth after each byte. *)
Depth(text) ==
    LET depth[n \in 0..Len(text)] == IF n = 0 THEN 0 ELSE After(text[n], depth[n - 1])
    IN  depth

Skipped(text) == \/ Len(text) > MaxSize
                 \/ \E n \in 0..Len(text) : Depth(text)[n] > MaxDepth

--------------------------------------------------------------------------------
(* The reference: the nesting a parser meets.  Brackets in a literal do    *)
(* not nest; the rest nests as deep as the largest surplus of opening over *)
(* closing brackets in any stretch of the text.                            *)
InLiteral(text, n) == Cardinality({q \in 1..(n - 1) : text[q] = "quote"}) % 2 = 1

Brackets(text, kind, i, j) == {n \in i..j : text[n] = kind /\ ~InLiteral(text, n)}

Surplus(text, i, j) ==
    Cardinality(Brackets(text, "open", i, j)) - Cardinality(Brackets(text, "close", i, j))

NestsWithin(text, bound) == \A i, j \in 1..Len(text) : Surplus(text, i, j) <= bound

BracketInLiteral(text) == \E n \in DOMAIN text : text[n] # "quote" /\ InLiteral(text, n)
================================================================================
