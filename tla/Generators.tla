------------------------------ MODULE Generators ------------------------------
(***************************************************************************)
(* The FuzzedDataProvider generators: _make_value of the msgpack harness,  *)
(* _make_state of the state-dict harness, _rand_value under _build_dict of *)
(* the config harness.  Each builds a value of random shape from the bytes *)
(* of the input, recursively; a draw from exhausted data gives the least   *)
(* of its range.  The recursion is a stack of frames, one per container    *)
(* being filled, each with the number of children it has still to build.   *)
(* What leaves and keys draw for their contents is abstracted to any part  *)
(* of what is left.                                                        *)
(***************************************************************************)
EXTENDS Integers, Sequences

CONSTANTS Harnesses,   \* the harnesses whose generator may run
          MaxData,     \* the longest input
          Recursion    \* how deep Python lets the calls nest

ASSUME GeneratorAssumption ==
    /\ Harnesses \subseteq {"msgpack_restore", "from_state_dict", "config"}
    /\ MaxData \in Nat
    /\ Recursion \in Nat /\ Recursion > 6

VARIABLES harness, data, left, stack

vars == <<harness, data, left, stack>>

(* depth < 4, depth < 6 *)
Deepest(h) == IF h = "from_state_dict" THEN 6 ELSE 4

(* Mutant: the depth makes no difference. *)
LastPickAnywhere(h, depth) == IF h = "config" THEN 8 ELSE 9

LastPick(h, depth) ==
    CASE h = "msgpack_restore" -> IF depth < 4 THEN 9 ELSE 5
      [] h = "from_state_dict" -> IF depth < 6 THEN 9 ELSE 4
      [] h = "config" -> IF depth < 4 THEN 8 ELSE 5

(* The picks that make a list or a dict of several values, of how many at  *)
(* most, and those that make a dict of one.                                *)
Many(h) == CASE h = "msgpack_restore" -> {6, 7}
             [] h = "from_state_dict" -> {5, 6, 7, 8}
             [] h = "config" -> {5, 6}
Fanout(h) == IF h = "msgpack_restore" THEN 4 ELSE 5
One(h) == IF h = "from_state_dict" THEN {} ELSE {8}

(* Of the values at the top: one tree, or the values of up to eight keys.  *)
Roots(h) == IF h = "config" THEN 8 ELSE 1

(* Mutant: exhausted data repeats itself. *)
DrawForEver(last, bytes) == 0..last

(* ConsumeIntInRange(0, last) with this many bytes left. *)
Draw(last, bytes) == IF bytes = 0 THEN {0} ELSE 0..last

After(bytes) == IF bytes = 0 THEN 0 ELSE bytes - 1

Init == /\ harness \in Harnesses
        /\ data \in 0..MaxData
        /\ left \in 0..data
        /\ stack \in IF harness = "config"
                     THEN {<<n>> : n \in Draw(8, data)}
                     ELSE {<<1>>}
        /\ harness = "config" => left <= After(data)

--------------------------------------------------------------------------------
Top == stack[Len(stack)]
Depth == Len(stack) - 1
Building == stack # <<>> /\ Top > 0 /\ Depth <= Recursion

(* Mutant: the child is not counted. *)
FilledNot == stack

(* The stack when the innermost container has begun its next child. *)
Filled == [stack EXCEPT ![Len(stack)] = @ - 1]

Leaf == /\ Building
        /\ \E pick \in Draw(LastPick(harness, Depth), left) :
              pick \notin Many(harness) \cup One(harness)
        /\ left' \in 0..After(left)
        /\ stack' = Filled
        /\ UNCHANGED <<harness, data>>

(* A list or a dict, its length drawn next. *)
Container == /\ Building
             /\ \E pick \in Draw(LastPick(harness, Depth), left) : pick \in Many(harness)
             /\ \E n \in Draw(Fanout(harness), After(left)) : stack' = Append(Filled, n)
             /\ left' \in 0..After(After(left))
             /\ UNCHANGED <<harness, data>>

(* A dict of one key. *)
Single == /\ Building
          /\ \E pick \in Draw(LastPick(harness, Depth), left) : pick \in One(harness)
          /\ left' \in 0..After(left)
          /\ stack' = Append(Filled, 1)
          /\ UNCHANGED <<harness, data>>

(* The comprehension is through: its container is returned. *)
Close == /\ stack # <<>>
         /\ Depth <= Recursion
         /\ Top = 0
         /\ stack' = SubSeq(stack, 1, Len(stack) - 1)
         /\ UNCHANGED <<harness, data, left>>

(* A RecursionError: except Exception: return drops the input. *)
TooDeep == /\ stack # <<>>
           /\ Depth > Recursion
           /\ stack' = <<>>
           /\ UNCHANGED <<harness, data, left>>

Next == Leaf \/ Container \/ Single \/ Close \/ TooDeep

(* One thread, which nothing interrupts: it runs on while it can. *)
Spec == Init /\ [][Next]_vars /\ WF_vars(Next)

--------------------------------------------------------------------------------
(* The types, on which the proof of NestingPaid rests. *)
TypeOK == /\ harness \in Harnesses
          /\ data \in 0..MaxData
          /\ left \in 0..data
          /\ stack \in Seq(0..Roots(harness) \cup 0..Fanout(harness))

(* The depth argument bounds the nesting of the values of the two flax     *)
(* harnesses.  In the config harness it stops dicts only, since a list is  *)
(* still drawn at any depth: beyond the bound, each level of nesting costs *)
(* two bytes of the input and nothing else limits it.                      *)
NestingPaid == stack # <<>> =>
    IF harness = "config" THEN 2 * (Depth - Deepest(harness)) <= data - left
                          ELSE Depth <= Deepest(harness)

(* The children the first n frames have still to build. *)
Owed(frames) ==
    LET owed[n \in 0..Len(frames)] == IF n = 0 THEN 0 ELSE owed[n - 1] + frames[n]
    IN  owed

(* However values nest, what is still to be built stays linear in the      *)
(* bytes used: a container costs two and adds at most Fanout, so no short  *)
(* input makes a large tree.                                               *)
SizeLinear == 2 * Owed(stack)[Len(stack)] <= 2 * Roots(harness) + Fanout(harness) * (data - left)

(* Every run of a generator ends, one that nests lists for as long as the  *)
(* data last included: once they are exhausted only leaves are built.      *)
Completes == <>(stack = <<>>)

(* "deep nesting (recursion surface), still bounded" (config harness, line *)
(* 100): what the depth test of that generator is for.                     *)
ConfigBounded == harness = "config" /\ stack # <<>> => Depth <= Deepest(harness)
================================================================================
