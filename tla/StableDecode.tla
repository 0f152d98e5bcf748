----------------------------- MODULE StableDecode -----------------------------
(***************************************************************************)
(* The structure-stable generators: fuzz_rebuild_args_stable.py (pytorch)  *)
(* and fuzz_config_stable.py (tokenizers) decode an input of any length at *)
(* fixed offsets, so that a byte mutation of the fuzzer is a mutation of   *)
(* one field.  The fuzzer mutates an input byte by byte, appends to it and *)
(* truncates it; what a generator makes of it is a function of the input.  *)
(***************************************************************************)
EXTENDS Integers, Sequences

CONSTANTS Generators,   \* which of the generators are run
          Bytes,        \* the values a byte may take
          MaxDim,       \* _MAXDIM of the rebuild-args generator
          Pool          \* _POOL of the config generator

ASSUME GeneratorsAssumption == Generators \subseteq {"rebuild_args", "config"}
ASSUME BytesAssumption == Bytes \subseteq 0..255 /\ 0 \in Bytes
ASSUME SizesAssumption == MaxDim \in Nat \ {0} /\ Pool \in Nat

(* _LAYOUT_LEN: a header of 5 and two slots a dimension; 8 and the pool. *)
Width(gen) == IF gen = "rebuild_args" THEN 5 + 2 * MaxDim ELSE 8 + Pool

(* Mutant: the input is padded at the front. *)
FixedFromTheEnd(gen, data) ==
    [n \in 0..(Width(gen) - 1) |->
        IF n + Len(data) >= Width(gen) THEN data[n + Len(data) - Width(gen) + 1] ELSE 0]

(* _fixed_bytes, _fixed: padded with zeros, or cut, to the layout; offsets *)
(* count from 0 as in the source.                                          *)
Fixed(gen, data) == [n \in 0..(Width(gen) - 1) |-> IF n < Len(data) THEN data[n + 1] ELSE 0]

--------------------------------------------------------------------------------
(* fuzz_rebuild_args_stable.py. *)

(* _value_from_byte: the low nibble selects a class, the high nibble a     *)
(* value of it; integers beyond 32 bits stay symbolic.                     *)
Number(n) == <<"int", n>>
Big == [c \in 4..7 |-> <<"2^31-1", "2^63-1", "-2^63", "2^31">>[c - 3]]

ValueFromByte(b) ==
    LET class == b % 16
        payload == b \div 16
    IN  CASE class = 0 -> Number(0)
          [] class = 1 -> Number(-1)
          [] class = 2 -> Number(payload)
          [] class = 3 -> Number(-payload)
          [] class \in 4..7 -> <<Big[class], 0>>
          [] class = 8 -> Number(2^payload)
          [] class = 9 -> Number(-(2^payload))
          [] class = 10 -> Number(255 * (payload + 1))
          [] class > 10 -> Number(4096 * (payload + 1))

(* Mutant: slots are consumed only by the dimensions that are there. *)
RebuildArgsPacked(b) ==
    LET ndimSize == b[1] % (MaxDim + 1)
        ndimStride == b[2] % (MaxDim + 1)
    IN  [dtype        |-> b[0] % 12,
         size         |-> [i \in 0..(ndimSize - 1) |-> ValueFromByte(b[5 + i])],
         stride       |-> [i \in 0..(ndimStride - 1) |-> ValueFromByte(b[5 + ndimSize + i])],
         requiresGrad |-> b[3] % 2 = 1]

(* _build_stream: the arguments of _rebuild_meta_tensor_no_storage.  The   *)
(* storage offset, byte 4, is decoded and dropped.                         *)
RebuildArgs(b) ==
    LET ndimSize == b[1] % (MaxDim + 1)
        ndimStride == b[2] % (MaxDim + 1)
    IN  [dtype        |-> b[0] % 12,
         size         |-> [i \in 0..(ndimSize - 1) |-> ValueFromByte(b[5 + i])],
         stride       |-> [i \in 0..(ndimStride - 1) |-> ValueFromByte(b[5 + MaxDim + i])],
         requiresGrad |-> b[3] % 2 = 1]

--------------------------------------------------------------------------------
(* fuzz_config_stable.py. *)

SizeClass(b) == <<0, 1, 2, 8, 255, 4096, 65536>>[(b % 7) + 1]
AtMost(n, bound) == IF n < bound THEN n ELSE bound

(* _mk_model: each variant with what the selectors make of its fields. *)
MkModel(sel, vsize, misc) ==
    CASE sel % 4 = 0 -> [type |-> "BPE", vocab |-> AtMost(vsize, 64),
                         fuseUnk |-> misc % 2 = 1, byteFallback |-> (misc \div 2) % 2 = 1]
      [] sel % 4 = 1 -> [type |-> "WordPiece", vocab |-> AtMost(vsize, 64),
                         maxInputChars |-> SizeClass(misc)]
      [] sel % 4 = 2 -> [type |-> "WordLevel", vocab |-> AtMost(vsize, 64)]
      [] sel % 4 = 3 -> [type |-> "Unigram", vocab |-> AtMost(vsize, 32),
                         unkId |-> IF vsize = 0 THEN <<>> ELSE <<misc % vsize>>,
                         byteFallback |-> misc % 2 = 1]

(* The high bit includes a component, the byte selects its variant; a      *)
(* component that is None is <<>> here.                                    *)
Tagged(b, variants) == IF b >= 128 THEN <<b % variants>> ELSE <<>>

(* _build_config *)
Config(b) ==
    [model          |-> MkModel(b[0], SizeClass(b[6]), b[7]),
     normalizer     |-> Tagged(b[1], 12),
     pre_tokenizer  |-> Tagged(b[2], 11),
     decoder        |-> Tagged(b[3], 10),
     post_processor |-> <<>>,
     added_tokens   |-> [i \in 0..((b[5] % 5) - 1) |-> b[4] % 2 = 1]]

Decoded(gen, data) == IF gen = "rebuild_args" THEN RebuildArgs(Fixed(gen, data))
                                              ELSE Config(Fixed(gen, data))

--------------------------------------------------------------------------------
(* The fuzzer (external): what libFuzzer may do to an input. *)

VARIABLES gen,    \* the generator under which the campaign runs
          data    \* the current input

vars == <<gen, data>>

Init == gen \in Generators /\ data = <<>>

Overwrite == /\ \E n \in DOMAIN data, b \in Bytes : data' = [data EXCEPT ![n] = b]
             /\ UNCHANGED gen

Grow == /\ Len(data) <= Width(gen)
        /\ \E b \in Bytes : data' = Append(data, b)
        /\ UNCHANGED gen

Truncate == /\ data # <<>>
            /\ data' = SubSeq(data, 1, Len(data) - 1)
            /\ UNCHANGED gen

Next == Overwrite \/ Grow \/ Truncate

Spec == Init /\ [][Next]_vars

--------------------------------------------------------------------------------
(* Properties. *)

Changed(old, new) == {f \in DOMAIN old : old[f] # new[f]}
AtMostOne(S) == \A f, g \in S : f = g

(* "A one-byte flip changes at most one component/field and positions      *)
(* never shift" (config generator, 16-17; rebuild-args generator, 11-14):  *)
(* a step of the fuzzer that overwrites, appends or drops one byte changes *)
(* at most one field of what is decoded.                                   *)
ByteIsLocal == [][AtMostOne(Changed(Decoded(gen, data), Decoded(gen', data')))]_vars

(* Truncating trailing zeros, or appending any, changes nothing, and       *)
(* neither does anything past the layout.                                  *)
ZerosArePadding ==
    [][data' = Append(data, 0) \/ (Len(data') > Width(gen) /\ Len(data) = Width(gen))
        => Decoded(gen', data') = Decoded(gen, data)]_vars
================================================================================
