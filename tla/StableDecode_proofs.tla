-------------------------- MODULE StableDecode_proofs --------------------------
(***************************************************************************)
(* A one-byte change of the input changes at most one field, for layouts   *)
(* of any size and any bytes: a field is a function of offsets of its own. *)
(***************************************************************************)
EXTENDS StableDecode, TLAPS

Byte == 0..255

Typed == gen \in {"rebuild_args", "config"} /\ data \in Seq(Byte)

(* A buffer, and two buffers that differ at offset n only.                 *)
Buffers(g) == [0..(Width(g) - 1) -> Byte]
AlikeBut(n, g, b, d) == \A m \in 0..(Width(g) - 1) : m # n => b[m] = d[m]

(* A remainder is a valid number of dimensions. *)
LEMMA Dimensions ==
    ASSUME NEW x \in Nat
    PROVE  x % (MaxDim + 1) \in 0..MaxDim
<1> DEFINE m == MaxDim + 1
<1>1. MaxDim \in Int /\ m \in Int /\ m > 0 /\ x \in Int /\ m = MaxDim + 1
  BY SizesAssumption
<1> HIDE DEF m
<1>2. x % m \in Int
  BY <1>1
<1>3. 0 <= x % m
  BY <1>1
<1>4. x % m < m
  BY <1>1
<1>5. x % m \in 0..MaxDim
  BY <1>1, <1>2, <1>3, <1>4
<1>6. QED
  BY <1>5 DEF m

(* The layout is filled with bytes. *)
LEMMA FixedIsBuffer ==
    ASSUME NEW g \in {"rebuild_args", "config"}, NEW d \in Seq(Byte)
    PROVE  Fixed(g, d) \in Buffers(g) /\ Width(g) \in Nat
<1>1. Width(g) \in Nat
  BY SizesAssumption DEF Width
<1>2. \A n \in Nat : n < Len(d) => d[n + 1] \in Byte
  OBVIOUS
<1>3. 0 \in Byte
  BY DEF Byte
<1>4. QED
  BY <1>1, <1>2, <1>3 DEF Fixed, Buffers

(* What overwriting, appending or dropping a byte does to the buffer.      *)
LEMMA OverwriteBuffer ==
    ASSUME NEW g \in {"rebuild_args", "config"}, NEW d \in Seq(Byte),
           NEW n \in DOMAIN d, NEW x \in Byte
    PROVE  AlikeBut(n - 1, g, Fixed(g, d), Fixed(g, [d EXCEPT ![n] = x]))
  BY SizesAssumption DEF Fixed, AlikeBut, Width

(* ... appending one ... *)
LEMMA AppendBuffer ==
    ASSUME NEW g \in {"rebuild_args", "config"}, NEW d \in Seq(Byte), NEW x \in Byte
    PROVE  AlikeBut(Len(d), g, Fixed(g, d), Fixed(g, Append(d, x)))
  BY SizesAssumption DEF Fixed, AlikeBut, Width

(* ... and dropping the last. *)
LEMMA TruncateBuffer ==
    ASSUME NEW g \in {"rebuild_args", "config"}, NEW d \in Seq(Byte), d # <<>>
    PROVE  AlikeBut(Len(d) - 1, g, Fixed(g, d), Fixed(g, SubSeq(d, 1, Len(d) - 1)))
  BY SizesAssumption DEF Fixed, AlikeBut, Width

--------------------------------------------------------------------------------
(* Each field reads offsets that no other field reads. *)

(* The rebuild-args generator. *)
LEMMA RebuildArgsLocal ==
    ASSUME NEW n \in Int, NEW b \in Buffers("rebuild_args"), NEW d \in Buffers("rebuild_args"),
           AlikeBut(n, "rebuild_args", b, d)
    PROVE  AtMostOne(Changed(RebuildArgs(b), RebuildArgs(d)))
<1> DEFINE sizes(s) == [i \in 0..((s[1] % (MaxDim + 1)) - 1) |-> ValueFromByte(s[5 + i])]
           strides(s) == [i \in 0..((s[2] % (MaxDim + 1)) - 1) |-> ValueFromByte(s[5 + MaxDim + i])]
<1>1. /\ MaxDim \in Nat \ {0} /\ Width("rebuild_args") = 5 + 2 * MaxDim
      /\ \A m \in 0..(4 + 2 * MaxDim) : b[m] \in Nat /\ d[m] \in Nat /\ (m # n => b[m] = d[m])
  <2>1. MaxDim \in Nat \ {0} /\ Width("rebuild_args") = 5 + 2 * MaxDim
    BY SizesAssumption DEF Width
  <2>2. 0..(Width("rebuild_args") - 1) = 0..(4 + 2 * MaxDim)
    BY <2>1
  <2>3. Byte \subseteq Nat
    BY DEF Byte
  <2>4. \A m \in 0..(4 + 2 * MaxDim) : b[m] \in Nat /\ d[m] \in Nat /\ (m # n => b[m] = d[m])
    BY <2>2, <2>3 DEF Buffers, AlikeBut
  <2>5. QED
    BY <2>1, <2>4
<1>2. n # 0 => b[0] % 12 = d[0] % 12
  BY <1>1
<1>3. n # 3 => (b[3] % 2 = 1) = (d[3] % 2 = 1)
  BY <1>1
<1>4. ~(n = 1 \/ n \in 5..(4 + MaxDim)) => sizes(b) = sizes(d)
  <2> SUFFICES ASSUME ~(n = 1 \/ n \in 5..(4 + MaxDim)) PROVE sizes(b) = sizes(d)
    OBVIOUS
  <2>1. b[1] = d[1] /\ b[1] \in Nat
    BY <1>1
  <2>2. b[1] % (MaxDim + 1) \in 0..MaxDim
    BY <2>1, Dimensions
  <2>3. \A i \in 0..((b[1] % (MaxDim + 1)) - 1) : b[5 + i] = d[5 + i]
    BY <1>1, <2>2
  <2>4. QED
    BY <2>1, <2>3
<1>5. ~(n = 2 \/ n \in (5 + MaxDim)..(4 + 2 * MaxDim)) => strides(b) = strides(d)
  <2> SUFFICES ASSUME ~(n = 2 \/ n \in (5 + MaxDim)..(4 + 2 * MaxDim))
               PROVE  strides(b) = strides(d)
    OBVIOUS
  <2>1. b[2] = d[2] /\ b[2] \in Nat
    BY <1>1
  <2>2. b[2] % (MaxDim + 1) \in 0..MaxDim
    BY <2>1, Dimensions
  <2>3. \A i \in 0..((b[2] % (MaxDim + 1)) - 1) : b[5 + MaxDim + i] = d[5 + MaxDim + i]
    BY <1>1, <2>2
  <2>4. QED
    BY <2>1, <2>3
<1> HIDE DEF sizes, strides
<1>6. \A f \in Changed(RebuildArgs(b), RebuildArgs(d)) :
          \/ f = "dtype" /\ b[0] % 12 # d[0] % 12
          \/ f = "size" /\ sizes(b) # sizes(d)
          \/ f = "stride" /\ strides(b) # strides(d)
          \/ f = "requiresGrad" /\ (b[3] % 2 = 1) # (d[3] % 2 = 1)
  <2>1. \A s : /\ DOMAIN RebuildArgs(s) = {"dtype", "size", "stride", "requiresGrad"}
               /\ RebuildArgs(s).dtype = s[0] % 12
               /\ RebuildArgs(s).size = sizes(s)
               /\ RebuildArgs(s).stride = strides(s)
               /\ RebuildArgs(s).requiresGrad = (s[3] % 2 = 1)
    BY DEF RebuildArgs, sizes, strides
  <2>2. QED
    BY <2>1 DEF Changed
<1>7. QED
  BY <1>1, <1>2, <1>3, <1>4, <1>5, <1>6 DEF AtMostOne

(* The config generator. *)
LEMMA ConfigLocal ==
    ASSUME NEW n \in Int, NEW b \in Buffers("config"), NEW d \in Buffers("config"),
           AlikeBut(n, "config", b, d)
    PROVE  AtMostOne(Changed(Config(b), Config(d)))
<1>1. \A m \in 0..7 : m # n => b[m] = d[m]
  <2>1. Width("config") \in Nat /\ Width("config") >= 8
    BY SizesAssumption DEF Width
  <2>2. 0..7 \subseteq 0..(Width("config") - 1)
    BY <2>1
  <2>3. QED
    BY <2>2 DEF AlikeBut
<1> DEFINE model(s) == MkModel(s[0], SizeClass(s[6]), s[7])
           tokens(s) == [i \in 0..((s[5] % 5) - 1) |-> s[4] % 2 = 1]
<1>2. /\ n \notin {0, 6, 7} => model(b) = model(d)
      /\ n # 1 => Tagged(b[1], 12) = Tagged(d[1], 12)
      /\ n # 2 => Tagged(b[2], 11) = Tagged(d[2], 11)
      /\ n # 3 => Tagged(b[3], 10) = Tagged(d[3], 10)
      /\ n \notin {4, 5} => tokens(b) = tokens(d)
  BY <1>1
<1> HIDE DEF model, tokens
<1>3. \A f \in Changed(Config(b), Config(d)) :
          \/ f = "model" /\ n \in {0, 6, 7}
          \/ f = "normalizer" /\ n = 1
          \/ f = "pre_tokenizer" /\ n = 2
          \/ f = "decoder" /\ n = 3
          \/ f = "added_tokens" /\ n \in {4, 5}
  <2>1. \A s : /\ DOMAIN Config(s) = {"model", "normalizer", "pre_tokenizer", "decoder",
                                     "post_processor", "added_tokens"}
               /\ Config(s).model = model(s)
               /\ Config(s).normalizer = Tagged(s[1], 12)
               /\ Config(s).pre_tokenizer = Tagged(s[2], 11)
               /\ Config(s).decoder = Tagged(s[3], 10)
               /\ Config(s).post_processor = <<>>
               /\ Config(s).added_tokens = tokens(s)
    BY DEF Config, model, tokens
  <2>2. QED
    BY <1>2, <2>1 DEF Changed
<1>4. QED
  BY <1>3 DEF AtMostOne

--------------------------------------------------------------------------------
(* The fuzzer. *)

(* The fuzzer writes nothing but bytes. *)
THEOREM Typing == Spec => []Typed
<1>1. Init => Typed
  BY GeneratorsAssumption DEF Init, Typed
<1>2. Typed /\ [Next]_vars => Typed'
  <2>1. Bytes \subseteq Byte
    BY BytesAssumption DEF Byte
  <2>2. ASSUME Typed, Overwrite PROVE Typed'
    BY <2>1, <2>2 DEF Typed, Overwrite
  <2>3. ASSUME Typed, Grow PROVE Typed'
    BY <2>1, <2>3 DEF Typed, Grow
  <2>4. ASSUME Typed, Truncate PROVE Typed'
    BY <2>4 DEF Typed, Truncate
  <2>5. QED
    BY <2>2, <2>3, <2>4 DEF Next, Typed, vars
<1>3. QED
  BY <1>1, <1>2, PTL DEF Spec

(* Either generator. *)
LEMMA DecodedLocal ==
    ASSUME NEW g \in {"rebuild_args", "config"}, NEW d \in Seq(Byte), NEW e \in Seq(Byte),
           NEW n \in Int, AlikeBut(n, g, Fixed(g, d), Fixed(g, e))
    PROVE  AtMostOne(Changed(Decoded(g, d), Decoded(g, e)))
<1>1. Fixed(g, d) \in Buffers(g) /\ Fixed(g, e) \in Buffers(g)
  BY FixedIsBuffer
<1>2. CASE g = "rebuild_args"
  BY <1>1, <1>2, RebuildArgsLocal DEF Decoded
<1>3. CASE g = "config"
  BY <1>1, <1>3, ConfigLocal DEF Decoded
<1>4. QED
  BY <1>2, <1>3

(* "A one-byte flip changes at most one component/field and positions      *)
(* never shift": a byte that is overwritten, appended or dropped, for a    *)
(* layout of any size and any values of the bytes.                         *)
THEOREM FlipsAreLocal == Spec => ByteIsLocal
<1>1. Typed /\ Typed' /\ [Next]_vars
        => [AtMostOne(Changed(Decoded(gen, data), Decoded(gen', data')))]_vars
  <2> SUFFICES ASSUME Typed, Typed', Next
               PROVE  AtMostOne(Changed(Decoded(gen, data), Decoded(gen', data')))
    OBVIOUS
  <2>1. /\ gen \in {"rebuild_args", "config"} /\ gen' = gen
        /\ data \in Seq(Byte) /\ data' \in Seq(Byte) /\ Len(data) \in Nat
    BY DEF Typed, Next, Overwrite, Grow, Truncate
  <2>2. Bytes \subseteq Byte
    BY BytesAssumption DEF Byte
  <2>3. ASSUME Overwrite
        PROVE  \E n \in Int : AlikeBut(n, gen, Fixed(gen, data), Fixed(gen, data'))
    <3>1. PICK n \in DOMAIN data, b \in Bytes : data' = [data EXCEPT ![n] = b]
      BY <2>3 DEF Overwrite
    <3>2. n - 1 \in Int /\ b \in Byte
      BY <2>1, <2>2, <3>1
    <3>3. AlikeBut(n - 1, gen, Fixed(gen, data), Fixed(gen, data'))
      BY <2>1, <3>1, <3>2, OverwriteBuffer
    <3>4. QED
      BY <3>2, <3>3
  <2>4. ASSUME Grow
        PROVE  \E n \in Int : AlikeBut(n, gen, Fixed(gen, data), Fixed(gen, data'))
    BY <2>1, <2>2, <2>4, AppendBuffer DEF Grow
  <2>5. ASSUME Truncate
        PROVE  \E n \in Int : AlikeBut(n, gen, Fixed(gen, data), Fixed(gen, data'))
    BY <2>1, <2>5, TruncateBuffer DEF Truncate
  <2>6. QED
    BY <2>1, <2>3, <2>4, <2>5, DecodedLocal DEF Next
<1>2. QED
  BY <1>1, Typing, PTL DEF Spec, ByteIsLocal

(* Appending a zero, or anything past the layout, leaves the buffer as it  *)
(* was.                                                                    *)
LEMMA PaddingBuffer ==
    ASSUME NEW g \in {"rebuild_args", "config"}, NEW d \in Seq(Byte), NEW x \in Byte,
           x = 0 \/ Len(d) = Width(g)
    PROVE  Fixed(g, Append(d, x)) = Fixed(g, d)
<1>1. Width(g) \in Nat
  BY FixedIsBuffer
<1>2. \A n \in 0..(Width(g) - 1) :
          (IF n < Len(Append(d, x)) THEN Append(d, x)[n + 1] ELSE 0)
            = (IF n < Len(d) THEN d[n + 1] ELSE 0)
  BY <1>1
<1>3. QED
  BY <1>2 DEF Fixed

(* Trailing zeros are padding, and what is past the layout is ignored.     *)
THEOREM PaddingIsIgnored == Spec => ZerosArePadding
<1>1. Typed /\ Typed' /\ [Next]_vars
        => [data' = Append(data, 0) \/ (Len(data') > Width(gen) /\ Len(data) = Width(gen))
              => Decoded(gen', data') = Decoded(gen, data)]_vars
  <2> SUFFICES ASSUME Typed, Typed', Next,
                      data' = Append(data, 0) \/ (Len(data') > Width(gen) /\ Len(data) = Width(gen))
               PROVE  Decoded(gen', data') = Decoded(gen, data)
    OBVIOUS
  <2>1. /\ gen \in {"rebuild_args", "config"} /\ gen' = gen
        /\ data \in Seq(Byte) /\ data' \in Seq(Byte) /\ Len(data) \in Nat
    BY DEF Typed, Next, Overwrite, Grow, Truncate
  <2>2. Bytes \subseteq Byte /\ 0 \in Byte
    BY BytesAssumption DEF Byte
  <2>3. CASE data' = Append(data, 0)
    BY <2>1, <2>2, <2>3, PaddingBuffer DEF Decoded
  <2>4. CASE Len(data') > Width(gen) /\ Len(data) = Width(gen)
    <3>1. Len(data') > Len(data)
      BY <2>4
    <3>2. ~Overwrite /\ ~Truncate
      BY <2>1, <3>1 DEF Overwrite, Truncate
    <3>3. PICK x \in Byte : data' = Append(data, x)
      BY <2>2, <3>2 DEF Next, Grow
    <3>4. QED
      BY <2>1, <2>4, <3>3, PaddingBuffer DEF Decoded
  <2>5. QED
    BY <2>3, <2>4
<1>2. QED
  BY <1>1, Typing, PTL DEF Spec, ZerosArePadding
================================================================================
