------------------------- MODULE NativeOrViemProofs -------------------------
(***************************************************************************)
(* The two ABI calls answer as viem does, for any widths of words, types   *)
(* and safe integers, any ABI and any values.                              *)
(*                                                                         *)
(* Types nest, so the facts about a parameter are by induction on how deep *)
(* it nests (NestingInduction): a lemma for the scalars, one for arrays,   *)
(* one for tuples, each from the level below.  An operator's recursion is  *)
(* unfolded once in each, by the assumptions of NativeOrViem.              *)
(*                                                                         *)
(* Decoding follows a wire value through alloy's value and the JSON to the *)
(* JavaScript value that is parsed of it (DecodedRight, ServedRight);      *)
(* encoding follows the JavaScript value the other way (EncodedRight).     *)
(* The way back is in two halves: the JSON is the same once JavaScript     *)
(* parsed and stringified it (Survives), and the native code reads in it   *)
(* what was on the wire (ReadBack).                                        *)
(***************************************************************************)
EXTENDS NativeOrViem, NativeOrOriginalProofs, NatRecursion

---------------------------------------------------------------------------
(* Powers of two. *)

\* Powers of two are what their equation says.
LEMMA Powers ==
    /\ Pow2[0] = 1
    /\ \A k \in 1 .. WORD_BITS : Pow2[k] = 2 * Pow2[k - 1]
    /\ \A k \in 0 .. WORD_BITS : Pow2[k] \in Nat \ {0}
<1> DEFINE Positive == Nat \ {0}
           step == [k \in 1 .. WORD_BITS |-> [x \in Positive |-> 2 * x]]
<1>1. WORD_BITS \in Nat
  BY WidthsAssumption
<1>2. step \in [1 .. WORD_BITS -> [Positive -> Positive]] /\ 1 \in Positive
  OBVIOUS
<1>3. PICK g \in [0 .. WORD_BITS -> Positive] : Follows(g, WORD_BITS, 1, step)
  <2> HIDE DEF step, Positive
  <2> QED BY <1>1, <1>2, RecursionOnInterval
<1>4. g = [k \in 0 .. WORD_BITS |-> IF k = 0 THEN 1 ELSE 2 * g[k - 1]]
  <2>1. ASSUME NEW k \in 1 .. WORD_BITS PROVE g[k] = 2 * g[k - 1]
    <3>1. step[k] = [x \in Positive |-> 2 * x] /\ g[k - 1] \in Positive
      BY <1>1, <1>3
    <3> QED BY <1>3, <3>1 DEF Follows
  <2> QED BY <1>3, <2>1 DEF Follows
<1>5. Pow2 = [k \in 0 .. WORD_BITS |-> IF k = 0 THEN 1 ELSE 2 * Pow2[k - 1]]
  BY <1>4, Zenon DEF Pow2
<1>6. Pow2[0] = 1
  <2>1. 0 \in 0 .. WORD_BITS
    BY <1>1
  <2> QED BY <1>5, <2>1, Zenon
<1>7. ASSUME NEW k \in 1 .. WORD_BITS PROVE Pow2[k] = 2 * Pow2[k - 1]
  <2>1. k \in 0 .. WORD_BITS /\ k # 0
    BY <1>1
  <2> QED BY <1>5, <2>1, Zenon
<1>8. \A k \in 0 .. WORD_BITS : Pow2[k] \in Positive
  <2> DEFINE S == {k \in 0 .. WORD_BITS : Pow2[k] \in Positive}
  <2>1. 0 \in S
    BY <1>1, <1>6
  <2>2. ASSUME NEW k \in 1 .. WORD_BITS, k - 1 \in S PROVE k \in S
    BY <1>1, <1>7, <2>2
  <2>3. 0 .. WORD_BITS \subseteq S
    <3> HIDE DEF S
    <3> QED BY <1>1, <2>1, <2>2, IntervalInduction
  <2> QED BY <2>3
<1> QED BY <1>6, <1>7, <1>8

\* They grow.
LEMMA PowersGrow ==
    ASSUME NEW n \in 0 .. WORD_BITS, NEW m \in 0 .. n
    PROVE  Pow2[m] <= Pow2[n]
<1> DEFINE S == {k \in 0 .. n : m <= k => Pow2[m] <= Pow2[k]}
<1>1. WORD_BITS \in Nat /\ n \in Nat /\ m \in Nat /\ Pow2[m] \in Nat
  BY Powers, WidthsAssumption
<1>2. 0 \in S
  <2>1. m <= 0 => m = 0
    BY <1>1
  <2> QED BY <1>1, <2>1
<1>3. ASSUME NEW k \in 1 .. n, k - 1 \in S PROVE k \in S
  <2>1. k \in 1 .. WORD_BITS /\ k - 1 \in 0 .. WORD_BITS /\ k \in 0 .. n
    BY <1>1
  <2>2. Pow2[k] = 2 * Pow2[k - 1] /\ Pow2[k - 1] \in Nat
    BY <2>1, Powers
  <2>3. CASE m <= k - 1
    BY <1>1, <1>3, <2>1, <2>2, <2>3
  <2>4. CASE ~(m <= k - 1)
    <3>1. m <= k => m = k
      BY <1>1, <2>1, <2>4
    <3> QED BY <1>1, <2>1, <2>2, <3>1
  <2> QED BY <2>3, <2>4
<1>4. 0 .. n \subseteq S
  <2> HIDE DEF S
  <2> QED BY <1>1, <1>2, <1>3, IntervalInduction
<1> QED BY <1>1, <1>4

---------------------------------------------------------------------------
(* Results in a row. *)

\* All of them, if none is an error; an error, if one is.
LEMMA Collected ==
    ASSUME NEW rs, NEW n \in Nat, DOMAIN rs = 1 .. n
    PROVE  /\ (\A i \in 1 .. n : ~ IsErr(rs[i])) =>
                ~ IsErr(Collect(rs)) /\ Collect(rs).ok = [i \in 1 .. n |-> rs[i].ok]
           /\ ~ IsErr(Collect(rs)) => \A i \in 1 .. n : ~ IsErr(rs[i])
<1>1. ASSUME \A i \in 1 .. n : ~ IsErr(rs[i])
      PROVE  ~ IsErr(Collect(rs)) /\ Collect(rs).ok = [i \in 1 .. n |-> rs[i].ok]
  <2>1. Collect(rs) = Ok([i \in 1 .. n |-> rs[i].ok])
    BY <1>1 DEF Collect
  <2> QED BY <2>1, Results
<1>2. ASSUME NEW i \in 1 .. n, IsErr(rs[i]) PROVE IsErr(Collect(rs))
  <2> DEFINE First(k) == k \in 1 .. n /\ IsErr(rs[k]) /\ \A j \in 1 .. (k - 1) : ~ IsErr(rs[j])
             S == {k \in 0 .. n : \A j \in 1 .. k : ~ IsErr(rs[j])}
  <2>1. \E k : First(k)
    <3> SUFFICES ASSUME \A k : ~ First(k) PROVE FALSE
      OBVIOUS
    <3>1. 0 \in S
      OBVIOUS
    <3>2. ASSUME NEW k \in 1 .. n, k - 1 \in S PROVE k \in S
      BY <3>2
    <3>3. 0 .. n \subseteq S
      <4> HIDE DEF S
      <4> QED BY <3>1, <3>2, IntervalInduction
    <3>4. n \in S
      <4> HIDE DEF S
      <4> QED BY <3>3
    <3> QED BY <1>2, <3>4
  <2>2. PICK k : First(k)
    BY <2>1
  <2> DEFINE first == CHOOSE j \in DOMAIN rs : IsErr(rs[j]) /\ \A l \in 1 .. (j - 1) : ~ IsErr(rs[l])
  <2>3. IsErr(rs[first])
    BY <2>2
  <2>4. Collect(rs) = rs[first]
    BY <1>2 DEF Collect
  <2> HIDE DEF first
  <2> QED BY <2>3, <2>4
<1> QED BY <1>1, <1>2

---------------------------------------------------------------------------
(* Parameters. *)

\* An element has the components of its array, and nests less.
LEMMA Elements ==
    ASSUME NEW param \in Params, param.ty.dims # << >>
    PROVE  /\ ElementParam(param) = Element(param)
           /\ Element(param) \in Params
           /\ Element(param).components = param.components
           /\ Element(param).ty.base = param.ty.base
           /\ Nesting(Element(param)) < Nesting(param)
           /\ split_array_type(param.ty) # << >>
           /\ split_array_type(param.ty)[2] = Last(param.ty.dims)
<1>1. param \in [ty : Types, name : STRING, components : Seq(Params)] /\ param.ty \in Types
  BY ParamsAssumption
<1>2. split_array_type(param.ty) = <<[param.ty EXCEPT !.dims = Front(@)], Last(param.ty.dims)>>
  BY <1>1 DEF split_array_type
<1>3. ElementParam(param) = Element(param)
  BY <1>1, <1>2 DEF ElementParam, Element, Types
<1>4. Element(param).components = param.components
  BY <1>1 DEF Element
<1>5. Element(param).ty.base = param.ty.base
  <2>1. Element(param).ty = [param.ty EXCEPT !.dims = Front(@)]
    BY <1>1 DEF Element
  <2> QED BY <1>1, <2>1 DEF Types
<1> QED BY <1>2, <1>3, <1>4, <1>5, ParamsAssumption

\* What is no array splits into nothing.
LEMMA NoElements ==
    ASSUME NEW param \in Params, param.ty.dims = << >>
    PROVE  split_array_type(param.ty) = << >>
  BY DEF split_array_type

---------------------------------------------------------------------------
(* Numbers. *)

Safe == -JS_MAX_SAFE_INTEGER .. JS_MAX_SAFE_INTEGER

\* A safe integer is a double, and is printed as it is.
LEMMA SafeNumbersSurvive ==
    ASSUME NEW n \in Safe
    PROVE  Double(n) = n /\ Printed(n) = n
<1>1. JS_MAX_SAFE_INTEGER \in Nat /\ WORD_BITS \in Nat /\ n \in Int
  BY WidthsAssumption DEF Safe
<1>2. Abs(n) \in Nat /\ Abs(n) <= JS_MAX_SAFE_INTEGER
  BY <1>1 DEF Abs, Safe
<1> DEFINE Within(k) == Abs(n) <= (JS_MAX_SAFE_INTEGER + 1) * Pow2[k]
           least == CHOOSE k \in 0..WORD_BITS : Within(k) /\ \A j \in 0..(k - 1) : ~ Within(j)
<1>3. Within(0)
  BY <1>1, <1>2, Powers
<1>4. least = 0
  <2>1. 0 \in 0 .. WORD_BITS /\ Within(0) /\ \A j \in 0 .. (0 - 1) : ~ Within(j)
    BY <1>1, <1>3
  <2>2. ASSUME NEW k \in 0 .. WORD_BITS, Within(k) /\ \A j \in 0..(k - 1) : ~ Within(j)
        PROVE  k = 0
    BY <1>1, <1>3, <2>2
  <2> HIDE DEF Within
  <2> QED BY <2>1, <2>2
<1>5. Spacing(n) = 1
  BY <1>4, Powers DEF Spacing
<1>6. Double(n) = n
  BY <1>1, <1>5 DEF Double
<1>7. Printed(n) = n
  BY <1>2 DEF Printed
<1> QED BY <1>6, <1>7

\* A native integer result is read back as the number or the BigInt viem gives it.
LEMMA IntegersAreRead ==
    ASSUME NEW n \in Int, NEW size \in Nat, ~ IsErr(int_to_json(n, size)),
           NEW json, json = int_to_json(n, size).ok,
           richJsonParse(json) = richJsonParseAt(json)
    PROVE  IF size > JS_SAFE_INT_BITS THEN richJsonParse(json) = [big |-> n]
           ELSE richJsonParse(json) = [number |-> n] /\ Abs(n) <= JS_MAX_SAFE_INTEGER
<1>1. CASE size > JS_SAFE_INT_BITS
  <2>1. json = [obj |-> [key \in {BIGINT_TAG} |-> [str |-> Decimal(n)]]]
    BY <1>1, Results DEF int_to_json, bigint_tag
  <2>2. DOMAIN json = {"obj"} /\ DOMAIN json.obj = {BIGINT_TAG}
        /\ json.obj[BIGINT_TAG] = [str |-> Decimal(n)]
    BY <2>1
  <2>3. "decimal" \in DOMAIN Decimal(n) /\ Decimal(n).decimal = n
    BY DEF Decimal
  <2>4. IsTag(json)
    BY <2>2, <2>3 DEF IsTag
  <2>5. richJsonParseAt(json) = [big |-> json.obj[BIGINT_TAG].str.decimal]
    BY <2>2, <2>4 DEF richJsonParseAt
  <2> QED BY <1>1, <2>2, <2>3, <2>5
<1>2. CASE ~(size > JS_SAFE_INT_BITS)
  <2>1. n \in Safe
    BY <1>2, Results DEF int_to_json, Safe
  <2>2. json = [num |-> n]
    BY <1>2, Results DEF int_to_json
  <2>3. richJsonParseAt(json) = [number |-> Double(n)]
    BY <2>2 DEF richJsonParseAt
  <2>4. Abs(n) <= JS_MAX_SAFE_INTEGER
    BY <2>1, WidthsAssumption DEF Abs, Safe
  <2> QED BY <1>2, <2>1, <2>3, <2>4, SafeNumbersSurvive
<1> QED BY <1>1, <1>2

---------------------------------------------------------------------------
(* Decoding, one level at a time. *)

\* What is returned for a wire value is what viem reads in it, whichever parameter of
\* the same components its JSON was made for.
DecodedRight(param, wire) ==
    \A p \in Params : p.components = param.components =>
        LET json == value_to_json(p, DynValue(param, wire)) IN
        ~ IsErr(json) => ViemDecodes(param, wire, richJsonParse(json.ok))

\* It is enough to look at one level.
LEMMA OneLevel ==
    ASSUME NEW param \in Params, NEW p \in Params, p.components = param.components,
           NEW wire \in Wires(param)
    PROVE  /\ DynValue(param, wire) = DynValueAt(param, wire)
           /\ value_to_json(p, DynValue(param, wire)) =
                value_to_json_at(p, DynValue(param, wire))
           /\ Canonical(param, wire) <=> CanonicalAt(param, wire)
           /\ ~ IsErr(value_to_json(p, DynValue(param, wire))) =>
                LET json == value_to_json(p, DynValue(param, wire)).ok
                    js == richJsonParse(json)
                IN  /\ js = richJsonParseAt(json)
                    /\ ViemDecodes(param, wire, js) <=>
                         ViemDecodesAt(param, wire, js)
  BY DecodingAssumption

\* Neither an array nor a tuple.
IsScalar(param) == param.ty.dims = << >> /\ param.ty.base # "tuple"

\* Scalars, by what they are decoded to.
LEMMA ScalarValues ==
    ASSUME NEW param \in Params, NEW wire \in Wires(param), IsScalar(param)
    PROVE  LET ty == param.ty
               value == DynValue(param, wire)
           IN  /\ ty.base = "uint" =>
                    /\ wire \in [word : 0 .. (Pow2[WORD_BITS] - 1)]
                    /\ value = [uint |-> wire.word, size |-> ty.size]
               /\ ty.base = "int" =>
                    /\ wire \in [word : 0 .. (Pow2[WORD_BITS] - 1)]
                    /\ value = [int |-> SignedWord(ty, wire), size |-> ty.size]
               /\ ty.base = "bool" =>
                    /\ wire \in [word : 0 .. (Pow2[WORD_BITS] - 1)]
                    /\ value = [bool |-> wire.word # 0]
               /\ ty.base = "address" =>
                    wire \in [hex : Addresses] /\ value = [address |-> wire.hex]
               /\ ty.base = "bytes" =>
                    wire \in [hex : Bytes] /\ value = [bytes |-> wire.hex]
               /\ ty.base = "fixed" =>
                    /\ wire \in [hex : Bytes] /\ Len(wire.hex) = 2 * ty.size
                    /\ value = [fixed |-> wire.hex, size |-> ty.size]
               /\ ty.base = "string" =>
                    wire \in [text : Texts] /\ value = [string |-> wire.text]
               /\ ty.base \notin {"uint", "int", "bool", "address", "bytes", "fixed", "string"} =>
                    value = [function |-> wire.hex]
<1>1. /\ DynValue(param, wire) = DynValueAt(param, wire)
      /\ param.ty.dims = << >> /\ param.ty.base # "tuple" /\ split_array_type(param.ty) = << >>
      /\ ~ IsTuple(param.ty)
  BY OneLevel, NoElements DEF IsScalar, IsTuple
<1> DEFINE ty == param.ty
<1>2. CASE ty.base = "uint"
  BY <1>1, <1>2, WiresAssumption DEF DynValueAt
<1>3. CASE ty.base = "int"
  <2>1. wire \in [word : 0 .. (Pow2[WORD_BITS] - 1)]
    BY <1>1, <1>3, WiresAssumption
  <2>2. WORD_BITS - 1 \in 0 .. WORD_BITS /\ WORD_BITS \in 0 .. WORD_BITS
    BY WidthsAssumption
  <2>3. Pow2[WORD_BITS - 1] \in Nat /\ wire.word \in Int
    BY <2>1, <2>2, Powers
  <2>4. DynValue(param, wire) =
          [int |-> IF wire.word < Pow2[WORD_BITS - 1] THEN wire.word
                                                     ELSE wire.word - Pow2[WORD_BITS],
           size |-> ty.size]
    BY <1>1, <1>3 DEF DynValueAt
  <2>5. SignedWord(ty, wire) = IF wire.word < Pow2[WORD_BITS - 1] THEN wire.word
                                                     ELSE wire.word - Pow2[WORD_BITS]
    BY <1>3, <2>3 DEF SignedWord
  <2> QED BY <1>3, <2>1, <2>4, <2>5
<1>4. CASE ty.base = "bool"
  BY <1>1, <1>4, WiresAssumption DEF DynValueAt
<1>5. CASE ty.base = "address"
  BY <1>1, <1>5, WiresAssumption DEF DynValueAt
<1>6. CASE ty.base = "bytes"
  BY <1>1, <1>6, WiresAssumption DEF DynValueAt
<1>7. CASE ty.base = "fixed"
  BY <1>1, <1>7, WiresAssumption DEF DynValueAt
<1>8. CASE ty.base = "string"
  BY <1>1, <1>8, WiresAssumption DEF DynValueAt
<1>9. CASE ty.base \notin {"uint", "int", "bool", "address", "bytes", "fixed", "string"}
  BY <1>1, <1>9 DEF DynValueAt
<1> QED BY <1>2, <1>3, <1>4, <1>5, <1>6, <1>7, <1>8, <1>9

\* A word read as its type is an integer.
LEMMA SignedWordsAreIntegers ==
    ASSUME NEW ty, NEW wire \in [word : 0 .. (Pow2[WORD_BITS] - 1)]
    PROVE  SignedWord(ty, wire) \in Int
<1>1. Pow2[WORD_BITS] \in Nat
  BY Powers, WidthsAssumption
<1> QED BY <1>1 DEF SignedWord

\* Every word read for a bool is one of the two a Solidity contract writes.
BoolsAreBits ==
    \A param \in Params : (param.ty.dims = << >> /\ param.ty.base = "bool") =>
        \A wire \in Wires(param) : wire.word \in {0, 1}

\* Scalars are decoded as viem decodes them.
LEMMA ScalarsAreDecodedRight ==
    ASSUME BoolsAreBits, NEW param \in Params, NEW wire \in Wires(param), IsScalar(param)
    PROVE  DecodedRight(param, wire)
<1> SUFFICES ASSUME NEW p \in Params, p.components = param.components,
                    ~ IsErr(value_to_json(p, DynValue(param, wire)))
             PROVE  ViemDecodes(param, wire,
                       richJsonParse(value_to_json(p, DynValue(param, wire)).ok))
  BY DEF DecodedRight
<1> DEFINE ty == param.ty
           value == DynValue(param, wire)
           json == value_to_json(p, value).ok
           js == richJsonParse(json)
<1>1. /\ value_to_json(p, value) = value_to_json_at(p, value)
      /\ js = richJsonParseAt(json)
      /\ ViemDecodes(param, wire, js) <=> ViemDecodesAt(param, wire, js)
      /\ ~ IsErr(value_to_json(p, value))
  BY OneLevel
<1>2. ty.dims = << >> /\ ty.base # "tuple" /\ ty.size \in Nat
  BY ParamsAssumption DEF IsScalar, Types
<1>3. CASE ty.base = "uint"
  <2>1. value = [uint |-> wire.word, size |-> ty.size] /\ wire.word \in Int
    <3>1. wire \in [word : 0 .. (Pow2[WORD_BITS] - 1)] /\ Pow2[WORD_BITS] \in Nat
      BY <1>3, ScalarValues, Powers, WidthsAssumption
    <3> QED BY <1>3, <3>1, ScalarValues
  <2>2. value_to_json(p, value) = int_to_json(wire.word, ty.size)
    BY <1>1, <2>1 DEF value_to_json_at
  <2>3. IF ty.size > JS_SAFE_INT_BITS THEN js = [big |-> wire.word]
        ELSE js = [number |-> wire.word] /\ Abs(wire.word) <= JS_MAX_SAFE_INTEGER
    <3> HIDE DEF value
    <3> QED BY <1>1, <1>2, <2>1, <2>2, IntegersAreRead
  <2>4. SignedWord(ty, wire) = wire.word
    BY <1>3 DEF SignedWord
  <2> HIDE DEF js
  <2>5. ViemDecodesAt(param, wire, js)
    BY <1>2, <1>3, <2>3, <2>4 DEF ViemDecodesAt
  <2> QED BY <1>1, <2>5 DEF js
<1>4. CASE ty.base = "int"
  <2> DEFINE n == SignedWord(ty, wire)
  <2>1. value = [int |-> n, size |-> ty.size] /\ n \in Int
    BY <1>4, ScalarValues, SignedWordsAreIntegers
  <2> HIDE DEF n
  <2>2. value_to_json(p, value) = int_to_json(n, ty.size)
    BY <1>1, <2>1 DEF value_to_json_at
  <2>3. IF ty.size > JS_SAFE_INT_BITS THEN js = [big |-> n]
        ELSE js = [number |-> n] /\ Abs(n) <= JS_MAX_SAFE_INTEGER
    <3> HIDE DEF value
    <3> QED BY <1>1, <1>2, <2>1, <2>2, IntegersAreRead
  <2> HIDE DEF js
  <2>5. ViemDecodesAt(param, wire, js)
    BY <1>2, <1>4, <2>3 DEF ViemDecodesAt, n
  <2> QED BY <1>1, <2>5 DEF js
<1>5. CASE ty.base = "bool"
  <2>1. value = [bool |-> wire.word # 0]
    BY <1>5, ScalarValues
  <2>2. json = [bool |-> wire.word # 0]
    BY <1>1, <2>1, Results DEF value_to_json_at
  <2>3. js = [boolean |-> wire.word # 0]
    BY <1>1, <2>2 DEF richJsonParseAt
  <2>4. wire.word \in {0, 1} /\ js = [boolean |-> wire.word = 1]
    <3>1. wire.word \in {0, 1}
      BY <1>2, <1>5 DEF BoolsAreBits
    <3>2. (wire.word # 0) = (wire.word = 1)
      BY <3>1
    <3> HIDE DEF js
    <3> QED BY <2>3, <3>1, <3>2
  <2> HIDE DEF js
  <2>5. ViemDecodesAt(param, wire, js)
    BY <1>2, <1>5, <2>4 DEF ViemDecodesAt
  <2> QED BY <1>1, <2>5 DEF js
<1>6. CASE ty.base = "address"
  <2>1. value = [address |-> wire.hex] /\ wire.hex \in Addresses
    BY <1>6, ScalarValues
  <2>2. json = [str |-> to_checksum(wire.hex)]
    BY <1>1, <2>1, Results DEF value_to_json_at
  <2>3. js = [string |-> to_checksum(wire.hex)]
    BY <1>1, <2>2 DEF richJsonParseAt
  <2>4. IsChecksumOf(to_checksum(wire.hex), wire.hex)
    BY <2>1, ChecksumsAreSound
  <2> HIDE DEF js
  <2>5. ViemDecodesAt(param, wire, js)
    BY <1>2, <1>6, <2>3, <2>4 DEF ViemDecodesAt
  <2> QED BY <1>1, <2>5 DEF js
<1>7. CASE ty.base \in {"bytes", "fixed"}
  <2>1. json = [str |-> bytes_to_hex(wire.hex)]
    <3>1. CASE ty.base = "bytes"
      <4>1. value = [bytes |-> wire.hex]
        BY <3>1, ScalarValues
      <4> QED BY <1>1, <4>1, Results DEF value_to_json_at
    <3>2. CASE ty.base = "fixed"
      <4>1. value = [fixed |-> wire.hex, size |-> ty.size]
        BY <3>2, ScalarValues
      <4> QED BY <1>1, <4>1, Results DEF value_to_json_at
    <3> QED BY <1>7, <3>1, <3>2
  <2>2. js = [string |-> bytes_to_hex(wire.hex)]
    BY <1>1, <2>1 DEF richJsonParseAt
  <2>3. bytes_to_hex(wire.hex) = Hex(HEX_PREFIX, wire.hex)
    BY DEF bytes_to_hex
  <2> HIDE DEF js
  <2>5. ViemDecodesAt(param, wire, js)
    BY <1>2, <1>7, <2>2, <2>3 DEF ViemDecodesAt
  <2> QED BY <1>1, <2>5 DEF js
<1>8. CASE ty.base = "string"
  <2> DEFINE text == IF "bom" \in DOMAIN wire.text /\ wire.text.bom > 0
                     THEN [bom |-> wire.text.bom - 1] ELSE wire.text
  <2>1. value = [string |-> wire.text] /\ wire.text \in Texts
    BY <1>8, ScalarValues
  <2>2. json = [str |-> text]
    BY <1>1, <2>1, Results DEF value_to_json_at
  <2>3. js = [string |-> text]
    <3> HIDE DEF text
    <3> QED BY <1>1, <2>2 DEF richJsonParseAt
  <2>4. text = IF "bom" \in DOMAIN wire.text /\ wire.text.bom # 0
               THEN [bom |-> wire.text.bom - 1] ELSE wire.text
    <3>1. "bom" \in DOMAIN wire.text => wire.text.bom \in Nat
      BY <2>1 DEF Texts
    <3> QED BY <3>1
  <2> HIDE DEF js, text
  <2>5. ViemDecodesAt(param, wire, js)
    BY <1>2, <1>8, <2>3, <2>4 DEF ViemDecodesAt
  <2> QED BY <1>1, <2>5 DEF js
<1>9. CASE ty.base \notin {"uint", "int", "bool", "address", "bytes", "fixed", "string"}
  <2>1. value = [function |-> wire.hex]
    BY <1>2, <1>9, ScalarValues
  <2>2. IsErr(value_to_json(p, value))
    BY <1>1, <2>1, Results DEF value_to_json_at
  <2> QED BY <1>1, <2>2
<1> QED BY <1>3, <1>4, <1>5, <1>6, <1>7, <1>8, <1>9

\* A function on 1 .. n has length n.
LEMMA Lengths ==
    ASSUME NEW n \in Nat, NEW s, s = [i \in 1 .. n |-> s[i]]
    PROVE  Len(s) = n
<1> DEFINE X == {s[i] : i \in 1 .. n}
<1>1. s \in [1 .. n -> X]
  OBVIOUS
<1> HIDE DEF X
<1> QED BY <1>1

\* What is on the wire for an array is one wire value for each element.
LEMMA ArrayItems ==
    ASSUME NEW param \in Params, NEW wire \in Wires(param), param.ty.dims # << >>
    PROVE  /\ Len(wire.items) \in Nat /\ DOMAIN wire.items = 1 .. Len(wire.items)
           /\ \A i \in 1 .. Len(wire.items) : wire.items[i] \in Wires(Element(param))
           /\ Last(param.ty.dims) \in {Dynamic, Len(wire.items)}
<1> DEFINE S == Wires(Element(param))
<1>1. wire \in [items : Seq(S)] /\ Last(param.ty.dims) \in {Dynamic, Len(wire.items)}
  BY WiresAssumption
<1> HIDE DEF S
<1>2. wire.items \in Seq(S)
  BY <1>1
<1>3. /\ Len(wire.items) \in Nat /\ DOMAIN wire.items = 1 .. Len(wire.items)
      /\ \A i \in 1 .. Len(wire.items) : wire.items[i] \in S
  BY <1>2
<1> QED BY <1>1, <1>3 DEF S

\* The elements of an array value.
ArrayOf(value) == IF "array" \in DOMAIN value THEN value.array ELSE value.fixedArray

\* An array is decoded one element at a time.
LEMMA ArrayValues ==
    ASSUME NEW param \in Params, NEW wire \in Wires(param), param.ty.dims # << >>
    PROVE  LET items == [i \in 1 .. Len(wire.items) |->
                           DynValue(Element(param), wire.items[i])]
           IN  DynValue(param, wire) \in {[array |-> items], [fixedArray |-> items]}
<1> DEFINE items == [i \in 1 .. Len(wire.items) |-> DynValue(Element(param), wire.items[i])]
<1>1. DynValue(param, wire) = DynValueAt(param, wire)
  BY OneLevel
<1>2. split_array_type(param.ty) # << >> /\ ElementParam(param) = Element(param)
  BY Elements
<1>3. items = [i \in DOMAIN wire.items |-> DynValue(ElementParam(param), wire.items[i])]
  BY <1>2, ArrayItems
<1>4. DynValueAt(param, wire) =
        IF split_array_type(param.ty)[2] = Dynamic THEN [array |-> items]
                                                   ELSE [fixedArray |-> items]
  <2> HIDE DEF items
  <2> QED BY <1>2, <1>3 DEF DynValueAt
<1> HIDE DEF items
<1> QED BY <1>1, <1>4 DEF items

\* An array's JSON is the JSON of its elements.
LEMMA ArrayJson ==
    ASSUME NEW p, NEW items, NEW value \in {[array |-> items], [fixedArray |-> items]}
    PROVE  value_to_json_at(p, value) =
             Then(Collect([i \in DOMAIN items |-> value_to_json(p, items[i])]),
                  LAMBDA json : Ok([arr |-> json]))
<1>1. CASE value = [array |-> items]
  <2>1. DOMAIN value = {"array"} /\ value.array = items
    BY <1>1
  <2> QED BY <2>1 DEF value_to_json_at
<1>2. CASE value = [fixedArray |-> items]
  <2>1. DOMAIN value = {"fixedArray"} /\ value.fixedArray = items
    BY <1>2
  <2> QED BY <2>1 DEF value_to_json_at
<1> QED BY <1>1, <1>2

\* Arrays are decoded right, if their elements are.
LEMMA ArraysAreDecodedRight ==
    ASSUME NEW param \in Params, NEW wire \in Wires(param), param.ty.dims # << >>,
           \A w \in Wires(Element(param)) : DecodedRight(Element(param), w)
    PROVE  DecodedRight(param, wire)
<1> SUFFICES ASSUME NEW p \in Params, p.components = param.components,
                    ~ IsErr(value_to_json(p, DynValue(param, wire)))
             PROVE  ViemDecodes(param, wire,
                       richJsonParse(value_to_json(p, DynValue(param, wire)).ok))
  BY DEF DecodedRight
<1> DEFINE element == Element(param)
           n == Len(wire.items)
           items == [i \in 1 .. n |-> DynValue(element, wire.items[i])]
           value == DynValue(param, wire)
           json == value_to_json(p, value).ok
           js == richJsonParse(json)
           rs == [i \in 1 .. n |-> value_to_json(p, items[i])]
<1>1. /\ value_to_json(p, value) = value_to_json_at(p, value)
      /\ js = richJsonParseAt(json)
      /\ ViemDecodes(param, wire, js) <=> ViemDecodesAt(param, wire, js)
      /\ ~ IsErr(value_to_json(p, value))
  BY OneLevel
<1>2. /\ n \in Nat /\ DOMAIN wire.items = 1 .. n
      /\ \A i \in 1 .. n : wire.items[i] \in Wires(element)
  BY ArrayItems
<1>3. value \in {[array |-> items], [fixedArray |-> items]}
  BY ArrayValues
<1>4. value_to_json(p, value) = Then(Collect(rs), LAMBDA j : Ok([arr |-> j]))
  <2>1. rs = [i \in DOMAIN items |-> value_to_json(p, items[i])]
    OBVIOUS
  <2> HIDE DEF items, value, rs
  <2> QED BY <1>1, <1>3, <2>1, ArrayJson
<1>5. DOMAIN rs = 1 .. n
  OBVIOUS
<1>6. ~ IsErr(Collect(rs)) /\ json = [arr |-> Collect(rs).ok]
  <2> HIDE DEF rs, value
  <2> QED BY <1>1, <1>4, Results DEF Then
<1>7. /\ \A i \in 1 .. n : ~ IsErr(rs[i])
      /\ Collect(rs).ok = [i \in 1 .. n |-> rs[i].ok]
  <2> HIDE DEF rs, n
  <2> QED BY <1>2, <1>5, <1>6, Collected
<1>8. js = [array |-> [i \in 1 .. n |-> richJsonParse(rs[i].ok)]]
  <2> HIDE DEF rs, json
  <2>1. json = [arr |-> [i \in 1 .. n |-> rs[i].ok]]
    BY <1>6, <1>7
  <2> QED BY <1>1, <2>1 DEF richJsonParseAt
<1>9. ASSUME NEW i \in 1 .. n PROVE ViemDecodes(element, wire.items[i], richJsonParse(rs[i].ok))
  <2>1. rs[i] = value_to_json(p, DynValue(element, wire.items[i]))
    OBVIOUS
  <2>2. p.components = element.components /\ DecodedRight(element, wire.items[i])
    BY <1>2, Elements
  <2>3. ~ IsErr(rs[i])
    BY <1>7
  <2> HIDE DEF rs, element
  <2> QED BY <2>1, <2>2, <2>3 DEF DecodedRight
<1>10. ViemDecodesAt(param, wire, js)
  <2>1. DOMAIN js = {"array"} /\ DOMAIN js.array = DOMAIN wire.items
        /\ \A i \in 1 .. n : js.array[i] = richJsonParse(rs[i].ok)
    <3> HIDE DEF rs, n, js
    <3> QED BY <1>2, <1>8
  <2>2. \A i \in DOMAIN wire.items : ViemDecodes(Element(param), wire.items[i], js.array[i])
    <3> HIDE DEF rs, n, js
    <3> QED BY <1>2, <2>1, <1>9 DEF element
  <2> HIDE DEF rs, js
  <2> QED BY <2>1, <2>2 DEF ViemDecodesAt
<1> QED BY <1>1, <1>10

---------------------------------------------------------------------------
(* Tuples. *)

\* No parameter is called what the codec calls its BigInts.
NoTagNames == \A param \in Params : param.name # BIGINT_TAG

\* What is on the wire for a tuple is one wire value for each component.
LEMMA TupleItems ==
    ASSUME NEW param \in Params, NEW wire \in Wires(param),
           param.ty.dims = << >>, param.ty.base = "tuple"
    PROVE  LET n == Len(param.components) IN
           /\ n \in Nat /\ DOMAIN param.components = 1 .. n /\ DOMAIN wire.items = 1 .. n
           /\ \A i \in 1 .. n : /\ param.components[i] \in Params
                                /\ wire.items[i] \in Wires(param.components[i])
<1>1. param.components \in Seq(Params)
  BY ParamsAssumption
<1>2. /\ DOMAIN wire.items = DOMAIN param.components
      /\ \A i \in DOMAIN param.components : wire.items[i] \in Wires(param.components[i])
  BY WiresAssumption
<1> QED BY <1>1, <1>2

\* A component that no later one shares its name with is the last of that name.
LEMMA LastOfItsName ==
    ASSUME NEW components, NEW n \in Nat, Len(components) = n, DOMAIN components = 1 .. n,
           NEW i \in 1 .. n,
           \A j \in (i + 1) .. n : components[j].name # components[i].name
    PROVE  LastNamed(components, components[i].name) = i
<1> DEFINE Last0(k) == /\ components[k].name = components[i].name
                       /\ \A j \in (k + 1) .. Len(components) :
                            components[j].name # components[i].name
<1>1. Last0(i)
  OBVIOUS
<1>2. ASSUME NEW k \in DOMAIN components, Last0(k) PROVE k = i
  <2>1. CASE k < i
    BY <1>2, <2>1
  <2>2. CASE k > i
    BY <1>2, <2>2
  <2> QED BY <2>1, <2>2
<1>3. LastNamed(components, components[i].name) = CHOOSE k \in DOMAIN components : Last0(k)
  BY DEF LastNamed
<1> HIDE DEF Last0
<1> QED BY <1>1, <1>2, <1>3

\* What a tuple with these items is shown as.
Shown(components, items) ==
    IF all_named(components)
    THEN [obj |-> [key \in Names(components) |-> items[LastNamed(components, key)]]]
    ELSE [arr |-> items]

FieldsToJson(components, fields) == tuple_to_json(components, fields)

\* A tuple's JSON is an object, when all its components have names, or an array.
LEMMA TupleJson ==
    ASSUME NEW components, NEW n \in Nat, Len(components) = n, DOMAIN components = 1 .. n,
           NEW fields, Len(fields) = n, DOMAIN fields = 1 .. n,
           ~ IsErr(FieldsToJson(components, fields)),
           NEW rs, rs = [i \in 1 .. n |-> rs[i]],
           \A i \in 1 .. n : rs[i] = value_to_json(components[i], fields[i]),
           NEW items, items = [i \in 1 .. n |-> items[i]],
           \A i \in 1 .. n : items[i] = rs[i].ok
    PROVE  /\ \A i \in 1 .. n : ~ IsErr(rs[i])
           /\ FieldsToJson(components, fields).ok = Shown(components, items)
<1>1. Len(fields) = n /\ DOMAIN fields = 1 .. n
  OBVIOUS
<1>2. rs = [i \in DOMAIN fields |-> value_to_json(components[i], fields[i])]
  BY <1>1
<1>3. FieldsToJson(components, fields) =
        Then(Collect(rs), LAMBDA s :
               IF all_named(components)
               THEN Ok([obj |-> [key \in Names(components) |->
                                   s[LastNamed(components, key)]]])
               ELSE Ok([arr |-> s]))
  BY <1>1, <1>2 DEF tuple_to_json, FieldsToJson
<1>4. ~ IsErr(Collect(rs))
  BY <1>3 DEF Then
<1>5. DOMAIN rs = 1 .. n
  OBVIOUS
<1>6. (\A i \in 1 .. n : ~ IsErr(rs[i])) /\ Collect(rs).ok = items
  <2>1. (\A i \in 1 .. n : ~ IsErr(rs[i])) /\ Collect(rs).ok = [i \in 1 .. n |-> rs[i].ok]
    BY <1>4, <1>5, Collected
  <2> QED BY <2>1
<1>7. FieldsToJson(components, fields) =
        IF all_named(components)
        THEN Ok([obj |-> [key \in Names(components) |-> items[LastNamed(components, key)]]])
        ELSE Ok([arr |-> items])
  BY <1>3, <1>4, <1>6 DEF Then
<1> QED BY <1>6, <1>7, Results DEF Shown

\* A tuple is decoded one component at a time.
LEMMA TupleValues ==
    ASSUME NEW param \in Params, NEW wire \in Wires(param),
           param.ty.dims = << >>, param.ty.base = "tuple"
    PROVE  DynValue(param, wire) =
             [tuple |-> [i \in 1 .. Len(param.components) |->
                           DynValue(param.components[i], wire.items[i])]]
<1> DEFINE n == Len(param.components)
           items == [i \in 1 .. n |-> DynValue(param.components[i], wire.items[i])]
<1>1. DynValue(param, wire) = DynValueAt(param, wire)
  BY OneLevel
<1>2. split_array_type(param.ty) = << >>
  BY NoElements
<1>3. items = [i \in DOMAIN wire.items |-> DynValue(param.components[i], wire.items[i])]
  BY TupleItems
<1>4. DynValueAt(param, wire) = [tuple |-> items]
  <2> HIDE DEF items
  <2> QED BY <1>2, <1>3 DEF DynValueAt
<1> QED BY <1>1, <1>4

\* What viem reads in a tuple, from what the codec makes of its JSON.
LEMMA TuplesAsViem ==
    ASSUME NoTagNames, NEW param \in Params, NEW wire \in Wires(param),
           param.ty.dims = << >>, param.ty.base = "tuple",
           NEW n \in Nat, n = Len(param.components),
           NEW items, DOMAIN items = 1 .. n,
           \A i \in 1 .. n :
             ViemDecodes(param.components[i], wire.items[i], richJsonParse(items[i])),
           NEW json, json = Shown(param.components, items)
    PROVE  ViemDecodesAt(param, wire, richJsonParseAt(json))
<1> DEFINE C == param.components
           names == {C[i].name : i \in DOMAIN C}
           js == richJsonParseAt(json)
<1> SUFFICES ViemDecodesAt(param, wire, js)
  OBVIOUS
<1>1. /\ DOMAIN C = 1 .. n /\ DOMAIN wire.items = 1 .. n /\ Len(wire.items) = n
      /\ \A i \in 1 .. n : C[i] \in Params
      /\ C = << >> <=> n = 0
  <2>1. C \in Seq(Params)
    BY ParamsAssumption
  <2>2. DOMAIN C = 1 .. n /\ DOMAIN wire.items = 1 .. n /\ \A i \in 1 .. n : C[i] \in Params
    BY TupleItems
  <2>3. C = << >> <=> n = 0
    BY <2>1
  <2>4. Len(wire.items) = n
    BY WiresAssumption, <2>1
  <2> QED BY <2>2, <2>3, <2>4
<1>2. Names(C) = names
  BY DEF Names
<1>3. CASE all_named(C)
  <2> DEFINE fields == [key \in names |-> items[LastNamed(C, key)]]
  <2>1. Unnamed \notin names /\ names # {}
    <3>1. n # 0 /\ \A i \in 1 .. n : C[i].name # Unnamed
      BY <1>1, <1>3 DEF all_named
    <3>2. 1 \in DOMAIN C
      BY <1>1, <3>1
    <3> QED BY <1>1, <3>1, <3>2
  <2>2. json = [obj |-> fields] /\ DOMAIN fields = names
    BY <1>2, <1>3 DEF Shown
  <2>3. BIGINT_TAG \notin names
    BY <1>1 DEF NoTagNames
  <2> HIDE DEF names
  <2>4. DOMAIN json = {"obj"} /\ json.obj = fields /\ DOMAIN json.obj = names
    <3> HIDE DEF fields
    <3> QED BY <2>2
  <2>5. ~ IsTag(json)
    BY <2>3, <2>4 DEF IsTag
  <2>6. js = [object |-> [key \in names |-> richJsonParse(fields[key])]]
    <3>1. js = [object |-> [key \in DOMAIN json.obj |-> richJsonParse(json.obj[key])]]
      <4> HIDE DEF fields
      <4> QED BY <2>4, <2>5 DEF richJsonParseAt
    <3> QED BY <2>4, <3>1
  <2>7. ASSUME NEW i \in DOMAIN wire.items,
               \A j \in (i + 1) .. Len(wire.items) : C[j].name # C[i].name
        PROVE  ViemDecodes(C[i], wire.items[i], js.object[C[i].name])
    <3>1. LastNamed(C, C[i].name) = i
      <4> HIDE DEF C
      <4> QED BY <1>1, <2>7, LastOfItsName DEF C
    <3>2. C[i].name \in names
      BY <1>1, <2>7 DEF names
    <3>3. fields[C[i].name] = items[i]
      <4> HIDE DEF C
      <4> QED BY <3>1, <3>2
    <3>4. js.object = [key \in names |-> richJsonParse(fields[key])]
      <4> HIDE DEF fields, js
      <4> QED BY <2>6
    <3>5. js.object[C[i].name] = richJsonParse(items[i])
      <4> HIDE DEF fields, js, C
      <4> QED BY <3>2, <3>3, <3>4
    <3> QED BY <1>1, <3>5
  <2>8. "object" \in DOMAIN js /\ DOMAIN js.object = names
    <3> HIDE DEF js, fields
    <3> QED BY <2>6
  <2>9. param.ty.dims = << >> /\ param.ty.base = "tuple"
    OBVIOUS
  <2> HIDE DEF js
  <2> QED BY <2>1, <2>7, <2>8, <2>9 DEF ViemDecodesAt, names
<1>4. CASE ~ all_named(C)
  <2>1. Unnamed \in names \/ names = {}
    BY <1>1, <1>4 DEF all_named
  <2>2. json = [arr |-> items]
    BY <1>4 DEF Shown
  <2>3. js = [array |-> [i \in 1 .. n |-> richJsonParse(items[i])]]
    <3>1. DOMAIN json = {"arr"} /\ json.arr = items /\ DOMAIN items = 1 .. n
      BY <2>2
    <3> QED BY <3>1 DEF richJsonParseAt
  <2> HIDE DEF js
  <2>4. "array" \in DOMAIN js /\ DOMAIN js.array = DOMAIN C
    BY <1>1, <2>3
  <2>5. \A i \in DOMAIN wire.items : ViemDecodes(C[i], wire.items[i], js.array[i])
    BY <1>1, <2>3
  <2> QED BY <2>1, <2>4, <2>5 DEF ViemDecodesAt
<1> QED BY <1>3, <1>4

\* Tuples are decoded right, if their components are.
LEMMA TuplesAreDecodedRight ==
    ASSUME NoTagNames, NEW param \in Params, NEW wire \in Wires(param),
           param.ty.dims = << >>, param.ty.base = "tuple",
           \A i \in 1 .. Len(param.components) :
             DecodedRight(param.components[i], wire.items[i])
    PROVE  DecodedRight(param, wire)
<1> SUFFICES ASSUME NEW p \in Params, p.components = param.components,
                    ~ IsErr(value_to_json(p, DynValue(param, wire)))
             PROVE  ViemDecodes(param, wire,
                       richJsonParse(value_to_json(p, DynValue(param, wire)).ok))
  BY DEF DecodedRight
<1> DEFINE C == param.components
           n == Len(C)
           fields == [i \in 1 .. n |-> DynValue(C[i], wire.items[i])]
           value == DynValue(param, wire)
           json == value_to_json(p, value).ok
           js == richJsonParse(json)
           rs == [i \in 1 .. n |-> value_to_json(C[i], fields[i])]
           items == [i \in 1 .. n |-> rs[i].ok]
<1>1. /\ value_to_json(p, value) = value_to_json_at(p, value)
      /\ js = richJsonParseAt(json)
      /\ ViemDecodes(param, wire, js) <=> ViemDecodesAt(param, wire, js)
      /\ ~ IsErr(value_to_json(p, value))
  BY OneLevel
<1>2. /\ n \in Nat /\ DOMAIN C = 1 .. n
      /\ \A i \in 1 .. n : C[i] \in Params /\ wire.items[i] \in Wires(C[i])
  BY TupleItems
<1>3. value = [tuple |-> fields]
  BY TupleValues
<1>4. value_to_json(p, value) = FieldsToJson(C, fields)
  <2>1. DOMAIN value = {"tuple"} /\ value.tuple = fields
    BY <1>3
  <2> HIDE DEF value, fields
  <2> QED BY <1>1, <2>1 DEF value_to_json_at, FieldsToJson
<1>5. /\ \A i \in 1 .. n : ~ IsErr(rs[i])
      /\ json = Shown(C, items)
  <2>1. Len(fields) = n /\ DOMAIN fields = 1 .. n
    <3>1. fields = [i \in 1 .. n |-> fields[i]]
      OBVIOUS
    <3> HIDE DEF fields, n
    <3> QED BY <1>2, <3>1, Lengths
  <2>2. ~ IsErr(FieldsToJson(C, fields))
    BY <1>1, <1>4, Zenon
  <2>3. /\ rs = [i \in 1 .. n |-> rs[i]] /\ items = [i \in 1 .. n |-> items[i]]
        /\ \A i \in 1 .. n : rs[i] = value_to_json(C[i], fields[i]) /\ items[i] = rs[i].ok
    OBVIOUS
  <2>4. n \in Nat /\ Len(C) = n /\ DOMAIN C = 1 .. n
    BY <1>2
  <2> HIDE DEF fields, rs, items, C, n, value
  <2>5. /\ \A i \in 1 .. n : ~ IsErr(rs[i])
        /\ FieldsToJson(C, fields).ok = Shown(C, items)
    BY <2>1, <2>2, <2>3, <2>4, TupleJson
  <2> QED BY <1>4, <2>5
<1>6. ASSUME NEW i \in 1 .. n
      PROVE  ViemDecodes(C[i], wire.items[i], richJsonParse(items[i]))
  <2>1. items[i] = value_to_json(C[i], DynValue(C[i], wire.items[i])).ok
        /\ rs[i] = value_to_json(C[i], DynValue(C[i], wire.items[i]))
    OBVIOUS
  <2>2. DecodedRight(C[i], wire.items[i]) /\ C[i] \in Params /\ ~ IsErr(rs[i])
    BY <1>2, <1>5
  <2> HIDE DEF items, rs, C
  <2> QED BY <2>1, <2>2 DEF DecodedRight
<1>7. ViemDecodesAt(param, wire, richJsonParseAt(json))
  <2>1. DOMAIN items = 1 .. n
    OBVIOUS
  <2> HIDE DEF items, json
  <2> QED BY <1>2, <1>5, <1>6, <2>1, TuplesAsViem
<1> QED BY <1>1, <1>7

---------------------------------------------------------------------------
(* Parameters of any depth. *)

\* A set has every parameter, if it has each one whose elements and components it has.
LEMMA NestingInduction ==
    ASSUME NEW S,
           \A param \in Params :
             /\ param.ty.dims # << >> => Element(param) \in S
             /\ \A i \in DOMAIN param.components : param.components[i] \in S
             => param \in S
    PROVE  Params \subseteq S
<1> DEFINE T == {d \in Nat : \A param \in Params : Nesting(param) < d => param \in S}
<1>1. \A param \in Params : Nesting(param) \in Nat
  BY ParamsAssumption
<1>2. 0 \in T
  BY <1>1
<1>3. ASSUME NEW d \in Nat, d \in T PROVE d + 1 \in T
  <2> SUFFICES ASSUME NEW param \in Params, Nesting(param) < d + 1 PROVE param \in S
    OBVIOUS
  <2>1. \A p \in Params : Nesting(p) < Nesting(param) => p \in S
    BY <1>1, <1>3
  <2>2. param.ty.dims # << >> => Element(param) \in S
    BY <2>1, Elements
  <2>3. ASSUME NEW i \in DOMAIN param.components PROVE param.components[i] \in S
    <3>1. param.components \in Seq(Params) /\ Nesting(param.components[i]) < Nesting(param)
      BY ParamsAssumption
    <3> QED BY <2>1, <3>1
  <2> QED BY <2>2, <2>3
<1>4. Nat \subseteq T
  <2> HIDE DEF T
  <2> QED BY <1>2, <1>3, NatSetInduction
<1>5. ASSUME NEW param \in Params PROVE param \in S
  <2>1. Nesting(param) + 1 \in Nat /\ Nesting(param) < Nesting(param) + 1
    BY <1>1
  <2> QED BY <1>4, <2>1
<1> QED BY <1>5

\* However deep it nests, what is returned for a wire value is what viem reads in it.
LEMMA DecodingIsRight ==
    ASSUME NoTagNames, BoolsAreBits
    PROVE  \A param \in Params : \A wire \in Wires(param) : DecodedRight(param, wire)
<1> DEFINE S == {param \in Params : \A wire \in Wires(param) : DecodedRight(param, wire)}
<1>1. ASSUME NEW param \in Params,
             param.ty.dims # << >> => Element(param) \in S,
             \A i \in DOMAIN param.components : param.components[i] \in S,
             NEW wire \in Wires(param)
      PROVE  DecodedRight(param, wire)
  <2>1. CASE param.ty.dims # << >>
    BY <1>1, <2>1, ArraysAreDecodedRight
  <2>2. CASE param.ty.dims = << >> /\ param.ty.base = "tuple"
    <3>1. \A i \in 1 .. Len(param.components) :
            DecodedRight(param.components[i], wire.items[i])
      BY <1>1, <2>2, TupleItems
    <3> QED BY <2>2, <3>1, TuplesAreDecodedRight
  <2>3. CASE IsScalar(param)
    BY <2>3, ScalarsAreDecodedRight
  <2> QED BY <2>1, <2>2, <2>3 DEF IsScalar
<1>2. Params \subseteq S
  <2>1. \A param \in Params :
          /\ param.ty.dims # << >> => Element(param) \in S
          /\ \A i \in DOMAIN param.components : param.components[i] \in S
          => param \in S
    BY <1>1
  <2> HIDE DEF S
  <2> QED BY <2>1, NestingInduction
<1> QED BY <1>2

---------------------------------------------------------------------------
(* The calls. *)

\* What viem takes for bytes.
IsViemBytes(text) == IsBytesLike(text) /\ IsHex(text, {HEX_PREFIX})

\* decode_viem_hex takes what viem takes for bytes, and nothing else.
LEMMA DecodeViemHexIsViem ==
    ASSUME NEW text \in Texts
    PROVE  IF IsViemBytes(text) THEN decode_viem_hex(text) = Ok(Lower(text.digits))
                                ELSE IsErr(decode_viem_hex(text))
<1> DEFINE hex == AsHex(text)
           body == DropPrefix(hex)
           One == Len(hex.prefixes) = 1 /\ Head(hex.prefixes) = HEX_PREFIX
<1>1. hex \in HexTexts
  BY AsHexIsHex
<1>2. viem_hex_body(hex) = IF One THEN Ok(body) ELSE Err("InvalidHex")
  <2> HIDE DEF hex
  <2>1. CASE ~ StartsWith(hex, {HEX_PREFIX})
    <3>1. ~ One
      BY <1>1, <2>1, OnePrefix DEF StartsWith
    <3> QED BY <2>1, <3>1 DEF viem_hex_body
  <2>2. CASE StartsWith(hex, {HEX_PREFIX})
    <3>1. hex.prefixes # << >> /\ Head(hex.prefixes) = HEX_PREFIX
      BY <2>2 DEF StartsWith
    <3>2. body \in HexTexts /\ body.prefixes = Tail(hex.prefixes)
      BY <1>1, <3>1, OnePrefix
    <3>3. reject_repeated_hex_prefix(body) =
            IF body.prefixes = << >> THEN Ok(body) ELSE Err("InvalidHex")
      BY <3>2, RepeatedPrefixes
    <3>4. Len(hex.prefixes) = 1 <=> body.prefixes = << >>
      BY <1>1, <3>1, <3>2, OnePrefix
    <3> QED BY <2>2, <3>1, <3>3, <3>4 DEF viem_hex_body
  <2> QED BY <2>1, <2>2
<1>3. decode_viem_hex(text) = IF One THEN hex_decode(body) ELSE Err("InvalidHex")
  BY <1>2, Results DEF decode_viem_hex, Then
<1>4. Len(hex.prefixes) = 1 =>
        body \in HexTexts /\ body.prefixes = << >> /\ body.digits = hex.digits
  BY <1>1, OnePrefix
<1>5. CASE text \in HexTexts
  <2>1. hex = text
    BY <1>5, AsHexIsHex
  <2>2. "digits" \in DOMAIN text
    BY <1>5, OnlyHexHasDigits
  <2>3. IsViemBytes(text) <=>
          /\ Len(text.prefixes) = 1 /\ Head(text.prefixes) = HEX_PREFIX
          /\ \A i \in DOMAIN text.digits : text.digits[i] \in HexDigits
          /\ Len(text.digits) % 2 = 0
    BY <2>2 DEF IsViemBytes, IsBytesLike, IsHex
  <2> HIDE DEF hex, body
  <2> QED BY <1>3, <1>4, <2>1, <2>3, Decoding, Results
<1>6. CASE text \notin HexTexts
  <2>1. ~ IsViemBytes(text)
    BY <1>6, OnlyHexHasDigits DEF IsViemBytes, IsHex
  <2>2. hex.prefixes = << >>
    BY <1>6, AsHexIsHex
  <2>3. ~ One
    BY <2>2
  <2> QED BY <1>3, <2>1, <2>3, Results
<1> QED BY <1>5, <1>6

\* The function found is the one viem means.
LEMMA FunctionFound ==
    ASSUME NEW q \in Requests, q.op \in {"decode", "encode"}
    PROVE  /\ ~ IsErr(find_function(q.abi, q.name)) =>
                /\ find_function(q.abi, q.name).ok = q.viems
                /\ q.viems \in [name : STRING, inputs : Seq(Params), outputs : Seq(Params)]
           /\ (\E i \in DOMAIN q.abi.functions :
                 {j \in DOMAIN q.abi.functions : q.abi.functions[j].name = q.name} = {i})
                => find_function(q.abi, q.name) = Ok(q.viems)
           /\ (\E i \in DOMAIN q.abi.functions : q.abi.functions[i].name = q.name) =>
                q.viems \in [name : STRING, inputs : Seq(Params), outputs : Seq(Params)]
<1> DEFINE fs == q.abi.functions
           named == {i \in DOMAIN fs : fs[i].name = q.name}
           F == [name : STRING, inputs : Seq(Params), outputs : Seq(Params)]
<1>1. /\ fs \in Seq(F)
      /\ (\E i \in DOMAIN fs : fs[i].name = q.name) =>
           \E i \in DOMAIN fs : fs[i].name = q.name /\ fs[i] = q.viems
  BY AbiRequestsAssumption DEF AbiRequests
<1>2. ASSUME NEW i \in DOMAIN fs, named = {i} PROVE find_function(q.abi, q.name) = Ok(q.viems)
  <2>1. fs[i] = q.viems
    BY <1>1, <1>2
  <2>2. i = CHOOSE j \in named : TRUE
    BY <1>2
  <2>3. find_function(q.abi, q.name) = Ok(fs[CHOOSE j \in named : TRUE])
    BY <1>2 DEF find_function
  <2> QED BY <2>1, <2>2, <2>3
<1>3. ASSUME ~ IsErr(find_function(q.abi, q.name)) PROVE \E i \in DOMAIN fs : named = {i}
  <2>1. named # {} /\ \E i \in named : named = {i}
    BY <1>3, Results DEF find_function
  <2> QED BY <2>1
<1>4. ASSUME NEW i \in DOMAIN fs, fs[i].name = q.name PROVE q.viems \in F
  <2> HIDE DEF F
  <2>1. PICK j \in DOMAIN fs : fs[j] = q.viems
    BY <1>1, <1>4
  <2> QED BY <1>1, <2>1
<1>5. ASSUME ~ IsErr(find_function(q.abi, q.name)) PROVE q.viems \in F
  <2> HIDE DEF F
  <2>1. PICK i \in DOMAIN fs : named = {i}
    BY <1>3, <1>5
  <2>2. fs[i].name = q.name
    BY <2>1
  <2> QED BY <1>4, <2>2
<1> QED BY <1>2, <1>3, <1>4, <1>5, Results

\* What decodeFunctionResult makes of the results it collected.
ResultJson(items) ==
    CASE Len(items) = 0 -> Ok([null |-> TRUE])
      [] Len(items) = 1 -> Ok(items[1])
      [] OTHER -> Ok([arr |-> items])

ItemsOf(q) ==
    [i \in DOMAIN q.viems.outputs |->
       value_to_json(q.viems.outputs[i], DynValue(q.viems.outputs[i], q.data.wire[i]))]

\* decodeFunctionResult, on a request.
LEMMA NativeDecoding ==
    ASSUME NEW q \in Requests, q.op = "decode"
    PROVE  NativeDecoded(q) =
             IF ~ q.abi.parses THEN Err("InvalidAbi")
             ELSE IF IsErr(find_function(q.abi, q.name)) THEN find_function(q.abi, q.name)
             ELSE IF IsErr(decode_viem_hex(q.data.text)) THEN decode_viem_hex(q.data.text)
             ELSE IF ZeroWidth(q.viems.outputs) \/ Len(q.data.wire) # Len(q.viems.outputs)
             THEN Err("DecodeFailed")
             ELSE Then(Collect(ItemsOf(q)), ResultJson)
<1>1. ~ IsErr(find_function(q.abi, q.name)) => find_function(q.abi, q.name).ok = q.viems
  BY FunctionFound
<1> QED BY <1>1 DEF NativeDecoded, decode_function_result, ItemsOf, ResultJson

\* A call that is served: viem would have read the same bytes, and each output was
\* decoded, the results of one and of none apart.
LEMMA DecodedCall ==
    ASSUME NEW q \in Requests, q.op = "decode", ~ IsErr(NativeDecoded(q)),
           NEW n, n = Len(q.viems.outputs)
    PROVE  /\ IsViemBytes(q.data.text) /\ Len(q.data.wire) = n
           /\ n \in Nat /\ DOMAIN ItemsOf(q) = 1 .. n
           /\ \A i \in 1 .. n : /\ q.viems.outputs[i] \in Params
                                /\ q.data.wire[i] \in Wires(q.viems.outputs[i])
                                /\ ~ IsErr(ItemsOf(q)[i])
           /\ NativeDecoded(q).ok =
                CASE n = 0 -> [null |-> TRUE]
                  [] n = 1 -> ItemsOf(q)[1].ok
                  [] OTHER -> [arr |-> [i \in 1 .. n |-> ItemsOf(q)[i].ok]]
<1> DEFINE items == [i \in 1 .. n |-> ItemsOf(q)[i].ok]
<1>1. /\ ~ IsErr(find_function(q.abi, q.name))
      /\ ~ IsErr(decode_viem_hex(q.data.text))
      /\ Len(q.data.wire) = n
      /\ NativeDecoded(q) = Then(Collect(ItemsOf(q)), ResultJson)
  BY NativeDecoding, Results
<1>2. /\ IsViemBytes(q.data.text)
      /\ \A i \in DOMAIN q.viems.outputs : q.data.wire[i] \in Wires(q.viems.outputs[i])
  <2>1. /\ q.data.text \in Texts
        /\ \A i \in DOMAIN q.viems.outputs : q.data.wire[i] \in Wires(q.viems.outputs[i])
    BY <1>1, AbiRequestsAssumption DEF AbiRequests
  <2> QED BY <1>1, <2>1, DecodeViemHexIsViem
<1>3. /\ n \in Nat /\ DOMAIN q.viems.outputs = 1 .. n
      /\ \A i \in 1 .. n : q.viems.outputs[i] \in Params
  <2>1. q.viems.outputs \in Seq(Params)
    BY <1>1, FunctionFound
  <2> QED BY <2>1
<1>4. DOMAIN ItemsOf(q) = 1 .. n
  BY <1>3 DEF ItemsOf
<1>5. ~ IsErr(Collect(ItemsOf(q))) /\ NativeDecoded(q) = ResultJson(Collect(ItemsOf(q)).ok)
  BY <1>1 DEF Then
<1>6. (\A i \in 1 .. n : ~ IsErr(ItemsOf(q)[i])) /\ Collect(ItemsOf(q)).ok = items
  BY <1>3, <1>4, <1>5, Collected
<1>7. NativeDecoded(q) = CASE n = 0 -> Ok([null |-> TRUE])
                           [] n = 1 -> Ok(ItemsOf(q)[1].ok)
                           [] OTHER -> Ok([arr |-> items])
  <2>1. Len(items) = n
    <3>1. items = [i \in 1 .. n |-> items[i]]
      OBVIOUS
    <3> HIDE DEF items
    <3> QED BY <1>3, <3>1, Lengths
  <2>2. n = 1 => items[1] = ItemsOf(q)[1].ok
    OBVIOUS
  <2>3. NativeDecoded(q) = ResultJson(items)
    BY <1>5, <1>6
  <2> HIDE DEF items
  <2> QED BY <2>1, <2>2, <2>3 DEF ResultJson
<1> HIDE DEF items
<1>8. NativeDecoded(q).ok = CASE n = 0 -> [null |-> TRUE]
                              [] n = 1 -> ItemsOf(q)[1].ok
                              [] OTHER -> [arr |-> items]
  BY <1>7, Results
<1> QED BY <1>1, <1>2, <1>3, <1>4, <1>6, <1>8 DEF items

\* A result decoded natively is what viem reads in the same data, for the function
\* viem means: for any ABI, however its types nest, that has no component called
\* what the codec calls its BigInts, and for data whose bools are 0 or 1.  Without
\* either of the two it is false.
THEOREM ResultsAreAsViem ==
    ASSUME NoTagNames, BoolsAreBits
    PROVE  Spec => []DecodesAsViem
<1>1. Inv => DecodesAsViem
  <2> SUFFICES ASSUME Inv, Natively("decode") PROVE DecodesAsViem
    BY DEF DecodesAsViem
  <2> DEFINE q == request
             outputs == q.viems.outputs
             wire == q.data.wire
             n == Len(outputs)
             json == NativeDecoded(q).ok
             js == answer.native
  <2>1. /\ q \in Requests /\ q.op = "decode"
        /\ result = Decoded(q) /\ ~ IsErr(result) /\ js = Parsed(result.ok)
    BY AnswersAreOfTheCall DEF Returned
  <2>2. /\ ~ IsErr(NativeDecoded(q)) /\ js = richJsonParse(json)
        /\ js = richJsonParseAt(json)
    BY <2>1, CallsAssumption
  <2> HIDE DEF js, json
  <2>3. /\ IsViemBytes(q.data.text) /\ Len(wire) = n
        /\ n \in Nat /\ DOMAIN ItemsOf(q) = 1 .. n
        /\ \A i \in 1 .. n : outputs[i] \in Params /\ wire[i] \in Wires(outputs[i])
                             /\ ~ IsErr(ItemsOf(q)[i])
        /\ json = CASE n = 0 -> [null |-> TRUE]
                    [] n = 1 -> ItemsOf(q)[1].ok
                    [] OTHER -> [arr |-> [i \in 1 .. n |-> ItemsOf(q)[i].ok]]
    BY <2>1, <2>2, DecodedCall DEF json
  <2>4. ASSUME NEW i \in 1 .. n
        PROVE  ViemDecodes(outputs[i], wire[i], richJsonParse(ItemsOf(q)[i].ok))
    <3>1. ItemsOf(q)[i] = value_to_json(outputs[i], DynValue(outputs[i], wire[i]))
      BY <2>3 DEF ItemsOf
    <3>2. DecodedRight(outputs[i], wire[i])
      BY <2>3, DecodingIsRight
    <3> QED BY <2>3, <3>1, <3>2 DEF DecodedRight
  <2>5. ViemResult(outputs, wire, js)
    <3>1. CASE n = 0
      <4>1. json = [null |-> TRUE]
        BY <2>3, <3>1
      <4>2. js = [undefined |-> TRUE]
        BY <2>2, <4>1 DEF richJsonParseAt
      <4> QED BY <3>1, <4>2 DEF ViemResult
    <3>2. CASE n = 1
      <4>1. json = ItemsOf(q)[1].ok
        BY <2>3, <3>2
      <4>2. 1 \in 1 .. n
        BY <3>2
      <4>3. ViemDecodes(outputs[1], wire[1], richJsonParse(ItemsOf(q)[1].ok))
        BY <2>4, <4>2
      <4>4. ViemDecodes(outputs[1], wire[1], js)
        BY <2>2, <4>1, <4>3
      <4> QED BY <3>2, <4>4 DEF ViemResult
    <3>3. CASE n # 0 /\ n # 1
      <4> DEFINE items == [i \in 1 .. n |-> ItemsOf(q)[i].ok]
                 jss == [i \in 1 .. n |-> richJsonParse(items[i])]
      <4>1. json = [arr |-> items]
        BY <2>3, <3>3
      <4>2. js = [array |-> jss]
        <5>1. DOMAIN json = {"arr"} /\ json.arr = items /\ DOMAIN items = 1 .. n
          BY <4>1
        <5> HIDE DEF items
        <5> QED BY <2>2, <5>1 DEF richJsonParseAt
      <4>3. Len(jss) = n /\ \A i \in 1 .. n : jss[i] = richJsonParse(ItemsOf(q)[i].ok)
        <5>1. jss = [i \in 1 .. n |-> jss[i]]
              /\ \A i \in 1 .. n : jss[i] = richJsonParse(ItemsOf(q)[i].ok)
          OBVIOUS
        <5> HIDE DEF jss
        <5> QED BY <2>3, <5>1, Lengths
      <4> HIDE DEF jss
      <4>4. "array" \in DOMAIN js /\ js.array = jss
        BY <4>2
      <4>5. DOMAIN outputs = 1 .. n
        BY <2>3 DEF ItemsOf
      <4> QED BY <2>4, <3>3, <4>3, <4>4, <4>5 DEF ViemResult
    <3> QED BY <3>1, <3>2, <3>3
  <2> QED BY <2>3, <2>5 DEF DecodesAsViem, js, IsViemBytes
<1> QED BY <1>1, SpecInv, PTL

---------------------------------------------------------------------------
(* What contracts return is served. *)

\* A canonical wire value has a JSON value, whichever parameter of the same components
\* it is made for.
ServedRight(param, wire) ==
    Canonical(param, wire) =>
        \A p \in Params : p.components = param.components =>
            ~ IsErr(value_to_json(p, DynValue(param, wire)))

\* A number of a type viem gives as a number is safe, and an i64.
LEMMA NarrowNumbersAreSafe ==
    ASSUME NEW param \in Params, param.ty.base \in {"uint", "int"},
           NEW n \in Bounds(param.ty)
    PROVE  ~ IsErr(int_to_json(n, param.ty.size))
<1> DEFINE size == param.ty.size
           M == Pow2[JS_SAFE_INT_BITS] - 1
<1>1. size \in 1 .. WORD_BITS /\ WORD_BITS \in Nat
  BY ParamsAssumption, WidthsAssumption
<1>2. CASE size > JS_SAFE_INT_BITS
  BY <1>2, Results DEF int_to_json
<1>3. CASE ~ (size > JS_SAFE_INT_BITS)
  <2>1. /\ JS_SAFE_INT_BITS \in 0 .. WORD_BITS /\ size \in 0 .. JS_SAFE_INT_BITS
        /\ size - 1 \in 0 .. JS_SAFE_INT_BITS /\ I64_BITS - 1 \in 0 .. WORD_BITS
        /\ size \in 0 .. WORD_BITS /\ size - 1 \in 0 .. WORD_BITS
        /\ JS_MAX_SAFE_INTEGER \in Nat
    BY <1>1, <1>3, WidthsAssumption
  <2>2. Pow2[size] <= Pow2[JS_SAFE_INT_BITS] /\ Pow2[size - 1] <= Pow2[JS_SAFE_INT_BITS]
    BY <2>1, PowersGrow
  <2>3. /\ Pow2[size] \in Nat \ {0} /\ Pow2[size - 1] \in Nat \ {0}
        /\ Pow2[size] = 2 * Pow2[size - 1]
        /\ Pow2[JS_SAFE_INT_BITS] \in Nat \ {0} /\ Pow2[I64_BITS - 1] \in Nat \ {0}
    BY <1>1, <2>1, Powers
  <2>4. n \in -M .. M
    <3>1. CASE param.ty.base = "uint"
      <4>1. n \in 0 .. (Pow2[size] - 1)
        BY <3>1 DEF Bounds
      <4> QED BY <2>2, <2>3, <4>1
    <3>2. CASE param.ty.base = "int"
      <4>1. n \in -Pow2[size - 1] .. (Pow2[size - 1] - 1)
        BY <3>2 DEF Bounds
      <4>2. Pow2[size - 1] <= M
        BY <2>2, <2>3
      <4> QED BY <2>3, <4>1, <4>2
    <3> QED BY <3>1, <3>2
  <2>5. M <= JS_MAX_SAFE_INTEGER /\ JS_MAX_SAFE_INTEGER <= Pow2[I64_BITS - 1] - 1
    BY SafeIntegersAssumption
  <2>6. n \in -JS_MAX_SAFE_INTEGER .. JS_MAX_SAFE_INTEGER
    <3>1. M \in Nat
      BY <2>3
    <3> HIDE DEF M
    <3> QED BY <2>1, <2>4, <2>5, <3>1
  <2>7. n \in I64
    BY <2>1, <2>3, <2>5, <2>6 DEF I64
  <2> QED BY <1>3, <2>6, <2>7, Results DEF int_to_json
<1> QED BY <1>2, <1>3

\* Scalars.
LEMMA ScalarsAreServed ==
    ASSUME NEW param \in Params, NEW wire \in Wires(param), IsScalar(param)
    PROVE  ServedRight(param, wire)
<1> SUFFICES ASSUME Canonical(param, wire), NEW p \in Params, p.components = param.components
             PROVE  ~ IsErr(value_to_json(p, DynValue(param, wire)))
  BY DEF ServedRight
<1> DEFINE ty == param.ty
           value == DynValue(param, wire)
<1>1. /\ value_to_json(p, value) = value_to_json_at(p, value)
      /\ CanonicalAt(param, wire)
  BY OneLevel
<1>2. ty.dims = << >> /\ ty.base # "tuple" /\ ty.base \in Bases
  BY ParamsAssumption DEF IsScalar, Types
<1>3. CASE ty.base = "uint"
  <2>1. wire.word \in Bounds(ty)
    BY <1>1, <1>2, <1>3 DEF CanonicalAt, SignedWord
  <2>2. value = [uint |-> wire.word, size |-> ty.size]
    BY <1>3, ScalarValues
  <2>3. value_to_json(p, value) = int_to_json(wire.word, ty.size)
    BY <1>1, <2>2 DEF value_to_json_at
  <2> QED BY <1>3, <2>1, <2>3, NarrowNumbersAreSafe
<1>4. CASE ty.base = "int"
  <2> DEFINE n == SignedWord(ty, wire)
  <2>1. n \in Bounds(ty)
    BY <1>1, <1>2, <1>4 DEF CanonicalAt
  <2>2. value = [int |-> n, size |-> ty.size]
    BY <1>4, ScalarValues
  <2> HIDE DEF n
  <2>3. value_to_json(p, value) = int_to_json(n, ty.size)
    BY <1>1, <2>2 DEF value_to_json_at
  <2> QED BY <1>4, <2>1, <2>3, NarrowNumbersAreSafe
<1>5. CASE ty.base = "bool"
  <2>1. value = [bool |-> wire.word # 0]
    BY <1>5, ScalarValues
  <2> QED BY <1>1, <2>1, Results DEF value_to_json_at
<1>6. CASE ty.base = "address"
  <2>1. value = [address |-> wire.hex]
    BY <1>6, ScalarValues
  <2> QED BY <1>1, <2>1, Results DEF value_to_json_at
<1>7. CASE ty.base = "bytes"
  <2>1. value = [bytes |-> wire.hex]
    BY <1>7, ScalarValues
  <2> QED BY <1>1, <2>1, Results DEF value_to_json_at
<1>8. CASE ty.base = "fixed"
  <2>1. value = [fixed |-> wire.hex, size |-> ty.size]
    BY <1>8, ScalarValues
  <2> QED BY <1>1, <2>1, Results DEF value_to_json_at
<1>9. CASE ty.base = "string"
  <2>1. value = [string |-> wire.text]
    BY <1>9, ScalarValues
  <2> QED BY <1>1, <2>1, Results DEF value_to_json_at
<1>10. ty.base # "function"
  <2> SUFFICES ASSUME ty.base = "function" PROVE FALSE
    OBVIOUS
  <2> QED BY <1>1, <1>2 DEF CanonicalAt
<1> QED BY <1>2, <1>3, <1>4, <1>5, <1>6, <1>7, <1>8, <1>9, <1>10 DEF Bases

\* Arrays.
LEMMA ArraysAreServed ==
    ASSUME NEW param \in Params, NEW wire \in Wires(param), param.ty.dims # << >>,
           \A w \in Wires(Element(param)) : ServedRight(Element(param), w)
    PROVE  ServedRight(param, wire)
<1> SUFFICES ASSUME Canonical(param, wire), NEW p \in Params, p.components = param.components
             PROVE  ~ IsErr(value_to_json(p, DynValue(param, wire)))
  BY DEF ServedRight
<1> DEFINE element == Element(param)
           n == Len(wire.items)
           items == [i \in 1 .. n |-> DynValue(element, wire.items[i])]
           value == DynValue(param, wire)
           rs == [i \in 1 .. n |-> value_to_json(p, items[i])]
<1>1. /\ value_to_json(p, value) = value_to_json_at(p, value)
      /\ CanonicalAt(param, wire)
  BY OneLevel
<1>2. /\ n \in Nat /\ DOMAIN wire.items = 1 .. n
      /\ \A i \in 1 .. n : wire.items[i] \in Wires(element)
  BY ArrayItems
<1>3. value \in {[array |-> items], [fixedArray |-> items]}
  BY ArrayValues
<1>4. value_to_json(p, value) = Then(Collect(rs), LAMBDA j : Ok([arr |-> j]))
  <2>1. rs = [i \in DOMAIN items |-> value_to_json(p, items[i])]
    OBVIOUS
  <2> HIDE DEF items, value, rs
  <2> QED BY <1>1, <1>3, <2>1, ArrayJson
<1>5. ASSUME NEW i \in 1 .. n PROVE ~ IsErr(rs[i])
  <2>1. rs[i] = value_to_json(p, DynValue(element, wire.items[i]))
    OBVIOUS
  <2>2. Canonical(element, wire.items[i])
    BY <1>1, <1>2 DEF CanonicalAt
  <2>3. p.components = element.components /\ ServedRight(element, wire.items[i])
    BY <1>2, Elements
  <2> HIDE DEF rs, element
  <2> QED BY <2>1, <2>2, <2>3 DEF ServedRight
<1>6. ~ IsErr(Collect(rs))
  <2>1. DOMAIN rs = 1 .. n
    OBVIOUS
  <2> HIDE DEF rs, n
  <2> QED BY <1>2, <1>5, <2>1, Collected
<1> HIDE DEF rs, value
<1> QED BY <1>4, <1>6, Results DEF Then, value

\* Tuples.
LEMMA TuplesAreServed ==
    ASSUME NEW param \in Params, NEW wire \in Wires(param),
           param.ty.dims = << >>, param.ty.base = "tuple",
           \A i \in 1 .. Len(param.components) :
             ServedRight(param.components[i], wire.items[i])
    PROVE  ServedRight(param, wire)
<1> SUFFICES ASSUME Canonical(param, wire), NEW p \in Params, p.components = param.components
             PROVE  ~ IsErr(value_to_json(p, DynValue(param, wire)))
  BY DEF ServedRight
<1> DEFINE C == param.components
           n == Len(C)
           fields == [i \in 1 .. n |-> DynValue(C[i], wire.items[i])]
           value == DynValue(param, wire)
           rs == [i \in 1 .. n |-> value_to_json(C[i], fields[i])]
<1>1. /\ value_to_json(p, value) = value_to_json_at(p, value)
      /\ CanonicalAt(param, wire)
  BY OneLevel
<1>2. /\ n \in Nat /\ DOMAIN C = 1 .. n /\ DOMAIN wire.items = 1 .. n
      /\ \A i \in 1 .. n : C[i] \in Params /\ wire.items[i] \in Wires(C[i])
  BY TupleItems
<1>3. value = [tuple |-> fields]
  BY TupleValues
<1>4. value_to_json(p, value) = FieldsToJson(C, fields)
  <2>1. DOMAIN value = {"tuple"} /\ value.tuple = fields
    BY <1>3
  <2> HIDE DEF value, fields
  <2> QED BY <1>1, <2>1 DEF value_to_json_at, FieldsToJson
<1>5. ASSUME NEW i \in 1 .. n PROVE ~ IsErr(rs[i])
  <2>1. rs[i] = value_to_json(C[i], DynValue(C[i], wire.items[i]))
    OBVIOUS
  <2>2. Canonical(C[i], wire.items[i])
    BY <1>1, <1>2 DEF CanonicalAt
  <2>3. ServedRight(C[i], wire.items[i]) /\ C[i] \in Params
    BY <1>2
  <2> HIDE DEF rs, C
  <2> QED BY <2>1, <2>2, <2>3 DEF ServedRight
<1>6. ~ IsErr(Collect(rs))
  <2>1. DOMAIN rs = 1 .. n
    OBVIOUS
  <2> HIDE DEF rs, n
  <2> QED BY <1>2, <1>5, <2>1, Collected
<1>7. Len(fields) = n /\ DOMAIN fields = 1 .. n
  <2>1. fields = [i \in 1 .. n |-> fields[i]]
    OBVIOUS
  <2> HIDE DEF fields, n
  <2> QED BY <1>2, <2>1, Lengths
<1>8. rs = [i \in DOMAIN fields |-> value_to_json(C[i], fields[i])]
  BY <1>7
<1> HIDE DEF rs, fields
<1>9. ~ IsErr(FieldsToJson(C, fields))
  BY <1>6, <1>7, <1>8, Results DEF FieldsToJson, tuple_to_json, Then
<1> QED BY <1>4, <1>9

\* However deep it nests, a canonical wire value has a JSON value.
LEMMA CanonicalIsServed ==
    \A param \in Params : \A wire \in Wires(param) : ServedRight(param, wire)
<1> DEFINE S == {param \in Params : \A wire \in Wires(param) : ServedRight(param, wire)}
<1>1. ASSUME NEW param \in Params,
             param.ty.dims # << >> => Element(param) \in S,
             \A i \in DOMAIN param.components : param.components[i] \in S,
             NEW wire \in Wires(param)
      PROVE  ServedRight(param, wire)
  <2>1. CASE param.ty.dims # << >>
    BY <1>1, <2>1, ArraysAreServed
  <2>2. CASE param.ty.dims = << >> /\ param.ty.base = "tuple"
    <3>1. \A i \in 1 .. Len(param.components) :
            ServedRight(param.components[i], wire.items[i])
      BY <1>1, <2>2, TupleItems
    <3> QED BY <2>2, <3>1, TuplesAreServed
  <2>3. CASE IsScalar(param)
    BY <2>3, ScalarsAreServed
  <2> QED BY <2>1, <2>2, <2>3 DEF IsScalar
<1>2. Params \subseteq S
  <2>1. \A param \in Params :
          /\ param.ty.dims # << >> => Element(param) \in S
          /\ \A i \in DOMAIN param.components : param.components[i] \in S
          => param \in S
    BY <1>1
  <2> HIDE DEF S
  <2> QED BY <2>1, NestingInduction
<1> QED BY <1>2

\* What a contract returns is never handed over: words that fit their types, for a
\* function whose name is its own in an ABI that parses.
THEOREM ContractResultsAreServed == Spec => []CanonicalResultsServed
<1>1. Inv => CanonicalResultsServed
  <2> DEFINE q == request
             outputs == q.viems.outputs
             n == Len(outputs)
  <2> SUFFICES ASSUME Inv, HandedOver("decode"), q.abi.parses,
                      \E i \in DOMAIN q.abi.functions :
                        {j \in DOMAIN q.abi.functions : q.abi.functions[j].name = q.name} = {i},
                      ~ ZeroWidth(outputs), IsViemBytes(q.data.text),
                      Len(q.data.wire) = n,
                      \A i \in DOMAIN outputs : Canonical(outputs[i], q.data.wire[i])
               PROVE  FALSE
    BY DEF CanonicalResultsServed, IsViemBytes
  <2>1. q \in Requests /\ q.op = "decode" /\ result = Decoded(q) /\ IsErr(result)
    BY AnswersAreOfTheCall DEF Returned
  <2>2. IsErr(NativeDecoded(q))
    BY <2>1, CallsAssumption
  <2>3. find_function(q.abi, q.name) = Ok(q.viems)
    BY <2>1, FunctionFound
  <2>4. /\ q.data.text \in Texts
        /\ \A i \in DOMAIN outputs : q.data.wire[i] \in Wires(outputs[i])
    BY <2>1, AbiRequestsAssumption DEF AbiRequests
  <2>5. ~ IsErr(decode_viem_hex(q.data.text))
    BY <2>4, DecodeViemHexIsViem, Results
  <2>6. NativeDecoded(q) = Then(Collect(ItemsOf(q)), ResultJson)
    BY <2>1, <2>3, <2>5, NativeDecoding, Results
  <2>7. n \in Nat /\ DOMAIN outputs = 1 .. n /\ \A i \in 1 .. n : outputs[i] \in Params
    <3>1. outputs \in Seq(Params)
      BY <2>1, <2>3, FunctionFound, Results
    <3> QED BY <3>1
  <2>8. ASSUME NEW i \in 1 .. n PROVE ~ IsErr(ItemsOf(q)[i])
    <3>1. ItemsOf(q)[i] = value_to_json(outputs[i], DynValue(outputs[i], q.data.wire[i]))
      BY <2>7 DEF ItemsOf
    <3>2. ServedRight(outputs[i], q.data.wire[i]) /\ Canonical(outputs[i], q.data.wire[i])
      BY <2>4, <2>7, CanonicalIsServed
    <3> QED BY <2>7, <3>1, <3>2 DEF ServedRight
  <2>9. ~ IsErr(Collect(ItemsOf(q)))
    <3>1. DOMAIN ItemsOf(q) = 1 .. n
      BY <2>7 DEF ItemsOf
    <3> QED BY <2>7, <2>8, <3>1, Collected
  <2>10. NativeDecoded(q) = ResultJson(Collect(ItemsOf(q)).ok)
    BY <2>6, <2>9 DEF Then
  <2>11. ~ IsErr(NativeDecoded(q))
    BY <2>10, Results DEF ResultJson
  <2> QED BY <2>2, <2>11
<1> QED BY <1>1, SpecInv, PTL

---------------------------------------------------------------------------
(* Encoding: what the caller passed, and the JSON the native code sees of it. *)

\* No number the caller passes is unsafe, and no object has the codec's tag.
PlainValues ==
    \A js \in JsValues :
        /\ "number" \in DOMAIN js => js.number \in Safe
        /\ "object" \in DOMAIN js => BIGINT_TAG \notin DOMAIN js.object

\* A value and its JSON, kind by kind.
AreNumber(js, json) == \E n \in Safe : js = [number |-> n] /\ json = [num |-> n]
AreBig(js, json) == \E n \in Int : js = [big |-> n] /\ json = bigint_tag(n)
AreString(js, json) == \E t \in Texts : js = [string |-> t] /\ json = [str |-> t]
AreBoolean(js, json) == \E b \in BOOLEAN : js = [boolean |-> b] /\ json = [bool |-> b]
AreArray(js, json) ==
    /\ js \in [array : Seq(JsValues)] /\ DOMAIN json = {"arr"}
    /\ DOMAIN json.arr = DOMAIN js.array /\ Len(json.arr) = Len(js.array)
    /\ \A i \in DOMAIN js.array : json.arr[i] = richJsonStringify(js.array[i])
AreObject(js, json) ==
    /\ DOMAIN js = {"object"} /\ DOMAIN json = {"obj"}
    /\ BIGINT_TAG \notin DOMAIN js.object /\ DOMAIN json.obj = DOMAIN js.object
    /\ \A key \in DOMAIN js.object :
         /\ js.object[key] \in JsValues
         /\ json.obj[key] = richJsonStringify(js.object[key])
AreOther(js, json) ==
    \/ \E n \in Int : js = [fraction |-> n] /\ json = [float |-> n]
    \/ js = [undefined |-> TRUE] /\ json = [null |-> TRUE]

\* The JSON of each kind of value.
LEMMA Stringified ==
    ASSUME PlainValues, NEW param \in Params, NEW js \in JsValues,
           NEW json, json = richJsonStringify(js)
    PROVE  \/ AreNumber(js, json) \/ AreBig(js, json) \/ AreString(js, json)
           \/ AreBoolean(js, json) \/ AreArray(js, json) \/ AreObject(js, json)
           \/ AreOther(js, json)
<1>1. json = richJsonStringifyAt(js)
  BY EncodingAssumption
<1>2. CASE js \in [number : Int]
  <2>1. PICK n \in Int : js = [number |-> n]
    BY <1>2
  <2>2. n \in Safe
    BY <2>1 DEF PlainValues
  <2>3. json = [num |-> Printed(n)]
    BY <1>1, <2>1 DEF richJsonStringifyAt
  <2> QED BY <2>1, <2>2, <2>3, SafeNumbersSurvive DEF AreNumber
<1>3. CASE js \in [fraction : Int]
  <2>1. PICK n \in Int : js = [fraction |-> n]
    BY <1>3
  <2>2. json = [float |-> n]
    BY <1>1, <2>1 DEF richJsonStringifyAt
  <2> QED BY <2>1, <2>2 DEF AreOther
<1>4. CASE js \in [big : Int]
  <2>1. PICK n \in Int : js = [big |-> n]
    BY <1>4
  <2>2. json = bigint_tag(n)
    BY <1>1, <2>1 DEF richJsonStringifyAt
  <2> QED BY <2>1, <2>2 DEF AreBig
<1>5. CASE js \in [string : Texts]
  <2>1. PICK t \in Texts : js = [string |-> t]
    BY <1>5
  <2>2. json = [str |-> t]
    BY <1>1, <2>1 DEF richJsonStringifyAt
  <2> QED BY <2>1, <2>2 DEF AreString
<1>6. CASE js \in [boolean : BOOLEAN]
  <2>1. PICK b \in BOOLEAN : js = [boolean |-> b]
    BY <1>6
  <2>2. json = [bool |-> b]
    BY <1>1, <2>1 DEF richJsonStringifyAt
  <2> QED BY <2>1, <2>2 DEF AreBoolean
<1>7. CASE js \in [undefined : {TRUE}]
  <2>1. js = [undefined |-> TRUE]
    BY <1>7
  <2>2. json = [null |-> TRUE]
    BY <1>1, <2>1 DEF richJsonStringifyAt
  <2> QED BY <2>1, <2>2 DEF AreOther
<1>8. CASE js \in [array : Seq(JsValues)]
  <2>1. PICK s \in Seq(JsValues) : js = [array |-> s]
    BY <1>8
  <2> DEFINE shown == [i \in DOMAIN s |-> richJsonStringify(s[i])]
  <2>2. json = [arr |-> shown]
    BY <1>1, <2>1 DEF richJsonStringifyAt
  <2>3. Len(shown) = Len(s) /\ DOMAIN shown = DOMAIN s
    <3>1. Len(s) \in Nat /\ shown = [i \in 1 .. Len(s) |-> shown[i]]
      OBVIOUS
    <3>2. Len(shown) = Len(s)
      <4> HIDE DEF shown
      <4> QED BY <3>1, Lengths
    <3> QED BY <3>2
  <2>4. \A i \in DOMAIN s : shown[i] = richJsonStringify(s[i])
    OBVIOUS
  <2> HIDE DEF shown
  <2> QED BY <2>1, <2>2, <2>3, <2>4 DEF AreArray
<1>9. CASE DOMAIN js = {"object"} /\ \A key \in DOMAIN js.object : js.object[key] \in JsValues
  <2> DEFINE shown == [key \in DOMAIN js.object |-> richJsonStringify(js.object[key])]
  <2>1. json = [obj |-> shown]
    BY <1>1, <1>9 DEF richJsonStringifyAt
  <2>2. BIGINT_TAG \notin DOMAIN js.object
    BY <1>9 DEF PlainValues
  <2>3. /\ DOMAIN shown = DOMAIN js.object
        /\ \A key \in DOMAIN js.object : shown[key] = richJsonStringify(js.object[key])
    OBVIOUS
  <2> HIDE DEF shown
  <2> QED BY <1>9, <2>1, <2>2, <2>3 DEF AreObject
<1> QED BY <1>2, <1>3, <1>4, <1>5, <1>6, <1>7, <1>8, <1>9, JsAssumption DEF JavaScript

\* No string the caller passes is an integer with underscores in it.
NoUnderscores ==
    \A js \in JsValues : "string" \in DOMAIN js => "underscored" \notin DOMAIN js.string

\* The integer parsers read a decimal as the integer it is of.
LEMMA DecimalsAreParsed ==
    ASSUME NEW n
    PROVE  /\ Parsed10(Decimal(n)) = n
           /\ \A range : FitsWord(Decimal(n), range) <=> n \in range
<1>1. DOMAIN Decimal(n) = {"decimal"} /\ Decimal(n).decimal = n
  BY DEF Decimal
<1>2. Parsed10(Decimal(n)) = n
  BY <1>1 DEF Parsed10
<1> QED BY <1>1, <1>2 DEF FitsWord

\* The text of an integer argument is the integer viem takes the value for.
LEMMA IntegerArguments ==
    ASSUME PlainValues, NEW param \in Params, NEW js \in JsValues,
           NEW json, json = richJsonStringify(js)
    PROVE  /\ (~ IsErr(arg_to_decimal(json)) /\ "decimal" \in DOMAIN arg_to_decimal(json).ok) =>
                LET n == arg_to_decimal(json).ok.decimal IN n \in Int /\ IsInteger(js, n)
           /\ \A n \in Int : IsInteger(js, n) => arg_to_decimal(json) = Ok(Decimal(n))
           /\ (NoUnderscores /\ ~ IsErr(arg_to_decimal(json))) =>
                "underscored" \notin DOMAIN arg_to_decimal(json).ok
<1>1. CASE AreNumber(js, json)
  <2>1. PICK n \in Safe : js = [number |-> n] /\ json = [num |-> n]
    BY <1>1 DEF AreNumber
  <2>2. n \in Int /\ n \in I64
    <3>1. I64_BITS - 1 \in 0 .. WORD_BITS /\ JS_MAX_SAFE_INTEGER \in Nat
      BY WidthsAssumption
    <3>2. Pow2[I64_BITS - 1] \in Nat \ {0}
      BY <3>1, Powers
    <3> QED BY <3>1, <3>2, SafeIntegersAssumption DEF Safe, I64
  <2>3. arg_to_decimal(json) = Ok(Decimal(n))
    BY <2>1, <2>2 DEF arg_to_decimal
  <2>4. Decimal(n).decimal = n /\ "underscored" \notin DOMAIN Decimal(n)
    BY DEF Decimal
  <2>5. \A m \in Int : IsInteger(js, m) <=> m = n
    BY <2>1 DEF IsInteger
  <2> QED BY <2>2, <2>3, <2>4, <2>5, Results
<1>2. CASE AreBig(js, json)
  <2>1. PICK n \in Int : js = [big |-> n] /\ json = bigint_tag(n)
    BY <1>2 DEF AreBig
  <2>2. /\ DOMAIN json = {"obj"} /\ BIGINT_TAG \in DOMAIN json.obj
        /\ json.obj[BIGINT_TAG] = [str |-> Decimal(n)]
    BY <2>1 DEF bigint_tag
  <2>3. arg_to_decimal(json) = Ok(Decimal(n))
    BY <2>2 DEF arg_to_decimal
  <2>4. Decimal(n).decimal = n /\ "underscored" \notin DOMAIN Decimal(n)
    BY DEF Decimal
  <2>5. \A m \in Int : IsInteger(js, m) <=> m = n
    BY <2>1 DEF IsInteger
  <2> QED BY <2>3, <2>4, <2>5, Results
<1>3. CASE AreString(js, json)
  <2>1. PICK t \in Texts : js = [string |-> t] /\ json = [str |-> t]
    BY <1>3 DEF AreString
  <2>2. arg_to_decimal(json) = Ok(t)
    BY <2>1 DEF arg_to_decimal
  <2>3. "decimal" \in DOMAIN t => t.decimal \in Int /\ t = Decimal(t.decimal)
    BY DEF Texts, Decimal
  <2>4. \A m \in Int : IsInteger(js, m) <=> t = Decimal(m)
    BY <2>1 DEF IsInteger
  <2>5. NoUnderscores => "underscored" \notin DOMAIN t
    BY <2>1 DEF NoUnderscores
  <2> QED BY <2>2, <2>3, <2>4, <2>5, Results
<1>4. CASE AreBoolean(js, json) \/ AreOther(js, json)
  <2>1. IsErr(arg_to_decimal(json))
    BY <1>4, Results DEF AreBoolean, AreOther, arg_to_decimal
  <2>2. \A m \in Int : ~ IsInteger(js, m)
    BY <1>4 DEF AreBoolean, AreOther, IsInteger
  <2> QED BY <2>1, <2>2
<1>5. CASE AreArray(js, json) \/ AreObject(js, json)
  <2>1. IsErr(arg_to_decimal(json))
    BY <1>5, Results DEF AreArray, AreObject, arg_to_decimal
  <2>2. DOMAIN js \in {{"array"}, {"object"}}
    BY <1>5 DEF AreArray, AreObject
  <2>3. \A m \in Int : ~ IsInteger(js, m)
    BY <2>2 DEF IsInteger
  <2> QED BY <2>1, <2>3
<1> QED BY <1>1, <1>2, <1>3, <1>4, <1>5, Stringified

\* The checksum of an address is the one text that is its EIP-55 form.
LEMMA OneChecksum ==
    ASSUME NEW text \in Texts, IsViemAddress(text)
    PROVE  to_checksum(Lower(text.digits)) = text <=> IsChecksumOf(text, Lower(text.digits))
<1> DEFINE d == text.digits
           a == Lower(d)
           c == [i \in DOMAIN a |-> IF a[i] = "a" /\ i \in UpperAt[a] THEN "A" ELSE a[i]]
<1>1. a \in Addresses
  BY AddressesOfTexts
<1>2. to_checksum(a) = text => IsChecksumOf(text, a)
  BY <1>1, ChecksumsAreSound
<1>3. ASSUME IsChecksumOf(text, a) PROVE to_checksum(a) = text
  <2>1. text \in HexTexts
    BY OnlyHexHasDigits DEF IsViemAddress, IsHex
  <2>2. /\ Len(text.prefixes) = 1 /\ Head(text.prefixes) = HEX_PREFIX
        /\ \A i \in DOMAIN d : d[i] \in HexDigits
    BY DEF IsViemAddress, IsHex
  <2>3. text.prefixes = <<HEX_PREFIX>>
    BY <2>1, <2>2 DEF HexTexts
  <2>4. d \in Seq(HexDigits \cup {"z"})
    BY <2>1 DEF HexTexts
  <2>5. d = [i \in DOMAIN d |-> d[i]]
    BY <2>4
  <2>6. a = [i \in DOMAIN d |-> IF d[i] = "A" THEN "a" ELSE d[i]]
    BY DEF Lower
  <2>7. \A i \in DOMAIN a : a[i] = "a" => (d[i] = "A" <=> i \in UpperAt[a])
    BY <1>3 DEF IsChecksumOf
  <2> HIDE DEF d, a
  <2>8. \A i \in DOMAIN d : c[i] = d[i]
    BY <2>2, <2>6, <2>7 DEF HexDigits
  <2>9. c = d
    BY <2>5, <2>6, <2>8
  <2>10. text = [prefixes |-> <<HEX_PREFIX>>, digits |-> d]
    BY <2>1, <2>3 DEF HexTexts, d
  <2>11. to_checksum(a) = [prefixes |-> <<HEX_PREFIX>>, digits |-> c]
    BY DEF to_checksum, Hex
  <2> QED BY <2>9, <2>10, <2>11
<1> QED BY <1>2, <1>3

\* parse_viem_strict_address takes what viem's strict test takes, and nothing else.
LEMMA StrictParsingIsViem ==
    ASSUME NEW text \in Texts
    PROVE  IF IsStrictAddress(text)
           THEN parse_viem_strict_address(text) = Ok(Lower(text.digits))
           ELSE IsErr(parse_viem_strict_address(text))
<1>1. CASE ~ IsViemAddress(text)
  <2>1. IsErr(parse_viem_address(AsHex(text)))
    BY <1>1, ParsingIsViem
  <2> QED BY <1>1, <2>1 DEF parse_viem_strict_address, IsStrictAddress
<1>2. CASE IsViemAddress(text)
  <2>1. parse_viem_address(AsHex(text)) = Ok(Lower(text.digits))
    BY <1>2, ParsingIsViem
  <2>2. parse_viem_strict_address(text) =
          IF /\ \E i \in DOMAIN text.digits : text.digits[i] = "A"
             /\ to_checksum(Lower(text.digits)) # text
          THEN Err("InvalidAddress") ELSE Ok(Lower(text.digits))
    BY <2>1, Results DEF parse_viem_strict_address
  <2>3. to_checksum(Lower(text.digits)) = text <=> IsChecksumOf(text, Lower(text.digits))
    BY <1>2, OneChecksum
  <2> QED BY <1>2, <2>2, <2>3, Results DEF IsStrictAddress
<1> QED BY <1>1, <1>2

---------------------------------------------------------------------------
(* Encoding, one level at a time. *)

\* No tuple in a parameter is a tuple of nothing.
HasWidth(param) ==
    param.ty.base = "tuple" => param.components # << >> /\ ~ ZeroWidth(param.components)

\* A value the caller passes is on the wire what viem puts there.
EncodedRight(param, js) ==
    LET value == json_to_value(param, richJsonStringify(js)) IN
    (HasWidth(param) /\ ~ IsErr(value)) => ViemEncodes(param, js, Wire(value.ok))

\* It is enough to look at one level.
LEMMA OneEncodingLevel ==
    ASSUME NEW param \in Params, NEW js \in JsValues
    PROVE  LET json == richJsonStringify(js)
               value == json_to_value(param, json)
               wire == Wire(value.ok)
           IN  /\ value = json_to_value_at(param, json)
               /\ ~ IsErr(value) =>
                    /\ wire = WireAt(value.ok)
                    /\ ViemEncodes(param, js, wire) <=>
                         ViemEncodesAt(param, js, wire)
  BY EncodingAssumption

\* A word of a signed type is read back as the integer it was made of.
LEMMA SignedWordsComeBack ==
    ASSUME NEW ty, ty.base = "int", ty.size \in 1 .. WORD_BITS, NEW n \in Bounds(ty),
           NEW wire, wire = [word |-> IF n < 0 THEN n + Pow2[WORD_BITS] ELSE n]
    PROVE  SignedWord(ty, wire) = n
<1>1. WORD_BITS \in Nat \ {0}
  BY WidthsAssumption
<1>2. /\ WORD_BITS - 1 \in 0 .. WORD_BITS /\ ty.size - 1 \in 0 .. (WORD_BITS - 1)
      /\ ty.size - 1 \in 0 .. WORD_BITS
  BY <1>1
<1>3. /\ Pow2[ty.size - 1] <= Pow2[WORD_BITS - 1]
      /\ Pow2[WORD_BITS] = 2 * Pow2[WORD_BITS - 1]
      /\ Pow2[WORD_BITS - 1] \in Nat /\ Pow2[ty.size - 1] \in Nat
  BY <1>1, <1>2, PowersGrow, Powers
<1>4. n \in -Pow2[ty.size - 1] .. (Pow2[ty.size - 1] - 1)
  BY DEF Bounds
<1>5. wire.word = IF n < 0 THEN n + Pow2[WORD_BITS] ELSE n
  OBVIOUS
<1> QED BY <1>3, <1>4, <1>5 DEF SignedWord

\* Integers.
LEMMA IntegersAreEncodedRight ==
    ASSUME PlainValues, NoUnderscores, NEW param \in Params, IsScalar(param),
           param.ty.base \in {"uint", "int"}, NEW js \in JsValues
    PROVE  EncodedRight(param, js)
<1> DEFINE ty == param.ty
           json == richJsonStringify(js)
           value == json_to_value(param, json)
           wire == Wire(value.ok)
           text == arg_to_decimal(json)
           n == text.ok.decimal
<1> SUFFICES ASSUME ~ IsErr(value) PROVE ViemEncodes(param, js, wire)
  BY DEF EncodedRight
<1>1. /\ value = json_to_value_at(param, json)
      /\ wire = WireAt(value.ok)
      /\ ViemEncodes(param, js, wire) <=> ViemEncodesAt(param, js, wire)
  BY OneEncodingLevel
<1>2. ty.dims = << >> /\ ty.size \in 1 .. WORD_BITS /\ value = coerce_scalar(ty, json)
  BY <1>1, NoElements, ParamsAssumption DEF IsScalar, IsTuple, json_to_value_at
<1>3. \/ /\ ty.base = "uint" /\ "decimal" \in DOMAIN text.ok /\ n \in 0 .. (Pow2[ty.size] - 1)
         /\ value.ok = [uint |-> n, size |-> ty.size]
      \/ /\ ty.base = "int" /\ "decimal" \in DOMAIN text.ok
         /\ n \in -Pow2[ty.size - 1] .. (Pow2[ty.size - 1] - 1)
         /\ value.ok = [int |-> n, size |-> ty.size]
  <2> HIDE DEF json, text
  <2>1. ~ IsErr(text)
    BY <1>2, Results DEF coerce_scalar, Then, text
  <2>2. ty.size \in Nat /\ ty.size \in 0 .. WORD_BITS /\ ty.size - 1 \in 0 .. WORD_BITS
        /\ WORD_BITS \in 0 .. WORD_BITS /\ WORD_BITS - 1 \in 0 .. WORD_BITS
    BY <1>2, WidthsAssumption
  <2>3. Pow2[ty.size] \in Nat /\ Pow2[ty.size - 1] \in Nat
        /\ Pow2[WORD_BITS] \in Nat /\ Pow2[WORD_BITS - 1] \in Nat
    BY <2>2, Powers
  <2>4. "underscored" \notin DOMAIN text.ok
    BY <2>1, IntegerArguments DEF text, json
  <2>5. Parsed10(text.ok) = n /\ \A range : FitsWord(text.ok, range) =>
                                "decimal" \in DOMAIN text.ok /\ n \in range
    BY <2>4 DEF Parsed10, FitsWord
  <2>6. CASE ty.base = "uint"
    <3>1. value = coerce_uint(ty.size, text.ok)
      BY <1>2, <2>1, <2>6 DEF coerce_scalar, Then, text
    <3>2. /\ "decimal" \in DOMAIN text.ok /\ n \in 0 .. (Pow2[WORD_BITS] - 1)
          /\ ~ (n >= Pow2[ty.size])
          /\ value = Ok([uint |-> n, size |-> ty.size])
      BY <2>5, <3>1, Results DEF coerce_uint
    <3>3. value.ok = [uint |-> n, size |-> ty.size]
      BY <3>2, Results
    <3> HIDE DEF n, value
    <3> QED BY <2>3, <2>6, <3>2, <3>3
  <2>7. CASE ty.base = "int"
    <3>1. value = coerce_int(ty.size, text.ok)
      BY <1>2, <2>1, <2>7 DEF coerce_scalar, Then, text
    <3>2. /\ "decimal" \in DOMAIN text.ok
          /\ n \in -Pow2[ty.size - 1] .. (Pow2[ty.size - 1] - 1)
          /\ value = Ok([int |-> n, size |-> ty.size])
      BY <2>5, <3>1, Results DEF coerce_int
    <3>3. value.ok = [int |-> n, size |-> ty.size]
      BY <3>2, Results
    <3> HIDE DEF n, value
    <3> QED BY <2>7, <3>2, <3>3
  <2> QED BY <2>6, <2>7
<1>4. ~ IsErr(text)
  <2> HIDE DEF json
  <2> QED BY <1>2, Results DEF coerce_scalar, Then
<1>5. IsInteger(js, n) /\ n \in Bounds(ty)
  BY <1>3, <1>4, IntegerArguments DEF Bounds
<1> HIDE DEF n, text, value
<1>6. SignedWord(ty, wire) = n
  <2>1. CASE ty.base = "uint"
    <3>1. wire = [word |-> n]
      BY <1>1, <1>3, <2>1 DEF WireAt
    <3> QED BY <2>1, <3>1 DEF SignedWord
  <2>2. CASE ty.base = "int"
    <3>1. wire = [word |-> IF n < 0 THEN n + Pow2[WORD_BITS] ELSE n]
      BY <1>1, <1>3, <2>2 DEF WireAt
    <3> HIDE DEF wire
    <3> QED BY <1>2, <1>5, <2>2, <3>1, SignedWordsComeBack
  <2> QED BY <2>1, <2>2
<1> HIDE DEF wire
<1>7. ViemEncodesAt(param, js, wire)
  BY <1>2, <1>5, <1>6 DEF ViemEncodesAt
<1> QED BY <1>1, <1>7

\* A string argument is a JavaScript string.
LEMMA StringArguments ==
    ASSUME PlainValues, NEW param \in Params, NEW js \in JsValues,
           NEW json, json = richJsonStringify(js)
    PROVE  IF "string" \in DOMAIN js
           THEN js.string \in Texts /\ arg_to_str(json) = Ok(js.string)
           ELSE IsErr(arg_to_str(json))
<1>1. CASE AreString(js, json)
  <2>1. PICK t \in Texts : js = [string |-> t] /\ json = [str |-> t]
    BY <1>1 DEF AreString
  <2> QED BY <2>1 DEF arg_to_str
<1>2. CASE ~ AreString(js, json)
  <2>1. "string" \notin DOMAIN js /\ "str" \notin DOMAIN json
    <3>1. CASE AreNumber(js, json) \/ AreBig(js, json)
      BY <3>1 DEF AreNumber, AreBig, bigint_tag
    <3>2. CASE AreBoolean(js, json) \/ AreOther(js, json)
      BY <3>2 DEF AreBoolean, AreOther
    <3>3. CASE AreArray(js, json) \/ AreObject(js, json)
      BY <3>3 DEF AreArray, AreObject
    <3> QED BY <1>2, <3>1, <3>2, <3>3, Stringified
  <2> QED BY <2>1, Results DEF arg_to_str
<1> QED BY <1>1, <1>2

\* The other scalars.
LEMMA ScalarsAreEncodedRight ==
    ASSUME PlainValues, NoUnderscores, NEW param \in Params, IsScalar(param), NEW js \in JsValues
    PROVE  EncodedRight(param, js)
<1> DEFINE ty == param.ty
           json == richJsonStringify(js)
           value == json_to_value(param, json)
           wire == Wire(value.ok)
           text == arg_to_str(json)
<1> SUFFICES ASSUME ~ IsErr(value) PROVE ViemEncodes(param, js, wire)
  BY DEF EncodedRight
<1>1. /\ value = json_to_value_at(param, json)
      /\ wire = WireAt(value.ok)
      /\ ViemEncodes(param, js, wire) <=> ViemEncodesAt(param, js, wire)
  BY OneEncodingLevel
<1>2. ty.dims = << >> /\ ty.base # "tuple" /\ value = coerce_scalar(ty, json)
  BY <1>1, NoElements DEF IsScalar, IsTuple, json_to_value_at
<1>3. IF "string" \in DOMAIN js THEN js.string \in Texts /\ text = Ok(js.string)
      ELSE IsErr(text)
  BY StringArguments
<1>4. CASE ty.base \in {"uint", "int"}
  <2>1. EncodedRight(param, js)
    BY <1>4, IntegersAreEncodedRight
  <2>2. HasWidth(param)
    BY <1>2 DEF HasWidth
  <2> QED BY <2>1, <2>2 DEF EncodedRight
<1>5. CASE ty.base = "bool"
  <2> HIDE DEF json
  <2>1. "bool" \in DOMAIN json /\ value = Ok([bool |-> json.bool])
    BY <1>2, <1>5, Results DEF coerce_scalar
  <2>2. AreBoolean(js, json)
    <3>1. json = richJsonStringify(js)
      BY DEF json
    <3>2. ~ (AreNumber(js, json) \/ AreBig(js, json) \/ AreString(js, json) \/ AreOther(js, json))
      BY <2>1 DEF AreNumber, AreBig, AreString, AreOther, bigint_tag
    <3>3. ~ (AreArray(js, json) \/ AreObject(js, json))
      BY <2>1 DEF AreArray, AreObject
    <3> QED BY <3>1, <3>2, <3>3, Stringified
  <2>3. PICK b \in BOOLEAN : js = [boolean |-> b] /\ json = [bool |-> b]
    BY <2>2 DEF AreBoolean
  <2>4. value.ok = [bool |-> b]
    BY <2>1, <2>3, Results
  <2> HIDE DEF value
  <2>5. wire = [word |-> IF b THEN 1 ELSE 0]
    BY <1>1, <2>4 DEF WireAt
  <2>6. wire.word = IF b THEN 1 ELSE 0
    BY <2>5
  <2> HIDE DEF wire
  <2>7. ViemEncodesAt(param, js, wire)
    BY <1>2, <1>5, <2>3, <2>6 DEF ViemEncodesAt
  <2> QED BY <1>1, <2>7
<1>6. CASE ty.base = "string"
  <2> HIDE DEF json, text
  <2>1. ~ IsErr(text) /\ value = Ok([string |-> text.ok])
    BY <1>2, <1>6, Results DEF coerce_scalar, Then, text
  <2>2. "string" \in DOMAIN js /\ value.ok = [string |-> js.string]
    BY <1>3, <2>1, Results
  <2> HIDE DEF value
  <2>3. wire = [text |-> js.string]
    BY <1>1, <2>2 DEF WireAt
  <2> HIDE DEF wire
  <2>4. ViemEncodesAt(param, js, wire)
    BY <1>2, <1>6, <2>2, <2>3 DEF ViemEncodesAt
  <2> QED BY <1>1, <2>4
<1>7. CASE ty.base = "address"
  <2> DEFINE parsed == parse_viem_strict_address(js.string)
  <2>1. "string" \in DOMAIN js /\ js.string \in Texts
        /\ ~ IsErr(parsed) /\ value = Ok([address |-> parsed.ok])
    <3> HIDE DEF json, text
    <3>1. ~ IsErr(text)
      BY <1>2, <1>7, Results DEF coerce_scalar, Then, text
    <3>2. "string" \in DOMAIN js /\ js.string \in Texts /\ text = Ok(js.string)
      BY <1>3, <3>1
    <3>3. Then(text, parse_viem_strict_address) = parsed
      BY <3>2, Results DEF Then
    <3>4. value = IF IsErr(parsed) THEN parsed ELSE Ok([address |-> parsed.ok])
      BY <1>2, <1>7, <3>3 DEF coerce_scalar, Then, text
    <3> QED BY <3>2, <3>4
  <2>2. IsStrictAddress(js.string) /\ parsed.ok = Lower(js.string.digits)
    BY <2>1, StrictParsingIsViem, Results
  <2>3. value.ok = [address |-> Lower(js.string.digits)]
    BY <2>1, <2>2, Results
  <2> HIDE DEF value, json
  <2>4. wire = [hex |-> Lower(js.string.digits)]
    BY <1>1, <2>3 DEF WireAt
  <2> HIDE DEF wire
  <2>5. ViemEncodesAt(param, js, wire)
    BY <1>2, <1>7, <2>1, <2>2, <2>4 DEF ViemEncodesAt
  <2> QED BY <1>1, <2>5
<1>8. CASE ty.base \in {"bytes", "fixed"}
  <2> DEFINE bytes == decode_viem_hex(js.string)
  <2>1. /\ "string" \in DOMAIN js /\ js.string \in Texts /\ ~ IsErr(bytes)
        /\ ty.base = "bytes" => value = Ok([bytes |-> bytes.ok])
        /\ ty.base = "fixed" => value = coerce_fixed_bytes(ty.size, bytes.ok)
    <3> HIDE DEF json, text
    <3>1. ~ IsErr(text)
      BY <1>2, <1>8, Results DEF coerce_scalar, Then, text
    <3>2. "string" \in DOMAIN js /\ js.string \in Texts /\ text = Ok(js.string)
      BY <1>3, <3>1
    <3>3. Then(text, decode_viem_hex) = bytes
      BY <3>2, Results DEF Then
    <3>4. ty.base = "bytes" =>
            value = IF IsErr(bytes) THEN bytes ELSE Ok([bytes |-> bytes.ok])
      BY <1>2, <3>3 DEF coerce_scalar, Then, text
    <3>5. ty.base = "fixed" =>
            value = IF IsErr(bytes) THEN bytes ELSE coerce_fixed_bytes(ty.size, bytes.ok)
      BY <1>2, <3>3 DEF coerce_scalar, Then, text
    <3> QED BY <1>8, <3>2, <3>4, <3>5
  <2>2. IsViemBytes(js.string) /\ bytes.ok = Lower(js.string.digits)
    BY <2>1, DecodeViemHexIsViem, Results
  <2>3. \/ ty.base = "bytes" /\ value.ok = [bytes |-> bytes.ok]
        \/ ty.base = "fixed" /\ value.ok = [fixed |-> bytes.ok, size |-> ty.size]
           /\ Len(bytes.ok) = 2 * ty.size
    BY <1>8, <2>1, Results DEF coerce_fixed_bytes
  <2> HIDE DEF value, json, bytes
  <2>4. wire = [hex |-> bytes.ok]
    BY <1>1, <2>3 DEF WireAt
  <2> HIDE DEF wire
  <2>5. ViemEncodesAt(param, js, wire)
    BY <1>2, <2>1, <2>2, <2>3, <2>4 DEF ViemEncodesAt, IsViemBytes
  <2> QED BY <1>1, <2>5
<1>9. CASE ty.base \notin {"uint", "int", "bool", "string", "address", "bytes", "fixed"}
  <2> HIDE DEF json
  <2>1. IsErr(value)
    BY <1>2, <1>9, Results DEF coerce_scalar
  <2> QED BY <2>1
<1> QED BY <1>4, <1>5, <1>6, <1>7, <1>8, <1>9

\* An array value goes on the wire one element at a time.
LEMMA ArrayWires ==
    ASSUME NEW n \in Nat, NEW items, DOMAIN items = 1 .. n,
           NEW value \in {[array |-> items], [fixedArray |-> items], [tuple |-> items]}
    PROVE  WireAt(value) = [items |-> [i \in 1 .. n |-> Wire(items[i])]]
<1>1. CASE value = [array |-> items]
  <2>1. DOMAIN value = {"array"} /\ value.array = items
    BY <1>1
  <2> QED BY <2>1 DEF WireAt
<1>2. CASE value = [fixedArray |-> items]
  <2>1. DOMAIN value = {"fixedArray"} /\ value.fixedArray = items
    BY <1>2
  <2> QED BY <2>1 DEF WireAt
<1>3. CASE value = [tuple |-> items]
  <2>1. DOMAIN value = {"tuple"} /\ value.tuple = items
    BY <1>3
  <2> QED BY <2>1 DEF WireAt
<1> QED BY <1>1, <1>2, <1>3

\* A value whose JSON is an array is an array, and one whose JSON is an object that is
\* no tag is an object.
LEMMA CompoundArguments ==
    ASSUME PlainValues, NEW param \in Params, NEW js \in JsValues,
           NEW json, json = richJsonStringify(js)
    PROVE  /\ "arr" \in DOMAIN json => AreArray(js, json)
           /\ "obj" \in DOMAIN json => AreObject(js, json) \/ DOMAIN json.obj = {BIGINT_TAG}
           /\ "arr" \in DOMAIN json => "obj" \notin DOMAIN json
<1>1. ASSUME AreNumber(js, json) \/ AreString(js, json) \/ AreBoolean(js, json)
             \/ AreOther(js, json)
      PROVE  "arr" \notin DOMAIN json /\ "obj" \notin DOMAIN json
  BY <1>1 DEF AreNumber, AreString, AreBoolean, AreOther
<1>2. ASSUME AreBig(js, json)
      PROVE  "arr" \notin DOMAIN json /\ DOMAIN json.obj = {BIGINT_TAG}
  BY <1>2 DEF AreBig, bigint_tag
<1>3. ASSUME AreArray(js, json) PROVE "obj" \notin DOMAIN json
  BY <1>3 DEF AreArray
<1>4. ASSUME AreObject(js, json) PROVE "arr" \notin DOMAIN json
  BY <1>4 DEF AreObject
<1> QED BY <1>1, <1>2, <1>3, <1>4, Stringified

\* Arrays are encoded right, if their elements are.
LEMMA ArraysAreEncodedRight ==
    ASSUME PlainValues, NEW param \in Params, param.ty.dims # << >>, NEW js \in JsValues,
           \A x \in JsValues : EncodedRight(Element(param), x)
    PROVE  EncodedRight(param, js)
<1> DEFINE element == Element(param)
           json == richJsonStringify(js)
           value == json_to_value(param, json)
           wire == Wire(value.ok)
           n == Len(json.arr)
           rs == [i \in 1 .. n |-> json_to_value(element, json.arr[i])]
           items == [i \in 1 .. n |-> rs[i].ok]
           last == Last(param.ty.dims)
<1> SUFFICES ASSUME HasWidth(param), ~ IsErr(value) PROVE ViemEncodes(param, js, wire)
  BY DEF EncodedRight
<1>1. /\ value = json_to_value_at(param, json)
      /\ wire = WireAt(value.ok)
      /\ ViemEncodes(param, js, wire) <=> ViemEncodesAt(param, js, wire)
  BY OneEncodingLevel
<1>2. /\ split_array_type(param.ty) # << >> /\ split_array_type(param.ty)[2] = last
      /\ ElementParam(param) = element /\ element \in Params
      /\ element.components = param.components /\ element.ty.base = param.ty.base
  BY Elements
<1>3. "arr" \in DOMAIN json
  <2> HIDE DEF json, last, element
  <2> QED BY <1>1, <1>2, Results DEF json_to_value_at
<1>4. AreArray(js, json)
  BY <1>3, CompoundArguments
<1>5. /\ js \in [array : Seq(JsValues)] /\ n = Len(js.array) /\ n \in Nat
      /\ DOMAIN json.arr = 1 .. n /\ DOMAIN js.array = 1 .. n
      /\ \A i \in 1 .. n : js.array[i] \in JsValues /\ json.arr[i] = richJsonStringify(js.array[i])
  <2>1. js.array \in Seq(JsValues)
    BY <1>4 DEF AreArray
  <2> QED BY <1>4, <2>1 DEF AreArray
<1>6. rs = [i \in DOMAIN json.arr |-> json_to_value(element, json.arr[i])]
  BY <1>5
<1>7. /\ last \in {Dynamic, n} /\ ~ IsErr(Collect(rs))
      /\ value = IF last = Dynamic THEN Ok([array |-> Collect(rs).ok])
                                   ELSE Ok([fixedArray |-> Collect(rs).ok])
  <2> HIDE DEF json, last, element, rs
  <2>1. value = IF last # Dynamic /\ n # last THEN Err("ArityMismatch")
                ELSE IF IsErr(Collect(rs)) THEN Collect(rs)
                ELSE IF last = Dynamic THEN Ok([array |-> Collect(rs).ok])
                                       ELSE Ok([fixedArray |-> Collect(rs).ok])
    BY <1>1, <1>2, <1>3, <1>6 DEF json_to_value_at, Then
  <2> QED BY <2>1, Results
<1>8. (\A i \in 1 .. n : ~ IsErr(rs[i])) /\ Collect(rs).ok = items
  <2>1. DOMAIN rs = 1 .. n
    OBVIOUS
  <2> HIDE DEF rs, n
  <2> QED BY <1>5, <1>7, <2>1, Collected
<1>9. value.ok \in {[array |-> items], [fixedArray |-> items], [tuple |-> items]}
  <2> HIDE DEF items, last, rs, value
  <2> QED BY <1>7, <1>8, Results
<1>10. wire = [items |-> [i \in 1 .. n |-> Wire(items[i])]]
  <2>1. DOMAIN items = 1 .. n
    OBVIOUS
  <2> HIDE DEF items, value, n
  <2> QED BY <1>1, <1>5, <1>9, <2>1, ArrayWires
<1>11. ASSUME NEW i \in 1 .. n PROVE ViemEncodes(element, js.array[i], Wire(items[i]))
  <2>1. rs[i] = json_to_value(element, richJsonStringify(js.array[i])) /\ items[i] = rs[i].ok
    BY <1>5
  <2>2. EncodedRight(element, js.array[i]) /\ HasWidth(element)
    BY <1>2, <1>5 DEF HasWidth
  <2> HIDE DEF rs, items, element
  <2> QED BY <1>8, <2>1, <2>2 DEF EncodedRight
<1>12. ViemEncodesAt(param, js, wire)
  <2> DEFINE words == [i \in 1 .. n |-> Wire(items[i])]
  <2>1. Len(words) = n /\ DOMAIN words = 1 .. n /\ \A i \in 1 .. n : words[i] = Wire(items[i])
    <3>1. words = [i \in 1 .. n |-> words[i]]
      OBVIOUS
    <3>2. Len(words) = n
      <4> HIDE DEF words, n
      <4> QED BY <1>5, <3>1, Lengths
    <3> QED BY <3>2
  <2>2. wire.items = words
    BY <1>10
  <2>3. "array" \in DOMAIN js
    BY <1>5
  <2> HIDE DEF words, wire, items, n
  <2>4. \A i \in DOMAIN wire.items : ViemEncodes(Element(param), js.array[i], wire.items[i])
    BY <1>11, <2>1, <2>2 DEF element
  <2>5. DOMAIN wire.items = DOMAIN js.array /\ last \in {Dynamic, Len(wire.items)}
    BY <1>5, <1>7, <2>1, <2>2
  <2> QED BY <2>3, <2>4, <2>5 DEF ViemEncodesAt, last
<1> QED BY <1>1, <1>12

\* x is what the caller passes for the i-th component of a tuple.
IsField(js, component, i, x) ==
    \/ "array" \in DOMAIN js /\ i \in DOMAIN js.array /\ x = js.array[i]
    \/ "object" \in DOMAIN js /\ component.name \in DOMAIN js.object
       /\ x = js.object[component.name]

FieldsOf(components, json) == TupleFields(components, json)

\* The fields of a tuple come of what the caller passes for them.
LEMMA TupleArguments ==
    ASSUME PlainValues, NoTagNames, NEW param \in Params, param.components # << >>,
           NEW js \in JsValues, NEW json, json = richJsonStringify(js),
           ~ IsErr(FieldsOf(param.components, json)),
           NEW n, n = Len(param.components),
           NEW fields, fields = FieldsOf(param.components, json).ok
    PROVE  /\ DOMAIN fields = 1 .. n
           /\ \A i \in 1 .. n : \E x \in JsValues :
                LET value == json_to_value(param.components[i], richJsonStringify(x)) IN
                ~ IsErr(value) /\ fields[i] = value.ok /\ IsField(js, param.components[i], i, x)
<1> DEFINE C == param.components
<1>1. /\ n \in Nat \ {0} /\ DOMAIN C = 1 .. n /\ \A i \in 1 .. n : C[i] \in Params
  <2>1. C \in Seq(Params) /\ C # << >>
    BY ParamsAssumption
  <2> HIDE DEF C
  <2>2. Len(C) \in Nat /\ Len(C) # 0 /\ DOMAIN C = 1 .. Len(C)
    BY <2>1, EmptyOrNot
  <2>3. \A i \in 1 .. Len(C) : C[i] \in Params
    BY <2>1
  <2> QED BY <2>2, <2>3 DEF C
<1>2. CASE "obj" \in DOMAIN json
  <2> DEFINE rs == [i \in 1 .. n |->
                      IF C[i].name \in DOMAIN json.obj
                      THEN json_to_value(C[i], json.obj[C[i].name])
                      ELSE Err("InvalidArgument")]
  <2>1. "arr" \notin DOMAIN json
    BY <1>2, CompoundArguments
  <2>2. FieldsOf(C, json) = Collect(rs)
    <3>1. rs = [i \in DOMAIN C |->
                  IF C[i].name \in DOMAIN json.obj
                  THEN json_to_value(C[i], json.obj[C[i].name])
                  ELSE Err("InvalidArgument")]
      BY <1>1
    <3> HIDE DEF rs, C
    <3> QED BY <1>2, <2>1, <3>1 DEF FieldsOf, TupleFields
  <2>3. (\A i \in 1 .. n : ~ IsErr(rs[i])) /\ fields = [i \in 1 .. n |-> rs[i].ok]
    <3>1. DOMAIN rs = 1 .. n
      OBVIOUS
    <3> HIDE DEF rs, C
    <3> QED BY <1>1, <2>2, <3>1, Collected DEF C
  <2>4. \A i \in 1 .. n : /\ C[i].name \in DOMAIN json.obj
                          /\ rs[i] = json_to_value(C[i], json.obj[C[i].name])
    BY <2>3, Results
  <2> HIDE DEF rs
  <2>5. AreObject(js, json)
    <3>1. 1 \in 1 .. n /\ C[1].name # BIGINT_TAG
      BY <1>1 DEF NoTagNames
    <3>2. C[1].name \in DOMAIN json.obj
      BY <2>4, <3>1
    <3> QED BY <1>2, <3>1, <3>2, CompoundArguments
  <2>6. ASSUME NEW i \in 1 .. n
        PROVE  \E x \in JsValues :
                 LET value == json_to_value(C[i], richJsonStringify(x)) IN
                 ~ IsErr(value) /\ fields[i] = value.ok /\ IsField(js, C[i], i, x)
    <3> DEFINE x == js.object[C[i].name]
    <3>1. /\ "object" \in DOMAIN js /\ C[i].name \in DOMAIN js.object
          /\ x \in JsValues /\ json.obj[C[i].name] = richJsonStringify(x)
      BY <2>4, <2>5 DEF AreObject
    <3>2. IsField(js, C[i], i, x)
      BY <3>1 DEF IsField
    <3>3. rs[i] = json_to_value(C[i], richJsonStringify(x)) /\ ~ IsErr(rs[i]) /\ fields[i] = rs[i].ok
      BY <2>3, <2>4, <3>1
    <3> HIDE DEF x
    <3> QED BY <3>1, <3>2, <3>3
  <2> QED BY <2>3, <2>6
<1>3. CASE "obj" \notin DOMAIN json
  <2> DEFINE rs == [i \in 1 .. n |-> json_to_value(C[i], json.arr[i])]
  <2>1. /\ "arr" \in DOMAIN json /\ Len(json.arr) = n
        /\ FieldsOf(C, json) = Collect(rs)
    <3>1. rs = [i \in DOMAIN C |-> json_to_value(C[i], json.arr[i])]
      BY <1>1
    <3> HIDE DEF rs, C
    <3> QED BY <1>3, <3>1, Results DEF FieldsOf, TupleFields, C
  <2>2. (\A i \in 1 .. n : ~ IsErr(rs[i])) /\ fields = [i \in 1 .. n |-> rs[i].ok]
    <3>1. DOMAIN rs = 1 .. n
      OBVIOUS
    <3> HIDE DEF rs, C
    <3> QED BY <1>1, <2>1, <3>1, Collected DEF C
  <2>3. AreArray(js, json)
    BY <2>1, CompoundArguments
  <2>4. "array" \in DOMAIN js /\ js.array \in Seq(JsValues) /\ Len(js.array) = n
    BY <2>1, <2>3 DEF AreArray
  <2>5. DOMAIN js.array = 1 .. n /\ \A i \in 1 .. n : js.array[i] \in JsValues
    BY <2>4
  <2>6. ASSUME NEW i \in 1 .. n
        PROVE  \E x \in JsValues :
                 LET value == json_to_value(C[i], richJsonStringify(x)) IN
                 ~ IsErr(value) /\ fields[i] = value.ok /\ IsField(js, C[i], i, x)
    <3> DEFINE x == js.array[i]
    <3>1. x \in JsValues /\ json.arr[i] = richJsonStringify(x)
      BY <2>3, <2>5 DEF AreArray
    <3>2. IsField(js, C[i], i, x)
      BY <2>4, <2>5 DEF IsField
    <3>3. rs[i] = json_to_value(C[i], richJsonStringify(x)) /\ ~ IsErr(rs[i]) /\ fields[i] = rs[i].ok
      BY <2>2, <3>1
    <3> HIDE DEF x, rs
    <3> QED BY <3>1, <3>2, <3>3
  <2> QED BY <2>2, <2>6
<1> QED BY <1>2, <1>3

\* Tuples are encoded right, if their components are.
LEMMA TuplesAreEncodedRight ==
    ASSUME PlainValues, NoTagNames, NEW param \in Params,
           param.ty.dims = << >>, param.ty.base = "tuple", NEW js \in JsValues,
           \A i \in DOMAIN param.components : \A x \in JsValues :
             EncodedRight(param.components[i], x)
    PROVE  EncodedRight(param, js)
<1> DEFINE C == param.components
           n == Len(C)
           json == richJsonStringify(js)
           value == json_to_value(param, json)
           wire == Wire(value.ok)
           fields == FieldsOf(C, json).ok
<1> SUFFICES ASSUME HasWidth(param), ~ IsErr(value) PROVE ViemEncodes(param, js, wire)
  BY DEF EncodedRight
<1>1. /\ value = json_to_value_at(param, json)
      /\ wire = WireAt(value.ok)
      /\ ViemEncodes(param, js, wire) <=> ViemEncodesAt(param, js, wire)
  BY OneEncodingLevel
<1>2. /\ C # << >> /\ n \in Nat /\ DOMAIN C = 1 .. n
      /\ \A i \in 1 .. n : C[i] \in Params /\ HasWidth(C[i])
  <2>1. C # << >> /\ ~ ZeroWidth(C)
    BY DEF HasWidth
  <2>2. C \in Seq(Params)
    BY ParamsAssumption
  <2>3. \A i \in DOMAIN C : HasWidth(C[i])
    BY <2>1, ComponentsAssumption DEF ZeroWidthAt, HasWidth
  <2> QED BY <2>1, <2>2, <2>3
<1>3. ~ IsErr(FieldsOf(C, json)) /\ value.ok = [tuple |-> fields]
  <2>1. split_array_type(param.ty) = << >> /\ IsTuple(param.ty)
    BY NoElements DEF IsTuple
  <2> HIDE DEF json, C
  <2>2. value = IF IsErr(FieldsOf(C, json)) THEN FieldsOf(C, json) ELSE Ok([tuple |-> fields])
    BY <1>1, <2>1 DEF json_to_value_at, Then, FieldsOf, C
  <2> QED BY <2>2, Results
<1>4. /\ DOMAIN fields = 1 .. n
      /\ \A i \in 1 .. n : \E x \in JsValues :
           LET v == json_to_value(C[i], richJsonStringify(x)) IN
           ~ IsErr(v) /\ fields[i] = v.ok /\ IsField(js, C[i], i, x)
  BY <1>2, <1>3, TupleArguments
<1> HIDE DEF fields
<1>5. wire = [items |-> [i \in 1 .. n |-> Wire(fields[i])]]
  <2> HIDE DEF value, n
  <2> QED BY <1>1, <1>2, <1>3, <1>4, ArrayWires
<1>6. /\ DOMAIN wire.items = 1 .. n
      /\ \A i \in 1 .. n : wire.items[i] = Wire(fields[i])
  <2> HIDE DEF wire, n
  <2> QED BY <1>5
<1>7. ASSUME NEW i \in 1 .. n
      PROVE  \/ /\ "array" \in DOMAIN js /\ i \in DOMAIN js.array
                /\ ViemEncodes(C[i], js.array[i], wire.items[i])
             \/ /\ "object" \in DOMAIN js /\ C[i].name \in DOMAIN js.object
                /\ ViemEncodes(C[i], js.object[C[i].name], wire.items[i])
  <2>1. PICK x \in JsValues :
          LET v == json_to_value(C[i], richJsonStringify(x)) IN
          ~ IsErr(v) /\ fields[i] = v.ok /\ IsField(js, C[i], i, x)
    BY <1>4
  <2>2. ViemEncodes(C[i], x, Wire(fields[i]))
    <3>1. EncodedRight(C[i], x) /\ HasWidth(C[i])
      BY <1>2, <2>1
    <3> QED BY <2>1, <3>1 DEF EncodedRight
  <2> HIDE DEF wire, C
  <2> QED BY <1>6, <2>1, <2>2 DEF IsField
<1>8. ViemEncodesAt(param, js, wire)
  <2> HIDE DEF wire, n
  <2> QED BY <1>2, <1>6, <1>7 DEF ViemEncodesAt
<1> QED BY <1>1, <1>8

\* However deep it nests, what is put on the wire for a value is what viem puts there.
LEMMA EncodingIsRight ==
    ASSUME PlainValues, NoUnderscores, NoTagNames
    PROVE  \A param \in Params : \A js \in JsValues : EncodedRight(param, js)
<1> DEFINE S == {param \in Params : \A js \in JsValues : EncodedRight(param, js)}
<1>1. ASSUME NEW param \in Params,
             param.ty.dims # << >> => Element(param) \in S,
             \A i \in DOMAIN param.components : param.components[i] \in S,
             NEW js \in JsValues
      PROVE  EncodedRight(param, js)
  <2>1. CASE param.ty.dims # << >>
    BY <1>1, <2>1, ArraysAreEncodedRight
  <2>2. CASE param.ty.dims = << >> /\ param.ty.base = "tuple"
    BY <1>1, <2>2, TuplesAreEncodedRight
  <2>3. CASE IsScalar(param)
    BY <2>3, ScalarsAreEncodedRight
  <2> QED BY <2>1, <2>2, <2>3 DEF IsScalar
<1>2. Params \subseteq S
  <2>1. \A param \in Params :
          /\ param.ty.dims # << >> => Element(param) \in S
          /\ \A i \in DOMAIN param.components : param.components[i] \in S
          => param \in S
    BY <1>1
  <2> HIDE DEF S
  <2> QED BY <2>1, NestingInduction
<1> QED BY <1>2

\* The values of a request's arguments.
ValuesOf(q) ==
    [i \in DOMAIN q.viems.inputs |->
       json_to_value(q.viems.inputs[i], richJsonStringify(q.args).arr[i])]

CalldataOf(q, values) ==
    [function |-> q.viems, wire |-> [i \in DOMAIN values |-> Wire(values[i])]]

\* encodeFunctionData, on a request.
LEMMA NativeEncoding ==
    ASSUME NEW q \in Requests, q.op = "encode"
    PROVE  NativeEncoded(q) =
             IF ~ q.abi.parses THEN Err("InvalidAbi")
             ELSE IF IsErr(find_function(q.abi, q.name)) THEN find_function(q.abi, q.name)
             ELSE IF "arr" \notin DOMAIN richJsonStringify(q.args) THEN Err("InvalidArgument")
             ELSE IF Len(richJsonStringify(q.args).arr) # Len(q.viems.inputs)
             THEN Err("ArityMismatch")
             ELSE IF IsErr(Collect(ValuesOf(q))) THEN Collect(ValuesOf(q))
             ELSE IF ZeroWidth(q.viems.inputs) THEN Err("EncodeFailed")
             ELSE Ok(CalldataOf(q, Collect(ValuesOf(q)).ok))
<1>1. ~ IsErr(find_function(q.abi, q.name)) =>
        /\ find_function(q.abi, q.name).ok = q.viems
        /\ q.viems \in [name : STRING, inputs : Seq(Params), outputs : Seq(Params)]
  BY FunctionFound
<1> DEFINE json == richJsonStringify(q.args)
           rs == ValuesOf(q)
<1>2. rs = [i \in DOMAIN q.viems.inputs |-> json_to_value(q.viems.inputs[i], json.arr[i])]
  BY DEF ValuesOf
<1> HIDE DEF json, rs
<1>3. NativeEncoded(q) = encode_function_data(q.abi, q.name, json)
  BY DEF NativeEncoded, json
<1>4. encode_function_data(q.abi, q.name, json) =
        IF ~ q.abi.parses THEN Err("InvalidAbi")
        ELSE IF IsErr(find_function(q.abi, q.name)) THEN find_function(q.abi, q.name)
        ELSE IF "arr" \notin DOMAIN json THEN Err("InvalidArgument")
        ELSE IF Len(json.arr) # Len(q.viems.inputs) THEN Err("ArityMismatch")
        ELSE IF IsErr(Collect(rs)) THEN Collect(rs)
        ELSE IF ZeroWidth(q.viems.inputs) THEN Err("EncodeFailed")
        ELSE Ok(CalldataOf(q, Collect(rs).ok))
  BY <1>1, <1>2 DEF encode_function_data, Then, CalldataOf
<1> QED BY <1>3, <1>4 DEF json, rs

\* Native calldata calls the function viem means, with every argument on the wire what
\* viem puts there: for any ABI without the codec's tag for a name, however its types
\* nest, and any plain JavaScript values without underscored integers.
THEOREM CalldataIsAsViem ==
    ASSUME NoTagNames, PlainValues, NoUnderscores
    PROVE  Spec => []EncodesAsViem
<1>1. Inv => EncodesAsViem
  <2> SUFFICES ASSUME Inv, Natively("encode") PROVE EncodesAsViem
    BY DEF EncodesAsViem
  <2> DEFINE q == request
             inputs == q.viems.inputs
             json == richJsonStringify(q.args)
             rs == ValuesOf(q)
             values == Collect(rs).ok
  <2>1. /\ q \in Requests /\ q.op = "encode"
        /\ result = Encoded(q) /\ ~ IsErr(result) /\ answer.native = result.ok
    BY AnswersAreOfTheCall DEF Returned
  <2>2. result = NativeEncoded(q) /\ q.args \in JsValues
        /\ (ZeroWidth(inputs) <=> ZeroWidthAt(inputs))
    BY <2>1, CallsAssumption, AbiRequestsAssumption DEF AbiRequests
  <2> HIDE DEF json, rs
  <2>3. /\ ~ IsErr(find_function(q.abi, q.name)) /\ "arr" \in DOMAIN json
        /\ Len(json.arr) = Len(inputs) /\ ~ IsErr(Collect(rs)) /\ ~ ZeroWidth(inputs)
        /\ answer.native = CalldataOf(q, values)
    BY <2>1, <2>2, NativeEncoding, Results DEF json, rs
  <2>4. answer.native.function = q.viems
    BY <2>3 DEF CalldataOf
  <2>5. ASSUME NEW i \in DOMAIN inputs
        PROVE  ViemEncodes(inputs[i], q.args.array[i], answer.native.wire[i])
    <3>1. inputs \in Seq(Params)
      BY <2>1, <2>3, FunctionFound
    <3>2. /\ Len(inputs) \in Nat /\ DOMAIN inputs = 1 .. Len(inputs) /\ inputs[i] \in Params
          /\ DOMAIN rs = 1 .. Len(inputs)
          /\ rs[i] = json_to_value(inputs[i], json.arr[i])
      BY <3>1 DEF rs, ValuesOf, json
    <3>3. ~ IsErr(rs[i]) /\ values = [k \in 1 .. Len(inputs) |-> rs[k].ok]
      BY <2>3, <3>2, Collected
    <3>4. answer.native.wire[i] = Wire(rs[i].ok)
      BY <2>3, <3>2, <3>3 DEF CalldataOf
    <3>5. AreArray(q.args, json)
      BY <2>2, <2>3, <3>2, CompoundArguments DEF json
    <3>6. /\ q.args.array \in Seq(JsValues) /\ Len(q.args.array) = Len(inputs)
      BY <2>3, <3>5 DEF AreArray
    <3>7. q.args.array[i] \in JsValues /\ i \in DOMAIN q.args.array
      BY <3>2, <3>6
    <3>8. json.arr[i] = richJsonStringify(q.args.array[i])
      BY <3>5, <3>7 DEF AreArray
    <3>9. HasWidth(inputs[i])
      BY <2>2, <2>3 DEF ZeroWidthAt, HasWidth
    <3>10. EncodedRight(inputs[i], q.args.array[i])
      BY <3>2, <3>7, EncodingIsRight
    <3> QED BY <3>2, <3>3, <3>4, <3>8, <3>9, <3>10 DEF EncodedRight
  <2> QED BY <2>4, <2>5 DEF EncodesAsViem
<1> QED BY <1>1, SpecInv, PTL

---------------------------------------------------------------------------
(* Scalar arguments are served. *)

\* A value viem takes for a scalar, the native code takes.
LEMMA ScalarsAreTaken ==
    ASSUME PlainValues, NEW param \in Params, param.ty.dims = << >>, NEW js \in JsValues,
           Serves(param.ty, js)
    PROVE  IsScalar(param) /\ ~ IsErr(json_to_value(param, richJsonStringify(js)))
<1> DEFINE ty == param.ty
           json == richJsonStringify(js)
           value == json_to_value(param, json)
<1>1. ty.base # "tuple" /\ ty.base \in Bases
  BY ParamsAssumption DEF Serves, Types
<1>2. IsScalar(param)
  BY <1>1 DEF IsScalar
<1>3. value = coerce_scalar(ty, json)
  BY <1>1, OneEncodingLevel, NoElements DEF IsTuple, json_to_value_at
<1> HIDE DEF json, value
<1>4. "string" \in DOMAIN js => js.string \in Texts /\ arg_to_str(json) = Ok(js.string)
  BY StringArguments DEF json
<1>5. CASE ty.base \in {"uint", "int"}
  <2>1. PICK n \in Bounds(ty) : IsInteger(js, n)
    BY <1>5 DEF Serves
  <2>2. /\ ty.size \in 1 .. WORD_BITS /\ ty.size \in 0 .. WORD_BITS /\ WORD_BITS \in 0 .. WORD_BITS
        /\ ty.size - 1 \in 0 .. (WORD_BITS - 1) /\ WORD_BITS - 1 \in 0 .. WORD_BITS
        /\ ty.size - 1 \in 0 .. WORD_BITS
    BY <1>5, ParamsAssumption, WidthsAssumption
  <2>3. /\ Pow2[ty.size] \in Nat \ {0} /\ Pow2[ty.size - 1] \in Nat \ {0}
        /\ Pow2[WORD_BITS] \in Nat /\ Pow2[WORD_BITS - 1] \in Nat
        /\ Pow2[ty.size] <= Pow2[WORD_BITS] /\ Pow2[ty.size - 1] <= Pow2[WORD_BITS - 1]
    BY <2>2, Powers, PowersGrow
  <2>4. n \in Int
    BY <2>3 DEF Bounds
  <2>5. arg_to_decimal(json) = Ok(Decimal(n))
    BY <2>1, <2>4, IntegerArguments DEF json
  <2>6. /\ Parsed10(Decimal(n)) = n
        /\ \A range : FitsWord(Decimal(n), range) <=> n \in range
    BY DecimalsAreParsed
  <2>7. CASE ty.base = "uint"
    <3>1. n \in 0 .. (Pow2[ty.size] - 1) /\ n \in 0 .. (Pow2[WORD_BITS] - 1)
          /\ ~ (n >= Pow2[ty.size])
      BY <2>1, <2>3, <2>7 DEF Bounds
    <3>2. value = coerce_uint(ty.size, Decimal(n))
      BY <1>3, <2>5, <2>7, Results DEF coerce_scalar, Then
    <3>3. value = Ok([uint |-> n, size |-> ty.size])
      BY <2>6, <3>1, <3>2 DEF coerce_uint
    <3> QED BY <1>2, <3>3, Results DEF value, json
  <2>8. CASE ty.base = "int"
    <3>1. /\ n \in -Pow2[ty.size - 1] .. (Pow2[ty.size - 1] - 1)
          /\ n \in -Pow2[WORD_BITS - 1] .. (Pow2[WORD_BITS - 1] - 1)
      BY <2>1, <2>3, <2>8 DEF Bounds
    <3>2. value = coerce_int(ty.size, Decimal(n))
      BY <1>3, <2>5, <2>8, Results DEF coerce_scalar, Then
    <3>3. value = Ok([int |-> n, size |-> ty.size])
      BY <2>6, <3>1, <3>2 DEF coerce_int
    <3> QED BY <1>2, <3>3, Results DEF value, json
  <2> QED BY <1>5, <2>7, <2>8
<1>6. CASE ty.base = "bool"
  <2>1. "boolean" \in DOMAIN js
    BY <1>6 DEF Serves
  <2>2. AreBoolean(js, json)
    <3>1. ~ (AreNumber(js, json) \/ AreBig(js, json) \/ AreString(js, json) \/ AreOther(js, json))
      BY <2>1 DEF AreNumber, AreBig, AreString, AreOther
    <3>2. ~ (AreArray(js, json) \/ AreObject(js, json))
      BY <2>1 DEF AreArray, AreObject
    <3> QED BY <3>1, <3>2, Stringified DEF json
  <2>3. "bool" \in DOMAIN json
    BY <2>2 DEF AreBoolean
  <2>4. value = Ok([bool |-> json.bool])
    BY <1>3, <1>6, <2>3 DEF coerce_scalar
  <2> QED BY <1>2, <2>4, Results DEF value, json
<1>7. CASE ty.base = "string"
  <2>1. "string" \in DOMAIN js
    BY <1>7 DEF Serves
  <2>2. value = Ok([string |-> js.string])
    BY <1>3, <1>4, <1>7, <2>1, Results DEF coerce_scalar, Then
  <2> QED BY <1>2, <2>2, Results DEF value, json
<1>8. CASE ty.base = "address"
  <2>1. "string" \in DOMAIN js /\ IsStrictAddress(js.string)
    BY <1>8 DEF Serves
  <2>2. ~ IsErr(parse_viem_strict_address(js.string))
    BY <1>4, <2>1, StrictParsingIsViem, Results
  <2>3. Then(arg_to_str(json), parse_viem_strict_address) = parse_viem_strict_address(js.string)
    BY <1>4, <2>1, Results DEF Then
  <2>4. value = Ok([address |-> parse_viem_strict_address(js.string).ok])
    BY <1>3, <1>8, <2>2, <2>3 DEF coerce_scalar, Then
  <2> QED BY <1>2, <2>4, Results DEF value, json
<1>9. CASE ty.base \in {"bytes", "fixed"}
  <2>1. /\ "string" \in DOMAIN js /\ IsViemBytes(js.string)
        /\ ty.base = "fixed" => Len(js.string.digits) = 2 * ty.size
    BY <1>9 DEF Serves, IsViemBytes
  <2>2. decode_viem_hex(js.string) = Ok(Lower(js.string.digits))
    BY <1>4, <2>1, DecodeViemHexIsViem
  <2>3. Then(arg_to_str(json), decode_viem_hex) = Ok(Lower(js.string.digits))
    BY <1>4, <2>1, <2>2, Results DEF Then
  <2>4. CASE ty.base = "bytes"
    <3>1. value = Ok([bytes |-> Lower(js.string.digits)])
      BY <1>3, <2>3, <2>4, Results DEF coerce_scalar, Then
    <3> QED BY <1>2, <3>1, Results DEF value, json
  <2>5. CASE ty.base = "fixed"
    <3>1. value = coerce_fixed_bytes(ty.size, Lower(js.string.digits))
      BY <1>3, <2>3, <2>5, Results DEF coerce_scalar, Then
    <3>2. Len(Lower(js.string.digits)) = Len(js.string.digits)
      <4> DEFINE d == js.string.digits
      <4>1. js.string \in HexTexts
        BY <1>4, <2>1, OnlyHexHasDigits DEF IsViemBytes, IsHex
      <4>2. d \in Seq(HexDigits \cup {"z"})
        BY <4>1 DEF HexTexts
      <4>3. Len(d) \in Nat /\ DOMAIN d = 1 .. Len(d)
        BY <4>2
      <4> HIDE DEF d
      <4>4. Lower(d) = [i \in 1 .. Len(d) |-> Lower(d)[i]]
        BY <4>3 DEF Lower
      <4>5. Len(Lower(d)) = Len(d)
        BY <4>3, <4>4, Lengths
      <4> QED BY <4>5 DEF d
    <3>3. value = Ok([fixed |-> Lower(js.string.digits), size |-> ty.size])
      BY <2>1, <2>5, <3>1, <3>2 DEF coerce_fixed_bytes
    <3> QED BY <1>2, <3>3, Results DEF value, json
  <2> QED BY <1>9, <2>4, <2>5
<1>10. ty.base # "function"
  <2> SUFFICES ASSUME ty.base = "function" PROVE FALSE
    OBVIOUS
  <2> QED BY DEF Serves
<1> QED BY <1>1, <1>5, <1>6, <1>7, <1>8, <1>9, <1>10 DEF Bases

\* A call with one scalar argument viem would take, of a function that is the only one
\* of the ABI, is never handed over: for every scalar type of any width.
THEOREM ScalarArgumentsAreServed ==
    ASSUME PlainValues
    PROVE  Spec => []ScalarArgumentsServed
<1>1. Inv => ScalarArgumentsServed
  <2> DEFINE q == request
             inputs == q.viems.inputs
             param == inputs[1]
             json == richJsonStringify(q.args)
             rs == ValuesOf(q)
  <2> SUFFICES ASSUME Inv, HandedOver("encode"),
                      q.abi = [parses |-> TRUE, functions |-> <<q.viems>>],
                      q.name = q.viems.name, Len(inputs) = 1, param.ty.dims = << >>,
                      "array" \in DOMAIN q.args, Len(q.args.array) = 1,
                      Serves(param.ty, q.args.array[1])
               PROVE  FALSE
    BY DEF ScalarArgumentsServed
  <2>1. q \in Requests /\ q.op = "encode" /\ result = Encoded(q) /\ IsErr(result)
    BY AnswersAreOfTheCall DEF Returned
  <2>2. /\ IsErr(NativeEncoded(q)) /\ q.args \in JsValues
        /\ (ZeroWidth(inputs) <=> ZeroWidthAt(inputs))
    BY <2>1, CallsAssumption, AbiRequestsAssumption DEF AbiRequests
  <2>3. find_function(q.abi, q.name) = Ok(q.viems)
        /\ q.viems \in [name : STRING, inputs : Seq(Params), outputs : Seq(Params)]
    <3> DEFINE fs == q.abi.functions
               named == {j \in DOMAIN fs : fs[j].name = q.name}
    <3>1. fs = <<q.viems>> /\ DOMAIN fs = {1} /\ fs[1].name = q.name
      OBVIOUS
    <3>2. 1 \in DOMAIN fs /\ named = {1}
      BY <3>1
    <3> QED BY <2>1, <3>1, <3>2, FunctionFound
  <2>4. /\ inputs \in Seq(Params) /\ DOMAIN inputs = {1} /\ param \in Params
    <3>1. inputs \in Seq(Params)
      BY <2>3
    <3> QED BY <3>1
  <2>5. AreArray(q.args, json)
    <3>1. \/ AreNumber(q.args, json) \/ AreBig(q.args, json) \/ AreString(q.args, json)
          \/ AreBoolean(q.args, json) \/ AreArray(q.args, json) \/ AreObject(q.args, json)
          \/ AreOther(q.args, json)
      BY <2>2, <2>4, Stringified
    <3> DEFINE args == q.args
    <3>2. "array" \in DOMAIN args
      OBVIOUS
    <3> HIDE DEF json, args
    <3>3. ~ (AreNumber(args, json) \/ AreBig(args, json) \/ AreString(args, json))
      BY <3>2 DEF AreNumber, AreBig, AreString
    <3>4. ~ (AreBoolean(args, json) \/ AreObject(args, json) \/ AreOther(args, json))
      BY <3>2 DEF AreBoolean, AreObject, AreOther
    <3> QED BY <3>1, <3>3, <3>4 DEF args
  <2>6. /\ "arr" \in DOMAIN json /\ Len(json.arr) = 1
        /\ q.args.array[1] \in JsValues
        /\ json.arr[1] = richJsonStringify(q.args.array[1])
    <3> HIDE DEF json
    <3>1. q.args.array \in Seq(JsValues) /\ 1 \in DOMAIN q.args.array
      BY <2>5 DEF AreArray
    <3>2. q.args.array[1] \in JsValues
      BY <3>1
    <3> QED BY <2>5, <3>1, <3>2 DEF AreArray
  <2>7. IsScalar(param) /\ ~ IsErr(json_to_value(param, json.arr[1]))
    <3>1. IsScalar(param) /\ ~ IsErr(json_to_value(param, richJsonStringify(q.args.array[1])))
      BY <2>4, <2>6, ScalarsAreTaken
    <3> QED BY <2>6, <3>1
  <2>8. ~ IsErr(Collect(rs))
    <3>1. DOMAIN rs = 1 .. 1 /\ rs[1] = json_to_value(param, json.arr[1])
      BY <2>4 DEF ValuesOf
    <3>2. \A i \in 1 .. 1 : ~ IsErr(rs[i])
      BY <2>7, <3>1
    <3> HIDE DEF rs, json, param
    <3> QED BY <3>1, <3>2, Collected
  <2>9. ~ ZeroWidth(inputs)
    BY <2>2, <2>4, <2>7 DEF ZeroWidthAt, IsScalar
  <2>10. NativeEncoded(q) = Ok(CalldataOf(q, Collect(rs).ok))
    <3>1. q.abi.parses /\ ~ IsErr(find_function(q.abi, q.name))
      BY <2>3, Results
    <3> QED BY <2>1, <2>6, <2>8, <2>9, <3>1, NativeEncoding
  <2> QED BY <2>2, <2>10, Results
<1> QED BY <1>1, SpecInv, PTL

---------------------------------------------------------------------------
(* What was decoded comes back. *)

\* The native code reads in a safe integer what it wrote.
LEMMA IntegersAreReadBack ==
    ASSUME NEW n \in Int, NEW size \in Nat, ~ IsErr(int_to_json(n, size)),
           NEW json, json = int_to_json(n, size).ok
    PROVE  /\ \/ json = bigint_tag(n)
              \/ json = [num |-> n] /\ n \in Safe
           /\ arg_to_decimal(json) = Ok(Decimal(n))
<1>1. CASE size > JS_SAFE_INT_BITS
  <2>1. json = bigint_tag(n)
    BY <1>1, Results DEF int_to_json
  <2>2. /\ DOMAIN json = {"obj"} /\ BIGINT_TAG \in DOMAIN json.obj
        /\ json.obj[BIGINT_TAG] = [str |-> Decimal(n)]
    BY <2>1 DEF bigint_tag
  <2> QED BY <2>1, <2>2 DEF arg_to_decimal
<1>2. CASE ~ (size > JS_SAFE_INT_BITS)
  <2>1. n \in Safe /\ json = [num |-> n]
    BY <1>2, Results DEF int_to_json, Safe
  <2>2. n \in I64
    <3>1. I64_BITS - 1 \in 0 .. WORD_BITS /\ JS_MAX_SAFE_INTEGER \in Nat
      BY WidthsAssumption
    <3>2. Pow2[I64_BITS - 1] \in Nat \ {0}
      BY <3>1, Powers
    <3> QED BY <2>1, <3>1, <3>2, SafeIntegersAssumption DEF Safe, I64
  <2> QED BY <2>1, <2>2 DEF arg_to_decimal
<1> QED BY <1>1, <1>2

\* The text of a string, without its first byte order mark.
UnmarkedText(text) ==
    IF "bom" \in DOMAIN text /\ text.bom > 0 THEN [bom |-> text.bom - 1] ELSE text

\* The JSON of a scalar, by its type.
LEMMA ScalarJson ==
    ASSUME NEW param \in Params, NEW wire \in Wires(param), IsScalar(param),
           NEW p \in Params, p.components = param.components,
           ~ IsErr(value_to_json(p, DynValue(param, wire))),
           NEW json, json = value_to_json(p, DynValue(param, wire)).ok
    PROVE  LET ty == param.ty IN
           /\ ty.base \in {"uint", "int", "bool", "address", "bytes", "fixed", "string"}
           /\ ty.base \in {"uint", "int"} =>
                LET n == SignedWord(ty, wire) IN
                /\ wire \in [word : 0 .. (Pow2[WORD_BITS] - 1)] /\ n \in Int
                /\ json = bigint_tag(n) \/ (json = [num |-> n] /\ n \in Safe)
                /\ arg_to_decimal(json) = Ok(Decimal(n))
           /\ ty.base = "bool" =>
                /\ wire \in [word : 0 .. (Pow2[WORD_BITS] - 1)]
                /\ json = [bool |-> wire.word # 0]
           /\ ty.base = "address" =>
                wire \in [hex : Addresses] /\ json = [str |-> to_checksum(wire.hex)]
           /\ ty.base \in {"bytes", "fixed"} =>
                wire \in [hex : Bytes] /\ json = [str |-> bytes_to_hex(wire.hex)]
           /\ ty.base = "fixed" => Len(wire.hex) = 2 * ty.size
           /\ ty.base = "string" =>
                wire \in [text : Texts] /\ json = [str |-> UnmarkedText(wire.text)]
<1> DEFINE ty == param.ty
           value == DynValue(param, wire)
           result0 == value_to_json(p, value)
<1>1. result0 = value_to_json_at(p, value) /\ ~ IsErr(result0) /\ json = result0.ok
  BY OneLevel
<1>2. ty.base # "tuple" /\ ty.size \in Nat
  BY ParamsAssumption DEF IsScalar, Types
<1>3. CASE ty.base \in {"uint", "int"}
  <2> DEFINE n == SignedWord(ty, wire)
  <2>1. wire \in [word : 0 .. (Pow2[WORD_BITS] - 1)] /\ n \in Int
    BY <1>3, ScalarValues, SignedWordsAreIntegers
  <2>2. value = IF ty.base = "uint" THEN [uint |-> n, size |-> ty.size]
                                    ELSE [int |-> n, size |-> ty.size]
    BY <1>3, ScalarValues DEF SignedWord
  <2> HIDE DEF n, value
  <2>3. result0 = int_to_json(n, ty.size)
    BY <1>1, <1>3, <2>2 DEF value_to_json_at
  <2> HIDE DEF result0
  <2>4. /\ json = bigint_tag(n) \/ (json = [num |-> n] /\ n \in Safe)
        /\ arg_to_decimal(json) = Ok(Decimal(n))
    BY <1>1, <1>2, <2>1, <2>3, IntegersAreReadBack
  <2> QED BY <1>3, <2>1, <2>4 DEF n
<1>4. CASE ty.base = "bool"
  <2>1. wire \in [word : 0 .. (Pow2[WORD_BITS] - 1)] /\ value = [bool |-> wire.word # 0]
    BY <1>4, ScalarValues
  <2>2. json = [bool |-> wire.word # 0]
    BY <1>1, <2>1, Results DEF value_to_json_at
  <2> QED BY <1>4, <2>1, <2>2
<1>5. CASE ty.base = "address"
  <2>1. wire \in [hex : Addresses] /\ value = [address |-> wire.hex]
    BY <1>5, ScalarValues
  <2>2. json = [str |-> to_checksum(wire.hex)]
    BY <1>1, <2>1, Results DEF value_to_json_at
  <2> QED BY <1>5, <2>1, <2>2
<1>6. CASE ty.base = "bytes"
  <2>1. wire \in [hex : Bytes] /\ value = [bytes |-> wire.hex]
    BY <1>6, ScalarValues
  <2>2. json = [str |-> bytes_to_hex(wire.hex)]
    BY <1>1, <2>1, Results DEF value_to_json_at
  <2> QED BY <1>6, <2>1, <2>2
<1>7. CASE ty.base = "fixed"
  <2>1. /\ wire \in [hex : Bytes] /\ Len(wire.hex) = 2 * ty.size
        /\ value = [fixed |-> wire.hex, size |-> ty.size]
    BY <1>7, ScalarValues
  <2>2. json = [str |-> bytes_to_hex(wire.hex)]
    BY <1>1, <2>1, Results DEF value_to_json_at
  <2> QED BY <1>7, <2>1, <2>2
<1>8. CASE ty.base = "string"
  <2>1. wire \in [text : Texts] /\ value = [string |-> wire.text]
    BY <1>8, ScalarValues
  <2>2. json = [str |-> UnmarkedText(wire.text)]
    BY <1>1, <2>1, Results DEF value_to_json_at, UnmarkedText
  <2> QED BY <1>8, <2>1, <2>2
<1>9. CASE ty.base \notin {"uint", "int", "bool", "address", "bytes", "fixed", "string"}
  <2>1. value = [function |-> wire.hex]
    BY <1>2, <1>9, ScalarValues
  <2>2. IsErr(result0)
    BY <1>1, <2>1, Results DEF value_to_json_at
  <2> QED BY <1>1, <2>2
<1> QED BY <1>3, <1>4, <1>5, <1>6, <1>7, <1>8, <1>9

\* It is enough to look at one level.
LEMMA OneLevelBack ==
    ASSUME NEW param \in Params, NEW p \in Params, p.components = param.components,
           NEW wire \in Wires(param),
           ~ IsErr(value_to_json(p, DynValue(param, wire))),
           NEW json, json = value_to_json(p, DynValue(param, wire)).ok
    PROVE  LET js == richJsonParse(json)
               value == json_to_value(param, json)
           IN  /\ js = richJsonParseAt(json)
               /\ richJsonStringify(js) = richJsonStringifyAt(js)
               /\ value = json_to_value_at(param, json)
               /\ ~ IsErr(value) => Wire(value.ok) = WireAt(value.ok)
               /\ AsRead(param, wire) = AsReadAt(param, wire)
               /\ Canonical(param, wire) <=> CanonicalAt(param, wire)
  BY DecodingAssumption, ReencodingAssumption

\* A JSON value of one kind.
IsJson(json) ==
    \/ json \in [num : Safe] \cup [str : Texts] \cup [bool : BOOLEAN]
    \/ DOMAIN json \in {{"arr"}, {"obj"}}

\* The JSON of a wire value is the same once JavaScript parsed and stringified it.
Survives(param, wire) ==
    \A p \in Params : p.components = param.components =>
        LET json == value_to_json(p, DynValue(param, wire)) IN
        ~ IsErr(json) =>
            IsJson(json.ok) /\ richJsonStringify(richJsonParse(json.ok)) = json.ok

\* What is written of an address, of bytes and of a string is a text.
LEMMA WrittenTexts ==
    /\ \A address \in Addresses : to_checksum(address) \in Texts
    /\ \A bytes \in Bytes : bytes_to_hex(bytes) \in Texts
    /\ \A text \in Texts : UnmarkedText(text) \in Texts
<1> DEFINE D == HexDigits \cup {"z"}
<1>1. ASSUME NEW digits \in Seq(D) PROVE Hex(HEX_PREFIX, digits) \in Texts
  BY DEF Hex, Texts
<1>2. ASSUME NEW address \in Addresses PROVE to_checksum(address) \in Texts
  <2> DEFINE written == [i \in DOMAIN address |->
                           IF address[i] = "a" /\ i \in UpperAt[address] THEN "A"
                                                                       ELSE address[i]]
  <2>1. address \in Seq({"0", "a"})
    BY DEF Addresses
  <2>2. /\ Len(address) \in Nat /\ DOMAIN address = 1 .. Len(address)
        /\ \A i \in DOMAIN address : address[i] \in {"0", "a"}
    BY <2>1
  <2>3. written \in [1 .. Len(address) -> D]
    BY <2>2 DEF HexDigits
  <2>4. written \in Seq(D)
    <3> HIDE DEF written, D
    <3> QED BY <2>2, <2>3
  <2> QED BY <1>1, <2>4 DEF to_checksum
<1>3. ASSUME NEW bytes \in Bytes PROVE bytes_to_hex(bytes) \in Texts
  <2>1. bytes \in Seq(D)
    BY DEF Bytes, HexDigits
  <2> QED BY <1>1, <2>1 DEF bytes_to_hex
<1>4. ASSUME NEW text \in Texts PROVE UnmarkedText(text) \in Texts
  <2>1. "bom" \in DOMAIN text => text.bom \in Nat
    BY DEF Texts
  <2>2. ("bom" \in DOMAIN text /\ text.bom > 0) => text.bom - 1 \in Nat
    BY <2>1
  <2> QED BY <2>2 DEF UnmarkedText, Texts
<1> QED BY <1>2, <1>3, <1>4

\* The JSON of a scalar survives.
LEMMA ScalarsSurvive ==
    ASSUME NEW param \in Params, NEW wire \in Wires(param), IsScalar(param)
    PROVE  Survives(param, wire)
<1> SUFFICES ASSUME NEW p \in Params, p.components = param.components,
                    ~ IsErr(value_to_json(p, DynValue(param, wire))),
                    NEW json, json = value_to_json(p, DynValue(param, wire)).ok
             PROVE  IsJson(json) /\ richJsonStringify(richJsonParse(json)) = json
  BY DEF Survives
<1> DEFINE js == richJsonParse(json)
<1>1. js = richJsonParseAt(json) /\ richJsonStringify(js) = richJsonStringifyAt(js)
  BY OneLevelBack
<1> HIDE DEF js
<1>2. ASSUME NEW n \in Int, json = bigint_tag(n)
      PROVE  IsJson(json) /\ richJsonStringify(js) = json
  <2>1. DOMAIN json = {"obj"} /\ DOMAIN json.obj = {BIGINT_TAG}
        /\ json.obj[BIGINT_TAG] = [str |-> Decimal(n)]
    BY <1>2 DEF bigint_tag
  <2>2. "decimal" \in DOMAIN Decimal(n) /\ Decimal(n).decimal = n
    BY DEF Decimal
  <2>3. IsTag(json)
    BY <2>1, <2>2 DEF IsTag
  <2>4. js = [big |-> n]
    BY <1>1, <2>1, <2>2, <2>3 DEF richJsonParseAt
  <2>5. richJsonStringify(js) = bigint_tag(n)
    BY <1>1, <2>4 DEF richJsonStringifyAt
  <2> QED BY <1>2, <2>1, <2>5 DEF IsJson
<1>3. ASSUME NEW n \in Safe, json = [num |-> n]
      PROVE  IsJson(json) /\ richJsonStringify(js) = json
  <2>1. js = [number |-> n]
    BY <1>1, <1>3, SafeNumbersSurvive DEF richJsonParseAt
  <2>2. richJsonStringify(js) = [num |-> n]
    BY <1>1, <2>1, SafeNumbersSurvive DEF richJsonStringifyAt
  <2> QED BY <1>3, <2>2 DEF IsJson
<1>4. ASSUME NEW t \in Texts, json = [str |-> t]
      PROVE  IsJson(json) /\ richJsonStringify(js) = json
  <2>1. js = [string |-> t]
    BY <1>1, <1>4 DEF richJsonParseAt
  <2>2. richJsonStringify(js) = [str |-> t]
    BY <1>1, <2>1 DEF richJsonStringifyAt
  <2> QED BY <1>4, <2>2 DEF IsJson
<1>5. ASSUME NEW b \in BOOLEAN, json = [bool |-> b]
      PROVE  IsJson(json) /\ richJsonStringify(js) = json
  <2>1. js = [boolean |-> b]
    BY <1>1, <1>5 DEF richJsonParseAt
  <2>2. richJsonStringify(js) = [bool |-> b]
    BY <1>1, <2>1 DEF richJsonStringifyAt
  <2> QED BY <1>5, <2>2 DEF IsJson
<1> DEFINE ty == param.ty
<1>6. CASE ty.base \in {"uint", "int"}
  <2> DEFINE n == SignedWord(ty, wire)
  <2>1. n \in Int /\ (json = bigint_tag(n) \/ (json = [num |-> n] /\ n \in Safe))
    BY <1>6, ScalarJson
  <2> HIDE DEF n
  <2> QED BY <1>2, <1>3, <2>1 DEF js
<1>7. CASE ty.base = "bool"
  <2>1. json = [bool |-> wire.word # 0]
    BY <1>7, ScalarJson
  <2> DEFINE b == (wire.word # 0)
  <2>2. b \in BOOLEAN /\ json = [bool |-> b]
    BY <2>1
  <2> HIDE DEF b
  <2> QED BY <1>5, <2>2 DEF js
<1>8. CASE ty.base \in {"address", "bytes", "fixed", "string"}
  <2>1. \E t \in Texts : json = [str |-> t]
    <3>1. CASE ty.base = "address"
      BY <3>1, ScalarJson, WrittenTexts
    <3>2. CASE ty.base \in {"bytes", "fixed"}
      BY <3>2, ScalarJson, WrittenTexts
    <3>3. CASE ty.base = "string"
      BY <3>3, ScalarJson, WrittenTexts
    <3> QED BY <1>8, <3>1, <3>2, <3>3
  <2> QED BY <1>4, <2>1 DEF js
<1> QED BY <1>6, <1>7, <1>8, ScalarJson

\* An array's JSON, by the JSON of its elements.
LEMMA DecodedArray ==
    ASSUME NEW param \in Params, NEW wire \in Wires(param), param.ty.dims # << >>,
           NEW p \in Params, p.components = param.components,
           ~ IsErr(value_to_json(p, DynValue(param, wire))),
           NEW json, json = value_to_json(p, DynValue(param, wire)).ok,
           NEW n, n = Len(wire.items)
    PROVE  /\ n \in Nat /\ DOMAIN wire.items = 1 .. n
           /\ DOMAIN json = {"arr"} /\ DOMAIN json.arr = 1 .. n /\ Len(json.arr) = n
           /\ json = [arr |-> [i \in 1 .. n |-> json.arr[i]]]
           /\ \A i \in 1 .. n :
                LET item == value_to_json(p, DynValue(Element(param), wire.items[i])) IN
                /\ wire.items[i] \in Wires(Element(param))
                /\ ~ IsErr(item) /\ json.arr[i] = item.ok
<1> DEFINE element == Element(param)
           items == [i \in 1 .. n |-> DynValue(element, wire.items[i])]
           value == DynValue(param, wire)
           rs == [i \in 1 .. n |-> value_to_json(p, items[i])]
           shown == [i \in 1 .. n |-> rs[i].ok]
<1>1. value_to_json(p, value) = value_to_json_at(p, value) /\ ~ IsErr(value_to_json(p, value))
  BY OneLevel
<1>2. /\ n \in Nat /\ DOMAIN wire.items = 1 .. n
      /\ \A i \in 1 .. n : wire.items[i] \in Wires(element)
  BY ArrayItems
<1>3. value \in {[array |-> items], [fixedArray |-> items]}
  BY ArrayValues
<1>4. value_to_json(p, value) = Then(Collect(rs), LAMBDA j : Ok([arr |-> j]))
  <2>1. rs = [i \in DOMAIN items |-> value_to_json(p, items[i])]
    OBVIOUS
  <2> HIDE DEF items, value, rs
  <2> QED BY <1>1, <1>3, <2>1, ArrayJson
<1>5. ~ IsErr(Collect(rs)) /\ json = [arr |-> Collect(rs).ok]
  <2> HIDE DEF rs, value
  <2> QED BY <1>1, <1>4, Results DEF Then, value
<1>6. (\A i \in 1 .. n : ~ IsErr(rs[i])) /\ Collect(rs).ok = shown
  <2>1. DOMAIN rs = 1 .. n
    OBVIOUS
  <2> HIDE DEF rs
  <2> QED BY <1>2, <1>5, <2>1, Collected
<1>7. /\ shown = [i \in 1 .. n |-> shown[i]] /\ DOMAIN shown = 1 .. n
      /\ \A i \in 1 .. n : /\ shown[i] = rs[i].ok
                           /\ rs[i] = value_to_json(p, DynValue(element, wire.items[i]))
  OBVIOUS
<1>8. json = [arr |-> shown]
  BY <1>5, <1>6
<1> HIDE DEF shown, rs, element
<1>9. Len(shown) = n
  BY <1>2, <1>7, Lengths
<1>10. DOMAIN json = {"arr"} /\ json.arr = shown
  BY <1>8
<1> QED BY <1>2, <1>6, <1>7, <1>8, <1>9, <1>10 DEF element

\* Arrays survive, if their elements do.
LEMMA ArraysSurvive ==
    ASSUME NEW param \in Params, NEW wire \in Wires(param), param.ty.dims # << >>,
           \A w \in Wires(Element(param)) : Survives(Element(param), w)
    PROVE  Survives(param, wire)
<1> SUFFICES ASSUME NEW p \in Params, p.components = param.components,
                    ~ IsErr(value_to_json(p, DynValue(param, wire))),
                    NEW json, json = value_to_json(p, DynValue(param, wire)).ok
             PROVE  IsJson(json) /\ richJsonStringify(richJsonParse(json)) = json
  BY DEF Survives
<1> DEFINE js == richJsonParse(json)
           n == Len(wire.items)
           parsed == [i \in 1 .. n |-> richJsonParse(json.arr[i])]
<1>1. js = richJsonParseAt(json) /\ richJsonStringify(js) = richJsonStringifyAt(js)
  BY OneLevelBack
<1>2. /\ n \in Nat /\ DOMAIN json = {"arr"} /\ DOMAIN json.arr = 1 .. n
      /\ json = [arr |-> [i \in 1 .. n |-> json.arr[i]]]
      /\ \A i \in 1 .. n :
           LET item == value_to_json(p, DynValue(Element(param), wire.items[i])) IN
           /\ wire.items[i] \in Wires(Element(param))
           /\ ~ IsErr(item) /\ json.arr[i] = item.ok
  BY DecodedArray
<1>3. \A i \in 1 .. n : richJsonStringify(richJsonParse(json.arr[i])) = json.arr[i]
  <2>1. p.components = Element(param).components
    BY Elements
  <2> HIDE DEF n
  <2> QED BY <1>2, <2>1 DEF Survives
<1> HIDE DEF js, n
<1>4. js = [array |-> parsed]
  <2>1. parsed = [i \in DOMAIN json.arr |-> richJsonParse(json.arr[i])]
    BY <1>2
  <2> HIDE DEF parsed
  <2> QED BY <1>1, <1>2, <2>1 DEF richJsonParseAt
<1>5. richJsonStringify(js) = [arr |-> [i \in 1 .. n |-> richJsonStringify(parsed[i])]]
  <2>1. DOMAIN parsed = 1 .. n
    OBVIOUS
  <2> HIDE DEF parsed
  <2> QED BY <1>1, <1>4, <2>1 DEF richJsonStringifyAt
<1>6. [i \in 1 .. n |-> richJsonStringify(parsed[i])] = [i \in 1 .. n |-> json.arr[i]]
  BY <1>3
<1>7. richJsonStringify(js) = json
  <2> HIDE DEF parsed
  <2> QED BY <1>2, <1>5, <1>6
<1> QED BY <1>2, <1>7 DEF IsJson, js

\* The JSON of the fields of a tuple.
FieldsJson(param, wire) ==
    [i \in 1 .. Len(param.components) |->
       value_to_json(param.components[i], DynValue(param.components[i], wire.items[i])).ok]

\* A tuple's JSON, by the JSON of its fields.
LEMMA DecodedTuple ==
    ASSUME NEW param \in Params, NEW wire \in Wires(param),
           param.ty.dims = << >>, param.ty.base = "tuple",
           NEW p \in Params, p.components = param.components,
           ~ IsErr(value_to_json(p, DynValue(param, wire)))
    PROVE  LET n == Len(param.components) IN
           /\ n \in Nat /\ DOMAIN param.components = 1 .. n /\ DOMAIN wire.items = 1 .. n
           /\ value_to_json(p, DynValue(param, wire)).ok = Shown(param.components, FieldsJson(param, wire))
           /\ \A i \in 1 .. n :
                LET C == param.components[i] IN
                /\ C \in Params /\ wire.items[i] \in Wires(C)
                /\ ~ IsErr(value_to_json(C, DynValue(C, wire.items[i])))
<1> DEFINE C == param.components
           n == Len(C)
           fields == [i \in 1 .. n |-> DynValue(C[i], wire.items[i])]
           value == DynValue(param, wire)
           json == value_to_json(p, value).ok
           rs == [i \in 1 .. n |-> value_to_json(C[i], fields[i])]
           shown == [i \in 1 .. n |-> rs[i].ok]
<1>1. value_to_json(p, value) = value_to_json_at(p, value) /\ ~ IsErr(value_to_json(p, value))
  BY OneLevel
<1>2. /\ n \in Nat /\ DOMAIN C = 1 .. n /\ DOMAIN wire.items = 1 .. n
      /\ \A i \in 1 .. n : C[i] \in Params /\ wire.items[i] \in Wires(C[i])
  BY TupleItems
<1>3. value = [tuple |-> fields]
  BY TupleValues
<1>4. value_to_json(p, value) = FieldsToJson(C, fields)
  <2>1. DOMAIN value = {"tuple"} /\ value.tuple = fields
    BY <1>3
  <2> HIDE DEF value, fields
  <2> QED BY <1>1, <2>1 DEF value_to_json_at, FieldsToJson
<1>5. (\A i \in 1 .. n : ~ IsErr(rs[i])) /\ json = Shown(C, shown)
  <2>1. Len(fields) = n /\ DOMAIN fields = 1 .. n
    <3>1. fields = [i \in 1 .. n |-> fields[i]]
      OBVIOUS
    <3> HIDE DEF fields, n
    <3> QED BY <1>2, <3>1, Lengths
  <2>2. ~ IsErr(FieldsToJson(C, fields))
    BY <1>1, <1>4, Zenon
  <2>3. /\ rs = [i \in 1 .. n |-> rs[i]] /\ shown = [i \in 1 .. n |-> shown[i]]
        /\ \A i \in 1 .. n : rs[i] = value_to_json(C[i], fields[i]) /\ shown[i] = rs[i].ok
    OBVIOUS
  <2>4. n \in Nat /\ Len(C) = n /\ DOMAIN C = 1 .. n
    BY <1>2
  <2> HIDE DEF fields, rs, C, n, value, shown
  <2>5. /\ \A i \in 1 .. n : ~ IsErr(rs[i])
        /\ FieldsToJson(C, fields).ok = Shown(C, shown)
    BY <2>1, <2>2, <2>3, <2>4, TupleJson
  <2> QED BY <1>4, <2>5
<1>6. \A i \in 1 .. n : rs[i] = value_to_json(C[i], DynValue(C[i], wire.items[i]))
  OBVIOUS
<1>7. shown = FieldsJson(param, wire)
  BY DEF FieldsJson
<1> HIDE DEF rs, shown
<1> QED BY <1>2, <1>5, <1>6, <1>7

\* A name that is there has a last component.
LEMMA LastIsNamed ==
    ASSUME NEW components, NEW n \in Nat, Len(components) = n, DOMAIN components = 1 .. n,
           NEW key \in Names(components)
    PROVE  LastNamed(components, key) \in 1 .. n
<1> DEFINE IsLast(i) == /\ components[i].name = key
                        /\ \A k \in (i + 1) .. Len(components) : components[k].name # key
           S == {k \in 0 .. n : \A i \in (n - k + 1) .. n : components[i].name # key}
<1>1. PICK named \in 1 .. n : components[named].name = key
  BY DEF Names
<1>2. \E i \in DOMAIN components : IsLast(i)
  <2> SUFFICES ASSUME \A i \in DOMAIN components : ~ IsLast(i) PROVE FALSE
    OBVIOUS
  <2>1. 0 \in S
    OBVIOUS
  <2>2. ASSUME NEW k \in 1 .. n, k - 1 \in S PROVE k \in S
    <3> DEFINE i == n - k + 1
    <3>1. i \in 1 .. n /\ n - (k - 1) + 1 = i + 1
      OBVIOUS
    <3>2. \A j \in (i + 1) .. n : components[j].name # key
      BY <2>2, <3>1
    <3>3. components[i].name # key
      BY <3>1, <3>2
    <3>4. \A j \in i .. n : j = i \/ j \in (i + 1) .. n
      BY <3>1
    <3> QED BY <3>2, <3>3, <3>4
  <2>3. 0 .. n \subseteq S
    <3> HIDE DEF S
    <3> QED BY <2>1, <2>2, IntervalInduction
  <2>4. n \in S
    <3> HIDE DEF S
    <3> QED BY <2>3
  <2> QED BY <1>1, <2>4
<1>3. LastNamed(components, key) = CHOOSE i \in DOMAIN components : IsLast(i)
  BY DEF LastNamed
<1> HIDE DEF IsLast
<1> QED BY <1>2, <1>3

\* A row of values, shown as a tuple, survives if each value does.
LEMMA ShownSurvives ==
    ASSUME NEW components, NEW n \in Nat, Len(components) = n, DOMAIN components = 1 .. n,
           NEW items, DOMAIN items = 1 .. n, items = [i \in 1 .. n |-> items[i]],
           \A i \in 1 .. n :
             IsJson(items[i]) /\ richJsonStringify(richJsonParse(items[i])) = items[i],
           NEW json, json = Shown(components, items),
           NEW js, js = richJsonParseAt(json)
    PROVE  IsJson(json) /\ richJsonStringifyAt(js) = json
<1>1. CASE all_named(components)
  <2> DEFINE names == Names(components)
             fields == [key \in names |-> items[LastNamed(components, key)]]
  <2>1. json = [obj |-> fields] /\ DOMAIN fields = names
    BY <1>1 DEF Shown
  <2>2. /\ fields = [key \in names |-> fields[key]]
        /\ \A key \in names :
             IsJson(fields[key]) /\ richJsonStringify(richJsonParse(fields[key])) = fields[key]
    BY LastIsNamed
  <2> HIDE DEF fields, names
  <2>3. DOMAIN json = {"obj"} /\ json.obj = fields /\ IsJson(json)
    BY <2>1 DEF IsJson
  <2>4. CASE IsTag(json)
    <3> DEFINE it == fields[BIGINT_TAG]
    <3>1. names = {BIGINT_TAG} /\ "str" \in DOMAIN it /\ "decimal" \in DOMAIN it.str
      BY <2>1, <2>3, <2>4 DEF IsTag
    <3>2. IsJson(it)
      BY <2>2, <3>1
    <3>3. PICK t \in Texts : it = [str |-> t]
      <4> HIDE DEF it
      <4> QED BY <3>1, <3>2 DEF IsJson
    <3>4. t.decimal \in Int /\ t = Decimal(t.decimal)
      <4>1. "decimal" \in DOMAIN t
        <5> HIDE DEF it
        <5> QED BY <3>1, <3>3
      <4> QED BY <4>1 DEF Texts, Decimal
    <3>5. js = [big |-> t.decimal]
      BY <2>3, <2>4, <3>3 DEF richJsonParseAt
    <3>6. richJsonStringifyAt(js) = bigint_tag(t.decimal)
      BY <3>5 DEF richJsonStringifyAt
    <3>7. fields = [key \in {BIGINT_TAG} |-> [str |-> Decimal(t.decimal)]]
      BY <2>2, <3>1, <3>3, <3>4
    <3> QED BY <2>1, <2>3, <3>6, <3>7 DEF bigint_tag
  <2>5. CASE ~ IsTag(json)
    <3> DEFINE parsed == [key \in names |-> richJsonParse(fields[key])]
    <3>1. js = [object |-> parsed]
      <4>1. parsed = [key \in DOMAIN json.obj |-> richJsonParse(json.obj[key])]
        BY <2>1, <2>3
      <4> HIDE DEF parsed
      <4> QED BY <2>3, <2>5, <4>1 DEF richJsonParseAt
    <3>2. richJsonStringifyAt(js) = [obj |-> [key \in names |-> richJsonStringify(parsed[key])]]
      <4>1. DOMAIN parsed = names
        OBVIOUS
      <4> HIDE DEF parsed
      <4> QED BY <3>1, <4>1 DEF richJsonStringifyAt
    <3>3. [key \in names |-> richJsonStringify(parsed[key])] = [key \in names |-> fields[key]]
      BY <2>2
    <3> HIDE DEF parsed
    <3> QED BY <2>1, <2>2, <2>3, <3>2, <3>3
  <2> QED BY <2>4, <2>5
<1>2. CASE ~ all_named(components)
  <2> DEFINE parsed == [i \in 1 .. n |-> richJsonParse(items[i])]
  <2>1. json = [arr |-> items]
    BY <1>2 DEF Shown
  <2>2. DOMAIN json = {"arr"} /\ json.arr = items /\ IsJson(json)
    BY <2>1 DEF IsJson
  <2>3. js = [array |-> parsed]
    <3>1. parsed = [i \in DOMAIN json.arr |-> richJsonParse(json.arr[i])]
      BY <2>2
    <3> HIDE DEF parsed
    <3> QED BY <2>2, <3>1 DEF richJsonParseAt
  <2>4. richJsonStringifyAt(js) = [arr |-> [i \in 1 .. n |-> richJsonStringify(parsed[i])]]
    <3>1. DOMAIN parsed = 1 .. n
      OBVIOUS
    <3> HIDE DEF parsed
    <3>2. DOMAIN js = {"array"} /\ js.array = parsed
      BY <2>3
    <3> QED BY <3>1, <3>2 DEF richJsonStringifyAt
  <2>5. [i \in 1 .. n |-> richJsonStringify(parsed[i])] = items
    <3>1. \A i \in 1 .. n : richJsonStringify(parsed[i]) = items[i]
      OBVIOUS
    <3> HIDE DEF parsed
    <3> QED BY <3>1
  <2> HIDE DEF parsed
  <2> QED BY <2>1, <2>2, <2>4, <2>5
<1> QED BY <1>1, <1>2

\* Tuples survive, if their components do: an object that is nothing but the codec's
\* tag too.
LEMMA TuplesSurvive ==
    ASSUME NEW param \in Params, NEW wire \in Wires(param),
           param.ty.dims = << >>, param.ty.base = "tuple",
           \A i \in DOMAIN param.components : \A w \in Wires(param.components[i]) :
             Survives(param.components[i], w)
    PROVE  Survives(param, wire)
<1> SUFFICES ASSUME NEW p \in Params, p.components = param.components,
                    ~ IsErr(value_to_json(p, DynValue(param, wire)))
             PROVE  LET json == value_to_json(p, DynValue(param, wire)).ok IN
                    IsJson(json) /\ richJsonStringify(richJsonParse(json)) = json
  BY DEF Survives
<1> DEFINE C == param.components
           n == Len(C)
           items == FieldsJson(param, wire)
           json == value_to_json(p, DynValue(param, wire)).ok
           js == richJsonParse(json)
<1>1. js = richJsonParseAt(json) /\ richJsonStringify(js) = richJsonStringifyAt(js)
  BY OneLevelBack
<1>2. /\ n \in Nat /\ DOMAIN C = 1 .. n
      /\ json = Shown(C, items)
      /\ \A i \in 1 .. n : /\ C[i] \in Params /\ wire.items[i] \in Wires(C[i])
                           /\ ~ IsErr(value_to_json(C[i], DynValue(C[i], wire.items[i])))
  BY DecodedTuple
<1>3. /\ DOMAIN items = 1 .. n /\ items = [i \in 1 .. n |-> items[i]]
      /\ \A i \in 1 .. n : items[i] = value_to_json(C[i], DynValue(C[i], wire.items[i])).ok
  BY DEF FieldsJson
<1>4. ASSUME NEW i \in 1 .. n
      PROVE  IsJson(items[i]) /\ richJsonStringify(richJsonParse(items[i])) = items[i]
  <2>1. Survives(C[i], wire.items[i])
    BY <1>2
  <2> HIDE DEF items, n, C
  <2> QED BY <1>2, <1>3, <2>1 DEF Survives
<1> HIDE DEF items, n, json, js, C
<1>5. IsJson(json) /\ richJsonStringifyAt(js) = json
  BY <1>1, <1>2, <1>3, <1>4, ShownSurvives DEF n
<1> QED BY <1>1, <1>5 DEF json, js

\* However deep it nests, what is decoded survives.
LEMMA JsonSurvives == \A param \in Params : \A wire \in Wires(param) : Survives(param, wire)
<1> DEFINE S == {param \in Params : \A wire \in Wires(param) : Survives(param, wire)}
<1>1. ASSUME NEW param \in Params,
             param.ty.dims # << >> => Element(param) \in S,
             \A i \in DOMAIN param.components : param.components[i] \in S,
             NEW wire \in Wires(param)
      PROVE  Survives(param, wire)
  <2>1. CASE param.ty.dims # << >>
    BY <1>1, <2>1, ArraysSurvive
  <2>2. CASE param.ty.dims = << >> /\ param.ty.base = "tuple"
    BY <1>1, <2>2, TuplesSurvive
  <2>3. CASE IsScalar(param)
    BY <2>3, ScalarsSurvive
  <2> QED BY <2>1, <2>2, <2>3 DEF IsScalar
<1>2. Params \subseteq S
  <2>1. \A param \in Params :
          /\ param.ty.dims # << >> => Element(param) \in S
          /\ \A i \in DOMAIN param.components : param.components[i] \in S
          => param \in S
    BY <1>1
  <2> HIDE DEF S
  <2> QED BY <2>1, NestingInduction
<1> QED BY <1>2

\* No tuple in a parameter repeats a name.
NamesApart(param) ==
    /\ DistinctNames(param.components)
    /\ \A j, k \in DOMAIN param.components :
         (j # k /\ param.components[j].name = param.components[k].name)
           => param.components[j].name = Unnamed

\* The native code puts back what it read in a wire value, given the JSON it wrote of it; it
\* declines none that is canonical.
ReadBack(param, wire) ==
    NamesApart(param) =>
    \A p \in Params : p.components = param.components =>
        LET json == value_to_json(p, DynValue(param, wire))
            value == json_to_value(param, json.ok)
        IN  ~ IsErr(json) =>
              IF IsErr(value) THEN ~ Canonical(param, wire)
                              ELSE Wire(value.ok) = AsRead(param, wire)

\* Integers.
LEMMA IntegersReadBack ==
    ASSUME NEW ty, ty.base \in {"uint", "int"}, ty.size \in 1 .. WORD_BITS,
           NEW wire \in [word : 0 .. (Pow2[WORD_BITS] - 1)],
           NEW n, n = SignedWord(ty, wire),
           NEW json, arg_to_decimal(json) = Ok(Decimal(n)),
           NEW value, value = coerce_scalar(ty, json)
    PROVE  IF n \in Bounds(ty)
           THEN ~ IsErr(value) /\ WireAt(value.ok) = wire
           ELSE IsErr(value)
<1>1. /\ WORD_BITS \in 0 .. WORD_BITS /\ WORD_BITS - 1 \in 0 .. WORD_BITS
      /\ ty.size \in 0 .. WORD_BITS /\ ty.size - 1 \in 0 .. WORD_BITS
      /\ WORD_BITS \in 1 .. WORD_BITS
  BY WidthsAssumption
<1>2. /\ Pow2[WORD_BITS] \in Nat /\ Pow2[WORD_BITS - 1] \in Nat
      /\ Pow2[WORD_BITS] = 2 * Pow2[WORD_BITS - 1]
      /\ Pow2[ty.size] \in Nat /\ Pow2[ty.size - 1] \in Nat
  BY <1>1, Powers
<1>3. wire = [word |-> wire.word] /\ wire.word \in 0 .. (Pow2[WORD_BITS] - 1)
  OBVIOUS
<1>4. /\ Parsed10(Decimal(n)) = n
      /\ \A range : FitsWord(Decimal(n), range) <=> n \in range
  BY DecimalsAreParsed
<1>5. CASE ty.base = "uint"
  <2>1. n = wire.word
    BY <1>5 DEF SignedWord
  <2>2. value = coerce_uint(ty.size, Decimal(n))
    BY <1>5, Results DEF coerce_scalar, Then
  <2>3. value = IF n >= Pow2[ty.size] THEN Err("IntegerOutOfRange")
                                      ELSE Ok([uint |-> n, size |-> ty.size])
    BY <1>3, <1>4, <2>1, <2>2 DEF coerce_uint
  <2>4. n \in Bounds(ty) <=> ~ (n >= Pow2[ty.size])
    BY <1>2, <1>3, <1>5, <2>1 DEF Bounds
  <2>5. WireAt([uint |-> n, size |-> ty.size]) = [word |-> n]
    BY DEF WireAt
  <2> QED BY <1>3, <2>1, <2>3, <2>4, <2>5, Results
<1>6. CASE ty.base = "int"
  <2>1. n = IF wire.word >= Pow2[WORD_BITS - 1] THEN wire.word - Pow2[WORD_BITS]
                                                ELSE wire.word
    BY <1>6 DEF SignedWord
  <2>2. n \in -Pow2[WORD_BITS - 1] .. (Pow2[WORD_BITS - 1] - 1)
    BY <1>2, <1>3, <2>1
  <2>3. value = coerce_int(ty.size, Decimal(n))
    BY <1>6, Results DEF coerce_scalar, Then
  <2>4. value = IF n \notin Bounds(ty) THEN Err("IntegerOutOfRange")
                                       ELSE Ok([int |-> n, size |-> ty.size])
    <3>1. Bounds(ty) = -Pow2[ty.size - 1] .. (Pow2[ty.size - 1] - 1)
      BY <1>6 DEF Bounds
    <3>2. FitsWord(Decimal(n), -Pow2[WORD_BITS - 1] .. (Pow2[WORD_BITS - 1] - 1))
      BY <1>4, <2>2
    <3> QED BY <1>4, <2>3, <3>1, <3>2 DEF coerce_int
  <2>5. WireAt([int |-> n, size |-> ty.size]) = [word |-> IF n < 0 THEN n + Pow2[WORD_BITS] ELSE n]
    BY DEF WireAt
  <2>6. (IF n < 0 THEN n + Pow2[WORD_BITS] ELSE n) = wire.word
    BY <1>2, <1>3, <2>1
  <2> QED BY <1>3, <2>4, <2>5, <2>6, Results
<1> QED BY <1>5, <1>6

\* Scalars.
LEMMA ScalarsReadBack ==
    ASSUME NEW param \in Params, NEW wire \in Wires(param), IsScalar(param)
    PROVE  ReadBack(param, wire)
<1> SUFFICES ASSUME NEW p \in Params, p.components = param.components,
                    ~ IsErr(value_to_json(p, DynValue(param, wire))),
                    NEW json, json = value_to_json(p, DynValue(param, wire)).ok
             PROVE  LET value == json_to_value(param, json) IN
                    IF IsErr(value) THEN ~ Canonical(param, wire)
                                    ELSE Wire(value.ok) = AsRead(param, wire)
  BY DEF ReadBack
<1> DEFINE ty == param.ty
           value == json_to_value(param, json)
<1>1. /\ value = json_to_value_at(param, json)
      /\ ~ IsErr(value) => Wire(value.ok) = WireAt(value.ok)
      /\ AsRead(param, wire) = AsReadAt(param, wire)
      /\ Canonical(param, wire) <=> CanonicalAt(param, wire)
  BY OneLevelBack
<1>2. ty.dims = << >> /\ ty.base # "tuple" /\ value = coerce_scalar(ty, json)
  BY <1>1, NoElements DEF IsScalar, IsTuple, json_to_value_at
<1> HIDE DEF value
<1> SUFFICES IF IsErr(value) THEN ~ Canonical(param, wire)
                             ELSE WireAt(value.ok) = AsReadAt(param, wire)
  BY <1>1 DEF value
<1>3. CASE ty.base \in {"uint", "int"}
  <2> DEFINE n == SignedWord(ty, wire)
  <2>1. wire \in [word : 0 .. (Pow2[WORD_BITS] - 1)] /\ arg_to_decimal(json) = Ok(Decimal(n))
    BY <1>3, ScalarJson
  <2>2. ty.size \in 1 .. WORD_BITS
    BY <1>3, ParamsAssumption
  <2>3. CanonicalAt(param, wire) <=> n \in Bounds(ty)
    BY <1>2, <1>3 DEF CanonicalAt
  <2>4. AsReadAt(param, wire) = wire
    BY <1>2, <1>3 DEF AsReadAt
  <2> HIDE DEF n
  <2>5. IF n \in Bounds(ty) THEN ~ IsErr(value) /\ WireAt(value.ok) = wire ELSE IsErr(value)
    BY <1>2, <1>3, <2>1, <2>2, IntegersReadBack DEF n
  <2> QED BY <1>1, <2>3, <2>4, <2>5
<1>4. CASE ty.base = "bool"
  <2>1. json = [bool |-> wire.word # 0]
    BY <1>4, ScalarJson
  <2>2. value = Ok([bool |-> wire.word # 0])
    BY <1>2, <1>4, <2>1 DEF coerce_scalar
  <2>3. WireAt([bool |-> wire.word # 0]) = [word |-> IF wire.word # 0 THEN 1 ELSE 0]
    BY DEF WireAt
  <2>4. AsReadAt(param, wire) = [word |-> IF wire.word # 0 THEN 1 ELSE 0]
    BY <1>2, <1>4 DEF AsReadAt
  <2> QED BY <2>2, <2>3, <2>4, Results
<1>5. CASE ty.base = "address"
  <2> DEFINE text == to_checksum(wire.hex)
  <2>1. wire \in [hex : Addresses] /\ json = [str |-> text]
    BY <1>5, ScalarJson
  <2>2. text \in Texts /\ IsChecksumOf(text, wire.hex)
    BY <2>1, WrittenTexts, ChecksumsAreSound
  <2> HIDE DEF text
  <2>3. Lower(text.digits) = wire.hex /\ IsStrictAddress(text)
    BY <2>2 DEF IsChecksumOf, IsStrictAddress
  <2>4. parse_viem_strict_address(text) = Ok(wire.hex)
    BY <2>2, <2>3, StrictParsingIsViem
  <2>5. arg_to_str(json) = Ok(text)
    BY <2>1 DEF arg_to_str
  <2>6. value = Ok([address |-> wire.hex])
    BY <1>2, <1>5, <2>4, <2>5, Results DEF coerce_scalar, Then
  <2>7. WireAt([address |-> wire.hex]) = [hex |-> wire.hex]
    BY DEF WireAt
  <2>8. AsReadAt(param, wire) = wire /\ wire = [hex |-> wire.hex]
    BY <1>2, <1>5, <2>1 DEF AsReadAt
  <2> QED BY <2>6, <2>7, <2>8, Results
<1>6. CASE ty.base \in {"bytes", "fixed"}
  <2>1. /\ wire \in [hex : Bytes] /\ json = [str |-> bytes_to_hex(wire.hex)]
        /\ ty.base = "fixed" => Len(wire.hex) = 2 * ty.size
    BY <1>6, ScalarJson
  <2>2. arg_to_str(json) = Ok(bytes_to_hex(wire.hex))
    BY <2>1 DEF arg_to_str
  <2>3. Then(arg_to_str(json), decode_viem_hex) = Ok(wire.hex)
    BY <2>1, <2>2, BytesComeBack, Results DEF Then
  <2>4. value \in {Ok([bytes |-> wire.hex]), Ok([fixed |-> wire.hex, size |-> ty.size])}
    <3>1. CASE ty.base = "bytes"
      BY <1>2, <2>3, <3>1, Results DEF coerce_scalar, Then
    <3>2. CASE ty.base = "fixed"
      <4>1. value = coerce_fixed_bytes(ty.size, wire.hex)
        BY <1>2, <2>3, <3>2, Results DEF coerce_scalar, Then
      <4> QED BY <2>1, <3>2, <4>1 DEF coerce_fixed_bytes
    <3> QED BY <1>6, <3>1, <3>2
  <2>5. /\ WireAt([bytes |-> wire.hex]) = [hex |-> wire.hex]
        /\ WireAt([fixed |-> wire.hex, size |-> ty.size]) = [hex |-> wire.hex]
    BY DEF WireAt
  <2>6. AsReadAt(param, wire) = wire /\ wire = [hex |-> wire.hex]
    BY <1>2, <1>6, <2>1 DEF AsReadAt
  <2> QED BY <2>4, <2>5, <2>6, Results
<1>7. CASE ty.base = "string"
  <2> DEFINE text == UnmarkedText(wire.text)
  <2>1. wire \in [text : Texts] /\ json = [str |-> text]
    BY <1>7, ScalarJson
  <2>2. AsReadAt(param, wire) = [text |-> text]
    BY <1>2, <1>7 DEF AsReadAt, UnmarkedText
  <2> HIDE DEF text
  <2>3. arg_to_str(json) = Ok(text)
    BY <2>1 DEF arg_to_str
  <2>4. value = Ok([string |-> text])
    BY <1>2, <1>7, <2>3, Results DEF coerce_scalar, Then
  <2>5. WireAt([string |-> text]) = [text |-> text]
    BY DEF WireAt
  <2> QED BY <2>2, <2>4, <2>5, Results
<1> QED BY <1>3, <1>4, <1>5, <1>6, <1>7, ScalarJson

\* Arrays are read back, if their elements are.
LEMMA ArraysReadBack ==
    ASSUME NEW param \in Params, NEW wire \in Wires(param), param.ty.dims # << >>,
           \A w \in Wires(Element(param)) : ReadBack(Element(param), w)
    PROVE  ReadBack(param, wire)
<1> SUFFICES ASSUME NamesApart(param), NEW p \in Params, p.components = param.components,
                    ~ IsErr(value_to_json(p, DynValue(param, wire))),
                    NEW json, json = value_to_json(p, DynValue(param, wire)).ok
             PROVE  LET value == json_to_value(param, json) IN
                    IF IsErr(value) THEN ~ Canonical(param, wire)
                                    ELSE Wire(value.ok) = AsRead(param, wire)
  BY DEF ReadBack
<1> DEFINE element == Element(param)
           value == json_to_value(param, json)
           n == Len(wire.items)
           rs == [i \in 1 .. n |-> json_to_value(element, json.arr[i])]
           items == [i \in 1 .. n |-> rs[i].ok]
           last == Last(param.ty.dims)
<1>1. /\ value = json_to_value_at(param, json)
      /\ ~ IsErr(value) => Wire(value.ok) = WireAt(value.ok)
      /\ AsRead(param, wire) = AsReadAt(param, wire)
      /\ Canonical(param, wire) <=> CanonicalAt(param, wire)
  BY OneLevelBack
<1>2. /\ split_array_type(param.ty) # << >> /\ split_array_type(param.ty)[2] = last
      /\ ElementParam(param) = element /\ element \in Params
      /\ element.components = param.components
  BY Elements
<1>3. /\ n \in Nat /\ DOMAIN wire.items = 1 .. n
      /\ DOMAIN json = {"arr"} /\ DOMAIN json.arr = 1 .. n /\ Len(json.arr) = n
      /\ \A i \in 1 .. n :
           LET item == value_to_json(p, DynValue(element, wire.items[i])) IN
           /\ wire.items[i] \in Wires(element)
           /\ ~ IsErr(item) /\ json.arr[i] = item.ok
  BY DecodedArray
<1>4. wire \in [items : Seq(Wires(element))] /\ last \in {Dynamic, n}
  BY WiresAssumption
<1>5. value = IF IsErr(Collect(rs)) THEN Collect(rs)
              ELSE IF last = Dynamic THEN Ok([array |-> Collect(rs).ok])
                                     ELSE Ok([fixedArray |-> Collect(rs).ok])
  <2>1. rs = [i \in DOMAIN json.arr |-> json_to_value(element, json.arr[i])]
    BY <1>3
  <2> HIDE DEF last, element, rs, n
  <2> QED BY <1>1, <1>2, <1>3, <1>4, <2>1 DEF json_to_value_at, Then
<1>6. ASSUME NEW i \in 1 .. n
      PROVE  IF IsErr(rs[i]) THEN ~ Canonical(element, wire.items[i])
                             ELSE Wire(items[i]) = AsRead(element, wire.items[i])
  <2>1. ReadBack(element, wire.items[i]) /\ NamesApart(element)
    BY <1>2, <1>3 DEF NamesApart
  <2>2. rs[i] = json_to_value(element, value_to_json(p, DynValue(element, wire.items[i])).ok)
        /\ items[i] = rs[i].ok
    BY <1>3
  <2> HIDE DEF rs, items, element, n
  <2> QED BY <1>2, <1>3, <2>1, <2>2 DEF ReadBack
<1>7. /\ (\A i \in 1 .. n : ~ IsErr(rs[i])) =>
           ~ IsErr(Collect(rs)) /\ Collect(rs).ok = items
      /\ ~ IsErr(Collect(rs)) => \A i \in 1 .. n : ~ IsErr(rs[i])
  <2>1. DOMAIN rs = 1 .. n
    OBVIOUS
  <2> HIDE DEF rs, n
  <2> QED BY <1>3, <2>1, Collected
<1> HIDE DEF value, rs
<1>8. CASE IsErr(Collect(rs))
  <2>1. IsErr(value)
    BY <1>5, <1>8
  <2>2. PICK i \in 1 .. n : IsErr(rs[i])
    BY <1>7, <1>8
  <2>3. i \in DOMAIN wire.items /\ ~ Canonical(Element(param), wire.items[i])
    BY <1>3, <1>6, <2>2
  <2>4. ~ CanonicalAt(param, wire)
    BY <2>3 DEF CanonicalAt
  <2> QED BY <1>1, <2>1, <2>4 DEF value
<1>9. CASE ~ IsErr(Collect(rs))
  <2>1. Collect(rs).ok = items /\ \A i \in 1 .. n : ~ IsErr(rs[i])
    BY <1>7, <1>9
  <2>2. ~ IsErr(value) /\ value.ok \in {[array |-> items], [fixedArray |-> items], [tuple |-> items]}
    <3> HIDE DEF items, last
    <3> QED BY <1>5, <1>9, <2>1, Results
  <2>3. WireAt(value.ok) = [items |-> [i \in 1 .. n |-> Wire(items[i])]]
    <3>1. DOMAIN items = 1 .. n
      OBVIOUS
    <3> HIDE DEF items, n
    <3> QED BY <1>3, <2>2, <3>1, ArrayWires
  <2>4. \A i \in 1 .. n : Wire(items[i]) = AsRead(element, wire.items[i])
    BY <1>6, <2>1
  <2>5. AsReadAt(param, wire) = [items |-> [i \in 1 .. n |-> AsRead(element, wire.items[i])]]
    BY <1>3 DEF AsReadAt
  <2> HIDE DEF items, n
  <2> QED BY <1>1, <2>2, <2>3, <2>4, <2>5 DEF value
<1> QED BY <1>8, <1>9

\* The native code finds every field of a tuple it showed.
LEMMA ShownFields ==
    ASSUME NEW components, NEW n \in Nat, Len(components) = n, DOMAIN components = 1 .. n,
           \A j, k \in 1 .. n : (j # k /\ components[j].name = components[k].name)
                                  => components[j].name = Unnamed,
           NEW items, DOMAIN items = 1 .. n, Len(items) = n
    PROVE  FieldsOf(components, Shown(components, items))
             = Collect([i \in 1 .. n |-> json_to_value(components[i], items[i])])
<1> DEFINE json == Shown(components, items)
           rs == [i \in 1 .. n |-> json_to_value(components[i], items[i])]
<1>1. CASE all_named(components)
  <2> DEFINE fields == [key \in Names(components) |-> items[LastNamed(components, key)]]
             read == [i \in 1 .. n |->
                        IF components[i].name \in DOMAIN fields
                        THEN json_to_value(components[i], fields[components[i].name])
                        ELSE Err("InvalidArgument")]
  <2>1. json = [obj |-> fields]
    BY <1>1 DEF Shown
  <2>2. ASSUME NEW i \in 1 .. n
        PROVE  components[i].name \in DOMAIN fields /\ fields[components[i].name] = items[i]
    <3>1. components[i].name \in Names(components) /\ components[i].name # Unnamed
      BY <1>1 DEF Names, all_named
    <3>2. \A j \in (i + 1) .. n : j \in 1 .. n /\ j # i
      OBVIOUS
    <3>3. \A j \in (i + 1) .. n : components[j].name # components[i].name
      BY <3>1, <3>2
    <3>4. LastNamed(components, components[i].name) = i
      BY <3>3, LastOfItsName
    <3> QED BY <3>1, <3>4
  <2>3. \A i \in 1 .. n : read[i] = rs[i]
    <3> HIDE DEF fields
    <3> QED BY <2>2
  <2>4. read = rs
    <3>1. read = [i \in 1 .. n |-> read[i]]
      OBVIOUS
    <3> HIDE DEF read
    <3> QED BY <2>3, <3>1
  <2>5. DOMAIN json = {"obj"} /\ json.obj = fields
    BY <2>1
  <2>6. FieldsOf(components, json) = Collect(read)
    <3>1. read = [i \in DOMAIN components |->
                    IF components[i].name \in DOMAIN json.obj
                    THEN json_to_value(components[i], json.obj[components[i].name])
                    ELSE Err("InvalidArgument")]
      BY <2>5
    <3> HIDE DEF read, fields, json
    <3> QED BY <2>5, <3>1 DEF FieldsOf, TupleFields
  <2> HIDE DEF read
  <2> QED BY <2>4, <2>6
<1>2. CASE ~ all_named(components)
  <2>1. json = [arr |-> items]
    BY <1>2 DEF Shown
  <2>2. DOMAIN json = {"arr"} /\ json.arr = items
    BY <2>1
  <2>3. rs = [i \in DOMAIN components |-> json_to_value(components[i], json.arr[i])]
    BY <2>2
  <2> HIDE DEF json
  <2>4. FieldsOf(components, json) = Collect(rs)
    BY <2>2, <2>3 DEF FieldsOf, TupleFields
  <2> QED BY <2>4 DEF json
<1> QED BY <1>1, <1>2

\* Tuples are read back, if their components are.
LEMMA TuplesReadBack ==
    ASSUME NEW param \in Params, NEW wire \in Wires(param),
           param.ty.dims = << >>, param.ty.base = "tuple",
           \A i \in DOMAIN param.components : \A w \in Wires(param.components[i]) :
             ReadBack(param.components[i], w)
    PROVE  ReadBack(param, wire)
<1> SUFFICES ASSUME NamesApart(param), NEW p \in Params, p.components = param.components,
                    ~ IsErr(value_to_json(p, DynValue(param, wire)))
             PROVE  LET value == json_to_value(param,
                                   value_to_json(p, DynValue(param, wire)).ok) IN
                    IF IsErr(value) THEN ~ Canonical(param, wire)
                                    ELSE Wire(value.ok) = AsRead(param, wire)
  BY DEF ReadBack
<1> DEFINE C == param.components
           n == Len(C)
           shown == FieldsJson(param, wire)
           json == value_to_json(p, DynValue(param, wire)).ok
           value == json_to_value(param, json)
           rs == [i \in 1 .. n |-> json_to_value(C[i], shown[i])]
           items == [i \in 1 .. n |-> rs[i].ok]
<1>1. /\ value = json_to_value_at(param, json)
      /\ ~ IsErr(value) => Wire(value.ok) = WireAt(value.ok)
      /\ AsRead(param, wire) = AsReadAt(param, wire)
      /\ Canonical(param, wire) <=> CanonicalAt(param, wire)
  BY OneLevelBack
<1>2. /\ n \in Nat /\ DOMAIN C = 1 .. n /\ DOMAIN wire.items = 1 .. n
      /\ json = Shown(C, shown)
      /\ \A i \in 1 .. n : /\ C[i] \in Params /\ wire.items[i] \in Wires(C[i])
                           /\ ~ IsErr(value_to_json(C[i], DynValue(C[i], wire.items[i])))
  BY DecodedTuple
<1>3. /\ DOMAIN shown = 1 .. n /\ shown = [i \in 1 .. n |-> shown[i]]
      /\ \A i \in 1 .. n : shown[i] = value_to_json(C[i], DynValue(C[i], wire.items[i])).ok
  BY DEF FieldsJson
<1>4. Len(shown) = n
  <2> HIDE DEF shown, n
  <2> QED BY <1>2, <1>3, Lengths
<1>5. value = IF IsErr(Collect(rs)) THEN Collect(rs) ELSE Ok([tuple |-> Collect(rs).ok])
  <2>1. split_array_type(param.ty) = << >> /\ IsTuple(param.ty)
    BY NoElements DEF IsTuple
  <2>2. FieldsOf(C, Shown(C, shown)) = Collect(rs)
    <3>1. \A j, k \in 1 .. n : (j # k /\ C[j].name = C[k].name) => C[j].name = Unnamed
      BY <1>2 DEF NamesApart
    <3>2. Len(C) = n /\ n \in Nat /\ DOMAIN C = 1 .. n
      BY <1>2
    <3>3. DOMAIN shown = 1 .. n
      BY <1>3
    <3> HIDE DEF shown, n, C, json, value
    <3> QED BY <1>4, <3>1, <3>2, <3>3, ShownFields
  <2> HIDE DEF rs, json, value, shown
  <2> QED BY <1>1, <1>2, <2>1, <2>2 DEF json_to_value_at, Then, FieldsOf
<1>6. ASSUME NEW i \in 1 .. n
      PROVE  IF IsErr(rs[i]) THEN ~ Canonical(C[i], wire.items[i])
                             ELSE Wire(items[i]) = AsRead(C[i], wire.items[i])
  <2>1. \A j \in DOMAIN C : NamesApart(C[j])
    BY ComponentsAssumption DEF NamesApart, DistinctNamesAt
  <2>2. ReadBack(C[i], wire.items[i]) /\ NamesApart(C[i])
    BY <1>2, <2>1
  <2>3. rs[i] = json_to_value(C[i], value_to_json(C[i], DynValue(C[i], wire.items[i])).ok)
        /\ items[i] = rs[i].ok
    BY <1>3
  <2> HIDE DEF rs, items, n, C
  <2> QED BY <1>2, <2>2, <2>3 DEF ReadBack
<1>7. /\ (\A i \in 1 .. n : ~ IsErr(rs[i])) =>
           ~ IsErr(Collect(rs)) /\ Collect(rs).ok = items
      /\ ~ IsErr(Collect(rs)) => \A i \in 1 .. n : ~ IsErr(rs[i])
  <2>1. DOMAIN rs = 1 .. n
    OBVIOUS
  <2> HIDE DEF rs, n
  <2> QED BY <1>2, <2>1, Collected
<1> HIDE DEF value, rs
<1>8. CASE IsErr(Collect(rs))
  <2>1. IsErr(value)
    BY <1>5, <1>8
  <2>2. PICK i \in 1 .. n : IsErr(rs[i])
    BY <1>7, <1>8
  <2>3. i \in DOMAIN wire.items /\ ~ Canonical(param.components[i], wire.items[i])
    BY <1>2, <1>6, <2>2
  <2>4. ~ CanonicalAt(param, wire)
    BY <2>3 DEF CanonicalAt
  <2> QED BY <1>1, <2>1, <2>4 DEF value
<1>9. CASE ~ IsErr(Collect(rs))
  <2>1. Collect(rs).ok = items /\ \A i \in 1 .. n : ~ IsErr(rs[i])
    BY <1>7, <1>9
  <2>2. ~ IsErr(value) /\ value.ok \in {[array |-> items], [fixedArray |-> items], [tuple |-> items]}
    <3> HIDE DEF items
    <3> QED BY <1>5, <1>9, <2>1, Results
  <2>3. WireAt(value.ok) = [items |-> [i \in 1 .. n |-> Wire(items[i])]]
    <3>1. DOMAIN items = 1 .. n
      OBVIOUS
    <3> HIDE DEF items, n
    <3> QED BY <1>2, <2>2, <3>1, ArrayWires
  <2>4. \A i \in 1 .. n : Wire(items[i]) = AsRead(C[i], wire.items[i])
    BY <1>6, <2>1
  <2>5. AsReadAt(param, wire) = [items |-> [i \in 1 .. n |-> AsRead(C[i], wire.items[i])]]
    BY <1>2 DEF AsReadAt
  <2> HIDE DEF items, n
  <2> QED BY <1>1, <2>2, <2>3, <2>4, <2>5 DEF value
<1> QED BY <1>8, <1>9

\* However deep it nests, what was decoded is read back.
LEMMA DecodedIsReadBack == \A param \in Params : \A wire \in Wires(param) : ReadBack(param, wire)
<1> DEFINE S == {param \in Params : \A wire \in Wires(param) : ReadBack(param, wire)}
<1>1. ASSUME NEW param \in Params,
             param.ty.dims # << >> => Element(param) \in S,
             \A i \in DOMAIN param.components : param.components[i] \in S,
             NEW wire \in Wires(param)
      PROVE  ReadBack(param, wire)
  <2>1. CASE param.ty.dims # << >>
    BY <1>1, <2>1, ArraysReadBack
  <2>2. CASE param.ty.dims = << >> /\ param.ty.base = "tuple"
    BY <1>1, <2>2, TuplesReadBack
  <2>3. CASE IsScalar(param)
    BY <2>3, ScalarsReadBack
  <2> QED BY <2>1, <2>2, <2>3 DEF IsScalar
<1>2. Params \subseteq S
  <2>1. \A param \in Params :
          /\ param.ty.dims # << >> => Element(param) \in S
          /\ \A i \in DOMAIN param.components : param.components[i] \in S
          => param \in S
    BY <1>1
  <2> HIDE DEF S
  <2> QED BY <2>1, NestingInduction
<1> QED BY <1>2
\* A decoded result passed back as the arguments is, as JSON, what was written of the
\* outputs.
LEMMA DecodedArguments ==
    ASSUME NEW q \in Requests, q.op = "decode", ~ IsErr(NativeDecoded(q)),
           q.viems.outputs # << >>, NEW n, n = Len(q.viems.outputs)
    PROVE  richJsonStringify(AsArguments(q.viems.outputs, Parsed(NativeDecoded(q).ok)))
             = [arr |-> [i \in 1 .. n |-> ItemsOf(q)[i].ok]]
<1> DEFINE outputs == q.viems.outputs
           json == NativeDecoded(q).ok
           js == Parsed(json)
           args == AsArguments(outputs, js)
           items == [i \in 1 .. n |-> ItemsOf(q)[i].ok]
           jss == [i \in 1 .. n |-> richJsonParse(items[i])]
<1>1. /\ js = richJsonParse(json) /\ js = richJsonParseAt(json)
      /\ richJsonStringify(args) = richJsonStringifyAt(args)
  BY CallsAssumption
<1>2. /\ n \in Nat /\ DOMAIN ItemsOf(q) = 1 .. n
      /\ \A i \in 1 .. n : outputs[i] \in Params /\ q.data.wire[i] \in Wires(outputs[i])
                           /\ ~ IsErr(ItemsOf(q)[i])
      /\ json = CASE n = 0 -> [null |-> TRUE]
                  [] n = 1 -> ItemsOf(q)[1].ok
                  [] OTHER -> [arr |-> items]
  <2> HIDE DEF json
  <2> QED BY DecodedCall DEF json
<1>3. DOMAIN outputs = 1 .. n
  BY <1>2 DEF ItemsOf
<1>4. n # 0
  <2>1. ~ IsErr(find_function(q.abi, q.name))
    BY NativeDecoding, Results
  <2>2. outputs \in Seq(Params)
    BY <2>1, FunctionFound
  <2> QED BY <2>2
<1>5. ASSUME NEW i \in 1 .. n
      PROVE  richJsonStringify(richJsonParse(ItemsOf(q)[i].ok)) = ItemsOf(q)[i].ok
  <2>1. ItemsOf(q)[i] = value_to_json(outputs[i], DynValue(outputs[i], q.data.wire[i]))
    BY <1>2, <1>3 DEF ItemsOf
  <2>2. Survives(outputs[i], q.data.wire[i]) /\ outputs[i] \in Params
    BY <1>2, JsonSurvives
  <2> QED BY <1>2, <2>1, <2>2 DEF Survives
<1>6. args = [array |-> jss]
  <2>1. CASE n = 1
    <3>1. json = ItemsOf(q)[1].ok
      BY <1>2, <2>1
    <3>2. \A i \in 1 .. 1 : richJsonParse(items[i]) = js
      <4>1. \A i \in 1 .. 1 : items[i] = ItemsOf(q)[1].ok
        BY <2>1
      <4> HIDE DEF items, json
      <4> QED BY <1>1, <3>1, <4>1
    <3> HIDE DEF items, js
    <3>3. jss = [i \in 1 .. 1 |-> js]
      BY <2>1, <3>2
    <3>4. <<js>> = [i \in 1 .. 1 |-> js]
      OBVIOUS
    <3> HIDE DEF jss
    <3> QED BY <2>1, <3>3, <3>4 DEF AsArguments
  <2>2. CASE n # 1
    <3>1. json = [arr |-> items]
      BY <1>2, <1>4, <2>2
    <3>2. DOMAIN json = {"arr"} /\ json.arr = items /\ DOMAIN items = 1 .. n
      BY <3>1
    <3> HIDE DEF items, json, js
    <3>3. js = [array |-> jss]
      BY <1>1, <3>2 DEF richJsonParseAt
    <3>4. js.array = jss
      BY <3>3
    <3> HIDE DEF jss
    <3> QED BY <2>2, <3>4 DEF AsArguments
  <2> QED BY <2>1, <2>2
<1>7. DOMAIN args = {"array"} /\ args.array = jss /\ DOMAIN jss = 1 .. n
  BY <1>6
<1>8. \A i \in 1 .. n : richJsonStringify(jss[i]) = items[i]
  BY <1>5
<1>9. richJsonStringifyAt(args) = [arr |-> [i \in 1 .. n |-> richJsonStringify(jss[i])]]
  <2> HIDE DEF args, jss
  <2> QED BY <1>7 DEF richJsonStringifyAt
<1>10. [i \in 1 .. n |-> richJsonStringify(jss[i])] = items
  <2>1. items = [i \in 1 .. n |-> items[i]]
    OBVIOUS
  <2> HIDE DEF jss, items
  <2> QED BY <1>8, <2>1
<1> HIDE DEF items, args, jss
<1> QED BY <1>1, <1>9, <1>10 DEF items, args

\* encodeFunctionData, on an ABI of one function.
LEMMA EncodingOneFunction ==
    ASSUME NEW f, NEW args, DOMAIN args = {"arr"}, Len(args.arr) = Len(f.inputs),
           NEW rs, rs = [i \in DOMAIN f.inputs |-> json_to_value(f.inputs[i], args.arr[i])],
           ~ ZeroWidth(f.inputs)
    PROVE  encode_function_data([parses |-> TRUE, functions |-> <<f>>], f.name, args)
             = IF IsErr(Collect(rs)) THEN Collect(rs)
               ELSE Ok([function |-> f,
                        wire |-> [i \in DOMAIN Collect(rs).ok |-> Wire(Collect(rs).ok[i])]])
<1> DEFINE abi == [parses |-> TRUE, functions |-> <<f>>]
<1>1. find_function(abi, f.name) = Ok(f)
  <2>1. {i \in DOMAIN abi.functions : abi.functions[i].name = f.name} = {1}
        /\ abi.functions[1] = f
    OBVIOUS
  <2> HIDE DEF abi
  <2>2. (CHOOSE i \in {1} : TRUE) = 1
    OBVIOUS
  <2> QED BY <2>1, <2>2 DEF find_function
<1>2. abi.parses
  OBVIOUS
<1> HIDE DEF abi
<1>3. ~ IsErr(find_function(abi, f.name)) /\ find_function(abi, f.name).ok = f
  BY <1>1, Results
<1>4. encode_function_data(abi, f.name, args)
        = IF IsErr(Collect(rs)) THEN Collect(rs)
          ELSE Ok([function |-> f,
                   wire |-> [i \in DOMAIN Collect(rs).ok |-> Wire(Collect(rs).ok[i])]])
  BY <1>2, <1>3 DEF encode_function_data, Then
<1> QED BY <1>4 DEF abi

\* What was decoded can be sent back: it is on the wire what was read of the data, or a
\* word too wide for its type is declined, for any ABI and any data, whatever word stands
\* for a bool.
THEOREM DecodedComesBack == Spec => []DecodedReencodes
<1>1. Inv => DecodedReencodes
  <2> SUFFICES ASSUME Inv, Natively("decode"), request.viems.outputs # << >>,
                      DistinctNames(request.viems.outputs)
               PROVE  LET outputs == request.viems.outputs
                          f == [name |-> request.name, inputs |-> outputs, outputs |-> << >>]
                          args == AsArguments(outputs, answer.native)
                          again == encode_function_data(
                                     [parses |-> TRUE, functions |-> <<f>>],
                                     request.name, richJsonStringify(args))
                      IN  IF IsErr(again)
                          THEN \E i \in DOMAIN outputs : ~ Canonical(outputs[i], request.data.wire[i])
                          ELSE again.ok.wire =
                                 [i \in DOMAIN outputs |-> AsRead(outputs[i], request.data.wire[i])]
    BY DEF DecodedReencodes
  <2> DEFINE q == request
             outputs == q.viems.outputs
             wire == q.data.wire
             n == Len(outputs)
             items == [i \in 1 .. n |-> ItemsOf(q)[i].ok]
             f == [name |-> q.name, inputs |-> outputs, outputs |-> << >>]
             args == richJsonStringify(AsArguments(outputs, answer.native))
             again == encode_function_data([parses |-> TRUE, functions |-> <<f>>],
                                           q.name, args)
             rs == [i \in 1 .. n |-> json_to_value(outputs[i], items[i])]
             values == [i \in 1 .. n |-> rs[i].ok]
  <2>1. /\ q \in Requests /\ q.op = "decode"
        /\ ~ IsErr(NativeDecoded(q)) /\ answer.native = Parsed(NativeDecoded(q).ok)
    BY AnswersAreOfTheCall, CallsAssumption DEF Returned
  <2>2. /\ n \in Nat /\ DOMAIN outputs = 1 .. n
        /\ \A i \in 1 .. n : outputs[i] \in Params /\ wire[i] \in Wires(outputs[i])
                             /\ ~ IsErr(ItemsOf(q)[i])
    <3>1. /\ n \in Nat /\ DOMAIN ItemsOf(q) = 1 .. n
          /\ \A i \in 1 .. n : outputs[i] \in Params /\ wire[i] \in Wires(outputs[i])
                               /\ ~ IsErr(ItemsOf(q)[i])
      BY <2>1, DecodedCall
    <3> QED BY <3>1 DEF ItemsOf
  <2>3. args = [arr |-> items]
    BY <2>1, DecodedArguments
  <2>4. ~ ZeroWidth(outputs)
    BY <2>1, NativeDecoding, Results
  <2>5. ASSUME NEW i \in 1 .. n
        PROVE  IF IsErr(rs[i]) THEN ~ Canonical(outputs[i], wire[i])
                               ELSE Wire(values[i]) = AsRead(outputs[i], wire[i])
    <3>1. NamesApart(outputs[i])
      BY <2>1, <2>2, CallsAssumption DEF DistinctNamesAt, NamesApart
    <3>2. ItemsOf(q)[i] = value_to_json(outputs[i], DynValue(outputs[i], wire[i]))
      BY <2>2 DEF ItemsOf
    <3>3. ReadBack(outputs[i], wire[i]) /\ outputs[i] \in Params
      BY <2>2, DecodedIsReadBack
    <3>4. rs[i] = json_to_value(outputs[i], ItemsOf(q)[i].ok) /\ values[i] = rs[i].ok
      OBVIOUS
    <3> HIDE DEF rs, values
    <3> QED BY <2>2, <3>1, <3>2, <3>3, <3>4 DEF ReadBack
  <2>6. again = IF IsErr(Collect(rs)) THEN Collect(rs)
                ELSE Ok([function |-> f,
                         wire |-> [i \in DOMAIN Collect(rs).ok |-> Wire(Collect(rs).ok[i])]])
    <3>1. DOMAIN args = {"arr"} /\ args.arr = items
      BY <2>3
    <3>2. Len(items) = n
      <4>1. items = [i \in 1 .. n |-> items[i]]
        OBVIOUS
      <4> HIDE DEF items, n
      <4> QED BY <2>2, <4>1, Lengths
    <3>3. f.name = q.name /\ f.inputs = outputs
      OBVIOUS
    <3> HIDE DEF f, args, items
    <3>4. rs = [i \in DOMAIN f.inputs |-> json_to_value(f.inputs[i], args.arr[i])]
      BY <2>2, <3>1, <3>3
    <3>5. Len(args.arr) = Len(f.inputs) /\ ~ ZeroWidth(f.inputs)
      BY <2>4, <3>1, <3>2, <3>3
    <3> HIDE DEF rs
    <3>6. encode_function_data([parses |-> TRUE, functions |-> <<f>>], f.name, args)
            = IF IsErr(Collect(rs)) THEN Collect(rs)
              ELSE Ok([function |-> f,
                       wire |-> [i \in DOMAIN Collect(rs).ok |-> Wire(Collect(rs).ok[i])]])
      BY <3>1, <3>4, <3>5, EncodingOneFunction
    <3> QED BY <3>3, <3>6
  <2>7. /\ (\A i \in 1 .. n : ~ IsErr(rs[i])) =>
             ~ IsErr(Collect(rs)) /\ Collect(rs).ok = values
        /\ ~ IsErr(Collect(rs)) => \A i \in 1 .. n : ~ IsErr(rs[i])
    <3>1. DOMAIN rs = 1 .. n
      OBVIOUS
    <3> HIDE DEF rs, n
    <3> QED BY <2>2, <3>1, Collected
  <2> HIDE DEF again, rs
  <2>8. CASE IsErr(Collect(rs))
    <3>1. PICK i \in 1 .. n : IsErr(rs[i])
      BY <2>7, <2>8
    <3>2. i \in DOMAIN outputs /\ ~ Canonical(outputs[i], wire[i])
      BY <2>2, <2>5, <3>1
    <3>3. IsErr(again)
      BY <2>6, <2>8
    <3> QED BY <3>2, <3>3 DEF again
  <2>9. CASE ~ IsErr(Collect(rs))
    <3>1. Collect(rs).ok = values /\ \A i \in 1 .. n : ~ IsErr(rs[i])
      BY <2>7, <2>9
    <3>2. DOMAIN values = 1 .. n
      OBVIOUS
    <3> HIDE DEF values
    <3>3. ~ IsErr(again) /\ again.ok.wire = [i \in 1 .. n |-> Wire(values[i])]
      BY <2>6, <2>9, <3>1, <3>2, Results
    <3>4. \A i \in 1 .. n : Wire(values[i]) = AsRead(outputs[i], wire[i])
      BY <2>5, <3>1
    <3>5. again.ok.wire = [i \in DOMAIN outputs |-> AsRead(outputs[i], wire[i])]
      BY <2>2, <3>3, <3>4
    <3> QED BY <3>3, <3>5 DEF again
  <2> QED BY <2>8, <2>9
<1> QED BY <1>1, SpecInv, PTL
===========================================================================
