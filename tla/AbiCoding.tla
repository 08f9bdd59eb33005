----------------------------- MODULE AbiCoding -----------------------------
(***************************************************************************)
(* The compound half of rust/src/lib.rs: decode_function_result and        *)
(* encode_function_data over arrays and tuples.                            *)
(*                                                                         *)
(* A parameter is [ty, name, components]; a type is [base, size, dims],    *)
(* the dimensions in the order the type string writes them, with Dynamic   *)
(* for [].  An ABI is [parses, functions], a function [name, inputs,       *)
(* outputs].  Bytes on the wire are kept as what they hold: a [word], a     *)
(* [hex] string of bytes, a [text], or the [items] of an array or a tuple. *)
(*                                                                         *)
(* Types and values nest.  An operator on them is given here one level at  *)
(* a time, as ...At, with what it does on the level below as a parameter;  *)
(* the operator itself is a constant, and the assumptions of NativeOrViem  *)
(* say that it is what its levels make of it.                              *)
(***************************************************************************)
EXTENDS AbiScalars, FiniteSets, SequencesExt

CONSTANTS
    ZeroWidth(_),         \* parameters
    DynValue(_, _),       \* parameter, wire
    Wire(_),              \* value
    value_to_json(_, _),  \* parameter, value
    json_to_value(_, _)   \* parameter, JSON

Dynamic == -1

Unnamed == ""

IsTuple(ty) == ty.base = "tuple" /\ ty.dims = << >>

\* The slip: the first dimension written is taken for the outermost.
split_array_type_left(ty) ==
    IF ty.dims = << >> THEN << >>
    ELSE <<[ty EXCEPT !.dims = Tail(@)], Head(ty.dims)>>

\* The element type and the outermost length, or << >> for no array.
split_array_type(ty) ==
    IF ty.dims = << >> THEN << >>
    ELSE <<[ty EXCEPT !.dims = Front(@)], Last(ty.dims)>>

\* The parameter an array has for each of its elements.
ElementParam(param) ==
    [param EXCEPT !.ty = split_array_type(@)[1], !.name = Unnamed]

---------------------------------------------------------------------------
(* Functions, by name alone. *)

find_function(abi, name) ==
    LET named == {i \in DOMAIN abi.functions : abi.functions[i].name = name} IN
    CASE named = {} -> Err("FunctionNotFound")
      [] \E i \in named : named = {i} -> Ok(abi.functions[CHOOSE i \in named : TRUE])
      [] OTHER -> Err("AmbiguousOverload")

---------------------------------------------------------------------------
(* alloy. *)

\* A tuple with no component anywhere in a list of parameters.
ZeroWidthAt(params) ==
    \E i \in DOMAIN params : params[i].ty.base = "tuple" /\
        (params[i].components = << >> \/ ZeroWidth(params[i].components))

\* abi_decode_output, on one parameter: alloy reads the words its type asks for
\* and does not compare them with the declared width.
DynValueAt(param, wire) ==
    LET split == split_array_type(param.ty)
        ty == param.ty
    IN
    IF split # << >> THEN
        LET items == [i \in DOMAIN wire.items |->
                        DynValue(ElementParam(param), wire.items[i])]
        IN  IF split[2] = Dynamic THEN [array |-> items] ELSE [fixedArray |-> items]
    ELSE
    CASE ty.base = "tuple" ->
           [tuple |-> [i \in DOMAIN wire.items |->
                         DynValue(param.components[i], wire.items[i])]]
      [] ty.base = "uint" -> [uint |-> wire.word, size |-> ty.size]
      [] ty.base = "int" ->
           [int |-> IF wire.word < Pow2[WORD_BITS - 1] THEN wire.word
                                                      ELSE wire.word - Pow2[WORD_BITS],
            size |-> ty.size]
      [] ty.base = "bool" -> [bool |-> wire.word # 0]
      [] ty.base = "address" -> [address |-> wire.hex]
      [] ty.base = "bytes" -> [bytes |-> wire.hex]
      [] ty.base = "fixed" -> [fixed |-> wire.hex, size |-> ty.size]
      [] ty.base = "string" -> [string |-> wire.text]
      [] OTHER -> [function |-> wire.hex]

\* abi_encode_input, on one value; an I256 goes as its two's complement.
WireAt(value) ==
    CASE "uint" \in DOMAIN value -> [word |-> value.uint]
      [] "int" \in DOMAIN value ->
           [word |-> IF value.int < 0 THEN value.int + Pow2[WORD_BITS] ELSE value.int]
      [] "bool" \in DOMAIN value -> [word |-> IF value.bool THEN 1 ELSE 0]
      [] "address" \in DOMAIN value -> [hex |-> value.address]
      [] "bytes" \in DOMAIN value -> [hex |-> value.bytes]
      [] "fixed" \in DOMAIN value -> [hex |-> value.fixed]
      [] "string" \in DOMAIN value -> [text |-> value.string]
      [] OTHER ->
           LET items == CASE "array" \in DOMAIN value -> value.array
                          [] "fixedArray" \in DOMAIN value -> value.fixedArray
                          [] "tuple" \in DOMAIN value -> value.tuple
           IN  [items |-> [i \in DOMAIN items |-> Wire(items[i])]]

---------------------------------------------------------------------------
(* From decoded values to JSON. *)

\* The slip: a tuple is keyed by name as soon as one component has a name.
some_named(components) == \E i \in DOMAIN components : components[i].name # Unnamed

\* Keyed by name when every component has one.
all_named(components) ==
    /\ components # << >>
    /\ \A i \in DOMAIN components : components[i].name # Unnamed

Names(components) == {components[i].name : i \in DOMAIN components}

\* A repeated name keeps its last field, as Map::insert does.
LastNamed(components, key) ==
    CHOOSE i \in DOMAIN components :
        /\ components[i].name = key
        /\ \A k \in (i + 1)..Len(components) : components[k].name # key

tuple_to_json(components, fields) ==
    IF Len(components) # Len(fields) THEN Err("ArityMismatch")
    ELSE Then(Collect([i \in DOMAIN fields |-> value_to_json(components[i], fields[i])]),
              LAMBDA items :
                IF all_named(components)
                THEN Ok([obj |-> [key \in Names(components) |->
                                    items[LastNamed(components, key)]]])
                ELSE Ok([arr |-> items]))

value_to_json_at(param, value) ==
    CASE "uint" \in DOMAIN value -> int_to_json(value.uint, value.size)
      [] "int" \in DOMAIN value -> int_to_json(value.int, value.size)
      [] "bool" \in DOMAIN value -> Ok([bool |-> value.bool])
      [] "address" \in DOMAIN value -> Ok([str |-> to_checksum(value.address)])
      [] "bytes" \in DOMAIN value -> Ok([str |-> bytes_to_hex(value.bytes)])
      [] "fixed" \in DOMAIN value -> Ok([str |-> bytes_to_hex(value.fixed)])
      [] "string" \in DOMAIN value ->
           Ok([str |-> IF "bom" \in DOMAIN value.string /\ value.string.bom > 0
                       THEN [bom |-> value.string.bom - 1]
                       ELSE value.string])
      [] "array" \in DOMAIN value \/ "fixedArray" \in DOMAIN value ->
           LET items == IF "array" \in DOMAIN value THEN value.array
                                                    ELSE value.fixedArray
           IN  Then(Collect([i \in DOMAIN items |-> value_to_json(param, items[i])]),
                    LAMBDA json : Ok([arr |-> json]))
      [] "tuple" \in DOMAIN value -> tuple_to_json(param.components, value.tuple)
      [] OTHER -> Err("UnsupportedType")

\* The data is [text, wire]: the literal, and what each output reads in it.
decode_function_result(abi, name, data) ==
    IF ~ abi.parses THEN Err("InvalidAbi")
    ELSE
    LET found == find_function(abi, name) IN
    IF IsErr(found) THEN found
    ELSE LET outputs == found.ok.outputs
             decoded == decode_viem_hex(data.text)
         IN
    IF IsErr(decoded) THEN decoded
    ELSE IF ZeroWidth(outputs) \/ Len(data.wire) # Len(outputs) THEN Err("DecodeFailed")
    ELSE Then(Collect([i \in DOMAIN outputs |->
                 value_to_json(outputs[i], DynValue(outputs[i], data.wire[i]))]),
              LAMBDA json :
                CASE Len(json) = 0 -> Ok([null |-> TRUE])
                  [] Len(json) = 1 -> Ok(json[1])
                  [] OTHER -> Ok([arr |-> json]))

---------------------------------------------------------------------------
(* From JSON to the values alloy encodes. *)

\* The fields of a tuple, from an object by name or from an array in ABI order.
TupleFields(components, value) ==
    CASE "obj" \in DOMAIN value ->
           Collect([i \in DOMAIN components |->
             IF components[i].name \in DOMAIN value.obj
             THEN json_to_value(components[i], value.obj[components[i].name])
             ELSE Err("InvalidArgument")])
      [] "arr" \in DOMAIN value ->
           IF Len(value.arr) # Len(components) THEN Err("ArityMismatch")
           ELSE Collect([i \in DOMAIN components |->
                           json_to_value(components[i], value.arr[i])])
      [] OTHER -> Err("InvalidArgument")

json_to_value_at(param, value) ==
    LET split == split_array_type(param.ty) IN
    IF split # << >> THEN
        IF "arr" \notin DOMAIN value THEN Err("InvalidArgument")
        ELSE IF split[2] # Dynamic /\ Len(value.arr) # split[2] THEN Err("ArityMismatch")
        ELSE Then(Collect([i \in DOMAIN value.arr |->
                             json_to_value(ElementParam(param), value.arr[i])]),
                  LAMBDA items : IF split[2] = Dynamic THEN Ok([array |-> items])
                                                       ELSE Ok([fixedArray |-> items]))
    ELSE IF IsTuple(param.ty) THEN
        Then(TupleFields(param.components, value),
             LAMBDA fields : Ok([tuple |-> fields]))
    ELSE coerce_scalar(param.ty, value)

\* The calldata is the function chosen and what its arguments are on the wire.
encode_function_data(abi, name, args) ==
    IF ~ abi.parses THEN Err("InvalidAbi")
    ELSE
    LET found == find_function(abi, name) IN
    IF IsErr(found) THEN found
    ELSE LET inputs == found.ok.inputs IN
    IF "arr" \notin DOMAIN args THEN Err("InvalidArgument")
    ELSE IF Len(args.arr) # Len(inputs) THEN Err("ArityMismatch")
    ELSE Then(Collect([i \in DOMAIN inputs |-> json_to_value(inputs[i], args.arr[i])]),
              LAMBDA values :
                IF ZeroWidth(inputs) THEN Err("EncodeFailed")
                ELSE Ok([function |-> found.ok,
                         wire |-> [i \in DOMAIN values |-> Wire(values[i])]]))

===========================================================================
