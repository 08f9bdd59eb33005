---------------------------- MODULE NativeOrViem ----------------------------
(***************************************************************************)
(* The two ABI calls of NativeOrOriginal: what the native functions return *)
(* for them, and what viem would have answered.  What is checked is the    *)
(* side this repository owns: an answer given natively is the one viem     *)
(* would have given, and no call is handed over that need not be.          *)
(*                                                                         *)
(* An ABI request says in viems which of the functions of that name viem   *)
(* means, the caller's arguments known.                                    *)
(***************************************************************************)
EXTENDS ViemReference, NativeOrOriginal

CONSTANTS
    Params,           \* parameters, with their parts
    Nesting(_),       \* how deep a parameter nests
    Wires(_),         \* what may be on the wire for a parameter
    JsValues,         \* what an app may pass, with its parts
    Canonical(_, _),  \* parameter, wire
    DistinctNames(_), \* parameters
    AsRead(_, _)      \* parameter, wire

---------------------------------------------------------------------------
(* What is asked. *)

Bases == {"uint", "int", "bool", "address", "bytes", "fixed", "string", "function", "tuple"}

Types == [base : Bases, size : Nat, dims : Seq(Nat \cup {Dynamic})]

ASSUME ParamsAssumption ==
    \A param \in Params :
        /\ param \in [ty : Types, name : STRING, components : Seq(Params)]
        /\ param.ty.base \in {"uint", "int"} => param.ty.size \in 1 .. WORD_BITS
        /\ Nesting(param) \in Nat
        /\ param.ty.dims # << >> =>
             Element(param) \in Params /\ Nesting(Element(param)) < Nesting(param)
        /\ \A i \in DOMAIN param.components :
             Nesting(param.components[i]) < Nesting(param)

\* What alloy reads for a parameter: lengths and offsets are right, and padding that
\* neither reader looks at is left out.  A word may be any, a bool's too: nothing
\* compares it with the type.
ASSUME WiresAssumption ==
    \A param \in Params : \A wire \in Wires(param) :
        LET ty == param.ty IN
        IF ty.dims # << >> THEN
            /\ wire \in [items : Seq(Wires(Element(param)))]
            /\ Last(ty.dims) \in {Dynamic, Len(wire.items)}
        ELSE
        CASE ty.base = "tuple" ->
               /\ DOMAIN wire = {"items"}
               /\ DOMAIN wire.items = DOMAIN param.components
               /\ \A i \in DOMAIN param.components :
                    wire.items[i] \in Wires(param.components[i])
          [] ty.base \in {"uint", "int", "bool"} ->
               wire \in [word : 0 .. (Pow2[WORD_BITS] - 1)]
          [] ty.base = "address" -> wire \in [hex : Addresses]
          [] ty.base = "bytes" -> wire \in [hex : Bytes]
          [] ty.base = "fixed" -> wire \in [hex : Bytes] /\ Len(wire.hex) = 2 * ty.size
          [] ty.base = "string" -> wire \in [text : Texts]
          [] OTHER -> TRUE

\* Each is of one kind, and has its parts among values.
JavaScript(values) ==
    \A js \in values :
        \/ js \in [number : Int] \cup [fraction : Int] \cup [big : Int] \cup
                  [string : Texts] \cup [boolean : BOOLEAN] \cup [undefined : {TRUE}]
        \/ js \in [array : Seq(values)]
        \/ DOMAIN js = {"object"} /\ \A key \in DOMAIN js.object : js.object[key] \in values

ASSUME JsAssumption == JavaScript(JsValues)

\* viem means a function of the name, if there is one.
AbiRequests(functions, values) ==
    \A q \in Requests : q.op \in {"decode", "encode"} =>
        LET fs == q.abi.functions IN
        /\ fs \in Seq(functions)
        /\ (\E i \in DOMAIN fs : fs[i].name = q.name) =>
             \E i \in DOMAIN fs : fs[i].name = q.name /\ fs[i] = q.viems
        /\ q.op = "decode" =>
             /\ q.data.text \in Texts
             /\ Len(q.data.wire) = Len(q.viems.outputs) =>
                  \A i \in DOMAIN q.viems.outputs :
                      q.data.wire[i] \in Wires(q.viems.outputs[i])
        /\ q.op = "encode" => q.args \in values

ASSUME AbiRequestsAssumption ==
    AbiRequests([name : STRING, inputs : Seq(Params), outputs : Seq(Params)], JsValues)

---------------------------------------------------------------------------

\* Every word fits the width its type declares, as in what a contract returns.
CanonicalAt(param, wire) ==
    LET ty == param.ty IN
    IF ty.dims # << >> THEN
        \A i \in DOMAIN wire.items : Canonical(Element(param), wire.items[i])
    ELSE
    CASE ty.base = "tuple" ->
           \A i \in DOMAIN wire.items : Canonical(param.components[i], wire.items[i])
      [] ty.base \in {"uint", "int"} -> SignedWord(ty, wire) \in Bounds(ty)
      [] ty.base = "bool" -> wire.word \in {0, 1}
      [] OTHER -> ty.base # "function"

\* No tuple repeats a name.
DistinctNamesAt(params) ==
    \A i \in DOMAIN params :
        LET components == params[i].components IN
        /\ DistinctNames(components)
        /\ \A j, k \in DOMAIN components :
             (j # k /\ components[j].name = components[k].name)
               => components[j].name = Unnamed

\* The wire value that says what was read of one: a string without its first byte order
\* mark, a bool as the one word it has for its truth.
AsReadAt(param, wire) ==
    LET ty == param.ty IN
    IF ty.dims # << >> THEN
        [items |-> [i \in DOMAIN wire.items |-> AsRead(Element(param), wire.items[i])]]
    ELSE
    CASE ty.base = "tuple" ->
           [items |-> [i \in DOMAIN wire.items |->
                         AsRead(param.components[i], wire.items[i])]]
      [] ty.base = "bool" -> [word |-> IF wire.word = 0 THEN 0 ELSE 1]
      [] ty.base = "string" ->
           [text |-> IF "bom" \in DOMAIN wire.text /\ wire.text.bom > 0
                     THEN [bom |-> wire.text.bom - 1] ELSE wire.text]
      [] OTHER -> wire

\* A decoded result as the arguments of a function that takes what was returned.
AsArguments(outputs, js) == [array |-> IF Len(outputs) = 1 THEN <<js>> ELSE js.array]

\* What the native functions return; the app has Parsed what it decoded.
NativeDecoded(asked) == decode_function_result(asked.abi, asked.name, asked.data)

NativeEncoded(asked) ==
    encode_function_data(asked.abi, asked.name, richJsonStringify(asked.args))

---------------------------------------------------------------------------
(* The recursion: each operator is what its levels make of it. *)

ASSUME DecodingAssumption ==
    \A param, p \in Params : p.components = param.components =>
        \A wire \in Wires(param) :
            LET value == DynValue(param, wire)
                json == value_to_json(p, value)
                js == richJsonParse(json.ok)
            IN  /\ value = DynValueAt(param, wire)
                /\ json = value_to_json_at(p, value)
                /\ Canonical(param, wire) <=> CanonicalAt(param, wire)
                /\ ~ IsErr(json) =>
                     /\ js = richJsonParseAt(json.ok)
                     /\ ViemDecodes(param, wire, js) <=>
                          ViemDecodesAt(param, wire, js)

ASSUME EncodingAssumption ==
    \A param \in Params : \A js \in JsValues :
        LET json == richJsonStringify(js)
            value == json_to_value(param, json)
            wire == Wire(value.ok)
        IN  /\ json = richJsonStringifyAt(js)
            /\ value = json_to_value_at(param, json)
            /\ ~ IsErr(value) =>
                 /\ wire = WireAt(value.ok)
                 /\ ViemEncodes(param, js, wire) <=>
                      ViemEncodesAt(param, js, wire)

\* The way back, of what was decoded.
ASSUME ReencodingAssumption ==
    \A param, p \in Params : p.components = param.components =>
        \A wire \in Wires(param) :
            LET json == value_to_json(p, DynValue(param, wire))
                js == richJsonParse(json.ok)
                value == json_to_value(param, json.ok)
            IN  /\ AsRead(param, wire) = AsReadAt(param, wire)
                /\ ~ IsErr(json) =>
                     /\ richJsonStringify(js) = richJsonStringifyAt(js)
                     /\ value = json_to_value_at(param, json.ok)
                     /\ ~ IsErr(value) => Wire(value.ok) = WireAt(value.ok)

ASSUME CallsAssumption ==
    \A q \in Requests :
        /\ q.op = "decode" =>
             /\ Decoded(q) = NativeDecoded(q)
             /\ LET json == NativeDecoded(q).ok IN
                ~ IsErr(NativeDecoded(q)) =>
                    /\ Parsed(json) = richJsonParse(json)
                    /\ richJsonParse(json) = richJsonParseAt(json)
                    /\ q.viems.outputs # << >> =>
                         LET args == AsArguments(q.viems.outputs, Parsed(json)) IN
                         richJsonStringify(args) = richJsonStringifyAt(args)
             /\ DistinctNames(q.viems.outputs) <=>
                  DistinctNamesAt(q.viems.outputs)
        /\ q.op = "encode" =>
             /\ Encoded(q) = NativeEncoded(q)
             /\ ZeroWidth(q.viems.inputs) <=> ZeroWidthAt(q.viems.inputs)

ASSUME ComponentsAssumption ==
    \A param \in Params :
        /\ ZeroWidth(param.components) <=> ZeroWidthAt(param.components)
        /\ DistinctNames(param.components) <=>
             DistinctNamesAt(param.components)

---------------------------------------------------------------------------

\* What viem reads in the outputs, as decodeFunctionResult returns them.
ViemResult(outputs, wire, js) ==
    CASE Len(outputs) = 0 -> js = [undefined |-> TRUE]
      [] Len(outputs) = 1 -> ViemDecodes(outputs[1], wire[1], js)
      [] OTHER ->
           /\ "array" \in DOMAIN js
           /\ Len(js.array) = Len(outputs)
           /\ \A i \in DOMAIN outputs : ViemDecodes(outputs[i], wire[i], js.array[i])

\* A decoded result is the JavaScript value viem would have built, down to the
\* kind of number, the shape of every tuple and the case of every address, after
\* it went through JSON text and came back; and viem would have read the same data
\* for the same function.
DecodesAsViem ==
    Natively("decode") =>
        /\ IsBytesLike(request.data.text) /\ IsHex(request.data.text, {HEX_PREFIX})
        /\ Len(request.data.wire) = Len(request.viems.outputs)
        /\ ViemResult(request.viems.outputs, request.data.wire, answer.native)

\* Native calldata calls the function viem would have called, and every argument
\* is on the wire what viem would have put there for the JavaScript value the
\* caller passed, which the native code saw only as JSON.
EncodesAsViem ==
    Natively("encode") =>
        /\ answer.native.function = request.viems
        /\ \A i \in DOMAIN request.viems.inputs :
             ViemEncodes(request.viems.inputs[i], request.args.array[i],
                         answer.native.wire[i])

\* What was decoded can be sent back: the JavaScript value a native decode returned,
\* encoded natively for parameters of the same types, is on the wire what was
\* decoded; the encoder declines only a word too wide for its type.  The two
\* directions agree on names, tags, checksums and dimensions, at any depth.  (What the
\* decoder did not keep, a string's first byte order mark and which of its words a true
\* bool was, is gone for good.)
DecodedReencodes ==
    Natively("decode") =>
        LET outputs == request.viems.outputs
            f == [name |-> request.name, inputs |-> outputs, outputs |-> << >>]
            args == AsArguments(outputs, answer.native)
            again == encode_function_data([parses |-> TRUE, functions |-> <<f>>],
                                          request.name, richJsonStringify(args))
        IN  (outputs # << >> /\ DistinctNames(outputs)) =>
              IF IsErr(again)
              THEN \E i \in DOMAIN outputs : ~ Canonical(outputs[i], request.data.wire[i])
              ELSE again.ok.wire = [i \in DOMAIN outputs |->
                                      AsRead(outputs[i], request.data.wire[i])]

\* A canonical result is never handed over, the call being one viem would serve: the
\* fast path serves what contracts return.  (alloy has no value for a tuple of nothing.)
CanonicalResultsServed ==
    HandedOver("decode") =>
        \/ ~ request.abi.parses
        \/ ~ \E i \in DOMAIN request.abi.functions :
               {j \in DOMAIN request.abi.functions :
                   request.abi.functions[j].name = request.name} = {i}
        \/ ZeroWidth(request.viems.outputs)
        \/ ~ (IsBytesLike(request.data.text) /\ IsHex(request.data.text, {HEX_PREFIX}))
        \/ Len(request.data.wire) # Len(request.viems.outputs)
        \/ \E i \in DOMAIN request.viems.outputs :
             ~ Canonical(request.viems.outputs[i], request.data.wire[i])

\* The JavaScript values viem takes for a scalar type and the native code ought to.
Serves(ty, js) ==
    CASE ty.base \in {"uint", "int"} -> \E n \in Bounds(ty) : IsInteger(js, n)
      [] ty.base = "bool" -> "boolean" \in DOMAIN js
      [] ty.base = "string" -> "string" \in DOMAIN js
      [] ty.base = "address" -> "string" \in DOMAIN js /\ IsStrictAddress(js.string)
      [] ty.base \in {"bytes", "fixed"} ->
           /\ "string" \in DOMAIN js
           /\ IsBytesLike(js.string) /\ IsHex(js.string, {HEX_PREFIX})
           /\ ty.base = "fixed" => Len(js.string.digits) = 2 * ty.size
      [] OTHER -> FALSE

\* A scalar argument is handed over only when viem would not have taken it either:
\* every integer of the declared range in whichever of the three forms it is
\* written, every address viem's strict test passes.
ScalarArgumentsServed ==
    (HandedOver("encode") /\ request.abi = [parses |-> TRUE,
                                            functions |-> <<request.viems>>]) =>
        LET inputs == request.viems.inputs IN
        \/ request.name # request.viems.name
        \/ Len(inputs) # 1
        \/ inputs[1].ty.dims # << >>
        \/ "array" \notin DOMAIN request.args
        \/ Len(request.args.array) # 1
        \/ ~ Serves(inputs[1].ty, request.args.array[1])

===========================================================================
