-------------------------- MODULE MCNativeOrViem --------------------------
(***************************************************************************)
(* A small instance of NativeOrViem.  Widths keep the order they have in   *)
(* the code: a 2-bit type is the widest that becomes a JavaScript number,  *)
(* safe integers end at 7, an i64 at 15, a u64 at 31 and a word at 63.  An *)
(* address has two digits.                                                 *)
(***************************************************************************)
EXTENDS NativeOrViem

MCUpperAt == <<"a", "a">> :> {1} @@ <<"a", "0">> :> {1} @@
             <<"0", "a">> :> {} @@ <<"0", "0">> :> {}

Scalar(base, size) == [base |-> base, size |-> size, dims |-> << >>]
Array(ty, dims) == [ty EXCEPT !.dims = dims]
P(ty, name) == [ty |-> ty, name |-> name, components |-> << >>]
T(name, dims, components) ==
    [ty |-> Array(Scalar("tuple", 0), dims), name |-> name, components |-> components]

Uints == {Scalar("uint", s) : s \in {2, 3, 6}}
Ints == {Scalar("int", s) : s \in {2, 3, 6}}
Others == {Scalar(b, 0) : b \in {"bool", "address", "bytes", "string", "function"}}
            \cup {Scalar("fixed", 1)}

Narrow == Scalar("uint", 2)
Wide == Scalar("uint", 6)
Address == Scalar("address", 0)

\* Named, partly named, unnamed, repeated, empty and nested tuples, and arrays whose
\* two dimensions differ.
Compounds ==
    {P(Array(Narrow, <<Dynamic>>), "x"), P(Array(Narrow, <<2, 1>>), "x"),
     P(Array(Narrow, <<2, Dynamic>>), "x"),
     T("x", << >>, <<P(Wide, "amount"), P(Narrow, "decimals")>>),
     T("x", << >>, <<P(Narrow, "amount"), P(Address, Unnamed)>>),
     T("x", << >>, <<P(Scalar("string", 0), "memo"), P(Scalar("bool", 0), "paid")>>),
     T("x", << >>, <<P(Narrow, Unnamed)>>),
     T("x", << >>, <<P(Narrow, "amount"), P(Wide, "amount")>>),
     T("x", << >>, << >>),
     T("x", <<Dynamic>>, <<P(Narrow, "amount")>>),
     T("x", << >>, <<T("inner", << >>, <<P(Narrow, "amount")>>), P(Wide, "amount")>>)}

\* A Solidity identifier may hold a dollar sign.
TagNamed == T("x", << >>, <<P(Scalar("string", 0), BIGINT_TAG)>>)

Digits == {"0", "a", "A"}
Seqs(S, lengths) == UNION {[1..n -> S] : n \in lengths}
PrefixRuns == {<< >>, <<"0x">>, <<"0X">>, <<"0x", "0x">>, <<"0X", "0x">>}
HexTexts == {[prefixes |-> p, digits |-> d] :
            p \in PrefixRuns, d \in Seqs(Digits \cup {"z"}, 0..3)}

---------------------------------------------------------------------------
(* Wire values. *)

RECURSIVE WiresOf(_, _)
WiresOf(param, words) ==
    LET ty == param.ty
        items == WiresOf(Element(param), words)
    IN
    IF ty.dims # << >> THEN
        {[items |-> w] : w \in IF Last(ty.dims) = Dynamic THEN Seqs(items, 0..2)
                                ELSE [1..Last(ty.dims) -> items]}
    ELSE
    CASE ty.base = "tuple" ->
           LET parts == [i \in DOMAIN param.components |->
                           WiresOf(param.components[i], words)]
           IN  {[items |-> w] : w \in {w \in [DOMAIN parts -> UNION Range(parts)] :
                                          \A i \in DOMAIN parts : w[i] \in parts[i]}}
      [] ty.base \in {"uint", "int"} -> {[word |-> n] : n \in words}
      [] ty.base = "bool" -> {[word |-> n] : n \in {0, 1}}
      [] ty.base \in {"address", "fixed"} -> {[hex |-> d] : d \in [1..2 -> {"0", "a"}]}
      [] ty.base = "bytes" -> {[hex |-> d] : d \in Seqs({"0", "a"}, {0, 2})}
      [] ty.base = "string" ->
           {[text |-> [bom |-> k]] : k \in 0..2}
      [] OTHER -> {[hex |-> << >>]}

Words == 0..63
FewWords == {0, 3, 9, 63}

F(inputs, outputs) == [name |-> "f", inputs |-> inputs, outputs |-> outputs]
Abi(functions) == [parses |-> TRUE, functions |-> functions]

DecodeOf(param, words) ==
    {[op |-> "decode", abi |-> Abi(<<F(<< >>, <<param>>)>>), name |-> "f",
      data |-> [text |-> Hex("0x", << >>), wire |-> <<w>>],
      viems |-> F(<< >>, <<param>>)] : w \in WiresOf(param, words)}

TwoOutputs == <<P(Wide, Unnamed), P(Narrow, Unnamed)>>
Bool == P(Scalar("bool", 0), "x")
Overload == F(<<Bool>>, <<P(Wide, "x")>>)

\* Other data literals, other ABIs, no output, two outputs, a name of two functions.
DecodeOdd ==
    {[op |-> "decode", abi |-> Abi(<<F(<< >>, <<Bool>>)>>), name |-> name,
      data |-> [text |-> t, wire |-> <<[word |-> 1]>>], viems |-> F(<< >>, <<Bool>>)] :
        name \in {"f", "g"}, t \in HexTexts}
    \cup
    UNION {{[op |-> "decode", abi |-> [parses |-> p, functions |-> fs], name |-> "f",
             data |-> [text |-> Hex("0x", << >>), wire |-> <<[word |-> 1]>>],
             viems |-> v] : p \in BOOLEAN, v \in Range(fs)} :
               fs \in {<<Overload>>, <<Overload, F(<< >>, <<Bool>>)>>}}
    \cup
    {[op |-> "decode", abi |-> Abi(<<F(<< >>, outs)>>), name |-> "f",
      data |-> [text |-> Hex("0x", << >>), wire |-> w], viems |-> F(<< >>, outs)] :
        outs \in {<< >>, TwoOutputs}, w \in Seqs({[word |-> n] : n \in FewWords}, 0..2)}

DecodeRequests ==
    DecodeOdd
    \cup UNION {DecodeOf(P(ty, "x"), Words) : ty \in Uints \cup Ints \cup Others}
    \cup UNION {DecodeOf(param, FewWords) : param \in Compounds}

\* Two outputs, each read as viem does not: a tuple that looks like a BigInt, and a bool
\* that is neither 0 nor 1.
OddOutputs == <<TagNamed, Bool>>
OddWire == <<[items |-> <<[text |-> Decimal(5)]>>], [word |-> 2]>>

OddRequests ==
    {[op |-> "decode", abi |-> Abi(<<F(<< >>, OddOutputs)>>), name |-> "f",
      data |-> [text |-> Hex("0x", << >>), wire |-> OddWire], viems |-> F(<< >>, OddOutputs)]}
    \cup DecodeOdd

---------------------------------------------------------------------------
(* JavaScript values. *)

SafeNumbers == {[number |-> n] : n \in -7..7}
Bigs == {[big |-> n] : n \in {-33, -32, -5, -4, -3, -2, -1, 0, 1, 2, 3, 4, 7, 8, 31, 32, 63, 64}}
Decimals == {[string |-> Decimal(n)] : n \in {-1, 0, 3, 4}}
HexStrings == {[string |-> t] : t \in {t \in HexTexts : Len(t.digits) \in {2, 3}}}
Underscored == [string |-> [underscored |-> 1]]
Junk == {[boolean |-> TRUE], [fraction |-> 1], [undefined |-> TRUE], [string |-> [bom |-> 1]],
         [array |-> << >>], [object |-> "amount" :> [number |-> 1]]}

FewJs == {[number |-> 1], [big |-> 3], [big |-> 4], [string |-> Hex("0x", <<"a", "0">>)]}

Arrays(items) == {[array |-> s] : s \in Seqs(items, 0..2)}
Objects(items) ==
    UNION {{[object |-> o] : o \in [names -> items]} :
             names \in {{}, {"amount"}, {"amount", "decimals"}, {"amount", "inner"},
                        {Unnamed}, {"amount", Unnamed}}}

JsFor(param) ==
    IF param.ty.dims # << >> \/ param.ty.base = "tuple" THEN
        LET small == {[number |-> 1], [big |-> 4]} IN
        Junk \cup Arrays(FewJs) \cup Objects(FewJs)
          \cup Arrays(Arrays(small)) \cup Arrays(Objects(small))
          \cup {[object |-> ("amount" :> a) @@ ("inner" :> i)] :
                  a \in FewJs, i \in Objects(small) \cup Arrays(small)}
    ELSE IF param.ty.base \in {"uint", "int"} THEN
        SafeNumbers \cup Bigs \cup Decimals \cup Junk
    ELSE HexStrings \cup Junk \cup {Underscored}

EncodeOf(param, values) ==
    {[op |-> "encode", abi |-> Abi(<<F(<<param>>, << >>)>>), name |-> "f",
      args |-> [array |-> <<js>>], viems |-> F(<<param>>, << >>)] : js \in values}

\* Too few and too many arguments, two functions of the name.
EncodeOdd ==
    {[op |-> "encode", abi |-> [parses |-> p, functions |-> fs], name |-> name,
      args |-> a, viems |-> F(<<P(Narrow, "x")>>, << >>)] :
        p \in BOOLEAN, name \in {"f", "g"},
        fs \in {<<F(<<P(Narrow, "x")>>, << >>)>>,
                <<F(<<P(Wide, "x")>>, << >>), F(<<P(Narrow, "x")>>, << >>)>>},
        a \in Arrays(FewJs) \cup {[number |-> 1]}}

EncodeRequests ==
    EncodeOdd
    \cup UNION {EncodeOf(P(ty, "x"), JsFor(P(ty, "x"))) : ty \in Uints \cup Ints \cup Others}
    \cup UNION {EncodeOf(param, JsFor(param)) : param \in Compounds}

\* Three arguments, none encoded as viem does: a number beyond the safe ones, digits with
\* an underscore, and an object that looks like a BigInt.
OddArguments ==
    <<[number |-> 32], Underscored, [object |-> BIGINT_TAG :> [string |-> Decimal(5)]]>>

OddCallRequests ==
    LET f == F([i \in 1..3 |-> P(Wide, "x")], << >>) IN
    {[op |-> "encode", abi |-> Abi(<<f>>), name |-> "f",
      args |-> [array |-> OddArguments], viems |-> f]} \cup EncodeOdd

---------------------------------------------------------------------------

HexRequests ==
    {[op |-> op, text |-> t] : op \in {"hexToBytes", "checksumAddress"},
                    t \in HexTexts \cup {Decimal(5), [underscored |-> 5], [bom |-> 1]}}
    \cup {[op |-> "bytesToHex", bytes |-> b] : b \in Seqs({"0", "a"}, {0, 2, 4})}

CallRequests == DecodeRequests \cup EncodeRequests \cup HexRequests

---------------------------------------------------------------------------
(* The sets of parameters and values, with their parts. *)

RECURSIVE ParamParts(_)
ParamParts(param) ==
    {param} \cup (IF param.ty.dims = << >> THEN {} ELSE ParamParts(Element(param)))
            \cup UNION {ParamParts(param.components[i]) : i \in DOMAIN param.components}

Scalars == {P(ty, "x") : ty \in Uints \cup Ints \cup Others}

CallParams == UNION {ParamParts(param) : param \in
    Scalars \cup Compounds \cup {TwoOutputs[1], TwoOutputs[2]}}

OddParams == CallParams \cup ParamParts(TagNamed)

RECURSIVE Depth(_)
Depth(param) ==
    Len(param.ty.dims) +
    (IF param.components = << >> THEN 0
     ELSE 1 + Max({Depth(param.components[i]) : i \in DOMAIN param.components}))

AllWires(param) ==
    WiresOf(param, IF param.ty.dims = << >> /\ param.ty.base # "tuple" THEN Words ELSE FewWords)

\* With every word for a bool.
OddWires(param) ==
    CASE param = TagNamed -> {OddWire[1]}
      [] param = TagNamed.components[1] -> {OddWire[1].items[1]}
      [] param.ty.base = "bool" /\ param.ty.dims = << >> -> {[word |-> n] : n \in Words}
      [] OTHER -> AllWires(param)

RECURSIVE JsParts(_)
JsParts(js) ==
    {js} \cup (CASE "array" \in DOMAIN js -> UNION {JsParts(x) : x \in Range(js.array)}
                 [] "object" \in DOMAIN js -> UNION {JsParts(x) : x \in Range(js.object)}
                 [] OTHER -> {})

Arguments == UNION {JsFor(param) : param \in Scalars \cup Compounds} \cup FewJs

CallJsValues ==
    UNION {JsParts(js) : js \in Arguments \cup Arrays(FewJs)}
        \cup {[array |-> <<js>>] : js \in Arguments}

OddJsValues == CallJsValues \cup JsParts([array |-> OddArguments])

---------------------------------------------------------------------------
(* The recursion: each operator is its own level.  (TLC's coverage follows a  *)
(* definition put for a constant without end, but for a LET.)                *)

MCZeroWidth(params) ==
    LET level == ZeroWidthAt(params) IN level

MCDynValue(param, wire) ==
    LET level == DynValueAt(param, wire) IN level

MCWire(value) ==
    LET level == WireAt(value) IN level

MCValue_to_json(param, value) ==
    LET level == value_to_json_at(param, value) IN level

MCJson_to_value(param, value) ==
    LET level == json_to_value_at(param, value) IN level

MCRichJsonStringify(js) ==
    LET level == richJsonStringifyAt(js) IN level

MCRichJsonParse(json) ==
    LET level == richJsonParseAt(json) IN level

MCViemEncodes(param, js, wire) ==
    LET level == ViemEncodesAt(param, js, wire) IN level

MCViemDecodes(param, wire, js) ==
    LET level == ViemDecodesAt(param, wire, js) IN level

MCCanonical(param, wire) ==
    LET level == CanonicalAt(param, wire) IN level

MCDistinctNames(params) ==
    LET level == DistinctNamesAt(params) IN level

MCAsRead(param, wire) ==
    LET level == AsReadAt(param, wire) IN level

===========================================================================
