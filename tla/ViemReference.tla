--------------------------- MODULE ViemReference ---------------------------
(***************************************************************************)
(* What stands on the JavaScript side of the exported functions, none of   *)
(* it in this repository: JavaScript numbers, the richJson codec, and what *)
(* ethers and viem answer.  It is written from what rust/src/lib.rs and    *)
(* its tests say of them, and as relations, so that it is no second copy   *)
(* of the code: ViemEncodes and ViemDecodes say which JavaScript value and *)
(* which wire value belong together, not how one is made of the other.     *)
(*                                                                         *)
(* A JavaScript value is [number], [fraction] (a number that is no         *)
(* integer), [big], [string], [boolean], [array], [object] or [undefined]. *)
(***************************************************************************)
EXTENDS AbiCoding, HexReference

CONSTANTS
    richJsonStringify(_),  \* JavaScript value
    richJsonParse(_),      \* JSON
    ViemEncodes(_, _, _),  \* parameter, JavaScript value, wire
    ViemDecodes(_, _, _)   \* parameter, wire, JavaScript value

Abs(n) == IF n < 0 THEN -n ELSE n

\* The distance between neighbouring doubles at n.
Spacing(n) ==
    LET Within(k) == Abs(n) <= (JS_MAX_SAFE_INTEGER + 1) * Pow2[k]
    IN  Pow2[CHOOSE k \in 0..WORD_BITS : Within(k) /\ \A j \in 0..(k - 1) : ~ Within(j)]

\* The double a decimal literal is read as: the nearest, or the even one of two.
Double(n) ==
    LET step == Spacing(n)
        below == (n \div step) * step
        above == below + step
    IN  CASE n - below < above - n -> below
          [] n - below > above - n -> above
          [] OTHER -> IF (below \div step) % 2 = 0 THEN below ELSE above

\* The decimal literal a double is written as: of those that read back as it, the
\* one with the most trailing zeros, and of those the nearest.
Printed(n) ==
    LET near == {t \in (n - Spacing(n))..(n + Spacing(n)) : Double(t) = n}
        Round(k) == {t \in near : t % 10^k = 0}
        most == CHOOSE k \in 0..WORD_BITS : Round(k) # {} /\ Round(k + 1) \subseteq {0}
    IN  IF Abs(n) <= JS_MAX_SAFE_INTEGER THEN n
        ELSE CHOOSE t \in Round(most) : \A u \in Round(most) : Abs(t - n) <= Abs(u - n)

richJsonStringifyAt(js) ==
    CASE "number" \in DOMAIN js -> [num |-> Printed(js.number)]
      [] "fraction" \in DOMAIN js -> [float |-> js.fraction]
      [] "big" \in DOMAIN js -> bigint_tag(js.big)
      [] "string" \in DOMAIN js -> [str |-> js.string]
      [] "boolean" \in DOMAIN js -> [bool |-> js.boolean]
      [] "array" \in DOMAIN js ->
           [arr |-> [i \in DOMAIN js.array |-> richJsonStringify(js.array[i])]]
      [] "object" \in DOMAIN js ->
           [obj |-> [key \in DOMAIN js.object |-> richJsonStringify(js.object[key])]]
      [] OTHER -> [null |-> TRUE]

\* An object that is nothing but the tag is a BigInt.
IsTag(json) ==
    /\ DOMAIN json.obj = {BIGINT_TAG}
    /\ "str" \in DOMAIN json.obj[BIGINT_TAG]
    /\ "decimal" \in DOMAIN json.obj[BIGINT_TAG].str

richJsonParseAt(json) ==
    CASE "num" \in DOMAIN json -> [number |-> Double(json.num)]
      [] "str" \in DOMAIN json -> [string |-> json.str]
      [] "bool" \in DOMAIN json -> [boolean |-> json.bool]
      [] "arr" \in DOMAIN json ->
           [array |-> [i \in DOMAIN json.arr |-> richJsonParse(json.arr[i])]]
      [] "obj" \in DOMAIN json ->
           IF IsTag(json) THEN [big |-> json.obj[BIGINT_TAG].str.decimal]
           ELSE [object |-> [key \in DOMAIN json.obj |-> richJsonParse(json.obj[key])]]
      [] OTHER -> [undefined |-> TRUE]

---------------------------------------------------------------------------
(* viem on ABI values. *)

Bounds(ty) ==
    IF ty.base = "uint" THEN 0 .. (Pow2[ty.size] - 1)
                        ELSE -Pow2[ty.size - 1] .. (Pow2[ty.size - 1] - 1)

\* BigInt(js) = n.  An underscore is a SyntaxError to it.
IsInteger(js, n) ==
    \/ "number" \in DOMAIN js /\ js.number = n
    \/ "big" \in DOMAIN js /\ js.big = n
    \/ "string" \in DOMAIN js /\ js.string = Decimal(n)

SignedWord(ty, wire) ==
    IF ty.base = "int" /\ wire.word >= Pow2[WORD_BITS - 1] THEN wire.word - Pow2[WORD_BITS]
                                                         ELSE wire.word

\* What an array of viem's has in each place: the last dimension is the outermost.
Element(param) == [param EXCEPT !.ty.dims = Front(@), !.name = Unnamed]

\* viem encodes js, passed for param, as wire.
ViemEncodesAt(param, js, wire) ==
    LET ty == param.ty IN
    IF ty.dims # << >> THEN
        /\ "array" \in DOMAIN js
        /\ DOMAIN wire.items = DOMAIN js.array
        /\ Last(ty.dims) \in {Dynamic, Len(wire.items)}
        /\ \A i \in DOMAIN wire.items :
             ViemEncodes(Element(param), js.array[i], wire.items[i])
    ELSE
    CASE ty.base = "tuple" ->
           /\ param.components # << >>
           /\ DOMAIN wire.items = DOMAIN param.components
           /\ \A i \in DOMAIN wire.items : LET field == param.components[i] IN
                \/ /\ "array" \in DOMAIN js /\ i \in DOMAIN js.array
                   /\ ViemEncodes(field, js.array[i], wire.items[i])
                \/ /\ "object" \in DOMAIN js /\ field.name \in DOMAIN js.object
                   /\ ViemEncodes(field, js.object[field.name], wire.items[i])
      [] ty.base \in {"uint", "int"} ->
           /\ SignedWord(ty, wire) \in Bounds(ty)
           /\ IsInteger(js, SignedWord(ty, wire))
      [] ty.base = "bool" ->
           "boolean" \in DOMAIN js /\ wire.word = IF js.boolean THEN 1 ELSE 0
      [] ty.base = "string" -> "string" \in DOMAIN js /\ js.string = wire.text
      [] ty.base = "address" ->
           /\ "string" \in DOMAIN js
           /\ IsStrictAddress(js.string)
           /\ Lower(js.string.digits) = wire.hex
      [] ty.base \in {"bytes", "fixed"} ->
           /\ "string" \in DOMAIN js
           /\ IsHex(js.string, {HEX_PREFIX})
           /\ Lower(js.string.digits) = wire.hex
           /\ ty.base = "fixed" => Len(wire.hex) = 2 * ty.size
      [] OTHER -> FALSE

\* viem reads wire, returned for param, as js.
ViemDecodesAt(param, wire, js) ==
    LET ty == param.ty
        names == {param.components[i].name : i \in DOMAIN param.components}
    IN
    IF ty.dims # << >> THEN
        /\ "array" \in DOMAIN js
        /\ DOMAIN js.array = DOMAIN wire.items
        /\ \A i \in DOMAIN wire.items :
             ViemDecodes(Element(param), wire.items[i], js.array[i])
    ELSE
    CASE ty.base = "tuple" ->
           IF Unnamed \in names \/ names = {} THEN
               /\ "array" \in DOMAIN js
               /\ DOMAIN js.array = DOMAIN param.components
               /\ \A i \in DOMAIN wire.items :
                    ViemDecodes(param.components[i], wire.items[i], js.array[i])
           ELSE
               /\ "object" \in DOMAIN js
               /\ DOMAIN js.object = names
               /\ \A i \in DOMAIN wire.items :
                    (\A j \in (i + 1)..Len(wire.items) :
                         param.components[j].name # param.components[i].name)
                      => ViemDecodes(param.components[i], wire.items[i],
                               js.object[param.components[i].name])
      [] ty.base \in {"uint", "int"} ->
           IF ty.size > JS_SAFE_INT_BITS THEN js = [big |-> SignedWord(ty, wire)]
           ELSE /\ js = [number |-> SignedWord(ty, wire)]
                /\ Abs(js.number) <= JS_MAX_SAFE_INTEGER
      [] ty.base = "bool" ->
           wire.word \in {0, 1} /\ js = [boolean |-> wire.word = 1]
      [] ty.base = "string" ->
           js = [string |-> IF "bom" \in DOMAIN wire.text /\ wire.text.bom # 0
                            THEN [bom |-> wire.text.bom - 1] ELSE wire.text]
      [] ty.base = "address" ->
           "string" \in DOMAIN js /\ IsChecksumOf(js.string, wire.hex)
      [] ty.base \in {"bytes", "fixed"} -> js = [string |-> Hex(HEX_PREFIX, wire.hex)]
      [] OTHER -> FALSE

===========================================================================
