---------------------------- MODULE AbiScalars ----------------------------
(***************************************************************************)
(* The scalar half of rust/src/lib.rs: prefixed hex, addresses, integers   *)
(* that must survive JSON and JavaScript numbers, and the coercion of one  *)
(* JSON value to one scalar ABI type.                                      *)
(*                                                                         *)
(* A string is one of four kinds of text, told apart by their fields:      *)
(*                                                                         *)
(*   [prefixes, digits]  a hex literal: its 0x or 0X prefixes, then hex    *)
(*                       characters; "0" has no case, "a" and "A" are one  *)
(*                       letter in both cases, "z" is no hex digit         *)
(*   [decimal]           the decimal digits of an integer                  *)
(*   [underscored]       the same with underscores among them, which the   *)
(*                       integer parsers of Rust skip                      *)
(*   [bom]               words, after that many byte order marks           *)
(*                                                                         *)
(* Widths are parameters, so that a small instance has its own word, its   *)
(* own safe integers and its own 64-bit integers, in the same order.       *)
(***************************************************************************)
EXTENDS Integers, Sequences

CONSTANTS
    WORD_BITS,            \* bits of an ABI word, 256
    JS_SAFE_INT_BITS,     \* widest type viem gives as a number, 48
    JS_MAX_SAFE_INTEGER,  \* 2^53 - 1
    I64_BITS,             \* 64
    AddressDigits,        \* hex digits of an address, 40
    UpperAt               \* address -> the positions EIP-55 writes in upper case

ASSUME WidthsAssumption ==
    /\ WORD_BITS \in Nat \ {0}
    /\ JS_SAFE_INT_BITS \in 1 .. WORD_BITS
    /\ JS_MAX_SAFE_INTEGER \in Nat
    /\ I64_BITS \in 1 .. WORD_BITS
    /\ AddressDigits \in Nat

---------------------------------------------------------------------------
(* Result<T, AbiError>. *)

Ok(v) == [ok |-> v]

Err(variant) == [err |-> variant]

IsErr(r) == "err" \in DOMAIN r

\* The ? operator.
Then(r, F(_)) == IF IsErr(r) THEN r ELSE F(r.ok)

\* collect::<Result<Vec<_>, _>>(): every value, or the first error.
Collect(rs) ==
    IF \E i \in DOMAIN rs : IsErr(rs[i])
    THEN LET first == CHOOSE i \in DOMAIN rs :
                        IsErr(rs[i]) /\ \A j \in 1..(i - 1) : ~ IsErr(rs[j])
         IN  rs[first]
    ELSE Ok([i \in DOMAIN rs |-> rs[i].ok])

---------------------------------------------------------------------------
(* Hex literals. *)

HEX_PREFIX == "0x"
HEX_PREFIX_UPPER == "0X"

HexDigits == {"0", "a", "A"}

Lower(digits) == [i \in DOMAIN digits |-> IF digits[i] = "A" THEN "a" ELSE digits[i]]

Hex(prefix, digits) == [prefixes |-> <<prefix>>, digits |-> digits]

\* Any other text, read as hex, is a word of no hex digit.
AsHex(text) ==
    IF "digits" \in DOMAIN text THEN text
    ELSE [prefixes |-> << >>, digits |-> <<"z">>]

StartsWith(text, prefixes) ==
    text.prefixes # << >> /\ Head(text.prefixes) \in prefixes

DropPrefix(text) == [text EXCEPT !.prefixes = Tail(@)]

\* One prefix, of either case.
strip_one_hex_prefix(text) ==
    IF StartsWith(text, {HEX_PREFIX, HEX_PREFIX_UPPER})
    THEN Ok(DropPrefix(text))
    ELSE Err("InvalidHex")

reject_repeated_hex_prefix(body) ==
    IF IsErr(strip_one_hex_prefix(body)) THEN Ok(body) ELSE Err("InvalidHex")

ethers_hex_body(text) ==
    Then(strip_one_hex_prefix(text), reject_repeated_hex_prefix)

viem_hex_body(text) ==
    IF StartsWith(text, {HEX_PREFIX})
    THEN reject_repeated_hex_prefix(DropPrefix(text))
    ELSE Err("InvalidHex")

\* hex::decode, which strips a prefix of its own and wants whole bytes.
hex_decode(body) ==
    LET rest == IF StartsWith(body, {HEX_PREFIX}) THEN DropPrefix(body) ELSE body
    IN  IF /\ rest.prefixes = << >>
           /\ \A i \in DOMAIN rest.digits : rest.digits[i] \in HexDigits
           /\ Len(rest.digits) % 2 = 0
        THEN Ok(Lower(rest.digits))
        ELSE Err("InvalidHex")

decode_viem_hex(text) == Then(viem_hex_body(AsHex(text)), hex_decode)

\* The slip: hex::encode in place of hex::encode_prefixed.
bytes_to_bare_hex(bytes) == [prefixes |-> << >>, digits |-> bytes]

\* hex::encode_prefixed.
bytes_to_hex(bytes) == Hex(HEX_PREFIX, bytes)

\* The slip: viem's prefix rule where ethers' is wanted.
hex_to_bytes_lower_only(text) == decode_viem_hex(text)

hex_to_bytes(text) == Then(ethers_hex_body(AsHex(text)), hex_decode)

---------------------------------------------------------------------------
(* Addresses, kept as their lower-case digits. *)

\* Address::from_str, which takes either prefix or none.
address_from_str(text) ==
    LET body == IF text.prefixes = << >> THEN text ELSE DropPrefix(text)
    IN  IF /\ body.prefixes = << >>
           /\ \A i \in DOMAIN body.digits : body.digits[i] \in HexDigits
           /\ Len(body.digits) = AddressDigits
        THEN Ok(Lower(body.digits))
        ELSE Err("InvalidAddress")

\* Address::to_checksum(None).
to_checksum(address) ==
    Hex(HEX_PREFIX, [i \in DOMAIN address |->
                       IF address[i] = "a" /\ i \in UpperAt[address] THEN "A"
                                                                     ELSE address[i]])

\* The slip: whatever Address::from_str takes.
parse_any_address(text) == address_from_str(text)

parse_viem_address(text) ==
    IF StartsWith(text, {HEX_PREFIX}) THEN address_from_str(text)
                                      ELSE Err("InvalidAddress")

\* An upper-case digit anywhere holds the whole address to its checksum.
parse_viem_strict_address(text) ==
    LET parsed == parse_viem_address(AsHex(text)) IN
    IF /\ ~ IsErr(parsed)
       /\ \E i \in DOMAIN text.digits : text.digits[i] = "A"
       /\ to_checksum(parsed.ok) # text
    THEN Err("InvalidAddress")
    ELSE parsed

checksum_address(text) ==
    LET parsed == parse_viem_address(AsHex(text)) IN
    IF IsErr(parsed) THEN parsed ELSE Ok(to_checksum(parsed.ok))

---------------------------------------------------------------------------
(* Powers of two, up to the width of a word. *)

Pow2[k \in 0 .. WORD_BITS] == IF k = 0 THEN 1 ELSE 2 * Pow2[k - 1]

\* Every type viem gives as a number is safe, and every safe integer is an i64.
ASSUME SafeIntegersAssumption ==
    /\ Pow2[JS_SAFE_INT_BITS] - 1 <= JS_MAX_SAFE_INTEGER
    /\ JS_MAX_SAFE_INTEGER <= Pow2[I64_BITS - 1] - 1

---------------------------------------------------------------------------
(* JSON, as serde_json sees it: [null], [bool], [num] (an integer), [float], *)
(* [str], [arr], [obj] with one value per key.                               *)

BIGINT_TAG == "$bigint"

Decimal(n) == [decimal |-> n]

bigint_tag(n) == [obj |-> [key \in {BIGINT_TAG} |-> [str |-> Decimal(n)]]]

I64 == -Pow2[I64_BITS - 1] .. (Pow2[I64_BITS - 1] - 1)

U64 == 0 .. (Pow2[I64_BITS] - 1)

\* The slip: the range is the one of an unsigned number.
int_to_json_unsigned(n, size) ==
    IF size > JS_SAFE_INT_BITS THEN Ok(bigint_tag(n))
    ELSE IF n \in 0 .. JS_MAX_SAFE_INTEGER THEN Ok([num |-> n])
    ELSE Err("DecodeFailed")

\* The decoded word may be wider than the declared size.
int_to_json(n, size) ==
    IF size > JS_SAFE_INT_BITS THEN Ok(bigint_tag(n))
    ELSE IF n \in I64 /\ n \in -JS_MAX_SAFE_INTEGER .. JS_MAX_SAFE_INTEGER
    THEN Ok([num |-> n])
    ELSE Err("DecodeFailed")

\* The text of an integer argument: a tag, a string or an exact JSON number.
arg_to_decimal(value) ==
    IF /\ "obj" \in DOMAIN value
       /\ BIGINT_TAG \in DOMAIN value.obj
       /\ "str" \in DOMAIN value.obj[BIGINT_TAG]
    THEN Ok(value.obj[BIGINT_TAG].str)
    ELSE IF "str" \in DOMAIN value THEN Ok(value.str)
    ELSE IF "num" \in DOMAIN value /\ value.num \in I64 \cup U64
    THEN Ok(Decimal(value.num))
    ELSE Err("InvalidArgument")

arg_to_str(value) ==
    IF "str" \in DOMAIN value THEN Ok(value.str) ELSE Err("InvalidArgument")

---------------------------------------------------------------------------
(* coerce_scalar, one arm of its match at a time.  A DynSolValue is a record *)
(* whose first field names the variant.                                      *)

\* What U256::from_str_radix and I256::from_dec_str read in a text.
Parsed10(text) == IF "underscored" \in DOMAIN text THEN text.underscored ELSE text.decimal

FitsWord(text, range) ==
    ("decimal" \in DOMAIN text \/ "underscored" \in DOMAIN text) /\ Parsed10(text) \in range

\* The slip: the width itself is out of range.
coerce_uint_narrow(size, text) ==
    IF ~ FitsWord(text, 0 .. (Pow2[WORD_BITS] - 1)) THEN Err("InvalidArgument")
    ELSE IF Parsed10(text) >= Pow2[size - 1] THEN Err("IntegerOutOfRange")
    ELSE Ok([uint |-> Parsed10(text), size |-> size])

coerce_uint(size, text) ==
    IF ~ FitsWord(text, 0 .. (Pow2[WORD_BITS] - 1)) THEN Err("InvalidArgument")
    ELSE IF Parsed10(text) >= Pow2[size] THEN Err("IntegerOutOfRange")
    ELSE Ok([uint |-> Parsed10(text), size |-> size])

\* The slip: the magnitude is compared, and the sign bit forgotten.
coerce_int_magnitude(size, text) ==
    IF ~ FitsWord(text, -Pow2[WORD_BITS - 1] .. (Pow2[WORD_BITS - 1] - 1))
    THEN Err("InvalidArgument")
    ELSE IF Parsed10(text) \notin -Pow2[size] .. (Pow2[size] - 1)
    THEN Err("IntegerOutOfRange")
    ELSE Ok([int |-> Parsed10(text), size |-> size])

coerce_int(size, text) ==
    IF ~ FitsWord(text, -Pow2[WORD_BITS - 1] .. (Pow2[WORD_BITS - 1] - 1))
    THEN Err("InvalidArgument")
    ELSE IF Parsed10(text) \notin -Pow2[size - 1] .. (Pow2[size - 1] - 1)
    THEN Err("IntegerOutOfRange")
    ELSE Ok([int |-> Parsed10(text), size |-> size])

coerce_fixed_bytes(size, bytes) ==
    IF Len(bytes) # 2 * size THEN Err("BytesSizeMismatch")
    ELSE Ok([fixed |-> bytes, size |-> size])

coerce_scalar(ty, value) ==
    CASE ty.base = "bool" ->
           IF "bool" \in DOMAIN value THEN Ok([bool |-> value.bool])
                                      ELSE Err("InvalidArgument")
      [] ty.base = "uint" ->
           Then(arg_to_decimal(value), LAMBDA text : coerce_uint(ty.size, text))
      [] ty.base = "int" ->
           Then(arg_to_decimal(value), LAMBDA text : coerce_int(ty.size, text))
      [] ty.base = "address" ->
           Then(Then(arg_to_str(value), parse_viem_strict_address),
                LAMBDA digits : Ok([address |-> digits]))
      [] ty.base = "bytes" ->
           Then(Then(arg_to_str(value), decode_viem_hex),
                LAMBDA bytes : Ok([bytes |-> bytes]))
      [] ty.base = "fixed" ->
           Then(Then(arg_to_str(value), decode_viem_hex),
                LAMBDA bytes : coerce_fixed_bytes(ty.size, bytes))
      [] ty.base = "string" ->
           Then(arg_to_str(value), LAMBDA text : Ok([string |-> text]))
      [] OTHER -> Err("UnsupportedType")

===========================================================================
