-------------------------- MODULE NativeOrOriginal --------------------------
(***************************************************************************)
(* One JavaScript call of ethers or viem, served by the native module when *)
(* it can be and by the original otherwise.  The shims are not in this     *)
(* repository: README.md says that they fall back when the native module   *)
(* is missing or does not accept the input, and rust/src/lib.rs that every *)
(* error is a handover.                                                    *)
(*                                                                         *)
(* What the two ABI functions return, and what the app makes of their      *)
(* JSON, are parameters, which NativeOrViem has values for: the state      *)
(* machine and the three functions on hex are the same whatever those are. *)
(***************************************************************************)
EXTENDS HexReference

CONSTANTS
    Requests,    \* what the app may ask: records [op, ...]
    None,        \* no answer, no result
    Decoded(_),  \* what decodeFunctionResult returns for a request
    Encoded(_),  \* what encodeFunctionData returns for a request
    Parsed(_)    \* the JavaScript value of a JSON value

Texts ==
    [prefixes : Seq({HEX_PREFIX, HEX_PREFIX_UPPER}), digits : Seq(HexDigits \cup {"z"})]
        \cup [decimal : Int] \cup [underscored : Int] \cup [bom : Nat]

Bytes == {digits \in Seq({"0", "a"}) : Len(digits) % 2 = 0}

Addresses == {digits \in Seq({"0", "a"}) : Len(digits) = AddressDigits}

ASSUME RequestsAssumption ==
    \A q \in Requests :
        /\ q.op \in {"hexToBytes", "checksumAddress"} => q.text \in Texts
        /\ q.op = "bytesToHex" => q.bytes \in Bytes

VARIABLES
    installed,  \* whether the native module loaded
    request,
    stage,
    result,     \* what the native function returned
    answer      \* what the shim returned: [native] or [original]

shimVars == <<installed, request, stage, result, answer>>

Init ==
    /\ installed \in BOOLEAN
    /\ request = None
    /\ stage = "idle"
    /\ result = None
    /\ answer = None

Ask ==
    /\ stage = "idle"
    /\ stage' = "asked"
    /\ request' \in Requests
    /\ UNCHANGED <<installed, result, answer>>

\* The caller has its answer.
Done ==
    /\ stage = "answered"
    /\ stage' = "idle"
    /\ request' = None
    /\ result' = None
    /\ answer' = None
    /\ UNCHANGED installed

\* The native function is called.
Native(op) == stage = "asked" /\ installed /\ request.op = op

\* It returns, an AbiError for an Err.
Return(r) ==
    /\ stage' = "returned"
    /\ result' = r
    /\ UNCHANGED <<installed, request, answer>>

Decode ==
    /\ Native("decode")
    /\ Return(Decoded(request))

Encode ==
    /\ Native("encode")
    /\ Return(Encoded(request))

HexToBytes ==
    /\ Native("hexToBytes")
    /\ Return(hex_to_bytes(request.text))

BytesToHex ==
    /\ Native("bytesToHex")
    /\ Return(Ok(bytes_to_hex(request.bytes)))

ChecksumAddress ==
    /\ Native("checksumAddress")
    /\ Return(checksum_address(request.text))

Answer(a) ==
    /\ stage' = "answered"
    /\ answer' = a
    /\ UNCHANGED <<installed, request, result>>

AnswerNatively ==
    /\ stage = "returned"
    /\ ~ IsErr(result)
    /\ Answer([native |-> IF request.op = "decode" THEN Parsed(result.ok)
                                                   ELSE result.ok])

HandOver ==
    /\ \/ stage = "asked" /\ ~ installed
       \/ stage = "returned" /\ IsErr(result)
    /\ Answer([original |-> request])

Next ==
    \/ Ask \/ Done
    \/ Decode \/ Encode \/ HexToBytes \/ BytesToHex \/ ChecksumAddress
    \/ AnswerNatively \/ HandOver

Spec == Init /\ [][Next]_shimVars

---------------------------------------------------------------------------

Natively(op) ==
    stage = "answered" /\ "native" \in DOMAIN answer /\ request.op = op

HandedOver(op) ==
    stage = "answered" /\ "original" \in DOMAIN answer /\ installed /\ request.op = op

\* Hex is read as ethers reads it, and what is not hex to ethers goes to ethers.
HexAsEthers ==
    /\ Natively("hexToBytes") =>
         /\ IsBytesLike(request.text)
         /\ answer.native = Lower(request.text.digits)
    /\ HandedOver("hexToBytes") => ~ IsBytesLike(request.text)

\* bytes_to_hex and hex_to_bytes are inverse, and viem's reader agrees with
\* ethers' on everything bytes_to_hex writes.
HexRoundTrip ==
    Natively("bytesToHex") =>
        /\ hex_to_bytes(answer.native) = Ok(request.bytes)
        /\ decode_viem_hex(answer.native) = Ok(request.bytes)

\* A checksum is recomputed whatever case the address came in, for exactly the
\* addresses viem recognises; the result is its own checksum, and the strict
\* parser on the encoding side takes it.
ChecksumAsViem ==
    /\ Natively("checksumAddress") =>
         /\ IsViemAddress(request.text)
         /\ IsChecksumOf(answer.native, Lower(request.text.digits))
         /\ checksum_address(answer.native) = Ok(answer.native)
         /\ ~ IsErr(parse_viem_strict_address(answer.native))
    /\ HandedOver("checksumAddress") => ~ IsViemAddress(request.text)

===========================================================================
