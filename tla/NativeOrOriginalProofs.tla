----------------------- MODULE NativeOrOriginalProofs -----------------------
(***************************************************************************)
(* Whatever the ABI functions do, a call on hex that is served natively is *)
(* served as the original would, and one that is handed over had to be:    *)
(* for texts of any length, with any prefixes, and for addresses of any    *)
(* number of digits under any checksum.                                    *)
(*                                                                         *)
(* The first half is what hex_to_bytes, decode_viem_hex and                *)
(* parse_viem_address accept and return, exactly; the second carries it    *)
(* from the call to the answer.                                            *)
(***************************************************************************)
EXTENDS NativeOrOriginal, TLAPS

HexTexts ==
    [prefixes : Seq({HEX_PREFIX, HEX_PREFIX_UPPER}), digits : Seq(HexDigits \cup {"z"})]

\* A value is no error, and an error is one.
LEMMA Results ==
    /\ \A v : ~ IsErr(Ok(v)) /\ Ok(v).ok = v
    /\ \A variant : IsErr(Err(variant))
  BY DEF IsErr, Ok, Err

\* Only a hex literal has digits.
LEMMA OnlyHexHasDigits ==
    ASSUME NEW text \in Texts
    PROVE  "digits" \in DOMAIN text <=> text \in HexTexts
  BY DEF Texts, HexTexts

\* What is read as hex is a hex literal.
LEMMA AsHexIsHex ==
    ASSUME NEW text \in Texts
    PROVE  /\ AsHex(text) \in HexTexts
           /\ text \in HexTexts => AsHex(text) = text
           /\ text \notin HexTexts => AsHex(text) = [prefixes |-> << >>, digits |-> <<"z">>]
<1>1. [prefixes |-> << >>, digits |-> <<"z">>] \in HexTexts
  BY DEF HexTexts
<1> QED BY <1>1, OnlyHexHasDigits DEF AsHex

\* A sequence without elements is the empty one.
LEMMA EmptyOrNot ==
    ASSUME NEW S, NEW s \in Seq(S)
    PROVE  s = << >> <=> Len(s) = 0
  OBVIOUS

\* One prefix and no more leaves digits and no prefix.
LEMMA OnePrefix ==
    ASSUME NEW text \in HexTexts
    PROVE  /\ StartsWith(text, {HEX_PREFIX, HEX_PREFIX_UPPER}) <=> text.prefixes # << >>
           /\ Len(text.prefixes) = 1 <=> text.prefixes # << >> /\ Tail(text.prefixes) = << >>
           /\ text.prefixes # << >> => DropPrefix(text) \in HexTexts
           /\ DropPrefix(text).prefixes = Tail(text.prefixes)
           /\ DropPrefix(text).digits = text.digits
<1>1. text.prefixes \in Seq({HEX_PREFIX, HEX_PREFIX_UPPER})
  BY DEF HexTexts
<1>2. text.prefixes # << >> =>
        /\ Head(text.prefixes) \in {HEX_PREFIX, HEX_PREFIX_UPPER}
        /\ Tail(text.prefixes) \in Seq({HEX_PREFIX, HEX_PREFIX_UPPER})
  BY <1>1
<1>3. DropPrefix(text).prefixes = Tail(text.prefixes) /\ DropPrefix(text).digits = text.digits
  BY DEF DropPrefix, HexTexts
<1>4. Len(text.prefixes) = 1 <=> text.prefixes # << >> /\ Tail(text.prefixes) = << >>
  <2> DEFINE p == text.prefixes
  <2>1. p \in Seq({HEX_PREFIX, HEX_PREFIX_UPPER})
    BY <1>1
  <2> HIDE DEF p
  <2>2. p # << >> => Len(Tail(p)) = Len(p) - 1 /\ Tail(p) \in Seq({HEX_PREFIX, HEX_PREFIX_UPPER})
    BY <2>1
  <2>3. p = << >> <=> Len(p) = 0
    BY <2>1, EmptyOrNot
  <2>4. p # << >> => (Tail(p) = << >> <=> Len(Tail(p)) = 0)
    BY <2>2, EmptyOrNot
  <2>5. Len(p) \in Nat
    BY <2>1
  <2>6. CASE p = << >>
    <3>1. Len(p) # 1
      BY <2>3, <2>6
    <3> QED BY <2>6, <3>1 DEF p
  <2>7. CASE p # << >>
    <3>1. Len(p) = 1 <=> Len(Tail(p)) = 0
      <4>1. Len(Tail(p)) = Len(p) - 1
        BY <2>2, <2>7
      <4> QED BY <2>5, <4>1
    <3>2. Tail(p) = << >> <=> Len(Tail(p)) = 0
      BY <2>4, <2>7
    <3> QED BY <2>7, <3>1, <3>2, Zenon DEF p
  <2> QED BY <2>6, <2>7
<1>5. text.prefixes # << >> => DropPrefix(text) \in HexTexts
  <2> SUFFICES ASSUME text.prefixes # << >> PROVE DropPrefix(text) \in HexTexts
    OBVIOUS
  <2>1. Tail(text.prefixes) \in Seq({HEX_PREFIX, HEX_PREFIX_UPPER})
    BY <1>2
  <2> DEFINE rest == Tail(text.prefixes)
  <2>2. DropPrefix(text) = [text EXCEPT !.prefixes = rest]
    BY DEF DropPrefix, HexTexts
  <2>3. rest \in Seq({HEX_PREFIX, HEX_PREFIX_UPPER})
    BY <2>1
  <2> HIDE DEF rest
  <2> QED BY <2>2, <2>3 DEF HexTexts
<1> QED BY <1>2, <1>3, <1>4, <1>5 DEF StartsWith

\* A body with a prefix of its own is refused.
LEMMA RepeatedPrefixes ==
    ASSUME NEW text \in HexTexts
    PROVE  reject_repeated_hex_prefix(text) =
             IF text.prefixes = << >> THEN Ok(text) ELSE Err("InvalidHex")
  BY OnePrefix, Results DEF reject_repeated_hex_prefix, strip_one_hex_prefix

\* Whole bytes of hex digits are decoded, in lower case, and nothing else is.
LEMMA Decoding ==
    ASSUME NEW text \in HexTexts, text.prefixes = << >>
    PROVE  hex_decode(text) =
             IF (\A i \in DOMAIN text.digits : text.digits[i] \in HexDigits)
                  /\ Len(text.digits) % 2 = 0
             THEN Ok(Lower(text.digits)) ELSE Err("InvalidHex")
  BY DEF hex_decode, StartsWith

\* hex_to_bytes takes what ethers takes for bytes, and nothing else.
LEMMA HexToBytesIsEthers ==
    ASSUME NEW text \in Texts
    PROVE  IF IsBytesLike(text) THEN hex_to_bytes(text) = Ok(Lower(text.digits))
                                ELSE IsErr(hex_to_bytes(text))
<1> DEFINE hex == AsHex(text)
           body == DropPrefix(hex)
<1>1. hex \in HexTexts
  BY AsHexIsHex
<1>2. ethers_hex_body(hex) =
        IF Len(hex.prefixes) = 1 THEN Ok(body) ELSE Err("InvalidHex")
  <2> HIDE DEF hex
  <2>1. CASE hex.prefixes = << >>
    <3>1. strip_one_hex_prefix(hex) = Err("InvalidHex")
      BY <1>1, <2>1, OnePrefix DEF strip_one_hex_prefix
    <3>2. Len(hex.prefixes) # 1
      BY <2>1
    <3> QED BY <3>1, <3>2, Results DEF ethers_hex_body, Then
  <2>2. CASE hex.prefixes # << >>
    <3>1. strip_one_hex_prefix(hex) = Ok(body)
      BY <1>1, <2>2, OnePrefix DEF strip_one_hex_prefix
    <3>2. ethers_hex_body(hex) = reject_repeated_hex_prefix(body)
      BY <3>1, Results DEF ethers_hex_body, Then
    <3>3. body \in HexTexts /\ body.prefixes = Tail(hex.prefixes)
      BY <1>1, <2>2, OnePrefix
    <3>4. reject_repeated_hex_prefix(body) =
            IF body.prefixes = << >> THEN Ok(body) ELSE Err("InvalidHex")
      BY <3>3, RepeatedPrefixes
    <3>5. Len(hex.prefixes) = 1 <=> body.prefixes = << >>
      BY <1>1, <2>2, <3>3, OnePrefix
    <3> QED BY <3>2, <3>4, <3>5
  <2> QED BY <2>1, <2>2
<1>3. hex_to_bytes(text) =
        IF Len(hex.prefixes) = 1 THEN hex_decode(body) ELSE Err("InvalidHex")
  BY <1>2, Results DEF hex_to_bytes, Then
<1>4. Len(hex.prefixes) = 1 =>
        body \in HexTexts /\ body.prefixes = << >> /\ body.digits = hex.digits
  BY <1>1, OnePrefix
<1>5. CASE text \in HexTexts
  <2>1. hex = text
    BY <1>5, AsHexIsHex
  <2>2. IsBytesLike(text) <=>
          /\ Len(text.prefixes) = 1
          /\ \A i \in DOMAIN text.digits : text.digits[i] \in HexDigits
          /\ Len(text.digits) % 2 = 0
    <3>1. Len(text.prefixes) = 1 => Head(text.prefixes) \in {HEX_PREFIX, HEX_PREFIX_UPPER}
      BY <1>5 DEF HexTexts
    <3>2. "digits" \in DOMAIN text
      BY <1>5, OnlyHexHasDigits
    <3> QED BY <3>1, <3>2 DEF IsBytesLike, IsHex
  <2> HIDE DEF hex, body
  <2> QED BY <1>3, <1>4, <2>1, <2>2, Decoding, Results
<1>6. CASE text \notin HexTexts
  <2>1. ~ IsBytesLike(text)
    BY <1>6, OnlyHexHasDigits DEF IsBytesLike, IsHex
  <2>2. hex.prefixes = << >>
    BY <1>6, AsHexIsHex
  <2>3. Len(hex.prefixes) # 1
    BY <2>2
  <2> QED BY <1>3, <2>1, <2>3, Results
<1> QED BY <1>5, <1>6


\* Bytes are written as hex that both ethers and viem read as them.
LEMMA BytesComeBack ==
    ASSUME NEW bytes \in Bytes
    PROVE  /\ hex_to_bytes(bytes_to_hex(bytes)) = Ok(bytes)
           /\ decode_viem_hex(bytes_to_hex(bytes)) = Ok(bytes)
<1> DEFINE text == bytes_to_hex(bytes)
           body == DropPrefix(text)
<1>1. /\ bytes \in Seq({"0", "a"}) /\ Len(bytes) % 2 = 0
      /\ \A i \in DOMAIN bytes : bytes[i] \in {"0", "a"}
      /\ bytes \in Seq(HexDigits \cup {"z"})
  BY DEF Bytes, HexDigits
<1>2. text.prefixes = <<HEX_PREFIX>> /\ text.digits = bytes
  BY DEF bytes_to_hex, Hex
<1>3. text \in HexTexts /\ text \in Texts
  BY <1>1 DEF bytes_to_hex, Hex, HexTexts, Texts
<1>4. Lower(bytes) = bytes
  <2>1. bytes = [i \in DOMAIN bytes |-> bytes[i]]
    BY <1>1
  <2>2. \A i \in DOMAIN bytes : bytes[i] # "A"
    BY <1>1
  <2> QED BY <2>1, <2>2 DEF Lower
<1>5. \A i \in DOMAIN bytes : bytes[i] \in HexDigits
  BY <1>1 DEF HexDigits
<1> HIDE DEF text
<1>6. Len(text.prefixes) = 1 /\ Head(text.prefixes) = HEX_PREFIX /\ "digits" \in DOMAIN text
  BY <1>2, <1>3, OnlyHexHasDigits
<1>7. hex_to_bytes(text) = Ok(bytes)
  <2>1. IsBytesLike(text)
    BY <1>1, <1>2, <1>5, <1>6 DEF IsBytesLike, IsHex
  <2> QED BY <1>2, <1>3, <1>4, <2>1, HexToBytesIsEthers
<1>8. decode_viem_hex(text) = Ok(bytes)
  <2>1. AsHex(text) = text
    BY <1>3, AsHexIsHex
  <2>2. text.prefixes # << >> /\ Tail(text.prefixes) = << >>
    BY <1>2
  <2>3. body \in HexTexts /\ body.prefixes = << >> /\ body.digits = bytes
    BY <1>2, <1>3, <2>2, OnePrefix
  <2>4. StartsWith(text, {HEX_PREFIX})
    BY <1>6, <2>2 DEF StartsWith
  <2> HIDE DEF body
  <2>5. reject_repeated_hex_prefix(body) = Ok(body)
    BY <2>3, RepeatedPrefixes
  <2>6. viem_hex_body(text) = Ok(body)
    BY <2>4, <2>5 DEF viem_hex_body, body
  <2>7. hex_decode(body) = Ok(bytes)
    BY <1>1, <1>4, <1>5, <2>3, Decoding
  <2> QED BY <2>1, <2>6, <2>7, Results DEF decode_viem_hex, Then
<1> QED BY <1>7, <1>8 DEF text

\* parse_viem_address takes what viem takes for an address, and nothing else.
LEMMA ParsingIsViem ==
    ASSUME NEW text \in Texts
    PROVE  IF IsViemAddress(text)
           THEN parse_viem_address(AsHex(text)) = Ok(Lower(text.digits))
           ELSE IsErr(parse_viem_address(AsHex(text)))
<1> DEFINE hex == AsHex(text)
           body == DropPrefix(hex)
<1>1. hex \in HexTexts
  BY AsHexIsHex
<1>2. CASE hex.prefixes = << >>
  <2>1. ~ StartsWith(hex, {HEX_PREFIX})
    BY <1>2 DEF StartsWith
  <2>2. ~ IsViemAddress(text)
    <3>1. CASE text \in HexTexts
      <4>1. text.prefixes = << >>
        BY <1>2, <3>1, AsHexIsHex
      <4> QED BY <4>1 DEF IsViemAddress, IsHex
    <3>2. CASE text \notin HexTexts
      BY <3>2, OnlyHexHasDigits DEF IsViemAddress, IsHex
    <3> QED BY <3>1, <3>2
  <2> QED BY <2>1, <2>2, Results DEF parse_viem_address
<1>3. CASE hex.prefixes # << >>
  <2>1. text \in HexTexts /\ hex = text /\ "digits" \in DOMAIN text
    BY <1>3, AsHexIsHex, OnlyHexHasDigits
  <2>2. body.prefixes = Tail(hex.prefixes) /\ body.digits = hex.digits
    BY <1>1, OnePrefix
  <2>3. Len(hex.prefixes) = 1 <=> body.prefixes = << >>
    BY <1>1, <1>3, <2>2, OnePrefix
  <2>4. IsViemAddress(text) <=>
          /\ StartsWith(hex, {HEX_PREFIX})
          /\ body.prefixes = << >>
          /\ \A i \in DOMAIN body.digits : body.digits[i] \in HexDigits
          /\ Len(body.digits) = AddressDigits
    BY <1>3, <2>1, <2>2, <2>3 DEF IsViemAddress, IsHex, StartsWith
  <2>5. address_from_str(hex) =
          IF /\ body.prefixes = << >>
             /\ \A i \in DOMAIN body.digits : body.digits[i] \in HexDigits
             /\ Len(body.digits) = AddressDigits
          THEN Ok(Lower(body.digits)) ELSE Err("InvalidAddress")
    BY <1>3 DEF address_from_str
  <2> HIDE DEF hex, body
  <2> QED BY <2>1, <2>2, <2>4, <2>5, Results DEF parse_viem_address, hex
<1> QED BY <1>2, <1>3

\* The digits of an address viem recognises are an address.
LEMMA AddressesOfTexts ==
    ASSUME NEW text \in Texts, IsViemAddress(text)
    PROVE  Lower(text.digits) \in Addresses
<1>1. text \in HexTexts
  BY OnlyHexHasDigits DEF IsViemAddress, IsHex
<1>2. /\ text.digits \in Seq(HexDigits \cup {"z"}) /\ Len(text.digits) = AddressDigits
      /\ \A i \in DOMAIN text.digits : text.digits[i] \in HexDigits
  BY <1>1 DEF HexTexts, IsViemAddress, IsHex
<1> DEFINE digits == text.digits
<1>3. DOMAIN digits = 1 .. Len(digits) /\ Len(digits) = AddressDigits /\ Len(digits) \in Nat
  BY <1>2
<1>4. \A i \in DOMAIN digits : digits[i] \in {"0", "a", "A"}
  BY <1>2 DEF HexDigits
<1> HIDE DEF digits
<1>5. Lower(digits) \in [1 .. AddressDigits -> {"0", "a"}]
  BY <1>3, <1>4 DEF Lower
<1> QED BY <1>3, <1>5, WidthsAssumption DEF digits, Addresses

\* The checksummed form of an address is an address to viem, its own checksum, and
\* strict enough for the encoding side.
LEMMA ChecksumsAreSound ==
    ASSUME NEW address \in Addresses
    PROVE  /\ IsChecksumOf(to_checksum(address), address)
           /\ checksum_address(to_checksum(address)) = Ok(to_checksum(address))
           /\ ~ IsErr(parse_viem_strict_address(to_checksum(address)))
<1> DEFINE digits == [i \in DOMAIN address |->
                        IF address[i] = "a" /\ i \in UpperAt[address] THEN "A"
                                                                      ELSE address[i]]
           text == to_checksum(address)
<1>1. /\ DOMAIN address = 1 .. AddressDigits /\ AddressDigits \in Nat
      /\ \A i \in DOMAIN address : address[i] \in {"0", "a"}
  BY WidthsAssumption DEF Addresses
<1>2. text.prefixes = <<HEX_PREFIX>> /\ text.digits = digits
  BY DEF to_checksum, Hex
<1>3. /\ DOMAIN digits = 1 .. AddressDigits
      /\ \A i \in DOMAIN digits :
           /\ digits[i] \in HexDigits
           /\ digits[i] # "A" => digits[i] = address[i]
           /\ digits[i] = "A" => address[i] = "a"
           /\ address[i] = "a" => (digits[i] = "A" <=> i \in UpperAt[address])
  BY <1>1 DEF HexDigits
<1>4. digits \in Seq(HexDigits \cup {"z"}) /\ Len(digits) = AddressDigits
  <2> HIDE DEF digits
  <2>1. digits \in [1 .. AddressDigits -> HexDigits \cup {"z"}]
    <3>1. digits = [i \in 1 .. AddressDigits |-> digits[i]]
      BY <1>3 DEF digits
    <3> QED BY <1>3, <3>1
  <2> QED BY <1>1, <2>1
<1>5. Lower(digits) = address
  <2>1. address = [i \in 1 .. AddressDigits |-> address[i]]
    BY <1>1 DEF Addresses
  <2> HIDE DEF digits
  <2>2. \A i \in 1 .. AddressDigits :
          address[i] = IF digits[i] = "A" THEN "a" ELSE digits[i]
    BY <1>3
  <2> QED BY <1>3, <2>1, <2>2 DEF Lower
<1>6. text = [prefixes |-> <<HEX_PREFIX>>, digits |-> digits]
  BY DEF to_checksum, Hex
<1> HIDE DEF digits, text
<1>7. text \in HexTexts /\ text \in Texts
  BY <1>4, <1>6 DEF HexTexts, Texts
<1>8. IsViemAddress(text)
  BY <1>2, <1>3, <1>4, <1>7, OnlyHexHasDigits DEF IsViemAddress, IsHex
<1>9. IsChecksumOf(text, address)
  BY <1>1, <1>2, <1>3, <1>5, <1>8 DEF IsChecksumOf
<1>10. AsHex(text) = text /\ parse_viem_address(AsHex(text)) = Ok(address)
  BY <1>2, <1>5, <1>7, <1>8, AsHexIsHex, ParsingIsViem
<1>11. checksum_address(text) = Ok(text)
  BY <1>10, Results DEF checksum_address, text
<1>12. ~ IsErr(parse_viem_strict_address(text))
  BY <1>10, Results DEF parse_viem_strict_address, text
<1> QED BY <1>9, <1>11, <1>12 DEF text


---------------------------------------------------------------------------

\* r is what the native function returned for q.
Returned(q, r) ==
    /\ q.op = "decode" => r = Decoded(q)
    /\ q.op = "encode" => r = Encoded(q)
    /\ q.op = "hexToBytes" => r = hex_to_bytes(q.text)
    /\ q.op = "bytesToHex" => r = Ok(bytes_to_hex(q.bytes))
    /\ q.op = "checksumAddress" => r = checksum_address(q.text)

\* The answer is what came of the call, or the original's, for want of one.
Answered ==
    \/ /\ "native" \in DOMAIN answer /\ "original" \notin DOMAIN answer
       /\ answer.native = IF request.op = "decode" THEN Parsed(result.ok) ELSE result.ok
       /\ Returned(request, result) /\ ~ IsErr(result)
    \/ /\ "native" \notin DOMAIN answer
       /\ installed => Returned(request, result) /\ IsErr(result)

Inv ==
    /\ stage \in {"idle", "asked", "returned", "answered"}
    /\ stage # "idle" => request \in Requests
    /\ stage = "returned" => Returned(request, result)
    /\ stage = "answered" => Answered

\* Init establishes the invariant.
LEMMA InitInv == Init => Inv
  BY DEF Init, Inv

\* A native call returns what its function does.
LEMMA CallsPreserveInv ==
    ASSUME Inv, Decode \/ Encode \/ HexToBytes \/ BytesToHex \/ ChecksumAddress
    PROVE  Inv'
<1>1. stage = "asked" /\ stage' = "returned" /\ request' = request /\ request \in Requests
  BY DEF Inv, Decode, Encode, HexToBytes, BytesToHex, ChecksumAddress, Native, Return
<1>2. Returned(request, result')
  BY DEF Decode, Encode, HexToBytes, BytesToHex, ChecksumAddress, Native, Return, Returned
<1>3. Returned(request, result)'
  BY <1>1, <1>2 DEF Returned
<1> QED BY <1>1, <1>3 DEF Inv

\* The answer is of the call that returned.
LEMMA AnswersPreserveInv ==
    ASSUME Inv, AnswerNatively \/ HandOver
    PROVE  Inv'
<1>1. stage' = "answered" /\ UNCHANGED <<installed, request, result>> /\ request \in Requests
  BY DEF Inv, AnswerNatively, HandOver, Answer
<1>2. CASE AnswerNatively
  <2>1. /\ answer' = [native |-> IF request.op = "decode" THEN Parsed(result.ok)
                                                           ELSE result.ok]
        /\ ~ IsErr(result) /\ Returned(request, result)
    BY <1>2 DEF AnswerNatively, Answer, Inv
  <2>2. /\ "native" \in DOMAIN answer' /\ "original" \notin DOMAIN answer'
        /\ answer'.native = IF request.op = "decode" THEN Parsed(result.ok) ELSE result.ok
    BY <2>1
  <2>3. Answered'
    BY <1>1, <2>1, <2>2 DEF Answered, Returned
  <2> QED BY <1>1, <2>3 DEF Inv
<1>3. CASE HandOver
  <2>1. "native" \notin DOMAIN answer'
    BY <1>3 DEF HandOver, Answer
  <2>2. installed => Returned(request, result) /\ IsErr(result)
    BY <1>3 DEF HandOver, Inv
  <2>3. Answered'
    BY <1>1, <2>1, <2>2 DEF Answered, Returned
  <2> QED BY <1>1, <2>3 DEF Inv
<1> QED BY <1>2, <1>3

\* Every step preserves the invariant.
LEMMA NextInv == Inv /\ [Next]_shimVars => Inv'
<1> SUFFICES ASSUME Inv, [Next]_shimVars PROVE Inv'
  OBVIOUS
<1>1. CASE Ask
  BY <1>1 DEF Ask, Inv
<1>2. CASE Done
  BY <1>2 DEF Done, Inv
<1>3. CASE Decode \/ Encode \/ HexToBytes \/ BytesToHex \/ ChecksumAddress
  BY <1>3, CallsPreserveInv
<1>4. CASE AnswerNatively \/ HandOver
  BY <1>4, AnswersPreserveInv
<1>5. CASE UNCHANGED shimVars
  BY <1>5 DEF shimVars, Inv, Answered, Returned
<1> QED BY <1>1, <1>2, <1>3, <1>4, <1>5 DEF Next

\* The invariant holds of every behaviour.
THEOREM SpecInv == Spec => []Inv
  BY InitInv, NextInv, PTL DEF Spec

\* An answer that is native, or was handed over by a module that is there, is of
\* what the native function returned.
LEMMA AnswersAreOfTheCall ==
    ASSUME Inv,
           NEW op \in {"decode", "encode", "hexToBytes", "bytesToHex", "checksumAddress"}
    PROVE  /\ Natively(op) =>
                /\ request \in Requests /\ request.op = op
                /\ Returned(request, result) /\ ~ IsErr(result)
                /\ answer.native = IF op = "decode" THEN Parsed(result.ok) ELSE result.ok
           /\ HandedOver(op) =>
                /\ request \in Requests /\ request.op = op
                /\ Returned(request, result) /\ IsErr(result)
  BY DEF Inv, Natively, HandedOver, Answered

\* Hex is read natively as ethers reads it, and handed over only when ethers would
\* refuse it, for texts of any length.
THEOREM HexIsReadAsEthers == Spec => []HexAsEthers
<1>1. Inv => HexAsEthers
  <2> SUFFICES ASSUME Inv PROVE HexAsEthers
    OBVIOUS
  <2>1. ASSUME request \in Requests, request.op = "hexToBytes", Returned(request, result)
        PROVE  IF IsBytesLike(request.text) THEN result = Ok(Lower(request.text.digits))
                                            ELSE IsErr(result)
    <3>1. request.text \in Texts /\ result = hex_to_bytes(request.text)
      BY <2>1, RequestsAssumption DEF Returned
    <3> QED BY <3>1, HexToBytesIsEthers
  <2> QED BY <2>1, AnswersAreOfTheCall, Results DEF HexAsEthers
<1> QED BY <1>1, SpecInv, PTL

\* What bytes_to_hex writes, both readers read as the bytes it was given.
THEOREM BytesRoundTrip == Spec => []HexRoundTrip
<1>1. Inv => HexRoundTrip
  <2> SUFFICES ASSUME Inv PROVE HexRoundTrip
    OBVIOUS
  <2>1. ASSUME request \in Requests, request.op = "bytesToHex", Returned(request, result)
        PROVE  request.bytes \in Bytes /\ result.ok = bytes_to_hex(request.bytes)
    BY <2>1, RequestsAssumption, Results DEF Returned
  <2> QED BY <2>1, AnswersAreOfTheCall, BytesComeBack DEF HexRoundTrip
<1> QED BY <1>1, SpecInv, PTL

\* A native checksum is of an address viem recognises, is its own checksum and is
\* taken by the strict parser; no such address is handed over.  For any checksum.
THEOREM ChecksumsAreAsViem == Spec => []ChecksumAsViem
<1>1. Inv => ChecksumAsViem
  <2> SUFFICES ASSUME Inv PROVE ChecksumAsViem
    OBVIOUS
  <2>1. ASSUME request \in Requests, request.op = "checksumAddress",
               Returned(request, result)
        PROVE  /\ IsViemAddress(request.text) =>
                    /\ ~ IsErr(result)
                    /\ result.ok = to_checksum(Lower(request.text.digits))
                    /\ Lower(request.text.digits) \in Addresses
               /\ ~ IsViemAddress(request.text) => IsErr(result)
    <3>1. request.text \in Texts /\ result = checksum_address(request.text)
      BY <2>1, RequestsAssumption DEF Returned
    <3>2. CASE IsViemAddress(request.text)
      <4>1. parse_viem_address(AsHex(request.text)) = Ok(Lower(request.text.digits))
        BY <3>1, <3>2, ParsingIsViem
      <4>2. result = Ok(to_checksum(Lower(request.text.digits)))
        BY <3>1, <4>1, Results DEF checksum_address
      <4>3. Lower(request.text.digits) \in Addresses
        BY <3>1, <3>2, AddressesOfTexts
      <4> QED BY <3>2, <4>2, <4>3, Results
    <3>3. CASE ~ IsViemAddress(request.text)
      <4>1. IsErr(parse_viem_address(AsHex(request.text)))
        BY <3>1, <3>3, ParsingIsViem
      <4> QED BY <3>1, <3>3, <4>1 DEF checksum_address
    <3> QED BY <3>2, <3>3
  <2> QED BY <2>1, AnswersAreOfTheCall, ChecksumsAreSound DEF ChecksumAsViem
<1> QED BY <1>1, SpecInv, PTL

===========================================================================
