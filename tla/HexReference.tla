---------------------------- MODULE HexReference ----------------------------
(***************************************************************************)
(* What ethers and viem take for bytes and for an address, neither of them *)
(* in this repository: written from what rust/src/lib.rs and its tests say *)
(* of them, as predicates on a text and not as parsers, so that they are   *)
(* no second copy of the code.                                             *)
(***************************************************************************)
EXTENDS AbiScalars

IsHex(text, prefixes) ==
    /\ "digits" \in DOMAIN text
    /\ Len(text.prefixes) = 1
    /\ Head(text.prefixes) \in prefixes
    /\ \A i \in DOMAIN text.digits : text.digits[i] \in HexDigits

\* What ethers' getBytes accepts.
IsBytesLike(text) ==
    IsHex(text, {HEX_PREFIX, HEX_PREFIX_UPPER}) /\ Len(text.digits) % 2 = 0

IsViemAddress(text) ==
    IsHex(text, {HEX_PREFIX}) /\ Len(text.digits) = AddressDigits

\* The EIP-55 form of an address.
IsChecksumOf(text, address) ==
    /\ IsViemAddress(text)
    /\ Lower(text.digits) = address
    /\ \A i \in DOMAIN address :
         address[i] = "a" => (text.digits[i] = "A" <=> i \in UpperAt[address])

\* isAddress in strict mode.
IsStrictAddress(text) ==
    /\ IsViemAddress(text)
    /\ \/ \A i \in DOMAIN text.digits : text.digits[i] # "A"
       \/ IsChecksumOf(text, Lower(text.digits))

===========================================================================
