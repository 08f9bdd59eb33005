----------------------------- MODULE Bindings -----------------------------
(***************************************************************************)
(* The crate changes, the generated bindings are regenerated or not, and   *)
(* an app is built from whatever both are at that moment.  Two things tell *)
(* the app that they have drifted apart: the checks of                     *)
(* uniffiEnsureInitialized when it boots, and the ordinal of an AbiError   *)
(* when one is read.                                                       *)
(*                                                                         *)
(* An interface is [contract, functions, variants]: the contract version   *)
(* of uniffi, the exported functions, each with the uniffi checksum of its *)
(* signature, and the variants of AbiError in declaration order, each      *)
(* [tag, fields].  A serialized error is a sequence of 32-bit words, a     *)
(* string being its length and then that many.                             *)
(***************************************************************************)
EXTENDS Integers, Sequences

CONSTANTS
    Names,        \* function names
    Checksums,    \* signatures, as their checksums
    Exported,     \* the crate's functions at first
    Contracts,    \* uniffi contract versions, the first one 30
    NewVariants,  \* [tag, fields] a developer may put in
    MaxVariants,  \* bound on the enum
    Edits,        \* the kinds of edit that are made
    Words,        \* values of a u32 field
    Strings,      \* lengths of a string field
    None          \* nothing raised yet

VARIABLES
    crate,     \* the interface of rust/src/lib.rs
    bindings,  \* the interface src/generated and cpp/generated know
    app,       \* [state, crate, bindings]: the app last built
    raised     \* the last error: what Rust wrote, what JavaScript read

bindingsVars == <<crate, bindings, app, raised>>

Variant(tag, fields) == [tag |-> tag, fields |-> fields]

\* The enum, in the order of its declaration, which is the wire order.
AbiError ==
    << Variant("InvalidAbi", <<"string">>),
       Variant("FunctionNotFound", <<"string">>),
       Variant("AmbiguousOverload", <<"string", "u32">>),
       Variant("InvalidHex", <<"string">>),
       Variant("UnsupportedType", <<"string">>),
       Variant("ArityMismatch", <<"string", "u32", "u32">>),
       Variant("DecodeFailed", <<"string">>),
       Variant("EncodeFailed", <<"string">>),
       Variant("InvalidArgument", <<"string">>),
       Variant("InvalidAddress", <<"string">>),
       Variant("BytesSizeMismatch", <<"u32", "u32">>),
       Variant("IntegerOutOfRange", <<"string", "string">>) >>

Tags == {v.tag : v \in NewVariants \cup {AbiError[i] : i \in DOMAIN AbiError}}

Variants == [tag : Tags, fields : Seq({"string", "u32"})]

Functions == UNION {[names -> Checksums] : names \in SUBSET Names}

Interface == [contract : Contracts, functions : Functions, variants : Seq(Variants)]

ASSUME InterfaceAssumption ==
    /\ 30 \in Contracts
    /\ Exported \in Functions
    /\ NewVariants \subseteq Variants
    /\ Words \subseteq Nat /\ Strings \subseteq Nat

---------------------------------------------------------------------------
(* FfiConverterTypeAbiError.  A field's value is [string] its length, or [u32]. *)

Values(field) ==
    IF field = "string" THEN {[string |-> n] : n \in Strings}
                        ELSE {[u32 |-> n] : n \in Words}

Payloads(fields) ==
    {p \in [DOMAIN fields -> UNION {Values(f) : f \in {"string", "u32"}}] :
       \A i \in DOMAIN fields : p[i] \in Values(fields[i])}

\* The words of a text of n are no length and no ordinal one would notice.
WriteField(value) ==
    IF "string" \in DOMAIN value THEN <<value.string>> \o [i \in 1..value.string |-> 0]
                                 ELSE <<value.u32>>

\* The slip: ordinals that start at 0.
OrdinalFromZero(variants, tag) ==
    (CHOOSE i \in DOMAIN variants : variants[i].tag = tag) - 1

Ordinal(variants, tag) == CHOOSE i \in DOMAIN variants : variants[i].tag = tag

\* An ordinal, and then value after value.
Written(ordinal, values) ==
    LET written[k \in 0 .. Len(values)] ==
          IF k = 0 THEN <<ordinal>> ELSE written[k - 1] \o WriteField(values[k])
    IN  written[Len(values)]

\* Rust, as uniffi derives it from the enum: the fields as they are declared.
lower(variants, error) == Written(Ordinal(variants, error.tag), error.inner)

\* The arms of write, one by one, a field being its place in the variant.  A variant
\* that is appended gets the arm the generator makes of its declaration.
WrittenFields(error) ==
    LET inner == error.inner IN
    CASE error.tag \in {"InvalidAbi", "FunctionNotFound", "InvalidHex", "UnsupportedType",
                        "DecodeFailed", "EncodeFailed", "InvalidArgument",
                        "InvalidAddress"}     -> << inner[1] >>
      [] error.tag = "AmbiguousOverload"      -> << inner[1], inner[2] >>
      [] error.tag = "ArityMismatch"          -> << inner[1], inner[2], inner[3] >>
      [] error.tag = "BytesSizeMismatch"      -> << inner[1], inner[2] >>
      [] error.tag = "IntegerOutOfRange"      -> << inner[1], inner[2] >>
      [] OTHER                                -> inner

write(variants, error) == Written(Ordinal(variants, error.tag), WrittenFields(error))

\* What a field takes, a string with its length.
Size(value) == IF "string" \in DOMAIN value THEN 1 + value.string ELSE 1

\* The word of the ordinal, and value after value.
Sized(values) ==
    LET size[k \in 0 .. Len(values)] ==
          IF k = 0 THEN 1 ELSE size[k - 1] + Size(values[k])
    IN  size[Len(values)]

\* The slip: the arm of ArityMismatch has lost its last line.
SizedFieldsButActual(error) ==
    IF error.tag = "ArityMismatch" THEN SubSeq(error.inner, 1, 2) ELSE error.inner

\* The arms of allocationSize, likewise.
SizedFields(error) ==
    LET inner == error.inner IN
    CASE error.tag \in {"InvalidAbi", "InvalidHex", "DecodeFailed", "EncodeFailed",
                        "InvalidArgument", "InvalidAddress", "FunctionNotFound",
                        "UnsupportedType"}                    -> << inner[1] >>
      [] error.tag \in {"AmbiguousOverload",
                        "BytesSizeMismatch", "IntegerOutOfRange"} -> << inner[1], inner[2] >>
      [] error.tag = "ArityMismatch"              -> << inner[1], inner[2], inner[3] >>
      [] OTHER                                    -> inner

allocationSize(error) == Sized(SizedFields(error))

Overrun == [tag |-> "overrun", inner |-> << >>]

UnexpectedEnumCase == [tag |-> "UnexpectedEnumCase", inner |-> << >>]

\* One field, off the front of the words that are left.
ReadField(from, field) ==
    IF from.overrun \/ from.words = << >> \/
         (field = "string" /\ Len(from.words) - 1 < Head(from.words))
    THEN [from EXCEPT !.overrun = TRUE]
    ELSE IF field = "string"
    THEN [from EXCEPT !.words = SubSeq(@, Head(@) + 2, Len(@)),
                      !.inner = Append(@, [string |-> Head(from.words)])]
    ELSE [from EXCEPT !.words = Tail(@),
                      !.inner = Append(@, [u32 |-> Head(from.words)])]

\* One field after the other, as they are declared.
ReadFields(words, fields) ==
    LET from[k \in 0 .. Len(fields)] ==
          IF k = 0 THEN [words |-> words, inner |-> << >>, overrun |-> FALSE]
                   ELSE ReadField(from[k - 1], fields[k])
    IN  from[Len(fields)]

\* The slip: an ordinal past the last case is read as the last case.
read_clamped(variants, words) ==
    LET i == IF Head(words) > Len(variants) THEN Len(variants) ELSE Head(words)
        end == ReadFields(Tail(words), variants[i].fields)
    IN  IF end.overrun THEN Overrun
        ELSE [tag |-> variants[i].tag, inner |-> end.inner]

\* Words that are left over are not looked at.
read(variants, words) ==
    LET i == Head(words) IN
    IF i \notin DOMAIN variants THEN UnexpectedEnumCase
    ELSE LET end == ReadFields(Tail(words), variants[i].fields)
         IN  IF end.overrun THEN Overrun
             ELSE [tag |-> variants[i].tag, inner |-> end.inner]

---------------------------------------------------------------------------
(* The project. *)

Init ==
    /\ crate = [contract |-> 30, functions |-> Exported, variants |-> AbiError]
    /\ bindings = crate
    /\ app = [state |-> "none", crate |-> crate, bindings |-> bindings]
    /\ raised = None

Edit(kind, new) ==
    /\ kind \in Edits
    /\ crate' = new
    /\ UNCHANGED <<bindings, app, raised>>

AddFunction ==
    \E name \in Names \ DOMAIN crate.functions : \E sum \in Checksums :
        Edit("addFunction",
             [crate EXCEPT !.functions = [n \in DOMAIN @ \cup {name} |->
                                            IF n = name THEN sum ELSE @[n]]])

RemoveFunction ==
    \E name \in DOMAIN crate.functions :
        Edit("removeFunction",
             [crate EXCEPT !.functions = [n \in DOMAIN @ \ {name} |-> @[n]]])

ChangeFunction ==
    \E name \in DOMAIN crate.functions : \E sum \in Checksums :
        Edit("changeFunction", [crate EXCEPT !.functions[name] = sum])

UpgradeUniffi ==
    \E version \in Contracts : Edit("upgradeUniffi", [crate EXCEPT !.contract = version])

\* The comment on AbiError: new variants at the end, existing fields alone.
AppendVariant ==
    \E v \in NewVariants :
        /\ Len(crate.variants) < MaxVariants
        /\ v.tag \notin {crate.variants[i].tag : i \in DOMAIN crate.variants}
        /\ Edit("appendVariant", [crate EXCEPT !.variants = Append(@, v)])

\* yarn bindings:generate.
Generate ==
    /\ bindings' = crate
    /\ UNCHANGED <<crate, app, raised>>

\* The generated C++ names every function it knows: a missing one fails to link.
Build ==
    /\ app' = [state |-> IF DOMAIN bindings.functions \subseteq DOMAIN crate.functions
                         THEN "built" ELSE "unlinked",
               crate |-> crate, bindings |-> bindings]
    /\ raised' = None
    /\ UNCHANGED <<crate, bindings>>

\* The slip: only the contract version is compared.
EnsureContractOnly(known, library) == known.contract = library.contract

\* The contract version, and the checksum of every function the bindings know.
uniffiEnsureInitialized(known, library) ==
    /\ known.contract = library.contract
    /\ \A name \in DOMAIN known.functions :
         library.functions[name] = known.functions[name]

Boot ==
    /\ app.state = "built"
    /\ app' = [app EXCEPT !.state =
                 IF uniffiEnsureInitialized(app.bindings, app.crate) THEN "running"
                                                                     ELSE "refused"]
    /\ UNCHANGED <<crate, bindings, raised>>

\* A call fails: the crate the app holds writes, the bindings it holds read.
Raise ==
    /\ app.state = "running"
    /\ \E i \in DOMAIN app.crate.variants :
         \E inner \in Payloads(app.crate.variants[i].fields) :
           LET error == [tag |-> app.crate.variants[i].tag, inner |-> inner]
               words == lower(app.crate.variants, error)
           IN  raised' = [error |-> error, words |-> words,
                          read |-> read(app.bindings.variants, words)]
    /\ UNCHANGED <<crate, bindings, app>>

Next ==
    \/ AddFunction \/ RemoveFunction \/ ChangeFunction
    \/ AppendVariant \/ UpgradeUniffi
    \/ Generate \/ Build \/ Boot \/ Raise

Spec == Init /\ [][Next]_bindingsVars

---------------------------------------------------------------------------

TypeOK ==
    /\ crate \in Interface
    /\ bindings \in Interface
    /\ app \in [state : {"none", "unlinked", "built", "refused", "running"},
                crate : Interface, bindings : Interface]

\* However the enum has grown and however stale the bindings, an error is read as
\* the one Rust raised, with its payload, or as UnexpectedEnumCase: never as another
\* error, and never past the end of the buffer.
ErrorsNeverMisread ==
    raised # None => raised.read \in {raised.error, UnexpectedEnumCase}

\* With the bindings of the day, nothing is unexpected.
CurrentBindingsReadEveryError ==
    (raised # None /\ app.bindings.variants = app.crate.variants) =>
        raised.read = raised.error

\* The three switches of FfiConverterTypeAbiError and Rust's enum say the same of an
\* error the bindings know: write puts down the words Rust does, and allocationSize
\* reserves just as many.
KnownErrorsAreWrittenAsInRust ==
    (raised # None /\ \E i \in DOMAIN app.bindings.variants :
                         app.bindings.variants[i].tag = raised.error.tag) =>
        /\ write(app.bindings.variants, raised.error) = raised.words
        /\ allocationSize(raised.error) = Len(raised.words)

\* A running app calls every function it knows with the signature the crate it
\* carries was built with, whatever was edited, generated and built in between.
RunningAppsAgreeOnSignatures ==
    app.state = "running" =>
        /\ app.bindings.contract = app.crate.contract
        /\ \A name \in DOMAIN app.bindings.functions :
             /\ name \in DOMAIN app.crate.functions
             /\ app.crate.functions[name] = app.bindings.functions[name]

\* README, changing the Rust: adding, removing or changing an exported function
\* changes the checksums, and stale bindings make initialize() throw at boot.
StaleBindingsAreRefused ==
    app.state = "running" => app.bindings.functions = app.crate.functions

===========================================================================
