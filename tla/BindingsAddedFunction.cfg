SPECIFICATION Spec
CONSTANTS
    hash = hash
    encode = encode
    Names <- MCNames
    Checksums = {1, 2}
    Exported <- MCExported
    Contracts = {30, 31}
    NewVariants <- MCNewVariants
    MaxVariants = 12
    Edits = {"addFunction", "removeFunction", "changeFunction"}
    Words = {0, 1}
    Strings = {0, 2}
    None = None
INVARIANTS
    StaleBindingsAreRefused
