SPECIFICATION Spec
CONSTANTS
    hash = hash
    encode = encode
    Names <- MCNames
    Checksums = {1, 2}
    Exported <- MCExported
    Contracts = {30, 31}
    NewVariants <- MCNewVariants
    MaxVariants = 14
    Edits = {"appendVariant", "addFunction", "removeFunction", "changeFunction", "upgradeUniffi"}
    Words = {0, 1}
    Strings = {0, 2}
    None = None
CONSTRAINT
    OneDriftAtATime
INVARIANTS
    ErrorsNeverMisread
    CurrentBindingsReadEveryError
    KnownErrorsAreWrittenAsInRust
    RunningAppsAgreeOnSignatures
