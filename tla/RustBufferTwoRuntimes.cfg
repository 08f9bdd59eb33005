SPECIFICATION Spec
CONSTANTS
    hash = hash
    encode = encode
    Callers = {c1, c2}
    Functions <- MCFunctions
    Arity <- MCArity
    ArgKind <- MCArgKind
    Fallible <- MCFallible
    AllocKinds = {"bytes"}
    Blocks = {b1, b2, b3, b4}
    NoBlock = NoBlock
    ArgLengths = {1, 2}
    ReturnSizes <- MCReturnSizes
    ErrorSizes <- MCErrorSizes
    IntMax = 1
SYMMETRY Symmetry
INVARIANTS
    TypeOK
    ReferencesAreGood
    FreesTheResultItWasGiven
    ResultsAndErrorsReclaimed
    AllocatedArgumentsArriveWhole
PROPERTIES
    CopiesLostOnlyByThrowingConversion
    KeepsThePromise
