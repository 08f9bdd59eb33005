SPECIFICATION Spec
CONSTANTS
    hash = hash
    encode = encode
    Callers = {c1}
    Functions <- MCFunctions
    Arity <- MCArity3
    ArgKind <- MCArgKind
    Fallible <- MCFallible
    AllocKinds = {"bytes", "string"}
    Blocks = {b1, b2, b3, b4, b5, b6, b7}
    NoBlock = NoBlock
    ArgLengths = {1, 2}
    ReturnSizes <- MCReturnSizes
    ErrorSizes <- MCErrorSizes
    IntMax = 1
SYMMETRY Symmetry
INVARIANTS
    ReferencesAreGood
    ResultsAndErrorsReclaimed
    AllocatedArgumentsArriveWhole
PROPERTIES
    CopiesLostOnlyByThrowingConversion
