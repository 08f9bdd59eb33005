SPECIFICATION Spec
CONSTANTS
    hash = hash
    encode = encode
    decode = decode
    Runtimes = {old, new}
    nullptr = nullptr
    Library <- MCLibrary
    Bundles <- MCBundles
    MaxEvaluations = 3
    MaxOwed = 2
INVARIANTS
    DestroyedWithTheirRuntime
