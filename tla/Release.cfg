SPECIFICATION Spec
CONSTANTS
    arm64 = arm64
    x86 = x86
    Targets = {arm64, x86}
    CheckedABI = arm64
    MaxCrate = 1
    MaxVersion = 1
    Runs = {r1}
INVARIANTS
    TypeOK
    TaggedReleasesWork
    PackagesAreOfOneCommit
    TagsAreVersions
