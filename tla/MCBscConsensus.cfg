\* The import of three blocks through every method of BscConsensus.
SPECIFICATION Spec

CONSTANTS
    None = None
    UnknownHash = UnknownHash
    MsPerSec = 2
    ByzantiumBlock = 2
    LondonBlock = 1
    CancunTime = 1
    PragueTime = 2
    BlobParamsTime = 1
    BlobTarget = 1
    MaxNumber = 3
    HeaderFields <- MCHeaderFields
    Results <- MCResults
    Verdicts = {"ok", "parlia error"}

INVARIANTS
    TypeOK
    ValidatesWithProviders
    ChainContinuity
    BlobGasFollowsParent
    ExecutionCommitted

\* The pipeline stops at the bound and when build_consensus panics.
CHECK_DEADLOCK FALSE
