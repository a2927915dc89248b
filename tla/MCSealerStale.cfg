SPECIFICATION Spec
CONSTANTS
    None = None
    ZeroHash = ZeroHash
    UnknownHash = UnknownHash
    Val = "a1"
    ValidatorSets <- MCValidatorSets
    VoteAddrOf <- MCVoteAddrOf
    VoteAddrs = {"k2", "k3"}
    MaxNumber = 3
    MaxVotes = 2
    RamanujanBlock = 2
    LubanBlock = 3
    SealLen = 2
    MalformedSigs = {}
    Timestamps = {2}
    ClockReadings = {5, 25}
    ExtraDatas <- MCWellFormedExtraDatas
    SigLens = {2}
PROPERTY
    SealedOnHead
