SPECIFICATION Spec
CONSTANTS
    None = None
    VoteAddrOf <- MCVoteAddrOf
    ValidatorLists <- MCValidatorLists
    Voters = {"k1", "k2", "k3", "k4", "kx"}
    SealLen = 2
    LubanBlock = 2
    MalformedSigs <- MCMalformedSigs
INVARIANT
    AttestsOnlyQuorum
CHECK_DEADLOCK FALSE
