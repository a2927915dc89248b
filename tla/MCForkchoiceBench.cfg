SPECIFICATION Spec
CONSTANTS
    None = None
    FromBlock = 1
    ToBlock = 4
    ChannelCap = 2
    SafeDistance = 1
    FinalizedDistance = 2
    NodeTip = 4
    Setups <- MCSetups
    PendingStatuses = {"SYNCING", "ACCEPTED"}
    CsvOutcomes = {"no_output", "written", "forkchoice_error", "gas_error"}
    MaxClock = 4
    TicksPerMicro = 2
    ValidationErrors = {"bad block"}
    EngineErrors = {"engine unavailable"}
INVARIANTS
    TypeOK
    BlocksConserved
    BscInvalidIsAnError
    TimeCoversLatencies
PROPERTIES
    Termination
    ImplementsBenchmarkLog
CHECK_DEADLOCK FALSE
