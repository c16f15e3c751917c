SPECIFICATION FairSpec
CONSTANTS
    Batch <- MCBatch
    Weight <- MCWeight
    Breakers = {"hook"}
    Limited = {"hook"}
    MaxAttempts = 2
    FailureThreshold = 1
    Cooldown = 1
    HalfOpenMaxCalls = 2
    SuccessThreshold = 2
    MinInterval = 2
    MaxInFlight = 3
    MinInFlight = 1
    AdaptiveBudget = TRUE
    RecoverySuccesses = 1
    UpshiftStep = 1
    DownshiftStep = 2
    ReduceOn = {"circuit_open", "connector_execution_error"}
CHECK_DEADLOCK FALSE
INVARIANTS
    BatchTypeOK
    ReportsComplete
    NoStarvation
    ProbesBounded
    RateSpacing
PROPERTIES
    BatchReturns
