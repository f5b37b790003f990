SPECIFICATION MCSpec
CONSTANTS
    NumSets = 2
    Errors = {"AcmeOperationError", "ReconciliationError"}
    Observing = {1}
    Enforcing = {2}
    RollingBack = {}
    Retaining = {1, 2}
    ExpiryEvent = {"CERTIFICATE_EXPIRY_WARNING"}
    LiveVerified = TRUE
    Enabled = TRUE
    MaxBatches = 1
    MaxFaults = 2
INVARIANT LaterSetsAreAttempted
