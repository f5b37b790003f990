SPECIFICATION MCSpec
CONSTANTS
    NumSets = 3
    Errors = {"AcmeOperationError"}
    Observing = {1}
    Enforcing = {2, 3}
    RollingBack = {3}
    Retaining = {1}
    ExpiryEvent = {"CERTIFICATE_EXPIRY_WARNING"}
    LiveVerified = TRUE
    Enabled = TRUE
    MaxBatches = 2
    MaxFaults = 2
INVARIANT TypeOK
INVARIANT BatchIsComplete
INVARIANT SilenceIsEarned
INVARIANT AlertsAreBounded
INVARIANT FailuresAreAlerted
