SPECIFICATION MCSpec
CONSTANTS
    Process = {p1}
    Commands = {"RENEW"}
    PromotionAttempts = 1
    AuditMode = "enforce"
    AutomaticRollback = TRUE
    RetentionEnabled = FALSE
    KeepDeprecated = 1
    Lag = FALSE
    a1 = a1
    a2 = a2
    Endpoints <- MCEndpoints
    RequireAllAddresses = TRUE
    MaxIssued = 2
    MaxExpired = 0
    MaxOperations = 6
    MaxEarlier = 2
    MaxFaults = 1
INVARIANT EvidenceIsProof
