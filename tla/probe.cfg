SPECIFICATION MCSpec
CONSTANTS
    Process = {p1}
    Commands = {"RENEW", "ROLLBACK"}
    PromotionAttempts = 2
    AuditMode = "observe"
    AutomaticRollback = FALSE
    RetentionEnabled = FALSE
    KeepDeprecated = 1
    Lag = FALSE
    a1 = a1
    a2 = a2
    Endpoints <- MCEndpoints
    RequireAllAddresses = TRUE
    MaxIssued = 3
    MaxExpired = 1
    MaxOperations = 9
    MaxEarlier = 2
    MaxFaults = 2
INVARIANT EvidenceIsProof
INVARIANT CurrentIsAccountedFor
INVARIANT CompletedIsTruthful
INVARIANT PendingIsRemembered
PROPERTY VerdictIsTrue
