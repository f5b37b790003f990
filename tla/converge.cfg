SPECIFICATION MCFairSpec
CONSTANTS
    Process = {p1, p2}
    Commands = {"RECONCILE", "RENEW"}
    PromotionAttempts = 2
    AuditMode = "observe"
    AutomaticRollback = FALSE
    RetentionEnabled = TRUE
    KeepDeprecated = 0
    Lag = TRUE
    MaxIssued = 3
    MaxExpired = 1
    MaxOperations = 4
    MaxFaults = 2
PROPERTY ConvergesInTime
INVARIANT CompletedIsTruthful
