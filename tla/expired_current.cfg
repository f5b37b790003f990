SPECIFICATION MCFairSpec
CONSTANTS
    Process = {p1, p2}
    Commands = {"PUBLISH", "RENEW"}
    PromotionAttempts = 1
    AuditMode = "disabled"
    AutomaticRollback = FALSE
    RetentionEnabled = FALSE
    KeepDeprecated = 0
    Lag = FALSE
    MaxIssued = 2
    MaxExpired = 1
    MaxOperations = 3
    MaxFaults = 1
PROPERTY Converges
