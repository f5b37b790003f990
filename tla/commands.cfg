SPECIFICATION MCSpec
CONSTANTS
    Process = {p1, p2}
    Commands = {"RENEW", "ROLLBACK", "AUDIT", "RETENTION"}
    PromotionAttempts = 2
    AuditMode = "enforce"
    AutomaticRollback = TRUE
    RetentionEnabled = TRUE
    KeepDeprecated = 0
    Lag = FALSE
    MaxIssued = 3
    MaxExpired = 0
    MaxOperations = 5
    MaxFaults = 2
SYMMETRY Symmetry
INVARIANT TypeOK
INVARIANT NoDuplicateVersion
INVARIANT CompletedIsTruthful
INVARIANT PendingIsRemembered
INVARIANT CurrentIsAccountedFor
INVARIANT DeletionIsSafe
PROPERTY OnlyRollbackRegresses
PROPERTY ManagesCertificate
PROPERTY CountersNeverDecrease
