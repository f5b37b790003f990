SPECIFICATION MCSpec
CONSTANTS
    Entry = {"renew_all"}
    NameIsUnique = FALSE
    MaxIssued = 3
    MaxOperations = 4
    MaxFaults = 3
INVARIANT TypeOK
INVARIANT StoreIsWhole
INVARIANT ConfirmedIdentityIsReal
INVARIANT RecoveryIsUnambiguous
PROPERTY RecoveryPrecedesCreation
PROPERTY ConfirmedIdentityIsFinal
