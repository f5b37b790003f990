SPECIFICATION MCFairSpec
CONSTANTS
    Entry = {"bootstrap"}
    NameIsUnique = TRUE
    MaxIssued = 1
    MaxOperations = 3
    MaxFaults = 1
PROPERTY InterruptedBootstrapRecovers
