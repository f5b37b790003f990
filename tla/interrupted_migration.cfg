SPECIFICATION MCSpec
CONSTANTS
    Entry = {"bootstrap"}
    NameIsUnique = TRUE
    MaxIssued = 1
    MaxOperations = 2
    MaxFaults = 1
INVARIANT MigrationIsAtomic
