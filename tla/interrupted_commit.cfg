SPECIFICATION MCSpec
CONSTANTS
    Domain = {d1}
    SelfCheck = FALSE
    ForceRenewal = {FALSE}
    AccountExists = TRUE
    Interruptible = TRUE
    MaxRuns = 2
    MaxFaults = 1
INVARIANT CurrentIsComplete
