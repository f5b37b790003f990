SPECIFICATION MCFairSpec
CONSTANTS
    Domain = {d1, d2}
    SelfCheck = TRUE
    ForceRenewal = {TRUE, FALSE}
    AccountExists = FALSE
    Interruptible = FALSE
    MaxRuns = 4
    MaxFaults = 2
INVARIANT TypeOK
INVARIANT CurrentIsComplete
INVARIANT AnsweredIsServed
PROPERTY RunsCleanUp
PROPERTY Reissues
