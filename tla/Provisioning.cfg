SPECIFICATION ProvFairSpec
CONSTANTS
    Tenants = {t1}
    Emails = {e1}
    Workers = {w1, w2}
    MaxAttempts = 3
    MaxCrashes = 1
    MaxStalls = 1
    Slugs = {}
INVARIANTS
    CompletedIsBuilt
    CompletedJobOpensTenant
    AttemptsAreRuns
PROPERTIES
    JobsEnd
    RecordsGo
CHECK_DEADLOCK FALSE
