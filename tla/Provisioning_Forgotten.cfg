SPECIFICATION ProvSpec
CONSTANTS
    Tenants = {t1}
    Emails = {e1}
    Workers = {w1}
    MaxAttempts = 3
    MaxCrashes = 0
    MaxStalls = 1
    Slugs = {}
PROPERTY RecordKeptWhileRetrying
CHECK_DEADLOCK FALSE
