SPECIFICATION FairSpec
CONSTANTS
    Tenants = {t1}
    Dispatchers = {d1}
    Limit = 1
    BasicLimit = 1
    MaxRetries = 1
    MaxAlerts = 2
    MaxAborts = 1
CHECK_DEADLOCK FALSE
PROPERTY PendingIsSettled
