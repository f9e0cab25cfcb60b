SPECIFICATION Spec
CONSTANTS
    Tenants = {t1}
    Dispatchers = {d1, d2}
    Limit = 2
    BasicLimit = 1
    MaxRetries = 1
    MaxAlerts = 2
    MaxAborts = 1
SYMMETRY Symmetric
INVARIANTS DispatchInv OneSendPerEvent RetriesMatchFailures
PROPERTIES ImplementsAlertQueue
CHECK_DEADLOCK FALSE
