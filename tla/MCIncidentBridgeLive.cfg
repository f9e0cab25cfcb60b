SPECIFICATION FairSpec
CONSTANTS
    NumFindings = 2
    BatchSize = 1
    MaxIncidents = 2
    MaxNow = 2
    MaxUpdates = 2
    MaxOperations = 1
    MaxAborts = 1
CHECK_DEADLOCK FALSE
PROPERTY OpenFindingIsBridged
