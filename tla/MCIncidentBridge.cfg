SPECIFICATION Spec
CONSTANTS
    NumFindings = 2
    BatchSize = 2
    MaxIncidents = 2
    MaxNow = 2
    MaxUpdates = 3
    MaxOperations = 2
    MaxAborts = 1
INVARIANTS BridgeInv IncidentMirrorsFinding NothingIsOverlooked OpeningsAreAlerted
PROPERTIES ImplementsFindingWatch
CHECK_DEADLOCK FALSE
