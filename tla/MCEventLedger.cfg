SPECIFICATION Spec
CONSTANTS
    k1 = k1
    k2 = k2
    d1 = d1
    d2 = d2
    d3 = d3
    Keys <- MCKeys
    Deliveries <- MCDeliveries
    Batch <- MCBatch
    TTL = 1
    MaxNow = 2
SYMMETRY Symmetric
INVARIANTS AtMostOnce NoSilentLoss LedgerInv
PROPERTIES ImplementsEventStore
CHECK_DEADLOCK FALSE
