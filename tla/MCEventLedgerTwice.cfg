SPECIFICATION Spec
CONSTANTS
    k1 = k1
    k2 = k2
    d1 = d1
    d2 = d2
    d3 = d3
    Keys <- OneKey
    Deliveries <- MCDeliveries
    Batch <- OneKeyBatch
    TTL = 1
    MaxNow = 2
INVARIANT NeverTwice
CHECK_DEADLOCK FALSE
