SPECIFICATION Spec
CONSTANTS
    Runs = {r1, r2}
    None = None
    LeaseDuration = 2
    MaxNow = 4
SYMMETRY Symmetric
INVARIANTS LeaseExclusion LeaseInv
PROPERTIES LeaseChangesHandsFairly ImplementsLeaseService
