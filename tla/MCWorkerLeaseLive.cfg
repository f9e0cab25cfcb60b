SPECIFICATION FairSpec
CONSTANTS
    Runs = {r1, r2}
    None = None
    LeaseDuration = 1
    MaxNow = 2
PROPERTIES CrashedHolderIsReplaced
