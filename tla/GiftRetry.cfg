CONSTANTS
    b1 = b1
    b2 = b2
    here = here
    None = None
    Boxes <- MCBoxes
    Engraved <- MCEngraved
    Values <- MCValues
    Messages <- MCMessages
    MaxDrafts = 1
    MaxOrders = 2
    MaxFaults = 1
SPECIFICATION Spec
CHECK_DEADLOCK FALSE
INVARIANTS
    RetryPaysOnce
