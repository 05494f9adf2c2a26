CONSTANTS
    o1 = o1
    c1 = c1
    c2 = c2
    p1 = p1
    p2 = p2
    Orders <- MCOrders
    Refs <- MCRefs
    Procs <- MCProcs
    Provider = "daraja"
    MaxPolls = 1
    NoOrder = NoOrder
    NoRef = NoRef
SPECIFICATION Spec
SYMMETRY Symmetry
CHECK_DEADLOCK FALSE
INVARIANT
    ChargesAccountedFor
PROPERTIES
    TransitionsAreLegal
