CONSTANTS
    o1 = o1
    c1 = c1
    c2 = c2
    p1 = p1
    p2 = p2
    Orders <- MCOrders
    Refs <- MCRefs
    Procs <- MCProcs
    Provider = "intasend"
    MaxPolls = 2
    NoOrder = NoOrder
    NoRef = NoRef
SPECIFICATION Spec
SYMMETRY Symmetry
CONSTRAINTS
    FewChanges
    PollsOfOne
CHECK_DEADLOCK FALSE
PROPERTY
    ImplementsLedger
