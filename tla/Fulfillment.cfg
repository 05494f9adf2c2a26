CONSTANTS
    o1 = o1
    a1 = a1
    k1 = k1
    w1 = w1
    w2 = w2
    Orders <- MCOrders
    Admins <- MCOneAdmin
    Tasks <- MCOneTask
    Writers <- MCWriters
    AuditKeep = 1
    MaxVersion = 1
    Targets = {"sourcing_approved", "sourcing_in_progress", "quality_check", "packing", "ready_for_dispatch", "out_for_delivery", "delivered"}
    Kinds = {"paid", "cancel", "resend"}
    MaxInFlight = 2
    NoOrder = NoOrder
SPECIFICATION Spec
SYMMETRY Symmetry
CONSTRAINT
    UntilDelivered
CHECK_DEADLOCK FALSE
INVARIANTS
    StagesInOrder
    PageIsEarned
PROPERTIES
    OnlyOverwritesHarm
