CONSTANTS
    steady = steady
    flaky = flaky
    w1 = w1
    w2 = w2
    Endpoints <- MCEndpoints
    Workers <- MCWorkers
    Answers <- MCAnswers
    BatchLimit = 2
    DisableAfter = 2
    MaxRows = 2
    MaxFaults = 1
    KbTasks = {t1, t2}
    NTreasures = 1
    NPlain = 1
    NPolicies = 1
    MaxKbRows = 8
    MaxKbActs = 2
    MaxKbFaults = 1
    Admins = {a1, a2}
    Seeded = a1
    Machine = machine
    Calls = {q1, q2}
    MaxCalls = 4
    Staff = {s1, s2}
    MaxDeskActs = 4
    MaxDeskFaults = 1
    Owners = {p1, p2}
    Messengers = {g1}
    Canonical = {collections}
    Extra = {extra}
    MaxProfileActs = 4
    People = {m1, m2}
    Root = root
    Tenants = {b1, b2}
    TeamCalls = {q1, q2}
    MaxTeamActs = 3
SPECIFICATION ConsoleSpec
CHECK_DEADLOCK FALSE
INVARIANTS
    ExclusiveDelivery
    KbIsSound
    RevokedStaysRevoked
    AccessIsAudited
    OwnedIsPaused
PROPERTIES
    DisabledByStreak
    DeliveredUnlessCrowded
    CatalogReturns
    SuperadminStays
    PhotosStay
