\* Everyone at one stock level.
CONSTANTS
    l1 = l1
    l2 = l2
    o1 = o1
    o2 = o2
    Nobody = Nobody
    Levels = {l1}
    Orders = {o1}
    Lines = {1}
    OrderOf <- SameOrder
    LevelOf <- SameLevel
    WorkOrders = {w1}
    Technicians = {ann, bob}
    Clerks = {c1}
    Stocktakers = {s1}
    Planners = {}
    Opening <- OnlyFirst
    Quantities = {1, 2}
    HandStatuses = {"DRAFT", "ORDERED"}
    Deletable = {1}
    MaxUsed = 2
    MaxReservations = 0
SPECIFICATION Spec
INVARIANTS TypeOK NeverOverdrawn LockedReadIsCurrent
SYMMETRY Interchangeable
