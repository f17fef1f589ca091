\* Two technicians and a planner at work, the office closed.
CONSTANTS
    l1 = l1
    l2 = l2
    o1 = o1
    o2 = o2
    Nobody = Nobody
    Levels = {l1}
    Orders = {o1}
    Lines = {1}
    OrderOf <- SameOrder
    LevelOf <- SameLevel
    WorkOrders = {w1, w2}
    Technicians = {t1, t2}
    Clerks = {}
    Stocktakers = {}
    Planners = {p1}
    Opening <- OnlyFirst
    Quantities = {1, 2}
    HandStatuses = {"DRAFT", "ORDERED"}
    Deletable = {}
    MaxUsed = 2
    MaxReservations = 2
SPECIFICATION FairSpec
INVARIANTS Balanced FulfilledIsCovered
PROPERTIES LedgerSpec ScansEnd
CHECK_DEADLOCK FALSE
