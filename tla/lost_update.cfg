\* A technician takes parts while a clerk receives some.
CONSTANTS
    l1 = l1
    l2 = l2
    o1 = o1
    o2 = o2
    Nobody = Nobody
    Levels = {l1}
    Orders = {o1}
    Lines = {1}
    OrderOf <- SameOrder
    LevelOf <- SameLevel
    WorkOrders = {w1}
    Technicians = {t1}
    Clerks = {c1}
    Stocktakers = {}
    Planners = {}
    Opening <- OnlyFirst
    Quantities = {0, 1, 2}
    HandStatuses = {"DRAFT", "ORDERED"}
    Deletable = {}
    MaxUsed = 3
    MaxReservations = 0
SPECIFICATION Spec
INVARIANTS Balanced
