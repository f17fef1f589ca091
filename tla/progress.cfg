\* Two orders received in opposite order of levels.
CONSTANTS
    l1 = l1
    l2 = l2
    o1 = o1
    o2 = o2
    Nobody = Nobody
    Levels = {l1, l2}
    Orders = {o1, o2}
    Lines = {1, 2, 3, 4}
    OrderOf <- TwoEach
    LevelOf <- Crossed
    WorkOrders = {w1}
    Technicians = {}
    Clerks = {c1, c2}
    Stocktakers = {}
    Planners = {}
    Opening <- OnlyFirst
    Quantities = {1}
    HandStatuses = {"ORDERED"}
    Deletable = {}
    MaxUsed = 1
    MaxReservations = 0
SPECIFICATION FairSpec
PROPERTIES PostsEnd
