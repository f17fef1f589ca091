\* Two clerks on one order of two lines for one new level; permits; the data migrations: side by side.
CONSTANTS
    l1 = l1
    l2 = l2
    o1 = o1
    o2 = o2
    Nobody = Nobody
    Levels = {l1}
    Orders = {o1}
    Lines = {1, 2}
    OrderOf <- SameOrder
    LevelOf <- SameLevel
    WorkOrders = {w1}
    Technicians = {}
    Clerks = {c1, c2}
    Stocktakers = {}
    Planners = {}
    Opening <- NoRowYet
    Quantities = {1, 2}
    HandStatuses = {"ORDERED"}
    Deletable = {}
    MaxUsed = 3
    MaxReservations = 0
    Permits = {p1, p2}
    Users = {ann, bob, cat, dan}
    Supervisors = {ann, bob, cat}
    Unscoped = {cat}
    Editors = {e1}
    Contents = {"open"}
    NotApproved = NotApproved
    Unlocked = Unlocked
    Table <- RoleTable
    AppOrder <- Leaves
SPECIFICATION SiteSpec
INVARIANTS CreditedOnce Balanced ApproverIsSupervisor NothingUnexplained RevokedStaysRevoked GrantsResolve
PROPERTIES ReceivedNeverFalls RolledUpOnCommit ApproverKept
SYMMETRY Interchangeable
