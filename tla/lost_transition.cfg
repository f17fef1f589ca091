\* A phone and a desk with one work order.
CONSTANTS
    Typed = {"blank", "typed"}
    Tickets = {w1}
    Statuses = {"OPEN", "CLOSED"}
    People = {}
    Reachable = {}
    NoOne = NoOne
    Phones = {p1}
    Desks = {d1}
    Nobody = Nobody
    NoRow = NoRow
    PhonesCrash = FALSE
    MaxConfigurations = 0
    MaxLog = 2
SPECIFICATION Spec
INVARIANTS LogTellsStatus
CHECK_DEADLOCK FALSE
