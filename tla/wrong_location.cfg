\* The part lies on both shelves, and the ids of the levels are not those of the locations.
CONSTANTS
    a = a
    b = b
    near = near
    far = far
    north = north
    south = south
    NoTicket = NoTicket
    Tickets = {a, b}
    Locations = {near, far}
    LevelId <- OneAway
    LocationId <- InOrder
    SiteOf <- BySite
    Scopes <- AllOrNorth
    Permissions <- Everything
    Checklist <- OnlyB
    Items = {"step"}
    Opening <- OneEach
    Slots = {1, 2}
    MaxPosts = 1
    Quantities = {1}
    Chosen = {"OPEN"}
    MaxCameras = 0
    Codes = {"known"}
SPECIFICATION Spec
INVARIANTS BookedFromChosen
