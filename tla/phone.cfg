\* One phone, two tickets at two sites, one part on one of two shelves.
CONSTANTS
    a = a
    b = b
    near = near
    far = far
    north = north
    south = south
    NoTicket = NoTicket
    Tickets = {a, b}
    Locations = {near, far}
    LevelId <- OneRight
    LocationId <- InOrder
    SiteOf <- BySite
    Scopes <- AllOrNorth
    Permissions <- Everything
    Checklist <- OnlyB
    Items = {"step"}
    Opening <- OneNear
    Slots = {1, 2}
    MaxPosts = 1
    Quantities = {1, 2}
    Chosen = {"OPEN"}
    MaxCameras = 1
    Codes = {"known"}
SPECIFICATION FairSpec
INVARIANTS TypeOK EveryBookingWasAskedFor FlagFollowsShortage
PROPERTIES EveryWaitEnds
