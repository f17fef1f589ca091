\* Phones and a desk with one work order, in three settings; two runs over two schedules, whose workers may die: the digest and the dashboard over one work order that is being saved: side by side.
CONSTANTS
    Schedules = {s1, s2}
    Generators = {g1, g2}
    PlanEditors = {}
    NoRun = NoRun
    NoPlan = NoPlan
    StartDates = {0}
    Intervals = {1}
    MeterIntervals = {0, 1}
    LastDay = 1
    MaxReading = 1
    Unlucky = {g1, g2}
    MaxGenerations = 2
    spare = ph2
    Typed = {"blank"}
    Tickets = {w1}
    Statuses = {"OPEN", "IN_PROGRESS", "CLOSED"}
    People = {ann, bob}
    Reachable = {ann}
    NoOne = NoOne
    Phones = {ph1, ph2}
    Desks = {d1}
    Nobody = Nobody
    NoRow = NoRow
    PhonesCrash = TRUE
    MaxConfigurations = 1
    MaxLog = 2
    late = late
    near = near
    far = far
    boss = boss
    lead = lead
    crew = crew
    team = team
    Jobs = {late}
    Sites = {near, far}
    Teams = {team}
    SiteOf <- JobNear
    TeamOf <- OneTeam
    NoTeam = NoTeam
    Response <- OneHour
    Resolution <- TwoHours
    NoTarget = NoTarget
    Managers = {lead, boss}
    Bypass = {boss}
    UserGroups <- InCrew
    Assignable = {crew}
    Calls = {call}
    Forms = {form}
    LastHour = 3
SPECIFICATION OfficeSpec
INVARIANTS TypeOK AssigneeWasMailed ClosedIsStamped StatusIsLogged LogInventsNothing PlansTypeOK EachTriggerOnce OneCatchUp DigestIsRight DashboardIsRight BoardIsComplete
PROPERTIES SnapshotFrozen VerdictIsFinal MaintenanceSpec
SYMMETRY Interchangeable
CHECK_DEADLOCK FALSE
