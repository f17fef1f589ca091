\* Two supervisors of some sites each approve the same two permits.
CONSTANTS
    Permits = {p1, p2}
    Users = {ann, bob, cat}
    Supervisors = {ann, bob}
    Unscoped = {}
    Editors = {}
    Contents = {"open"}
    NotApproved = NotApproved
    Unlocked = Unlocked
SPECIFICATION PermitsSpec
PROPERTIES ApprovalStands
CHECK_DEADLOCK FALSE
