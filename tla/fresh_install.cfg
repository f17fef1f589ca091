\* A container starts on an empty database.
CONSTANTS
    Table <- RoleTable
    AppOrder <- Leaves
SPECIFICATION DeploySpec
INVARIANTS RolesAsDocumented
CHECK_DEADLOCK FALSE
