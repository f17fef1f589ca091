------------------------------- MODULE MCSite -------------------------------
(* Three parts that share no state - the stockroom, permits, and the         *)
(* migrations of the roles - in one state space.  The initial state says      *)
(* which of them moves, so that their state spaces lie side by side and are  *)
(* not multiplied.                                                           *)
EXTENDS MCInventory, Permits, MCRoleMigrations

VARIABLE moving

SiteInit ==
    /\ Init /\ PermitsInit /\ EmptyDatabase
    /\ moving \in {"stock", "permits", "roles"}

SiteNext ==
    /\ UNCHANGED moving
    /\ \/ moving = "stock" /\ Next /\ UNCHANGED <<permitVars, migrationVars>>
       \/ moving = "permits" /\ PermitsNext /\ UNCHANGED <<vars, migrationVars>>
       \/ moving = "roles" /\ MigrateNext /\ UNCHANGED <<vars, permitVars>>

SiteSpec == SiteInit /\ [][SiteNext]_<<moving, vars, permitVars, migrationVars>>
=============================================================================
