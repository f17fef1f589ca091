-------------------------- MODULE MCRoleMigrations --------------------------
(* The migrations of the repository, for TLC. *)
EXTENDS RoleMigrations, RoleTables

Leaves == <<"assets.0011", "core.0013", "inventory.0003", "maintenance.0002",
            "safety.0004", "teams.0003", "workorders.0009">>
=============================================================================
