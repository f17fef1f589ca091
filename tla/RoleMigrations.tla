--------------------------- MODULE RoleMigrations ---------------------------
(* How the groups of the CMMS get their permissions: data migrations, each   *)
(* of which founds groups, grants, revokes or seeds a periodic task, and can *)
(* be undone.  `migrate` runs them one transaction at a time, in any order   *)
(* that respects their dependencies when it is called app by app, and in the *)
(* order of its plan when a container starts.                                *)
EXTENDS Integers, FiniteSets

CONSTANTS Table,     \* what each migration does
          AppOrder   \* the leaf migrations `migrate` works towards, in order

(* A migration comes after the ones it needs.  It creates models, and with   *)
(* them their permissions; founds groups by get_or_create; grants and        *)
(* revokes <<group, action, model>>; seeds periodic tasks.  Undone, it strips *)
(* all groups of every permission on some models.                            *)
Names == DOMAIN Table
Book == [m \in Names |-> Table[m]]
Needs(m) == Book[m].needs
Founds(m) == Book[m].founds
Grants(m) == Book[m].grants
Revokes(m) == Book[m].revokes
Strips(m) == Book[m].strips
Seeds(m) == Book[m].seeds

ASSUME TableAssumption ==
    /\ \A m \in Names : Needs(m) \subseteq Names
    /\ \A m \in Names : \A p \in Grants(m) :
          p[1] \in Founds(m) \/ p[3] \in Strips(m)
    /\ \A m \in Names : \A p \in Revokes(m) :
          /\ \E d \in Needs(m) : p \in Grants(d)
          /\ \A d \in Names : p \in Grants(d) => d \in Needs(m)
          /\ \A n \in Names : p \in Revokes(n) => n = m

VARIABLES applied,  \* the migrations on record in django_migrations
          groups,   \* the groups there are
          held,     \* the permissions they hold
          tasks     \* the periodic tasks there are

migrationVars == <<applied, groups, held, tasks>>

(* An empty database. *)
EmptyDatabase ==
    /\ applied = {}
    /\ groups = {}
    /\ held = {}
    /\ tasks = {}

-----------------------------------------------------------------------------
(* create_permissions runs first, for the models of the migrations so far.   *)
(* Mutant: permissions are left to the signal at the end of `migrate`.       *)
Created_BySignal ==
    {"user", "group"} \cup UNION {Book[m].creates : m \in {n \in Names : applied = Names}}
Created == {"user", "group"} \cup UNION {Book[m].creates : m \in applied}
Ready(m) == m \notin applied /\ Needs(m) \subseteq applied
LookedUp == [m \in Names |-> {p[3] : p \in Grants(m)}]
Found(m) == LookedUp[m] \subseteq Created

(* A grant to a group that is not there is passed over in silence. *)
Granted(m, there) == {p \in Grants(m) : p[1] \in there}

(* Mutant: the permissions the new role replaces are left with the old one. *)
AfterApply_KeepRevoked(m, there) == held \cup Granted(m, there)
AfterApply(m, there) == (held \cup Granted(m, there)) \ Revokes(m)

(* Permission.get raises when there is no such permission: no step. *)
Apply(m) ==
    /\ Ready(m)
    /\ Found(m)
    /\ applied' = applied \cup {m}
    /\ groups' = groups \cup Founds(m)
    /\ held' = AfterApply(m, groups')
    /\ tasks' = tasks \cup Seeds(m)

(* Mutant: the way back only deletes the groups that were founded. *)
AfterUndo_Keep(m, there) ==
    {p \in held : p[1] \in there} \cup {p \in Revokes(m) : p[1] \in there}

(* Deleting a group deletes its rows of permissions; every other group loses *)
(* the permissions the way back names, whoever granted them.                 *)
AfterUndo(m, there) ==
    {p \in held : p[1] \in there /\ p[3] \notin Strips(m)}
        \cup {p \in Revokes(m) : p[1] \in there}

Undo(m) ==
    /\ m \in applied
    /\ \A n \in applied : m \notin Needs(n)
    /\ applied' = applied \ {m}
    /\ groups' = groups \ Founds(m)
    /\ held' = AfterUndo(m, groups')
    /\ tasks' = tasks \ Seeds(m)

(* The plan of `migrate`: what the leaves of the apps need, app by app in    *)
(* alphabetical order.  A crash between two migrations resumes there.        *)
Behind[m \in Names] == {m} \cup UNION {Behind[d] : d \in Needs(m)}

(* Nothing needs itself, and a permission that is looked up is on a model of *)
(* a migration that was waited for.                                          *)
ASSUME PlanAssumption ==
    /\ IsFiniteSet(Names)
    /\ \A i \in DOMAIN AppOrder : AppOrder[i] \in Names
    /\ \A m \in Names :
          /\ Behind[m] \subseteq Names
          /\ \A d \in Needs(m) : m \notin Behind[d]
          /\ LookedUp[m] \subseteq
                {"user", "group"} \cup UNION {Book[n].creates : n \in Behind[m] \ {m}}

Deploy ==
    \E i \in DOMAIN AppOrder :
        /\ \A j \in 1..(i - 1) : AppOrder[j] \in applied
        /\ \E m \in Behind[AppOrder[i]] : Apply(m)

MigrateNext == \E m \in Names : Apply(m) \/ Undo(m)

MigrateSpec == EmptyDatabase /\ [][MigrateNext]_migrationVars
DeploySpec == EmptyDatabase /\ [][Deploy]_migrationVars

-----------------------------------------------------------------------------
(* Whatever has been applied, undone and applied again, in whichever order:  *)
(* a group holds a permission only because a migration on record grants it,  *)
(* and a task is scheduled only because one on record seeds it.  An undone   *)
(* migration leaves nothing behind.                                          *)
NothingUnexplained ==
    /\ held \subseteq UNION {Granted(m, groups) : m \in applied}
    /\ tasks \subseteq UNION {Seeds(m) : m \in applied}

(* "Locks configuration editing to superadmins": what a migration on record  *)
(* has taken from a group stays taken, whatever is undone and applied again. *)
RevokedStaysRevoked ==
    \A m \in applied : Revokes(m) \cap held = {}

(* No order of migrations looks a permission up before its model is there.   *)
GrantsResolve == \A m \in Names : Ready(m) => Found(m)

(* The roles as the migrations' docstrings describe them, once `migrate` is  *)
(* through: what is granted and not taken away again is held.                *)
RolesAsDocumented ==
    applied = Names =>
        \A m \in Names : \A p \in Grants(m) :
            p \in held \/ \E n \in Names : p \in Revokes(n)

(* What `migrate` does keep of that: a grant is held or taken away again, if *)
(* a migration it waits for founds its group.                                *)
GuardedGrantsHeld ==
    \A m \in applied : \A p \in Grants(m) :
        (\E n \in Behind[m] : p[1] \in Founds(n)) =>
            p \in held \/ \E n \in applied : p \in Revokes(n)
=============================================================================
