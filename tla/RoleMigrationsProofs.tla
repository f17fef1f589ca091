------------------------ MODULE RoleMigrationsProofs ------------------------
(* For any table of migrations in which grants are undone by those who made  *)
(* them and only what is already granted is taken away, whatever the order:   *)
(* nothing is held without a reason, what was taken away stays away, and what *)
(* a migration looks up is there.  And what the start of a container keeps.   *)
EXTENDS RoleMigrations, Sums

(* No migration is on record without the ones it needs: what the way back    *)
(* from a revocation restores is granted by a migration on record.            *)
NeedsClosed == /\ applied \subseteq Names
               /\ \A m \in applied : Needs(m) \subseteq applied

RoleInv == NeedsClosed /\ NothingUnexplained /\ RevokedStaysRevoked

LEMMA InitRoleInv == EmptyDatabase => RoleInv
BY DEF EmptyDatabase, RoleInv, NeedsClosed, NothingUnexplained, RevokedStaysRevoked

-----------------------------------------------------------------------------
LEMMA ApplyClosed == ASSUME NeedsClosed, NEW m \in Names, Apply(m)
                     PROVE  NeedsClosed'
BY DEF NeedsClosed, Apply, Ready

LEMMA UndoClosed == ASSUME NeedsClosed, NEW m \in Names, Undo(m)
                    PROVE  NeedsClosed'
BY DEF NeedsClosed, Undo

(* A permission held before is granted to a group that is still there. *)
LEMMA ApplyExplained == ASSUME NothingUnexplained, NEW m \in Names, Apply(m)
                        PROVE  NothingUnexplained'
<1>1. groups \subseteq groups' /\ applied' = applied \cup {m}
  BY DEF Apply
<1>2. ASSUME NEW p \in held' PROVE \E n \in applied' : p \in Granted(n, groups')
  <2>1. CASE p \in held
    <3>1. PICK n \in applied : p \in Granted(n, groups)
      BY <2>1 DEF NothingUnexplained
    <3> QED
      BY <1>1, <3>1 DEF Granted
  <2>2. CASE p \in Granted(m, groups')
    BY <1>1, <2>2
  <2> QED
    BY <1>2, <2>1, <2>2 DEF Apply, AfterApply
<1>3. ASSUME NEW t \in tasks' PROVE \E n \in applied' : t \in Seeds(n)
  BY <1>1, <1>3 DEF NothingUnexplained, Apply
<1> QED
  BY <1>2, <1>3 DEF NothingUnexplained

(* What m itself granted goes with its groups or is stripped; what it took   *)
(* away comes back to a migration it needs, which is on record.               *)
LEMMA UndoExplained ==
    ASSUME NeedsClosed, NothingUnexplained, NEW m \in Names, Undo(m)
    PROVE  NothingUnexplained'
<1>1. /\ applied' = applied \ {m}
      /\ groups' = groups \ Founds(m)
      /\ held' = AfterUndo(m, groups')
      /\ tasks' = tasks \ Seeds(m)
  BY DEF Undo
<1>2. ASSUME NEW p \in held' PROVE \E n \in applied' : p \in Granted(n, groups')
  <2>1. CASE p \in held /\ p[1] \in groups' /\ p[3] \notin Strips(m)
    <3>1. PICK n \in applied : p \in Granted(n, groups)
      BY <2>1 DEF NothingUnexplained
    <3>2. n # m
      BY <1>1, <2>1, <3>1, TableAssumption DEF Granted
    <3> QED
      BY <1>1, <2>1, <3>1, <3>2 DEF Granted
  <2>2. CASE p \in Revokes(m) /\ p[1] \in groups'
    <3>1. PICK n \in Needs(m) : p \in Grants(n)
      BY <2>2, TableAssumption
    <3>2. n \in applied /\ n # m
      BY <3>1 DEF NeedsClosed, Undo
    <3> QED
      BY <1>1, <2>2, <3>1, <3>2 DEF Granted
  <2> QED
    BY <1>1, <1>2, <2>1, <2>2 DEF AfterUndo
<1>3. ASSUME NEW t \in tasks' PROVE \E n \in applied' : t \in Seeds(n)
  BY <1>1, <1>3 DEF NothingUnexplained
<1> QED
  BY <1>2, <1>3 DEF NothingUnexplained

(* Whoever could grant it again is needed by the one that took it away.      *)
LEMMA ApplyRevoked ==
    ASSUME NeedsClosed, RevokedStaysRevoked, NEW m \in Names, Apply(m)
    PROVE  RevokedStaysRevoked'
<1> SUFFICES ASSUME NEW n \in applied', NEW p \in Revokes(n), p \in held'
             PROVE  FALSE
  BY DEF RevokedStaysRevoked
<1>1. CASE n = m
  BY <1>1 DEF Apply, AfterApply
<1>2. CASE n \in applied
  <2>1. p \in Grants(m)
    BY <1>2 DEF RevokedStaysRevoked, Apply, AfterApply, Granted
  <2>2. m \in Needs(n)
    BY <1>2, <2>1, TableAssumption DEF NeedsClosed
  <2> QED
    BY <1>2, <2>2 DEF NeedsClosed, Apply, Ready
<1> QED
  BY <1>1, <1>2 DEF Apply

LEMMA UndoRevoked ==
    ASSUME NeedsClosed, RevokedStaysRevoked, NEW m \in Names, Undo(m)
    PROVE  RevokedStaysRevoked'
<1> SUFFICES ASSUME NEW n \in applied', NEW p \in Revokes(n), p \in held'
             PROVE  FALSE
  BY DEF RevokedStaysRevoked
<1>1. n \in applied /\ n # m /\ n \in Names
  BY DEF Undo, NeedsClosed
<1>2. p \notin held
  BY <1>1 DEF RevokedStaysRevoked
<1>3. p \in Revokes(m)
  BY <1>2 DEF Undo, AfterUndo
<1> QED
  BY <1>1, <1>3, TableAssumption

-----------------------------------------------------------------------------
LEMMA NextRoleInv == RoleInv /\ [MigrateNext]_migrationVars => RoleInv'
<1> SUFFICES ASSUME RoleInv, [MigrateNext]_migrationVars PROVE RoleInv'
  OBVIOUS
<1> USE DEF RoleInv
<1>1. ASSUME NEW m \in Names, Apply(m) PROVE RoleInv'
  BY <1>1, ApplyClosed, ApplyExplained, ApplyRevoked
<1>2. ASSUME NEW m \in Names, Undo(m) PROVE RoleInv'
  BY <1>2, UndoClosed, UndoExplained, UndoRevoked
<1>3. CASE UNCHANGED migrationVars
  BY <1>3 DEF migrationVars, NeedsClosed, NothingUnexplained, RevokedStaysRevoked
<1> QED
  BY <1>1, <1>2, <1>3 DEF MigrateNext

(* Whatever is applied, undone and applied again, a group never holds a      *)
(* permission, nor is a task scheduled, that no migration on record explains. *)
THEOREM EveryPermissionIsExplained == MigrateSpec => []NothingUnexplained
<1> QED
  BY InitRoleInv, NextRoleInv, PTL DEF MigrateSpec, RoleInv

(* What a migration on record has taken from the Admin role is not held by   *)
(* it again before that migration is undone.                                  *)
THEOREM RevocationsHold == MigrateSpec => []RevokedStaysRevoked
<1> QED
  BY InitRoleInv, NextRoleInv, PTL DEF MigrateSpec, RoleInv

-----------------------------------------------------------------------------
(* What is behind a migration *)

Plan(f) == [m \in Names |-> {m} \cup UNION {f[d] : d \in Needs(m)}]

(* What every set of migrations has that has m and what its members need.    *)
Complete == {S \in SUBSET Names : \A m \in S : Needs(m) \subseteq S}
Least(m) == {n \in Names : \A S \in Complete : m \in S => n \in S}

LEMMA LeastIsComplete ==
    ASSUME NEW m \in Names
    PROVE  m \in Least(m) /\ Least(m) \in Complete
BY TableAssumption DEF Least, Complete

LEMMA LeastStep ==
    ASSUME NEW m \in Names
    PROVE  Least(m) = {m} \cup UNION {Least(d) : d \in Needs(m)}
<1> DEFINE rest == UNION {Least(d) : d \in Needs(m)}
<1>1. {m} \cup rest \in Complete
  <2>1. {m} \cup rest \subseteq Names
    BY DEF Least
  <2>2. Needs(m) \subseteq rest
    BY TableAssumption, LeastIsComplete
  <2>3. ASSUME NEW n \in rest PROVE Needs(n) \subseteq rest
    <3>1. PICK d \in Needs(m) : n \in Least(d)
      OBVIOUS
    <3>2. Needs(n) \subseteq Least(d)
      BY <3>1, TableAssumption, LeastIsComplete DEF Complete
    <3> QED
      BY <3>2
  <2> QED
    BY <2>1, <2>2, <2>3 DEF Complete
<1>2. Least(m) \subseteq {m} \cup rest
  BY <1>1 DEF Least
<1>3. \A d \in Needs(m) : Least(d) \subseteq Least(m)
  BY TableAssumption DEF Least, Complete
<1>4. m \in Least(m)
  BY LeastIsComplete
<1> QED
  BY <1>2, <1>3, <1>4

(* So there is a function that Behind's recursion defines.                   *)
LEMMA BehindStep ==
    ASSUME NEW m \in Names
    PROVE  Behind[m] = {m} \cup UNION {Behind[d] : d \in Needs(m)}
<1>1. Behind = CHOOSE f : f = Plan(f)
  BY DEF Behind, Plan
<1> DEFINE f == [n \in Names |-> Least(n)]
<1>2. f = Plan(f)
  <2>1. \A n \in Names : UNION {f[d] : d \in Needs(n)} = UNION {Least(d) : d \in Needs(n)}
    BY TableAssumption
  <2> QED
    BY <2>1, LeastStep DEF Plan
<1> HIDE DEF f
<1>3. Behind = Plan(Behind)
  BY <1>1, <1>2
<1> QED
  BY <1>3 DEF Plan

(* Migrations that have what they need have all that is behind them: one     *)
(* with the least behind it, among any that did not, would have.             *)
LEMMA BehindIsThere ==
    ASSUME NEW S \in Complete, NEW m \in S
    PROVE  Behind[m] \subseteq S
<1> DEFINE Bad == {n \in S : ~(Behind[n] \subseteq S)}
           T == {Behind[n] : n \in Bad}
<1> SUFFICES ASSUME Bad # {} PROVE FALSE
  OBVIOUS
<1>1. T \subseteq SUBSET Names /\ T # {}
  BY PlanAssumption DEF Complete
<1>2. PICK A \in T : \A B \in T : B \subseteq A => B = A
  <2> HIDE DEF T
  <2> QED
    BY <1>1, PlanAssumption, Smallest
<1>3. PICK n \in Bad : A = Behind[n]
  OBVIOUS
<1>4. n \in Names /\ Needs(n) \subseteq S
  BY <1>3 DEF Complete
<1>5. PICK d \in Needs(n) : ~(Behind[d] \subseteq S)
  BY <1>3, <1>4, BehindStep
<1>6. d \in Bad /\ Behind[d] \in T
  BY <1>4, <1>5
<1>7. Behind[d] \subseteq A /\ n \in A /\ n \notin Behind[d]
  BY <1>3, <1>4, BehindStep, PlanAssumption
<1> QED
  BY <1>2, <1>6, <1>7

-----------------------------------------------------------------------------
(* What a migration that is ready looks up was created by one it waited for. *)
LEMMA ReadyIsFound == NeedsClosed => GrantsResolve
<1> SUFFICES ASSUME NeedsClosed, NEW m \in Names, Ready(m) PROVE Found(m)
  BY DEF GrantsResolve
<1>1. applied \in Complete
  BY DEF NeedsClosed, Complete
<1>2. Behind[m] \ {m} \subseteq applied
  BY <1>1, BehindStep, BehindIsThere DEF Ready
<1>3. LookedUp[m] \subseteq {"user", "group"} \cup UNION {Book[n].creates : n \in Behind[m] \ {m}}
  BY PlanAssumption
<1> QED
  BY <1>2, <1>3 DEF Found, Created

(* No order of migrations, undone ones included, looks a permission up before *)
(* its model is there: Permission.get does not raise.                         *)
THEOREM LookupsResolve == MigrateSpec => []GrantsResolve
<1> QED
  BY InitRoleInv, NextRoleInv, ReadyIsFound, PTL DEF MigrateSpec, RoleInv

-----------------------------------------------------------------------------
(* The start of a container *)

GuardInv == /\ NeedsClosed
            /\ \A m \in applied : Founds(m) \subseteq groups
            /\ GuardedGrantsHeld

LEMMA ApplyGuarded == ASSUME GuardInv, NEW m \in Names, Apply(m) PROVE GuardInv'
<1>1. NeedsClosed'
  BY ApplyClosed DEF GuardInv
<1>2. /\ applied' = applied \cup {m} /\ groups' = groups \cup Founds(m)
      /\ held' = (held \cup Granted(m, groups')) \ Revokes(m)
  BY DEF Apply, AfterApply
<1>3. \A n \in applied' : Founds(n) \subseteq groups'
  BY <1>2 DEF GuardInv
<1>4. ASSUME NEW k \in applied', NEW p \in Grants(k), NEW n \in Behind[k], p[1] \in Founds(n)
      PROVE  p \in held' \/ \E r \in applied' : p \in Revokes(r)
  <2>1. CASE k \in applied
    BY <1>2, <1>4, <2>1 DEF GuardInv, GuardedGrantsHeld
  <2>2. CASE k = m
    <3>1. applied' \in Complete
      BY <1>1 DEF NeedsClosed, Complete
    <3>2. n \in applied'
      BY <3>1, BehindIsThere
    <3>3. p \in Granted(m, groups')
      BY <1>3, <1>4, <2>2, <3>2 DEF Granted
    <3> QED
      BY <1>2, <3>3
  <2> QED
    BY <1>2, <2>1, <2>2
<1> QED
  BY <1>1, <1>3, <1>4 DEF GuardInv, GuardedGrantsHeld

(* A start that crashes and resumes anywhere included, the only grants that   *)
(* are lost are those of migrations that do not wait for the one that founds  *)
(* the group: the finding of fresh_install has no other cause.                *)
THEOREM GuardedGrantsAreHeld == DeploySpec => []GuardedGrantsHeld
<1>1. EmptyDatabase => GuardInv
  BY DEF EmptyDatabase, GuardInv, NeedsClosed, GuardedGrantsHeld
<1>2. GuardInv /\ [Deploy]_migrationVars => GuardInv'
  <2> SUFFICES ASSUME GuardInv, [Deploy]_migrationVars PROVE GuardInv'
    OBVIOUS
  <2>1. CASE Deploy
    <3>1. PICK m \in Names : Apply(m)
      BY <2>1, PlanAssumption DEF Deploy
    <3> QED
      BY <3>1, ApplyGuarded
  <2>2. CASE UNCHANGED migrationVars
    BY <2>2 DEF migrationVars, GuardInv, NeedsClosed, GuardedGrantsHeld
  <2> QED
    BY <2>1, <2>2
<1> QED
  BY <1>1, <1>2, PTL DEF DeploySpec, GuardInv
=============================================================================
