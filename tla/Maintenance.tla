---------------------------- MODULE Maintenance ----------------------------
(* What preventive maintenance promises, as if a run of the generator were   *)
(* one step: it answers schedules that are due, each with one work order     *)
(* that names the targets it answers, and moves these to the first ones that *)
(* lie ahead.  PMSchedules implements it in many steps of overlapping runs.  *)
EXTENDS Integers, Sequences

CONSTANTS Schedules, NoPlan

VARIABLES today,
          logged,      \* the readings on record of each schedule's asset
          row,         \* the schedules
          generations  \* the work orders of each, oldest first

maintenanceVars == <<today, logged, row, generations>>

None == -1
PlanRow == [active : BOOLEAN, interval : Nat, due : Nat, meter : Nat, meterDue : Int]

MaintenanceInit == /\ today = 0
                   /\ logged = [s \in Schedules |-> {}]
                   /\ row = [s \in Schedules |-> NoPlan]
                   /\ generations = [s \in Schedules |-> <<>>]

NextDay == /\ today' = today + 1
           /\ UNCHANGED <<logged, row, generations>>

Record(s) == /\ \E v \in logged'[s] : logged' = [logged EXCEPT ![s] = @ \cup {v}]
             /\ UNCHANGED <<today, row, generations>>

(* A schedule is entered or edited. *)
Plan(s) == /\ row'[s] \in PlanRow
           /\ row' = [row EXCEPT ![s] = row'[s]]
           /\ UNCHANGED <<today, logged, generations>>

(* Due by its date, or by its meter: `value` is a reading that reached the   *)
(* target.                                                                   *)
Due(w, day, value) ==
    \/ value = None /\ w.due <= day
    \/ value # None /\ w.meter > 0 /\ w.meterDue # None /\ w.meterDue <= value

(* A target is moved by whole intervals, and by none that was not called for; *)
(* in the end it lies ahead of what it was to be moved past.                  *)
Moving(new, old, interval, past) ==
    \E k \in 0..(new - old) : new = old + k * interval /\ (k = 0 \/ new - interval <= past)
Ahead(new, past) == past < new

(* Only the targets of w change, the meter's only if it was reached. *)
OnTheWay(c, w, day, value) ==
    /\ c \in PlanRow
    /\ c.active = w.active /\ c.interval = w.interval /\ c.meter = w.meter
    /\ Moving(c.due, w.due, w.interval, day)
    /\ IF value = None THEN c.meterDue = w.meterDue
                       ELSE Moving(c.meterDue, w.meterDue, w.meter, value)
There(c, day, value) == Ahead(c.due, day) /\ (value # None => Ahead(c.meterDue, value))

(* One schedule of a run for a day, which need not be the day it ends on. *)
Answered(s, day) ==
    /\ row[s] # NoPlan /\ row[s].active
    /\ \E value \in {None} \cup logged[s] : /\ Due(row[s], day, value)
                                            /\ OnTheWay(row'[s], row[s], day, value)
                                            /\ There(row'[s], day, value)
    /\ generations'[s] = Append(generations[s],
            [due |-> row[s].due, meterDue |-> row[s].meterDue, day |-> day])

Run(S, day) ==
    /\ \A s \in S : Answered(s, day)
    /\ row' = [s \in Schedules |-> IF s \in S THEN row'[s] ELSE row[s]]
    /\ generations' = [s \in Schedules |-> IF s \in S THEN generations'[s] ELSE generations[s]]
    /\ UNCHANGED <<today, logged>>

MaintenanceNext ==
    \/ NextDay
    \/ \E s \in Schedules : Record(s) \/ Plan(s)
    \/ \E S \in SUBSET Schedules, day \in 0..today : Run(S, day)

MaintenanceSpec == MaintenanceInit /\ [][MaintenanceNext]_maintenanceVars
=============================================================================
