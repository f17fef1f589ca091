----------------------------- MODULE PMSchedules -----------------------------
(* Preventive maintenance (src/backend/maintenance): schedules that turn     *)
(* into work orders when their date or their meter target has come.          *)
(*                                                                           *)
(* Generators run generate_due_work_orders: the daily Celery task and the    *)
(* management command are separate processes and may overlap.  A run is one  *)
(* transaction, which locks its candidate rows one after the other; each is  *)
(* looked at again, as it is by then, once its lock is granted (PostgreSQL,  *)
(* READ COMMITTED).  Editors save the admin form, which carries every field  *)
(* as the page showed it.                                                    *)
EXTENDS Integers, Sequences

CONSTANTS Schedules,       \* PMSchedule rows that may be created
          Generators,      \* runs of generate_due_work_orders
          PlanEditors,     \* users with the change form open
          NoRun,           \* who holds an unlocked row
          NoPlan,          \* a schedule not created yet
          StartDates,      \* the dates schedules are anchored at
          Intervals,       \* the interval_days people type
          MeterIntervals,  \* the meter_intervals people type; 0: no meter
          Unlucky,         \* the runs whose worker may die
          LastDay,         \* bound: the last day
          MaxGenerations,  \* bound: work orders of a schedule that is edited
          MaxReading       \* bound: the highest meter reading

(* "No value yet", of a meter or of a target. *)
None == -1

ASSUME PMAssumption ==
    /\ NoRun \notin Generators
    /\ StartDates \subseteq Nat /\ Intervals \subseteq Nat /\ MeterIntervals \subseteq Nat
    /\ Unlucky \subseteq Generators
    /\ LastDay \in Nat /\ MaxReading \in Nat /\ MaxGenerations \in Nat

VARIABLES
    today,
    reading,      \* the latest AssetMeterReading of each schedule's asset
    logged,       \* the values of all of them
    row,          \* the committed PMSchedule rows
    heldBy,       \* the run that has locked a row
    generations,  \* the committed work orders of each schedule, oldest first
    run,          \* the runs in progress
    form          \* the change form each editor has open

planVars == <<today, reading, logged, row, heldBy, generations, run, form>>

PlanRow == [active : BOOLEAN, interval : Nat, due : Nat, meter : Nat, meterDue : Int]
ASSUME NoPlanAssumption == NoPlan \notin PlanRow
Generation == [due : Nat, meterDue : Int, day : 0..LastDay]

IdleRun == [pc |-> "idle"]
Resting(g) == run[g].pc = "idle"
NoForm == [schedule |-> NoPlan, shown |-> NoPlan]

PlansInit ==
    /\ today = 0
    /\ reading = [s \in Schedules |-> None]
    /\ logged = [s \in Schedules |-> {}]
    /\ row = [s \in Schedules |-> NoPlan]
    /\ heldBy = [s \in Schedules |-> NoRun]
    /\ generations = [s \in Schedules |-> <<>>]
    /\ run = [g \in Generators |-> IdleRun]
    /\ form = [e \in PlanEditors |-> NoForm]

-----------------------------------------------------------------------------
(* The world *)

Midnight == /\ today < LastDay
            /\ today' = today + 1
            /\ UNCHANGED <<reading, logged, row, heldBy, generations, run, form>>

(* A new reading, which may also correct a wrong one downwards. *)
LogReading(s, v) == /\ reading' = [reading EXCEPT ![s] = v]
                    /\ logged' = [logged EXCEPT ![s] = @ \cup {v}]
                    /\ UNCHANGED <<today, row, heldBy, generations, run, form>>

(* PMSchedule.save of a new row: both targets are anchored. *)
Anchor(s) == IF reading[s] = None THEN 0 ELSE reading[s]
Create(s, date, interval, meter) ==
    /\ row[s] = NoPlan
    /\ row' = [row EXCEPT ![s] =
            [active |-> TRUE, interval |-> interval, due |-> date, meter |-> meter,
             meterDue |-> IF meter = 0 THEN None ELSE Anchor(s) + meter]]
    /\ UNCHANGED <<today, reading, logged, heldBy, generations, run, form>>

-----------------------------------------------------------------------------
(* The change form *)

OpenPlan(e, s) ==
    /\ form[e] = NoForm
    /\ row[s] # NoPlan
    /\ Len(generations[s]) < MaxGenerations
    /\ form' = [form EXCEPT ![e] = [schedule |-> s, shown |-> row[s]]]
    /\ UNCHANGED <<today, reading, logged, row, heldBy, generations, run>>

(* The row becomes what the form shows, edited or not; save() anchors        *)
(* nothing in a row that is not new.                                         *)
SavePlan(e, active, interval, meter) ==
    LET s == form[e].schedule IN
    /\ form[e] # NoForm
    /\ heldBy[s] = NoRun
    /\ row' = [row EXCEPT ![s] = [form[e].shown EXCEPT !.active = active,
                                      !.interval = interval, !.meter = meter]]
    /\ form' = [form EXCEPT ![e] = NoForm]
    /\ UNCHANGED <<today, reading, logged, heldBy, generations, run>>

-----------------------------------------------------------------------------
(* generate_due_work_orders *)

(* Mutant: what is due on the very day is left out. *)
Candidate_Overdue(r, asOf) == /\ r # NoPlan
                              /\ r.active
                              /\ r.due < asOf \/ r.meter > 0
Candidate(r, asOf) == /\ r # NoPlan
                      /\ r.active
                      /\ r.due <= asOf \/ r.meter > 0

(* Mutant: one day ahead. *)
AsOf_Tomorrow == today + 1
AsOf == today

Begin(g) ==
    /\ Resting(g)
    /\ run' = [run EXCEPT ![g] =
            [pc |-> "lock", asOf |-> AsOf, toDo |-> {s \in Schedules : Candidate(row[s], AsOf)},
             mine |-> {}, copy |-> row, current |-> NoPlan, seen |-> None, made |-> {}]]
    /\ UNCHANGED <<today, reading, logged, row, heldBy, generations, form>>

(* Mutant: the lock is not waited for.                                       *)
RowGranted_Always(s) == TRUE
RowGranted(s) == heldBy[s] = NoRun

(* Mutant: what was a candidate before the wait is one after it.             *)
StillCandidate_Always(s, asOf) == TRUE
StillCandidate(s, asOf) == Candidate(row[s], asOf)

LockSchedule(g, s) ==
    /\ run[g].pc = "lock"
    /\ s \in run[g].toDo
    /\ RowGranted(s)
    /\ LET kept == StillCandidate(s, run[g].asOf) IN
       /\ heldBy' = IF kept THEN [heldBy EXCEPT ![s] = g] ELSE heldBy
       /\ run' = [run EXCEPT ![g].toDo = @ \ {s}, ![g].copy[s] = row[s],
                             ![g].mine = IF kept THEN @ \cup {s} ELSE @]
    /\ UNCHANGED <<today, reading, logged, row, generations, form>>

(* Every candidate is locked: now each is looked at. *)
StartWork(g) ==
    /\ run[g].pc = "lock"
    /\ run[g].toDo = {}
    /\ run' = [run EXCEPT ![g].pc = "work", ![g].toDo = run[g].mine]
    /\ UNCHANGED <<today, reading, logged, row, heldBy, generations, form>>

CalendarDue(r, asOf) == r.due <= asOf
MeterDue(r, value) == r.meter > 0 /\ r.meterDue # None /\ value # None /\ value >= r.meterDue

(* A due schedule gets a work order, with its own line of the audit trail.   *)
Generate(g, s) ==
    LET r == run[g].copy[s] IN
    /\ run[g].pc = "work"
    /\ s \in run[g].toDo
    /\ CalendarDue(r, run[g].asOf) \/ MeterDue(r, reading[s])
    /\ run' = [run EXCEPT ![g].pc = "advance", ![g].current = s,
                          ![g].seen = IF MeterDue(r, reading[s]) THEN reading[s] ELSE None,
                          ![g].made = @ \cup {s}]
    /\ UNCHANGED <<today, reading, logged, row, heldBy, generations, form>>

Skip(g, s) ==
    LET r == run[g].copy[s] IN
    /\ run[g].pc = "work"
    /\ s \in run[g].toDo
    /\ ~CalendarDue(r, run[g].asOf) /\ ~MeterDue(r, reading[s])
    /\ run' = [run EXCEPT ![g].toDo = @ \ {s}]
    /\ UNCHANGED <<today, reading, logged, row, heldBy, generations, form>>

(* The targets are moved past the day of the run and the reading it saw, an  *)
(* interval at a time.  Mutants: the date moves by one interval at most; a   *)
(* meter target that was just reached is left where it is.                   *)
DateBehind_Once(r, s, g) == r.due <= run[g].asOf /\ r.due = row[s].due
DateBehind(r, s, g) == r.due <= run[g].asOf
MeterBehind_Passed(r, g) == run[g].seen # None /\ r.meterDue < run[g].seen
MeterBehind(r, g) == run[g].seen # None /\ r.meterDue <= run[g].seen

Advance(g) ==
    LET s == run[g].current
        r == run[g].copy[s]
    IN
    /\ run[g].pc = "advance"
    /\ \/ /\ DateBehind(r, s, g)
          /\ run' = [run EXCEPT ![g].copy[s].due = @ + r.interval]
       \/ /\ ~DateBehind(r, s, g)
          /\ MeterBehind(r, g)
          /\ run' = [run EXCEPT ![g].copy[s].meterDue = @ + r.meter]
    /\ UNCHANGED <<today, reading, logged, row, heldBy, generations, form>>

SaveSchedule(g) ==
    LET s == run[g].current
        r == run[g].copy[s]
    IN
    /\ run[g].pc = "advance"
    /\ ~DateBehind(r, s, g) /\ ~MeterBehind(r, g)
    /\ run' = [run EXCEPT ![g].pc = "work", ![g].toDo = @ \ {s}]
    /\ UNCHANGED <<today, reading, logged, row, heldBy, generations, form>>

ReleaseSchedules(g) == heldBy' = [s \in Schedules |-> IF heldBy[s] = g THEN NoRun ELSE heldBy[s]]

CommitRun(g) ==
    /\ run[g].pc = "work"
    /\ run[g].toDo = {}
    /\ row' = [s \in Schedules |-> IF s \in run[g].made THEN run[g].copy[s] ELSE row[s]]
    /\ generations' = [s \in Schedules |->
            IF s \in run[g].made
            THEN Append(generations[s],
                        [due |-> row[s].due, meterDue |-> row[s].meterDue, day |-> run[g].asOf])
            ELSE generations[s]]
    /\ ReleaseSchedules(g)
    /\ run' = [run EXCEPT ![g] = IdleRun]
    /\ UNCHANGED <<today, reading, logged, form>>

Rollback(g) == /\ ReleaseSchedules(g)
               /\ run' = [run EXCEPT ![g] = IdleRun]
               /\ UNCHANGED <<today, reading, logged, row, generations, form>>

(* The worker dies: nothing the run did stays. *)
WorkerDies(g) == g \in Unlucky /\ ~Resting(g) /\ Rollback(g)

(* Runs that wait for each other's rows: PostgreSQL ends one of them. *)
Blocked(g, S) == /\ run[g].pc = "lock" /\ run[g].toDo # {}
                 /\ \A s \in run[g].toDo : heldBy[s] \in S \ {g}
BreakDeadlock(g) ==
    /\ \E S \in SUBSET Generators : g \in S /\ \A h \in S : Blocked(h, S)
    /\ Rollback(g)

GeneratorStep(g) ==
    \/ \E s \in Schedules : LockSchedule(g, s) \/ Generate(g, s) \/ Skip(g, s)
    \/ StartWork(g) \/ Advance(g) \/ SaveSchedule(g) \/ CommitRun(g)

EditorNext(e) ==
    \/ \E s \in Schedules : OpenPlan(e, s)
    \/ \E active \in BOOLEAN, interval \in Intervals, meter \in MeterIntervals :
           SavePlan(e, active, interval, meter)

PlansNext ==
    \/ Midnight
    \/ \E s \in Schedules, v \in 0..MaxReading : LogReading(s, v)
    \/ \E s \in Schedules, date \in StartDates, interval \in Intervals, meter \in MeterIntervals :
           Create(s, date, interval, meter)
    \/ \E e \in PlanEditors : EditorNext(e)
    \/ \E g \in Generators : Begin(g) \/ GeneratorStep(g) \/ BreakDeadlock(g) \/ WorkerDies(g)

PlansSpec == PlansInit /\ [][PlansNext]_planVars

(* The beat starts runs for ever, a run that can go on does, one that keeps  *)
(* losing a row it waits for gets it in the end, and cycles are broken.      *)
RunsFairness == \A g \in Generators :
    /\ WF_planVars(Begin(g)) /\ WF_planVars(GeneratorStep(g)) /\ WF_planVars(BreakDeadlock(g))
    /\ \A s \in Schedules : SF_planVars(LockSchedule(g, s))

FairPlansSpec == PlansSpec /\ RunsFairness

-----------------------------------------------------------------------------
(* Properties *)

BusyRun == [pc : {"lock", "work", "advance"}, asOf : Nat, toDo : SUBSET Schedules,
            mine : SUBSET Schedules, copy : [Schedules -> PlanRow \cup {NoPlan}],
            current : Schedules \cup {NoPlan}, seen : Int, made : SUBSET Schedules]

(* The values every variable ranges over. *)
PlansTypeOK ==
    /\ today \in 0..LastDay
    /\ reading \in [Schedules -> Int] /\ logged \in [Schedules -> SUBSET Nat]
    /\ row \in [Schedules -> PlanRow \cup {NoPlan}]
    /\ heldBy \in [Schedules -> Generators \cup {NoRun}]
    /\ generations \in [Schedules -> Seq(Generation)]
    /\ run \in [Generators -> {IdleRun} \cup BusyRun]
    /\ form \in [PlanEditors -> [schedule : Schedules \cup {NoPlan}, shown : PlanRow \cup {NoPlan}]]

(* Overlapping, failing and late runs never answer one trigger twice: every  *)
(* work order of a schedule has a date or a meter target of its own          *)
(* (services.py, select_for_update and the loops that advance).              *)
EachTriggerOnce == \A s \in Schedules : \A i, j \in DOMAIN generations[s] :
    generations[s][i].due = generations[s][j].due
        /\ generations[s][i].meterDue = generations[s][j].meterDue => i = j

(* "generates a single catch-up WorkOrder rather than one per missed period, *)
(* then advances the trigger(s) ... so it doesn't re-fire on the next check" *)
(* (services.py): a day makes at most one work order for a schedule's dates. *)
ByDate(s) == {i \in DOMAIN generations[s] : generations[s][i].due <= generations[s][i].day}
OneCatchUp == \A s \in Schedules : \A i, j \in ByDate(s) :
    generations[s][i].day = generations[s][j].day => i = j

(* "Pause without deleting": a schedule paused before a run has locked it    *)
(* gets no work order from that run, although the run found it due           *)
(* (models.py, is_active).                                                   *)
PausedStaysQuiet ==
    [][\A s \in Schedules : generations'[s] # generations[s] => row[s].active]_planVars

(* Overlapping runs, with everything that interferes, do what single-step    *)
(* ones would: what is due is answered for the targets it shows, and these   *)
(* are moved to the first ones that lie ahead (services.py, the docstring of *)
(* generate_due_work_orders).                                                *)
Promise == INSTANCE Maintenance
MaintenanceSpec == Promise!MaintenanceSpec

(* "Create one WorkOrder for every PMSchedule that's due" (services.py):     *)
(* what is due gets its work order, or stops being due by being edited.      *)
DueNow(s) == row[s] # NoPlan /\ row[s].active /\ CalendarDue(row[s], today)
EveryDueIsServed == \A s \in Schedules : DueNow(s) ~> ~DueNow(s)

-----------------------------------------------------------------------------
(* Inductive invariants: the properties above with what keeps them true.     *)

(* Of one run: the rows it keeps are locked by it and active, and all it     *)
(* knows of them is still so, except where it has moved the targets itself.  *)
RunOK(g) ==
    LET r == run[g] IN
    /\ r.asOf \in 0..today
    /\ \A s \in r.mine : heldBy[s] = g /\ row[s] # NoPlan /\ row[s].active
    /\ r.made \subseteq r.mine
    /\ r.pc = "lock" => r.made = {} /\ r.toDo \cap r.mine = {}
    /\ r.pc # "lock" => r.toDo \subseteq r.mine
    /\ r.pc = "work" => r.made \cap r.toDo = {}
    /\ r.pc = "advance" => r.made \cap r.toDo = {r.current}
    /\ \A s \in r.mine \ r.made : r.copy[s] = row[s]
    /\ \A s \in r.made : r.copy[s] \in PlanRow

RunsInv ==
    /\ PlansTypeOK
    /\ \A e \in PlanEditors : form[e] # NoForm =>
          form[e].schedule \in Schedules /\ form[e].shown \in PlanRow
    /\ \A g \in Generators : ~Resting(g) => RunOK(g)

(* Of triggers: targets only rise, and past whatever made a work order.      *)
Passed(w, due, meterDue) ==
    /\ w.due <= due /\ w.meterDue <= meterDue
    /\ w.due < due \/ w.meterDue < meterDue
    /\ w.day < due

Advancing(g, s) == run[g].pc = "advance" /\ s = run[g].current
Rising(g, s) ==
    LET c == run[g].copy[s] IN
    /\ row[s].due <= c.due /\ row[s].meterDue <= c.meterDue
    /\ Advancing(g, s) => DateBehind(row[s], s, g) \/ MeterBehind(row[s], g)
    /\ ~Advancing(g, s) => /\ run[g].asOf < c.due
                           /\ row[s].due < c.due \/ row[s].meterDue < c.meterDue

RisingInv == \A g \in Generators : ~Resting(g) => \A s \in run[g].made : Rising(g, s)
PassedInv == \A s \in Schedules : \A j \in DOMAIN generations[s] :
    /\ row[s] # NoPlan
    /\ Passed(generations[s][j], row[s].due, row[s].meterDue)
    /\ \A i \in 1..j - 1 :
          Passed(generations[s][i], generations[s][j].due, generations[s][j].meterDue)
TriggerInv == RunsInv /\ RisingInv /\ PassedInv

(* Of answers: what a run has made of a schedule so far is on the way to     *)
(* what the promise asks for, and there once the run has moved on.           *)
OnRecord == \A s \in Schedules : reading[s] # None => reading[s] \in logged[s]
Answering(g, s) ==
    LET w == row[s]
        c == run[g].copy[s]
        day == run[g].asOf
    IN  \E value \in {None} \cup logged[s] :
            /\ Promise!Due(w, day, value)
            /\ Promise!OnTheWay(c, w, day, value)
            /\ IF Advancing(g, s) THEN run[g].seen = value ELSE Promise!There(c, day, value)
AnswerInv ==
    /\ RunsInv
    /\ OnRecord
    /\ \A g \in Generators : ~Resting(g) => \A s \in run[g].made : Answering(g, s)
=============================================================================
