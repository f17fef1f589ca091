------------------------- MODULE PMSchedulesProofs -------------------------
(* For any schedules, runs and editors: types, that a paused schedule gets   *)
(* nothing, and that runs implement Maintenance.  For any schedules and      *)
(* runs, while nobody edits: each trigger is answered once, and a missed     *)
(* stretch of days once.                                                     *)
EXTENDS PMSchedules, TLAPS

-----------------------------------------------------------------------------
(* Facts about the parts of a run *)

LEMMA Busy == ASSUME PlansTypeOK, NEW g \in Generators, ~Resting(g)
              PROVE  run[g] \in BusyRun
BY DEF PlansTypeOK, Resting, IdleRun

(* A run nobody interferes with stays as it is.                              *)
LEMMA OthersStay ==
    ASSUME NEW h \in Generators, RunOK(h), run'[h] = run[h],
           today \in Int, today' \in Int, today <= today',
           run[h] \in BusyRun,
           \A s \in Schedules : heldBy[s] = h => heldBy'[s] = h /\ row'[s] = row[s]
    PROVE  RunOK(h)'
BY DEF RunOK, BusyRun

LEMMA CandidateIsActive ==
    ASSUME NEW r, NEW asOf, Candidate(r, asOf)
    PROVE  r # NoPlan /\ r.active
BY DEF Candidate

-----------------------------------------------------------------------------
(* Runs: what each step does to RunsInv *)

LEMMA InitRuns == PlansInit => RunsInv
BY PMAssumption DEF PlansInit, RunsInv, PlansTypeOK, Resting, IdleRun, NoForm, None

(* Steps that leave the runs, their rows and their locks alone.              *)
LEMMA WorldRuns ==
    ASSUME RunsInv,
           \/ Midnight
           \/ \E s \in Schedules, v \in 0..MaxReading : LogReading(s, v)
    PROVE  RunsInv'
<1>1. /\ PlansTypeOK' /\ today' >= today
      /\ UNCHANGED <<row, heldBy, generations, run, form>>
  <2>1. CASE Midnight
    BY <2>1, PMAssumption DEF RunsInv, PlansTypeOK, Midnight
  <2>2. ASSUME NEW s \in Schedules, NEW v \in 0..MaxReading, LogReading(s, v)
        PROVE  /\ PlansTypeOK' /\ today' >= today
               /\ UNCHANGED <<row, heldBy, generations, run, form>>
    BY <2>2, PMAssumption DEF RunsInv, PlansTypeOK, LogReading
  <2> QED
    BY <2>1, <2>2
<1>2. ASSUME NEW g \in Generators, ~Resting(g)' PROVE RunOK(g)'
  BY <1>1, <1>2, Busy, OthersStay DEF RunsInv, Resting, PlansTypeOK
<1> QED
  BY <1>1, <1>2 DEF RunsInv

LEMMA CreateRuns ==
    ASSUME RunsInv, NEW s \in Schedules, NEW date \in StartDates,
           NEW interval \in Intervals, NEW meter \in MeterIntervals,
           Create(s, date, interval, meter)
    PROVE  RunsInv'
<1> DEFINE new == [active |-> TRUE, interval |-> interval, due |-> date, meter |-> meter,
                   meterDue |-> IF meter = 0 THEN None ELSE Anchor(s) + meter]
<1>1. new \in PlanRow
  BY PMAssumption DEF PlanRow, RunsInv, PlansTypeOK, Anchor, None
<1>2. /\ row' = [row EXCEPT ![s] = new] /\ row[s] = NoPlan
      /\ UNCHANGED <<today, reading, logged, heldBy, generations, run, form>>
  BY DEF Create
<1>3. PlansTypeOK'
  BY <1>1, <1>2 DEF RunsInv, PlansTypeOK
<1>4. ASSUME NEW g \in Generators, ~Resting(g)' PROVE RunOK(g)'
  <2>1. run[g] \in BusyRun /\ RunOK(g)
    BY <1>2, <1>4, Busy DEF RunsInv, Resting
  <2> QED
    BY <1>2, <2>1 DEF RunOK, BusyRun, RunsInv, PlansTypeOK
<1> QED
  BY <1>2, <1>3, <1>4 DEF RunsInv

LEMMA OpenRuns ==
    ASSUME RunsInv, NEW e \in PlanEditors, NEW s \in Schedules, OpenPlan(e, s)
    PROVE  RunsInv'
<1>1. /\ row[s] \in PlanRow
      /\ form' = [form EXCEPT ![e] = [schedule |-> s, shown |-> row[s]]]
      /\ UNCHANGED <<today, reading, logged, row, heldBy, generations, run>>
  BY DEF OpenPlan, RunsInv, PlansTypeOK
<1>2. PlansTypeOK'
  BY <1>1 DEF RunsInv, PlansTypeOK
<1>3. ASSUME NEW f \in PlanEditors, form'[f] # NoForm
      PROVE  form'[f].schedule \in Schedules /\ form'[f].shown \in PlanRow
  BY <1>1, <1>3 DEF RunsInv, PlansTypeOK
<1>4. ASSUME NEW g \in Generators, ~Resting(g)' PROVE RunOK(g)'
  BY <1>1, <1>4 DEF RunsInv, Resting, RunOK
<1> QED
  BY <1>2, <1>3, <1>4 DEF RunsInv

(* A form waits for a row that a run has locked, so no run notices it.       *)
LEMMA SaveRuns ==
    ASSUME RunsInv, NEW e \in PlanEditors, NEW active \in BOOLEAN,
           NEW interval \in Intervals, NEW meter \in MeterIntervals,
           SavePlan(e, active, interval, meter)
    PROVE  RunsInv'
<1> DEFINE s == form[e].schedule
           new == [form[e].shown EXCEPT !.active = active, !.interval = interval,
                                        !.meter = meter]
<1>1. s \in Schedules /\ form[e].shown \in PlanRow
  BY DEF SavePlan, RunsInv
<1>2. new \in PlanRow
  BY <1>1, PMAssumption DEF PlanRow
<1>3. /\ row' = [row EXCEPT ![s] = new] /\ heldBy[s] = NoRun
      /\ form' = [form EXCEPT ![e] = NoForm]
      /\ UNCHANGED <<today, reading, logged, heldBy, generations, run>>
  BY DEF SavePlan
<1> HIDE DEF new, s
<1>4. PlansTypeOK'
  BY <1>1, <1>2, <1>3 DEF RunsInv, PlansTypeOK, NoForm
<1>5. ASSUME NEW g \in Generators, ~Resting(g)' PROVE RunOK(g)'
  <2>1. run[g] \in BusyRun /\ RunOK(g)
    BY <1>3, <1>5, Busy DEF RunsInv, Resting
  <2>2. \A x \in Schedules : heldBy[x] = g => heldBy'[x] = g /\ row'[x] = row[x]
    BY <1>3, PMAssumption DEF RunsInv, PlansTypeOK
  <2> QED
    BY <1>3, <2>1, <2>2, OthersStay DEF RunsInv, PlansTypeOK
<1>6. \A f \in PlanEditors : form'[f] # NoForm =>
          form'[f].schedule \in Schedules /\ form'[f].shown \in PlanRow
  BY <1>3 DEF RunsInv, PlansTypeOK
<1> QED
  BY <1>4, <1>5, <1>6 DEF RunsInv

-----------------------------------------------------------------------------
(* The steps of a run.  What a step of g alone does to RunsInv: g is left in *)
(* order, the others keep their rows.                                        *)

LEMMA OneRunMoves ==
    ASSUME RunsInv, NEW g \in Generators, NEW new \in BusyRun \cup {IdleRun},
           run' = [run EXCEPT ![g] = new],
           heldBy' \in [Schedules -> Generators \cup {NoRun}],
           row' \in [Schedules -> PlanRow \cup {NoPlan}],
           generations' \in [Schedules -> Seq(Generation)],
           UNCHANGED <<today, reading, logged, form>>,
           \A h \in Generators \ {g} : \A s \in Schedules :
               heldBy[s] = h => heldBy'[s] = h /\ row'[s] = row[s],
           ~Resting(g)' => RunOK(g)'
    PROVE  RunsInv'
<1>1. PlansTypeOK'
  BY DEF RunsInv, PlansTypeOK
<1>2. ASSUME NEW h \in Generators \ {g}, ~Resting(h)' PROVE RunOK(h)'
  <2>1. run'[h] = run[h] /\ run[h] \in BusyRun /\ RunOK(h)
    BY <1>2, Busy DEF RunsInv, PlansTypeOK, Resting
  <2> QED
    BY <2>1, OthersStay DEF RunsInv, PlansTypeOK
<1> QED
  BY <1>1, <1>2 DEF RunsInv

LEMMA BeginRuns ==
    ASSUME RunsInv, NEW g \in Generators, Begin(g)
    PROVE  RunsInv'
<1> DEFINE new == [pc |-> "lock", asOf |-> AsOf, toDo |-> {s \in Schedules : Candidate(row[s], AsOf)},
                   mine |-> {}, copy |-> row, current |-> NoPlan, seen |-> None, made |-> {}]
<1>1. new \in BusyRun
  BY PMAssumption DEF RunsInv, PlansTypeOK, BusyRun, AsOf, None
<1>2. run'[g] = new /\ run' = [run EXCEPT ![g] = new]
  BY DEF Begin, RunsInv, PlansTypeOK
<1>3. RunOK(g)'
  BY <1>2 DEF RunOK, AsOf, Begin, RunsInv, PlansTypeOK
<1> HIDE DEF new
<1> QED
  BY <1>1, <1>2, <1>3, OneRunMoves DEF Begin, RunsInv, PlansTypeOK

LEMMA LockRuns ==
    ASSUME RunsInv, NEW g \in Generators, NEW s \in Schedules, LockSchedule(g, s)
    PROVE  /\ RunsInv' /\ UNCHANGED <<reading, logged, row, generations>>
           /\ \E new \in BusyRun : run' = [run EXCEPT ![g] = new] /\ new.made = {}
<1> DEFINE r == run[g]
           kept == StillCandidate(s, r.asOf)
           new == [r EXCEPT !.toDo = @ \ {s}, !.copy[s] = row[s],
                            !.mine = IF kept THEN @ \cup {s} ELSE @]
<1>1. /\ r \in BusyRun /\ RunOK(g)
      /\ r.pc = "lock" /\ s \in r.toDo /\ heldBy[s] = NoRun
      /\ heldBy' = IF kept THEN [heldBy EXCEPT ![s] = g] ELSE heldBy
      /\ run' = [run EXCEPT ![g] = new]
      /\ UNCHANGED <<today, reading, logged, row, generations, form>>
  BY Busy DEF LockSchedule, RowGranted, RunsInv, Resting
<1>2. /\ new \in BusyRun
      /\ new.pc = r.pc /\ new.asOf = r.asOf /\ new.made = r.made
      /\ new.toDo = r.toDo \ {s}
      /\ new.mine = IF kept THEN r.mine \cup {s} ELSE r.mine
      /\ new.copy = [r.copy EXCEPT ![s] = row[s]]
  BY <1>1 DEF BusyRun, RunsInv, PlansTypeOK
<1>3. run'[g] = new
  BY <1>1 DEF RunsInv, PlansTypeOK
<1>4. kept => row[s] # NoPlan /\ row[s].active
  BY CandidateIsActive DEF StillCandidate
<1> HIDE DEF new, kept
<1>5. RunOK(g)'
  <2>1. /\ r.mine \subseteq Schedules /\ r.copy \in [Schedules -> PlanRow \cup {NoPlan}]
        /\ heldBy \in [Schedules -> Generators \cup {NoRun}]
        /\ s \notin r.mine /\ r.made = {}
    BY <1>1 DEF BusyRun, RunsInv, PlansTypeOK, RunOK
  <2>2. \A x \in new.mine : heldBy'[x] = g /\ row[x] # NoPlan /\ row[x].active
    BY <1>1, <1>2, <1>4, <2>1 DEF RunOK
  <2>3. \A x \in new.mine : new.copy[x] = row[x]
    BY <1>1, <1>2, <2>1 DEF RunOK
  <2> QED
    BY <1>1, <1>2, <1>3, <2>1, <2>2, <2>3 DEF RunOK
<1>6. new.made = {}
  BY <1>1, <1>2 DEF RunOK
<1>7. RunsInv'
  BY <1>1, <1>2, <1>5, PMAssumption, OneRunMoves DEF RunsInv, PlansTypeOK
<1> QED
  BY <1>1, <1>2, <1>6, <1>7

(* A run that locks its candidates has answered none.                        *)
LEMMA LockingAnswersNone ==
    ASSUME RunsInv, NEW g \in Generators,
           Begin(g) \/ StartWork(g) \/ \E s \in Schedules : LockSchedule(g, s)
    PROVE  /\ UNCHANGED <<reading, logged, row, generations>>
           /\ \E new \in BusyRun \cup {IdleRun} :
                  run' = [run EXCEPT ![g] = new] /\ new.made = {}
<1> DEFINE r == run[g]
<1>1. CASE Begin(g)
  <2> DEFINE new == [pc |-> "lock", asOf |-> AsOf, toDo |-> {s \in Schedules : Candidate(row[s], AsOf)},
                     mine |-> {}, copy |-> row, current |-> NoPlan, seen |-> None, made |-> {}]
  <2>1. new \in BusyRun /\ new.made = {}
    BY PMAssumption DEF RunsInv, PlansTypeOK, BusyRun, AsOf, None
  <2>2. run' = [run EXCEPT ![g] = new] /\ UNCHANGED <<reading, logged, row, generations>>
    BY <1>1 DEF Begin
  <2> QED
    BY <2>1, <2>2
<1>2. CASE StartWork(g)
  <2> DEFINE new == [r EXCEPT !.pc = "work", !.toDo = r.mine]
  <2>1. r \in BusyRun /\ RunOK(g) /\ r.pc = "lock"
    BY <1>2, Busy DEF StartWork, RunsInv, Resting
  <2>2. new \in BusyRun /\ new.made = {}
    BY <2>1 DEF BusyRun, RunOK
  <2>3. run' = [run EXCEPT ![g] = new] /\ UNCHANGED <<reading, logged, row, generations>>
    BY <1>2 DEF StartWork
  <2> QED
    BY <2>2, <2>3
<1>3. ASSUME NEW s \in Schedules, LockSchedule(g, s)
      PROVE  /\ UNCHANGED <<reading, logged, row, generations>>
             /\ \E new \in BusyRun \cup {IdleRun} :
                    run' = [run EXCEPT ![g] = new] /\ new.made = {}
  BY <1>3, LockRuns
<1> QED
  BY <1>1, <1>2, <1>3

(* Steps of a run that neither lock nor write a row.                         *)
LEMMA PrivateRuns ==
    ASSUME RunsInv, NEW g \in Generators, NEW new \in BusyRun,
           run' = [run EXCEPT ![g] = new],
           UNCHANGED <<today, reading, logged, row, heldBy, generations, form>>,
           run'[g] = new => RunOK(g)'
    PROVE  RunsInv'
BY OneRunMoves DEF RunsInv, PlansTypeOK

LEMMA WorkRuns ==
    ASSUME RunsInv, NEW g \in Generators,
           \/ StartWork(g)
           \/ \E s \in Schedules : Generate(g, s) \/ Skip(g, s)
           \/ SaveSchedule(g)
    PROVE  RunsInv'
<1> DEFINE r == run[g]
<1>1. ASSUME StartWork(g) PROVE RunsInv'
  <2> DEFINE new == [r EXCEPT !.pc = "work", !.toDo = r.mine]
  <2>1. r \in BusyRun /\ RunOK(g)
    BY <1>1, Busy DEF StartWork, RunsInv, Resting
  <2>2. /\ new \in BusyRun
        /\ new.pc = "work" /\ new.toDo = r.mine /\ new.mine = r.mine /\ new.made = r.made
        /\ new.copy = r.copy /\ new.asOf = r.asOf
    BY <2>1 DEF BusyRun
  <2>5. r.made = {}
    BY <1>1, <2>1 DEF StartWork, RunOK
  <2>6. UNCHANGED <<today, reading, logged, row, heldBy, generations, form>>
    BY <1>1 DEF StartWork
  <2>3. run'[g] = new => RunOK(g)'
    <3> HIDE DEF new
    <3> QED
      BY <2>1, <2>2, <2>5, <2>6 DEF RunOK
  <2>4. run' = [run EXCEPT ![g] = new]
    BY <1>1 DEF StartWork
  <2> HIDE DEF new
  <2> QED
    BY <1>1, <2>2, <2>3, <2>4, PrivateRuns DEF StartWork
<1>2. ASSUME NEW s \in Schedules, Generate(g, s) PROVE RunsInv'
  <2> DEFINE saw == IF MeterDue(r.copy[s], reading[s]) THEN reading[s] ELSE None
             new == [r EXCEPT !.pc = "advance", !.current = s, !.seen = saw, !.made = @ \cup {s}]
  <2>1. r \in BusyRun /\ RunOK(g) /\ r.pc = "work" /\ s \in r.toDo
    BY <1>2, Busy DEF Generate, RunsInv, Resting
  <2>2. saw \in Int
    BY DEF RunsInv, PlansTypeOK, None
  <2>3. run' = [run EXCEPT ![g] = new] /\ UNCHANGED <<today, reading, logged, row, heldBy, generations, form>>
    BY <1>2 DEF Generate
  <2>4. s \in r.mine /\ s \notin r.made /\ r.copy[s] \in PlanRow
    BY <2>1 DEF RunOK, BusyRun
  <2> HIDE DEF saw
  <2>5. /\ new \in BusyRun
        /\ new.pc = "advance" /\ new.current = s /\ new.made = r.made \cup {s}
        /\ new.toDo = r.toDo /\ new.mine = r.mine /\ new.copy = r.copy /\ new.asOf = r.asOf
    BY <2>1, <2>2 DEF BusyRun
  <2> HIDE DEF new
  <2>6. r.made \cap r.toDo = {} /\ r.toDo \subseteq r.mine
    BY <2>1 DEF RunOK
  <2>7. run'[g] = new => RunOK(g)'
    BY <2>1, <2>3, <2>4, <2>5, <2>6 DEF RunOK
  <2> QED
    BY <2>3, <2>5, <2>7, PrivateRuns
<1>3. ASSUME NEW s \in Schedules, Skip(g, s) PROVE RunsInv'
  <2> DEFINE new == [r EXCEPT !.toDo = @ \ {s}]
  <2>1. r \in BusyRun /\ RunOK(g) /\ r.pc = "work"
    BY <1>3, Busy DEF Skip, RunsInv, Resting
  <2>2. run' = [run EXCEPT ![g] = new] /\ UNCHANGED <<today, reading, logged, row, heldBy, generations, form>>
    BY <1>3 DEF Skip
  <2>3. new \in BusyRun /\ (run'[g] = new => RunOK(g)')
    BY <2>1, <2>2 DEF BusyRun, RunOK
  <2> HIDE DEF new
  <2> QED
    BY <2>2, <2>3, PrivateRuns
<1>4. ASSUME SaveSchedule(g) PROVE RunsInv'
  <2> DEFINE new == [r EXCEPT !.pc = "work", !.toDo = @ \ {r.current}]
  <2>1. r \in BusyRun /\ RunOK(g) /\ r.pc = "advance"
    BY <1>4, Busy DEF SaveSchedule, RunsInv, Resting
  <2>2. run' = [run EXCEPT ![g] = new] /\ UNCHANGED <<today, reading, logged, row, heldBy, generations, form>>
    BY <1>4 DEF SaveSchedule
  <2>3. new \in BusyRun /\ (run'[g] = new => RunOK(g)')
    <3>1. /\ new \in BusyRun
          /\ new.pc = "work" /\ new.made = r.made /\ new.toDo = r.toDo \ {r.current}
          /\ new.mine = r.mine /\ new.copy = r.copy /\ new.asOf = r.asOf
      BY <2>1 DEF BusyRun
    <3> HIDE DEF new
    <3>2. r.made \cap r.toDo = {r.current} /\ r.toDo \subseteq r.mine
      BY <2>1 DEF RunOK
    <3> QED
      BY <2>1, <2>2, <3>1, <3>2 DEF RunOK
  <2> HIDE DEF new
  <2> QED
    BY <2>2, <2>3, PrivateRuns
<1> QED
  BY <1>1, <1>2, <1>3, <1>4

(* Advancing touches the copy of a row that is being answered, no other.     *)
LEMMA AdvanceRuns ==
    ASSUME RunsInv, NEW g \in Generators, Advance(g)
    PROVE  /\ RunsInv'
           /\ run[g].current \in run[g].made /\ run[g].current \in Schedules
           /\ run[g].copy[run[g].current] \in PlanRow
           /\ \E c \in PlanRow :
                /\ run' = [run EXCEPT ![g] = [run[g] EXCEPT !.copy[run[g].current] = c]]
                /\ run[g].copy[run[g].current].due <= c.due
                /\ run[g].copy[run[g].current].meterDue <= c.meterDue
<1> DEFINE r == run[g]
           s == r.current
           old == r.copy[s]
<1>1. r \in BusyRun /\ RunOK(g) /\ r.pc = "advance"
  BY Busy DEF Advance, RunsInv, Resting
<1>2. s \in r.made /\ s \in Schedules /\ old \in PlanRow
  BY <1>1 DEF RunOK, BusyRun
<1>3. UNCHANGED <<today, reading, logged, row, heldBy, generations, form>>
  BY DEF Advance
<1>4. PICK c \in PlanRow : /\ run' = [run EXCEPT ![g] = [r EXCEPT !.copy[s] = c]]
                           /\ old.due <= c.due /\ old.meterDue <= c.meterDue
  <2>1. LET c == [old EXCEPT !.due = @ + old.interval]
        IN  c \in PlanRow /\ old.due <= c.due /\ old.meterDue <= c.meterDue
    BY <1>2 DEF PlanRow
  <2>2. LET c == [old EXCEPT !.meterDue = @ + old.meter]
        IN  c \in PlanRow /\ old.due <= c.due /\ old.meterDue <= c.meterDue
    BY <1>2 DEF PlanRow
  <2>3. CASE run' = [run EXCEPT ![g].copy[s].due = @ + old.interval]
    <3>1. run' = [run EXCEPT ![g] = [r EXCEPT !.copy[s] = [old EXCEPT !.due = @ + old.interval]]]
      BY <2>3
    <3> QED
      BY <2>1, <3>1
  <2>4. CASE run' = [run EXCEPT ![g].copy[s].meterDue = @ + old.meter]
    <3>1. run' = [run EXCEPT ![g] = [r EXCEPT !.copy[s] = [old EXCEPT !.meterDue = @ + old.meter]]]
      BY <2>4
    <3> QED
      BY <2>2, <3>1
  <2> QED
    BY <2>3, <2>4 DEF Advance
<1> DEFINE new == [r EXCEPT !.copy[s] = c]
<1>5. new \in BusyRun /\ (run'[g] = new => RunOK(g)')
  BY <1>1, <1>2, <1>3, <1>4 DEF BusyRun, RunOK
<1> HIDE DEF new
<1>6. RunsInv'
  BY <1>3, <1>4, <1>5, PrivateRuns DEF new
<1> QED
  BY <1>2, <1>4, <1>6

(* What a rollback or a commit gives back was the run's own.                 *)
LEMMA ReleasedRows ==
    ASSUME RunsInv, NEW g \in Generators, ReleaseSchedules(g)
    PROVE  /\ heldBy' \in [Schedules -> Generators \cup {NoRun}]
           /\ \A h \in Generators \ {g} : \A s \in Schedules : heldBy[s] = h => heldBy'[s] = h
BY DEF ReleaseSchedules, RunsInv, PlansTypeOK

LEMMA RollbackRuns ==
    ASSUME RunsInv, NEW g \in Generators, Rollback(g)
    PROVE  RunsInv'
<1>1. run' = [run EXCEPT ![g] = IdleRun] /\ UNCHANGED <<today, reading, logged, row, generations, form>>
  BY DEF Rollback
<1>2. Resting(g)'
  BY <1>1 DEF Resting, IdleRun, RunsInv, PlansTypeOK
<1> QED
  BY <1>1, <1>2, ReleasedRows, OneRunMoves DEF Rollback, RunsInv, PlansTypeOK

LEMMA CommitRuns ==
    ASSUME RunsInv, NEW g \in Generators, CommitRun(g)
    PROVE  RunsInv'
<1> DEFINE r == run[g]
           note(s) == [due |-> row[s].due, meterDue |-> row[s].meterDue, day |-> r.asOf]
<1>1. r \in BusyRun /\ RunOK(g)
  BY Busy DEF CommitRun, RunsInv, Resting
<1>2. ASSUME NEW s \in r.made
      PROVE  s \in Schedules /\ heldBy[s] = g /\ r.copy[s] \in PlanRow /\ note(s) \in Generation
  <2>1. s \in Schedules /\ heldBy[s] = g /\ row[s] \in PlanRow /\ r.copy[s] \in PlanRow
    BY <1>1, <1>2 DEF RunOK, BusyRun, RunsInv, PlansTypeOK
  <2>2. r.asOf \in 0..LastDay
    BY <1>1, PMAssumption DEF RunOK, RunsInv, PlansTypeOK
  <2> QED
    BY <2>1, <2>2 DEF Generation, PlanRow
<1>3. row' \in [Schedules -> PlanRow \cup {NoPlan}]
  BY <1>2 DEF CommitRun, RunsInv, PlansTypeOK
<1>4. generations' \in [Schedules -> Seq(Generation)]
  <2>1. ASSUME NEW s \in Schedules, s \in r.made
        PROVE  Append(generations[s], note(s)) \in Seq(Generation)
    <3>1. generations[s] \in Seq(Generation) /\ note(s) \in Generation
      BY <1>2, <2>1 DEF RunsInv, PlansTypeOK
    <3> HIDE DEF note
    <3> QED
      BY <3>1
  <2> QED
    BY <2>1 DEF CommitRun, RunsInv, PlansTypeOK
<1>5. Resting(g)'
  BY DEF CommitRun, Resting, IdleRun, RunsInv, PlansTypeOK
<1>6. \A h \in Generators \ {g} : \A s \in Schedules : heldBy[s] = h => row'[s] = row[s]
  BY <1>2 DEF CommitRun
<1>7. run' = [run EXCEPT ![g] = IdleRun] /\ UNCHANGED <<today, reading, logged, form>>
      /\ ReleaseSchedules(g)
  BY DEF CommitRun
<1> QED
  BY <1>3, <1>4, <1>5, <1>6, <1>7, ReleasedRows, OneRunMoves

LEMMA GeneratorRuns ==
    ASSUME RunsInv, NEW g \in Generators,
           Begin(g) \/ GeneratorStep(g) \/ BreakDeadlock(g) \/ WorkerDies(g)
    PROVE  RunsInv'
BY BeginRuns, LockRuns, WorkRuns, AdvanceRuns, CommitRuns, RollbackRuns
   DEF GeneratorStep, BreakDeadlock, WorkerDies

LEMMA StepRuns == RunsInv /\ [PlansNext]_planVars => RunsInv'
<1> SUFFICES ASSUME RunsInv, [PlansNext]_planVars PROVE RunsInv'
  OBVIOUS
<1>1. ASSUME NEW e \in PlanEditors, EditorNext(e) PROVE RunsInv'
  BY <1>1, OpenRuns, SaveRuns DEF EditorNext
<1>2. CASE UNCHANGED planVars
  BY <1>2 DEF planVars, RunsInv, PlansTypeOK, RunOK, Resting
<1> QED
  BY <1>1, <1>2, WorldRuns, CreateRuns, GeneratorRuns DEF PlansNext

(* Only a commit adds to the work orders. *)
LEMMA OnlyCommitsGenerate ==
    ASSUME PlansNext, generations' # generations
    PROVE  \E g \in Generators : CommitRun(g)
<1>1. ~Midnight
  BY DEF Midnight
<1>2. ASSUME NEW s \in Schedules, NEW v \in 0..MaxReading PROVE ~LogReading(s, v)
  BY DEF LogReading
<1>3. ASSUME NEW s \in Schedules, NEW date \in StartDates, NEW interval \in Intervals,
             NEW meter \in MeterIntervals
      PROVE  ~Create(s, date, interval, meter)
  BY DEF Create
<1>4. ASSUME NEW e \in PlanEditors PROVE ~EditorNext(e)
  BY DEF EditorNext, OpenPlan, SavePlan
<1>5. ASSUME NEW g \in Generators
      PROVE  /\ ~Begin(g) /\ ~StartWork(g) /\ ~Advance(g) /\ ~SaveSchedule(g)
             /\ ~BreakDeadlock(g) /\ ~WorkerDies(g)
             /\ \A s \in Schedules : ~LockSchedule(g, s) /\ ~Generate(g, s) /\ ~Skip(g, s)
  BY DEF Begin, StartWork, Advance, SaveSchedule, BreakDeadlock, WorkerDies, Rollback,
         LockSchedule, Generate, Skip
<1> QED
  BY <1>1, <1>2, <1>3, <1>4, <1>5 DEF PlansNext, GeneratorStep

-----------------------------------------------------------------------------
(* For all schedules, runs and editors.                                      *)

(* Every variable keeps its type; in particular no work order is of a day    *)
(* that has not come.                                                        *)
THEOREM TypeCorrect == PlansSpec => []PlansTypeOK
<1>1. RunsInv => PlansTypeOK
  BY DEF RunsInv
<1> QED
  BY <1>1, InitRuns, StepRuns, PTL DEF PlansSpec

(* What is paused gets no work order, whatever a run found before it waited  *)
(* for the row: its lock keeps the row active until it commits.              *)
THEOREM PausedSchedulesStayQuiet == PlansSpec => PausedStaysQuiet
<1> DEFINE Quiet == \A s \in Schedules : generations'[s] # generations[s] => row[s].active
<1>1. RunsInv /\ [PlansNext]_planVars => [Quiet]_planVars
  <2> SUFFICES ASSUME RunsInv, PlansNext, NEW s \in Schedules, generations'[s] # generations[s]
               PROVE  row[s].active
    OBVIOUS
  <2>1. PICK g \in Generators : CommitRun(g)
    BY OnlyCommitsGenerate
  <2>2. s \in run[g].made
    BY <2>1 DEF CommitRun
  <2>3. RunOK(g) /\ run[g] \in BusyRun
    BY <2>1, Busy DEF CommitRun, RunsInv, Resting
  <2> QED
    BY <2>2, <2>3 DEF RunOK
<1>2. PausedStaysQuiet <=> [][Quiet]_planVars
  BY PTL DEF PausedStaysQuiet
<1> HIDE DEF Quiet
<1>3. PlansSpec => [][Quiet]_planVars
  BY <1>1, InitRuns, StepRuns, PTL DEF PlansSpec
<1> QED
  BY <1>2, <1>3

-----------------------------------------------------------------------------
(* While nobody edits: what each step does to TriggerInv.                    *)

LEMMA PassedOn ==
    ASSUME NEW w \in Generation, NEW due \in Nat, NEW meterDue \in Int,
           NEW later \in Nat, NEW meterLater \in Int,
           due <= later, meterDue <= meterLater, Passed(w, due, meterDue)
    PROVE  Passed(w, later, meterLater)
BY PMAssumption DEF Passed, Generation

LEMMA InitTriggers == PlansInit => TriggerInv
<1> SUFFICES ASSUME PlansInit PROVE TriggerInv
  OBVIOUS
<1>1. RisingInv
  BY DEF PlansInit, RisingInv, Resting, IdleRun
<1>2. PassedInv
  BY DEF PlansInit, PassedInv
<1> QED
  BY <1>1, <1>2, InitRuns DEF TriggerInv

LEMMA OthersRise ==
    ASSUME RunsInv, RisingInv, NEW h \in Generators, ~Resting(h), run'[h] = run[h],
           \A s \in Schedules : heldBy[s] = h => row'[s] = row[s]
    PROVE  ~Resting(h)' => \A s \in run'[h].made : Rising(h, s)'
<1>1. RunOK(h) /\ run[h] \in BusyRun
  BY Busy DEF RunsInv
<1>2. ASSUME NEW s \in run[h].made PROVE Rising(h, s) /\ row'[s] = row[s]
  BY <1>1, <1>2 DEF RisingInv, RunOK, BusyRun
<1> QED
  BY <1>2 DEF Rising, Advancing, DateBehind, MeterBehind

(* Steps of a run that write nothing: only its own targets are at stake.     *)
LEMMA PrivateTriggers ==
    ASSUME TriggerInv, RunsInv', NEW g \in Generators, NEW new \in BusyRun \cup {IdleRun},
           run' = [run EXCEPT ![g] = new], UNCHANGED <<row, generations>>,
           new # IdleRun /\ run'[g] = new => \A s \in new.made : Rising(g, s)'
    PROVE  TriggerInv'
<1>1. ASSUME NEW h \in Generators, ~Resting(h)' PROVE \A s \in run'[h].made : Rising(h, s)'
  <2>1. CASE h = g
    BY <2>1, <1>1 DEF TriggerInv, RunsInv, PlansTypeOK, Resting, IdleRun
  <2>2. CASE h # g
    <3>1. run'[h] = run[h]
      BY <2>2 DEF TriggerInv, RunsInv, PlansTypeOK
    <3> QED
      BY <1>1, <3>1, OthersRise DEF TriggerInv, Resting
  <2> QED
    BY <2>1, <2>2
<1>2. PassedInv'
  BY DEF TriggerInv, PassedInv
<1> QED
  BY <1>1, <1>2 DEF TriggerInv, RisingInv

(* The world moves no target.                                                *)
LEMMA WorldTriggers ==
    ASSUME TriggerInv, RunsInv', UNCHANGED <<row, generations, run>>
    PROVE  TriggerInv'
BY DEF TriggerInv, RisingInv, PassedInv, Rising, Advancing, DateBehind, MeterBehind, Resting

(* A new row has no work orders yet, and no run has met it. *)
LEMMA CreateTriggers ==
    ASSUME TriggerInv, RunsInv', NEW s \in Schedules, NEW date \in StartDates,
           NEW interval \in Intervals, NEW meter \in MeterIntervals,
           Create(s, date, interval, meter)
    PROVE  TriggerInv'
<1>1. /\ row[s] = NoPlan /\ UNCHANGED <<generations, run, heldBy>>
      /\ \A x \in Schedules \ {s} : row'[x] = row[x]
  BY DEF Create, TriggerInv, RunsInv, PlansTypeOK
<1>2. PassedInv'
  BY <1>1 DEF TriggerInv, PassedInv
<1>3. ASSUME NEW g \in Generators, ~Resting(g)', NEW x \in run'[g].made PROVE Rising(g, x)'
  <2>1. RunOK(g) /\ run[g] \in BusyRun /\ run' = run
    BY <1>1, <1>3, Busy DEF TriggerInv, RunsInv, Resting
  <2>2. x \in Schedules \ {s} /\ Rising(g, x)
    BY <1>1, <1>3, <2>1 DEF RunOK, BusyRun, TriggerInv, RisingInv, Resting
  <2> QED
    BY <1>1, <2>1, <2>2 DEF Rising, Advancing, DateBehind, MeterBehind
<1> QED
  BY <1>2, <1>3 DEF TriggerInv, RisingInv

LEMMA LockTriggers ==
    ASSUME TriggerInv, RunsInv', NEW g \in Generators,
           Begin(g) \/ StartWork(g) \/ \E s \in Schedules : LockSchedule(g, s)
    PROVE  TriggerInv'
BY LockingAnswersNone, PrivateTriggers DEF TriggerInv

LEMMA SkipTriggers ==
    ASSUME TriggerInv, RunsInv', NEW g \in Generators, NEW s \in Schedules, Skip(g, s)
    PROVE  TriggerInv'
<1> DEFINE r == run[g]
           new == [r EXCEPT !.toDo = @ \ {s}]
<1>1. r \in BusyRun /\ ~Resting(g)
  BY Busy DEF Skip, TriggerInv, RunsInv, Resting
<1>2. /\ new \in BusyRun /\ new.made = r.made /\ new.copy = r.copy /\ new.pc = r.pc
      /\ new.current = r.current /\ new.asOf = r.asOf /\ new.seen = r.seen
  BY <1>1 DEF BusyRun
<1>3. run' = [run EXCEPT ![g] = new] /\ UNCHANGED <<row, generations>>
  BY DEF Skip
<1> HIDE DEF new
<1>4. ASSUME run'[g] = new, NEW x \in new.made PROVE Rising(g, x)'
  <2>1. Rising(g, x)
    BY <1>1, <1>2, <1>4 DEF TriggerInv, RisingInv
  <2> QED
    BY <1>2, <1>3, <1>4, <2>1 DEF Rising, Advancing, DateBehind, MeterBehind
<1> QED
  BY <1>2, <1>3, <1>4, PrivateTriggers

(* A work order is made of a row that is due, by its date or by its meter.   *)
LEMMA GenerateTriggers ==
    ASSUME TriggerInv, RunsInv', NEW g \in Generators, NEW s \in Schedules, Generate(g, s)
    PROVE  TriggerInv'
<1> DEFINE r == run[g]
           saw == IF MeterDue(r.copy[s], reading[s]) THEN reading[s] ELSE None
           new == [r EXCEPT !.pc = "advance", !.current = s, !.seen = saw, !.made = @ \cup {s}]
<1>1. r \in BusyRun /\ ~Resting(g) /\ RunOK(g) /\ r.pc = "work" /\ s \in r.toDo
  BY Busy DEF Generate, TriggerInv, RunsInv, Resting
<1>2. s \notin r.made /\ r.copy[s] = row[s] /\ row[s] \in PlanRow
  BY <1>1 DEF RunOK, BusyRun, TriggerInv, RunsInv, PlansTypeOK
<1>3. run' = [run EXCEPT ![g] = new] /\ UNCHANGED <<row, generations>>
  BY DEF Generate
<1>4. saw \in Int /\ (CalendarDue(row[s], r.asOf) \/ (saw # None /\ row[s].meterDue <= saw))
  BY <1>2 DEF Generate, MeterDue, TriggerInv, RunsInv, PlansTypeOK, None, PlanRow
<1> HIDE DEF saw
<1>5. /\ new \in BusyRun /\ new.made = r.made \cup {s} /\ new.copy = r.copy
      /\ new.pc = "advance" /\ new.current = s /\ new.asOf = r.asOf /\ new.seen = saw
  BY <1>1, <1>4 DEF BusyRun
<1> HIDE DEF new
<1>6. ASSUME run'[g] = new PROVE Rising(g, s)'
  BY <1>2, <1>3, <1>4, <1>5, <1>6
     DEF Rising, Advancing, DateBehind, MeterBehind, CalendarDue, PlanRow
<1>7. ASSUME run'[g] = new, NEW x \in r.made PROVE Rising(g, x)'
  <2>1. Rising(g, x) /\ ~Advancing(g, x) /\ x # s
    BY <1>1, <1>2, <1>7 DEF TriggerInv, RisingInv, Advancing
  <2> QED
    BY <1>3, <1>5, <1>7, <2>1 DEF Rising, Advancing
<1> QED
  BY <1>3, <1>5, <1>6, <1>7, PrivateTriggers

LEMMA AdvanceTriggers ==
    ASSUME TriggerInv, RunsInv', NEW g \in Generators, Advance(g)
    PROVE  TriggerInv'
<1> DEFINE r == run[g]
           s == r.current
<1>1. r \in BusyRun /\ ~Resting(g) /\ RunOK(g)
  BY Busy DEF Advance, TriggerInv, RunsInv, Resting
<1>2. PICK c \in PlanRow : /\ run' = [run EXCEPT ![g] = [r EXCEPT !.copy[s] = c]]
                           /\ r.copy[s].due <= c.due /\ r.copy[s].meterDue <= c.meterDue
  BY AdvanceRuns DEF TriggerInv
<1>3. s \in r.made /\ s \in Schedules /\ r.copy[s] \in PlanRow /\ row[s] \in PlanRow
  BY <1>1, AdvanceRuns DEF TriggerInv, RunOK, BusyRun, RunsInv, PlansTypeOK
<1> DEFINE new == [r EXCEPT !.copy[s] = c]
<1>4. /\ new \in BusyRun /\ new.made = r.made /\ new.copy = [r.copy EXCEPT ![s] = c]
      /\ new.pc = r.pc /\ new.current = s /\ new.asOf = r.asOf /\ new.seen = r.seen
  BY <1>1, <1>2, <1>3 DEF BusyRun
<1>5. r.pc = "advance" /\ UNCHANGED <<row, generations>>
  BY DEF Advance
<1> HIDE DEF new
<1>6. ASSUME run'[g] = new, NEW x \in r.made PROVE Rising(g, x)'
  <2>1. Rising(g, x)
    BY <1>1, <1>6 DEF TriggerInv, RisingInv
  <2>2. CASE x = s
    <3>1. new.copy[x] = c
      BY <1>1, <1>3, <1>4, <2>2 DEF BusyRun
    <3>2. Advancing(g, x) /\ Advancing(g, x)'
      BY <1>4, <1>5, <1>6, <2>2 DEF Advancing
    <3> QED
      BY <1>2, <1>3, <1>4, <1>5, <1>6, <2>1, <2>2, <3>1, <3>2
         DEF Rising, DateBehind, MeterBehind, PlanRow
  <2>3. CASE x # s
    <3>1. new.copy[x] = r.copy[x]
      BY <1>1, <1>4, <2>3 DEF BusyRun
    <3> QED
      BY <1>4, <1>5, <1>6, <2>1, <2>3, <3>1 DEF Rising, Advancing
  <2> QED
    BY <2>2, <2>3
<1> QED
  BY <1>2, <1>4, <1>5, <1>6, PrivateTriggers DEF new

(* When nothing is behind any more, whatever made the work order has risen.  *)
LEMMA SaveTriggers ==
    ASSUME TriggerInv, RunsInv', NEW g \in Generators, SaveSchedule(g)
    PROVE  TriggerInv'
<1> DEFINE r == run[g]
           s == r.current
           new == [r EXCEPT !.pc = "work", !.toDo = @ \ {s}]
<1>1. r \in BusyRun /\ ~Resting(g) /\ RunOK(g)
  BY Busy DEF SaveSchedule, TriggerInv, RunsInv, Resting
<1>2. run' = [run EXCEPT ![g] = new] /\ UNCHANGED <<row, generations>>
  BY DEF SaveSchedule
<1>3. /\ new \in BusyRun /\ new.made = r.made /\ new.copy = r.copy /\ new.pc = "work"
      /\ new.asOf = r.asOf
  BY <1>1 DEF BusyRun
<1> HIDE DEF new
<1>4. ASSUME run'[g] = new, NEW x \in r.made PROVE Rising(g, x)'
  <2>1. Rising(g, x) /\ ~Advancing(g, x)'
    BY <1>1, <1>3, <1>4 DEF TriggerInv, RisingInv, Advancing
  <2>2. row[x] \in PlanRow /\ r.copy[x] \in PlanRow /\ r.asOf \in Int /\ r.seen \in Int
    BY <1>1 DEF RunOK, BusyRun, TriggerInv, RunsInv, PlansTypeOK
  <2>3. CASE Advancing(g, x)
    <3>1. ~DateBehind(r.copy[x], x, g) /\ ~MeterBehind(r.copy[x], g)
      BY <2>3 DEF SaveSchedule, Advancing
    <3> QED
      BY <1>2, <1>3, <1>4, <2>1, <2>2, <2>3, <3>1 DEF Rising, DateBehind, MeterBehind, PlanRow
  <2>4. CASE ~Advancing(g, x)
    BY <1>2, <1>3, <1>4, <2>1, <2>4 DEF Rising
  <2> QED
    BY <2>3, <2>4
<1> QED
  BY <1>2, <1>3, <1>4, PrivateTriggers

LEMMA RollbackTriggers ==
    ASSUME TriggerInv, RunsInv', NEW g \in Generators, Rollback(g)
    PROVE  TriggerInv'
BY PrivateTriggers DEF Rollback

(* A commit writes the raised targets and notes the old ones. *)
LEMMA CommitTriggers ==
    ASSUME TriggerInv, RunsInv', NEW g \in Generators, CommitRun(g)
    PROVE  TriggerInv'
<1> DEFINE r == run[g]
           note(s) == [due |-> row[s].due, meterDue |-> row[s].meterDue, day |-> r.asOf]
<1>1. r \in BusyRun /\ ~Resting(g) /\ RunOK(g) /\ r.pc = "work"
  BY Busy DEF CommitRun, TriggerInv, RunsInv, Resting
<1>2. ASSUME NEW h \in Generators, ~Resting(h)' PROVE \A s \in run'[h].made : Rising(h, s)'
  <2>1. h # g /\ run'[h] = run[h]
    BY <1>2 DEF CommitRun, Resting, IdleRun, TriggerInv, RunsInv, PlansTypeOK
  <2>2. \A s \in Schedules : heldBy[s] = h => row'[s] = row[s]
    BY <1>1, <2>1 DEF RunOK, CommitRun, BusyRun
  <2> QED
    BY <1>2, <2>1, <2>2, OthersRise DEF TriggerInv, Resting
<1>3. ASSUME NEW s \in Schedules, NEW j \in DOMAIN generations'[s]
      PROVE  /\ row'[s] # NoPlan
             /\ Passed(generations'[s][j], row'[s].due, row'[s].meterDue)
             /\ \A i \in 1..j - 1 :
                   Passed(generations'[s][i], generations'[s][j].due, generations'[s][j].meterDue)
  <2>1. CASE s \notin r.made
    <3>1. generations'[s] = generations[s] /\ row'[s] = row[s]
      BY <2>1 DEF CommitRun
    <3> QED
      BY <1>3, <3>1 DEF TriggerInv, PassedInv
  <2>2. CASE s \in r.made
    <3> DEFINE c == r.copy[s]
               old == generations[s]
    <3>1. row[s] \in PlanRow /\ c \in PlanRow /\ r.asOf \in Nat /\ Rising(g, s) /\ ~Advancing(g, s)
      BY <1>1, <2>2 DEF RunOK, BusyRun, TriggerInv, RunsInv, PlansTypeOK, RisingInv, Advancing
    <3>2. row'[s] = c /\ generations'[s] = Append(old, note(s))
      BY <2>2 DEF CommitRun
    <3>3. c # NoPlan
      BY <3>1, NoPlanAssumption
    <3>4. /\ row[s].due <= c.due /\ row[s].meterDue <= c.meterDue
          /\ r.asOf < c.due /\ (row[s].due < c.due \/ row[s].meterDue < c.meterDue)
      BY <3>1 DEF Rising
    <3>5. Passed(note(s), c.due, c.meterDue)
      BY <3>4 DEF Passed
    <3>6. old \in Seq(Generation)
      BY DEF TriggerInv, RunsInv, PlansTypeOK
    <3>7. \A k \in 1..Len(old) : old[k] \in Generation /\ Passed(old[k], row[s].due, row[s].meterDue)
      BY <3>6 DEF TriggerInv, PassedInv
    <3>8. \A k \in 1..Len(old) : Passed(old[k], c.due, c.meterDue)
      <4>1. /\ row[s].due \in Nat /\ row[s].meterDue \in Int
            /\ c.due \in Nat /\ c.meterDue \in Int
        BY <3>1 DEF PlanRow
      <4> HIDE DEF c, old
      <4> QED
        BY <3>4, <3>7, <4>1, PassedOn
    <3>9. note(s).due = row[s].due /\ note(s).meterDue = row[s].meterDue
      OBVIOUS
    <3> HIDE DEF note, old, c
    <3>10. CASE j \in 1..Len(old)
      <4>1. \A k \in 1..j : generations'[s][k] = old[k]
        BY <3>2, <3>6, <3>10
      <4>2. \A i \in 1..j - 1 : Passed(old[i], old[j].due, old[j].meterDue)
        BY <3>10, <3>6 DEF TriggerInv, PassedInv, old
      <4> QED
        BY <3>2, <3>3, <3>8, <3>10, <4>1, <4>2
    <3>11. CASE j = Len(old) + 1
      <4>1. generations'[s][j] = note(s) /\ \A k \in 1..Len(old) : generations'[s][k] = old[k]
        BY <3>2, <3>6, <3>11
      <4> QED
        BY <3>2, <3>3, <3>5, <3>6, <3>7, <3>9, <3>11, <4>1
    <3> QED
      BY <1>3, <3>2, <3>6, <3>10, <3>11
  <2> QED
    BY <2>1, <2>2
<1> QED
  BY <1>2, <1>3 DEF TriggerInv, RisingInv, PassedInv

LEMMA DomainsAreIntervals ==
    ASSUME TriggerInv, NEW s \in Schedules PROVE DOMAIN generations[s] \subseteq Int
<1>1. generations[s] \in Seq(Generation)
  BY DEF TriggerInv, RunsInv, PlansTypeOK
<1> QED
  BY <1>1

LEMMA StepTriggers ==
    ASSUME PlanEditors = {}, TriggerInv, [PlansNext]_planVars
    PROVE  TriggerInv'
<1>1. RunsInv'
  BY StepRuns DEF TriggerInv
<1>2. CASE UNCHANGED planVars
  BY <1>1, <1>2, WorldTriggers DEF planVars
<1>3. ASSUME Midnight \/ \E s \in Schedules, v \in 0..MaxReading : LogReading(s, v)
      PROVE  TriggerInv'
  BY <1>1, <1>3, WorldTriggers DEF Midnight, LogReading
<1>4. ASSUME NEW g \in Generators,
             Begin(g) \/ GeneratorStep(g) \/ BreakDeadlock(g) \/ WorkerDies(g)
      PROVE  TriggerInv'
  BY <1>1, <1>4, LockTriggers, SkipTriggers, GenerateTriggers, AdvanceTriggers, SaveTriggers,
     CommitTriggers, RollbackTriggers DEF GeneratorStep, BreakDeadlock, WorkerDies
<1> QED
  BY <1>1, <1>2, <1>3, <1>4, CreateTriggers DEF PlansNext

-----------------------------------------------------------------------------
(* For all schedules and runs, while nobody edits: what a form rendered      *)
(* before a run writes back after it is another matter (see the README).     *)

(* No two work orders of a schedule have the same date and meter target: the *)
(* later one was made after both had passed what the earlier one was for.    *)
THEOREM TriggersAnsweredOnce == PlanEditors = {} => (PlansSpec => []EachTriggerOnce)
<1> SUFFICES ASSUME PlanEditors = {} PROVE PlansSpec => []EachTriggerOnce
  OBVIOUS
<1>1. TriggerInv => EachTriggerOnce
  <2> SUFFICES ASSUME TriggerInv, NEW s \in Schedules,
                      NEW i \in DOMAIN generations[s], NEW j \in DOMAIN generations[s], i < j
               PROVE  ~(/\ generations[s][i].due = generations[s][j].due
                        /\ generations[s][i].meterDue = generations[s][j].meterDue)
    BY DomainsAreIntervals DEF EachTriggerOnce
  <2>1. generations[s] \in Seq(Generation)
    BY DEF TriggerInv, RunsInv, PlansTypeOK
  <2>2. Passed(generations[s][i], generations[s][j].due, generations[s][j].meterDue)
    BY <2>1 DEF TriggerInv, PassedInv
  <2>3. generations[s][i] \in Generation /\ generations[s][j] \in Generation
    BY <2>1
  <2> QED
    BY <2>2, <2>3 DEF Passed, Generation
<1>2. TriggerInv /\ [PlansNext]_planVars => TriggerInv'
  BY StepTriggers
<1> QED
  BY <1>1, <1>2, InitTriggers, PTL DEF PlansSpec

(* And no two for dates on one day: after the first, the date is past it.    *)
THEOREM CaughtUpOnce == PlanEditors = {} => (PlansSpec => []OneCatchUp)
<1> SUFFICES ASSUME PlanEditors = {} PROVE PlansSpec => []OneCatchUp
  OBVIOUS
<1>1. TriggerInv => OneCatchUp
  <2> SUFFICES ASSUME TriggerInv, NEW s \in Schedules,
                      NEW i \in ByDate(s), NEW j \in ByDate(s), i < j
               PROVE  generations[s][i].day # generations[s][j].day
    BY DomainsAreIntervals DEF OneCatchUp, ByDate
  <2>1. generations[s] \in Seq(Generation)
    BY DEF TriggerInv, RunsInv, PlansTypeOK
  <2>2. Passed(generations[s][i], generations[s][j].due, generations[s][j].meterDue)
    BY <2>1 DEF TriggerInv, PassedInv, ByDate
  <2>3. /\ generations[s][i] \in Generation /\ generations[s][j] \in Generation
        /\ generations[s][j].due <= generations[s][j].day
    BY <2>1 DEF ByDate
  <2> QED
    BY <2>2, <2>3, PMAssumption DEF Passed, Generation
<1>2. TriggerInv /\ [PlansNext]_planVars => TriggerInv'
  BY StepTriggers
<1> QED
  BY <1>1, <1>2, InitTriggers, PTL DEF PlansSpec
-----------------------------------------------------------------------------
(* For all schedules, runs and editors: runs implement what Maintenance      *)
(* promises.  First, what each step does to AnswerInv.                       *)

LEMMA NotMovedYet ==
    ASSUME NEW old \in Int, NEW interval \in Int, NEW past
    PROVE  Promise!Moving(old, old, interval, past)
<1>1. 0 \in 0..(old - old) /\ old = old + 0 * interval
  OBVIOUS
<1> QED
  BY <1>1 DEF Promise!Moving

(* One more interval, while the target is not past its mark.                 *)
LEMMA MovesOn ==
    ASSUME NEW new \in Int, NEW old \in Int, NEW interval \in Nat, NEW past \in Int,
           Promise!Moving(new, old, interval, past), new <= past
    PROVE  Promise!Moving(new + interval, old, interval, past)
<1>1. PICK k \in 0..(new - old) : new = old + k * interval
  BY DEF Promise!Moving
<1>2. CASE interval = 0
  <2>1. new = old /\ new + interval = old
    BY <1>1, <1>2
  <2> QED
    BY <1>2, <2>1, NotMovedYet
<1>3. CASE interval # 0
  <2>1. k \in Int /\ (k + 1) * interval = k * interval + interval
    BY <1>1
  <2>2. new + interval = old + (k + 1) * interval
    BY <1>1, <2>1
  <2>3. k + 1 \in 0..((new + interval) - old)
    BY <1>1, <1>3
  <2>4. (new + interval) - interval <= past
    OBVIOUS
  <2> QED
    BY <2>2, <2>3, <2>4 DEF Promise!Moving
<1> QED
  BY <1>2, <1>3

(* A run moves a target of its copy by the interval that the row has.       *)
LEMMA DateMoved ==
    ASSUME NEW w \in PlanRow, NEW old \in PlanRow, NEW day \in Int, NEW value,
           Promise!OnTheWay(old, w, day, value), old.due <= day
    PROVE  LET c == [old EXCEPT !.due = @ + old.interval]
           IN  c \in PlanRow /\ Promise!OnTheWay(c, w, day, value)
<1> DEFINE c == [old EXCEPT !.due = @ + old.interval]
<1>1. old.active = w.active /\ old.interval = w.interval /\ old.meter = w.meter
  BY DEF Promise!OnTheWay
<1>2. /\ c \in PlanRow /\ c.due = old.due + w.interval /\ c.meterDue = old.meterDue
      /\ c.active = w.active /\ c.interval = w.interval /\ c.meter = w.meter
  BY <1>1 DEF PlanRow
<1>3. Promise!Moving(old.due + w.interval, w.due, w.interval, day)
  BY MovesOn DEF Promise!OnTheWay, PlanRow
<1> HIDE DEF c
<1>4. Promise!OnTheWay(c, w, day, value)
  BY <1>2, <1>3 DEF Promise!OnTheWay, Promise!PlanRow, PlanRow
<1> QED
  BY <1>2, <1>4 DEF c

LEMMA MeterMoved ==
    ASSUME NEW w \in PlanRow, NEW old \in PlanRow, NEW day, NEW value \in Int,
           Promise!OnTheWay(old, w, day, value), value # None, old.meterDue <= value
    PROVE  LET c == [old EXCEPT !.meterDue = @ + old.meter]
           IN  c \in PlanRow /\ Promise!OnTheWay(c, w, day, value)
<1> DEFINE c == [old EXCEPT !.meterDue = @ + old.meter]
<1>1. old.active = w.active /\ old.interval = w.interval /\ old.meter = w.meter
  BY DEF Promise!OnTheWay
<1>2. /\ c \in PlanRow /\ c.due = old.due /\ c.meterDue = old.meterDue + w.meter
      /\ c.active = w.active /\ c.interval = w.interval /\ c.meter = w.meter
  BY <1>1 DEF PlanRow
<1>3. Promise!Moving(old.meterDue + w.meter, w.meterDue, w.meter, value)
  BY MovesOn DEF Promise!OnTheWay, PlanRow, Promise!None, None
<1> HIDE DEF c
<1>4. Promise!OnTheWay(c, w, day, value)
  BY <1>2, <1>3 DEF Promise!OnTheWay, Promise!None, None, Promise!PlanRow, PlanRow
<1> QED
  BY <1>2, <1>4 DEF c

LEMMA InitAnswers == PlansInit => AnswerInv
<1> SUFFICES ASSUME PlansInit PROVE AnswerInv
  OBVIOUS
<1>1. OnRecord
  BY DEF PlansInit, OnRecord
<1> QED
  BY <1>1, InitRuns DEF PlansInit, AnswerInv, Resting, IdleRun

(* What a run has made of its schedules stands while nobody writes their     *)
(* rows; a new reading takes none away.                                      *)
LEMMA OthersAnswer ==
    ASSUME AnswerInv, NEW h \in Generators, ~Resting(h), run'[h] = run[h],
           \A s \in run[h].made : row'[s] = row[s],
           \A s \in Schedules : logged[s] \subseteq logged'[s]
    PROVE  \A s \in run'[h].made : Answering(h, s)'
<1>1. run[h].made \subseteq Schedules
  BY Busy DEF AnswerInv, RunsInv, BusyRun
<1>2. ASSUME NEW s \in run[h].made PROVE Answering(h, s)'
  <2>1. Answering(h, s) /\ row'[s] = row[s] /\ logged[s] \subseteq logged'[s]
    BY <1>1, <1>2 DEF AnswerInv
  <2> QED
    BY <2>1 DEF Answering, Advancing
<1> QED
  BY <1>2

(* The row of a schedule that a run answers is the run's own.                *)
LEMMA AnsweredRows ==
    ASSUME RunsInv, NEW g \in Generators, ~Resting(g), NEW s \in run[g].made
    PROVE  /\ run[g] \in BusyRun /\ s \in Schedules /\ heldBy[s] = g
           /\ row[s] \in PlanRow /\ row[s].active /\ run[g].copy[s] \in PlanRow
           /\ run[g].asOf \in 0..today
<1>1. RunOK(g) /\ run[g] \in BusyRun
  BY Busy DEF RunsInv
<1> QED
  BY <1>1 DEF RunOK, BusyRun, RunsInv, PlansTypeOK

(* Steps of no run. *)
LEMMA WorldAnswers ==
    ASSUME AnswerInv, RunsInv', OnRecord', UNCHANGED run,
           \A s \in Schedules : heldBy[s] # NoRun => row[s] = NoPlan \/ row'[s] = row[s],
           \A s \in Schedules : logged[s] \subseteq logged'[s]
    PROVE  AnswerInv'
<1>1. ASSUME NEW h \in Generators, ~Resting(h)' PROVE \A s \in run'[h].made : Answering(h, s)'
  <2>1. ~Resting(h)
    BY <1>1 DEF Resting
  <2>2. \A s \in run[h].made : row'[s] = row[s]
    BY <2>1, AnsweredRows, PMAssumption, NoPlanAssumption DEF AnswerInv
  <2> QED
    BY <2>1, <2>2, OthersAnswer
<1> QED
  BY <1>1 DEF AnswerInv

(* Steps of a run that write nothing: only its own answers are at stake.     *)
LEMMA PrivateAnswers ==
    ASSUME AnswerInv, RunsInv', NEW g \in Generators, NEW new \in BusyRun \cup {IdleRun},
           run' = [run EXCEPT ![g] = new], UNCHANGED <<reading, logged, row>>,
           new # IdleRun /\ run'[g] = new => \A s \in new.made : Answering(g, s)'
    PROVE  AnswerInv'
<1>1. ASSUME NEW h \in Generators, ~Resting(h)' PROVE \A s \in run'[h].made : Answering(h, s)'
  <2>1. CASE h = g
    BY <2>1, <1>1 DEF AnswerInv, RunsInv, PlansTypeOK, Resting, IdleRun
  <2>2. CASE h # g
    <3>1. run'[h] = run[h]
      BY <2>2 DEF AnswerInv, RunsInv, PlansTypeOK
    <3> QED
      BY <1>1, <3>1, OthersAnswer DEF Resting
  <2> QED
    BY <2>1, <2>2
<1>2. OnRecord'
  BY DEF AnswerInv, OnRecord
<1> QED
  BY <1>1, <1>2 DEF AnswerInv

LEMMA LockAnswers ==
    ASSUME AnswerInv, RunsInv', NEW g \in Generators,
           Begin(g) \/ StartWork(g) \/ \E s \in Schedules : LockSchedule(g, s)
    PROVE  AnswerInv'
BY LockingAnswersNone, PrivateAnswers DEF AnswerInv

LEMMA SkipAnswers ==
    ASSUME AnswerInv, RunsInv', NEW g \in Generators, NEW s \in Schedules, Skip(g, s)
    PROVE  AnswerInv'
<1> DEFINE r == run[g]
           new == [r EXCEPT !.toDo = @ \ {s}]
<1>1. r \in BusyRun /\ ~Resting(g)
  BY Busy DEF Skip, AnswerInv, RunsInv, Resting
<1>2. /\ new \in BusyRun /\ new.made = r.made /\ new.copy = r.copy /\ new.pc = r.pc
      /\ new.current = r.current /\ new.asOf = r.asOf /\ new.seen = r.seen
  BY <1>1 DEF BusyRun
<1>3. run' = [run EXCEPT ![g] = new] /\ UNCHANGED <<reading, logged, row>>
  BY DEF Skip
<1> HIDE DEF new
<1>4. ASSUME run'[g] = new, NEW x \in new.made PROVE Answering(g, x)'
  <2>1. Answering(g, x)
    BY <1>1, <1>2, <1>4 DEF AnswerInv
  <2> QED
    BY <1>2, <1>3, <1>4, <2>1 DEF Answering, Advancing
<1> QED
  BY <1>2, <1>3, <1>4, PrivateAnswers

(* A work order is made for what is due, by the reading the run then moves   *)
(* past; no target has moved yet.                                            *)
LEMMA GenerateAnswers ==
    ASSUME AnswerInv, RunsInv', NEW g \in Generators, NEW s \in Schedules, Generate(g, s)
    PROVE  AnswerInv'
<1> DEFINE r == run[g]
           w == row[s]
           saw == IF MeterDue(r.copy[s], reading[s]) THEN reading[s] ELSE None
           new == [r EXCEPT !.pc = "advance", !.current = s, !.seen = saw, !.made = @ \cup {s}]
<1>1. r \in BusyRun /\ ~Resting(g) /\ RunOK(g) /\ r.pc = "work" /\ s \in r.toDo
  BY Busy DEF Generate, AnswerInv, RunsInv, Resting
<1>2. s \notin r.made /\ r.copy[s] = w /\ w \in PlanRow
  BY <1>1 DEF RunOK, BusyRun, AnswerInv, RunsInv, PlansTypeOK
<1>3. run' = [run EXCEPT ![g] = new] /\ UNCHANGED <<reading, logged, row>>
  BY DEF Generate
<1>4. saw \in {None} \cup logged[s] /\ saw \in Int
  BY DEF AnswerInv, OnRecord, MeterDue, RunsInv, PlansTypeOK, None
<1>5. Promise!Due(w, r.asOf, saw)
  BY <1>2 DEF Generate, CalendarDue, MeterDue, Promise!Due, Promise!None, None
<1>6. Promise!OnTheWay(w, w, r.asOf, saw)
  <2>1. w.due \in Int /\ w.meterDue \in Int /\ w.interval \in Int /\ w.meter \in Int
    BY <1>2 DEF PlanRow
  <2> HIDE DEF saw, w
  <2> QED
    BY <1>2, <2>1, NotMovedYet DEF Promise!OnTheWay, Promise!PlanRow, PlanRow
<1> HIDE DEF saw
<1>7. /\ new \in BusyRun /\ new.made = r.made \cup {s} /\ new.copy = r.copy
      /\ new.pc = "advance" /\ new.current = s /\ new.asOf = r.asOf /\ new.seen = saw
  BY <1>1, <1>4 DEF BusyRun
<1> HIDE DEF new
<1>8. ASSUME run'[g] = new PROVE Answering(g, s)'
  <2>1. Advancing(g, s)'
    BY <1>7, <1>8 DEF Advancing
  <2> QED
    BY <1>2, <1>3, <1>4, <1>5, <1>6, <1>7, <1>8, <2>1 DEF Answering, Promise!None, None
<1>9. ASSUME run'[g] = new, NEW x \in r.made PROVE Answering(g, x)'
  <2>1. Answering(g, x) /\ ~Advancing(g, x) /\ x # s
    BY <1>1, <1>2, <1>9 DEF AnswerInv, Advancing
  <2>2. ~Advancing(g, x)'
    BY <1>7, <1>9, <2>1 DEF Advancing
  <2> QED
    BY <1>3, <1>7, <1>9, <2>1, <2>2 DEF Answering
<1> QED
  BY <1>3, <1>7, <1>8, <1>9, PrivateAnswers

(* Each pass of a loop moves a target that is not past its mark.             *)
LEMMA AdvanceAnswers ==
    ASSUME AnswerInv, RunsInv', NEW g \in Generators, Advance(g)
    PROVE  AnswerInv'
<1> DEFINE r == run[g]
           s == r.current
           old == r.copy[s]
           w == row[s]
<1>1. r \in BusyRun /\ ~Resting(g) /\ r.pc = "advance" /\ s \in r.made
  <2>1. ~Resting(g) /\ r.pc = "advance"
    BY DEF Advance, Resting
  <2> QED
    BY <2>1, Busy, AdvanceRuns DEF AnswerInv, RunsInv
<1>2. /\ s \in Schedules /\ w \in PlanRow /\ old \in PlanRow /\ r.asOf \in Int
      /\ UNCHANGED <<reading, logged, row>>
  BY <1>1, AnsweredRows DEF Advance, AnswerInv, RunsInv, PlansTypeOK
<1>3. PICK value \in {None} \cup logged[s] :
          /\ Promise!Due(w, r.asOf, value)
          /\ Promise!OnTheWay(old, w, r.asOf, value)
          /\ r.seen = value
  BY <1>1 DEF AnswerInv, Answering, Advancing, Promise!None, None
<1>4. value \in Int
  BY <1>2 DEF AnswerInv, RunsInv, PlansTypeOK, None
<1>5. PICK c \in PlanRow : /\ run' = [run EXCEPT ![g] = [r EXCEPT !.copy[s] = c]]
                           /\ Promise!OnTheWay(c, w, r.asOf, value)
  <2>1. CASE DateBehind(old, s, g) /\ run' = [run EXCEPT ![g].copy[s].due = @ + old.interval]
    <3>1. run' = [run EXCEPT ![g] = [r EXCEPT !.copy[s] = [old EXCEPT !.due = @ + old.interval]]]
      BY <2>1
    <3> QED
      BY <1>2, <1>3, <2>1, <3>1, DateMoved DEF DateBehind
  <2>2. CASE MeterBehind(old, g) /\ run' = [run EXCEPT ![g].copy[s].meterDue = @ + old.meter]
    <3>1. run' = [run EXCEPT ![g] = [r EXCEPT !.copy[s] = [old EXCEPT !.meterDue = @ + old.meter]]]
      BY <2>2
    <3> QED
      BY <1>2, <1>3, <1>4, <2>2, <3>1, MeterMoved DEF MeterBehind
  <2> QED
    BY <2>1, <2>2 DEF Advance
<1> DEFINE new == [r EXCEPT !.copy[s] = c]
<1>6. /\ new \in BusyRun /\ new.made = r.made /\ new.copy = [r.copy EXCEPT ![s] = c]
      /\ new.pc = r.pc /\ new.current = s /\ new.asOf = r.asOf /\ new.seen = r.seen
  BY <1>1, <1>2, <1>5 DEF BusyRun
<1>7. run' = [run EXCEPT ![g] = new]
  BY <1>5
<1> HIDE DEF new
<1>8. ASSUME run'[g] = new, NEW x \in new.made PROVE Answering(g, x)'
  <2>1. CASE x = s
    <3>1. new.copy[x] = c /\ Advancing(g, x)'
      BY <1>1, <1>2, <1>6, <1>8, <2>1 DEF BusyRun, Advancing
    <3> QED
      BY <1>2, <1>3, <1>5, <1>6, <1>8, <2>1, <3>1 DEF Answering, Promise!None, None
  <2>2. CASE x # s
    <3>1. new.copy[x] = r.copy[x] /\ Answering(g, x) /\ ~Advancing(g, x) /\ ~Advancing(g, x)'
      BY <1>1, <1>6, <1>8, <2>2 DEF BusyRun, AnswerInv, Advancing
    <3> QED
      BY <1>2, <1>6, <1>8, <3>1 DEF Answering
  <2> QED
    BY <2>1, <2>2
<1> HIDE DEF s
<1> QED
  BY <1>2, <1>6, <1>7, <1>8, PrivateAnswers

(* The loops end when the targets lie ahead of day and reading.              *)
LEMMA SaveAnswers ==
    ASSUME AnswerInv, RunsInv', NEW g \in Generators, SaveSchedule(g)
    PROVE  AnswerInv'
<1> DEFINE r == run[g]
           s == r.current
           new == [r EXCEPT !.pc = "work", !.toDo = @ \ {s}]
<1>1. r \in BusyRun /\ ~Resting(g)
  BY Busy DEF SaveSchedule, AnswerInv, RunsInv, Resting
<1>2. run' = [run EXCEPT ![g] = new] /\ UNCHANGED <<reading, logged, row>>
  BY DEF SaveSchedule
<1>3. /\ new \in BusyRun /\ new.made = r.made /\ new.copy = r.copy /\ new.pc = "work"
      /\ new.asOf = r.asOf
  BY <1>1 DEF BusyRun
<1> HIDE DEF new
<1>4. ASSUME run'[g] = new, NEW x \in new.made PROVE Answering(g, x)'
  <2>1. Answering(g, x) /\ ~Advancing(g, x)'
    BY <1>1, <1>3, <1>4 DEF AnswerInv, Advancing
  <2>2. r.copy[x] \in PlanRow /\ r.asOf \in Int /\ logged[x] \subseteq Int
    BY <1>1, <1>3, <1>4, AnsweredRows DEF AnswerInv, RunsInv, PlansTypeOK
  <2>3. CASE Advancing(g, x)
    <3>1. ~DateBehind(r.copy[x], x, g) /\ ~MeterBehind(r.copy[x], g)
      BY <2>3 DEF SaveSchedule, Advancing
    <3>2. PICK value \in {None} \cup logged[x] :
              /\ Promise!Due(row[x], r.asOf, value)
              /\ Promise!OnTheWay(r.copy[x], row[x], r.asOf, value)
              /\ r.seen = value
      BY <2>1, <2>3 DEF Answering, Promise!None, None
    <3>3. Promise!There(r.copy[x], r.asOf, value)
      BY <2>2, <3>1, <3>2
         DEF DateBehind, MeterBehind, Promise!There, Promise!Ahead, Promise!None, None, PlanRow
    <3> QED
      BY <1>2, <1>3, <1>4, <2>1, <3>2, <3>3 DEF Answering, Promise!None, None
  <2>4. CASE ~Advancing(g, x)
    BY <1>2, <1>3, <1>4, <2>1, <2>4 DEF Answering
  <2> QED
    BY <2>3, <2>4
<1> QED
  BY <1>2, <1>3, <1>4, PrivateAnswers

LEMMA RollbackAnswers ==
    ASSUME AnswerInv, RunsInv', NEW g \in Generators, Rollback(g)
    PROVE  AnswerInv'
BY PrivateAnswers DEF Rollback

(* A commit writes no row that another run has locked. *)
LEMMA CommitAnswers ==
    ASSUME AnswerInv, RunsInv', NEW g \in Generators, CommitRun(g)
    PROVE  AnswerInv'
<1>1. ~Resting(g) /\ UNCHANGED <<reading, logged>>
  BY DEF CommitRun, Resting
<1>2. ASSUME NEW h \in Generators, ~Resting(h)' PROVE \A s \in run'[h].made : Answering(h, s)'
  <2>1. h # g /\ run'[h] = run[h] /\ ~Resting(h)
    BY <1>2 DEF CommitRun, Resting, IdleRun, AnswerInv, RunsInv, PlansTypeOK
  <2>2. \A s \in run[h].made : row'[s] = row[s]
    BY <1>1, <2>1, AnsweredRows DEF CommitRun, AnswerInv
  <2> QED
    BY <1>1, <2>1, <2>2, OthersAnswer
<1>3. OnRecord'
  BY <1>1 DEF AnswerInv, OnRecord
<1> QED
  BY <1>2, <1>3 DEF AnswerInv

(* An editor writes one row, which no run has locked, or none.               *)
LEMMA EditorWrites ==
    ASSUME RunsInv, NEW e \in PlanEditors, EditorNext(e)
    PROVE  /\ UNCHANGED <<today, reading, logged, generations, run>>
           /\ \/ UNCHANGED row
              \/ \E s \in Schedules, new \in PlanRow :
                     heldBy[s] = NoRun /\ row' = [row EXCEPT ![s] = new]
<1>1. ASSUME NEW s \in Schedules, OpenPlan(e, s)
      PROVE  UNCHANGED <<today, reading, logged, generations, run, row>>
  BY <1>1 DEF OpenPlan
<1>2. ASSUME NEW active \in BOOLEAN, NEW interval \in Intervals, NEW meter \in MeterIntervals,
             SavePlan(e, active, interval, meter)
      PROVE  /\ UNCHANGED <<today, reading, logged, generations, run>>
             /\ \E s \in Schedules, new \in PlanRow :
                    heldBy[s] = NoRun /\ row' = [row EXCEPT ![s] = new]
  <2> DEFINE s == form[e].schedule
             new == [form[e].shown EXCEPT !.active = active, !.interval = interval,
                                          !.meter = meter]
  <2>1. s \in Schedules /\ form[e].shown \in PlanRow
    BY <1>2 DEF SavePlan, RunsInv
  <2>2. new \in PlanRow
    BY <2>1, PMAssumption DEF PlanRow
  <2>3. heldBy[s] = NoRun /\ row' = [row EXCEPT ![s] = new]
        /\ UNCHANGED <<today, reading, logged, generations, run>>
    BY <1>2 DEF SavePlan
  <2> QED
    BY <2>1, <2>2, <2>3
<1> QED
  BY <1>1, <1>2 DEF EditorNext

LEMMA StepAnswers == AnswerInv /\ [PlansNext]_planVars => AnswerInv'
<1> SUFFICES ASSUME AnswerInv, [PlansNext]_planVars PROVE AnswerInv'
  OBVIOUS
<1>1. RunsInv'
  BY StepRuns DEF AnswerInv
<1>2. CASE UNCHANGED planVars
  <2>1. UNCHANGED run /\ UNCHANGED row /\ OnRecord'
        /\ \A s \in Schedules : logged[s] \subseteq logged'[s]
    BY <1>2 DEF planVars, OnRecord, AnswerInv
  <2> QED
    BY <1>1, <2>1, WorldAnswers
<1>3. CASE Midnight
  <2>1. UNCHANGED run /\ UNCHANGED row /\ OnRecord'
        /\ \A s \in Schedules : logged[s] \subseteq logged'[s]
    BY <1>3 DEF Midnight, OnRecord, AnswerInv
  <2> QED
    BY <1>1, <2>1, WorldAnswers
<1>4. ASSUME NEW s \in Schedules, NEW v \in 0..MaxReading, LogReading(s, v) PROVE AnswerInv'
  <2>1. UNCHANGED run /\ UNCHANGED row
        /\ \A x \in Schedules : logged[x] \subseteq logged'[x]
    BY <1>4 DEF LogReading, AnswerInv, RunsInv, PlansTypeOK
  <2>2. OnRecord'
    BY <1>4 DEF LogReading, AnswerInv, OnRecord, RunsInv, PlansTypeOK
  <2> QED
    BY <1>1, <2>1, <2>2, WorldAnswers
<1>5. ASSUME NEW s \in Schedules, NEW date \in StartDates, NEW interval \in Intervals,
             NEW meter \in MeterIntervals, Create(s, date, interval, meter)
      PROVE  AnswerInv'
  <2>1. UNCHANGED run /\ UNCHANGED logged /\ UNCHANGED reading /\ row[s] = NoPlan
        /\ \A x \in Schedules : x # s => row'[x] = row[x]
    BY <1>5 DEF Create, AnswerInv, RunsInv, PlansTypeOK
  <2>2. OnRecord'
    BY <2>1 DEF AnswerInv, OnRecord
  <2> QED
    BY <1>1, <2>1, <2>2, WorldAnswers
<1>6. ASSUME NEW e \in PlanEditors, EditorNext(e) PROVE AnswerInv'
  <2>1. UNCHANGED <<run, logged, reading>>
    BY <1>6, EditorWrites DEF AnswerInv
  <2>2. \A x \in Schedules : heldBy[x] # NoRun => row'[x] = row[x]
    BY <1>6, EditorWrites DEF AnswerInv, RunsInv, PlansTypeOK
  <2>3. OnRecord'
    BY <2>1 DEF AnswerInv, OnRecord
  <2> QED
    BY <1>1, <2>1, <2>2, <2>3, WorldAnswers
<1>7. ASSUME NEW g \in Generators,
             Begin(g) \/ GeneratorStep(g) \/ BreakDeadlock(g) \/ WorkerDies(g)
      PROVE  AnswerInv'
  BY <1>1, <1>7, LockAnswers, SkipAnswers, GenerateAnswers, AdvanceAnswers, SaveAnswers,
     CommitAnswers, RollbackAnswers DEF GeneratorStep, BreakDeadlock, WorkerDies
<1> QED
  BY <1>2, <1>3, <1>4, <1>5, <1>6, <1>7 DEF PlansNext

-----------------------------------------------------------------------------
(* Then, every step against the promise: a commit is a run, all else a run   *)
(* does is nothing.                                                          *)

LEMMA CommitIsRun ==
    ASSUME AnswerInv, NEW g \in Generators, CommitRun(g)
    PROVE  Promise!Run(run[g].made, run[g].asOf) /\ run[g].made \subseteq Schedules
           /\ run[g].asOf \in 0..today
<1> DEFINE r == run[g]
<1>1. ~Resting(g) /\ r.pc = "work"
  BY DEF CommitRun, Resting
<1>2. r \in BusyRun /\ RunOK(g)
  BY <1>1, Busy DEF AnswerInv, RunsInv
<1>3. ASSUME NEW s \in r.made PROVE Promise!Answered(s, r.asOf)
  <2>1. s \in Schedules /\ row[s] \in PlanRow /\ row[s].active /\ Answering(g, s)
        /\ ~Advancing(g, s)
    BY <1>1, <1>3, AnsweredRows DEF AnswerInv, Advancing
  <2>2. row'[s] = r.copy[s] /\ row[s] # NoPlan
    BY <1>3, <2>1, NoPlanAssumption DEF CommitRun
  <2>3. generations'[s] = Append(generations[s],
            [due |-> row[s].due, meterDue |-> row[s].meterDue, day |-> r.asOf])
    BY <1>3, <2>1 DEF CommitRun
  <2> QED
    BY <2>1, <2>2, <2>3 DEF Answering, Promise!Answered, Promise!None, None
<1>4. /\ row' = [s \in Schedules |-> IF s \in r.made THEN row'[s] ELSE row[s]]
      /\ generations' = [s \in Schedules |-> IF s \in r.made THEN generations'[s]
                                                             ELSE generations[s]]
      /\ UNCHANGED <<today, logged>>
  BY DEF CommitRun
<1> QED
  BY <1>2, <1>3, <1>4 DEF Promise!Run, RunOK, BusyRun

LEMMA RowIsPlanned ==
    ASSUME row \in [Schedules -> PlanRow \cup {NoPlan}], NEW s \in Schedules,
           NEW new \in PlanRow, row' = [row EXCEPT ![s] = new],
           UNCHANGED <<today, logged, generations>>
    PROVE  Promise!Plan(s)
<1>1. row'[s] = new
  OBVIOUS
<1> QED
  BY <1>1 DEF Promise!Plan, Promise!PlanRow, PlanRow

LEMMA OnlyCommitsWrite ==
    ASSUME NEW g \in Generators,
           Begin(g) \/ GeneratorStep(g) \/ BreakDeadlock(g) \/ WorkerDies(g),
           ~UNCHANGED <<today, logged, row, generations>>
    PROVE  CommitRun(g)
<1>1. ~Begin(g) /\ ~StartWork(g) /\ ~Advance(g) /\ ~SaveSchedule(g)
      /\ ~BreakDeadlock(g) /\ ~WorkerDies(g)
  BY DEF Begin, StartWork, Advance, SaveSchedule, BreakDeadlock, WorkerDies, Rollback
<1>2. ASSUME NEW s \in Schedules PROVE ~LockSchedule(g, s) /\ ~Generate(g, s) /\ ~Skip(g, s)
  BY DEF LockSchedule, Generate, Skip
<1> QED
  BY <1>1, <1>2 DEF GeneratorStep

LEMMA StepKeepsPromise ==
    AnswerInv /\ AnswerInv' /\ [PlansNext]_planVars
        => [Promise!MaintenanceNext]_(Promise!maintenanceVars)
<1> SUFFICES ASSUME AnswerInv, AnswerInv', [PlansNext]_planVars,
                    ~UNCHANGED <<today, logged, row, generations>>
             PROVE  Promise!MaintenanceNext
  BY DEF Promise!maintenanceVars
<1>1. CASE Midnight
  BY <1>1 DEF Midnight, Promise!NextDay, Promise!MaintenanceNext
<1>2. ASSUME NEW s \in Schedules, NEW v \in 0..MaxReading, LogReading(s, v)
      PROVE  Promise!MaintenanceNext
  <2>1. Promise!Record(s)
    BY <1>2 DEF LogReading, Promise!Record, AnswerInv, RunsInv, PlansTypeOK
  <2> QED
    BY <2>1 DEF Promise!MaintenanceNext
<1>3. ASSUME NEW s \in Schedules, NEW date \in StartDates, NEW interval \in Intervals,
             NEW meter \in MeterIntervals, Create(s, date, interval, meter)
      PROVE  Promise!MaintenanceNext
  <2> DEFINE new == [active |-> TRUE, interval |-> interval, due |-> date, meter |-> meter,
                     meterDue |-> IF meter = 0 THEN None ELSE Anchor(s) + meter]
  <2>1. new \in PlanRow
    BY PMAssumption DEF PlanRow, AnswerInv, RunsInv, PlansTypeOK, Anchor, None
  <2>2. row' = [row EXCEPT ![s] = new] /\ UNCHANGED <<today, logged, generations>>
    BY <1>3 DEF Create
  <2> HIDE DEF new
  <2> QED
    BY <2>1, <2>2, RowIsPlanned DEF AnswerInv, RunsInv, PlansTypeOK, Promise!MaintenanceNext
<1>4. ASSUME NEW e \in PlanEditors, EditorNext(e) PROVE Promise!MaintenanceNext
  BY <1>4, EditorWrites, RowIsPlanned
     DEF AnswerInv, RunsInv, PlansTypeOK, Promise!MaintenanceNext
<1>5. ASSUME NEW g \in Generators,
             Begin(g) \/ GeneratorStep(g) \/ BreakDeadlock(g) \/ WorkerDies(g)
      PROVE  Promise!MaintenanceNext
  <2>1. CommitRun(g)
    BY <1>5, OnlyCommitsWrite DEF AnswerInv
  <2> QED
    BY <2>1, CommitIsRun DEF Promise!MaintenanceNext
<1> QED
  BY <1>1, <1>2, <1>3, <1>4, <1>5 DEF PlansNext, planVars

(* Any number of overlapping, failing and late runs, with editors and stale  *)
(* forms: a work order is made for what is due and the targets it shows, and *)
(* these move to the first ones ahead, in one step with it.                  *)
THEOREM RunsImplementMaintenance == PlansSpec => MaintenanceSpec
<1>1. PlansInit => Promise!MaintenanceInit
  BY DEF PlansInit, Promise!MaintenanceInit
<1> QED
  BY <1>1, InitAnswers, StepAnswers, StepKeepsPromise, PTL
     DEF PlansSpec, MaintenanceSpec, Promise!MaintenanceSpec
=============================================================================
