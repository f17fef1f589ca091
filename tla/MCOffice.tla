------------------------------ MODULE MCOffice ------------------------------
(* Work orders being saved, the generator of planned ones, and the digest    *)
(* and the dashboard over a work order that is being saved; they share no    *)
(* state here.  Of the first and of the last, three settings each, with the  *)
(* values of a row that its properties tell apart.  The initial state says   *)
(* which moves, so that the state spaces lie side by side and are not        *)
(* multiplied.                                                               *)
EXTENDS TicketHistory, PMSchedules, Oversight, TLC

VARIABLE setting

CONSTANT spare   \* the phone that only the setting of statuses needs
CONSTANTS late, near, far, boss, lead, crew, team

(* The work order's asset is near, its team at home far away. *)
JobNear == [x \in Jobs \cup Teams |-> IF x \in Jobs THEN near ELSE far]
OneTeam == [w \in Jobs |-> team]
OneHour == [w \in Jobs |-> 1]
TwoHours == [w \in Jobs |-> 2]
InCrew == [u \in Managers |-> IF u = lead THEN {crew} ELSE {}]

(* Which run or schedule does what does not matter. *)
Interchangeable == Permutations(Generators) \cup Permutations(Schedules)

Carried == {request[r].row : r \in {q \in Requests : ~Idle(q)}}

(* Who is assigned changes, and is mailed; everything stays open. *)
Assigning == /\ \A o \in Carried : o.status = "OPEN"
             /\ configuration = 0
             /\ Idle(spare)
(* Statuses change and are logged, for two phones and a desk; nothing is     *)
(* closed.                                                                   *)
Moving == /\ \A o \in Carried : o.assignee = NoOne /\ o.status # "CLOSED"
          /\ configuration = 0
(* Work orders are closed and reopened while their asset is reconfigured.    *)
Closing == /\ \A o \in Carried : o.assignee = NoOne /\ o.status # "IN_PROGRESS"
           /\ Idle(spare)

TicketsIn(rows) == HistoryNext /\ rows' /\ UNCHANGED <<planVars, oversightVars>>

(* The manager of every site reads while saves overlap; nothing is closed. *)
Starting == /\ reader.pc = "next" => reader.left \subseteq {boss}
            /\ \A w \in Jobs : job[w].status # "CLOSED"
            /\ \A r \in Saves : saves[r] # NoSave => saves[r].status # "CLOSED"

Overseen == OversightNext /\ UNCHANGED <<historyVars, planVars>>

OfficeInit ==
    /\ HistoryInit /\ PlansInit /\ OversightInit
    /\ setting \in {"assigning", "moving", "closing", "generating",
                    "reading", "regrouping", "reopening"}

OfficeNext ==
    /\ UNCHANGED setting
    /\ \/ setting = "assigning" /\ TicketsIn(Assigning)
       \/ setting = "moving" /\ TicketsIn(Moving)
       \/ setting = "closing" /\ TicketsIn(Closing)
       \/ setting = "generating" /\ PlansNext /\ UNCHANGED <<historyVars, oversightVars>>
       \/ setting = "reading" /\ Overseen /\ Starting' /\ UNCHANGED allowed
       \/ setting = "regrouping" /\ Overseen /\ UNCHANGED saves    \* sites change hands
       \/ setting = "reopening" /\ Overseen /\ UNCHANGED <<allowed, reader>>

OfficeSpec == OfficeInit /\ [][OfficeNext]_<<setting, historyVars, planVars, oversightVars>>
=============================================================================
