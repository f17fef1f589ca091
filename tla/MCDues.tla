------------------------------- MODULE MCDues -------------------------------
(* Two settings in which what is due must be served, in one state space: two *)
(* rows that runs can block each other over, on one day and without meters;  *)
(* and one row with a meter, over several days, one of whose runs may die    *)
(* every time.  The initial state says which.                                *)
EXTENDS PMSchedules

CONSTANT alone     \* the only schedule of the second setting

VARIABLE setting

DuesInit == PlansInit /\ setting \in {"two rows", "one row"}

(* A worker that dies every time, and is never the one whose wait PostgreSQL *)
(* ends, would keep the other run from two rows for ever.                    *)
OneDay == today = 0 /\ \A s \in Schedules : logged[s] = {} /\ (row[s] # NoPlan => row[s].meter = 0)
NobodyDies == \A g \in Generators : WorkerDies(g) => BreakDeadlock(g)
OneRow == \A s \in Schedules \ {alone} : row[s] = NoPlan /\ logged[s] = {}

DuesNext ==
    /\ UNCHANGED setting
    /\ \/ setting = "two rows" /\ PlansNext /\ OneDay' /\ NobodyDies
       \/ setting = "one row" /\ PlansNext /\ OneRow'

DuesSpec == DuesInit /\ [][DuesNext]_<<setting, planVars>> /\ RunsFairness
=============================================================================
