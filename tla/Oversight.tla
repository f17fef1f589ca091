----------------------------- MODULE Oversight -----------------------------
(* Who gets to hear that a work order is late: the service levels of         *)
(* workorders/sla.py, the daily digest of core/notifications.py, the counts  *)
(* of the dashboard (reporting/services.py) and the dispatch board           *)
(* (teams/services.py), all of them scoped to sites by assets/access.py.     *)
(*                                                                           *)
(* Both the digest and the dashboard ask the database query by query, row by *)
(* row, while work orders are saved and sites change hands.  A save takes    *)
(* its steps here too (WorkOrder.save, in full in WorkOrders): the line that *)
(* says when work began is stamped before it can be seen.  The clock counts  *)
(* hours.  Closing times are left out: only open work orders are judged.     *)
EXTENDS Integers, FiniteSets

CONSTANTS Jobs,
          Sites, Teams,
          SiteOf,          \* the site of each work order's asset, and of each team
          TeamOf,          \* the team of each work order, or NoTeam
          NoTeam,
          Response,        \* the hours its contract gives a work order to be started,
          Resolution,      \* and to be closed; NoTarget: none
          NoTarget,
          Managers,        \* members of Management and Incident Manager with a mail address
          Bypass,          \* the managers who are superusers, Admin or OEM too
          UserGroups,      \* the groups of each manager
          Assignable,      \* the managers and groups whose sites are changed
          Calls, Forms,    \* saves: statement by statement, and in a transaction
          LastHour         \* bound: when the clock stops

Saves == Calls \cup Forms
Groups == UNION {UserGroups[u] : u \in Managers}

ASSUME OversightAssumption ==
    /\ IsFiniteSet(Jobs)
    /\ SiteOf \in [Jobs \cup Teams -> Sites]
    /\ Response \in [Jobs -> Nat \cup {NoTarget}]
    /\ Resolution \in [Jobs -> Nat \cup {NoTarget}]
    /\ NoTarget \notin Int
    /\ TeamOf \in [Jobs -> Teams \cup {NoTeam}] /\ NoTeam \notin Teams
    /\ Bypass \subseteq Managers /\ Assignable \subseteq Managers \cup Groups
    /\ Calls \cap Forms = {}
    /\ LastHour \in Nat

VARIABLES now,
          job,        \* the committed work orders
          starts,     \* when each was put IN_PROGRESS, as its committed log says
          saves,      \* the saves in progress
          allowed,    \* the sites each manager and each group is assigned to
          reader      \* the digest, or the dashboard, in progress: readers
                      \* write nothing, so two at once are like one

workVars == <<now, job, starts, saves>>
oversightVars == <<workVars, allowed, reader>>

JobStatuses == {"OPEN", "IN_PROGRESS", "CLOSED"}
Job == [status : JobStatuses \cup {"none"}, created : Nat]
Exists(w) == job[w].status # "none"
Contracted(w) == Response[w] # NoTarget \/ Resolution[w] # NoTarget

NoSave == [pc |-> "idle"]
NoReader == [pc |-> "idle"]

OversightInit ==
    /\ now = 0
    /\ job = [w \in Jobs |-> [status |-> "none", created |-> 0]]
    /\ starts = [w \in Jobs |-> {}]
    /\ saves = [r \in Saves |-> NoSave]
    /\ allowed \in [Managers \cup Groups -> {{}}]
    /\ reader = NoReader

-----------------------------------------------------------------------------
(* Work orders *)

HourPasses ==
    /\ now < LastHour
    /\ now' = now + 1
    /\ UNCHANGED <<job, starts, saves, allowed, reader>>

(* A new work order, as it is committed: created then or earlier, and its    *)
(* first line, which counts if it is IN_PROGRESS at once, after that.        *)
ReportJob(w, status, created, started) ==
    /\ ~Exists(w)
    /\ created <= started
    /\ job' = [job EXCEPT ![w] = [status |-> status, created |-> created]]
    /\ starts' = [starts EXCEPT ![w] = IF status = "IN_PROGRESS" THEN {started} ELSE {}]
    /\ UNCHANGED <<now, saves, allowed, reader>>

(* WorkOrder.save with a status, the same or another: the previous one is    *)
(* read without a lock, ...                                                  *)
BeginSave(r, w, status) ==
    /\ saves[r] = NoSave
    /\ Exists(w)
    /\ saves' = [saves EXCEPT ![r] =
            [pc |-> "write", job |-> w, status |-> status, at |-> 0,
             begins |-> status = "IN_PROGRESS" /\ job[w].status # status]]
    /\ UNCHANGED <<now, job, starts, allowed, reader>>

(* ... the row is written, when no form has it, by a form for itself, ...    *)
HasRow(f, w) == f \in Forms /\ saves[f].pc \in {"stamp", "end"} /\ saves[f].job = w
WriteJob(r) ==
    LET w == saves[r].job IN
    /\ saves[r].pc = "write"
    /\ \A f \in Forms : ~HasRow(f, w)
    /\ job' = IF r \in Calls THEN [job EXCEPT ![w].status = saves[r].status] ELSE job
    /\ saves' = [saves EXCEPT ![r].pc = IF saves[r].begins THEN "stamp" ELSE "end"]
    /\ UNCHANGED <<now, starts, allowed, reader>>

(* ... a start gets its time (changed_at, auto_now_add), ...                 *)
StampStart(r) ==
    /\ saves[r].pc = "stamp"
    /\ saves' = [saves EXCEPT ![r].pc = "end", ![r].at = now]
    /\ UNCHANGED <<now, job, starts, allowed, reader>>

(* ... and can be seen when the statement has ended, or the mail has been    *)
(* sent and the form commits.                                                *)
EndSave(r) ==
    LET w == saves[r].job IN
    /\ saves[r].pc = "end"
    /\ job' = IF r \in Forms THEN [job EXCEPT ![w].status = saves[r].status] ELSE job
    /\ starts' = IF saves[r].begins THEN [starts EXCEPT ![w] = @ \cup {saves[r].at}] ELSE starts
    /\ saves' = [saves EXCEPT ![r] = NoSave]
    /\ UNCHANGED <<now, allowed, reader>>

(* A worker dies, or a statement fails. *)
AbortSave(r) ==
    /\ saves[r] # NoSave
    /\ saves' = [saves EXCEPT ![r] = NoSave]
    /\ UNCHANGED <<now, job, starts, allowed, reader>>

(* A site's allowed_users and allowed_groups. *)
AssignSite(who, s) ==
    /\ allowed' = [allowed EXCEPT ![who] = IF s \in @ THEN @ \ {s} ELSE @ \cup {s}]
    /\ UNCHANGED <<workVars, reader>>

-----------------------------------------------------------------------------
(* assets/access.py *)

AccessibleSites(u) ==
    IF u \in Bypass THEN Sites ELSE UNION {allowed[who] : who \in {u} \cup UserGroups[u]}

-----------------------------------------------------------------------------
(* get_sla_status of a row j of an open work order w, as of an hour.         *)

(* The log is ordered by time.  Mutant: the latest start counts. *)
FirstStart_Latest(w) == CHOOSE h \in starts[w] : \A k \in starts[w] : k <= h
FirstStart(w) == CHOOSE h \in starts[w] : \A k \in starts[w] : h <= k

Waiting(j, hour, target) == IF hour - j.created > target THEN "overdue" ELSE "pending"

ResponseStatus(w, j, hour) ==
    IF starts[w] = {} THEN Waiting(j, hour, Response[w])
    ELSE IF FirstStart(w) - j.created > Response[w] THEN "breached" ELSE "met"

SlaStatuses(w, j, hour) ==
    {ResponseStatus(w, j, hour) : t \in {Response[w]} \ {NoTarget}}
        \cup {Waiting(j, hour, t) : t \in {Resolution[w]} \ {NoTarget}}

(* breached_open_work_orders: "both mean an SLA problem".  Mutant: what has  *)
(* not even been started is left out.                                        *)
IsBreach_StartedOnly(statuses) == "breached" \in statuses
IsBreach(statuses) == {"breached", "overdue"} \cap statuses # {}

(* sla_summary: each open work order counts once, for the worst of its two   *)
(* statuses.  Mutant: a target still ahead hides one that was missed.        *)
WorstOf_PendingFirst(statuses) ==
    IF "breached" \in statuses THEN "breached"
    ELSE IF "pending" \in statuses THEN "pending"
    ELSE IF "overdue" \in statuses THEN "overdue" ELSE "met"
WorstOf(statuses) ==
    IF "breached" \in statuses THEN "breached"
    ELSE IF "overdue" \in statuses THEN "overdue"
    ELSE IF "pending" \in statuses THEN "pending" ELSE "met"

(* The work orders a query for the open ones at some sites returns. *)
OpenAt(sites) == {w \in Jobs : /\ Exists(w) /\ job[w].status # "CLOSED"
                               /\ Contracted(w) /\ SiteOf[w] \in sites}

-----------------------------------------------------------------------------
(* dispatch_board, of the day every visit is planned for.  Mutant: a team    *)
(* the user does not see takes its visits with it.                           *)
ShownUnder_Scoped(u, w) == TeamOf[w]
ShownUnder(u, w) ==
    IF TeamOf[w] # NoTeam /\ SiteOf[TeamOf[w]] \in AccessibleSites(u) THEN TeamOf[w] ELSE NoTeam

(* A visit is listed under a team of the user's sites, or as unassigned. *)
Columns(u) == {NoTeam} \cup {t \in Teams : SiteOf[t] \in AccessibleSites(u)}
Board(u) == [t \in Columns(u) |->
    {w \in Jobs : Exists(w) /\ SiteOf[w] \in AccessibleSites(u) /\ ShownUnder(u, w) = t}]

-----------------------------------------------------------------------------
(* notify_daily_digest, for all managers one after the other, and            *)
(* sla_summary, for one: the same queries.                                   *)

StartReading(users) ==
    /\ reader = NoReader
    /\ reader' = [pc |-> "next", left |-> users]
    /\ UNCHANGED <<workVars, allowed>>

(* For each: the sites, the open work orders there, as rows, ...             *)
ReadSites(u) ==
    /\ reader.pc = "next"
    /\ u \in reader.left
    /\ reader' = [pc |-> "sites", left |-> reader.left \ {u}, sites |-> AccessibleSites(u)]
    /\ UNCHANGED <<workVars, allowed>>

(* (since and logs are what the properties compare the outcome with)         *)
ReadJobs ==
    LET found == OpenAt(reader.sites) IN
    /\ reader.pc = "sites"
    /\ reader' = [pc |-> "logs", left |-> reader.left, rows |-> [w \in found |-> job[w]],
                  toCheck |-> found, outcome |-> [w \in found |-> {}],
                  since |-> now, logs |-> [w \in found |-> starts[w]]]
    /\ UNCHANGED <<workVars, allowed>>

(* ... the log of each of these, as it is by then, judged by a clock that    *)
(* was read before it, ...                                                   *)
CheckJob(w, hour) ==
    /\ reader.pc = "logs"
    /\ w \in reader.toCheck
    /\ hour \in reader.since..now
    /\ reader' = [reader EXCEPT !.toCheck = @ \ {w},
                                !.outcome[w] = SlaStatuses(w, reader.rows[w], hour)]
    /\ UNCHANGED <<workVars, allowed>>

(* ... and a mail about what was found, or the counts.  A mail that fails is *)
(* logged, and the next manager's turn comes all the same.                   *)
ReportFound ==
    /\ reader.pc = "logs"
    /\ reader.toCheck = {}
    /\ reader' = [pc |-> "next", left |-> reader.left]
    /\ UNCHANGED <<workVars, allowed>>

EndReading ==
    /\ reader.pc = "next"
    /\ reader.left = {}
    /\ reader' = NoReader
    /\ UNCHANGED <<workVars, allowed>>

(* The worker dies: the managers who are left hear nothing today. *)
KillReader ==
    /\ reader # NoReader
    /\ reader' = NoReader
    /\ UNCHANGED <<workVars, allowed>>

(* What it has to say: whom the mail names, and how the counts come out.     *)
Named == {w \in DOMAIN reader.rows : IsBreach(reader.outcome[w])}
CountOf(status) == Cardinality({w \in DOMAIN reader.rows : WorstOf(reader.outcome[w]) = status})

ReaderNext ==
    \/ StartReading(Managers) \/ \E u \in Managers : StartReading({u})
    \/ \E u \in Managers : ReadSites(u)
    \/ \E w \in Jobs, hour \in 0..now : CheckJob(w, hour)
    \/ ReadJobs \/ ReportFound \/ EndReading \/ KillReader

SaveNext(r) == \/ \E w \in Jobs, status \in JobStatuses : BeginSave(r, w, status)
               \/ WriteJob(r) \/ StampStart(r) \/ EndSave(r) \/ AbortSave(r)

OversightNext ==
    \/ HourPasses
    \/ \E w \in Jobs, status \in JobStatuses, created, started \in 0..now :
           ReportJob(w, status, created, started)
    \/ \E r \in Saves : SaveNext(r)
    \/ \E who \in Assignable, s \in Sites : AssignSite(who, s)
    \/ ReaderNext

OversightSpec == OversightInit /\ [][OversightNext]_oversightVars

-----------------------------------------------------------------------------
(* Properties *)

(* The values every variable ranges over. *)
SaveInProgress == [pc : {"write", "stamp", "end"}, job : Jobs, status : JobStatuses,
                   at : Nat, begins : BOOLEAN]
Verdicts == {"met", "pending", "breached", "overdue"}
AtNext == [pc : {"next"}, left : SUBSET Managers]
AtSites == [pc : {"sites"}, left : SUBSET Managers, sites : SUBSET Sites]
AtLogs(S) == [pc : {"logs"}, left : SUBSET Managers, rows : [S -> Job], toCheck : SUBSET S,
              outcome : [S -> SUBSET Verdicts], since : Nat, logs : [S -> SUBSET Nat]]
OversightTypeOK ==
    /\ now \in Nat
    /\ job \in [Jobs -> Job]
    /\ starts \in [Jobs -> SUBSET Nat]
    /\ saves \in [Saves -> {NoSave} \cup SaveInProgress]
    /\ allowed \in [Managers \cup Groups -> SUBSET Sites]
    /\ reader \in {NoReader} \cup AtNext \cup AtSites \/ \E S \in SUBSET Jobs : reader \in AtLogs(S)

(* A ticket whose response was in time stays so, whatever is closed,         *)
(* reopened, started again or committed late; and one that was too late, or  *)
(* overdue, is cleared only by a start that was stamped in time and comes    *)
(* into sight by this step (workorders/sla.py, an append-only log).          *)
Due(w) == job[w].created + Response[w]
ClearedBy(r, w) == /\ saves[r].pc = "end" /\ saves[r].job = w /\ EndSave(r)
                   /\ saves[r].begins /\ saves[r].at <= Due(w)
VerdictIsFinal ==
    [][\A w \in Jobs : Exists(w) /\ Response[w] # NoTarget =>
          LET was == ResponseStatus(w, job[w], now)
              is == ResponseStatus(w, job[w], now)'
          IN  /\ was = "met" => is = "met"
              /\ was \in {"breached", "overdue"} =>
                     is \in {"breached", "overdue"} \/ \E r \in Saves : ClearedBy(r, w)
      ]_oversightVars

(* A row j of a work order is late at an hour, by what its log says: a       *)
(* target has passed, and, if it is the first, no start came in time.        *)
Overran(j, hour, target) == target # NoTarget /\ hour > j.created + target
LateBy(log, w, j, hour) ==
    \/ Overran(j, hour, Response[w]) /\ \A h \in log : h > j.created + Response[w]
    \/ Overran(j, hour, Resolution[w])

(* Late when the rows were read, by what is on record at the end; and late   *)
(* at the end, by what was on record when the rows were read.                *)
SurelyLate == {w \in DOMAIN reader.rows : LateBy(starts[w], w, reader.rows[w], reader.since)}
MaybeLate == {w \in DOMAIN reader.rows : LateBy(reader.logs[w], w, reader.rows[w], now)}
Finished == reader.pc = "logs" /\ reader.toCheck = {}

(* Whatever is started and committed between its queries, a mail leaves out  *)
(* no open work order that is late, and names none whose start in time was   *)
(* on record (notify_daily_digest, breached_open_work_orders).               *)
DigestIsRight == Finished => SurelyLate \subseteq Named /\ Named \subseteq MaybeLate

(* The dashboard's two counts of missed targets add up to the work orders    *)
(* that are late, one that is late by both targets counted once              *)
(* (sla_summary).                                                            *)
DashboardIsRight == Finished =>
    CountOf("breached") + CountOf("overdue") \in Cardinality(SurelyLate)..Cardinality(MaybeLate)

(* "fold into unassigned rather than silently dropping it": a visit to one   *)
(* of the user's sites is on the board exactly once, even if its team is at  *)
(* another site or leaves the user's sites (dispatch_board).                 *)
BoardIsComplete == \A u \in Managers, w \in Jobs :
    Exists(w) /\ SiteOf[w] \in AccessibleSites(u) =>
        Cardinality({t \in Columns(u) : w \in Board(u)[t]}) = 1
=============================================================================
