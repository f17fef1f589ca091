# Daifuku incident tool: TLA+ models, checks and proofs

Daifuku is a maintenance-management system (Django, Celery, PostgreSQL, a small
browser client) under `src/backend`. This directory holds models of the parts
of it where several people, requests or processes touch the same rows, the TLC
runs that check them on small instances, and theorems about them, checked by
TLAPS for every value of the constants.

Run a model with `tlc -config <run>.cfg MC<Module>`, and check proofs with
`tlapm <Module>Proofs.tla`. `PROJECT.json` lists the components, the runs and
their properties, one mutant per property (an edit of the model that the
property catches), the source lines of every definition, hazards, findings and
theorems.

## 1. Ground rules taken from the code

These facts about the deployment decide what is one step of a model and what is
several.

- **Separate processes.** gunicorn workers, a Celery worker, Celery beat and
  `manage.py` commands share nothing but PostgreSQL (`docker-compose.yml`,
  `cmms/celery.py`). All interaction is through rows.
- **Isolation.** PostgreSQL's default, READ COMMITTED, which `cmms/settings.py`
  75-84 does not change. A plain SELECT reads what is committed, or what its own
  transaction has written, and never waits. UPDATE, INSERT of an existing key
  and SELECT ... FOR UPDATE wait for the row's holder and then look at the row
  again - at the row, and not at a sub-select of the WHERE. Django puts the
  WHERE of an `update()` into a sub-select when the queryset joins another
  table, as every list does that is scoped to sites by the asset. PostgreSQL
  ends one transaction of a cycle of waits.
- **Transactions.** There is no `ATOMIC_REQUESTS`. API views and the public
  issue forms commit every statement on its own; Django's admin runs each add
  or change POST in one transaction; the approve action of permits is one
  UPDATE; `consume_stock` and `generate_due_work_orders` open their own.
- **`Model.save()` writes every field** as the object in memory has it, also
  those the caller did not touch and those a form shows read-only. An object
  loaded earlier and saved later therefore writes back old values. Most of the
  findings below are of this kind.
- **Rows that are gone.** `save()` of an object whose row was deleted inserts it
  again.

## 2. Inventory of the system

| Component | State | Operations | Module |
|---|---|---|---|
| Stockroom (`inventory/`) | `StockLevel`, `PurchaseOrder`, `PurchaseOrderLine`, `StockReservation`, part usage | scan and consume, order form with receiving, hand edit of a level, reserve, cancel | `Inventory`, `StockLedger` |
| Work orders (`workorders/models.py`, forms, status API, `core/notifications.py`) | `WorkOrder`, `WorkOrderStatusChange`, mails | report, status update, add and change form, all through `WorkOrder.save` | `WorkOrders`, `TicketHistory` |
| Preventive maintenance (`maintenance/`) | `PMSchedule`, `PMScheduleGeneration`, meter readings | generate due work orders, create, edit, log a reading | `PMSchedules`, `Maintenance` |
| Permits to work (`safety/`) | `PermitToWork` | approve action, change form | `Permits` |
| Oversight (`workorders/sla.py`, `core/notifications.py`, `assets/access.py`, `reporting/services.py`, `teams/services.py`) | status logs, the sites of users and groups | SLA status, daily digest, dashboard counts, dispatch board, site scoping | `Oversight` |
| Mobile API (`mobile_api/`) | rows of the other components | every endpoint | `MobileApi` |
| Technician's app (`pwa/static/pwa/app.js`) | the screen, requests under way, camera loops | every screen and button, every answer | `Phone` |
| Roles (`*/migrations/*`) | groups, permissions, periodic tasks | apply and undo data migrations | `RoleMigrations`, `RoleTables` |
| Assets, portal | rows other components use | forms, thin views | the parts the modules use |
| Search, attachments, single sign-on, settings | - | queries, framework calls | not modelled (section 9) |

How they interact:

- A scan in the app calls `mobile_api`, which calls `consume_stock`, which
  writes a `StockLevel`, a usage row of a work order and a `StockReservation`.
- The order form saves lines one after the other; each save writes the level
  and, through `refresh_status`, the order.
- The PM generator, the public issue forms, the portal, the mobile API and the
  admin all end in `WorkOrder.save`, which writes the row and the status log
  and calls `notify_work_order_assigned`.
- The digest, the dashboard and the board read work orders, their status logs
  and the assignment of sites; nothing they do is read by anyone else.
- Data migrations decide which group may do what; every endpoint of the mobile
  API and every page of the admin asks for those permissions.
- Work orders take the asset's current configuration; PM schedules read its
  latest meter reading.

What makes each hard, and what makes it right:

- **Stockroom.** Three writers of one quantity, only one of which locks it;
  received counts read without a lock and turned into deltas; several lines and
  levels in one transaction; loaded objects saved late. Right means: every unit
  on the shelf is explained, a delivery is credited once, no quantity goes
  negative, the order's status is what its lines call for, and reservations are
  fulfilled by parts that were really taken, once.
- **Work orders.** A read, a write, a log line and a mail in four statements,
  in or out of a transaction, from stale objects. Right means: the log has
  every status and no other, nobody with an address is passed over in silence, a
  closed ticket has its times, and the configuration is the one at creation.
- **Preventive maintenance.** Overlapping runs that may die, late runs with
  yesterday's date, forms that write dates back, several triggers at once.
  Right means: each trigger is answered once, one catch-up after an outage, all
  that is due is served.
- **Oversight.** A loop of queries over several seconds with a mail at the end,
  two clocks (targets for starting and for closing), lines of a log that are
  stamped before they can be seen, tickets that are reopened, teams and sites
  that do not match. Right means: no late ticket is left out, none is named
  whose start in time was on record, each is counted once, a verdict changes
  for a reason only, every visit is on a board.
- **Technician's app.** Requests and answers that overtake each other or are
  lost, pages that change meanwhile, camera loops that outlive their page.
  Right means: nothing is booked that was not tapped for, only real shortages
  are flagged, no page waits for ever, parts come from the shelf chosen.
- **Roles.** Grants that depend on the order in which seven apps are migrated,
  and ways back. Right means: nothing is held without a migration that grants
  it, what is taken away stays away, the roles end up as documented.
- **Permits.** A guarded UPDATE, whose guard some users' lists do not look at
  again, beside a form that writes whole rows. Right means: approvals are
  supervisors', and nobody who has seen one replaces it.

`PROJECT.json` lists the hazards line by line with the properties that cover
them, or why none does.

## 3. Modules

### StockLedger: the abstract specification
What the stockroom promises of a level: units leave by a usage row (`Consume`),
arrive by a rise of the lines' received counts (`Receive`) and are otherwise
corrected by the amount a person meant (`Recount`), each in one atomic step.

### Inventory: the stockroom
| State | Code |
|---|---|
| `rows`, `onHand` | `StockLevel` rows and `quantity_on_hand` |
| `status`, `line` | `PurchaseOrder.status`, `PurchaseOrderLine` |
| `reservations` | `StockReservation`, oldest first (`created_at`) |
| `levelHolder`, `orderHolder`, `pending...` | row locks, and what a clerk's transaction has written and not committed |
| `technician`, `clerk`, `stocktaker`, `planner` | requests in progress, with what they have read |
| `used`, `usedFor` | usage rows, summed |
| `adjusted`, `credited`, `pendingCredited` | history: what hand edits meant, and what a line's saves have added to stock |

A technician's request is `Scan`, `LockLevel` (or `RefuseScan`),
`CommitConsumption` (or `AbortConsumption`): `consume_stock` is one transaction
under `select_for_update`, and nothing it writes is visible before its commit.
A clerk's POST is `Post`, `SaveModel` (which locks the order), for each line of
the formset in the order Django handles them `SaveLine` or `DeleteLine` (or
`RefuseLine`), and if there is a delta `ReadLevel` and `CreditLevel`
(`get_or_create`, then save), then `CommitPost`; a failure, a deadlock or a
crash rolls everything back. `RolledUp` is `PurchaseOrder.refresh_status`,
called where the code calls it and not as a step of its own. A stocktaker's
form carries the quantity the page showed (`OpenLevelForm`, `SaveLevelForm`).
`Reserve`, `LoadReservation` and `CancelReservation` are the planner's calls.

### WorkOrders: the lifecycle of a ticket
`Phones` stand for requests whose statements commit one by one (status API,
issue forms), `Desks` for admin forms, which are one transaction. Requests
begin with `Report`, `UpdateStatus`, `AddForm` or `OpenForm`/`SubmitForm` and
all run `WorkOrder.save`: `ReadPrevious`, `WriteRow`, `LogChange`, `Notify`;
a desk then needs `Commit`. `Crash` ends any of them anywhere. A desk's mail
leaves before its commit, as in the code; `Notify` has two outcomes, as `_send`
logs a mail that fails and goes on (`told`, `undelivered`), and addresses only
people who have one (`Reachable`). A row is its status, assignee, configuration
snapshot and the two closing times; the actual closing time is blank, automatic
or typed.

### TicketHistory: what the status log is measured by
`TicketHistory` runs `WorkOrders` and keeps beside it what no table has: the
statuses each work order has `had` on record, and the lines that were `lost`
because a phone's request died between the row and the line. The status log
promises more, a line for every transition; that is false (`lost_transition`).
What it keeps, in every interleaving, is that no status is missing and none is
invented.

### Maintenance: the abstract specification of the generator
What `generate_due_work_orders` promises, as if a run were one step. `Run(S, day)`
answers the schedules of a set `S` for a day: each is active and `Due` by its
date or by a reading on record, gets one work order that names the targets it
had, and `row` gets the first targets that lie ahead (`Moving`: by whole
intervals, and by none that was not called for; `Ahead`: past the day, and past
the reading if that had made it due). `Plan`, `Record` and `NextDay` are the
edit of a schedule, a reading and midnight.

### PMSchedules: the generator
A run is `Begin` (the query, with `as_of` taken), `LockSchedule` row by row
with the second look that READ COMMITTED gives, `StartWork`, then for each row
`Generate` or `Skip`, `Advance` one interval at a time, `SaveSchedule`, and
`CommitRun`; `WorkerDies` and `BreakDeadlock` roll back. Editors have forms
(`OpenPlan`, `SavePlan`) that write back all they showed. `Create` is
`PMSchedule.save` of a new row, with its meter anchor. `logged` holds all
values of the append-only `AssetMeterReading`, `reading` the latest. The module
implements `Maintenance` with the variables of the same names (`MaintenanceSpec`):
`CommitRun` is `Run` for what the run has made, `SavePlan` and `Create` are
`Plan`, and every other step of a run is nothing. The promise leaves out what an
implementation is free in: which of the due schedules a run answers (one that
waits may find them answered), and which reading it saw.

### Permits: approvals
The list action is `Approve` (the statement begins and finds its rows in a
snapshot), `ReachPermit` for each of them in any order (its lock, and for the
`Unscoped`, whose WHERE is on the table itself, the second look) and
`CommitApproval`, or `AbortApproval`. For a supervisor with a limited set of
sites the WHERE is in a sub-select, and a row that another supervisor has just
approved is approved again (section 5). `LoadPermit`, `SavePermit`,
`CommitEdit`, `AbortEdit` are the change form. `older` is history: for each
permit, the requests that began before its approval was on record.

### Oversight: who hears that a work order is late
| State | Code |
|---|---|
| `now` | the clock, in hours |
| `job` | status and creation of each work order, as committed |
| `starts` | the times of the committed lines "to IN_PROGRESS" of its status log |
| `saves` | saves in progress: `Calls`, whose statements commit one by one, and `Forms`, which are a transaction |
| `allowed` | `Site.allowed_users` and `allowed_groups` |
| `reader` | the digest or a dashboard in progress: managers left, the sites, rows and verdicts it has read |

A save is `BeginSave` (the previous status, read without a lock), `WriteJob`,
`StampStart` and `EndSave`, or `AbortSave`: the line of a start gets its
`changed_at` when it is inserted, and can be seen when the form has sent its
mail and commits, hours later if it comes to that. Of two saves the earlier
stamp may so be seen last. `WorkOrders` has the rest of `WorkOrder.save`;
`ReportJob` is a new work order as it is committed. `ResponseStatus` and
`Waiting` are `get_sla_status`, `IsBreach` is `breached_open_work_orders`,
`WorstOf` and `CountOf` are the dashboard's `sla_summary`, `Board` is
`dispatch_board`, `AccessibleSites` is `get_accessible_site_ids`. The digest,
for all managers one after the other, and the dashboard, for one, take the same
queries one at a time: `StartReading`, `ReadSites`, `ReadJobs`, `CheckJob` for
each row (the clock is read, then the log in a query of its own), `ReportFound`;
`KillReader` is the death of the worker. Closing times are left out: only the
page of a closed work order is judged by them.

What a reader can be held to follows from what it can know. A start that was
stamped in time may come to light after a mail has called the work order late,
so `DigestIsRight` puts what the mail names between two sets: `SurelyLate`, late
when the rows were read by all that is on record at the end, and `MaybeLate`,
late at the end by what was on record when the rows were read.
`DashboardIsRight` puts the two counts between the sizes of these.
`VerdictIsFinal` says the same of the verdict itself: met stays met, and missed
is cleared by nothing but the commit of a start that was stamped in time.

### MobileApi and Phone: the app in front of the API
`MobileApi` has each endpoint as an operator on the server's state, one step
each: permission, site scope, effect, answer. `Phone` has the screen (lists,
ticket page with its two panels, scan page with its result), the requests under
way with what each captured, and the camera loops. `Serve` and `Hear` are the
arrival of a request and of its answer; either may be lost, and they overtake
each other. Every tap is an action (`ShowTickets`, `ShowTicketDetail`,
`SubmitStatus`, `SubmitComment`, `SubmitChecklistResponse`, `ShowScan`,
`SubmitCode`, `Detect`, `BookPart`, `FlagWaitingOnParts`), every answer a
function of the screen (`OnTickets` ... `OnFlagged`). The office may move the
technician between sites (`Rescope`) at any time.

### RoleMigrations and RoleTables: permissions
`RoleTables` is the content of every data migration that founds a role, grants,
revokes or seeds, and the models of the schema migrations they need.
`RoleMigrations` runs any such table: `Apply` and `Undo` in every order the
dependencies allow (`MigrateSpec`), or in the order of `migrate` on a database
(`DeploySpec`).

### MC modules
`MCInventory`, `MCPhone` and `MCRoleMigrations` give the constants of small
instances. `MCOffice` (work orders, the generator and oversight) and `MCSite`
(receiving, permits and roles) put parts that share no state into one run: a
variable that never changes, `moving` or `setting`, says which part moves, so
the state spaces are added and not multiplied, and each part's properties are
checked over all of its own. Of work orders and of oversight `MCOffice` has three
settings each, with what the properties of that setting tell apart: assignments
change (everything stays open), statuses change (two phones and a desk; nothing
is closed), and work orders are closed and reopened while the asset is
reconfigured; a manager reads while two saves overlap (nothing is closed), all
read while sites change hands, and saves overlap, closing and reopening, while
nobody reads. `MCDues` does the same with two settings of the generator, where
due schedules must be served. Symmetry sets (`Interchangeable`) are used in
`contention`, `site` and `office`, which check no liveness.

## 4. Runs that pass

| Run | Properties | What it shows |
|---|---|---|
| `consumers` | `Balanced` `FulfilledIsCovered` `LedgerSpec` `ScansEnd` | With two technicians and a planner, the office closed: every unit is explained, what reservations say was fulfilled was taken, the stockroom implements the ledger, and every scan ends although the technicians queue for one row |
| `progress` | `PostsEnd` | Every POST ends, although two orders naming the levels in opposite order block each other |
| `site` | `CreditedOnce` `Balanced` `ReceivedNeverFalls` `RolledUpOnCommit` | Receiving: two clerks with one order of two lines open, the level not created yet: no delivery is credited twice or skipped, no unit is unexplained, no count falls, the committed status is what the lines call for |
| | `ApproverIsSupervisor` `ApproverKept` | Permits: two supervisors of some sites and one of all, with overlapping selections, a user who is none, and a form: approvals are supervisors', and only what was under way before an approval replaces or removes it |
| | `NothingUnexplained` `RevokedStaysRevoked` `GrantsResolve` | Roles: every order of applying, undoing and applying again the repository's migrations: nothing is held without a reason, what is taken away stays away, no permission is looked up before it exists |
| `contention` | `TypeOK` `NeverOverdrawn` `LockedReadIsCurrent` | Stockroom: with technicians, a clerk and a stocktaker on one level, the locked read of `consume_stock` stays current and nothing goes negative |
| `office` | `TypeOK` `AssigneeWasMailed` `ClosedIsStamped` `SnapshotFrozen` | A desk and phones that may die close, reopen and reassign a ticket from stale rows while the asset is reconfigured and mails fail |
| | `StatusIsLogged` `LogInventsNothing` | Two phones and a desk whose saves overlap, and die anywhere: but for lines that died with a phone, the log has every status the ticket had (`sla.py` finds the line by which it judges), and none it had not |
| | `PlansTypeOK` `EachTriggerOnce` `OneCatchUp` `MaintenanceSpec` | Two runs of the generator that may die answer each trigger once, and a missed stretch once, over dates and meters, and do together what runs of one step each would do |
| | `DigestIsRight` `DashboardIsRight` `VerdictIsFinal` `BoardIsComplete` | Oversight: a job that is started by two overlapping saves, in time, late and never, and passes both of its targets while the digest or a dashboard reads it; two managers, one of them with every site and one through a group that gains and loses them |
| `every_due` | `EveryDueIsServed` `PausedStaysQuiet` | What is due is served although two runs block each other over two schedules, or one of the two that serve a schedule with a meter dies every time, while an editor pauses, resumes and re-arms schedules; what was paused while a run waited for it gets nothing from that run |
| `phone` | `TypeOK` `EveryBookingWasAskedFor` `FlagFollowsShortage` `EveryWaitEnds` | A technician taps through the app while requests and answers are delayed, lost and overtaken, a camera loop goes on and the office changes the technician's sites |

`Balanced` is checked for technicians and for clerks apart because together it
does not hold: `lost_update` is that run. That the clerks alone implement the
ledger, step by step, is a theorem and not a run. `EachTriggerOnce`
and `OneCatchUp` are checked without editors for the like reason (section 5).

## 5. Findings

Each is a run that ends in a counterexample to something the repository says.

| Run | Property | What happens |
|---|---|---|
| `lost_update` | `Balanced` | A receipt reads a level without a lock; a consumption that commits before its save is erased (`inventory/models.py:184`) |
| `lost_transition` | `LogTellsStatus` | Overlapping saves leave a status that the log does not lead to (`workorders/models.py:135`) |
| `lost_approval` | `ApprovalStands` | Two supervisors of a permit's site approve it at once: the second UPDATE waits for the row, does not look at it again, and replaces the approval (`safety/admin.py:48`); "already approved - left unchanged", says the message (`safety/admin.py:54`) |
| `fresh_install` | `RolesAsDocumented` | `migrate` on an empty database reaches two grants before any group exists; they are passed over in silence and never repeated (`assets/migrations/0009_assetmeterreading_permissions.py:29`) |
| `wrong_location` | `BookedFromChosen` | The app sends the id of a stock level where the view reads the id of a location (`pwa/static/pwa/app.js:390`) |

The models also show these, which have no run of their own: they have
the same cause as one above, take one or two steps, or contradict nothing that
the repository says:

- a form rendered before a run and saved after it re-arms the date, and the
  schedule gets a second work order for one day (`maintenance/admin.py:22`):
  `OneCatchUp` fails under `PlansSpec` with one schedule, one run, one editor
  and three days;
- an interval of 0 days never gets past today, and the run that meets it keeps
  its transaction open (`maintenance/services.py:70`): `EveryDueIsServed` fails
  under `FairPlansSpec` with `Intervals = {0, 1}`;
- a work order that is reopened and closed again keeps its first closing time,
  and its resolution is judged by it (`workorders/sla.py:46`);
- a request outside the admin that dies between its row and its log line leaves
  the transition unlogged (`WorkOrders`, `PhonesCrash`, `workorders/models.py:156`);
- a status update writes an old closing time over one that was typed meanwhile
  (`mobile_api/views.py:135`);
- a form saved over an approval removes it (`safety/admin.py:58`);
- a line deleted by one POST while another receives it is inserted again and
  credited again (`inventory/models.py:170`); `CreditedOnce` leaves out lines
  that may be deleted for that reason;
- received while DRAFT, then ordered: the order stays ORDERED with everything
  received (`inventory/models.py:128`);
- `cancel_reservation` overwrites a fulfilment that came after its caller
  loaded the reservation (`inventory/services.py:79`); only tests call it today;
- a meter added to an existing schedule has no target and never fires
  (`maintenance/models.py:78`).

## 6. Bounds

| Bound | Where | Why it is enough |
|---|---|---|
| `MaxUsed` | units ever scanned from a level, and net hand correction | One more than the opening stock and a receipt can serve, so both a taken and a refused scan happen, before and after a receipt |
| `MaxReservations` 2 | reservations ever made | Two that compete for one consumption: oldest, too large, other job |
| `Quantities` up to 2 | what people type | Less than, equal to and more than what was ordered or is on hand |
| `Lines`, `Levels`, `Orders` | the layouts of `MCInventory` | Two lines of one order for one level that does not exist yet, two orders crossing two levels, one of them new, for the deadlock |
| `MaxLog` 2 | status changes of a ticket before a request may begin on it | Create, change, and up to three overlapping changes after that |
| `MaxConfigurations` 1 | reconfigurations | None at creation, one later: the frozen snapshot differs from the current one |
| `LastDay` 0-1, `MaxReading` 1 | days and readings of a schedule | In `office` a due day, a day that is not due any more, and a schedule first looked at when it is two intervals behind; a reading below and at the target, corrected downwards. In `every_due` two rows need one day only: they become due by being created, resumed or re-armed. One row gets a second day, by which it is due again, and a meter whose target is never reached, so that runs also pass it over |
| `MaxGenerations` 1-2 | work orders of a schedule after which no form is opened on it any more | A form opened before a run and saved after it re-arms the schedule, which must then be served again |
| one job, two managers, `LastHour` 3, one `Call` and one `Form` | oversight | Targets of one hour and of two, both of which pass: late by one, by both and by none, started in time, late and never, and a start that is stamped in time and seen too late; one manager sees all sites, the other those of a group that gains and loses them; a team at another site. A job that is created and started before it is seen stands for any earlier history |
| two tickets, two locations, two `Slots` | `phone` | Requests overtake each other in pairs, save for that of a ticket's page, which takes both slots, for the two lists it will ask for; a ticket with a checklist and one without; a shelf at a site the technician may lose |
| `MaxPosts` 1, `MaxCameras` 1 | taps that post, flags apart; camera loops | One post with any other request under way. Answers to it are lost or late, so the screen may invite a second tap, which this run does not have; that nothing is booked that was not tapped for is proved for any number of them |
| none | roles, in `site` | The tables of the repository are finite |

Model values stand for rows and people. Two requests of a kind are enough for
every race the properties name, each of which is between two of them; two
technicians with a clerk and a stocktaker are together in `contention`. The
theorems remove all of these bounds for the properties they prove.

The runs `office`, `lost_transition`, `lost_approval`, `fresh_install` and
`consumers` set `CHECK_DEADLOCK FALSE`: once the logs, or the units, are used up,
the permits approved, or the migrations done, nothing is left to do there.

## 7. Fairness

- `Inventory!FairSpec`: weak fairness for a request that can run (the server
  runs it); strong fairness for the steps that wait for a row, because
  PostgreSQL queues a row's waiters, so a waiter is not overtaken for ever;
  weak fairness of `BreakDeadlock`, PostgreSQL's deadlock timeout. Nothing is
  assumed of people: posting, scanning, failing and crashing stay optional.
- `PMSchedules!FairPlansSpec`: weak fairness of `Begin` (Celery beat starts a run
  every day for ever), of a run's steps and of `BreakDeadlock`, strong fairness
  of each row's lock for the same queue. `every_due` lets the worker of one
  run die, every time if it will: if every run dies nothing is served. Over
  two rows nobody dies there, for it would not do: a run that always dies after
  the other one has been chosen to end their deadlock keeps that one from both
  rows for ever.
- `Phone!FairSpec`: weak fairness of `Hear` for each request: a fetch settles,
  by an answer or by the browser giving it up. Nothing is assumed of the server
  or of the technician.

## 8. What is proved

All proofs are complete: no obligation is left open or assumed. The only
assumptions are the named ones on constants, which TLC evaluates on every run.

| Theorem | Statement | Argument |
|---|---|---|
| `InventoryProofs!TypeCorrect` | `Spec => []TypeOK` | `TypeOK` is inductive |
| `InventoryProofs!LockedReadsAreCurrent` | `Spec => []LockedReadIsCurrent` | `LockInv` |
| `InventoryProofs!StockNeverOverdrawn` | `Spec => []NeverOverdrawn` | `LockInv` |
| `InventoryProofs!DeliveriesCreditedOnce` | `Spec => []CreditedOnce` | `CreditInv` |
| `InventoryProofs!ReceiptsNeverFall` | `Spec => ReceivedNeverFalls` | `ViewInv` |
| `InventoryProofs!CommitsRollUp` | `Spec => RolledUpOnCommit` | `ViewInv` |
| `InventoryProofs!FulfilledCovered` | `Spec => []FulfilledIsCovered` | inductive, with `Sums` |
| `InventoryProofs!ScansBalance` | no clerks, no stocktakers: `Spec => []Balanced` | `LockInv`, `AsksForSome`, the ledger's steps |
| `InventoryProofs!ScansImplementLedger` | no clerks, no stocktakers: `Spec => LedgerSpec` | the same |
| `InventoryProofs!ReceiptsBalance` | no technicians, no stocktakers, no line deleted, `OneOrderEach`: `Spec => []Balanced` | `ShelfInv`, `CreditInv` |
| `InventoryProofs!ReceiptsImplementLedger` | under the same: `Spec => LedgerSpec` | `ReceiptsBalance`, `ViewInv` |
| `PMSchedulesProofs!TypeCorrect` | `PlansSpec => []PlansTypeOK` | `RunsInv` |
| `PMSchedulesProofs!PausedSchedulesStayQuiet` | `PlansSpec => PausedStaysQuiet` | `RunsInv` |
| `PMSchedulesProofs!TriggersAnsweredOnce` | no editors: `PlansSpec => []EachTriggerOnce` | `TriggerInv` |
| `PMSchedulesProofs!CaughtUpOnce` | no editors: `PlansSpec => []OneCatchUp` | `TriggerInv` |
| `PMSchedulesProofs!RunsImplementMaintenance` | `PlansSpec => MaintenanceSpec`, with editors | `AnswerInv` |
| `WorkOrdersProofs!TypeCorrect` | `Spec => []TypeOK` | with `Opened` |
| `WorkOrdersProofs!AssigneesAreMailed` | `Spec => []AssigneeWasMailed` | `ToldInv` |
| `WorkOrdersProofs!ClosedAreStamped` | `Spec => []ClosedIsStamped` | `StampInv` |
| `WorkOrdersProofs!SnapshotsAreFrozen` | `Spec => SnapshotFrozen` | `SnapshotInv` |
| `WorkOrdersProofs!StatusesAreLogged` | `HistorySpec => []StatusIsLogged` | `AccountInv` |
| `WorkOrdersProofs!LogsInventNothing` | `HistorySpec => []LogInventsNothing` | `HadInv` |
| `PermitsProofs!ApprovalsAreSupervisors` | `PermitsSpec => []ApproverIsSupervisor` | `ApprovalInv` |
| `PermitsProofs!ApprovalsAreKept` | `PermitsSpec => ApproverKept` | `LockInv`, `UnawareInv` |
| `OversightProofs!TypeCorrect` | `OversightSpec => []OversightTypeOK` | inductive |
| `OversightProofs!VerdictsAreFinal` | `OversightSpec => VerdictIsFinal` | `LogInv`, `SavesInv`, `StepGrows` |
| `OversightProofs!DigestsAreRight` | `OversightSpec => []DigestIsRight` | `LogInv`, `ReaderInv` |
| `OversightProofs!DashboardsAreRight` | `OversightSpec => []DashboardIsRight` | the same, `WorstIsLate` |
| `OversightProofs!BoardsAreComplete` | `OversightSpec => []BoardIsComplete` | in every state |
| `RoleMigrationsProofs!EveryPermissionIsExplained` | `MigrateSpec => []NothingUnexplained` | `RoleInv` |
| `RoleMigrationsProofs!RevocationsHold` | `MigrateSpec => []RevokedStaysRevoked` | `RoleInv` |
| `RoleMigrationsProofs!LookupsResolve` | `MigrateSpec => []GrantsResolve` | `RoleInv`, `BehindIsThere` |
| `RoleMigrationsProofs!GuardedGrantsAreHeld` | `DeploySpec => []GuardedGrantsHeld` | `GuardInv` |
| `PhoneProofs!TypeCorrect` | `Spec => []TypeOK` | `PhoneInv`, `Kept` |
| `PhoneProofs!BookingsWereAskedFor` | `Spec => []EveryBookingWasAskedFor` | `Counted`: bookings, taps and pending requests are counted together |
| `PhoneProofs!FlagsFollowShortages` | `Spec => []FlagFollowsShortage` | `Flagging`: what is on its way about a shortage is true |

The invariants, and why the property alone is not inductive:

- **`LockInv`** (stockroom). A quantity could go negative through anything in a
  request's memory that is later written: the technician's read, the clerk's
  read, the number on a stocktaker's page. `LockInv` says that those are all
  possible quantities and that a technician's is enough; the lock makes it
  still the committed one when it is used. Assumed: `InventoryAssumption`
  (typed quantities and openings are natural numbers, as the model's
  `PositiveIntegerField`s make them; technicians and clerks are different
  requests; finitely many order lines).
- **`CreditInv`** (stockroom). The received count and the credit of a line are
  written in different steps, by a save that reads the previous count without a
  lock. What makes it right is not in that method: `save_model` has updated the
  order's row before any line is saved, so one POST at a time works on an
  order's lines. `CreditInv` says exactly that, that unlocked orders have no
  uncommitted lines, and that the count and the credit of a line differ by the
  delta its clerk is about to add. Lines that may be deleted are excluded,
  since for them it is false (section 5).
- **`ViewInv`** (stockroom) speaks of what a POST sees of its order before it
  commits. `Untouched`: lines the form is not done with are as committed.
  `Grown`: no line shows less received than the committed row. The third part
  is the roll-up: between two lines, a POST that has saved some and deleted
  none has the status that the lines it sees call for. That `RolledUp` depends
  on an order's own lines only (`RolledUpLocal`) and leaves its own result
  alone (`RolledUpTwice`) are the lemmas.
- **`FulfilledIsCovered`** is inductive by itself: a consumption closes one
  reservation, not larger than what it takes, and a stale cancellation only
  lowers the sum.
- **The books** (stockroom). `Balanced` and the refinement are proved for the
  two mixes of requests for which they hold. Technicians and planners: with
  `LockInv` each commit is one `Consume` of the ledger, and what the ledger's
  steps keep (`BooksStayBalanced`) is balance. Clerks and planners: the level is
  read without a lock, so balance rests on who may be at a level at all.
  `ShelfInv` says that the shelf is the opening stock and what was credited
  (`Stocked`); that a level nobody holds has no uncommitted credits
  (`FreeLevels`); that who holds one works on the order its lines are of, and
  its uncommitted quantity has that order's uncommitted credits (`HeldLevels`);
  and that a quantity read and not used yet is still the right one
  (`LevelsRead`). It needs `OneOrderEach`, that the lines for one level are of
  one order: the lock of the order is then the lock that the level lacks. For
  two orders on one level, or a technician beside a clerk, a receipt erases what
  was committed since it read (`lost_update`); for a deleted line, the credit
  comes twice. Opening stock, quantities, forms and the number of requests are
  arbitrary.
- **`Sums`** has what those proofs need of `SumFunctionOnSet`: an element taken
  out, put in or changed, equal and ordered summands, zeros. The library's
  recursion and induction theorems take an operator and cannot be used, so each
  fact is proved by a smallest counterexample: among the subsets of a finite set
  for which it fails there is one with no smaller in it (`Smallest`, from the
  library's well-foundedness of strict inclusion). The function behind the sum
  is shown to exist the same way (`StageExists`).
- **`RunsInv`** (generator): every row a run has locked is held by it and
  active, its copy is the row until it has advanced it, and nothing it has made
  is in what it still has to do. **`TriggerInv`** adds that targets only rise
  (`RisingInv`: while a run advances a schedule, one of the two targets is behind;
  once it is done, the date is past the run's and one of the two has
  moved) and that every work order's targets are passed by those of the row and
  of every later work order (`PassedInv`). Two work orders with the same targets
  would have passed themselves. Without editors, because a stale form lowers
  targets (section 5). Assumed: `PMAssumption` (days, intervals, meter
  intervals and bounds are natural numbers; an interval of 0 is allowed) and
  `NoPlanAssumption`, that the stand-in for a missing row is not a row.
- **`AnswerInv`** (generator) is what the refinement needs: what a run has made
  of a schedule so far is on the way to what the promise asks for. For each one
  it has made a work order of, there is a reading on record (or none) by which
  the locked row is due, the targets of its copy are whole intervals on from the
  row's, none of them superfluous (`MovesOn`: one more pass of a loop keeps that),
  and once the run has moved on to another schedule they lie ahead. `OnRecord`
  keeps the reading that the run sees among those on record. Here no assumption
  on editors is needed: a stale form may arm a schedule again, which is why
  `EachTriggerOnce` fails with them, but it waits for a locked row, so every run
  still does what the row called for when it was locked. An interval of 0 is no
  exception, as a run that never ends its loop never commits.
- **`ToldInv`** (work orders). Rows held by requests may be written later, so
  it also speaks of them: a mail to an assignee in memory was tried, or the
  assignee is still being typed, or the save has found the assignment changed
  and will mail. A phone only ever carries an assignee who was on record.
- **`StampInv`**: past `ReadPrevious`, every row in memory is stamped.
  **`SnapshotInv`**: every request on an existing ticket carries its snapshot,
  and one that does not exist yet has a single request. **`Opened`**: a form is
  of an existing ticket. These need `NoRowAssumption`, that the stand-in for a
  missing row is not a row.
- **`AccountInv`** (status log). That every status on record was logged is not
  inductive: a save whose status equals the one it has read logs nothing, and
  writes it back over whatever the row has by then. So every status that a save
  has read to compare with is accounted for too: it has a line, or a phone owes
  it one, or died with it. Saves overlap in any number and die anywhere.
  **`HadInv`** is the other half: what saves compare with, and what phones have
  written and not logged yet, was on record.
- **`ApprovalInv`**, **`LockInv`** (permits): rows on forms carry supervisors'
  approvals only, and only supervisors' UPDATEs run; who is about to commit a
  row holds it. **`UnawareInv`**: an UPDATE that has an approved permit still
  before it, or has locked one, and a form that carries another approver than
  the row, began before the approval was on record; and whoever has *locked* an
  approved permit is not one of the `Unscoped`, who look again. An approval by
  a supervisor of some sites, or a form, can so replace only what it never saw.
- **`LogInv`**, **`SavesInv`** (oversight): a log that is not empty has a first
  start, and none of the future; a save has stamped its line by now, and its
  work order exists. **`ReaderInv`**: of the rows checked so far, all that are
  late by everything on record were judged to be, and all that were judged to be
  are late by what was on record when the rows were read, all of which still is.
  It is inductive because the log only grows, and more of it, or an earlier
  hour, only makes less late (`LateStays`). Assumed: `OversightAssumption`
  (targets are natural numbers or absent, finitely many work orders).
- **`RoleInv`** (roles): besides the two properties, no migration is on record
  without those it needs. Assumed of the table, and evaluated on the
  repository's: a migration that grants to a group founds it or strips its
  models on the way back, and one that revokes depends on every migration that
  grants the same.
- **`BehindIsThere`** (roles): migrations that have what they need have all that
  is behind them, which is what a migration that is ready relies on when it
  looks permissions up. `Behind` is a recursive function, so that there is one
  is proved (`BehindStep`, by the least complete sets `Least`), and what it has at
  most is proved by a smallest counterexample. Assumed, and evaluated on the
  repository's table (`PlanAssumption`): finitely many migrations, none behind
  itself, and each permission looked up is on a model that the migration itself
  waits for. **`GuardInv`** adds that groups founded are there, as long as
  nothing is undone: a grant whose migration waits for the one that founds its
  group is held. Of the finding `fresh_install` this says that only the grants
  without such a dependency can be lost.
- **`PhoneInv`** (phone) says of every request under way and every answer not
  heard yet what the properties say of the screen. `Captured`: a request that is
  heard finds what its handler captured when it was sent. `Flagging`: every
  shortage told, flag sent and flag offered is of a ticket in `short`. `Counted`:
  the successes told and on their way are at most the bookings, and bookings and
  booking requests together at most the taps. `Suits`: what goes with a request
  is what its operation takes, which the server's rows need to keep their types.
  **`Kept`** is about those rows: a booking takes from the location where it found
  enough, and every tap that books is one of the posts. Assumed:
  `ApiAssumption` (an id is that of one location, `Opening` and ids are natural
  numbers) and `PhoneAssumption` (finitely many requests under way; quantities
  are natural numbers, as the serializer's `min_value=1` refuses the others).

Only model-checked:

- liveness (`PostsEnd`, `ScansEnd`, `EveryDueIsServed`, `EveryWaitEnds`): out of
  the prover's reach, as is anything with ENABLED;
- `RolesAsDocumented`, `LogTellsStatus`, `ApprovalStands`, `Balanced` and
  `BookedFromChosen` where they fail: that is what the five runs of section 5
  are for.

## 9. Not modelled, and why

- Login, single sign-on, attachments, QR codes, the search: framework calls and
  read-only queries, no state the rest depends on.
- Reporting apart from the SLA counts (backlog, mean times, costs, downtime,
  compliance), and the digest's low-stock mail: one query each over rows of one
  moment; a unit test says all there is to say of them.
- Labour rows, certifications, shifts, hand-over notes, incident reports: plain
  inserts and edits that no other code reads. Comments and checklist answers
  are in `MobileApi`, as far as the app shows them.
- Moving a purchase order line to another part, or an order to another
  location, after it was received: the model's lines have one level. The code
  credits later deltas to the new level.
- Deleting permits, work orders and schedules.
- The service worker of the app: it keeps the app's files and no answer of the
  API.
- Text, ordering of lists, page layout, translations; schema migrations, except
  for the order they impose on the data migrations.

## 10. Plan

Done, in this order: `StockLedger`, `Inventory`, `WorkOrders`, `PMSchedules`,
`Permits`, `RoleMigrations`, `MobileApi` and `Phone`, `Oversight`,
`Maintenance`, `TicketHistory`, and the proofs of section 8.

Next, by importance:

1. The app and the server beside each other: what `PhoneInv` says of one phone,
   for several.
2. The low-stock mail beside the stockroom: what is at its threshold when a
   mail leaves.
