----------------------------- MODULE WorkOrders -----------------------------
(* Work orders (src/backend/workorders): WorkOrder.save, which every form    *)
(* and every API view ends in, run by requests that overlap.                 *)
(*                                                                           *)
(* Phones post a status, or report a new ticket; each of their statements is *)
(* a transaction of its own.  Desks use the admin's add and change forms,    *)
(* whose POST is one transaction.  Either way save() reads the previous row, *)
(* writes the whole row it has in memory, adds a line to the status log if   *)
(* the status differs, and tries to mail the assignee if the assignment does.*)
(* assigned_to and assigned_team are one assignee here, and actual_open_time *)
(* is left out: it is filled in like actual_close_time.                      *)
EXTENDS Integers, Sequences, SequencesExt

CONSTANTS Tickets,           \* the primary keys work orders may get
          Statuses,          \* the statuses people choose from
          People,            \* whom a work order can be assigned to
          Reachable,         \* those of them with an e-mail address, or a
                             \* member who has one; addresses stay as they are
          Typed,             \* what people make of a closing time
          NoOne,             \* the assignee of an unassigned work order
          Phones, Desks,     \* requests: without, and with, a transaction
          Nobody,            \* the holder of an unlocked row
          NoRow,             \* a work order that does not exist
          PhonesCrash,       \* whether a phone's request may die half way
          MaxConfigurations, \* bound: configurations the asset goes through
          MaxLog             \* bound: lines in a work order's status log

Requests == Phones \cup Desks

ASSUME WorkOrdersAssumption ==
    /\ "OPEN" \in Statuses /\ "new" \notin Statuses
    /\ NoOne \notin People /\ Reachable \subseteq People
    /\ Typed \subseteq {"blank", "typed"}
    /\ Nobody \notin Requests
    /\ Phones \cap Desks = {}
    /\ PhonesCrash \in BOOLEAN
    /\ MaxConfigurations \in Nat /\ MaxLog \in Nat

VARIABLES
    ticket,        \* the committed row of each work order
    holder,        \* the transaction that has updated it and not committed
    log,           \* its committed WorkOrderStatusChange rows
    told,          \* the people mailed about its assignment
    undelivered,   \* those a mail to whom failed, by the server's own log
    request,       \* the requests in progress
    configuration  \* the asset's current configuration; 0: none yet

vars == <<ticket, holder, log, told, undelivered, request, configuration>>

CloseTimes == {"blank", "auto", "typed"}
Row == [status : Statuses, assignee : People \cup {NoOne}, snapshot : Nat,
        closedAt : BOOLEAN, closeTime : CloseTimes]
NewRow(st, a, time) == [status |-> st, assignee |-> a, snapshot |-> 0,
                        closedAt |-> FALSE, closeTime |-> time]

ASSUME NoRowAssumption == NoRow \notin Row

IdleRequest == [pc |-> "idle"]
Idle(r) == request[r].pc = "idle"
(* row is the object in memory, previous the row save() compares it with.    *)
Saving(w, row) == [pc |-> "read", ticket |-> w, row |-> row, previous |-> NoRow]

Init == /\ ticket = [w \in Tickets |-> NoRow]
        /\ holder = [w \in Tickets |-> Nobody]
        /\ log = [w \in Tickets |-> <<>>]
        /\ told = [w \in Tickets |-> {}]
        /\ undelivered = [w \in Tickets |-> {}]
        /\ request = [r \in Requests |-> IdleRequest]
        /\ configuration = 0

-----------------------------------------------------------------------------
(* How requests begin *)

Unclaimed(w) == ticket[w] = NoRow /\ \A r \in Requests : ~Idle(r) => request[r].ticket # w

(* report_issue and portal_report_issue: an open ticket, assigned to nobody. *)
Report(p, w) ==
    /\ Idle(p)
    /\ Unclaimed(w)
    /\ request' = [request EXCEPT ![p] = Saving(w, NewRow("OPEN", NoOne, "blank"))]
    /\ UNCHANGED <<ticket, holder, log, told, undelivered, configuration>>

(* WorkOrderStatusUpdateView loads the row and sets one field of it.         *)
UpdateStatus(p, w, st) ==
    /\ Idle(p)
    /\ ticket[w] # NoRow
    /\ Len(log[w]) < MaxLog
    /\ request' = [request EXCEPT ![p] = Saving(w, [ticket[w] EXCEPT !.status = st])]
    /\ UNCHANGED <<ticket, holder, log, told, undelivered, configuration>>

(* The admin's add form. *)
AddForm(d, w, st, a, time) ==
    /\ Idle(d)
    /\ Unclaimed(w)
    /\ request' = [request EXCEPT ![d] = Saving(w, NewRow(st, a, time))]
    /\ UNCHANGED <<ticket, holder, log, told, undelivered, configuration>>

(* The admin's change form, as rendered ...                                  *)
OpenForm(d, w) ==
    /\ Idle(d)
    /\ ticket[w] # NoRow
    /\ Len(log[w]) < MaxLog
    /\ request' = [request EXCEPT ![d] = [Saving(w, ticket[w]) EXCEPT !.pc = "form"]]
    /\ UNCHANGED <<ticket, holder, log, told, undelivered, configuration>>

(* ... and as posted: the fields of the form as its user leaves them, over   *)
(* the read-only ones as the row has them now.                               *)
SubmitForm(d, st, a, time) ==
    LET w == request[d].ticket IN
    /\ request[d].pc = "form"
    /\ time \in Typed \cup {request[d].row.closeTime}
    /\ request' = [request EXCEPT ![d] = Saving(w,
            [ticket[w] EXCEPT !.status = st, !.assignee = a, !.closeTime = time])]
    /\ UNCHANGED <<ticket, holder, log, told, undelivered, configuration>>

-----------------------------------------------------------------------------
(* WorkOrder.save *)

IsNew(r) == request[r].previous = NoRow

(* Closing stamps the row, once each.                                        *)
(* Mutant: one check for both stamps.                                        *)
Stamped_Together(row) ==
    IF row.status # "CLOSED" \/ row.closedAt THEN row
    ELSE [row EXCEPT !.closedAt = TRUE,
                     !.closeTime = IF @ = "blank" THEN "auto" ELSE @]
Stamped(row) ==
    IF row.status # "CLOSED" THEN row
    ELSE [row EXCEPT !.closedAt = TRUE,
                     !.closeTime = IF @ = "blank" THEN "auto" ELSE @]

(* The configuration is taken when the row is new.  Mutant: or while it has  *)
(* none.                                                                     *)
WithSnapshot_WhenMissing(row, previous) ==
    IF row.snapshot = 0 THEN [row EXCEPT !.snapshot = configuration] ELSE row
WithSnapshot(row, previous) ==
    IF previous = NoRow THEN [row EXCEPT !.snapshot = configuration] ELSE row

(* The previous row is read without a lock. *)
ReadPrevious(r) ==
    LET previous == ticket[request[r].ticket] IN
    /\ request[r].pc = "read"
    /\ request' = [request EXCEPT ![r].pc = "write", ![r].previous = previous,
                                  ![r].row = Stamped(WithSnapshot(@, previous))]
    /\ UNCHANGED <<ticket, holder, log, told, undelivered, configuration>>

(* super().save: every field of the object, over whatever the row holds.  A  *)
(* desk's row is locked, and unseen by others, until it commits.             *)
WriteRow(r) ==
    LET w == request[r].ticket IN
    /\ request[r].pc = "write"
    /\ holder[w] = Nobody
    /\ \/ r \in Phones /\ ticket' = [ticket EXCEPT ![w] = request[r].row] /\ UNCHANGED holder
       \/ r \in Desks /\ holder' = [holder EXCEPT ![w] = r] /\ UNCHANGED ticket
    /\ request' = [request EXCEPT ![r].pc = "log"]
    /\ UNCHANGED <<log, told, undelivered, configuration>>

(* Mutant: only new work orders are logged.                                  *)
StatusChanged_NewOnly(r) == IsNew(r)
StatusChanged(r) == IsNew(r) \/ request[r].previous.status # request[r].row.status
LogEntry(r) == [from |-> IF IsNew(r) THEN "new" ELSE request[r].previous.status,
                to |-> request[r].row.status]
Logged(r) == LET w == request[r].ticket IN
    IF StatusChanged(r) THEN [log EXCEPT ![w] = Append(@, LogEntry(r))] ELSE log

(* A phone's line of the log is committed at once, a desk's with the rest.   *)
(* Mutant: a desk's is not in its transaction.                               *)
LogChange_AtOnce(r) ==
    /\ request[r].pc = "log"
    /\ log' = Logged(r)
    /\ request' = [request EXCEPT ![r].pc = "notify"]
    /\ UNCHANGED <<ticket, holder, told, undelivered, configuration>>
LogChange(r) ==
    /\ request[r].pc = "log"
    /\ log' = IF r \in Phones THEN Logged(r) ELSE log
    /\ request' = [request EXCEPT ![r].pc = "notify"]
    /\ UNCHANGED <<ticket, holder, told, undelivered, configuration>>

(* Mutant: only new work orders are announced.                               *)
AssignmentChanged_NewOnly(r) == IsNew(r)
AssignmentChanged(r) == IsNew(r) \/ request[r].previous.assignee # request[r].row.assignee

(* Mutant: blank addresses are not left out.                                 *)
Recipients_BlankToo(r) ==
    IF AssignmentChanged(r) THEN {request[r].row.assignee} \ {NoOne} ELSE {}
Recipients(r) ==
    IF AssignmentChanged(r) THEN {request[r].row.assignee} \cap Reachable ELSE {}

(* notify_work_order_assigned: the mail leaves before a desk's commit.  If   *)
(* sending it fails, the failure is logged and the save goes on.             *)
Notify(r) ==
    LET w == request[r].ticket IN
    /\ request[r].pc = "notify"
    /\ \/ told' = [told EXCEPT ![w] = @ \cup Recipients(r)] /\ UNCHANGED undelivered
       \/ undelivered' = [undelivered EXCEPT ![w] = @ \cup Recipients(r)] /\ UNCHANGED told
    /\ request' = [request EXCEPT ![r] = IF r \in Phones THEN IdleRequest
                                         ELSE [request[r] EXCEPT !.pc = "commit"]]
    /\ UNCHANGED <<ticket, holder, log, configuration>>

-----------------------------------------------------------------------------
(* How requests end *)

Unlock(d) == holder' = [w \in Tickets |-> IF holder[w] = d THEN Nobody ELSE holder[w]]

Commit(d) ==
    LET w == request[d].ticket IN
    /\ request[d].pc = "commit"
    /\ ticket' = [ticket EXCEPT ![w] = request[d].row]
    /\ log' = Logged(d)
    /\ Unlock(d)
    /\ request' = [request EXCEPT ![d] = IdleRequest]
    /\ UNCHANGED <<told, undelivered, configuration>>

(* A worker dies or the request fails: a desk's is rolled back, a phone's    *)
(* stops where it is.  A form may also just be left.                         *)
Crash(r) ==
    /\ ~Idle(r)
    /\ r \in Phones => PhonesCrash
    /\ Unlock(r)
    /\ request' = [request EXCEPT ![r] = IdleRequest]
    /\ UNCHANGED <<ticket, log, told, undelivered, configuration>>

(* The asset is given another configuration version. *)
Reconfigure ==
    /\ configuration < MaxConfigurations
    /\ configuration' = configuration + 1
    /\ UNCHANGED <<ticket, holder, log, told, undelivered, request>>

SaveStep(r) == ReadPrevious(r) \/ WriteRow(r) \/ LogChange(r) \/ Notify(r)

PhoneNext(p) == \/ \E w \in Tickets : Report(p, w)
                \/ \E w \in Tickets, st \in Statuses : UpdateStatus(p, w, st)

DeskNext(d) ==
    \/ \E w \in Tickets, st \in Statuses, a \in People \cup {NoOne}, time \in Typed :
           AddForm(d, w, st, a, time)
    \/ \E w \in Tickets : OpenForm(d, w)
    \/ \E st \in Statuses, a \in People \cup {NoOne}, time \in CloseTimes : SubmitForm(d, st, a, time)
    \/ Commit(d)

Next == \/ \E p \in Phones : PhoneNext(p)
        \/ \E d \in Desks : DeskNext(d)
        \/ \E r \in Requests : SaveStep(r) \/ Crash(r)
        \/ Reconfigure

Spec == Init /\ [][Next]_vars

-----------------------------------------------------------------------------
(* Properties *)

BusyRequest == [pc : {"form", "read", "write", "log", "notify", "commit"}, ticket : Tickets,
                row : Row, previous : Row \cup {NoRow}]
Entry == [from : Statuses \cup {"new"}, to : Statuses]

(* The values every variable ranges over. *)
TypeOK == /\ ticket \in [Tickets -> Row \cup {NoRow}]
          /\ holder \in [Tickets -> Desks \cup {Nobody}]
          /\ log \in [Tickets -> Seq(Entry)]
          /\ told \in [Tickets -> SUBSET Reachable]
          /\ undelivered \in [Tickets -> SUBSET Reachable]
          /\ request \in [Requests -> {IdleRequest} \cup BusyRequest]
          /\ configuration \in 0..MaxConfigurations

(* The mail is "a courtesy here, not a transactional guarantee"              *)
(* (notifications.py), so not whoever is assigned was told.  But nobody with *)
(* an address is passed over in silence: they were mailed, or a mail to them *)
(* failed and is on the server's log, although save() compares with a row    *)
(* that may be stale and stale rows are written back (WorkOrder.save).       *)
AssigneeWasMailed == \A w \in Tickets :
    ticket[w] # NoRow /\ ticket[w].assignee \in Reachable =>
        ticket[w].assignee \in told[w] \cup undelivered[w]

(* A closed work order has both of its closing times, whatever was blanked   *)
(* by hand or written back stale (models.py, WorkOrder.save).                *)
ClosedIsStamped == \A w \in Tickets :
    ticket[w] # NoRow /\ ticket[w].status = "CLOSED" =>
        ticket[w].closedAt /\ ticket[w].closeTime # "blank"

(* The configuration a work order was made under is "snapshotted ... at      *)
(* creation time and never changed afterward" (models.py).                   *)
SnapshotFrozen ==
    [][\A w \in Tickets : ticket[w] # NoRow =>
          ticket'[w] # NoRow /\ ticket'[w].snapshot = ticket[w].snapshot]_vars

(* The status log is an unbroken account of how a work order got the status  *)
(* it has, except while a save is between its row and its log line.          *)
LoggingOn(w) == \E p \in Phones : request[p].pc = "log" /\ request[p].ticket = w
LogTellsStatus == \A w \in Tickets : ticket[w] # NoRow /\ ~LoggingOn(w) =>
    /\ log[w] # <<>>
    /\ log[w][1].from = "new"
    /\ \A i \in 2..Len(log[w]) : log[w][i].from = log[w][i - 1].to
    /\ Last(log[w]).to = ticket[w].status
=============================================================================
