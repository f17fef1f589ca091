----------------------------- MODULE Inventory -----------------------------
(* The stockroom of src/backend/inventory: stock levels, consumption by      *)
(* barcode scan, purchase orders and their receiving, and reservations, with *)
(* the requests that touch them running concurrently.                        *)
(*                                                                           *)
(* Technicians run consume_stock: a transaction that locks the StockLevel.   *)
(* Clerks POST the purchase order change form; the admin runs the whole POST *)
(* in one transaction, whose row locks are those its UPDATEs take.           *)
(* Stocktakers save the StockLevel change form, which carries the quantity   *)
(* shown when the page was rendered.  Planners call reserve_stock and        *)
(* cancel_reservation.  The database is PostgreSQL under READ COMMITTED: a   *)
(* plain read sees committed rows, or the reader's own uncommitted ones, and *)
(* never waits; an UPDATE or a SELECT FOR UPDATE waits for the row's holder. *)
EXTENDS Integers, Sequences, FiniteSets, Functions

CONSTANTS Levels,          \* possible StockLevel rows: (spare part, location)
          Orders,          \* purchase orders
          Lines,           \* purchase order lines, by primary key
          OrderOf,         \* the order of each line
          LevelOf,         \* the level a line's part goes to, at its order's location
          WorkOrders,
          Technicians, Clerks, Stocktakers, Planners,
          Nobody,          \* the holder of an unlocked row
          Opening,         \* the quantity each level starts with
          Quantities,      \* the quantities people type
          HandStatuses,    \* the statuses users select on the order form
          Deletable,       \* the lines users may delete from an order
          MaxUsed,         \* bound: units ever taken from, or corrected on, a level
          MaxReservations  \* bound: reservations ever made

Statuses == {"DRAFT", "ORDERED", "PARTIALLY_RECEIVED", "RECEIVED", "CANCELLED"}

ASSUME InventoryAssumption ==
    /\ Lines \subseteq Nat
    /\ OrderOf \in [Lines -> Orders]
    /\ LevelOf \in [Lines -> Levels]
    /\ Quantities \subseteq Nat
    /\ Opening \in [Levels -> Nat]
    /\ HandStatuses \subseteq Statuses
    /\ Deletable \subseteq Lines
    /\ MaxUsed \in Nat /\ MaxReservations \in Nat
    /\ Nobody \notin Technicians \cup Clerks
    /\ Technicians \cap Clerks = {}
    /\ IsFiniteSet(Lines)

VARIABLES
    rows,           \* the levels whose row exists (committed)
    onHand,         \* committed quantity_on_hand; 0 for a missing row
    levelHolder,    \* the transaction that locks, or has inserted, a level
    pendingOnHand,  \* the uncommitted quantity of the holder, if it is a clerk
    status,         \* committed status of each order
    line,           \* committed order lines
    orderHolder,    \* the transaction that locks an order
    pendingStatus,  \* the status as its holder sees it: committed if unlocked
    pendingLine,    \* the lines as the holder of their order sees them
    reservations,   \* StockReservation rows, oldest first
    technician, clerk, stocktaker, planner,   \* the requests in progress
    used,           \* units taken from each level, all usage rows together
    usedFor,        \* the same by work order
    adjusted,       \* what stocktakers meant to add to or take off a level
    credited,       \* what the saves of a line added to stock, committed
    pendingCredited \* and not yet committed

levelVars == <<rows, onHand, levelHolder, pendingOnHand>>
orderVars == <<status, line, orderHolder, pendingStatus, pendingLine, credited, pendingCredited>>
usageVars == <<used, usedFor>>
vars == <<levelVars, orderVars, usageVars, reservations, adjusted,
          technician, clerk, stocktaker, planner>>

-----------------------------------------------------------------------------
(* Rows and requests *)

LineRow == [state : {"unsaved", "saved", "deleted"}, ordered : Nat, received : Nat]
Entry == [op : {"keep", "save", "delete"}, ordered : Nat, received : Nat]
Keep == [op |-> "keep", ordered |-> 0, received |-> 0]
Delete == [op |-> "delete", ordered |-> 0, received |-> 0]
Save(ordered, received) == [op |-> "save", ordered |-> ordered, received |-> received]

LinesOf(o) == {ln \in Lines : OrderOf[ln] = o}

IdleTechnician == [pc |-> "idle"]
IdleClerk == [pc |-> "idle"]
IdleStocktaker == [pc |-> "idle"]
NothingLoaded == 0

Init ==
    /\ rows = {l \in Levels : Opening[l] > 0}
    /\ onHand = Opening
    /\ levelHolder = [l \in Levels |-> Nobody]
    /\ pendingOnHand = [l \in Levels |-> 0]
    /\ status \in [Orders -> {"DRAFT", "ORDERED"} \cap HandStatuses]
    /\ line = [ln \in Lines |-> [state |-> "unsaved", ordered |-> 0, received |-> 0]]
    /\ orderHolder = [o \in Orders |-> Nobody]
    /\ pendingStatus = status
    /\ pendingLine = line
    /\ reservations = <<>>
    /\ technician = [t \in Technicians |-> IdleTechnician]
    /\ clerk = [c \in Clerks |-> IdleClerk]
    /\ stocktaker = [s \in Stocktakers |-> IdleStocktaker]
    /\ planner = [p \in Planners |-> NothingLoaded]
    /\ used = [l \in Levels |-> 0]
    /\ usedFor = [l \in Levels |-> [w \in WorkOrders |-> 0]]
    /\ adjusted = [l \in Levels |-> 0]
    /\ credited = [ln \in Lines |-> 0]
    /\ pendingCredited = credited

-----------------------------------------------------------------------------
(* consume_stock: lock the level, check it, then take the units, write the   *)
(* usage row and close the oldest reservation it covers, and commit.         *)

Scan(t, l, w, q) ==
    /\ technician[t].pc = "idle"
    /\ used[l] < MaxUsed
    /\ technician' = [technician EXCEPT ![t] =
            [pc |-> "lock", level |-> l, workOrder |-> w, quantity |-> q, seen |-> 0]]
    /\ UNCHANGED <<levelVars, orderVars, usageVars, reservations, adjusted,
                   clerk, stocktaker, planner>>

(* select_for_update returns the row once nobody else holds it. *)
(* Mutant: a plain get(). *)
RowGranted_Always(l) == TRUE
RowGranted(l) == levelHolder[l] = Nobody

(* Mutant: the shelf is not checked. *)
Enough_Always(r) == TRUE
Enough(r) == onHand[r.level] >= r.quantity

LockLevel(t) ==
    LET r == technician[t] IN
    /\ r.pc = "lock"
    /\ r.level \in rows
    /\ RowGranted(r.level)
    /\ Enough(r)
    /\ levelHolder' = [levelHolder EXCEPT ![r.level] = t]
    /\ technician' = [technician EXCEPT ![t].pc = "write", ![t].seen = onHand[r.level]]
    /\ UNCHANGED <<rows, onHand, pendingOnHand, orderVars, usageVars, reservations,
                   adjusted, clerk, stocktaker, planner>>

(* No such level, or not enough on it: the request fails and changes nothing. *)
RefuseScan(t) ==
    LET r == technician[t] IN
    /\ r.pc = "lock"
    /\ \/ r.level \notin rows
       \/ RowGranted(r.level) /\ ~Enough(r)
    /\ technician' = [technician EXCEPT ![t] = IdleTechnician]
    /\ UNCHANGED <<levelVars, orderVars, usageVars, reservations, adjusted,
                   clerk, stocktaker, planner>>

(* Mutant: any open reservation of the job is closed. *)
Coverable_AnyQuantity(r) == {i \in DOMAIN reservations :
    /\ reservations[i].status = "RESERVED"
    /\ reservations[i].level = r.level
    /\ reservations[i].workOrder = r.workOrder}
(* The reservations a consumption may close. *)
Coverable(r) == {i \in DOMAIN reservations :
    /\ reservations[i].status = "RESERVED"
    /\ reservations[i].level = r.level
    /\ reservations[i].workOrder = r.workOrder
    /\ reservations[i].quantity <= r.quantity}

Fulfil(i) == [reservations EXCEPT ![i].status = "FULFILLED"]

FulfilOldest(r) ==
    \/ Coverable(r) = {} /\ UNCHANGED reservations
    \/ \E i \in Coverable(r) : /\ \A j \in Coverable(r) : i <= j
                              /\ reservations' = Fulfil(i)

(* Mutant: one unit is taken, however many were asked for. *)
Remaining_OneLess(r) == r.seen - 1
Remaining(r) == r.seen - r.quantity

CommitConsumption(t) ==
    LET r == technician[t] IN
    /\ r.pc = "write"
    /\ onHand' = [onHand EXCEPT ![r.level] = Remaining(r)]
    /\ used' = [used EXCEPT ![r.level] = @ + r.quantity]
    /\ usedFor' = [usedFor EXCEPT ![r.level][r.workOrder] = @ + r.quantity]
    /\ FulfilOldest(r)
    /\ levelHolder' = [levelHolder EXCEPT ![r.level] = Nobody]
    /\ technician' = [technician EXCEPT ![t] = IdleTechnician]
    /\ UNCHANGED <<rows, pendingOnHand, orderVars, adjusted, clerk, stocktaker, planner>>

(* An exception or a crash inside the transaction rolls it back. *)
(* Mutant: the failed transaction keeps its lock. *)
Unlock_Never(t) == levelHolder' = levelHolder
Unlock(t) == levelHolder' = [levelHolder EXCEPT ![technician[t].level] = Nobody]

AbortConsumption(t) ==
    /\ technician[t].pc = "write"
    /\ Unlock(t)
    /\ technician' = [technician EXCEPT ![t] = IdleTechnician]
    /\ UNCHANGED <<rows, onHand, pendingOnHand, orderVars, usageVars, reservations,
                   adjusted, clerk, stocktaker, planner>>

-----------------------------------------------------------------------------
(* The purchase order change form.  The form carries a status and, for each  *)
(* line of the order, quantities, a deletion mark, or nothing new.           *)

Idle(c) == clerk[c].pc = "idle"

(* A new line gets a primary key nobody else has. *)
Unclaimed(ln) == \A d \in Clerks : ~Idle(d) => clerk[d].entries[ln].op = "keep"

Post(c, o, st, entries) ==
    /\ Idle(c)
    /\ \A ln \in Lines :
         /\ OrderOf[ln] # o => entries[ln] = Keep
         /\ entries[ln].op = "delete" => line[ln].state = "saved" /\ ln \in Deletable
         /\ entries[ln].op = "save" => \/ line[ln].state = "saved"
                                       \/ line[ln].state = "unsaved" /\ Unclaimed(ln)
    /\ clerk' = [clerk EXCEPT ![c] = [pc |-> "model", order |-> o, status |-> st,
                                      entries |-> entries, line |-> 0, delta |-> 0, seen |-> 0]]
    /\ UNCHANGED <<levelVars, orderVars, usageVars, reservations, adjusted,
                   technician, stocktaker, planner>>

(* Mutant: an UPDATE that does not wait. *)
OrderGranted_Always(o) == TRUE
OrderGranted(o) == orderHolder[o] = Nobody

(* save_model updates the order's row, all of it, and so locks it until the  *)
(* transaction ends: from here on no other POST can touch its lines.         *)
SaveModel(c) ==
    LET o == clerk[c].order IN
    /\ clerk[c].pc = "model"
    /\ OrderGranted(o)
    /\ orderHolder' = [orderHolder EXCEPT ![o] = c]
    /\ pendingStatus' = [pendingStatus EXCEPT ![o] = clerk[c].status]
    /\ clerk' = [clerk EXCEPT ![c].pc = "lines"]
    /\ UNCHANGED <<status, line, pendingLine, credited, pendingCredited, levelVars,
                   usageVars, reservations, adjusted, technician, stocktaker, planner>>

(* The formset handles existing lines by primary key, then the new ones. *)
IsNew(ln) == pendingLine[ln].state = "unsaved"
Before(a, b) == IF IsNew(a) = IsNew(b) THEN a < b ELSE IsNew(b)
ToHandle(c) == {ln \in Lines : clerk[c].entries[ln].op # "keep"}
IsNext(c, ln) == /\ clerk[c].pc = "lines"
                 /\ ln \in ToHandle(c)
                 /\ \A k \in ToHandle(c) \ {ln} : Before(ln, k)

(* What the line's row says was received so far: nothing if there is no row. *)
PreviousReceived(ln) ==
    IF pendingLine[ln].state = "saved" THEN pendingLine[ln].received ELSE 0

(* PurchaseOrder.refresh_status: the status the lines of order o call for.   *)
(* Mutant, below: it is not called.                                          *)
RolledUp(o, st, rowOf) ==
    LET saved == {ln \in LinesOf(o) : rowOf[ln].state = "saved"} IN
    IF st \in {"DRAFT", "CANCELLED"} \/ saved = {} THEN st
    ELSE IF \A ln \in saved : rowOf[ln].received >= rowOf[ln].ordered THEN "RECEIVED"
    ELSE IF \E ln \in saved : rowOf[ln].received > 0 THEN "PARTIALLY_RECEIVED"
    ELSE "ORDERED"

Refreshed_Never(o, rowOf) == pendingStatus
Refreshed(o, rowOf) == [pendingStatus EXCEPT ![o] = RolledUp(o, @, rowOf)]

(* What PurchaseOrderLine.save accepts: not more than was ordered, and not   *)
(* less than was received before.  Mutant: less is accepted.                 *)
Acceptable_Less(ln, e) == e.received <= e.ordered
Acceptable(ln, e) == e.received <= e.ordered /\ e.received >= PreviousReceived(ln)

(* PurchaseOrderLine.save up to its own row.  A row that is gone is inserted *)
(* again.  With nothing new to put on the shelf the order is rolled up now.  *)
SaveLine(c, ln) ==
    LET e == clerk[c].entries[ln]
        delta == e.received - PreviousReceived(ln)
        after == [pendingLine EXCEPT ![ln] =
                    [state |-> "saved", ordered |-> e.ordered, received |-> e.received]]
    IN
    /\ IsNext(c, ln)
    /\ e.op = "save"
    /\ Acceptable(ln, e)
    /\ pendingLine' = after
    /\ pendingStatus' = IF delta = 0 THEN Refreshed(clerk[c].order, after) ELSE pendingStatus
    /\ clerk' = [clerk EXCEPT ![c] = [@ EXCEPT !.pc = IF delta = 0 THEN "lines" ELSE "read",
                                               !.entries = [clerk[c].entries EXCEPT ![ln] = Keep],
                                               !.line = ln, !.delta = delta]]
    /\ UNCHANGED <<status, line, orderHolder, credited, pendingCredited, levelVars,
                   usageVars, reservations, adjusted, technician, stocktaker, planner>>

DeleteLine(c, ln) ==
    /\ IsNext(c, ln)
    /\ clerk[c].entries[ln].op = "delete"
    /\ pendingLine' = [pendingLine EXCEPT ![ln].state = "deleted"]
    /\ clerk' = [clerk EXCEPT ![c].entries[ln] = Keep]
    /\ UNCHANGED <<status, line, orderHolder, pendingStatus, credited, pendingCredited,
                   levelVars, usageVars, reservations, adjusted, technician, stocktaker, planner>>

(* get_or_create reads the level without a lock; it waits only for a row     *)
(* another transaction has inserted and not committed.  A row it creates is  *)
(* its own until it commits.                                                 *)
ReadLevel(c) ==
    LET l == LevelOf[clerk[c].line] IN
    /\ clerk[c].pc = "read"
    /\ \/ /\ l \in rows \/ levelHolder[l] = c
          /\ UNCHANGED <<levelHolder, pendingOnHand>>
       \/ /\ l \notin rows
          /\ levelHolder[l] = Nobody
          /\ levelHolder' = [levelHolder EXCEPT ![l] = c]
          /\ pendingOnHand' = [pendingOnHand EXCEPT ![l] = 0]
    /\ clerk' = [clerk EXCEPT ![c].pc = "credit",
                              ![c].seen = IF levelHolder[l] = c THEN pendingOnHand[l] ELSE onHand[l]]
    /\ UNCHANGED <<rows, onHand, orderVars, usageVars, reservations, adjusted,
                   technician, stocktaker, planner>>

(* Mutant: the cumulative count is added instead of the delta. *)
NewQuantity_Total(c) == clerk[c].seen + pendingLine[clerk[c].line].received
NewQuantity(c) == clerk[c].seen + clerk[c].delta

(* The level is saved with the quantity read plus the delta, and the order   *)
(* is rolled up.                                                             *)
CreditLevel(c) ==
    LET l == LevelOf[clerk[c].line] IN
    /\ clerk[c].pc = "credit"
    /\ levelHolder[l] \in {Nobody, c}
    /\ levelHolder' = [levelHolder EXCEPT ![l] = c]
    /\ pendingOnHand' = [pendingOnHand EXCEPT ![l] = NewQuantity(c)]
    /\ pendingCredited' = [pendingCredited EXCEPT ![clerk[c].line] = @ + clerk[c].delta]
    /\ pendingStatus' = Refreshed(clerk[c].order, pendingLine)
    /\ clerk' = [clerk EXCEPT ![c].pc = "lines"]
    /\ UNCHANGED <<rows, onHand, status, line, orderHolder, pendingLine, credited,
                   usageVars, reservations, adjusted, technician, stocktaker, planner>>

HeldBy(c) == {l \in Levels : levelHolder[l] = c}
(* Mutant: the transaction is never closed. *)
Release_Never(c) == /\ clerk' = [clerk EXCEPT ![c] = IdleClerk]
                    /\ UNCHANGED <<levelHolder, pendingOnHand, orderHolder>>
Release(c) == /\ levelHolder' = [l \in Levels |-> IF l \in HeldBy(c) THEN Nobody ELSE levelHolder[l]]
              /\ pendingOnHand' = [l \in Levels |-> IF l \in HeldBy(c) THEN 0 ELSE pendingOnHand[l]]
              /\ orderHolder' = [o \in Orders |-> IF orderHolder[o] = c THEN Nobody ELSE orderHolder[o]]
              /\ clerk' = [clerk EXCEPT ![c] = IdleClerk]

CommitPost(c) ==
    LET o == clerk[c].order IN
    /\ clerk[c].pc = "lines"
    /\ ToHandle(c) = {}
    /\ rows' = rows \cup HeldBy(c)
    /\ onHand' = [l \in Levels |-> IF l \in HeldBy(c) THEN pendingOnHand[l] ELSE onHand[l]]
    /\ status' = [status EXCEPT ![o] = pendingStatus[o]]
    /\ line' = [ln \in Lines |-> IF OrderOf[ln] = o THEN pendingLine[ln] ELSE line[ln]]
    /\ credited' = [ln \in Lines |-> IF OrderOf[ln] = o THEN pendingCredited[ln] ELSE credited[ln]]
    /\ Release(c)
    /\ UNCHANGED <<pendingStatus, pendingLine, pendingCredited, usageVars, reservations,
                   adjusted, technician, stocktaker, planner>>

Rollback(c) ==
    LET o == clerk[c].order
        holds == orderHolder[o] = c
    IN
    /\ pendingStatus' = IF holds THEN [pendingStatus EXCEPT ![o] = status[o]] ELSE pendingStatus
    /\ pendingLine' = [ln \in Lines |->
            IF holds /\ OrderOf[ln] = o THEN line[ln] ELSE pendingLine[ln]]
    /\ pendingCredited' = [ln \in Lines |->
            IF holds /\ OrderOf[ln] = o THEN credited[ln] ELSE pendingCredited[ln]]
    /\ Release(c)
    /\ UNCHANGED <<rows, onHand, status, line, credited, usageVars, reservations, adjusted,
                   technician, stocktaker, planner>>

(* PurchaseOrderLine.save raises: too much, or less than before. *)
RefuseLine(c, ln) ==
    /\ IsNext(c, ln)
    /\ clerk[c].entries[ln].op = "save"
    /\ ~Acceptable(ln, clerk[c].entries[ln])
    /\ Rollback(c)

(* PostgreSQL ends one transaction of a cycle of waits. *)
WaitsFor(c, d) ==
    \/ clerk[c].pc = "credit" /\ levelHolder[LevelOf[clerk[c].line]] = d
    \/ clerk[c].pc = "read" /\ LevelOf[clerk[c].line] \notin rows
                            /\ levelHolder[LevelOf[clerk[c].line]] = d
Deadlocked(c) == \E S \in SUBSET Clerks :
    c \in S /\ \A x \in S : \E y \in S \ {x} : WaitsFor(x, y)

BreakDeadlock(c) == Deadlocked(c) /\ Rollback(c)

(* The worker dies, or the request fails, at any point before the commit. *)
CrashPost(c) == ~Idle(c) /\ Rollback(c)

-----------------------------------------------------------------------------
(* Hand edits of a StockLevel: the form posts the quantity the page showed,  *)
(* changed or not, and the save writes it whatever the row holds by then.    *)

OpenLevelForm(s, l) ==
    /\ stocktaker[s].pc = "idle"
    /\ l \in rows
    /\ stocktaker' = [stocktaker EXCEPT ![s] = [pc |-> "editing", level |-> l, shown |-> onHand[l]]]
    /\ UNCHANGED <<levelVars, orderVars, usageVars, reservations, adjusted,
                   technician, clerk, planner>>

SaveLevelForm(s, n) ==
    LET l == stocktaker[s].level
        meant == adjusted[l] + n - stocktaker[s].shown
    IN
    /\ stocktaker[s].pc = "editing"
    /\ n \in Quantities \cup {stocktaker[s].shown}
    /\ meant \in -MaxUsed..MaxUsed
    /\ levelHolder[l] = Nobody
    /\ onHand' = [onHand EXCEPT ![l] = n]
    /\ adjusted' = [adjusted EXCEPT ![l] = meant]
    /\ stocktaker' = [stocktaker EXCEPT ![s] = IdleStocktaker]
    /\ UNCHANGED <<rows, levelHolder, pendingOnHand, orderVars, usageVars, reservations,
                   technician, clerk, planner>>

-----------------------------------------------------------------------------
(* Reservations.  reserve_stock creates the level if need be; the new row's  *)
(* reference to the level waits for a technician who holds it FOR UPDATE, or *)
(* for a clerk who is inserting it.                                          *)

Reserve(p, l, w, q) ==
    /\ Len(reservations) < MaxReservations
    /\ levelHolder[l] \notin Technicians
    /\ l \in rows \/ levelHolder[l] = Nobody
    /\ rows' = rows \cup {l}
    /\ reservations' = Append(reservations,
            [level |-> l, workOrder |-> w, quantity |-> q, status |-> "RESERVED"])
    /\ UNCHANGED <<onHand, levelHolder, pendingOnHand, orderVars, usageVars, adjusted,
                   technician, clerk, stocktaker, planner>>

(* cancel_reservation looks at the object its caller loaded ... *)
LoadReservation(p, i) ==
    /\ planner[p] = NothingLoaded
    /\ reservations[i].status = "RESERVED"
    /\ planner' = [planner EXCEPT ![p] = i]
    /\ UNCHANGED <<levelVars, orderVars, usageVars, reservations, adjusted,
                   technician, clerk, stocktaker>>

(* ... and saves it as cancelled, whatever became of the row meanwhile. *)
CancelReservation(p) ==
    /\ planner[p] # NothingLoaded
    /\ reservations' = [reservations EXCEPT ![planner[p]].status = "CANCELLED"]
    /\ planner' = [planner EXCEPT ![p] = NothingLoaded]
    /\ UNCHANGED <<levelVars, orderVars, usageVars, adjusted, technician, clerk, stocktaker>>

-----------------------------------------------------------------------------
Entries == {Keep, Delete} \cup {Save(q, r) : q, r \in Quantities}
Form(o, f) == [ln \in Lines |-> IF OrderOf[ln] = o THEN f[ln] ELSE Keep]

TechnicianNext(t) ==
    \/ \E l \in Levels, w \in WorkOrders, q \in Quantities \ {0} : Scan(t, l, w, q)
    \/ LockLevel(t) \/ RefuseScan(t) \/ CommitConsumption(t) \/ AbortConsumption(t)

LineStep(c) == \E ln \in Lines : SaveLine(c, ln) \/ DeleteLine(c, ln) \/ RefuseLine(c, ln)

ClerkNext(c) ==
    \/ \E o \in Orders, st \in HandStatuses : \E f \in [LinesOf(o) -> Entries] :
           Post(c, o, st, Form(o, f))
    \/ SaveModel(c) \/ LineStep(c) \/ ReadLevel(c) \/ CreditLevel(c) \/ CommitPost(c)
    \/ BreakDeadlock(c) \/ CrashPost(c)

StocktakerNext(s) ==
    \/ \E l \in Levels : OpenLevelForm(s, l)
    \/ stocktaker[s].pc = "editing"
       /\ \E n \in Quantities \cup {stocktaker[s].shown} : SaveLevelForm(s, n)

PlannerNext(p) ==
    \/ \E l \in Levels, w \in WorkOrders, q \in Quantities \ {0} : Reserve(p, l, w, q)
    \/ \E i \in DOMAIN reservations : LoadReservation(p, i)
    \/ CancelReservation(p)

Next == \/ \E t \in Technicians : TechnicianNext(t)
        \/ \E c \in Clerks : ClerkNext(c)
        \/ \E s \in Stocktakers : StocktakerNext(s)
        \/ \E p \in Planners : PlannerNext(p)

Spec == Init /\ [][Next]_vars

(* A request that can run does; a row's waiters are served in turn, so none  *)
(* of them waits for ever for a row that keeps being released (strong        *)
(* fairness on the steps that wait); cycles of waits are broken.             *)
Fairness ==
    /\ \A t \in Technicians : /\ SF_vars(LockLevel(t) \/ RefuseScan(t))
                              /\ WF_vars(CommitConsumption(t))
    /\ \A c \in Clerks : /\ SF_vars(SaveModel(c)) /\ WF_vars(LineStep(c))
                        /\ SF_vars(ReadLevel(c)) /\ SF_vars(CreditLevel(c))
                        /\ WF_vars(CommitPost(c)) /\ WF_vars(BreakDeadlock(c))

FairSpec == Spec /\ Fairness

-----------------------------------------------------------------------------
(* Properties *)

BusyTechnician == [pc : {"lock", "write"}, level : Levels, workOrder : WorkOrders,
                   quantity : Nat, seen : Int]
BusyClerk == [pc : {"model", "lines", "read", "credit"}, order : Orders, status : Statuses,
              entries : [Lines -> Entry], line : Nat, delta : Nat, seen : Int]
BusyStocktaker == [pc : {"editing"}, level : Levels, shown : Int]
Reservation == [level : Levels, workOrder : WorkOrders, quantity : Nat,
                status : {"RESERVED", "FULFILLED", "CANCELLED"}]

(* The values every variable ranges over. *)
TypeOK ==
    /\ rows \subseteq Levels
    /\ onHand \in [Levels -> Int] /\ pendingOnHand \in [Levels -> Int]
    /\ levelHolder \in [Levels -> Technicians \cup Clerks \cup {Nobody}]
    /\ status \in [Orders -> Statuses] /\ pendingStatus \in [Orders -> Statuses]
    /\ line \in [Lines -> LineRow] /\ pendingLine \in [Lines -> LineRow]
    /\ orderHolder \in [Orders -> Clerks \cup {Nobody}]
    /\ credited \in [Lines -> Nat] /\ pendingCredited \in [Lines -> Nat]
    /\ reservations \in Seq(Reservation)
    /\ technician \in [Technicians -> {IdleTechnician} \cup BusyTechnician]
    /\ clerk \in [Clerks -> {IdleClerk} \cup BusyClerk]
    /\ \A c \in Clerks : clerk[c].pc \in {"read", "credit"} => clerk[c].line \in Lines
    /\ stocktaker \in [Stocktakers -> {IdleStocktaker} \cup BusyStocktaker]
    /\ planner \in [Planners -> 0..Len(reservations)]
    /\ used \in [Levels -> Nat]
    /\ usedFor \in [Levels -> [WorkOrders -> Nat]]
    /\ adjusted \in [Levels -> Int]

(* A transaction that has locked a level to take units from it works with    *)
(* the committed quantity: nobody else's write, of any of the four kinds,    *)
(* lands between its check and its own write (services.py, consume_stock).   *)
LockedReadIsCurrent ==
    \A t \in Technicians : technician[t].pc = "write" =>
        /\ levelHolder[technician[t].level] = t
        /\ technician[t].seen = onHand[technician[t].level]

(* No mix of concurrent consumption, receiving and hand edits drives a       *)
(* quantity below zero, committed or about to be.                            *)
NeverOverdrawn == \A l \in Levels : onHand[l] >= 0 /\ pendingOnHand[l] >= 0

(* A line's saves have added to stock exactly what the line says it          *)
(* received: two forms open on one order never credit a delivery twice and   *)
(* never skip one, although save() reads the previous count without a lock   *)
(* (models.py, PurchaseOrderLine.save).  A line that may be deleted is left   *)
(* out: save() of a row that is gone inserts it and credits it again.        *)
CreditedOnce == \A ln \in Lines \ Deletable : credited[ln] = line[ln].received

(* The received count of a line is cumulative: no committed POST, however    *)
(* stale its form, lowers it.                                                *)
ReceivedNeverFalls ==
    [][\A ln \in Lines : line[ln].state = "saved" /\ line'[ln].state = "saved"
          => line'[ln].received >= line[ln].received]_vars

(* A POST that changes lines, and deletes none, commits the status that the  *)
(* lines it leaves behind call for (PurchaseOrder.refresh_status).           *)
ChangesLines(o) == \E ln \in LinesOf(o) : line'[ln] # line[ln]
DeletesLines(o) == \E ln \in LinesOf(o) : line'[ln].state = "deleted" /\ line[ln].state # "deleted"
RolledUpOnCommit ==
    [][\A o \in Orders : ChangesLines(o) /\ ~DeletesLines(o)
          => status'[o] = RolledUp(o, status'[o], line')]_vars

(* What a work order's reservations of a level say was fulfilled, it really  *)
(* took: one consumption never closes more reservations than it covers.      *)
Fulfilled(l, w) == {i \in DOMAIN reservations :
    /\ reservations[i].status = "FULFILLED"
    /\ reservations[i].level = l /\ reservations[i].workOrder = w}
FulfilledIsCovered == \A l \in Levels, w \in WorkOrders :
    SumFunctionOnSet([i \in DOMAIN reservations |-> reservations[i].quantity], Fulfilled(l, w))
        <= usedFor[l][w]

(* What the lines say arrived at a level. *)
ReceivedAt(l) == SumFunctionOnSet([ln \in Lines |-> line[ln].received],
                                  {ln \in Lines : LevelOf[ln] = l})

(* Every unit is explained: "decrements on-hand quantity and records the     *)
(* usage against the work order, atomically" (consume_stock), "the delta     *)
(* gets added to the matching StockLevel" (PurchaseOrderLine).               *)
Balanced == \A l \in Levels :
    onHand[l] = Opening[l] + ReceivedAt(l) + adjusted[l] - used[l]

(* The stockroom implements the ledger: what the properties above say of     *)
(* states, said of every step.                                               *)
Ledger == INSTANCE StockLedger WITH received <- [l \in Levels |-> ReceivedAt(l)]
LedgerSpec == Ledger!LedgerSpec

(* Every POST ends: no wait for a row lasts for ever, not even when the      *)
(* lines of two orders are received in opposite order of levels.             *)
PostsEnd == \A c \in Clerks : []<>Idle(c)

(* Every scan ends, taken or refused, however busy its level is.             *)
ScansEnd == \A t \in Technicians : []<>(technician[t].pc = "idle")

-----------------------------------------------------------------------------
(* Inductive invariants: the properties above with what keeps them true.     *)

(* Of locked reads: every quantity in somebody's memory is a possible one,   *)
(* and a technician's is enough.                                             *)
LockInv ==
    /\ LockedReadIsCurrent
    /\ NeverOverdrawn
    /\ \A t \in Technicians : technician[t].pc = "write" =>
          technician[t].quantity <= technician[t].seen
    /\ \A c \in Clerks : ~Idle(c) => clerk[c].seen >= 0
    /\ \A s \in Stocktakers : stocktaker[s].pc # "idle" => stocktaker[s].shown >= 0

(* Of credits: an order's lines belong to whoever holds the order, and what  *)
(* a line says it received and what it credited differ by at most the delta  *)
(* its clerk is about to add.                                                *)
Working(c) == clerk[c].pc \in {"lines", "read", "credit"}
Crediting(c, ln) == clerk[c].pc \in {"read", "credit"} /\ clerk[c].line = ln

CreditInv ==
    /\ \A c \in Clerks : Working(c) => orderHolder[clerk[c].order] = c
    /\ \A o \in Orders : orderHolder[o] # Nobody =>
          Working(orderHolder[o]) /\ clerk[orderHolder[o]].order = o
    /\ \A c \in Clerks : ~Idle(c) => \A ln \in Lines :
          /\ clerk[c].entries[ln].op # "keep" => OrderOf[ln] = clerk[c].order
          /\ clerk[c].entries[ln].op = "delete" => ln \in Deletable
    /\ \A c \in Clerks, ln \in Lines : Crediting(c, ln) => OrderOf[ln] = clerk[c].order
    /\ \A ln \in Lines : orderHolder[OrderOf[ln]] = Nobody =>
          pendingLine[ln] = line[ln] /\ pendingCredited[ln] = credited[ln]
    /\ \A ln \in Lines \ Deletable : pendingLine[ln].state # "deleted"
    /\ \A ln \in Lines : pendingLine[ln].state = "unsaved" => pendingLine[ln].received = 0
    /\ \A ln \in Lines \ Deletable, c \in Clerks : Crediting(c, ln) =>
          pendingLine[ln].received = pendingCredited[ln] + clerk[c].delta
    /\ \A ln \in Lines \ Deletable : (\A c \in Clerks : ~Crediting(c, ln)) =>
          pendingLine[ln].received = pendingCredited[ln]
    /\ \A ln \in Lines : line[ln].state = "unsaved" => line[ln].received = 0
    /\ \A ln \in Lines \ Deletable : line[ln].state # "deleted"
    /\ CreditedOnce

(* Of a POST's own view of the lines: it differs from the committed one only *)
(* in lines the form is done with, it never shows less received, and between *)
(* two lines the status it has is the one its lines call for.                *)
Untouched == \A c \in Clerks, ln \in Lines :
    Working(c) /\ clerk[c].entries[ln].op # "keep" => pendingLine[ln] = line[ln]

Grown == \A ln \in Lines : line[ln].state = "saved" =>
    /\ pendingLine[ln].state # "unsaved"
    /\ pendingLine[ln].state = "saved" => pendingLine[ln].received >= line[ln].received

OnlySaves(o) ==
    /\ \E ln \in LinesOf(o) : pendingLine[ln] # line[ln]
    /\ \A ln \in LinesOf(o) : pendingLine[ln].state = "deleted" => line[ln].state = "deleted"

Settled(o) == pendingStatus[o] = RolledUp(o, pendingStatus[o], pendingLine)

ViewInv ==
    /\ Untouched
    /\ Grown
    /\ \A c \in Clerks : clerk[c].pc = "lines" /\ OnlySaves(clerk[c].order) => Settled(clerk[c].order)

(* Of receiving alone, where the lines for a level are all of one order: the *)
(* shelf, committed or about to be, is what was credited to it.              *)
OneOrderEach == \A ln, k \in Lines : LevelOf[ln] = LevelOf[k] => OrderOf[ln] = OrderOf[k]

At(l) == {ln \in Lines : LevelOf[ln] = l}
CreditedAt(l) == SumFunctionOnSet(credited, At(l))
PendingAt(l) == SumFunctionOnSet(pendingCredited, At(l))

Stocked == \A l \in Levels :
    /\ onHand[l] = Opening[l] + CreditedAt(l)
    /\ l \notin rows => onHand[l] = 0
    /\ used[l] = 0 /\ adjusted[l] = 0

FreeLevels == \A l \in Levels : levelHolder[l] = Nobody =>
    \A ln \in At(l) : pendingCredited[ln] = credited[ln]

HeldLevels == \A l \in Levels, c \in Clerks : levelHolder[l] = c =>
    /\ Working(c)
    /\ \A ln \in At(l) : OrderOf[ln] = clerk[c].order
    /\ pendingOnHand[l] = Opening[l] + PendingAt(l)

LevelsRead == \A c \in Clerks, l \in Levels :
    clerk[c].pc = "credit" /\ LevelOf[clerk[c].line] = l => clerk[c].seen = Opening[l] + PendingAt(l)

ShelfInv == Stocked /\ FreeLevels /\ HeldLevels /\ LevelsRead
=============================================================================
