-------------------------- MODULE InventoryProofs --------------------------
(* Theorems about Inventory for every number of levels, orders, lines and    *)
(* requests.                                                                 *)
EXTENDS Inventory, SequenceTheorems, Sums

USE DEF Statuses, IdleTechnician, IdleClerk, IdleStocktaker, NothingLoaded

(* Marking one reservation keeps the list a list of reservations. *)
LEMMA MarkReservation ==
    ASSUME reservations \in Seq(Reservation), NEW i \in DOMAIN reservations,
           NEW s \in {"RESERVED", "FULFILLED", "CANCELLED"}
    PROVE  /\ [reservations EXCEPT ![i].status = s] \in Seq(Reservation)
           /\ Len([reservations EXCEPT ![i].status = s]) = Len(reservations)
<1> DEFINE r == [reservations[i] EXCEPT !.status = s]
<1>1. reservations[i] \in Reservation
  BY ElementOfSeq
<1>2. r \in Reservation
  BY <1>1 DEF Reservation
<1>3. i \in 1..Len(reservations)
  OBVIOUS
<1>4. [reservations EXCEPT ![i] = r] \in Seq(Reservation)
      /\ Len([reservations EXCEPT ![i] = r]) = Len(reservations)
  <2> HIDE DEF r
  <2> QED BY <1>2, <1>3, ExceptSeq
<1> QED BY <1>4

LEMMA InitTyped == Init => TypeOK
<1> SUFFICES ASSUME Init PROVE TypeOK
  OBVIOUS
<1> USE InventoryAssumption
<1>1. line \in [Lines -> LineRow]
  BY DEF Init, LineRow
<1>2. reservations \in Seq(Reservation) /\ Len(reservations) = 0
  BY DEF Init
<1> QED BY <1>1, <1>2 DEF Init, TypeOK

(* What a request remembers, from one step to the next. *)
LEMMA TechnicianRecords ==
    ASSUME NEW l \in Levels, NEW w \in WorkOrders, NEW q \in Nat
    PROVE  [pc |-> "lock", level |-> l, workOrder |-> w, quantity |-> q, seen |-> 0] \in BusyTechnician
BY DEF BusyTechnician

LEMMA ClerkRecords ==
    ASSUME NEW b \in BusyClerk
    PROVE  /\ [b EXCEPT !.pc = "lines"] \in BusyClerk
           /\ \A q \in Int : [b EXCEPT !.pc = "credit", !.seen = q] \in BusyClerk
BY DEF BusyClerk

LEMMA DeletedRow ==
    ASSUME NEW row \in LineRow
    PROVE  [row EXCEPT !.state = "deleted"] \in LineRow
BY DEF LineRow

(* One lemma for each kind of request: its steps keep the types. *)
LEMMA TechnicianTyped ==
    ASSUME TypeOK, NEW t \in Technicians, TechnicianNext(t)
    PROVE  TypeOK'
<1> USE InventoryAssumption DEF TypeOK, levelVars, orderVars, usageVars
<1> DEFINE r == technician[t]
<1>0. r.pc # "idle" => /\ r \in BusyTechnician /\ r.level \in Levels /\ r.workOrder \in WorkOrders
                       /\ r.quantity \in Nat /\ r.seen \in Int
  BY DEF BusyTechnician
<1>1. ASSUME NEW l \in Levels, NEW w \in WorkOrders, NEW q \in Quantities \ {0}, Scan(t, l, w, q)
      PROVE  TypeOK'
  <2> DEFINE busy == [pc |-> "lock", level |-> l, workOrder |-> w, quantity |-> q, seen |-> 0]
  <2>1. busy \in BusyTechnician
    <3>1. q \in Nat
      BY InventoryAssumption
    <3> QED BY <3>1, TechnicianRecords
  <2>2. technician' = [technician EXCEPT ![t] = busy]
    BY <1>1 DEF Scan
  <2> HIDE DEF busy
  <2> QED BY SMTT(30), <1>1, <2>1, <2>2 DEF Scan
<1>2. CASE LockLevel(t)
  <2>1. [r EXCEPT !.pc = "write", !.seen = onHand[r.level]] \in BusyTechnician
    BY <1>0, <1>2 DEF LockLevel, BusyTechnician
  <2>2. technician' \in [Technicians -> {IdleTechnician} \cup BusyTechnician]
    BY <1>2, <2>1 DEF LockLevel
  <2>3. levelHolder' \in [Levels -> Technicians \cup Clerks \cup {Nobody}]
    BY <1>2 DEF LockLevel
  <2> QED BY <1>2, <2>2, <2>3 DEF LockLevel
<1>3. CASE RefuseScan(t)
  BY <1>3 DEF RefuseScan
<1>4. CASE CommitConsumption(t)
  <2>1. r.level \in Levels /\ r.workOrder \in WorkOrders /\ r.quantity \in Nat /\ r.seen \in Int
    BY <1>0, <1>4 DEF CommitConsumption
  <2>2. reservations' \in Seq(Reservation) /\ Len(reservations') = Len(reservations)
    <3>1. CASE UNCHANGED reservations
      BY <3>1
    <3>2. ASSUME NEW i \in DOMAIN reservations, reservations' = Fulfil(i)
          PROVE  reservations' \in Seq(Reservation) /\ Len(reservations') = Len(reservations)
      BY <3>2, MarkReservation DEF Fulfil
    <3> QED BY <1>4, <3>1, <3>2 DEF CommitConsumption, FulfilOldest, Coverable
  <2>3. Remaining(r) \in Int /\ used[r.level] + r.quantity \in Nat
    BY SMTT(30), <2>1 DEF Remaining
  <2>4. onHand' \in [Levels -> Int] /\ used' \in [Levels -> Nat]
    <3> HIDE DEF r
    <3>1. onHand' = [onHand EXCEPT ![r.level] = Remaining(r)]
          /\ used' = [used EXCEPT ![r.level] = used[r.level] + r.quantity]
      BY <1>4 DEF CommitConsumption, r
    <3> QED BY <2>3, <3>1
  <2>5. usedFor' \in [Levels -> [WorkOrders -> Nat]]
    <3> DEFINE row == [usedFor[r.level] EXCEPT ![r.workOrder] = @ + r.quantity]
    <3>1. usedFor[r.level] \in [WorkOrders -> Nat] /\ usedFor[r.level][r.workOrder] + r.quantity \in Nat
      BY SMTT(30), <2>1
    <3>3. row \in [WorkOrders -> Nat]
      BY <2>1, <3>1
    <3>2. usedFor' = [usedFor EXCEPT ![r.level] = row]
      BY <1>4 DEF CommitConsumption
    <3> HIDE DEF row
    <3> QED BY <3>2, <3>3
  <2>6. technician' \in [Technicians -> {IdleTechnician} \cup BusyTechnician]
        /\ levelHolder' \in [Levels -> Technicians \cup Clerks \cup {Nobody}]
    BY <1>4, <2>1 DEF CommitConsumption
  <2> QED BY <1>4, <2>2, <2>4, <2>5, <2>6 DEF CommitConsumption
<1>5. CASE AbortConsumption(t)
  BY <1>5 DEF AbortConsumption, Unlock
<1> QED BY <1>1, <1>2, <1>3, <1>4, <1>5, TechnicianNext(t) DEF TechnicianNext

LEMMA FormTyped ==
    ASSUME NEW o \in Orders, NEW f \in [LinesOf(o) -> Entries]
    PROVE  Form(o, f) \in [Lines -> Entry]
<1>1. Quantities \subseteq Nat
  BY InventoryAssumption
<1>2. Entries \subseteq Entry /\ Keep \in Entry
  BY <1>1 DEF Entries, Entry, Keep, Delete, Save
<1> QED BY <1>2 DEF Form, LinesOf

LEMMA RolledUpTyped ==
    ASSUME NEW o \in Orders, NEW st \in Statuses, NEW rowOf
    PROVE  RolledUp(o, st, rowOf) \in Statuses
BY DEF RolledUp

(* What a clerk at work remembers. *)
LEMMA ClerkFields ==
    ASSUME TypeOK, NEW c \in Clerks, ~Idle(c)
    PROVE  /\ clerk[c] \in BusyClerk
           /\ clerk[c].order \in Orders /\ clerk[c].status \in Statuses
           /\ clerk[c].entries \in [Lines -> Entry] /\ clerk[c].line \in Nat
           /\ clerk[c].delta \in Nat /\ clerk[c].seen \in Int
<1>1. clerk[c] \in BusyClerk
  BY DEF TypeOK, Idle
<1> QED BY <1>1 DEF BusyClerk

(* A clerk at work goes back to the lines. *)
LEMMA ClerkReturns ==
    ASSUME TypeOK, NEW c \in Clerks, ~Idle(c)
    PROVE  /\ [clerk[c] EXCEPT !.pc = "lines"] \in BusyClerk
           /\ [clerk[c] EXCEPT !.pc = "lines"].pc = "lines"
<1> DEFINE b == clerk[c]
<1>1. b \in BusyClerk
  BY ClerkFields
<1> HIDE DEF b
<1>2. [b EXCEPT !.pc = "lines"] \in BusyClerk
  BY <1>1, ClerkRecords
<1>3. [b EXCEPT !.pc = "lines"].pc = "lines"
  BY <1>1 DEF BusyClerk
<1> QED BY <1>2, <1>3 DEF b

(* A busy clerk who moves on keeps the type. *)
LEMMA ClerkMoves ==
    ASSUME TypeOK, NEW c \in Clerks, NEW b \in BusyClerk,
           b.pc \in {"read", "credit"} => b.line \in Lines,
           clerk' = [clerk EXCEPT ![c] = b]
    PROVE  /\ clerk' \in [Clerks -> {IdleClerk} \cup BusyClerk]
           /\ \A d \in Clerks : clerk'[d].pc \in {"read", "credit"} => clerk'[d].line \in Lines
BY DEF TypeOK

LEMMA ClerkStops ==
    ASSUME TypeOK, NEW c \in Clerks, clerk' = [clerk EXCEPT ![c] = IdleClerk]
    PROVE  /\ clerk' \in [Clerks -> {IdleClerk} \cup BusyClerk]
           /\ \A d \in Clerks : clerk'[d].pc \in {"read", "credit"} => clerk'[d].line \in Lines
BY DEF TypeOK

LEMMA RollbackTyped ==
    ASSUME TypeOK, NEW c \in Clerks, ~Idle(c), Rollback(c)
    PROVE  TypeOK'
<1> USE DEF TypeOK, levelVars, usageVars
<1>1. clerk[c].order \in Orders
  BY ClerkFields
<1>2. /\ pendingStatus' \in [Orders -> Statuses]
      /\ pendingLine' \in [Lines -> LineRow] /\ pendingCredited' \in [Lines -> Nat]
  BY <1>1 DEF Rollback
<1>3. /\ levelHolder' \in [Levels -> Technicians \cup Clerks \cup {Nobody}]
      /\ orderHolder' \in [Orders -> Clerks \cup {Nobody}]
      /\ pendingOnHand' \in [Levels -> Int]
  BY DEF Rollback, Release
<1>4. clerk' = [clerk EXCEPT ![c] = IdleClerk]
  BY DEF Rollback, Release
<1> QED BY <1>2, <1>3, <1>4, ClerkStops DEF Rollback

LEMMA LineStepTyped ==
    ASSUME TypeOK, NEW c \in Clerks, NEW ln \in Lines,
           SaveLine(c, ln) \/ DeleteLine(c, ln) \/ RefuseLine(c, ln)
    PROVE  TypeOK'
<1> USE InventoryAssumption DEF TypeOK, levelVars, usageVars
<1> DEFINE e == clerk[c].entries[ln]
<1>1. clerk[c].pc = "lines" /\ ~Idle(c)
  BY DEF SaveLine, DeleteLine, RefuseLine, IsNext, Idle
<1>2. /\ clerk[c] \in BusyClerk /\ clerk[c].entries \in [Lines -> Entry] /\ clerk[c].order \in Orders
      /\ [clerk[c].entries EXCEPT ![ln] = Keep] \in [Lines -> Entry]
  BY <1>1, ClerkFields DEF Entry, Keep
<1>3. CASE SaveLine(c, ln)
  <2> DEFINE delta == e.received - PreviousReceived(ln)
             row == [state |-> "saved", ordered |-> e.ordered, received |-> e.received]
             busy == [clerk[c] EXCEPT !.pc = IF delta = 0 THEN "lines" ELSE "read",
                        !.entries = [clerk[c].entries EXCEPT ![ln] = Keep],
                        !.line = ln, !.delta = delta]
  <2>1. e \in Entry /\ e.ordered \in Nat /\ e.received \in Nat
    BY <1>2 DEF Entry
  <2>2. pendingLine[ln] \in LineRow /\ PreviousReceived(ln) \in Nat
    BY DEF PreviousReceived, LineRow
  <2>3. Acceptable(ln, e)
    BY <1>3 DEF SaveLine
  <2>4. delta \in Nat
    BY <2>1, <2>2, <2>3 DEF Acceptable
  <2>5. row \in LineRow
    BY <2>1 DEF LineRow
  <2>6. pendingLine' \in [Lines -> LineRow]
    BY <1>3, <2>5 DEF SaveLine
  <2>7. pendingStatus' \in [Orders -> Statuses]
    BY <1>2, <1>3, RolledUpTyped DEF SaveLine, Refreshed
  <2>8. busy \in BusyClerk /\ busy.line = ln
    <3> HIDE DEF delta
    <3> QED BY <1>2, <2>4 DEF BusyClerk
  <2>9. clerk' = [clerk EXCEPT ![c] = busy]
    BY <1>3 DEF SaveLine
  <2>10. /\ clerk' \in [Clerks -> {IdleClerk} \cup BusyClerk]
         /\ \A d \in Clerks : clerk'[d].pc \in {"read", "credit"} => clerk'[d].line \in Lines
    <3> HIDE DEF busy
    <3> QED BY <2>8, <2>9, ClerkMoves
  <2> QED BY <1>3, <2>6, <2>7, <2>10 DEF SaveLine
<1>4. CASE DeleteLine(c, ln)
  <2> DEFINE busy == [clerk[c] EXCEPT !.entries = [clerk[c].entries EXCEPT ![ln] = Keep]]
             row == [pendingLine[ln] EXCEPT !.state = "deleted"]
  <2>1. busy \in BusyClerk /\ busy.pc = "lines"
    BY <1>1, <1>2 DEF BusyClerk
  <2>2. clerk' = [clerk EXCEPT ![c] = busy]
    BY <1>4 DEF DeleteLine
  <2>3. /\ clerk' \in [Clerks -> {IdleClerk} \cup BusyClerk]
        /\ \A d \in Clerks : clerk'[d].pc \in {"read", "credit"} => clerk'[d].line \in Lines
    <3> HIDE DEF busy
    <3> QED BY <2>1, <2>2, ClerkMoves
  <2>4. row \in LineRow
    BY DeletedRow
  <2>5. pendingLine' = [pendingLine EXCEPT ![ln] = row]
    BY <1>4 DEF DeleteLine
  <2>6. pendingLine' \in [Lines -> LineRow]
    <3> HIDE DEF row
    <3> QED BY <2>4, <2>5
  <2> QED BY <1>4, <2>3, <2>6 DEF DeleteLine
<1>5. CASE RefuseLine(c, ln)
  BY <1>1, <1>5, RollbackTyped DEF RefuseLine
<1> QED BY <1>3, <1>4, <1>5

LEMMA ClerkTyped ==
    ASSUME TypeOK, NEW c \in Clerks, ClerkNext(c)
    PROVE  TypeOK'
<1> USE InventoryAssumption DEF TypeOK, levelVars, orderVars, usageVars
<1>1. ASSUME NEW o \in Orders, NEW st \in HandStatuses, NEW f \in [LinesOf(o) -> Entries],
             Post(c, o, st, Form(o, f))
      PROVE  TypeOK'
  <2> DEFINE busy == [pc |-> "model", order |-> o, status |-> st, entries |-> Form(o, f),
                      line |-> 0, delta |-> 0, seen |-> 0]
  <2>1. busy \in BusyClerk /\ busy.pc = "model"
    BY FormTyped DEF BusyClerk
  <2>2. clerk' = [clerk EXCEPT ![c] = busy]
    BY <1>1 DEF Post
  <2> HIDE DEF busy
  <2> QED BY SMTT(30), <1>1, <2>1, <2>2, ClerkMoves DEF Post
<1>2. CASE SaveModel(c)
  <2> DEFINE busy == [clerk[c] EXCEPT !.pc = "lines"]
  <2>1. ~Idle(c) /\ clerk' = [clerk EXCEPT ![c] = busy]
    BY <1>2 DEF SaveModel, Idle
  <2>2. busy \in BusyClerk /\ busy.pc = "lines"
    BY <2>1, ClerkReturns
  <2>3. pendingStatus' \in [Orders -> Statuses] /\ orderHolder' \in [Orders -> Clerks \cup {Nobody}]
    BY <1>2, <2>1, ClerkFields DEF SaveModel
  <2> HIDE DEF busy
  <2> QED BY ZenonT(30), <1>2, <2>1, <2>2, <2>3, ClerkMoves DEF SaveModel
<1>3. CASE LineStep(c)
  BY <1>3, LineStepTyped DEF LineStep
<1>4. CASE ReadLevel(c)
  <2> DEFINE l == LevelOf[clerk[c].line]
             q == IF levelHolder[l] = c THEN pendingOnHand[l] ELSE onHand[l]
             busy == [clerk[c] EXCEPT !.pc = "credit", !.seen = q]
  <2>1. ~Idle(c) /\ clerk[c].line \in Lines /\ l \in Levels
    BY <1>4 DEF ReadLevel, Idle
  <2>2. q \in Int
    BY <2>1
  <2>3. busy \in BusyClerk /\ busy.line \in Lines
    <3> HIDE DEF q
    <3>1. clerk[c] \in BusyClerk
      BY <2>1, ClerkFields
    <3> QED BY <2>1, <2>2, <3>1, ClerkRecords DEF BusyClerk
  <2>4. clerk' = [clerk EXCEPT ![c] = busy]
    BY <1>4 DEF ReadLevel
  <2>5. /\ levelHolder' \in [Levels -> Technicians \cup Clerks \cup {Nobody}]
        /\ pendingOnHand' \in [Levels -> Int]
    <3>1. CASE UNCHANGED <<levelHolder, pendingOnHand>>
      BY <3>1
    <3>2. CASE /\ levelHolder' = [levelHolder EXCEPT ![l] = c]
               /\ pendingOnHand' = [pendingOnHand EXCEPT ![l] = 0]
      <4> HIDE DEF l
      <4>1. levelHolder' \in [Levels -> Technicians \cup Clerks \cup {Nobody}]
        BY ONLY <3>2, c \in Clerks,
                levelHolder \in [Levels -> Technicians \cup Clerks \cup {Nobody}]
      <4>2. pendingOnHand' \in [Levels -> Int]
        <5>1. pendingOnHand' = [pendingOnHand EXCEPT ![l] = 0]
          BY <3>2
        <5>2. l \in Levels
          BY <2>1 DEF l
        <5> QED BY ONLY <5>1, <5>2, pendingOnHand \in [Levels -> Int]
      <4> QED BY <4>1, <4>2
    <3> QED BY <1>4, <3>1, <3>2 DEF ReadLevel
  <2>6. /\ clerk' \in [Clerks -> {IdleClerk} \cup BusyClerk]
        /\ \A d \in Clerks : clerk'[d].pc \in {"read", "credit"} => clerk'[d].line \in Lines
    <3> HIDE DEF busy
    <3> QED BY <2>3, <2>4, ClerkMoves
  <2> QED BY <1>4, <2>5, <2>6 DEF ReadLevel
<1>5. CASE CreditLevel(c)
  <2> DEFINE l == LevelOf[clerk[c].line]
             busy == [clerk[c] EXCEPT !.pc = "lines"]
  <2>1. ~Idle(c) /\ clerk[c].line \in Lines /\ l \in Levels
    BY <1>5 DEF CreditLevel, Idle
  <2>2. busy \in BusyClerk /\ busy.pc = "lines"
    BY <2>1, ClerkReturns
  <2>3. clerk' = [clerk EXCEPT ![c] = busy]
    BY <1>5 DEF CreditLevel
  <2>4. NewQuantity(c) \in Int /\ pendingCredited[clerk[c].line] + clerk[c].delta \in Nat
    <3>1. clerk[c].seen \in Int /\ clerk[c].delta \in Nat
      BY <2>1, ClerkFields
    <3>2. NewQuantity(c) \in Int
      BY <3>1 DEF NewQuantity
    <3>3. pendingCredited[clerk[c].line] \in Nat
      BY <2>1
    <3> QED BY <3>1, <3>2, <3>3
  <2>5. pendingOnHand' \in [Levels -> Int] /\ pendingCredited' \in [Lines -> Nat]
    BY <1>5, <2>1, <2>4 DEF CreditLevel
  <2>6. pendingStatus' \in [Orders -> Statuses]
    BY <1>5, <2>1, ClerkFields, RolledUpTyped DEF CreditLevel, Refreshed
  <2>7. levelHolder' \in [Levels -> Technicians \cup Clerks \cup {Nobody}]
    BY <1>5 DEF CreditLevel
  <2>8. /\ clerk' \in [Clerks -> {IdleClerk} \cup BusyClerk]
        /\ \A d \in Clerks : clerk'[d].pc \in {"read", "credit"} => clerk'[d].line \in Lines
    <3> HIDE DEF busy
    <3> QED BY <2>2, <2>3, ClerkMoves
  <2> QED BY <1>5, <2>5, <2>6, <2>7, <2>8 DEF CreditLevel
<1>6. CASE CommitPost(c)
  <2>1. ~Idle(c) /\ clerk[c].order \in Orders
    BY <1>6, ClerkFields DEF CommitPost, Idle
  <2>2. /\ levelHolder' \in [Levels -> Technicians \cup Clerks \cup {Nobody}]
        /\ orderHolder' \in [Orders -> Clerks \cup {Nobody}]
        /\ pendingOnHand' \in [Levels -> Int]
        /\ clerk' = [clerk EXCEPT ![c] = IdleClerk]
    BY <1>6 DEF CommitPost, Release
  <2>3. rows' \subseteq Levels /\ onHand' \in [Levels -> Int] /\ status' \in [Orders -> Statuses]
    BY <1>6, <2>1 DEF CommitPost, HeldBy
  <2>4. line' \in [Lines -> LineRow] /\ credited' \in [Lines -> Nat]
    BY <1>6 DEF CommitPost
  <2> QED BY <1>6, <2>2, <2>3, <2>4, ClerkStops DEF CommitPost
<1>7. CASE BreakDeadlock(c)
  <2>1. ~Idle(c)
    BY <1>7 DEF BreakDeadlock, Deadlocked, WaitsFor, Idle
  <2> QED BY <1>7, <2>1, RollbackTyped DEF BreakDeadlock
<1>8. CASE CrashPost(c)
  BY <1>8, RollbackTyped DEF CrashPost
<1> QED BY <1>1, <1>2, <1>3, <1>4, <1>5, <1>6, <1>7, <1>8, ClerkNext(c) DEF ClerkNext

LEMMA OfficeTyped ==
    ASSUME TypeOK,
           \/ \E s \in Stocktakers : StocktakerNext(s)
           \/ \E p \in Planners : PlannerNext(p)
    PROVE  TypeOK'
<1> USE InventoryAssumption DEF TypeOK, levelVars, orderVars, usageVars
<1>1. ASSUME NEW s \in Stocktakers, NEW l \in Levels, OpenLevelForm(s, l)
      PROVE  TypeOK'
  <2>1. [pc |-> "editing", level |-> l, shown |-> onHand[l]] \in BusyStocktaker
    BY DEF BusyStocktaker
  <2> QED BY <1>1, <2>1 DEF OpenLevelForm
<1>2. ASSUME NEW s \in Stocktakers, NEW n \in Quantities \cup {stocktaker[s].shown}, SaveLevelForm(s, n)
      PROVE  TypeOK'
  <2>1. stocktaker[s] \in BusyStocktaker
    BY <1>2 DEF SaveLevelForm
  <2>2. stocktaker[s].level \in Levels /\ stocktaker[s].shown \in Int
    BY <2>1 DEF BusyStocktaker
  <2>3. onHand' \in [Levels -> Int]
    BY <1>2, <2>2 DEF SaveLevelForm
  <2>4. adjusted' \in [Levels -> Int]
    BY <1>2, <2>2 DEF SaveLevelForm
  <2> QED BY <1>2, <2>3, <2>4 DEF SaveLevelForm
<1>3. ASSUME NEW p \in Planners, NEW l \in Levels, NEW w \in WorkOrders,
             NEW q \in Quantities \ {0}, Reserve(p, l, w, q)
      PROVE  TypeOK'
  <2> DEFINE r == [level |-> l, workOrder |-> w, quantity |-> q, status |-> "RESERVED"]
  <2>1. r \in Reservation
    BY DEF Reservation
  <2>2. reservations' = Append(reservations, r)
    BY <1>3 DEF Reserve
  <2>3. reservations' \in Seq(Reservation) /\ Len(reservations') = Len(reservations) + 1
    <3> HIDE DEF r
    <3> QED BY <2>1, <2>2, AppendProperties
  <2>4. planner' \in [Planners -> 0..Len(reservations')]
    BY <1>3, <2>3, LenProperties DEF Reserve
  <2> QED BY <1>3, <2>3, <2>4 DEF Reserve
<1>4. ASSUME NEW p \in Planners, NEW i \in DOMAIN reservations, LoadReservation(p, i)
      PROVE  TypeOK'
  BY <1>4 DEF LoadReservation
<1>5. ASSUME NEW p \in Planners, CancelReservation(p)
      PROVE  TypeOK'
  <2>1. planner[p] \in DOMAIN reservations
    BY <1>5 DEF CancelReservation
  <2>2. reservations' \in Seq(Reservation) /\ Len(reservations') = Len(reservations)
    BY <1>5, <2>1, MarkReservation DEF CancelReservation
  <2> QED BY <1>5, <2>2 DEF CancelReservation
<1> QED BY <1>1, <1>2, <1>3, <1>4, <1>5 DEF StocktakerNext, PlannerNext

LEMMA TypeStep == TypeOK /\ [Next]_vars => TypeOK'
<1> SUFFICES ASSUME TypeOK, [Next]_vars PROVE TypeOK'
  OBVIOUS
<1>1. CASE UNCHANGED vars
  BY <1>1 DEF vars, levelVars, orderVars, usageVars, TypeOK
<1>2. CASE Next
  BY <1>2, TechnicianTyped, ClerkTyped, OfficeTyped DEF Next
<1> QED BY <1>1, <1>2

(* Every variable keeps to its type in every reachable state (all of the     *)
(* requests of inventory/, in any interleaving).                             *)
THEOREM TypeCorrect == Spec => []TypeOK
BY InitTyped, TypeStep, PTL DEF Spec

-----------------------------------------------------------------------------
(* Locked reads.  TypeOK gives the shape of every record, so the proof below *)
(* is about who may write a level while a technician holds it: nobody.       *)

LEMMA TechnicianFields ==
    ASSUME TypeOK, NEW t \in Technicians, technician[t].pc # "idle"
    PROVE  /\ technician[t] \in BusyTechnician
           /\ technician[t].level \in Levels /\ technician[t].workOrder \in WorkOrders
           /\ technician[t].quantity \in Nat /\ technician[t].seen \in Int
<1>1. technician[t] \in BusyTechnician
  BY DEF TypeOK
<1> QED BY <1>1 DEF BusyTechnician

LEMMA LockInit == Init => LockInv
BY InventoryAssumption DEF Init, LockInv, LockedReadIsCurrent, NeverOverdrawn, Idle

(* A technician's own steps: the level it locks was nobody's.                *)
LEMMA LockTechnician ==
    ASSUME TypeOK, LockInv, NEW t \in Technicians, TechnicianNext(t)
    PROVE  LockInv'
<1> USE InventoryAssumption DEF LockInv, LockedReadIsCurrent, NeverOverdrawn, levelVars, orderVars
<1>0. /\ technician \in [Technicians -> {IdleTechnician} \cup BusyTechnician]
      /\ onHand \in [Levels -> Int]
      /\ levelHolder \in [Levels -> Technicians \cup Clerks \cup {Nobody}]
  BY DEF TypeOK
<1>1. ASSUME NEW l \in Levels, NEW w \in WorkOrders, NEW q \in Quantities \ {0}, Scan(t, l, w, q)
      PROVE  LockInv'
  BY <1>0, <1>1 DEF Scan, Idle
<1>2. CASE LockLevel(t)
  <2>1. technician[t].level \in Levels /\ technician[t].quantity \in Nat
        /\ technician[t] \in BusyTechnician
    BY <1>2, TechnicianFields DEF LockLevel
  <2>2. technician'[t] = [technician[t] EXCEPT !.pc = "write", !.seen = onHand[technician[t].level]]
    BY <1>0, <1>2 DEF LockLevel
  <2>3. /\ technician'[t].level = technician[t].level
        /\ technician'[t].quantity = technician[t].quantity
        /\ technician'[t].seen = onHand[technician[t].level]
    BY <2>1, <2>2 DEF BusyTechnician
  <2>4. \A u \in Technicians \ {t} : technician'[u] = technician[u]
    BY <1>0, <1>2 DEF LockLevel
  <2>5. /\ levelHolder[technician[t].level] = Nobody
        /\ onHand[technician[t].level] >= technician[t].quantity
        /\ levelHolder' = [levelHolder EXCEPT ![technician[t].level] = t]
        /\ UNCHANGED <<onHand, pendingOnHand, clerk, stocktaker>>
    BY <1>2 DEF LockLevel, RowGranted, Enough
  <2>6. LockedReadIsCurrent'
    <3> SUFFICES ASSUME NEW u \in Technicians, technician'[u].pc = "write"
                 PROVE  /\ levelHolder'[technician'[u].level] = u
                        /\ technician'[u].seen = onHand'[technician'[u].level]
      OBVIOUS
    <3>1. CASE u = t
      BY <1>0, <2>1, <2>3, <2>5, <3>1
    <3>2. CASE u # t
      <4>1. technician[u].level \in Levels /\ levelHolder[technician[u].level] = u
        BY <2>4, <3>2, TechnicianFields
      <4>2. technician[u].level # technician[t].level
        BY <2>5, <4>1
      <4> QED BY <1>0, <2>4, <2>5, <3>2, <4>1, <4>2
    <3> QED BY <3>1, <3>2
  <2>7. \A u \in Technicians : technician'[u].pc = "write" => technician'[u].quantity <= technician'[u].seen
    BY <2>3, <2>4, <2>5
  <2> QED BY <2>5, <2>6, <2>7 DEF Idle
<1>3. CASE RefuseScan(t)
  BY <1>0, <1>3 DEF RefuseScan, Idle
<1>4. CASE CommitConsumption(t)
  <2> DEFINE l == technician[t].level
  <2>1. /\ l \in Levels /\ technician[t].quantity \in Nat /\ technician[t].seen \in Int
        /\ technician[t].quantity <= technician[t].seen /\ levelHolder[l] = t
    BY <1>4, TechnicianFields DEF CommitConsumption
  <2>2. /\ onHand' = [onHand EXCEPT ![l] = Remaining(technician[t])]
        /\ levelHolder' = [levelHolder EXCEPT ![l] = Nobody]
        /\ technician' = [technician EXCEPT ![t] = IdleTechnician]
        /\ UNCHANGED <<pendingOnHand, clerk, stocktaker>>
    BY <1>4 DEF CommitConsumption
  <2>3. Remaining(technician[t]) \in Nat
    BY <2>1 DEF Remaining
  <2>4. ASSUME NEW u \in Technicians, technician'[u].pc = "write"
        PROVE  /\ u # t /\ technician'[u] = technician[u]
               /\ levelHolder'[technician'[u].level] = u
               /\ technician'[u].seen = onHand'[technician'[u].level]
    <3>1. u # t /\ technician'[u] = technician[u]
      BY <1>0, <2>2, <2>4
    <3>2. technician[u].level \in Levels /\ levelHolder[technician[u].level] = u
      BY <2>4, <3>1, TechnicianFields
    <3>3. technician[u].level # l
      BY <2>1, <3>1, <3>2
    <3> HIDE DEF l
    <3> QED BY <1>0, <2>2, <2>4, <3>1, <3>2, <3>3
  <2>5. NeverOverdrawn'
    <3> HIDE DEF l
    <3> QED BY <1>0, <2>2, <2>3
  <2> HIDE DEF l
  <2> QED BY <2>2, <2>4, <2>5 DEF Idle
<1>5. CASE AbortConsumption(t)
  <2> DEFINE l == technician[t].level
  <2>1. l \in Levels /\ levelHolder[l] = t
    BY <1>5, TechnicianFields DEF AbortConsumption
  <2>2. /\ levelHolder' = [levelHolder EXCEPT ![l] = Nobody]
        /\ technician' = [technician EXCEPT ![t] = IdleTechnician]
        /\ UNCHANGED <<onHand, pendingOnHand, clerk, stocktaker>>
    BY <1>5 DEF AbortConsumption, Unlock
  <2>3. ASSUME NEW u \in Technicians, technician'[u].pc = "write"
        PROVE  /\ u # t /\ technician'[u] = technician[u]
               /\ levelHolder'[technician'[u].level] = u
    <3>1. u # t /\ technician'[u] = technician[u]
      BY <1>0, <2>2, <2>3
    <3>2. technician[u].level \in Levels /\ levelHolder[technician[u].level] = u
      BY <2>3, <3>1, TechnicianFields
    <3>3. technician[u].level # l
      BY <2>1, <3>1, <3>2
    <3> HIDE DEF l
    <3> QED BY <1>0, <2>2, <3>1, <3>2, <3>3
  <2> HIDE DEF l
  <2> QED BY <2>2, <2>3 DEF Idle
<1> QED BY <1>1, <1>2, <1>3, <1>4, <1>5, TechnicianNext(t) DEF TechnicianNext

(* The steps of the others leave alone the levels that technicians hold.     *)
LEMMA LockKept ==
    ASSUME TypeOK, LockInv, UNCHANGED technician,
           \A l \in Levels : levelHolder[l] \in Technicians =>
               levelHolder'[l] = levelHolder[l] /\ onHand'[l] = onHand[l]
    PROVE  /\ LockedReadIsCurrent'
           /\ \A t \in Technicians : technician'[t].pc = "write" =>
                 technician'[t].quantity <= technician'[t].seen
<1> SUFFICES ASSUME NEW t \in Technicians, technician[t].pc = "write"
             PROVE  /\ levelHolder'[technician[t].level] = t
                    /\ technician[t].seen = onHand'[technician[t].level]
                    /\ technician[t].quantity <= technician[t].seen
  BY DEF LockedReadIsCurrent
<1>1. technician[t].level \in Levels
  BY TechnicianFields
<1> QED BY <1>1 DEF LockInv, LockedReadIsCurrent

LEMMA LockRollback ==
    ASSUME TypeOK, LockInv, NEW c \in Clerks, Rollback(c)
    PROVE  LockInv'
<1> USE InventoryAssumption
<1>1. /\ UNCHANGED <<technician, stocktaker, onHand>>
      /\ levelHolder' = [l \in Levels |-> IF l \in HeldBy(c) THEN Nobody ELSE levelHolder[l]]
      /\ pendingOnHand' = [l \in Levels |-> IF l \in HeldBy(c) THEN 0 ELSE pendingOnHand[l]]
      /\ clerk' = [clerk EXCEPT ![c] = IdleClerk]
  BY DEF Rollback, Release
<1>2. \A l \in Levels : levelHolder[l] \in Technicians => levelHolder'[l] = levelHolder[l]
  BY <1>1 DEF HeldBy
<1>3. NeverOverdrawn'
  BY <1>1 DEF LockInv, NeverOverdrawn
<1>4. \A d \in Clerks : ~Idle(d)' => clerk'[d].seen >= 0
  BY <1>1 DEF LockInv, Idle, TypeOK
<1> QED BY <1>1, <1>2, <1>3, <1>4, LockKept DEF LockInv

LEMMA LockClerk ==
    ASSUME TypeOK, LockInv, NEW c \in Clerks, ClerkNext(c)
    PROVE  LockInv'
<1> USE InventoryAssumption
<1>0. clerk \in [Clerks -> {IdleClerk} \cup BusyClerk] /\ onHand \in [Levels -> Int]
      /\ pendingOnHand \in [Levels -> Int]
      /\ levelHolder \in [Levels -> Technicians \cup Clerks \cup {Nobody}]
  BY DEF TypeOK
<1>1. ASSUME NEW o \in Orders, NEW st \in HandStatuses, NEW f \in [LinesOf(o) -> Entries],
             Post(c, o, st, Form(o, f))
      PROVE  LockInv'
  <2>1. \A d \in Clerks : ~Idle(d)' => clerk'[d].seen >= 0
    BY <1>0, <1>1 DEF Post, LockInv, Idle
  <2>2. UNCHANGED <<onHand, pendingOnHand, levelHolder, technician, stocktaker>>
    BY <1>1 DEF Post, levelVars
  <2> QED BY <2>1, <2>2, LockKept DEF LockInv, NeverOverdrawn
<1>2. CASE SaveModel(c)
  <2>1. clerk' = [clerk EXCEPT ![c] = [clerk[c] EXCEPT !.pc = "lines"]] /\ ~Idle(c)
    BY <1>2 DEF SaveModel, Idle
  <2>2. \A d \in Clerks : ~Idle(d)' => clerk'[d].seen >= 0
    BY <1>0, <2>1, ClerkFields DEF LockInv, Idle, BusyClerk
  <2>3. UNCHANGED <<onHand, pendingOnHand, levelHolder, technician, stocktaker>>
    BY <1>2 DEF SaveModel, levelVars
  <2> QED BY <2>2, <2>3, LockKept DEF LockInv, NeverOverdrawn
<1>3. ASSUME NEW ln \in Lines, SaveLine(c, ln)
      PROVE  LockInv'
  <2>1. clerk'[c].seen = clerk[c].seen /\ ~Idle(c) /\ \A d \in Clerks \ {c} : clerk'[d] = clerk[d]
    BY <1>0, <1>3, ClerkFields DEF SaveLine, IsNext, Idle, BusyClerk
  <2>2. \A d \in Clerks : ~Idle(d)' => clerk'[d].seen >= 0
    BY <2>1 DEF LockInv, Idle
  <2>3. UNCHANGED <<onHand, pendingOnHand, levelHolder, technician, stocktaker>>
    BY <1>3 DEF SaveLine, levelVars
  <2> QED BY <2>2, <2>3, LockKept DEF LockInv, NeverOverdrawn
<1>4. ASSUME NEW ln \in Lines, DeleteLine(c, ln)
      PROVE  LockInv'
  <2>1. clerk'[c].seen = clerk[c].seen /\ ~Idle(c) /\ \A d \in Clerks \ {c} : clerk'[d] = clerk[d]
    BY <1>0, <1>4, ClerkFields DEF DeleteLine, IsNext, Idle, BusyClerk
  <2>2. \A d \in Clerks : ~Idle(d)' => clerk'[d].seen >= 0
    BY <2>1 DEF LockInv, Idle
  <2>3. UNCHANGED <<onHand, pendingOnHand, levelHolder, technician, stocktaker>>
    BY <1>4 DEF DeleteLine, levelVars
  <2> QED BY <2>2, <2>3, LockKept DEF LockInv, NeverOverdrawn
<1>5. CASE LineStep(c)
  BY <1>3, <1>4, <1>5, LockRollback DEF LineStep, RefuseLine
<1>6. CASE ReadLevel(c)
  <2> DEFINE l == LevelOf[clerk[c].line]
             q == IF levelHolder[l] = c THEN pendingOnHand[l] ELSE onHand[l]
  <2>1. ~Idle(c) /\ l \in Levels
    BY <1>6 DEF ReadLevel, Idle, TypeOK
  <2>2. q >= 0
    BY <2>1 DEF LockInv, NeverOverdrawn
  <2>3. clerk' = [clerk EXCEPT ![c] = [clerk[c] EXCEPT !.pc = "credit", !.seen = q]]
    BY <1>6 DEF ReadLevel
  <2>4. \A d \in Clerks : ~Idle(d)' => clerk'[d].seen >= 0
    <3> HIDE DEF q
    <3> QED BY <1>0, <2>1, <2>2, <2>3, ClerkFields DEF LockInv, Idle, BusyClerk
  <2>5. UNCHANGED <<onHand, technician, stocktaker>>
    BY <1>6 DEF ReadLevel
  <2>6. \/ UNCHANGED <<levelHolder, pendingOnHand>>
        \/ /\ levelHolder[l] = Nobody
           /\ levelHolder' = [levelHolder EXCEPT ![l] = c]
           /\ pendingOnHand' = [pendingOnHand EXCEPT ![l] = 0]
    BY <1>6 DEF ReadLevel
  <2> HIDE DEF l
  <2>7. \A m \in Levels : levelHolder[m] \in Technicians => levelHolder'[m] = levelHolder[m]
    BY <1>0, <2>1, <2>6
  <2>8. NeverOverdrawn'
    BY <1>0, <2>1, <2>5, <2>6 DEF LockInv, NeverOverdrawn
  <2> QED BY <2>4, <2>5, <2>7, <2>8, LockKept DEF LockInv
<1>7. CASE CreditLevel(c)
  <2> DEFINE l == LevelOf[clerk[c].line]
  <2>1. ~Idle(c) /\ l \in Levels
    BY <1>7 DEF CreditLevel, Idle, TypeOK
  <2>2. NewQuantity(c) \in Nat
    BY <2>1, ClerkFields DEF NewQuantity, LockInv
  <2>3. /\ levelHolder[l] \in {Nobody, c}
        /\ levelHolder' = [levelHolder EXCEPT ![l] = c]
        /\ pendingOnHand' = [pendingOnHand EXCEPT ![l] = NewQuantity(c)]
        /\ clerk' = [clerk EXCEPT ![c] = [clerk[c] EXCEPT !.pc = "lines"]]
        /\ UNCHANGED <<onHand, technician, stocktaker>>
    BY <1>7 DEF CreditLevel
  <2>4. \A d \in Clerks : ~Idle(d)' => clerk'[d].seen >= 0
    BY <1>0, <2>1, <2>3, ClerkFields DEF LockInv, Idle, BusyClerk
  <2> HIDE DEF l
  <2>5. \A m \in Levels : levelHolder[m] \in Technicians => levelHolder'[m] = levelHolder[m]
    BY <1>0, <2>1, <2>3
  <2>6. NeverOverdrawn'
    BY <1>0, <2>1, <2>2, <2>3 DEF LockInv, NeverOverdrawn
  <2> QED BY <2>3, <2>4, <2>5, <2>6, LockKept DEF LockInv
<1>8. CASE CommitPost(c)
  <2>1. /\ UNCHANGED <<technician, stocktaker>>
        /\ onHand' = [l \in Levels |-> IF l \in HeldBy(c) THEN pendingOnHand[l] ELSE onHand[l]]
        /\ levelHolder' = [l \in Levels |-> IF l \in HeldBy(c) THEN Nobody ELSE levelHolder[l]]
        /\ pendingOnHand' = [l \in Levels |-> IF l \in HeldBy(c) THEN 0 ELSE pendingOnHand[l]]
        /\ clerk' = [clerk EXCEPT ![c] = IdleClerk]
    BY <1>8 DEF CommitPost, Release
  <2>2. \A l \in Levels : levelHolder[l] \in Technicians =>
          levelHolder'[l] = levelHolder[l] /\ onHand'[l] = onHand[l]
    BY <2>1 DEF HeldBy
  <2>3. NeverOverdrawn'
    BY <2>1 DEF LockInv, NeverOverdrawn
  <2>4. \A d \in Clerks : ~Idle(d)' => clerk'[d].seen >= 0
    BY <1>0, <2>1 DEF LockInv, Idle
  <2> QED BY <2>1, <2>2, <2>3, <2>4, LockKept DEF LockInv
<1>9. CASE BreakDeadlock(c) \/ CrashPost(c)
  BY <1>9, LockRollback DEF BreakDeadlock, CrashPost
<1> QED BY <1>1, <1>2, <1>5, <1>6, <1>7, <1>8, <1>9, ClerkNext(c) DEF ClerkNext

LEMMA LockOffice ==
    ASSUME TypeOK, LockInv,
           \/ \E s \in Stocktakers : StocktakerNext(s)
           \/ \E p \in Planners : PlannerNext(p)
    PROVE  LockInv'
<1> USE InventoryAssumption
<1>1. ASSUME NEW s \in Stocktakers, NEW l \in Levels, OpenLevelForm(s, l)
      PROVE  LockInv'
  <2>1. UNCHANGED <<onHand, pendingOnHand, levelHolder, technician, clerk>>
    BY <1>1 DEF OpenLevelForm, levelVars
  <2>2. \A u \in Stocktakers : stocktaker'[u].pc # "idle" => stocktaker'[u].shown >= 0
    BY <1>1 DEF OpenLevelForm, TypeOK, LockInv, NeverOverdrawn
  <2> QED BY <2>1, <2>2, LockKept DEF LockInv, NeverOverdrawn, Idle
<1>2. ASSUME NEW s \in Stocktakers, NEW n \in Quantities \cup {stocktaker[s].shown}, SaveLevelForm(s, n)
      PROVE  LockInv'
  <2> DEFINE l == stocktaker[s].level
  <2>1. stocktaker[s] \in BusyStocktaker /\ l \in Levels /\ stocktaker[s].shown \in Int
    <3>1. stocktaker[s] \in BusyStocktaker
      BY <1>2 DEF SaveLevelForm, TypeOK
    <3> QED BY <3>1 DEF BusyStocktaker
  <2>2. n \in Int /\ n >= 0
    BY <1>2, <2>1 DEF SaveLevelForm, LockInv
  <2>3. /\ levelHolder[l] = Nobody
        /\ onHand' = [onHand EXCEPT ![l] = n]
        /\ stocktaker' = [stocktaker EXCEPT ![s] = IdleStocktaker]
        /\ UNCHANGED <<levelHolder, pendingOnHand, technician, clerk>>
    BY <1>2 DEF SaveLevelForm
  <2>4. \A u \in Stocktakers : stocktaker'[u].pc # "idle" => stocktaker'[u].shown >= 0
    BY <2>3 DEF TypeOK, LockInv
  <2> HIDE DEF l
  <2>5. \A m \in Levels : levelHolder[m] \in Technicians => onHand'[m] = onHand[m]
    BY <2>1, <2>3 DEF TypeOK
  <2>6. NeverOverdrawn'
    BY <2>1, <2>2, <2>3 DEF TypeOK, LockInv, NeverOverdrawn
  <2> QED BY <2>3, <2>4, <2>5, <2>6, LockKept DEF LockInv, Idle
<1>3. ASSUME NEW p \in Planners, PlannerNext(p)
      PROVE  LockInv'
  <2>1. UNCHANGED <<onHand, pendingOnHand, levelHolder, technician, clerk, stocktaker>>
    BY <1>3 DEF PlannerNext, Reserve, LoadReservation, CancelReservation, levelVars
  <2> QED BY <2>1, LockKept DEF LockInv, NeverOverdrawn, Idle
<1> QED BY <1>1, <1>2, <1>3 DEF StocktakerNext

LEMMA LockStep == TypeOK /\ LockInv /\ [Next]_vars => LockInv'
<1> SUFFICES ASSUME TypeOK, LockInv, [Next]_vars PROVE LockInv'
  OBVIOUS
<1>1. CASE UNCHANGED vars
  BY <1>1 DEF vars, levelVars, LockInv, LockedReadIsCurrent, NeverOverdrawn, Idle
<1>2. CASE Next
  BY <1>2, LockTechnician, LockClerk, LockOffice DEF Next
<1> QED BY <1>1, <1>2

(* What consume_stock reads under its lock stays true until it commits.      *)
THEOREM LockedReadsAreCurrent == Spec => []LockedReadIsCurrent
<1>1. LockInv => LockedReadIsCurrent
  BY DEF LockInv
<1> QED BY <1>1, LockInit, LockStep, TypeCorrect, PTL DEF Spec

(* No quantity on hand is ever negative, whoever works concurrently.         *)
THEOREM StockNeverOverdrawn == Spec => []NeverOverdrawn
<1>1. LockInv => NeverOverdrawn
  BY DEF LockInv
<1> QED BY <1>1, LockInit, LockStep, TypeCorrect, PTL DEF Spec

-----------------------------------------------------------------------------
(* Credits.  Two POSTs of one order are serialised by the order's row, so    *)
(* each line has at most one clerk between its row and its credit.           *)

LEMMA CreditInit == Init => CreditInv
BY InventoryAssumption DEF Init, CreditInv, CreditedOnce, Working, Crediting, Idle

(* Only steps of clerks touch orders, lines and credits. *)
LEMMA CreditOthers ==
    ASSUME CreditInv, UNCHANGED <<orderVars, clerk>>
    PROVE  CreditInv'
BY DEF CreditInv, CreditedOnce, Working, Crediting, Idle, orderVars

(* A rollback undoes the order its clerk holds, and leaves every other alone. *)
LEMMA CreditRollback ==
    ASSUME TypeOK, CreditInv, NEW c \in Clerks, ~Idle(c), Rollback(c)
    PROVE  CreditInv'
<1> USE InventoryAssumption
<1> DEFINE o == clerk[c].order
<1>0. /\ clerk \in [Clerks -> {IdleClerk} \cup BusyClerk]
      /\ orderHolder \in [Orders -> Clerks \cup {Nobody}]
      /\ OrderOf \in [Lines -> Orders]
      /\ o \in Orders
  BY ClerkFields DEF TypeOK
<1>1. /\ clerk' = [clerk EXCEPT ![c] = IdleClerk]
      /\ orderHolder' = [p \in Orders |-> IF orderHolder[p] = c THEN Nobody ELSE orderHolder[p]]
      /\ UNCHANGED <<line, credited>>
      /\ pendingLine' = [ln \in Lines |->
            IF orderHolder[o] = c /\ OrderOf[ln] = o THEN line[ln] ELSE pendingLine[ln]]
      /\ pendingCredited' = [ln \in Lines |->
            IF orderHolder[o] = c /\ OrderOf[ln] = o THEN credited[ln] ELSE pendingCredited[ln]]
  BY DEF Rollback, Release
<1>2. /\ \A p \in Orders : orderHolder[p] # Nobody =>
            Working(orderHolder[p]) /\ clerk[orderHolder[p]].order = p
      /\ \A p \in Orders : orderHolder[p] = c => p = o
      /\ \A d \in Clerks : Working(d) => orderHolder[clerk[d].order] = d
      /\ \A d \in Clerks, ln \in Lines : Crediting(d, ln) => OrderOf[ln] = clerk[d].order
  BY DEF CreditInv
<1>3. clerk'[c] = IdleClerk /\ \A d \in Clerks \ {c} : clerk'[d] = clerk[d]
  BY <1>0, <1>1
<1>4. \A ln \in Lines : Crediting(c, ln) => orderHolder[o] = c /\ OrderOf[ln] = o
  BY <1>2 DEF Crediting, Working
<1> HIDE DEF o
<1>5. \A d \in Clerks : Working(d)' => d # c /\ Working(d) /\ clerk'[d] = clerk[d]
  BY <1>3 DEF Working, IdleClerk
<1>6. \A d \in Clerks, ln \in Lines : Crediting(d, ln)' => d # c /\ Crediting(d, ln) /\ clerk'[d] = clerk[d]
  BY <1>3 DEF Crediting, IdleClerk
<1>7. \A d \in Clerks : Working(d)' => orderHolder'[clerk'[d].order] = d
  <2> SUFFICES ASSUME NEW d \in Clerks, Working(d)' PROVE orderHolder'[clerk'[d].order] = d
    OBVIOUS
  <2>1. d # c /\ Working(d) /\ clerk'[d] = clerk[d]
    BY <1>5
  <2>2. clerk[d].order \in Orders
    BY <2>1, ClerkFields DEF Working, Idle
  <2> QED BY <1>1, <1>2, <2>1, <2>2
<1>8. \A p \in Orders : orderHolder'[p] # Nobody =>
         Working(orderHolder[p])' /\ clerk'[orderHolder'[p]].order = p
  <2> SUFFICES ASSUME NEW p \in Orders, orderHolder'[p] # Nobody
               PROVE  Working(orderHolder[p])' /\ clerk'[orderHolder'[p]].order = p
    OBVIOUS
  <2> DEFINE d == orderHolder[p]
  <2>1. orderHolder'[p] = d /\ d # c /\ d \in Clerks
    BY <1>0, <1>1
  <2>2. clerk'[d] = clerk[d] /\ Working(d) /\ clerk[d].order = p
    BY <1>2, <1>3, <2>1
  <2> HIDE DEF d
  <2> QED BY <2>1, <2>2 DEF Working
<1>9. \A d \in Clerks : ~Idle(d)' => \A ln \in Lines :
          /\ clerk'[d].entries[ln].op # "keep" => OrderOf[ln] = clerk'[d].order
          /\ clerk'[d].entries[ln].op = "delete" => ln \in Deletable
  <2>1. \A d \in Clerks : ~Idle(d)' => ~Idle(d) /\ clerk'[d] = clerk[d]
    BY <1>3 DEF Idle, IdleClerk
  <2> QED BY <2>1 DEF CreditInv
<1>10. \A d \in Clerks, ln \in Lines : Crediting(d, ln)' =>
          /\ OrderOf[ln] = clerk'[d].order
          /\ OrderOf[ln] = o => orderHolder[o] # c
  <2> SUFFICES ASSUME NEW d \in Clerks, NEW ln \in Lines, Crediting(d, ln)'
               PROVE  /\ OrderOf[ln] = clerk'[d].order
                      /\ OrderOf[ln] = o => orderHolder[o] # c
    OBVIOUS
  <2>1. d # c /\ Crediting(d, ln) /\ clerk'[d] = clerk[d]
    BY <1>6
  <2>2. Working(d)
    BY <2>1 DEF Crediting, Working
  <2> QED BY <1>2, <2>1, <2>2
<1>11. \A ln \in Lines : orderHolder'[OrderOf[ln]] = Nobody =>
          pendingLine'[ln] = line'[ln] /\ pendingCredited'[ln] = credited'[ln]
  <2> SUFFICES ASSUME NEW ln \in Lines, orderHolder'[OrderOf[ln]] = Nobody
               PROVE  pendingLine'[ln] = line'[ln] /\ pendingCredited'[ln] = credited'[ln]
    OBVIOUS
  <2>1. OrderOf[ln] \in Orders
    BY <1>0
  <2>2. CASE orderHolder[OrderOf[ln]] = c
    BY <1>1, <1>2, <2>1, <2>2
  <2>3. CASE orderHolder[OrderOf[ln]] = Nobody
    BY <1>1, <2>1, <2>3 DEF CreditInv
  <2> QED BY <1>1, <2>1, <2>2, <2>3
<1>12. \A ln \in Lines \ Deletable, d \in Clerks : Crediting(d, ln)' =>
          pendingLine'[ln].received = pendingCredited'[ln] + clerk'[d].delta
  BY <1>1, <1>6, <1>10 DEF CreditInv
<1>13. \A ln \in Lines \ Deletable : (\A d \in Clerks : ~Crediting(d, ln)') =>
          pendingLine'[ln].received = pendingCredited'[ln]
  <2> SUFFICES ASSUME NEW ln \in Lines \ Deletable, \A d \in Clerks : ~Crediting(d, ln)'
               PROVE  pendingLine'[ln].received = pendingCredited'[ln]
    OBVIOUS
  <2>1. line[ln].received = credited[ln]
    BY DEF CreditInv, CreditedOnce
  <2>2. CASE Crediting(c, ln)
    BY <1>1, <1>4, <2>1, <2>2
  <2>3. CASE ~Crediting(c, ln)
    <3>1. \A d \in Clerks : ~Crediting(d, ln)
      BY <1>3, <2>3 DEF Crediting
    <3> QED BY <1>1, <2>1, <3>1 DEF CreditInv
  <2> QED BY <2>2, <2>3
<1>14. /\ \A ln \in Lines \ Deletable : pendingLine'[ln].state # "deleted"
       /\ \A ln \in Lines : pendingLine'[ln].state = "unsaved" => pendingLine'[ln].received = 0
  BY <1>1 DEF CreditInv
<1>15. /\ \A ln \in Lines : line'[ln].state = "unsaved" => line'[ln].received = 0
       /\ \A ln \in Lines \ Deletable : line'[ln].state # "deleted"
       /\ CreditedOnce'
  BY <1>1 DEF CreditInv, CreditedOnce
<1> QED BY <1>7, <1>8, <1>9, <1>10, <1>11, <1>12, <1>13, <1>14, <1>15 DEF CreditInv

(* The parts of CreditInv that speak of one clerk and one line. *)
LEMMA CreditFacts ==
    ASSUME CreditInv, NEW c \in Clerks, NEW ln \in Lines
    PROVE  /\ Working(c) => orderHolder[clerk[c].order] = c
           /\ ~Idle(c) => /\ clerk[c].entries[ln].op # "keep" => OrderOf[ln] = clerk[c].order
                          /\ clerk[c].entries[ln].op = "delete" => ln \in Deletable
           /\ Crediting(c, ln) => Working(c) /\ OrderOf[ln] = clerk[c].order
           /\ Crediting(c, ln) /\ ln \notin Deletable =>
                  pendingLine[ln].received = pendingCredited[ln] + clerk[c].delta
<1>1. Working(c) => orderHolder[clerk[c].order] = c
  BY DEF CreditInv
<1>2. ~Idle(c) => /\ clerk[c].entries[ln].op # "keep" => OrderOf[ln] = clerk[c].order
                  /\ clerk[c].entries[ln].op = "delete" => ln \in Deletable
  BY DEF CreditInv
<1>3. Crediting(c, ln) => Working(c)
  BY DEF Crediting, Working
<1>4. Crediting(c, ln) => OrderOf[ln] = clerk[c].order
  BY DEF CreditInv
<1>5. Crediting(c, ln) /\ ln \notin Deletable =>
          pendingLine[ln].received = pendingCredited[ln] + clerk[c].delta
  BY DEF CreditInv
<1> QED BY <1>1, <1>2, <1>3, <1>4, <1>5

(* A clerk who works on within the order keeps the books of who holds what.  *)
LEMMA CreditHolders ==
    ASSUME TypeOK, CreditInv, NEW c \in Clerks, Working(c), Working(c)',
           clerk'[c].order = clerk[c].order,
           \A ln \in Lines : clerk'[c].entries[ln] \in {clerk[c].entries[ln], Keep},
           \A d \in Clerks \ {c} : clerk'[d] = clerk[d], UNCHANGED orderHolder
    PROVE  /\ \A d \in Clerks : Working(d)' => orderHolder'[clerk'[d].order] = d
           /\ \A p \in Orders : orderHolder'[p] # Nobody =>
                Working(orderHolder[p])' /\ clerk'[orderHolder'[p]].order = p
           /\ \A d \in Clerks : ~Idle(d)' => \A ln \in Lines :
                /\ clerk'[d].entries[ln].op # "keep" => OrderOf[ln] = clerk'[d].order
                /\ clerk'[d].entries[ln].op = "delete" => ln \in Deletable
           /\ \A d \in Clerks \ {c}, ln \in Lines : Crediting(d, ln)' =>
                Crediting(d, ln) /\ clerk'[d] = clerk[d] /\ OrderOf[ln] # clerk[c].order
<1>1. \A d \in Clerks : Working(d) => orderHolder[clerk[d].order] = d
  BY DEF CreditInv
<1>2. \A d \in Clerks : Working(d)' => orderHolder'[clerk'[d].order] = d
  BY <1>1 DEF Working
<1>3. \A p \in Orders : orderHolder'[p] # Nobody =>
          Working(orderHolder[p])' /\ clerk'[orderHolder'[p]].order = p
  <2>1. \A p \in Orders : orderHolder[p] \in Clerks \cup {Nobody}
    BY DEF TypeOK
  <2> QED BY <2>1 DEF CreditInv, Working
<1>4. ~Idle(c)
  BY DEF Working, Idle
<1>5. \A d \in Clerks : ~Idle(d)' => \A ln \in Lines :
          /\ clerk'[d].entries[ln].op # "keep" => OrderOf[ln] = clerk'[d].order
          /\ clerk'[d].entries[ln].op = "delete" => ln \in Deletable
  <2>1. \A ln \in Lines :
          /\ clerk'[c].entries[ln].op # "keep" => OrderOf[ln] = clerk'[c].order
          /\ clerk'[c].entries[ln].op = "delete" => ln \in Deletable
    BY <1>4 DEF CreditInv, Keep
  <2> QED BY <2>1 DEF CreditInv, Idle
<1>6. \A d \in Clerks \ {c}, ln \in Lines : Crediting(d, ln)' =>
          Crediting(d, ln) /\ clerk'[d] = clerk[d] /\ OrderOf[ln] # clerk[c].order
  <2> SUFFICES ASSUME NEW d \in Clerks \ {c}, NEW ln \in Lines, Crediting(d, ln)'
               PROVE  Crediting(d, ln) /\ clerk'[d] = clerk[d] /\ OrderOf[ln] # clerk[c].order
    OBVIOUS
  <2>1. Crediting(d, ln) /\ clerk'[d] = clerk[d]
    BY DEF Crediting
  <2>2. Working(d) /\ OrderOf[ln] = clerk[d].order
    BY <2>1 DEF Crediting, Working, CreditInv
  <2> QED BY <1>1, <2>1, <2>2
<1> QED BY <1>2, <1>3, <1>5, <1>6

(* Opening a form touches nothing but the clerk's own memory.                *)
LEMMA CreditPost ==
    ASSUME TypeOK, CreditInv, NEW c \in Clerks, NEW o \in Orders, NEW st, NEW entries,
           Post(c, o, st, entries)
    PROVE  CreditInv'
<1>1. /\ Idle(c) /\ UNCHANGED orderVars
      /\ \A ln \in Lines : OrderOf[ln] # o => entries[ln] = Keep
      /\ \A ln \in Lines : entries[ln].op = "delete" => ln \in Deletable
  BY DEF Post
<1> DEFINE b == [pc |-> "model", order |-> o, status |-> st,
                 entries |-> entries, line |-> 0, delta |-> 0, seen |-> 0]
<1>2. clerk' = [clerk EXCEPT ![c] = b]
  BY DEF Post
<1>3. b.pc = "model" /\ b.order = o /\ b.entries = entries
  OBVIOUS
<1> HIDE DEF b
<1>4. clerk'[c] = b /\ \A d \in Clerks \ {c} : clerk'[d] = clerk[d]
  BY <1>2 DEF TypeOK
<1>5. \A d \in Clerks : (Working(d)' <=> Working(d)) /\ (Working(d) => clerk'[d] = clerk[d])
  BY <1>1, <1>3, <1>4 DEF Working, Idle
<1>6. \A d \in Clerks, ln \in Lines :
          (Crediting(d, ln)' <=> Crediting(d, ln)) /\ (Crediting(d, ln) => clerk'[d] = clerk[d])
  BY <1>1, <1>3, <1>4 DEF Crediting, Idle
<1>7. \A ln \in Lines :
          /\ b.entries[ln].op # "keep" => OrderOf[ln] = b.order
          /\ b.entries[ln].op = "delete" => ln \in Deletable
  BY <1>1, <1>3 DEF Keep
<1>8. \A d \in Clerks : ~Idle(d)' => \A ln \in Lines :
          /\ clerk'[d].entries[ln].op # "keep" => OrderOf[ln] = clerk'[d].order
          /\ clerk'[d].entries[ln].op = "delete" => ln \in Deletable
  BY <1>4, <1>7 DEF CreditInv, Idle
<1>9. \A p \in Orders : orderHolder'[p] # Nobody =>
          Working(orderHolder[p])' /\ clerk'[orderHolder'[p]].order = p
  <2>1. \A p \in Orders : orderHolder'[p] = orderHolder[p] /\ orderHolder[p] \in Clerks \cup {Nobody}
    BY <1>1 DEF orderVars, TypeOK
  <2>2. \A p \in Orders : orderHolder[p] # Nobody =>
          Working(orderHolder[p]) /\ clerk[orderHolder[p]].order = p
    BY DEF CreditInv
  <2>3. UNCHANGED orderHolder
    BY <1>1 DEF orderVars
  <2> QED BY <1>4, <1>5, <2>1, <2>2, <2>3 DEF Working
<1>10. /\ \A d \in Clerks : Working(d)' => orderHolder'[clerk'[d].order] = d
       /\ \A d \in Clerks, ln \in Lines : Crediting(d, ln)' => OrderOf[ln] = clerk'[d].order
       /\ \A ln \in Lines \ Deletable, d \in Clerks : Crediting(d, ln)' =>
             pendingLine'[ln].received = pendingCredited'[ln] + clerk'[d].delta
       /\ \A ln \in Lines \ Deletable : (\A d \in Clerks : ~Crediting(d, ln)') =>
             pendingLine'[ln].received = pendingCredited'[ln]
  BY <1>1, <1>5, <1>6 DEF CreditInv, orderVars
<1> QED BY <1>1, <1>8, <1>9, <1>10 DEF CreditInv, CreditedOnce, orderVars

(* Taking an order's row: nobody works on the order, and now one clerk does. *)
LEMMA CreditSaveModel ==
    ASSUME TypeOK, CreditInv, NEW c \in Clerks, SaveModel(c)
    PROVE  CreditInv'
<1> USE InventoryAssumption
<1> DEFINE o == clerk[c].order
           b == [clerk[c] EXCEPT !.pc = "lines"]
<1>1. /\ clerk[c].pc = "model" /\ orderHolder[o] = Nobody
      /\ orderHolder' = [orderHolder EXCEPT ![o] = c]
      /\ clerk' = [clerk EXCEPT ![c] = b]
      /\ UNCHANGED <<line, pendingLine, credited, pendingCredited>>
  BY DEF SaveModel, OrderGranted
<1>2. ~Idle(c) /\ ~Working(c) /\ \A ln \in Lines : ~Crediting(c, ln)
  BY <1>1 DEF Idle, Working, Crediting
<1>3. /\ o \in Orders /\ b.pc = "lines" /\ b.order = o /\ b.entries = clerk[c].entries
      /\ orderHolder \in [Orders -> Clerks \cup {Nobody}]
      /\ \A ln \in Lines : OrderOf[ln] \in Orders
  BY <1>1, <1>2, ClerkFields DEF BusyClerk, TypeOK
<1> HIDE DEF o, b
<1>4. clerk'[c] = b /\ \A d \in Clerks \ {c} : clerk'[d] = clerk[d]
  BY <1>1 DEF TypeOK
<1>5. \A d \in Clerks : Working(d)' => orderHolder'[clerk'[d].order] = d
  <2> SUFFICES ASSUME NEW d \in Clerks, Working(d)' PROVE orderHolder'[clerk'[d].order] = d
    OBVIOUS
  <2>1. CASE d = c
    BY <1>1, <1>3, <1>4, <2>1
  <2>2. CASE d # c
    <3>1. Working(d) /\ clerk'[d] = clerk[d] /\ ~Idle(d)
      BY <1>4, <2>2 DEF Working, Idle
    <3>2. clerk[d].order \in Orders /\ orderHolder[clerk[d].order] = d
      BY <3>1, ClerkFields DEF CreditInv
    <3> QED BY <1>1, <1>3, <3>1, <3>2
  <2> QED BY <2>1, <2>2
<1>6. \A p \in Orders : orderHolder'[p] # Nobody =>
          Working(orderHolder[p])' /\ clerk'[orderHolder'[p]].order = p
  <2> SUFFICES ASSUME NEW p \in Orders, orderHolder'[p] # Nobody
               PROVE  Working(orderHolder[p])' /\ clerk'[orderHolder'[p]].order = p
    OBVIOUS
  <2>1. CASE p = o
    BY <1>1, <1>3, <1>4, <2>1 DEF Working
  <2>2. CASE p # o
    <3>1. orderHolder'[p] = orderHolder[p] /\ orderHolder[p] \in Clerks
      BY <1>1, <1>3, <2>2
    <3>2. Working(orderHolder[p]) /\ clerk[orderHolder[p]].order = p
      BY <3>1 DEF CreditInv
    <3> QED BY <1>2, <1>4, <3>1, <3>2 DEF Working
  <2> QED BY <2>1, <2>2
<1>7. \A d \in Clerks : ~Idle(d)' => \A ln \in Lines :
          /\ clerk'[d].entries[ln].op # "keep" => OrderOf[ln] = clerk'[d].order
          /\ clerk'[d].entries[ln].op = "delete" => ln \in Deletable
  <2>1. \A ln \in Lines :
          /\ b.entries[ln].op # "keep" => OrderOf[ln] = b.order
          /\ b.entries[ln].op = "delete" => ln \in Deletable
    <3> SUFFICES ASSUME NEW ln \in Lines
                 PROVE  /\ b.entries[ln].op # "keep" => OrderOf[ln] = b.order
                        /\ b.entries[ln].op = "delete" => ln \in Deletable
      OBVIOUS
    <3>1. /\ clerk[c].entries[ln].op # "keep" => OrderOf[ln] = clerk[c].order
          /\ clerk[c].entries[ln].op = "delete" => ln \in Deletable
      BY <1>2, CreditFacts
    <3>2. b.order = clerk[c].order
      BY <1>3 DEF o
    <3> QED BY <1>3, <3>1, <3>2
  <2>2. \A d \in Clerks \ {c} : ~Idle(d)' => ~Idle(d)
    BY <1>4 DEF Idle
  <2> QED BY <1>4, <2>1, <2>2 DEF CreditInv
<1>8. \A d \in Clerks, ln \in Lines :
          (Crediting(d, ln)' <=> Crediting(d, ln)) /\ (Crediting(d, ln) => clerk'[d] = clerk[d])
  BY <1>2, <1>3, <1>4 DEF Crediting
<1>9. \A ln \in Lines : orderHolder'[OrderOf[ln]] = Nobody =>
          pendingLine'[ln] = line'[ln] /\ pendingCredited'[ln] = credited'[ln]
  BY <1>1, <1>3 DEF CreditInv
<1>10. /\ \A d \in Clerks, ln \in Lines : Crediting(d, ln)' => OrderOf[ln] = clerk'[d].order
       /\ \A ln \in Lines \ Deletable, d \in Clerks : Crediting(d, ln)' =>
             pendingLine'[ln].received = pendingCredited'[ln] + clerk'[d].delta
       /\ \A ln \in Lines \ Deletable : (\A d \in Clerks : ~Crediting(d, ln)') =>
             pendingLine'[ln].received = pendingCredited'[ln]
  BY <1>1, <1>8 DEF CreditInv
<1> QED BY <1>1, <1>5, <1>6, <1>7, <1>9, <1>10 DEF CreditInv, CreditedOnce

(* A saved line counts as received what it credited before and the delta.    *)
LEMMA CreditSaveLine ==
    ASSUME TypeOK, CreditInv, NEW c \in Clerks, NEW ln \in Lines, SaveLine(c, ln)
    PROVE  CreditInv'
<1> USE InventoryAssumption
<1> DEFINE e == clerk[c].entries[ln]
           o == clerk[c].order
           delta == e.received - PreviousReceived(ln)
           next == IF delta = 0 THEN "lines" ELSE "read"
           b == [clerk[c] EXCEPT !.pc = next, !.entries = [clerk[c].entries EXCEPT ![ln] = Keep],
                                 !.line = ln, !.delta = delta]
           row == [state |-> "saved", ordered |-> e.ordered, received |-> e.received]
<1>1. /\ clerk[c].pc = "lines" /\ e.op = "save"
      /\ pendingLine' = [pendingLine EXCEPT ![ln] = row]
      /\ clerk' = [clerk EXCEPT ![c] = b]
      /\ UNCHANGED <<orderHolder, line, credited, pendingCredited>>
  BY DEF SaveLine, IsNext
<1>2. Working(c) /\ ~Idle(c) /\ \A k \in Lines : ~Crediting(c, k)
  BY <1>1 DEF Working, Idle, Crediting
<1>3. clerk[c] \in BusyClerk /\ clerk[c].entries \in [Lines -> Entry]
  BY <1>2, ClerkFields
<1>4. /\ b.pc = next /\ b.order = o /\ b.line = ln /\ b.delta = delta
      /\ \A k \in Lines : b.entries[k] \in {clerk[c].entries[k], Keep}
  BY <1>3 DEF BusyClerk
<1>5. next \in {"lines", "read", "credit"} /\ (next \in {"read", "credit"} <=> delta # 0)
  OBVIOUS
<1>6. e.received \in Nat /\ PreviousReceived(ln) \in Nat
  <2>1. e \in Entry /\ pendingLine[ln] \in LineRow
    BY <1>3 DEF TypeOK
  <2> QED BY <2>1 DEF Entry, LineRow, PreviousReceived
<1>7. OrderOf[ln] = o /\ OrderOf[ln] \in Orders
  BY <1>1, <1>2 DEF CreditInv
<1>8. orderHolder[OrderOf[ln]] = c
  BY <1>2, <1>7 DEF CreditInv
<1>9. ln \notin Deletable => PreviousReceived(ln) = pendingCredited[ln]
  <2>1. SUFFICES ASSUME ln \notin Deletable PROVE PreviousReceived(ln) = pendingCredited[ln]
    OBVIOUS
  <2>2. \A d \in Clerks : ~Crediting(d, ln)
    <3> SUFFICES ASSUME NEW d \in Clerks, Crediting(d, ln) PROVE FALSE
      OBVIOUS
    <3>1. Working(d) /\ clerk[d].order = o
      BY <1>7 DEF Crediting, Working, CreditInv
    <3>2. d = c
      BY <1>7, <1>8, <3>1 DEF CreditInv
    <3> QED BY <1>2, <3>2
  <2>3. pendingLine[ln].received = pendingCredited[ln]
    BY <2>1, <2>2 DEF CreditInv
  <2>4. pendingLine[ln].state \in {"unsaved", "saved"}
    BY <2>1 DEF TypeOK, LineRow, CreditInv
  <2> QED BY <2>1, <2>3, <2>4 DEF CreditInv, PreviousReceived
<1>10. /\ row.received = e.received /\ row.state = "saved"
       /\ pendingLine'[ln] = row /\ \A k \in Lines \ {ln} : pendingLine'[k] = pendingLine[k]
  BY <1>1 DEF TypeOK
<1> HIDE DEF b, row, next
<1>11. /\ \A d \in Clerks : Working(d)' => orderHolder'[clerk'[d].order] = d
       /\ \A p \in Orders : orderHolder'[p] # Nobody =>
            Working(orderHolder[p])' /\ clerk'[orderHolder'[p]].order = p
       /\ \A d \in Clerks : ~Idle(d)' => \A k \in Lines :
            /\ clerk'[d].entries[k].op # "keep" => OrderOf[k] = clerk'[d].order
            /\ clerk'[d].entries[k].op = "delete" => k \in Deletable
       /\ \A d \in Clerks \ {c}, k \in Lines : Crediting(d, k)' =>
            Crediting(d, k) /\ clerk'[d] = clerk[d] /\ OrderOf[k] # clerk[c].order
  <2>1. clerk'[c] = b /\ \A d \in Clerks \ {c} : clerk'[d] = clerk[d]
    BY <1>1 DEF TypeOK
  <2>2. Working(c)' /\ clerk'[c].order = clerk[c].order
    BY <1>4, <1>5, <2>1 DEF Working
  <2>3. \A k \in Lines : clerk'[c].entries[k] \in {clerk[c].entries[k], Keep}
    BY <1>4, <2>1
  <2> QED BY <1>1, <1>2, <2>1, <2>2, <2>3, CreditHolders
<1>12. clerk'[c] = b /\ \A d \in Clerks \ {c} : clerk'[d] = clerk[d]
  BY <1>1 DEF TypeOK
<1>13. \A k \in Lines : Crediting(c, k)' <=> delta # 0 /\ k = ln
  BY <1>4, <1>5, <1>12 DEF Crediting
<1> HIDE DEF delta, e, o
<1>14. \A d \in Clerks, k \in Lines : Crediting(d, k)' => OrderOf[k] = clerk'[d].order
  BY <1>4, <1>7, <1>11, <1>12, <1>13 DEF CreditInv
<1>15. \A k \in Lines \ Deletable, d \in Clerks : Crediting(d, k)' =>
          pendingLine'[k].received = pendingCredited'[k] + clerk'[d].delta
  <2> SUFFICES ASSUME NEW k \in Lines \ Deletable, NEW d \in Clerks, Crediting(d, k)'
               PROVE  pendingLine'[k].received = pendingCredited'[k] + clerk'[d].delta
    OBVIOUS
  <2>1. CASE d = c
    <3>1. k = ln /\ clerk'[d].delta = e.received - pendingCredited[ln]
      BY <1>4, <1>9, <1>12, <1>13, <2>1 DEF delta
    <3>2. pendingCredited[ln] \in Nat
      BY DEF TypeOK
    <3> QED BY <1>1, <1>6, <1>10, <3>1, <3>2
  <2>2. CASE d # c
    <3>1. Crediting(d, k) /\ clerk'[d] = clerk[d] /\ k # ln
      BY <1>7, <1>11, <2>2 DEF o
    <3> QED BY <1>1, <1>10, <3>1 DEF CreditInv
  <2> QED BY <2>1, <2>2
<1>16. \A k \in Lines \ Deletable : (\A d \in Clerks : ~Crediting(d, k)') =>
          pendingLine'[k].received = pendingCredited'[k]
  <2> SUFFICES ASSUME NEW k \in Lines \ Deletable, \A d \in Clerks : ~Crediting(d, k)'
               PROVE  pendingLine'[k].received = pendingCredited'[k]
    OBVIOUS
  <2>1. CASE k = ln
    <3>1. e.received - pendingCredited[ln] = 0
      BY <1>9, <1>13, <2>1 DEF delta
    <3>2. pendingCredited[ln] \in Nat
      BY DEF TypeOK
    <3> QED BY <1>1, <1>6, <1>10, <2>1, <3>1, <3>2
  <2>2. CASE k # ln
    <3>1. \A d \in Clerks : ~Crediting(d, k)
      BY <1>2, <1>12 DEF Crediting
    <3>2. pendingLine[k].received = pendingCredited[k]
      BY <3>1 DEF CreditInv
    <3>3. pendingLine'[k] = pendingLine[k] /\ pendingCredited'[k] = pendingCredited[k]
      BY <1>1, <1>10, <2>2
    <3> QED BY <3>2, <3>3
  <2> QED BY <2>1, <2>2
<1>17. \A k \in Lines : orderHolder'[OrderOf[k]] = Nobody =>
          pendingLine'[k] = line'[k] /\ pendingCredited'[k] = credited'[k]
  BY <1>1, <1>8, <1>10 DEF CreditInv
<1>18. /\ \A k \in Lines \ Deletable : pendingLine'[k].state # "deleted"
       /\ \A k \in Lines : pendingLine'[k].state = "unsaved" => pendingLine'[k].received = 0
  <2>1. \A k \in Lines : pendingLine'[k] = pendingLine[k] \/ pendingLine'[k].state = "saved"
    BY <1>10
  <2>2. /\ \A k \in Lines \ Deletable : pendingLine[k].state # "deleted"
        /\ \A k \in Lines : pendingLine[k].state = "unsaved" => pendingLine[k].received = 0
    BY DEF CreditInv
  <2> QED BY <2>1, <2>2
<1> QED BY <1>1, <1>11, <1>14, <1>15, <1>16, <1>17, <1>18 DEF CreditInv, CreditedOnce

LEMMA CreditDeleteLine ==
    ASSUME TypeOK, CreditInv, NEW c \in Clerks, NEW ln \in Lines, DeleteLine(c, ln)
    PROVE  CreditInv'
<1> USE InventoryAssumption
<1> DEFINE b == [clerk[c] EXCEPT !.entries = [clerk[c].entries EXCEPT ![ln] = Keep]]
           row == [pendingLine[ln] EXCEPT !.state = "deleted"]
<1>1. /\ clerk[c].pc = "lines" /\ clerk[c].entries[ln].op = "delete"
      /\ pendingLine' = [pendingLine EXCEPT ![ln] = row]
      /\ clerk' = [clerk EXCEPT ![c] = b]
      /\ UNCHANGED <<orderHolder, line, credited, pendingCredited>>
  BY DEF DeleteLine, IsNext
<1>2. Working(c) /\ ~Idle(c) /\ \A k \in Lines : ~Crediting(c, k)
  BY <1>1 DEF Working, Idle, Crediting
<1>3. /\ b.pc = "lines" /\ b.order = clerk[c].order
      /\ \A k \in Lines : b.entries[k] \in {clerk[c].entries[k], Keep}
  <2>1. clerk[c] \in BusyClerk /\ clerk[c].entries \in [Lines -> Entry]
    BY <1>2, ClerkFields
  <2> QED BY <1>1, <2>1 DEF BusyClerk
<1>4. ln \in Deletable /\ orderHolder[OrderOf[ln]] = c
  BY <1>1, <1>2 DEF CreditInv
<1>5. row.state = "deleted"
  BY DEF TypeOK, LineRow
<1> HIDE DEF b, row
<1>6. clerk'[c] = b /\ \A d \in Clerks \ {c} : clerk'[d] = clerk[d]
  BY <1>1 DEF TypeOK
<1>7. pendingLine'[ln] = row /\ \A k \in Lines \ {ln} : pendingLine'[k] = pendingLine[k]
  BY <1>1 DEF TypeOK
<1>8. Working(c)'
  BY <1>3, <1>6 DEF Working
<1>9. \A d \in Clerks, k \in Lines :
          (Crediting(d, k)' <=> Crediting(d, k)) /\ (Crediting(d, k) => clerk'[d] = clerk[d])
  BY <1>2, <1>3, <1>6 DEF Crediting
<1>10. \A k \in Lines : orderHolder'[OrderOf[k]] = Nobody =>
          pendingLine'[k] = line'[k] /\ pendingCredited'[k] = credited'[k]
  BY <1>1, <1>4, <1>7 DEF CreditInv
<1>11. /\ \A d \in Clerks : Working(d)' => orderHolder'[clerk'[d].order] = d
       /\ \A p \in Orders : orderHolder'[p] # Nobody =>
            Working(orderHolder[p])' /\ clerk'[orderHolder'[p]].order = p
       /\ \A d \in Clerks : ~Idle(d)' => \A k \in Lines :
            /\ clerk'[d].entries[k].op # "keep" => OrderOf[k] = clerk'[d].order
            /\ clerk'[d].entries[k].op = "delete" => k \in Deletable
  <2>1. /\ clerk'[c].order = clerk[c].order
        /\ \A k \in Lines : clerk'[c].entries[k] \in {clerk[c].entries[k], Keep}
    BY <1>3, <1>6
  <2> QED BY <1>1, <1>2, <1>6, <1>8, <2>1, CreditHolders
<1>12. /\ \A k \in Lines \ Deletable : pendingLine'[k] = pendingLine[k]
       /\ \A k \in Lines : pendingLine'[k].state = "unsaved" => pendingLine'[k] = pendingLine[k]
  BY <1>4, <1>5, <1>7
<1>13. /\ \A d \in Clerks, k \in Lines : Crediting(d, k)' => OrderOf[k] = clerk'[d].order
       /\ \A k \in Lines \ Deletable, d \in Clerks : Crediting(d, k)' =>
             pendingLine'[k].received = pendingCredited'[k] + clerk'[d].delta
       /\ \A k \in Lines \ Deletable : (\A d \in Clerks : ~Crediting(d, k)') =>
             pendingLine'[k].received = pendingCredited'[k]
       /\ \A k \in Lines \ Deletable : pendingLine'[k].state # "deleted"
       /\ \A k \in Lines : pendingLine'[k].state = "unsaved" => pendingLine'[k].received = 0
  BY <1>1, <1>9, <1>12 DEF CreditInv
<1> QED BY <1>1, <1>10, <1>11, <1>13 DEF CreditInv, CreditedOnce

LEMMA CreditReadLevel ==
    ASSUME TypeOK, CreditInv, NEW c \in Clerks, ReadLevel(c)
    PROVE  CreditInv'
<1> DEFINE l == LevelOf[clerk[c].line]
           seen == IF levelHolder[l] = c THEN pendingOnHand[l] ELSE onHand[l]
           b == [clerk[c] EXCEPT !.pc = "credit", !.seen = seen]
<1>1. /\ clerk[c].pc = "read"
      /\ clerk' = [clerk EXCEPT ![c] = b]
      /\ UNCHANGED orderVars
  BY DEF ReadLevel
<1>2. Working(c) /\ ~Idle(c)
  BY <1>1 DEF Working, Idle
<1>3. /\ b.pc = "credit" /\ b.order = clerk[c].order /\ b.entries = clerk[c].entries
      /\ b.line = clerk[c].line /\ b.delta = clerk[c].delta
  <2>1. clerk[c] \in BusyClerk
    BY <1>2, ClerkFields
  <2> HIDE DEF seen
  <2> QED BY <2>1 DEF BusyClerk
<1> HIDE DEF b
<1>4. clerk'[c] = b /\ \A d \in Clerks \ {c} : clerk'[d] = clerk[d]
  BY <1>1 DEF TypeOK
<1>5. Working(c)' /\ UNCHANGED orderHolder
  BY <1>1, <1>3, <1>4 DEF Working, orderVars
<1>6. \A d \in Clerks, k \in Lines :
          /\ Crediting(d, k)' <=> Crediting(d, k)
          /\ Crediting(d, k) => clerk'[d].order = clerk[d].order /\ clerk'[d].delta = clerk[d].delta
  BY <1>1, <1>3, <1>4 DEF Crediting
<1>7. /\ \A d \in Clerks : Working(d)' => orderHolder'[clerk'[d].order] = d
      /\ \A p \in Orders : orderHolder'[p] # Nobody =>
            Working(orderHolder[p])' /\ clerk'[orderHolder'[p]].order = p
      /\ \A d \in Clerks : ~Idle(d)' => \A k \in Lines :
            /\ clerk'[d].entries[k].op # "keep" => OrderOf[k] = clerk'[d].order
            /\ clerk'[d].entries[k].op = "delete" => k \in Deletable
  <2>1. /\ clerk'[c].order = clerk[c].order
        /\ \A k \in Lines : clerk'[c].entries[k] \in {clerk[c].entries[k], Keep}
    BY <1>3, <1>4
  <2> QED BY <1>2, <1>4, <1>5, <2>1, CreditHolders
<1>8. /\ \A d \in Clerks, k \in Lines : Crediting(d, k)' => OrderOf[k] = clerk'[d].order
      /\ \A k \in Lines \ Deletable, d \in Clerks : Crediting(d, k)' =>
            pendingLine'[k].received = pendingCredited'[k] + clerk'[d].delta
      /\ \A k \in Lines \ Deletable : (\A d \in Clerks : ~Crediting(d, k)') =>
            pendingLine'[k].received = pendingCredited'[k]
  BY <1>1, <1>6 DEF CreditInv, orderVars
<1> QED BY <1>1, <1>7, <1>8 DEF CreditInv, CreditedOnce, orderVars

(* The delta goes on the shelf: the line's books agree again.                *)
LEMMA CreditCreditLevel ==
    ASSUME TypeOK, CreditInv, NEW c \in Clerks, CreditLevel(c)
    PROVE  CreditInv'
<1> USE InventoryAssumption
<1> DEFINE ln == clerk[c].line
           b == [clerk[c] EXCEPT !.pc = "lines"]
<1>1. /\ clerk[c].pc = "credit"
      /\ pendingCredited' = [pendingCredited EXCEPT ![ln] = pendingCredited[ln] + clerk[c].delta]
      /\ clerk' = [clerk EXCEPT ![c] = b]
      /\ UNCHANGED <<orderHolder, line, credited, pendingLine>>
  BY DEF CreditLevel
<1>2. Working(c) /\ ~Idle(c) /\ ln \in Lines /\ Crediting(c, ln)
  BY <1>1 DEF Working, Idle, Crediting, TypeOK
<1>3. b.pc = "lines" /\ b.order = clerk[c].order /\ b.entries = clerk[c].entries
  <2>1. clerk[c] \in BusyClerk
    BY <1>2, ClerkFields
  <2> QED BY <2>1 DEF BusyClerk
<1> HIDE DEF b
<1>4. clerk'[c] = b /\ \A d \in Clerks \ {c} : clerk'[d] = clerk[d]
  BY <1>1 DEF TypeOK
<1>5. Working(c)'
  BY <1>3, <1>4 DEF Working
<1>6. /\ \A d \in Clerks : Working(d)' => orderHolder'[clerk'[d].order] = d
      /\ \A p \in Orders : orderHolder'[p] # Nobody =>
            Working(orderHolder[p])' /\ clerk'[orderHolder'[p]].order = p
      /\ \A d \in Clerks : ~Idle(d)' => \A k \in Lines :
            /\ clerk'[d].entries[k].op # "keep" => OrderOf[k] = clerk'[d].order
            /\ clerk'[d].entries[k].op = "delete" => k \in Deletable
      /\ \A d \in Clerks \ {c}, k \in Lines : Crediting(d, k)' =>
            Crediting(d, k) /\ clerk'[d] = clerk[d] /\ OrderOf[k] # clerk[c].order
  <2>1. /\ clerk'[c].order = clerk[c].order
        /\ \A k \in Lines : clerk'[c].entries[k] \in {clerk[c].entries[k], Keep}
    BY <1>3, <1>4
  <2> QED BY <1>1, <1>2, <1>4, <1>5, <2>1, CreditHolders
<1>7. \A k \in Lines : ~Crediting(c, k)'
  BY <1>3, <1>4 DEF Crediting
<1> HIDE DEF ln
<1>8. OrderOf[ln] = clerk[c].order /\ orderHolder[OrderOf[ln]] = c
  BY <1>2, CreditFacts
<1>9. ln \notin Deletable => pendingLine[ln].received = pendingCredited[ln] + clerk[c].delta
  BY <1>2, CreditFacts
<1>10. /\ pendingCredited'[ln] = pendingCredited[ln] + clerk[c].delta
       /\ \A k \in Lines \ {ln} : pendingCredited'[k] = pendingCredited[k]
  BY <1>1, <1>2 DEF TypeOK
<1>11. \A k \in Lines : Crediting(c, k) => k = ln
  BY DEF Crediting, ln
<1>12. /\ \A d \in Clerks, k \in Lines : Crediting(d, k)' => OrderOf[k] = clerk'[d].order
       /\ \A k \in Lines \ Deletable, d \in Clerks : Crediting(d, k)' =>
             pendingLine'[k].received = pendingCredited'[k] + clerk'[d].delta
  <2>1. \A k \in Lines, d \in Clerks : Crediting(d, k)' =>
          d # c /\ k # ln /\ Crediting(d, k) /\ clerk'[d] = clerk[d]
    BY <1>6, <1>7, <1>8
  <2> QED BY <1>1, <1>10, <2>1 DEF CreditInv
<1>13. \A k \in Lines \ Deletable : (\A d \in Clerks : ~Crediting(d, k)') =>
          pendingLine'[k].received = pendingCredited'[k]
  <2> SUFFICES ASSUME NEW k \in Lines \ Deletable, \A d \in Clerks : ~Crediting(d, k)'
               PROVE  pendingLine'[k].received = pendingCredited'[k]
    OBVIOUS
  <2>1. CASE k = ln
    BY <1>1, <1>9, <1>10, <2>1
  <2>2. CASE k # ln
    <3>1. \A d \in Clerks : ~Crediting(d, k)
      BY <1>4, <1>11, <2>2 DEF Crediting
    <3> QED BY <1>1, <1>10, <2>2, <3>1 DEF CreditInv
  <2> QED BY <2>1, <2>2
<1>14. \A k \in Lines : orderHolder'[OrderOf[k]] = Nobody =>
          pendingLine'[k] = line'[k] /\ pendingCredited'[k] = credited'[k]
  BY <1>1, <1>8, <1>10 DEF CreditInv
<1>15. /\ \A k \in Lines \ Deletable : pendingLine'[k].state # "deleted"
       /\ \A k \in Lines : pendingLine'[k].state = "unsaved" => pendingLine'[k].received = 0
  BY <1>1 DEF CreditInv
<1> QED BY <1>1, <1>6, <1>12, <1>13, <1>14, <1>15 DEF CreditInv, CreditedOnce

(* A commit publishes what its clerk credited; a POST commits between lines. *)
LEMMA CreditCommitPost ==
    ASSUME TypeOK, CreditInv, NEW c \in Clerks, CommitPost(c)
    PROVE  CreditInv'
<1> USE InventoryAssumption
<1> DEFINE o == clerk[c].order
<1>0. /\ clerk \in [Clerks -> {IdleClerk} \cup BusyClerk]
      /\ orderHolder \in [Orders -> Clerks \cup {Nobody}]
      /\ \A k \in Lines : OrderOf[k] \in Orders
  BY DEF TypeOK
<1>1. /\ clerk[c].pc = "lines"
      /\ clerk' = [clerk EXCEPT ![c] = IdleClerk]
      /\ orderHolder' = [p \in Orders |-> IF orderHolder[p] = c THEN Nobody ELSE orderHolder[p]]
      /\ line' = [k \in Lines |-> IF OrderOf[k] = o THEN pendingLine[k] ELSE line[k]]
      /\ credited' = [k \in Lines |-> IF OrderOf[k] = o THEN pendingCredited[k] ELSE credited[k]]
      /\ UNCHANGED <<pendingLine, pendingCredited>>
  BY DEF CommitPost, Release
<1>2. Working(c) /\ ~Idle(c) /\ \A k \in Lines : ~Crediting(c, k)
  BY <1>1 DEF Working, Idle, Crediting
<1>3. /\ \A p \in Orders : orderHolder[p] # Nobody =>
            Working(orderHolder[p]) /\ clerk[orderHolder[p]].order = p
      /\ \A p \in Orders : orderHolder[p] = c => p = o
      /\ orderHolder[o] = c
      /\ \A d \in Clerks : Working(d) => orderHolder[clerk[d].order] = d
      /\ \A d \in Clerks, k \in Lines : Crediting(d, k) => OrderOf[k] = clerk[d].order
  <2>1. /\ \A d \in Clerks : Working(d) => orderHolder[clerk[d].order] = d
        /\ \A p \in Orders : orderHolder[p] # Nobody =>
              Working(orderHolder[p]) /\ clerk[orderHolder[p]].order = p
        /\ \A d \in Clerks, k \in Lines : Crediting(d, k) => OrderOf[k] = clerk[d].order
    BY DEF CreditInv
  <2>2. \A p \in Orders : orderHolder[p] = c => p = o
    BY <2>1
  <2> QED BY <1>2, <2>1, <2>2
<1> HIDE DEF o
<1>4. clerk'[c] = IdleClerk /\ \A d \in Clerks \ {c} : clerk'[d] = clerk[d]
  BY <1>0, <1>1
<1>5. \A d \in Clerks : Working(d)' => d # c /\ Working(d) /\ clerk'[d] = clerk[d]
  BY <1>4 DEF Working, IdleClerk
<1>6. \A d \in Clerks, k \in Lines : (Crediting(d, k)' <=> Crediting(d, k))
          /\ (Crediting(d, k) => clerk'[d] = clerk[d])
  BY <1>2, <1>4 DEF Crediting, IdleClerk
<1>7. \A d \in Clerks : Working(d)' => orderHolder'[clerk'[d].order] = d
  <2> SUFFICES ASSUME NEW d \in Clerks, Working(d)' PROVE orderHolder'[clerk'[d].order] = d
    OBVIOUS
  <2>1. d # c /\ Working(d) /\ clerk'[d] = clerk[d]
    BY <1>5
  <2>2. clerk[d].order \in Orders
    BY <2>1, ClerkFields DEF Working, Idle
  <2> QED BY <1>1, <1>3, <2>1, <2>2
<1>8. \A p \in Orders : orderHolder'[p] # Nobody =>
         Working(orderHolder[p])' /\ clerk'[orderHolder'[p]].order = p
  <2> SUFFICES ASSUME NEW p \in Orders, orderHolder'[p] # Nobody
               PROVE  Working(orderHolder[p])' /\ clerk'[orderHolder'[p]].order = p
    OBVIOUS
  <2> DEFINE d == orderHolder[p]
  <2>1. orderHolder'[p] = d /\ d # c /\ d \in Clerks
    BY <1>0, <1>1
  <2>2. clerk'[d] = clerk[d] /\ Working(d) /\ clerk[d].order = p
    BY <1>3, <1>4, <2>1
  <2> HIDE DEF d
  <2> QED BY <2>1, <2>2 DEF Working
<1>9. \A d \in Clerks : ~Idle(d)' => \A k \in Lines :
          /\ clerk'[d].entries[k].op # "keep" => OrderOf[k] = clerk'[d].order
          /\ clerk'[d].entries[k].op = "delete" => k \in Deletable
  <2>1. \A d \in Clerks : ~Idle(d)' => ~Idle(d) /\ clerk'[d] = clerk[d]
    BY <1>4 DEF Idle, IdleClerk
  <2> QED BY <2>1 DEF CreditInv
<1>10. /\ \A d \in Clerks, k \in Lines : Crediting(d, k)' => OrderOf[k] = clerk'[d].order
       /\ \A k \in Lines \ Deletable, d \in Clerks : Crediting(d, k)' =>
             pendingLine'[k].received = pendingCredited'[k] + clerk'[d].delta
       /\ \A k \in Lines \ Deletable : (\A d \in Clerks : ~Crediting(d, k)') =>
             pendingLine'[k].received = pendingCredited'[k]
  BY <1>1, <1>6 DEF CreditInv
<1>11. \A k \in Lines : orderHolder'[OrderOf[k]] = Nobody =>
          pendingLine'[k] = line'[k] /\ pendingCredited'[k] = credited'[k]
  <2> SUFFICES ASSUME NEW k \in Lines, orderHolder'[OrderOf[k]] = Nobody
               PROVE  pendingLine'[k] = line'[k] /\ pendingCredited'[k] = credited'[k]
    OBVIOUS
  <2>1. OrderOf[k] \in Orders
    BY <1>0
  <2>2. CASE OrderOf[k] = o
    BY <1>1, <2>2
  <2>3. CASE OrderOf[k] # o
    <3>1. orderHolder[OrderOf[k]] = Nobody
      BY <1>1, <1>3, <2>1, <2>3
    <3> QED BY <1>1, <2>3, <3>1 DEF CreditInv
  <2> QED BY <2>2, <2>3
(* Nobody is half way through a line of this order: it is this clerk's.      *)
<1>12. \A k \in Lines \ Deletable : OrderOf[k] = o => pendingLine[k].received = pendingCredited[k]
  <2> SUFFICES ASSUME NEW k \in Lines \ Deletable, OrderOf[k] = o
               PROVE  \A d \in Clerks : ~Crediting(d, k)
    BY DEF CreditInv
  <2> SUFFICES ASSUME NEW d \in Clerks, Crediting(d, k) PROVE FALSE
    OBVIOUS
  <2>1. Working(d) /\ clerk[d].order = o
    BY <1>3 DEF Crediting, Working
  <2>2. d = c
    BY <1>3, <2>1
  <2> QED BY <1>2, <2>2
<1>13. CreditedOnce'
  BY <1>1, <1>12 DEF CreditedOnce, CreditInv
<1>14. /\ \A k \in Lines : line'[k].state = "unsaved" => line'[k].received = 0
       /\ \A k \in Lines \ Deletable : line'[k].state # "deleted"
       /\ \A k \in Lines \ Deletable : pendingLine'[k].state # "deleted"
       /\ \A k \in Lines : pendingLine'[k].state = "unsaved" => pendingLine'[k].received = 0
  BY <1>1 DEF CreditInv
<1> QED BY <1>7, <1>8, <1>9, <1>10, <1>11, <1>13, <1>14 DEF CreditInv

LEMMA CreditClerk ==
    ASSUME TypeOK, CreditInv, NEW c \in Clerks, ClerkNext(c)
    PROVE  CreditInv'
<1>1. ASSUME NEW o \in Orders, NEW st \in HandStatuses, NEW f \in [LinesOf(o) -> Entries],
             Post(c, o, st, Form(o, f))
      PROVE  CreditInv'
  BY <1>1, CreditPost
<1>2. CASE LineStep(c)
  <2>1. PICK ln \in Lines : SaveLine(c, ln) \/ DeleteLine(c, ln) \/ RefuseLine(c, ln)
    BY <1>2 DEF LineStep
  <2>2. CASE RefuseLine(c, ln)
    <3>1. ~Idle(c) /\ Rollback(c)
      BY <2>2 DEF RefuseLine, IsNext, Idle
    <3> QED BY <3>1, CreditRollback
  <2> QED BY <2>1, <2>2, CreditSaveLine, CreditDeleteLine
<1>3. CASE BreakDeadlock(c) \/ CrashPost(c)
  <2>1. ~Idle(c) /\ Rollback(c)
    <3>1. CASE BreakDeadlock(c)
      <4>1. \E d \in Clerks : WaitsFor(c, d)
        BY <3>1 DEF BreakDeadlock, Deadlocked
      <4> QED BY <3>1, <4>1 DEF BreakDeadlock, WaitsFor, Idle
    <3> QED BY <1>3, <3>1 DEF CrashPost
  <2> QED BY <2>1, CreditRollback
<1>4. CASE SaveModel(c)
  BY <1>4, CreditSaveModel
<1>5. CASE ReadLevel(c)
  BY <1>5, CreditReadLevel
<1>6. CASE CreditLevel(c)
  BY <1>6, CreditCreditLevel
<1>7. CASE CommitPost(c)
  BY <1>7, CreditCommitPost
<1> QED BY <1>1, <1>2, <1>3, <1>4, <1>5, <1>6, <1>7 DEF ClerkNext

LEMMA CreditStep == TypeOK /\ CreditInv /\ [Next]_vars => CreditInv'
<1> SUFFICES ASSUME TypeOK, CreditInv, [Next]_vars PROVE CreditInv'
  OBVIOUS
<1>1. CASE UNCHANGED vars
  BY <1>1, CreditOthers DEF vars
<1>2. ASSUME NEW c \in Clerks, ClerkNext(c) PROVE CreditInv'
  BY <1>2, CreditClerk
<1>3. ASSUME NEW t \in Technicians, TechnicianNext(t) PROVE CreditInv'
  BY <1>3, CreditOthers DEF TechnicianNext, Scan, LockLevel, RefuseScan, CommitConsumption, AbortConsumption
<1>4. ASSUME NEW s \in Stocktakers, StocktakerNext(s) PROVE CreditInv'
  BY <1>4, CreditOthers DEF StocktakerNext, OpenLevelForm, SaveLevelForm
<1>5. ASSUME NEW p \in Planners, PlannerNext(p) PROVE CreditInv'
  BY <1>5, CreditOthers DEF PlannerNext, Reserve, LoadReservation, CancelReservation
<1> QED BY <1>1, <1>2, <1>3, <1>4, <1>5 DEF Next

(* However many forms are open on an order, a line's saves add to stock      *)
(* exactly what the line says it received (models.py, PurchaseOrderLine.save) *)
(* - of every line that nobody may delete.                                   *)
THEOREM DeliveriesCreditedOnce == Spec => []CreditedOnce
<1>1. CreditInv => CreditedOnce
  BY DEF CreditInv
<1> QED BY <1>1, CreditInit, CreditStep, TypeCorrect, PTL DEF Spec

-----------------------------------------------------------------------------
(* What a POST sees of the lines, and the status it leaves. *)

LEMMA ViewInit == Init => ViewInv
BY DEF Init, ViewInv, Untouched, Grown, Working, IdleClerk

(* The status an order's lines call for depends on no other lines, and once  *)
(* it is reached it stays.                                                   *)
LEMMA RolledUpLocal ==
    ASSUME NEW o \in Orders, NEW st, NEW f, NEW g,
           \A ln \in LinesOf(o) : f[ln] = g[ln]
    PROVE  RolledUp(o, st, f) = RolledUp(o, st, g)
<1> DEFINE saved(h) == {ln \in LinesOf(o) : h[ln].state = "saved"}
<1>1. saved(f) = saved(g)
  OBVIOUS
<1>2. \A ln \in saved(f) : f[ln] = g[ln]
  OBVIOUS
<1>3. /\ (\A ln \in saved(f) : f[ln].received >= f[ln].ordered)
            <=> (\A ln \in saved(g) : g[ln].received >= g[ln].ordered)
      /\ (\E ln \in saved(f) : f[ln].received > 0)
            <=> (\E ln \in saved(g) : g[ln].received > 0)
  BY <1>1, <1>2
<1> QED BY <1>1, <1>3 DEF RolledUp

LEMMA RolledUpTwice ==
    ASSUME NEW o \in Orders, NEW st, NEW f
    PROVE  RolledUp(o, RolledUp(o, st, f), f) = RolledUp(o, st, f)
BY DEF RolledUp

(* Steps that leave the lines and the statuses alone. *)
LEMMA ViewQuiet ==
    ASSUME ViewInv, UNCHANGED <<line, pendingLine, pendingStatus>>,
           \A d \in Clerks : Working(d)' =>
               /\ Working(d)
               /\ clerk'[d].entries = clerk[d].entries
               /\ clerk'[d].pc = "lines" => clerk[d].pc = "lines" /\ clerk'[d].order = clerk[d].order
    PROVE  ViewInv'
<1>1. Untouched'
  BY DEF ViewInv, Untouched
<1>2. Grown'
  BY DEF ViewInv, Grown
<1>3. \A d \in Clerks : (clerk[d].pc = "lines" /\ OnlySaves(clerk[d].order) =>
                            Settled(clerk[d].order))'
  <2> SUFFICES ASSUME NEW d \in Clerks, clerk'[d].pc = "lines", (OnlySaves(clerk[d].order))'
               PROVE  (Settled(clerk[d].order))'
    OBVIOUS
  <2>1. clerk[d].pc = "lines" /\ clerk'[d].order = clerk[d].order
    BY DEF Working
  <2>2. OnlySaves(clerk[d].order)
    BY <2>1 DEF OnlySaves
  <2>3. Settled(clerk[d].order)
    BY <2>1, <2>2 DEF ViewInv
  <2> QED BY <2>1, <2>3 DEF Settled, RolledUp, LinesOf
<1> QED BY <1>1, <1>2, <1>3 DEF ViewInv

(* A clerk's step on one order needs looking at for that clerk and order.    *)
LEMMA ViewOfOne ==
    ASSUME TypeOK, CreditInv, ViewInv, NEW c \in Clerks, NEW o \in Orders,
           orderHolder[o] \in {Nobody, c},
           \A d \in Clerks \ {c} : clerk'[d] = clerk[d],
           \A ln \in Lines : OrderOf[ln] # o =>
               line'[ln] = line[ln] /\ pendingLine'[ln] = pendingLine[ln],
           \A p \in Orders \ {o} : pendingStatus'[p] = pendingStatus[p],
           \A ln \in Lines : Working(c)' /\ clerk'[c].entries[ln].op # "keep" =>
               pendingLine'[ln] = line'[ln],
           \A ln \in Lines : OrderOf[ln] = o /\ line'[ln].state = "saved" =>
               /\ pendingLine'[ln].state # "unsaved"
               /\ pendingLine'[ln].state = "saved" => pendingLine'[ln].received >= line'[ln].received,
           clerk'[c].pc = "lines" => clerk'[c].order = o /\ (OnlySaves(o)' => Settled(o)')
    PROVE  ViewInv'
<1>1. \A d \in Clerks \ {c} : Working(d) =>
          /\ clerk[d].order \in Orders \ {o}
          /\ \A ln \in Lines : clerk[d].entries[ln].op # "keep" => OrderOf[ln] # o
  <2> SUFFICES ASSUME NEW d \in Clerks \ {c}, Working(d)
               PROVE  /\ clerk[d].order \in Orders \ {o}
                      /\ \A ln \in Lines : clerk[d].entries[ln].op # "keep" => OrderOf[ln] # o
    OBVIOUS
  <2>1. ~Idle(d) /\ d # Nobody
    BY InventoryAssumption DEF Working, Idle
  <2>2. clerk[d].order \in Orders /\ orderHolder[clerk[d].order] = d
    BY <2>1, ClerkFields DEF CreditInv
  <2>3. \A ln \in Lines : clerk[d].entries[ln].op # "keep" => OrderOf[ln] = clerk[d].order
    BY <2>1 DEF CreditInv
  <2> QED BY <2>1, <2>2, <2>3
<1>2. Untouched'
  <2> SUFFICES ASSUME NEW d \in Clerks, NEW ln \in Lines,
                      Working(d)', clerk'[d].entries[ln].op # "keep"
               PROVE  pendingLine'[ln] = line'[ln]
    BY DEF Untouched
  <2>1. CASE d = c
    BY <2>1
  <2>2. CASE d # c
    <3>1. Working(d) /\ clerk[d].entries[ln].op # "keep"
      BY <2>2 DEF Working
    <3> QED BY <1>1, <2>2, <3>1 DEF ViewInv, Untouched
  <2> QED BY <2>1, <2>2
<1>3. Grown'
  <2>1. \A ln \in Lines : OrderOf[ln] # o => line'[ln] = line[ln] /\ pendingLine'[ln] = pendingLine[ln]
    OBVIOUS
  <2> QED BY <2>1 DEF ViewInv, Grown
<1>4. \A d \in Clerks : (clerk[d].pc = "lines" /\ OnlySaves(clerk[d].order) =>
                            Settled(clerk[d].order))'
  <2> SUFFICES ASSUME NEW d \in Clerks, clerk'[d].pc = "lines", (OnlySaves(clerk[d].order))'
               PROVE  (Settled(clerk[d].order))'
    OBVIOUS
  <2>1. CASE d = c
    BY <2>1 DEF OnlySaves, Settled
  <2>2. CASE d # c
    <3> DEFINE p == clerk[d].order
    <3>1. clerk'[d] = clerk[d] /\ clerk[d].pc = "lines"
      BY <2>2
    <3>2. p \in Orders \ {o}
      BY <1>1, <2>2, <3>1 DEF Working
    <3>3. \A ln \in LinesOf(p) : line'[ln] = line[ln] /\ pendingLine'[ln] = pendingLine[ln]
      BY <3>2 DEF LinesOf
    <3>4. OnlySaves(p)
      BY <3>1, <3>3 DEF OnlySaves, LinesOf
    <3>5. pendingStatus[p] = RolledUp(p, pendingStatus[p], pendingLine)
      BY <3>1, <3>4 DEF ViewInv, Settled
    <3>6. RolledUp(p, pendingStatus[p], pendingLine') = RolledUp(p, pendingStatus[p], pendingLine)
      BY <3>2, <3>3, RolledUpLocal
    <3>7. pendingStatus'[p] = pendingStatus[p]
      BY <3>2
    <3> QED BY <3>1, <3>5, <3>6, <3>7 DEF Settled, RolledUp, LinesOf
  <2> QED BY <2>1, <2>2
<1> QED BY <1>2, <1>3, <1>4 DEF ViewInv

(* Refreshing an order's status settles it.                                  *)
LEMMA RefreshSettles ==
    ASSUME TypeOK, NEW o \in Orders, NEW rowOf,
           pendingStatus' = Refreshed(o, rowOf), pendingLine' = rowOf
    PROVE  /\ Settled(o)'
           /\ \A p \in Orders \ {o} : pendingStatus'[p] = pendingStatus[p]
<1>1. /\ pendingStatus'[o] = RolledUp(o, pendingStatus[o], rowOf)
      /\ \A p \in Orders \ {o} : pendingStatus'[p] = pendingStatus[p]
  BY DEF TypeOK, Refreshed
<1>2. pendingStatus'[o] = RolledUp(o, pendingStatus'[o], rowOf)
  BY <1>1, RolledUpTwice
<1> QED BY <1>1, <1>2 DEF Settled, RolledUp, LinesOf

LEMMA ViewPost ==
    ASSUME TypeOK, ViewInv, NEW c \in Clerks, NEW o \in Orders, NEW st, NEW entries,
           Post(c, o, st, entries)
    PROVE  ViewInv'
<1> DEFINE b == [pc |-> "model", order |-> o, status |-> st,
                 entries |-> entries, line |-> 0, delta |-> 0, seen |-> 0]
<1>1. clerk' = [clerk EXCEPT ![c] = b] /\ UNCHANGED <<line, pendingLine, pendingStatus>>
  BY DEF Post, orderVars
<1>2. b.pc = "model"
  OBVIOUS
<1> HIDE DEF b
<1>3. clerk'[c] = b /\ \A d \in Clerks \ {c} : clerk'[d] = clerk[d]
  BY <1>1 DEF TypeOK
<1> QED BY <1>1, <1>2, <1>3, ViewQuiet DEF Working

LEMMA ViewReadLevel ==
    ASSUME TypeOK, ViewInv, NEW c \in Clerks, ReadLevel(c)
    PROVE  ViewInv'
<1> DEFINE l == LevelOf[clerk[c].line]
           seen == IF levelHolder[l] = c THEN pendingOnHand[l] ELSE onHand[l]
           b == [clerk[c] EXCEPT !.pc = "credit", !.seen = seen]
<1>1. /\ clerk[c].pc = "read" /\ clerk' = [clerk EXCEPT ![c] = b]
      /\ UNCHANGED <<line, pendingLine, pendingStatus>>
  BY DEF ReadLevel, orderVars
<1>2. b.pc = "credit" /\ b.entries = clerk[c].entries
  <2>1. clerk[c] \in BusyClerk
    BY <1>1, ClerkFields DEF Idle
  <2> HIDE DEF seen
  <2> QED BY <2>1 DEF BusyClerk
<1> HIDE DEF b
<1>3. clerk'[c] = b /\ \A d \in Clerks \ {c} : clerk'[d] = clerk[d]
  BY <1>1 DEF TypeOK
<1>4. Working(c)
  BY <1>1 DEF Working
<1> QED BY <1>1, <1>2, <1>3, <1>4, ViewQuiet DEF Working

(* The order was free: its lines are the committed ones.                     *)
LEMMA ViewSaveModel ==
    ASSUME TypeOK, CreditInv, ViewInv, NEW c \in Clerks, SaveModel(c)
    PROVE  ViewInv'
<1>0. PICK o \in Orders : o = clerk[c].order
  BY ClerkFields DEF SaveModel, Idle
<1> DEFINE b == [clerk[c] EXCEPT !.pc = "lines"]
<1>1. /\ clerk[c].pc = "model" /\ orderHolder[o] = Nobody
      /\ pendingStatus' = [pendingStatus EXCEPT ![o] = clerk[c].status]
      /\ clerk' = [clerk EXCEPT ![c] = b]
      /\ UNCHANGED <<line, pendingLine>>
  BY <1>0 DEF SaveModel, OrderGranted
<1>2. ~Idle(c) /\ b.order = o /\ b.entries = clerk[c].entries
  BY <1>0, <1>1, ClerkFields DEF Idle, BusyClerk
<1> HIDE DEF b
<1>3. clerk'[c] = b /\ \A d \in Clerks \ {c} : clerk'[d] = clerk[d]
  BY <1>1 DEF TypeOK
<1>4. \A ln \in Lines : OrderOf[ln] = o => pendingLine[ln] = line[ln]
  BY <1>1 DEF CreditInv
<1>5. \A ln \in Lines : clerk[c].entries[ln].op # "keep" => OrderOf[ln] = o
  BY <1>0, <1>2 DEF CreditInv
<1>6. \A p \in Orders \ {o} : pendingStatus'[p] = pendingStatus[p]
  BY <1>1, <1>2 DEF TypeOK
<1>7. ~(OnlySaves(o))'
  BY <1>1, <1>4 DEF OnlySaves, LinesOf
<1>8. \A ln \in Lines : clerk'[c].entries[ln].op # "keep" => pendingLine'[ln] = line'[ln]
  BY <1>1, <1>2, <1>3, <1>4, <1>5
<1>9. \A ln \in Lines : OrderOf[ln] = o /\ line'[ln].state = "saved" =>
           /\ pendingLine'[ln].state # "unsaved"
           /\ pendingLine'[ln].state = "saved" => pendingLine'[ln].received >= line'[ln].received
  BY <1>1 DEF ViewInv, Grown
<1> QED BY <1>1, <1>2, <1>3, <1>6, <1>7, <1>8, <1>9, ViewOfOne

(* A line that is saved was untouched, and grows.                            *)
LEMMA ViewSaveLine ==
    ASSUME TypeOK, CreditInv, ViewInv, NEW c \in Clerks, NEW ln \in Lines, SaveLine(c, ln)
    PROVE  ViewInv'
<1>0. PICK o \in Orders : o = clerk[c].order
  BY ClerkFields DEF SaveLine, IsNext, Idle
<1> DEFINE e == clerk[c].entries[ln]
           delta == e.received - PreviousReceived(ln)
           next == IF delta = 0 THEN "lines" ELSE "read"
           b == [clerk[c] EXCEPT !.pc = next, !.entries = [clerk[c].entries EXCEPT ![ln] = Keep],
                                 !.line = ln, !.delta = delta]
           row == [state |-> "saved", ordered |-> e.ordered, received |-> e.received]
           after == [pendingLine EXCEPT ![ln] = row]
<1>1. /\ clerk[c].pc = "lines" /\ e.op = "save"
      /\ Acceptable(ln, e)
      /\ pendingLine' = after
      /\ pendingStatus' = IF delta = 0 THEN Refreshed(o, after) ELSE pendingStatus
      /\ clerk' = [clerk EXCEPT ![c] = b]
      /\ UNCHANGED <<orderHolder, line>>
  BY <1>0 DEF SaveLine, IsNext
<1>2. Working(c) /\ ~Idle(c)
  BY <1>1 DEF Working, Idle
<1>3. clerk[c] \in BusyClerk /\ clerk[c].entries \in [Lines -> Entry]
  BY <1>2, ClerkFields
<1>4. /\ b.pc = next /\ b.order = o
      /\ \A k \in Lines : b.entries[k] \in {clerk[c].entries[k], Keep}
      /\ b.entries[ln] = Keep
  BY <1>0, <1>3 DEF BusyClerk
<1>5. next = "lines" => delta = 0
  OBVIOUS
<1>6. e.received >= PreviousReceived(ln)
  BY <1>1 DEF Acceptable
<1>7. pendingLine[ln] = line[ln]
  BY <1>1, <1>2 DEF ViewInv, Untouched
<1>8. line[ln].state = "saved" => row.received >= line[ln].received
  BY <1>6, <1>7 DEF PreviousReceived
<1>9. /\ orderHolder[o] = c
      /\ OrderOf[ln] = o
  BY <1>0, <1>1, <1>2, CreditFacts
<1>10. row.state = "saved" /\ pendingLine'[ln] = row
       /\ \A k \in Lines \ {ln} : pendingLine'[k] = pendingLine[k]
  BY <1>1 DEF TypeOK
<1>11. clerk'[c] = b /\ \A d \in Clerks \ {c} : clerk'[d] = clerk[d]
  BY <1>1 DEF TypeOK
<1>12. /\ delta = 0 => (Settled(o))'
       /\ \A p \in Orders \ {o} : pendingStatus'[p] = pendingStatus[p]
  <2>1. CASE delta = 0
    <3>1. pendingStatus' = Refreshed(o, after)
      BY <1>1, <2>1
    <3> HIDE DEF after
    <3> QED BY <1>1, <3>1, RefreshSettles
  <2>2. CASE delta # 0
    BY <1>1, <2>2
  <2> QED BY <2>1, <2>2
<1> HIDE DEF b, row, next, delta, e, after
<1>13. \A k \in Lines : clerk'[c].entries[k].op # "keep" => pendingLine'[k] = line'[k]
  <2> SUFFICES ASSUME NEW k \in Lines, clerk'[c].entries[k].op # "keep"
               PROVE  pendingLine'[k] = line'[k]
    OBVIOUS
  <2>1. k # ln /\ clerk[c].entries[k].op # "keep"
    BY <1>4, <1>11 DEF Keep
  <2>2. pendingLine[k] = line[k]
    BY <1>2, <2>1 DEF ViewInv, Untouched
  <2> QED BY <1>1, <1>10, <2>1, <2>2
<1>14. \A k \in Lines : OrderOf[k] = o /\ line'[k].state = "saved" =>
           /\ pendingLine'[k].state # "unsaved"
           /\ pendingLine'[k].state = "saved" => pendingLine'[k].received >= line'[k].received
  BY <1>1, <1>8, <1>10 DEF ViewInv, Grown
<1>15. clerk'[c].pc = "lines" => clerk'[c].order = o /\ (Settled(o))'
  BY <1>4, <1>5, <1>11, <1>12
<1>16. \A k \in Lines : OrderOf[k] # o => line'[k] = line[k] /\ pendingLine'[k] = pendingLine[k]
  BY <1>1, <1>9, <1>10
<1> QED BY <1>9, <1>11, <1>12, <1>13, <1>14, <1>15, <1>16, ViewOfOne

(* A line that is deleted was untouched: the form is no longer only saves,   *)
(* unless the line was already gone.                                         *)
LEMMA ViewDeleteLine ==
    ASSUME TypeOK, CreditInv, ViewInv, NEW c \in Clerks, NEW ln \in Lines, DeleteLine(c, ln)
    PROVE  ViewInv'
<1>0. PICK o \in Orders : o = clerk[c].order
  BY ClerkFields DEF DeleteLine, IsNext, Idle
<1> DEFINE b == [clerk[c] EXCEPT !.entries = [clerk[c].entries EXCEPT ![ln] = Keep]]
           row == [pendingLine[ln] EXCEPT !.state = "deleted"]
<1>1. /\ clerk[c].pc = "lines" /\ clerk[c].entries[ln].op = "delete"
      /\ pendingLine' = [pendingLine EXCEPT ![ln] = row]
      /\ clerk' = [clerk EXCEPT ![c] = b]
      /\ UNCHANGED <<orderHolder, line, pendingStatus>>
  BY DEF DeleteLine, IsNext
<1>2. Working(c) /\ ~Idle(c)
  BY <1>1 DEF Working, Idle
<1>3. /\ b.pc = "lines" /\ b.order = o /\ b.entries[ln] = Keep
      /\ \A k \in Lines : b.entries[k] \in {clerk[c].entries[k], Keep}
  <2>1. clerk[c] \in BusyClerk /\ clerk[c].entries \in [Lines -> Entry]
    BY <1>2, ClerkFields
  <2> QED BY <1>0, <1>1, <2>1 DEF BusyClerk
<1>4. pendingLine[ln] = line[ln]
  BY <1>1, <1>2 DEF ViewInv, Untouched
<1>5. row.state = "deleted" /\ (pendingLine[ln].state = "deleted" => row = pendingLine[ln])
  BY DEF TypeOK, LineRow
<1>6. orderHolder[o] = c /\ OrderOf[ln] = o
  BY <1>0, <1>1, <1>2, CreditFacts
<1> HIDE DEF b, row
<1>7. clerk'[c] = b /\ \A d \in Clerks \ {c} : clerk'[d] = clerk[d]
  BY <1>1 DEF TypeOK
<1>8. pendingLine'[ln] = row /\ \A k \in Lines \ {ln} : pendingLine'[k] = pendingLine[k]
  BY <1>1 DEF TypeOK
<1>9. \A k \in Lines : clerk'[c].entries[k].op # "keep" => pendingLine'[k] = line'[k]
  <2> SUFFICES ASSUME NEW k \in Lines, clerk'[c].entries[k].op # "keep"
               PROVE  pendingLine'[k] = line'[k]
    OBVIOUS
  <2>1. k # ln /\ clerk[c].entries[k].op # "keep"
    BY <1>3, <1>7 DEF Keep
  <2>2. pendingLine[k] = line[k]
    BY <1>2, <2>1 DEF ViewInv, Untouched
  <2> QED BY <1>1, <1>8, <2>1, <2>2
<1>10. \A k \in Lines : OrderOf[k] = o /\ line'[k].state = "saved" =>
           /\ pendingLine'[k].state # "unsaved"
           /\ pendingLine'[k].state = "saved" => pendingLine'[k].received >= line'[k].received
  BY <1>1, <1>5, <1>8 DEF ViewInv, Grown
<1>11. (OnlySaves(o))' => (Settled(o))'
  <2> SUFFICES ASSUME (OnlySaves(o))' PROVE (Settled(o))'
    OBVIOUS
  <2>1. line[ln].state = "deleted"
    BY <1>1, <1>5, <1>6, <1>8 DEF OnlySaves, LinesOf
  <2>2. \A k \in Lines : pendingLine'[k] = pendingLine[k]
    BY <1>4, <1>5, <1>8, <2>1
  <2>3. OnlySaves(o)
    BY <1>1, <2>2 DEF OnlySaves, LinesOf
  <2>4. pendingStatus[o] = RolledUp(o, pendingStatus[o], pendingLine)
    BY <1>0, <1>1, <2>3 DEF ViewInv, Settled
  <2>5. RolledUp(o, pendingStatus[o], pendingLine') = RolledUp(o, pendingStatus[o], pendingLine)
    BY <2>2, RolledUpLocal DEF LinesOf
  <2> QED BY <1>1, <2>4, <2>5 DEF Settled, RolledUp, LinesOf
<1>12. \A k \in Lines : OrderOf[k] # o => line'[k] = line[k] /\ pendingLine'[k] = pendingLine[k]
  BY <1>1, <1>6, <1>8
<1>13. clerk'[c].order = o
  BY <1>3, <1>7
<1> QED BY <1>1, <1>6, <1>7, <1>9, <1>10, <1>11, <1>12, <1>13, ViewOfOne

LEMMA ViewCreditLevel ==
    ASSUME TypeOK, CreditInv, ViewInv, NEW c \in Clerks, CreditLevel(c)
    PROVE  ViewInv'
<1>0. PICK o \in Orders : o = clerk[c].order
  BY ClerkFields DEF CreditLevel, Idle
<1> DEFINE b == [clerk[c] EXCEPT !.pc = "lines"]
<1>1. /\ clerk[c].pc = "credit"
      /\ pendingStatus' = Refreshed(o, pendingLine)
      /\ clerk' = [clerk EXCEPT ![c] = b]
      /\ UNCHANGED <<orderHolder, line, pendingLine>>
  BY <1>0 DEF CreditLevel
<1>2. Working(c) /\ ~Idle(c)
  BY <1>1 DEF Working, Idle
<1>3. b.order = o /\ b.entries = clerk[c].entries
  <2>1. clerk[c] \in BusyClerk
    BY <1>2, ClerkFields
  <2> QED BY <1>0, <2>1 DEF BusyClerk
<1> HIDE DEF b
<1>4. clerk'[c] = b /\ \A d \in Clerks \ {c} : clerk'[d] = clerk[d]
  BY <1>1 DEF TypeOK
<1>5. orderHolder[o] = c
  BY <1>0, <1>2 DEF CreditInv
<1>6. (Settled(o))' /\ \A p \in Orders \ {o} : pendingStatus'[p] = pendingStatus[p]
  BY <1>1, RefreshSettles
<1>7. \A ln \in Lines : clerk'[c].entries[ln].op # "keep" => pendingLine'[ln] = line'[ln]
  BY <1>1, <1>2, <1>3, <1>4 DEF ViewInv, Untouched
<1>8. \A ln \in Lines : OrderOf[ln] = o /\ line'[ln].state = "saved" =>
           /\ pendingLine'[ln].state # "unsaved"
           /\ pendingLine'[ln].state = "saved" => pendingLine'[ln].received >= line'[ln].received
  BY <1>1 DEF ViewInv, Grown
<1> QED BY <1>1, <1>3, <1>4, <1>5, <1>6, <1>7, <1>8, ViewOfOne

LEMMA ViewCommitPost ==
    ASSUME TypeOK, CreditInv, ViewInv, NEW c \in Clerks, CommitPost(c)
    PROVE  ViewInv'
<1>0. PICK o \in Orders : o = clerk[c].order
  BY ClerkFields DEF CommitPost, Idle
<1>1. /\ clerk[c].pc = "lines"
      /\ line' = [ln \in Lines |-> IF OrderOf[ln] = o THEN pendingLine[ln] ELSE line[ln]]
      /\ clerk' = [clerk EXCEPT ![c] = IdleClerk]
      /\ UNCHANGED <<pendingLine, pendingStatus>>
  BY <1>0 DEF CommitPost, Release
<1>2. orderHolder[o] = c
  BY <1>0, <1>1 DEF CreditInv, Working
<1>3. clerk'[c] = IdleClerk /\ \A d \in Clerks \ {c} : clerk'[d] = clerk[d]
  BY <1>1 DEF TypeOK
<1>4. ~(Working(c))' /\ clerk'[c].pc # "lines"
  BY <1>3 DEF Working, IdleClerk
<1>5. \A ln \in Lines : pendingLine[ln].received \in Nat
  BY DEF TypeOK, LineRow
<1>6. \A ln \in Lines : OrderOf[ln] = o /\ line'[ln].state = "saved" =>
           /\ pendingLine'[ln].state # "unsaved"
           /\ pendingLine'[ln].state = "saved" => pendingLine'[ln].received >= line'[ln].received
  BY <1>1, <1>5
<1>7. \A ln \in Lines : OrderOf[ln] # o => line'[ln] = line[ln] /\ pendingLine'[ln] = pendingLine[ln]
  BY <1>1
<1> QED BY <1>1, <1>2, <1>3, <1>4, <1>6, <1>7, ViewOfOne

LEMMA ViewRollback ==
    ASSUME TypeOK, CreditInv, ViewInv, NEW c \in Clerks, ~Idle(c), Rollback(c)
    PROVE  ViewInv'
<1>0. PICK o \in Orders : o = clerk[c].order
  BY ClerkFields
<1> DEFINE holds == orderHolder[o] = c
<1>1. /\ clerk' = [clerk EXCEPT ![c] = IdleClerk]
      /\ UNCHANGED line
      /\ pendingLine' = [ln \in Lines |-> IF holds /\ OrderOf[ln] = o THEN line[ln] ELSE pendingLine[ln]]
      /\ pendingStatus' = IF holds THEN [pendingStatus EXCEPT ![o] = status[o]] ELSE pendingStatus
  BY <1>0 DEF Rollback, Release
<1>2. clerk'[c] = IdleClerk /\ \A d \in Clerks \ {c} : clerk'[d] = clerk[d]
  BY <1>1 DEF TypeOK
<1>3. ~(Working(c))' /\ clerk'[c].pc # "lines"
  BY <1>2 DEF Working, IdleClerk
<1>4. CASE holds
  <2>1. \A ln \in Lines : OrderOf[ln] # o => line'[ln] = line[ln] /\ pendingLine'[ln] = pendingLine[ln]
    BY <1>1
  <2>2. \A ln \in Lines : line[ln].received \in Nat
    BY DEF TypeOK, LineRow
  <2>3. \A ln \in Lines : OrderOf[ln] = o /\ line'[ln].state = "saved" =>
           /\ pendingLine'[ln].state # "unsaved"
           /\ pendingLine'[ln].state = "saved" => pendingLine'[ln].received >= line'[ln].received
    BY <1>1, <1>4, <2>2
  <2>4. \A p \in Orders \ {o} : pendingStatus'[p] = pendingStatus[p]
    BY <1>1, <1>4 DEF TypeOK
  <2> QED BY <1>2, <1>3, <1>4, <2>1, <2>3, <2>4, ViewOfOne
<1>5. CASE ~holds
  <2>1. pendingLine' = pendingLine /\ pendingStatus' = pendingStatus
    BY <1>1, <1>5 DEF TypeOK
  <2>2. \A d \in Clerks : (Working(d))' => Working(d) /\ clerk'[d] = clerk[d]
    BY <1>2, <1>3 DEF Working
  <2> QED BY <1>1, <2>1, <2>2, ViewQuiet
<1> QED BY <1>4, <1>5

LEMMA ViewClerk ==
    ASSUME TypeOK, CreditInv, ViewInv, NEW c \in Clerks, ClerkNext(c)
    PROVE  ViewInv'
<1>1. ASSUME NEW o \in Orders, NEW st \in HandStatuses, NEW f \in [LinesOf(o) -> Entries],
             Post(c, o, st, Form(o, f))
      PROVE  ViewInv'
  BY <1>1, ViewPost
<1>2. CASE LineStep(c)
  <2>1. PICK ln \in Lines : SaveLine(c, ln) \/ DeleteLine(c, ln) \/ RefuseLine(c, ln)
    BY <1>2 DEF LineStep
  <2>2. CASE RefuseLine(c, ln)
    <3>1. ~Idle(c) /\ Rollback(c)
      BY <2>2 DEF RefuseLine, IsNext, Idle
    <3> QED BY <3>1, ViewRollback
  <2> QED BY <2>1, <2>2, ViewSaveLine, ViewDeleteLine
<1>3. CASE BreakDeadlock(c) \/ CrashPost(c)
  <2>1. ~Idle(c) /\ Rollback(c)
    <3>1. CASE BreakDeadlock(c)
      <4>1. \E d \in Clerks : WaitsFor(c, d)
        BY <3>1 DEF BreakDeadlock, Deadlocked
      <4> QED BY <3>1, <4>1 DEF BreakDeadlock, WaitsFor, Idle
    <3> QED BY <1>3, <3>1 DEF CrashPost
  <2> QED BY <2>1, ViewRollback
<1>4. CASE SaveModel(c)
  BY <1>4, ViewSaveModel
<1>5. CASE ReadLevel(c)
  BY <1>5, ViewReadLevel
<1>6. CASE CreditLevel(c)
  BY <1>6, ViewCreditLevel
<1>7. CASE CommitPost(c)
  BY <1>7, ViewCommitPost
<1> QED BY <1>1, <1>2, <1>3, <1>4, <1>5, <1>6, <1>7 DEF ClerkNext

(* Only a clerk's steps touch orders and lines; only a commit, committed ones. *)
LEMMA OrdersAreClerks ==
    ASSUME [Next]_vars
    PROVE  UNCHANGED <<orderVars, clerk>> \/ \E c \in Clerks : ClerkNext(c)
<1>1. CASE UNCHANGED vars
  BY <1>1 DEF vars
<1>2. ASSUME NEW t \in Technicians, TechnicianNext(t) PROVE UNCHANGED <<orderVars, clerk>>
  BY <1>2 DEF TechnicianNext, Scan, LockLevel, RefuseScan, CommitConsumption, AbortConsumption
<1>3. ASSUME NEW s \in Stocktakers, StocktakerNext(s) PROVE UNCHANGED <<orderVars, clerk>>
  BY <1>3 DEF StocktakerNext, OpenLevelForm, SaveLevelForm
<1>4. ASSUME NEW p \in Planners, PlannerNext(p) PROVE UNCHANGED <<orderVars, clerk>>
  <2>1. ASSUME NEW l \in Levels, NEW w \in WorkOrders, NEW q \in Quantities, Reserve(p, l, w, q)
        PROVE  UNCHANGED <<orderVars, clerk>>
    BY <2>1 DEF Reserve
  <2>2. ASSUME NEW i \in DOMAIN reservations, LoadReservation(p, i)
        PROVE  UNCHANGED <<orderVars, clerk>>
    BY <2>2 DEF LoadReservation
  <2> QED BY <1>4, <2>1, <2>2 DEF PlannerNext, CancelReservation
<1> QED BY <1>1, <1>2, <1>3, <1>4 DEF Next

LEMMA LinesByCommit ==
    ASSUME NEW c \in Clerks, ClerkNext(c)
    PROVE  UNCHANGED line \/ CommitPost(c)
<1>1. Rollback(c) => UNCHANGED line
  BY DEF Rollback
<1>2. LineStep(c) => UNCHANGED line
  <2> SUFFICES ASSUME NEW ln \in Lines, SaveLine(c, ln) \/ DeleteLine(c, ln) \/ RefuseLine(c, ln)
               PROVE  UNCHANGED line
    BY DEF LineStep
  <2>1. CASE SaveLine(c, ln)
    BY <2>1 DEF SaveLine
  <2>2. CASE DeleteLine(c, ln)
    BY <2>2 DEF DeleteLine
  <2>3. CASE RefuseLine(c, ln)
    BY <1>1, <2>3 DEF RefuseLine
  <2> QED BY <2>1, <2>2, <2>3
<1>3. ASSUME NEW o \in Orders, NEW st, NEW entries, Post(c, o, st, entries) PROVE UNCHANGED line
  BY <1>3 DEF Post, orderVars
<1>4. SaveModel(c) \/ ReadLevel(c) \/ CreditLevel(c) => UNCHANGED line
  BY DEF SaveModel, ReadLevel, CreditLevel, orderVars
<1> QED BY <1>1, <1>2, <1>3, <1>4 DEF ClerkNext, BreakDeadlock, CrashPost

LEMMA ViewStep == TypeOK /\ CreditInv /\ ViewInv /\ [Next]_vars => ViewInv'
<1> SUFFICES ASSUME TypeOK, CreditInv, ViewInv, [Next]_vars PROVE ViewInv'
  OBVIOUS
<1>1. CASE UNCHANGED <<orderVars, clerk>>
  BY <1>1, ViewQuiet DEF orderVars, Working
<1>2. ASSUME NEW c \in Clerks, ClerkNext(c) PROVE ViewInv'
  BY <1>2, ViewClerk
<1> QED BY <1>1, <1>2, OrdersAreClerks

(* However stale the form, a committed POST never lowers what a line says it *)
(* received (models.py, PurchaseOrderLine.save).                             *)
THEOREM ReceiptsNeverFall == Spec => ReceivedNeverFalls
<1> DEFINE Rise == \A ln \in Lines : line[ln].state = "saved" /\ line'[ln].state = "saved"
                      => line'[ln].received >= line[ln].received
<1>1. TypeOK /\ CreditInv /\ ViewInv /\ [Next]_vars => [Rise]_vars
  <2> SUFFICES ASSUME TypeOK, ViewInv, [Next]_vars PROVE Rise
    OBVIOUS
  <2>1. CASE UNCHANGED line
    <3>1. \A ln \in Lines : line[ln].received \in Nat
      BY DEF TypeOK, LineRow
    <3> QED BY <2>1, <3>1
  <2>2. ASSUME NEW c \in Clerks, CommitPost(c) PROVE Rise
    <3>1. line' = [ln \in Lines |-> IF OrderOf[ln] = clerk[c].order THEN pendingLine[ln] ELSE line[ln]]
      BY <2>2 DEF CommitPost
    <3>2. \A ln \in Lines : line'[ln] = line[ln] \/ line'[ln] = pendingLine[ln]
      BY <3>1
    <3>3. \A ln \in Lines : line[ln].received \in Nat
      BY DEF TypeOK, LineRow
    <3> QED BY <3>2, <3>3 DEF ViewInv, Grown
  <2> QED BY <2>1, <2>2, OrdersAreClerks, LinesByCommit DEF orderVars
<1> QED BY <1>1, CreditInit, CreditStep, ViewInit, ViewStep, TypeCorrect, PTL DEF Spec, ReceivedNeverFalls

(* A POST that changes lines of an order and deletes none commits the status *)
(* that the lines it leaves call for, in whatever order and with whatever    *)
(* deltas it saved them (PurchaseOrder.refresh_status).                      *)
THEOREM CommitsRollUp == Spec => RolledUpOnCommit
<1> DEFINE Rolls == \A o \in Orders : ChangesLines(o) /\ ~DeletesLines(o)
                       => status'[o] = RolledUp(o, status'[o], line')
<1>1. TypeOK /\ CreditInv /\ ViewInv /\ [Next]_vars => [Rolls]_vars
  <2> SUFFICES ASSUME TypeOK, CreditInv, ViewInv, [Next]_vars,
                      NEW p \in Orders, ChangesLines(p), ~DeletesLines(p)
               PROVE  status'[p] = RolledUp(p, status'[p], line')
    OBVIOUS
  <2>1. PICK c \in Clerks : CommitPost(c)
    BY OrdersAreClerks, LinesByCommit DEF orderVars, ChangesLines, LinesOf
  <2>2. PICK o \in Orders : o = clerk[c].order
    BY <2>1, ClerkFields DEF CommitPost, Idle
  <2>3. /\ clerk[c].pc = "lines"
        /\ status' = [status EXCEPT ![o] = pendingStatus[o]]
        /\ line' = [ln \in Lines |-> IF OrderOf[ln] = o THEN pendingLine[ln] ELSE line[ln]]
    BY <2>1, <2>2 DEF CommitPost
  <2>4. p = o
    BY <2>3 DEF ChangesLines, LinesOf
  <2>5. \A ln \in LinesOf(o) : line'[ln] = pendingLine[ln]
    BY <2>3 DEF LinesOf
  <2>6. OnlySaves(o)
    BY <2>4, <2>5 DEF OnlySaves, ChangesLines, DeletesLines
  <2>7. pendingStatus[o] = RolledUp(o, pendingStatus[o], pendingLine)
    BY <2>2, <2>3, <2>6 DEF ViewInv, Settled
  <2>8. RolledUp(o, pendingStatus[o], line') = RolledUp(o, pendingStatus[o], pendingLine)
    BY <2>5, RolledUpLocal
  <2>9. status'[o] = pendingStatus[o]
    BY <2>3 DEF TypeOK
  <2> QED BY <2>4, <2>7, <2>8, <2>9
<1> QED BY <1>1, CreditInit, CreditStep, ViewInit, ViewStep, TypeCorrect, PTL DEF Spec, RolledUpOnCommit

-----------------------------------------------------------------------------
(* Reservations.  What is fulfilled, summed over the list, is covered by the *)
(* units the job took.                                                       *)

Reserved == [i \in DOMAIN reservations |-> reservations[i].quantity]
Booked(l, w) == Sum(Reserved, Fulfilled(l, w))

LEMMA CoveredMeans ==
    /\ FulfilledIsCovered <=> \A l \in Levels, w \in WorkOrders : Booked(l, w) <= usedFor[l][w]
    /\ FulfilledIsCovered' <=> \A l \in Levels, w \in WorkOrders : Booked(l, w)' <= usedFor'[l][w]
BY DEF FulfilledIsCovered, Booked, Reserved, Sum, Fulfilled

LEMMA ReservationsFinite ==
    ASSUME TypeOK, NEW l, NEW w
    PROVE  /\ IsFiniteSet(Fulfilled(l, w))
           /\ Fulfilled(l, w) \subseteq DOMAIN reservations
           /\ \A i \in DOMAIN reservations : Reserved[i] \in Nat /\ Reserved[i] = reservations[i].quantity
           /\ Booked(l, w) \in Nat
<1>1. reservations \in Seq(Reservation)
  BY DEF TypeOK
<1>2. IsFiniteSet(DOMAIN reservations)
  BY <1>1, FS_Interval
<1>3. Fulfilled(l, w) \subseteq DOMAIN reservations
  BY DEF Fulfilled
<1>4. IsFiniteSet(Fulfilled(l, w))
  BY <1>2, <1>3, FS_Subset
<1>5. \A i \in DOMAIN reservations : Reserved[i] \in Nat /\ Reserved[i] = reservations[i].quantity
  <2>1. \A i \in DOMAIN reservations : reservations[i] \in Reservation
    BY <1>1, ElementOfSeq
  <2> QED BY <2>1 DEF Reserved, Reservation
<1>6. Booked(l, w) \in Nat
  BY <1>3, <1>4, <1>5, NaturalSum DEF Booked
<1> QED BY <1>3, <1>4, <1>5, <1>6

LEMMA CoveredInit == Init => FulfilledIsCovered
<1> SUFFICES ASSUME Init, NEW l \in Levels, NEW w \in WorkOrders
             PROVE  Booked(l, w) <= usedFor[l][w]
  BY CoveredMeans
<1>1. Fulfilled(l, w) = {}
  BY DEF Init, Fulfilled
<1>2. usedFor[l][w] = 0
  BY DEF Init
<1> QED BY <1>1, <1>2, SumEmpty DEF Booked

(* Marking a reservation changes its status and nothing else.                *)
LEMMA MarkedRow ==
    ASSUME TypeOK, NEW i \in DOMAIN reservations, NEW st,
           reservations' = [reservations EXCEPT ![i].status = st]
    PROVE  /\ DOMAIN reservations' = DOMAIN reservations
           /\ \A j \in DOMAIN reservations : j # i => reservations'[j] = reservations[j]
           /\ reservations'[i].status = st
           /\ reservations'[i].level = reservations[i].level
           /\ reservations'[i].workOrder = reservations[i].workOrder
           /\ reservations'[i].quantity = reservations[i].quantity
<1> DEFINE r == [reservations[i] EXCEPT !.status = st]
<1>1. reservations[i] \in Reservation
  BY ElementOfSeq DEF TypeOK
<1>2. /\ r.status = st /\ r.level = reservations[i].level
      /\ r.workOrder = reservations[i].workOrder /\ r.quantity = reservations[i].quantity
  BY <1>1 DEF Reservation
<1>3. reservations' = [reservations EXCEPT ![i] = r]
  OBVIOUS
<1> HIDE DEF r
<1> QED BY <1>2, <1>3

(* A consumption closes at most one reservation, of no more than it takes.   *)
LEMMA CoveredCommit ==
    ASSUME TypeOK, FulfilledIsCovered, NEW t \in Technicians, CommitConsumption(t)
    PROVE  FulfilledIsCovered'
<1> DEFINE r == technician[t]
<1>1. /\ r.pc = "write"
      /\ usedFor' = [usedFor EXCEPT ![r.level][r.workOrder] = @ + r.quantity]
      /\ FulfilOldest(r)
  BY DEF CommitConsumption
<1>2. r.quantity \in Nat /\ r.level \in Levels /\ r.workOrder \in WorkOrders
  <2>1. r \in BusyTechnician
    BY <1>1 DEF TypeOK
  <2> QED BY <2>1 DEF BusyTechnician
<1> SUFFICES ASSUME NEW l \in Levels, NEW w \in WorkOrders
             PROVE  Booked(l, w)' <= usedFor'[l][w]
  BY CoveredMeans
<1>3. Booked(l, w) \in Nat /\ usedFor[l][w] \in Nat /\ Booked(l, w) <= usedFor[l][w]
  BY CoveredMeans, ReservationsFinite DEF TypeOK
<1>4. usedFor'[l][w] = IF l = r.level /\ w = r.workOrder THEN usedFor[l][w] + r.quantity
                                                         ELSE usedFor[l][w]
  BY <1>1, <1>2 DEF TypeOK
<1> HIDE DEF r
<1>5. CASE UNCHANGED reservations
  <2>1. Booked(l, w)' = Booked(l, w)
    BY <1>5 DEF Booked, Reserved, Fulfilled
  <2> QED BY <1>2, <1>3, <1>4, <2>1
<1>6. ASSUME NEW i \in Coverable(r), reservations' = Fulfil(i)
      PROVE  Booked(l, w)' <= usedFor'[l][w]
  <2>1. /\ i \in DOMAIN reservations /\ reservations[i].status = "RESERVED"
        /\ reservations[i].level = r.level /\ reservations[i].workOrder = r.workOrder
        /\ reservations[i].quantity <= r.quantity
    BY DEF Coverable
  <2>2. reservations' = [reservations EXCEPT ![i].status = "FULFILLED"]
    BY <1>6 DEF Fulfil
  <2>3. /\ DOMAIN reservations' = DOMAIN reservations
        /\ \A j \in DOMAIN reservations : j # i => reservations'[j] = reservations[j]
        /\ reservations'[i].status = "FULFILLED" /\ reservations'[i].level = reservations[i].level
        /\ reservations'[i].workOrder = reservations[i].workOrder
        /\ reservations'[i].quantity = reservations[i].quantity
    BY <2>1, <2>2, MarkedRow
  <2>4. Reserved' = Reserved
    BY <2>3 DEF Reserved
  <2>5. i \notin Fulfilled(l, w)
    BY <2>1 DEF Fulfilled
  <2>6. CASE l = r.level /\ w = r.workOrder
    <3>1. Fulfilled(l, w)' = Fulfilled(l, w) \cup {i}
      BY <2>1, <2>3, <2>6 DEF Fulfilled
    <3>2. Booked(l, w)' = Reserved[i] + Booked(l, w)
      <4>1. \A j \in Fulfilled(l, w) \cup {i} : Reserved[j] \in Int
        BY <2>1, ReservationsFinite
      <4>2. Sum(Reserved, Fulfilled(l, w) \cup {i}) = Reserved[i] + Sum(Reserved, Fulfilled(l, w))
        BY <2>5, <4>1, ReservationsFinite, SumAdd
      <4> QED BY <2>4, <3>1, <4>2 DEF Booked
    <3>3. Reserved[i] \in Nat /\ Reserved[i] <= r.quantity
      BY <2>1, ReservationsFinite
    <3> QED BY <1>2, <1>3, <1>4, <2>6, <3>2, <3>3
  <2>7. CASE ~(l = r.level /\ w = r.workOrder)
    <3>1. Fulfilled(l, w)' = Fulfilled(l, w)
      BY <2>1, <2>3, <2>7 DEF Fulfilled
    <3>2. Booked(l, w)' = Booked(l, w)
      BY <2>4, <3>1 DEF Booked
    <3> QED BY <1>3, <1>4, <2>7, <3>2
  <2> QED BY <2>6, <2>7
<1> QED BY <1>1, <1>5, <1>6 DEF FulfilOldest

LEMMA CoveredReserve ==
    ASSUME TypeOK, FulfilledIsCovered, NEW p \in Planners, NEW k \in Levels,
           NEW v \in WorkOrders, NEW q \in Quantities, Reserve(p, k, v, q)
    PROVE  FulfilledIsCovered'
<1> SUFFICES ASSUME NEW l \in Levels, NEW w \in WorkOrders
             PROVE  Booked(l, w)' <= usedFor'[l][w]
  BY CoveredMeans
<1> DEFINE r == [level |-> k, workOrder |-> v, quantity |-> q, status |-> "RESERVED"]
<1>1. reservations' = Append(reservations, r) /\ r.status = "RESERVED" /\ UNCHANGED usedFor
  BY DEF Reserve, usageVars
<1> HIDE DEF r
<1>2. /\ DOMAIN reservations \subseteq DOMAIN reservations'
      /\ \A i \in DOMAIN reservations : reservations'[i] = reservations[i]
      /\ \A i \in DOMAIN reservations' : i \in DOMAIN reservations \/ reservations'[i] = r
  <2>1. reservations \in Seq(Reservation)
    BY DEF TypeOK
  <2> QED BY <1>1, <2>1
<1>3. Fulfilled(l, w)' = Fulfilled(l, w)
  BY <1>1, <1>2 DEF Fulfilled
<1>4. \A i \in Fulfilled(l, w) : Reserved'[i] = Reserved[i]
  BY <1>2 DEF Reserved, Fulfilled
<1>5. Sum(Reserved', Fulfilled(l, w)) = Sum(Reserved, Fulfilled(l, w))
  BY <1>4, ReservationsFinite, SumEqual
<1>6. Booked(l, w)' = Booked(l, w)
  BY <1>3, <1>5 DEF Booked
<1> QED BY <1>1, <1>6, CoveredMeans

(* A cancellation only takes away from what is fulfilled, whatever the row   *)
(* became since the planner loaded it.                                       *)
LEMMA CoveredCancel ==
    ASSUME TypeOK, FulfilledIsCovered, NEW p \in Planners, CancelReservation(p)
    PROVE  FulfilledIsCovered'
<1> SUFFICES ASSUME NEW l \in Levels, NEW w \in WorkOrders
             PROVE  Booked(l, w)' <= usedFor'[l][w]
  BY CoveredMeans
<1> DEFINE i == planner[p]
<1>1. /\ i \in DOMAIN reservations
      /\ reservations' = [reservations EXCEPT ![i].status = "CANCELLED"]
      /\ UNCHANGED usedFor
  BY DEF TypeOK, CancelReservation, usageVars
<1> HIDE DEF i
<1>2. /\ DOMAIN reservations' = DOMAIN reservations
      /\ \A j \in DOMAIN reservations : j # i => reservations'[j] = reservations[j]
      /\ reservations'[i].status = "CANCELLED"
      /\ reservations'[i].quantity = reservations[i].quantity
  BY <1>1, MarkedRow
<1>3. Reserved' = Reserved
  BY <1>2 DEF Reserved
<1>4. Fulfilled(l, w)' = Fulfilled(l, w) \ {i}
  BY <1>1, <1>2 DEF Fulfilled
<1>5. Booked(l, w) <= usedFor[l][w] /\ Booked(l, w) \in Nat /\ usedFor[l][w] \in Nat
  BY CoveredMeans, ReservationsFinite DEF TypeOK
<1>6. CASE i \in Fulfilled(l, w)
  <2>1. \A j \in Fulfilled(l, w) : Reserved[j] \in Nat
    BY ReservationsFinite
  <2>2. Booked(l, w) = Reserved[i] + Sum(Reserved, Fulfilled(l, w) \ {i})
    BY <1>6, <2>1, ReservationsFinite, SumRemove DEF Booked
  <2>3. Sum(Reserved, Fulfilled(l, w) \ {i}) \in Nat
    <3>1. IsFiniteSet(Fulfilled(l, w) \ {i})
      BY ReservationsFinite, FS_RemoveElement
    <3> QED BY <2>1, <3>1, NaturalSum
  <2>4. Booked(l, w)' = Sum(Reserved, Fulfilled(l, w) \ {i})
    BY <1>3, <1>4 DEF Booked
  <2> QED BY <1>1, <1>5, <1>6, <2>1, <2>2, <2>3, <2>4
<1>7. CASE i \notin Fulfilled(l, w)
  <2>1. Fulfilled(l, w)' = Fulfilled(l, w)
    BY <1>4, <1>7
  <2> QED BY <1>1, <1>3, <1>5, <2>1 DEF Booked
<1> QED BY <1>6, <1>7

LEMMA CoveredOthers ==
    ASSUME FulfilledIsCovered, UNCHANGED <<reservations, usedFor>>
    PROVE  FulfilledIsCovered'
BY DEF FulfilledIsCovered, Fulfilled

LEMMA ClerksLeaveUsage ==
    ASSUME NEW c \in Clerks, ClerkNext(c)
    PROVE  UNCHANGED <<reservations, usageVars, adjusted, technician, stocktaker, planner>>
<1>1. Rollback(c) => UNCHANGED <<reservations, usageVars, adjusted, technician, stocktaker, planner>>
  BY DEF Rollback
<1>2. LineStep(c) => UNCHANGED <<reservations, usageVars, adjusted, technician, stocktaker, planner>>
  <2> SUFFICES ASSUME NEW ln \in Lines, SaveLine(c, ln) \/ DeleteLine(c, ln) \/ RefuseLine(c, ln)
               PROVE  UNCHANGED <<reservations, usageVars, adjusted, technician, stocktaker, planner>>
    BY DEF LineStep
  <2>1. CASE SaveLine(c, ln)
    BY <2>1 DEF SaveLine
  <2>2. CASE DeleteLine(c, ln)
    BY <2>2 DEF DeleteLine
  <2>3. CASE RefuseLine(c, ln)
    BY <1>1, <2>3 DEF RefuseLine
  <2> QED BY <2>1, <2>2, <2>3
<1>3. ASSUME NEW o \in Orders, NEW st, NEW entries, Post(c, o, st, entries)
      PROVE  UNCHANGED <<reservations, usageVars, adjusted, technician, stocktaker, planner>>
  BY <1>3 DEF Post
<1>4. SaveModel(c) \/ ReadLevel(c) \/ CreditLevel(c) \/ CommitPost(c) =>
          UNCHANGED <<reservations, usageVars, adjusted, technician, stocktaker, planner>>
  BY DEF SaveModel, ReadLevel, CreditLevel, CommitPost
<1> QED BY <1>1, <1>2, <1>3, <1>4 DEF ClerkNext, BreakDeadlock, CrashPost

LEMMA CoveredStep == TypeOK /\ FulfilledIsCovered /\ [Next]_vars => FulfilledIsCovered'
<1> SUFFICES ASSUME TypeOK, FulfilledIsCovered, [Next]_vars PROVE FulfilledIsCovered'
  OBVIOUS
<1>1. CASE UNCHANGED vars
  BY <1>1, CoveredOthers DEF vars, usageVars
<1>2. ASSUME NEW t \in Technicians, TechnicianNext(t) PROVE FulfilledIsCovered'
  <2>1. CASE CommitConsumption(t)
    BY <2>1, CoveredCommit
  <2>2. CASE ~CommitConsumption(t)
    BY <1>2, <2>2, CoveredOthers DEF TechnicianNext, Scan, LockLevel, RefuseScan, AbortConsumption, usageVars
  <2> QED BY <2>1, <2>2
<1>3. ASSUME NEW c \in Clerks, ClerkNext(c) PROVE FulfilledIsCovered'
  <2>1. UNCHANGED <<reservations, usageVars>>
    BY <1>3, ClerksLeaveUsage
  <2> QED BY <2>1, CoveredOthers DEF usageVars
<1>4. ASSUME NEW s \in Stocktakers, StocktakerNext(s) PROVE FulfilledIsCovered'
  BY <1>4, CoveredOthers DEF StocktakerNext, OpenLevelForm, SaveLevelForm, usageVars
<1>5. ASSUME NEW p \in Planners, PlannerNext(p) PROVE FulfilledIsCovered'
  <2>1. ASSUME NEW i \in DOMAIN reservations, LoadReservation(p, i) PROVE FulfilledIsCovered'
    BY <2>1, CoveredOthers DEF LoadReservation, usageVars
  <2> QED BY <1>5, <2>1, CoveredReserve, CoveredCancel DEF PlannerNext
<1> QED BY <1>1, <1>2, <1>3, <1>4, <1>5 DEF Next

(* One consumption never closes more reservations than it covers, and a      *)
(* stale cancellation never makes up for it (services.py, consume_stock and  *)
(* cancel_reservation).                                                      *)
THEOREM FulfilledCovered == Spec => []FulfilledIsCovered
BY CoveredInit, CoveredStep, TypeCorrect, PTL DEF Spec

-----------------------------------------------------------------------------
(* The books.  Every unit is explained, and the stockroom implements the     *)
(* ledger, as long as requests that do not lock what they read are not mixed *)
(* with others on one level: first with technicians and planners alone.      *)

Received == [ln \in Lines |-> line[ln].received]

LEMMA ReceivedSums ==
    ASSUME NEW l
    PROVE  /\ IsFiniteSet(At(l)) /\ At(l) \subseteq Lines
           /\ ReceivedAt(l) = Sum(Received, At(l))
           /\ UNCHANGED line => ReceivedAt(l)' = ReceivedAt(l)
           /\ TypeOK => ReceivedAt(l) \in Nat
<1>1. IsFiniteSet(At(l)) /\ At(l) \subseteq Lines
  <2>1. At(l) \in SUBSET Lines
    BY DEF At
  <2> QED BY <2>1, FS_Subset, InventoryAssumption
<1>2. ReceivedAt(l) = Sum(Received, At(l))
  BY DEF ReceivedAt, Sum, Received, At
<1>3. UNCHANGED line => ReceivedAt(l)' = ReceivedAt(l)
  BY DEF ReceivedAt
<1>4. ASSUME TypeOK PROVE ReceivedAt(l) \in Nat
  <2>1. \A ln \in At(l) : Received[ln] \in Nat
    BY <1>1, <1>4 DEF TypeOK, LineRow, Received
  <2> QED BY <1>1, <1>2, <2>1, NaturalSum
<1> QED BY <1>1, <1>2, <1>3, <1>4

LEMMA ReceivedTyped ==
    ASSUME TypeOK', NEW l
    PROVE  ReceivedAt(l)' \in Nat
<1>1. ReceivedAt(l)' = Sum(Received', At(l))
  BY DEF ReceivedAt, Sum, Received, At
<1>2. \A ln \in At(l) : Received'[ln] \in Nat
  BY ReceivedSums DEF TypeOK, LineRow, Received
<1> QED BY <1>1, <1>2, ReceivedSums, NaturalSum

LEMMA NothingReceivedYet ==
    ASSUME Init, NEW l
    PROVE  ReceivedAt(l) = 0
<1>1. \A ln \in At(l) : Received[ln] = 0
  BY ReceivedSums DEF Init, Received
<1> QED BY <1>1, ReceivedSums, SumOfZeros

LEMMA BalancedInit == Init => Balanced
<1> SUFFICES ASSUME Init, NEW l \in Levels
             PROVE  onHand[l] = Opening[l] + ReceivedAt(l) + adjusted[l] - used[l]
  BY DEF Balanced
<1>1. onHand[l] = Opening[l] /\ Opening[l] \in Nat /\ adjusted[l] = 0 /\ used[l] = 0
  BY InventoryAssumption DEF Init
<1>2. ReceivedAt(l) = 0
  BY NothingReceivedYet
<1> QED BY <1>1, <1>2

LEMMA LedgerInit == Init => Ledger!Init
<1> SUFFICES ASSUME Init PROVE Ledger!Init
  OBVIOUS
<1>1. [l \in Levels |-> ReceivedAt(l)] = [l \in Levels |-> 0]
  BY NothingReceivedYet
<1> QED BY <1>1 DEF Init, Ledger!Init

(* Nobody asks for no units.                                                 *)
AsksForSome == \A t \in Technicians : technician[t].pc # "idle" => technician[t].quantity > 0

LEMMA ScanAsks ==
    ASSUME TypeOK, AsksForSome, [Next]_vars
    PROVE  AsksForSome'
<1>1. ASSUME UNCHANGED technician PROVE AsksForSome'
  BY <1>1 DEF AsksForSome
<1>2. ASSUME NEW t \in Technicians, TechnicianNext(t) PROVE AsksForSome'
  <2>0. \A b : technician' = [technician EXCEPT ![t] = b] =>
            technician'[t] = b /\ \A s \in Technicians \ {t} : technician'[s] = technician[s]
    BY DEF TypeOK
  <2>1. ASSUME NEW l \in Levels, NEW w \in WorkOrders, NEW q \in Quantities \ {0}, Scan(t, l, w, q)
        PROVE  AsksForSome'
    <3> DEFINE b == [pc |-> "lock", level |-> l, workOrder |-> w, quantity |-> q, seen |-> 0]
    <3>1. b.quantity > 0
      BY InventoryAssumption
    <3>2. technician' = [technician EXCEPT ![t] = b]
      BY <2>1 DEF Scan
    <3> HIDE DEF b
    <3> QED BY <2>0, <3>1, <3>2 DEF AsksForSome
  <2>2. CASE RefuseScan(t) \/ CommitConsumption(t) \/ AbortConsumption(t)
    <3>1. technician' = [technician EXCEPT ![t] = IdleTechnician]
      BY <2>2 DEF RefuseScan, CommitConsumption, AbortConsumption
    <3> QED BY <2>0, <3>1 DEF AsksForSome
  <2>3. CASE LockLevel(t)
    <3> DEFINE q == onHand[technician[t].level]
               b == [technician[t] EXCEPT !.pc = "write", !.seen = q]
    <3>1. technician[t].pc = "lock" /\ technician' = [technician EXCEPT ![t] = b]
      BY <2>3 DEF LockLevel
    <3>2. technician[t] \in BusyTechnician
      BY <3>1 DEF TypeOK
    <3>3. b.quantity = technician[t].quantity
      <4> HIDE DEF q
      <4> QED BY <3>2 DEF BusyTechnician
    <3> HIDE DEF b
    <3> QED BY <2>0, <3>1, <3>3 DEF AsksForSome
  <2> QED BY <1>2, <2>1, <2>2, <2>3 DEF TechnicianNext
<1>3. ASSUME NEW c \in Clerks, ClerkNext(c) PROVE AsksForSome'
  BY <1>1, <1>3, ClerksLeaveUsage
<1>4. ASSUME NEW s \in Stocktakers, StocktakerNext(s) PROVE AsksForSome'
  BY <1>1, <1>4 DEF StocktakerNext, OpenLevelForm, SaveLevelForm
<1>5. ASSUME NEW p \in Planners, PlannerNext(p) PROVE AsksForSome'
  <2>1. ASSUME NEW i \in DOMAIN reservations, LoadReservation(p, i) PROVE AsksForSome'
    BY <1>1, <2>1 DEF LoadReservation
  <2>2. ASSUME NEW l \in Levels, NEW w \in WorkOrders, NEW q \in Quantities, Reserve(p, l, w, q)
        PROVE  AsksForSome'
    BY <1>1, <2>2 DEF Reserve
  <2>3. CASE CancelReservation(p)
    BY <1>1, <2>3 DEF CancelReservation
  <2> QED BY <1>5, <2>1, <2>2, <2>3 DEF PlannerNext
<1>6. CASE UNCHANGED vars
  BY <1>1, <1>6 DEF vars
<1> QED BY <1>2, <1>3, <1>4, <1>5, <1>6 DEF Next

(* Planners and technicians leave the committed books alone, but for the     *)
(* commit of a consumption, which the ledger knows.                          *)
LEMMA BooksOfCommit ==
    ASSUME TypeOK, LockInv, AsksForSome, NEW t \in Technicians, CommitConsumption(t)
    PROVE  \E l \in Levels : \E q \in 1..onHand[l] : Ledger!Consume(l, q)
<1> DEFINE l == technician[t].level
           q == technician[t].quantity
<1>1. /\ technician[t].pc = "write"
      /\ onHand' = [onHand EXCEPT ![l] = technician[t].seen - q]
      /\ used' = [used EXCEPT ![l] = @ + q]
      /\ UNCHANGED <<line, adjusted>>
  BY DEF CommitConsumption, Remaining, orderVars
<1>2. l \in Levels /\ q \in Nat
  <2>1. technician[t] \in BusyTechnician
    BY <1>1 DEF TypeOK
  <2> QED BY <2>1 DEF BusyTechnician
<1>3. technician[t].seen = onHand[l] /\ q <= onHand[l] /\ onHand[l] \in Int /\ q > 0
  BY <1>1, <1>2 DEF LockInv, LockedReadIsCurrent, AsksForSome, TypeOK
<1>4. UNCHANGED [k \in Levels |-> ReceivedAt(k)]
  BY <1>1, ReceivedSums
<1> HIDE DEF l, q
<1>5. q \in 1..onHand[l]
  BY <1>2, <1>3
<1>6. Ledger!Consume(l, q)
  BY <1>1, <1>3, <1>4 DEF Ledger!Consume
<1> QED BY <1>2, <1>5, <1>6

Quiet == UNCHANGED <<onHand, used, adjusted, line>>

LEMMA QuietBooks ==
    ASSUME NEW p \in Planners, PlannerNext(p)
    PROVE  Quiet
<1>1. ASSUME NEW l \in Levels, NEW w \in WorkOrders, NEW q \in Quantities, Reserve(p, l, w, q) PROVE Quiet
  BY <1>1 DEF Reserve, Quiet, orderVars, usageVars
<1>2. ASSUME NEW i \in DOMAIN reservations, LoadReservation(p, i) PROVE Quiet
  BY <1>2 DEF LoadReservation, Quiet, levelVars, orderVars, usageVars
<1>3. CancelReservation(p) => Quiet
  BY DEF CancelReservation, Quiet, levelVars, orderVars, usageVars
<1> QED BY <1>1, <1>2, <1>3 DEF PlannerNext

LEMMA QuietStutters ==
    ASSUME Quiet
    PROVE  UNCHANGED Ledger!ledgerVars
<1>1. UNCHANGED [k \in Levels |-> ReceivedAt(k)]
  BY ReceivedSums DEF Quiet
<1> QED BY <1>1 DEF Quiet, Ledger!ledgerVars

LEMMA ScanBooks ==
    ASSUME Clerks = {}, Stocktakers = {}, TypeOK, LockInv, AsksForSome, [Next]_vars
    PROVE  [Ledger!Next]_(Ledger!ledgerVars)
<1>1. CASE UNCHANGED vars
  <2>1. Quiet
    BY <1>1 DEF Quiet, vars, levelVars, orderVars, usageVars
  <2> QED BY <2>1, QuietStutters
<1>2. ASSUME NEW t \in Technicians, TechnicianNext(t) PROVE [Ledger!Next]_(Ledger!ledgerVars)
  <2>1. CASE CommitConsumption(t)
    BY <2>1, BooksOfCommit DEF Ledger!Next
  <2>2. CASE ~CommitConsumption(t)
    <3>1. Quiet
      BY <1>2, <2>2 DEF TechnicianNext, Scan, LockLevel, RefuseScan, AbortConsumption, Quiet,
                        levelVars, orderVars, usageVars
    <3> QED BY <3>1, QuietStutters
  <2> QED BY <2>1, <2>2
<1>3. ASSUME NEW p \in Planners, PlannerNext(p) PROVE [Ledger!Next]_(Ledger!ledgerVars)
  BY <1>3, QuietStutters, QuietBooks
<1> QED BY <1>1, <1>2, <1>3 DEF Next

(* What the ledger's steps keep: the books explain the shelf.                *)
LEMMA BooksStayBalanced ==
    ASSUME TypeOK, TypeOK', Balanced, [Ledger!Next]_(Ledger!ledgerVars)
    PROVE  Balanced'
<1> SUFFICES ASSUME NEW k \in Levels
             PROVE  onHand'[k] = Opening[k] + ReceivedAt(k)' + adjusted'[k] - used'[k]
  BY DEF Balanced
<1> DEFINE R == [l \in Levels |-> ReceivedAt(l)]
<1>0. R[k] = ReceivedAt(k) /\ R'[k] = ReceivedAt(k)'
  OBVIOUS
<1>1. /\ onHand[k] = Opening[k] + R[k] + adjusted[k] - used[k]
      /\ onHand[k] \in Int /\ R[k] \in Int /\ adjusted[k] \in Int /\ used[k] \in Int /\ Opening[k] \in Int
      /\ onHand'[k] \in Int
  <2>1. R[k] \in Int
    BY <1>0, ReceivedSums
  <2>2. onHand[k] = Opening[k] + ReceivedAt(k) + adjusted[k] - used[k]
    BY DEF Balanced
  <2>3. onHand[k] \in Int /\ adjusted[k] \in Int /\ used[k] \in Int /\ onHand'[k] \in Int
    BY DEF TypeOK
  <2>4. Opening[k] \in Int
    BY InventoryAssumption
  <2> HIDE DEF R
  <2> QED BY <1>0, <2>1, <2>2, <2>3, <2>4
<1>2. R'[k] \in Int
  BY <1>0, ReceivedTyped
<1>3. SUFFICES onHand'[k] = Opening[k] + R'[k] + adjusted'[k] - used'[k]
  BY <1>0
<1>4. onHand \in [Levels -> Int] /\ used \in [Levels -> Int] /\ adjusted \in [Levels -> Int]
  BY DEF TypeOK
<1> HIDE DEF R
<1>5. CASE UNCHANGED Ledger!ledgerVars
  BY <1>1, <1>5 DEF Ledger!ledgerVars, R
<1>6. ASSUME NEW l \in Levels, NEW q \in 1..onHand[l], Ledger!Consume(l, q)
      PROVE  onHand'[k] = Opening[k] + R'[k] + adjusted'[k] - used'[k]
  <2>1. /\ onHand' = [onHand EXCEPT ![l] = @ - q] /\ used' = [used EXCEPT ![l] = @ + q]
        /\ R' = R /\ adjusted' = adjusted /\ q \in Int
    BY <1>4, <1>6 DEF Ledger!Consume, R
  <2> QED BY <1>1, <1>4, <2>1
<1>7. CASE Ledger!Receive
  <2>1. onHand'[k] = onHand[k] + (R'[k] - R[k]) /\ used' = used /\ adjusted' = adjusted
    BY <1>7 DEF Ledger!Receive, R
  <2> QED BY <1>1, <1>2, <2>1
<1>8. ASSUME NEW l \in Levels, NEW n \in {onHand'[l]}, Ledger!Recount(l, n)
      PROVE  onHand'[k] = Opening[k] + R'[k] + adjusted'[k] - used'[k]
  <2>1. /\ onHand' = [onHand EXCEPT ![l] = n]
        /\ adjusted' = [adjusted EXCEPT ![l] = @ + (n - onHand[l])]
        /\ R' = R /\ used' = used
    BY <1>8 DEF Ledger!Recount, R
  <2> QED BY <1>1, <1>4, <2>1
<1> QED BY <1>5, <1>6, <1>7, <1>8 DEF Ledger!Next

(* However many technicians scan at once, beside planners: every unit that   *)
(* leaves a shelf is on a usage row, and every step is one of the ledger's   *)
(* (services.py, consume_stock).                                             *)
THEOREM ScansBalance == Clerks = {} /\ Stocktakers = {} => (Spec => []Balanced)
<1> SUFFICES ASSUME Clerks = {}, Stocktakers = {} PROVE Spec => []Balanced
  OBVIOUS
<1>1. Init => LockInv /\ AsksForSome /\ Balanced
  BY LockInit, BalancedInit DEF Init, AsksForSome
<1>2. TypeOK /\ TypeOK' /\ LockInv /\ AsksForSome /\ Balanced /\ [Next]_vars => AsksForSome' /\ Balanced'
  BY ScanAsks, ScanBooks, BooksStayBalanced
<1> QED BY <1>1, <1>2, LockStep, TypeCorrect, PTL DEF Spec

THEOREM ScansImplementLedger == Clerks = {} /\ Stocktakers = {} => (Spec => LedgerSpec)
<1> SUFFICES ASSUME Clerks = {}, Stocktakers = {} PROVE Spec => LedgerSpec
  OBVIOUS
<1>1. Init => LockInv /\ AsksForSome
  BY LockInit DEF Init, AsksForSome
<1>2. TypeOK /\ LockInv /\ AsksForSome /\ [Next]_vars =>
          AsksForSome' /\ [Ledger!Next]_(Ledger!ledgerVars)
  BY ScanAsks, ScanBooks
<1> QED BY <1>1, <1>2, LockStep, LedgerInit, TypeCorrect, PTL DEF Spec, LedgerSpec, Ledger!LedgerSpec

(* Then the receiving side alone, with any number of clerks.                 *)
LEMMA ShelfSums ==
    ASSUME NEW l
    PROVE  /\ CreditedAt(l) = Sum(credited, At(l)) /\ PendingAt(l) = Sum(pendingCredited, At(l))
           /\ TypeOK => CreditedAt(l) \in Nat /\ PendingAt(l) \in Nat
           /\ (\A ln \in At(l) : pendingCredited[ln] = credited[ln]) => PendingAt(l) = CreditedAt(l)
<1>1. CreditedAt(l) = Sum(credited, At(l)) /\ PendingAt(l) = Sum(pendingCredited, At(l))
  BY DEF CreditedAt, PendingAt, Sum
<1>2. ASSUME TypeOK PROVE CreditedAt(l) \in Nat /\ PendingAt(l) \in Nat
  <2>1. \A ln \in At(l) : credited[ln] \in Nat /\ pendingCredited[ln] \in Nat
    BY <1>2, ReceivedSums DEF TypeOK
  <2> QED BY <1>1, <2>1, ReceivedSums, NaturalSum
<1>3. ASSUME \A ln \in At(l) : pendingCredited[ln] = credited[ln] PROVE PendingAt(l) = CreditedAt(l)
  BY <1>1, <1>3, ReceivedSums, SumEqual
<1> QED BY <1>1, <1>2, <1>3

LEMMA ShelfInit == Technicians = {} => (Init => ShelfInv)
<1> SUFFICES ASSUME Init PROVE ShelfInv
  OBVIOUS
<1>1. \A l \in Levels : CreditedAt(l) = 0
  <2> SUFFICES ASSUME NEW l \in Levels PROVE CreditedAt(l) = 0
    OBVIOUS
  <2>1. \A ln \in At(l) : credited[ln] = 0
    BY ReceivedSums DEF Init
  <2> QED BY <2>1, ReceivedSums, ShelfSums, SumOfZeros
<1>2. Stocked
  BY <1>1, InventoryAssumption DEF Init, Stocked
<1>3. FreeLevels /\ HeldLevels /\ LevelsRead
  BY InventoryAssumption DEF Init, FreeLevels, HeldLevels, LevelsRead, IdleClerk
<1> QED BY <1>2, <1>3 DEF ShelfInv

(* What a clerk does without touching a level.                               *)
LEMMA ShelfOthers ==
    ASSUME ShelfInv, rows \subseteq rows',
           UNCHANGED <<onHand, levelHolder, pendingOnHand, used, adjusted, credited, pendingCredited>>,
           \A c \in Clerks : Working(c) => Working(c)' /\ clerk'[c].order = clerk[c].order,
           \A c \in Clerks : clerk'[c].pc = "credit" =>
               clerk[c].pc = "credit" /\ clerk'[c].line = clerk[c].line /\ clerk'[c].seen = clerk[c].seen
    PROVE  ShelfInv'
<1>1. \A l : CreditedAt(l)' = CreditedAt(l) /\ PendingAt(l)' = PendingAt(l)
  BY DEF CreditedAt, PendingAt
<1>2. Stocked'
  BY <1>1 DEF ShelfInv, Stocked
<1>3. FreeLevels' /\ HeldLevels'
  BY <1>1 DEF ShelfInv, FreeLevels, HeldLevels
<1>4. LevelsRead'
  BY <1>1 DEF ShelfInv, LevelsRead
<1> QED BY <1>2, <1>3, <1>4 DEF ShelfInv

(* A clerk who credits a line shares its level with nobody.                  *)
LEMMA OwnLevel ==
    ASSUME TypeOK, CreditInv, ShelfInv, OneOrderEach, Technicians = {},
           NEW c \in Clerks, NEW ln \in Lines, Crediting(c, ln)
    PROVE  /\ LevelOf[ln] \in Levels /\ ln \in At(LevelOf[ln])
           /\ \A k \in At(LevelOf[ln]) : OrderOf[k] = clerk[c].order
           /\ levelHolder[LevelOf[ln]] \in {Nobody, c}
<1>1. PICK l \in Levels : l = LevelOf[ln]
  BY InventoryAssumption
<1>2. ln \in At(l) /\ \A k \in At(l) : OrderOf[k] = OrderOf[ln]
  BY <1>1 DEF At, OneOrderEach
<1>3. Working(c) /\ OrderOf[ln] = clerk[c].order /\ orderHolder[clerk[c].order] = c
  BY CreditFacts
<1>4. levelHolder[l] \in {Nobody, c}
  <2>1. levelHolder[l] \in Clerks \cup {Nobody}
    BY DEF TypeOK
  <2>2. ASSUME NEW d \in Clerks, levelHolder[l] = d PROVE d = c
    <3>1. Working(d) /\ OrderOf[ln] = clerk[d].order
      BY <1>2, <2>2 DEF ShelfInv, HeldLevels
    <3>2. orderHolder[clerk[d].order] = d
      BY <3>1, CreditFacts
    <3> QED BY <1>3, <3>1, <3>2
  <2> QED BY <2>1, <2>2
<1> QED BY <1>1, <1>2, <1>3, <1>4

LEMMA ShelfReadLevel ==
    ASSUME TypeOK, CreditInv, ShelfInv, OneOrderEach, Technicians = {}, NEW c \in Clerks, ReadLevel(c)
    PROVE  ShelfInv'
<1>1. clerk[c].pc = "read" /\ clerk[c] \in BusyClerk /\ clerk[c].line \in Lines
  BY ClerkFields DEF ReadLevel, Idle, TypeOK
<1>2. PICK ln \in Lines : ln = clerk[c].line
  BY <1>1
<1>3. PICK l \in Levels : l = LevelOf[ln]
  BY InventoryAssumption
<1>4. /\ \A k \in At(l) : OrderOf[k] = clerk[c].order
      /\ levelHolder[l] \in {Nobody, c}
      /\ Working(c)
  <2>1. Crediting(c, ln)
    BY <1>1, <1>2 DEF Crediting
  <2> QED BY <1>1, <1>3, <2>1, OwnLevel DEF Working
<1>5. PICK seen : /\ seen = (IF levelHolder[l] = c THEN pendingOnHand[l] ELSE onHand[l])
                  /\ clerk' = [clerk EXCEPT ![c].pc = "credit", ![c].seen = seen]
  BY <1>2, <1>3 DEF ReadLevel
<1>6. /\ clerk'[c].pc = "credit" /\ clerk'[c].seen = seen /\ clerk'[c].line = ln
      /\ clerk'[c].order = clerk[c].order
      /\ \A d \in Clerks \ {c} : clerk'[d] = clerk[d]
  BY <1>1, <1>2, <1>5 DEF TypeOK, BusyClerk
<1>7. /\ UNCHANGED <<rows, onHand, used, adjusted, credited, pendingCredited>>
      /\ \A k : CreditedAt(k)' = CreditedAt(k) /\ PendingAt(k)' = PendingAt(k)
  BY DEF ReadLevel, orderVars, usageVars, CreditedAt, PendingAt
<1>8. \A d \in Clerks : Working(d) => Working(d)' /\ clerk'[d].order = clerk[d].order
  BY <1>6 DEF Working
<1>9. levelHolder[l] = Nobody => PendingAt(l) = CreditedAt(l)
  BY ShelfSums DEF ShelfInv, FreeLevels
<1>10. seen = Opening[l] + PendingAt(l)
  BY <1>4, <1>5, <1>9 DEF ShelfInv, Stocked, HeldLevels
<1>11. Stocked'
  BY <1>7 DEF ShelfInv, Stocked
<1>12. FreeLevels' /\ HeldLevels'
  <2>1. CASE UNCHANGED <<levelHolder, pendingOnHand>>
    BY <1>7, <1>8, <2>1 DEF ShelfInv, FreeLevels, HeldLevels
  <2>2. CASE /\ l \notin rows /\ levelHolder[l] = Nobody
             /\ levelHolder' = [levelHolder EXCEPT ![l] = c]
             /\ pendingOnHand' = [pendingOnHand EXCEPT ![l] = 0]
    <3>1. Opening[l] + PendingAt(l) = 0
      BY <1>9, <2>2 DEF ShelfInv, Stocked
    <3>2. /\ levelHolder'[l] = c /\ pendingOnHand'[l] = 0
          /\ \A k \in Levels \ {l} : levelHolder'[k] = levelHolder[k] /\ pendingOnHand'[k] = pendingOnHand[k]
      BY <2>2 DEF TypeOK
    <3>3. FreeLevels'
      BY <1>7, <3>2, InventoryAssumption DEF ShelfInv, FreeLevels
    <3>4. HeldLevels'
      <4> SUFFICES ASSUME NEW k \in Levels, NEW d \in Clerks, levelHolder'[k] = d
                   PROVE  /\ Working(d)'
                          /\ \A n \in At(k) : OrderOf[n] = clerk'[d].order
                          /\ pendingOnHand'[k] = Opening[k] + PendingAt(k)'
        BY DEF HeldLevels
      <4>1. CASE k = l
        BY <1>4, <1>6, <1>7, <1>8, <3>1, <3>2, <4>1
      <4>2. CASE k # l
        BY <1>7, <1>8, <3>2, <4>2 DEF ShelfInv, HeldLevels
      <4> QED BY <4>1, <4>2
    <3> QED BY <3>3, <3>4
  <2> QED BY <1>2, <1>3, <2>1, <2>2 DEF ReadLevel
<1>13. LevelsRead'
  BY <1>3, <1>6, <1>7, <1>10 DEF ShelfInv, LevelsRead
<1> QED BY <1>11, <1>12, <1>13 DEF ShelfInv

LEMMA ShelfCreditLevel ==
    ASSUME TypeOK, CreditInv, ShelfInv, OneOrderEach, Technicians = {}, NEW c \in Clerks, CreditLevel(c)
    PROVE  ShelfInv'
<1>1. clerk[c].pc = "credit" /\ clerk[c] \in BusyClerk /\ clerk[c].line \in Lines
  BY ClerkFields DEF CreditLevel, Idle, TypeOK
<1>2. PICK ln \in Lines : ln = clerk[c].line
  BY <1>1
<1>3. PICK l \in Levels : l = LevelOf[ln]
  BY InventoryAssumption
<1>4. /\ ln \in At(l)
      /\ \A k \in At(l) : OrderOf[k] = clerk[c].order
      /\ levelHolder[l] \in {Nobody, c}
      /\ Working(c)
  <2>1. Crediting(c, ln)
    BY <1>1, <1>2 DEF Crediting
  <2> QED BY <1>1, <1>3, <2>1, OwnLevel DEF Working
<1>5. PICK delta \in Nat : delta = clerk[c].delta
  BY <1>1 DEF BusyClerk
<1>6. PICK n \in Int : n = clerk[c].seen + delta
  BY <1>1 DEF BusyClerk
<1>7. /\ levelHolder' = [levelHolder EXCEPT ![l] = c]
      /\ pendingOnHand' = [pendingOnHand EXCEPT ![l] = n]
      /\ pendingCredited' = [pendingCredited EXCEPT ![ln] = @ + delta]
      /\ clerk' = [clerk EXCEPT ![c].pc = "lines"]
      /\ UNCHANGED <<rows, onHand, used, adjusted, credited>>
  BY <1>2, <1>3, <1>5, <1>6 DEF CreditLevel, NewQuantity, usageVars
<1>8. /\ clerk'[c].pc = "lines" /\ clerk'[c].order = clerk[c].order
      /\ \A d \in Clerks \ {c} : clerk'[d] = clerk[d]
      /\ \A d \in Clerks : Working(d) => Working(d)' /\ clerk'[d].order = clerk[d].order
  <2>1. /\ clerk'[c].pc = "lines" /\ clerk'[c].order = clerk[c].order
        /\ \A d \in Clerks \ {c} : clerk'[d] = clerk[d]
    BY <1>1, <1>7 DEF TypeOK, BusyClerk
  <2> QED BY <2>1 DEF Working
<1>9. /\ levelHolder'[l] = c /\ pendingOnHand'[l] = n
      /\ \A k \in Levels \ {l} : levelHolder'[k] = levelHolder[k] /\ pendingOnHand'[k] = pendingOnHand[k]
  BY <1>7 DEF TypeOK
<1>10. /\ \A k : CreditedAt(k)' = CreditedAt(k)
       /\ \A k \in Levels \ {l} : ln \notin At(k) /\ PendingAt(k)' = PendingAt(k)
       /\ PendingAt(l)' = PendingAt(l) + delta
  <2>1. /\ \A k \in Lines : pendingCredited[k] \in Nat
        /\ pendingCredited'[ln] = pendingCredited[ln] + delta
        /\ \A k \in Lines \ {ln} : pendingCredited'[k] = pendingCredited[k]
    BY <1>7 DEF TypeOK
  <2>2. \A k : PendingAt(k)' = Sum(pendingCredited', At(k))
    BY DEF PendingAt, Sum
  <2>3. ASSUME NEW k \in Levels \ {l} PROVE ln \notin At(k) /\ PendingAt(k)' = PendingAt(k)
    <3>1. ln \notin At(k)
      BY <1>3 DEF At
    <3>2. \A m \in At(k) : pendingCredited'[m] = pendingCredited[m]
      BY <2>1, <3>1, ReceivedSums
    <3> HIDE DEF At
    <3> QED BY <2>2, <3>1, <3>2, ReceivedSums, ShelfSums, SumEqual
  <2>4. PendingAt(l)' = PendingAt(l) + delta
    <3>1. /\ \A m \in At(l) : pendingCredited[m] \in Int
          /\ \A m \in At(l) \ {ln} : pendingCredited'[m] = pendingCredited[m]
          /\ pendingCredited'[ln] \in Int
          /\ pendingCredited'[ln] - pendingCredited[ln] = delta
      BY <2>1, ReceivedSums
    <3>2. Sum(pendingCredited', At(l)) = Sum(pendingCredited, At(l)) + (pendingCredited'[ln] - pendingCredited[ln])
      BY <1>4, <3>1, ReceivedSums, SumExcept
    <3> QED BY <2>2, <3>1, <3>2, ShelfSums
  <2>5. \A k : CreditedAt(k)' = CreditedAt(k)
    BY <1>7 DEF CreditedAt
  <2> QED BY <2>3, <2>4, <2>5
<1>11. n = Opening[l] + PendingAt(l)'
  <2>1. clerk[c].seen = Opening[l] + PendingAt(l)
    BY <1>1, <1>2, <1>3 DEF ShelfInv, LevelsRead
  <2>2. PendingAt(l) \in Nat /\ Opening[l] \in Nat
    BY ShelfSums, InventoryAssumption
  <2> QED BY <1>6, <1>10, <2>1, <2>2
<1>12. Stocked'
  BY <1>7, <1>10 DEF ShelfInv, Stocked
<1>13. FreeLevels'
  <2> SUFFICES ASSUME NEW k \in Levels, levelHolder'[k] = Nobody
               PROVE  \A m \in At(k) : pendingCredited'[m] = credited'[m]
    BY DEF FreeLevels
  <2>1. k # l /\ levelHolder[k] = Nobody
    BY <1>9, InventoryAssumption
  <2>2. ln \notin At(k)
    BY <1>10, <2>1
  <2>3. \A m \in At(k) : pendingCredited'[m] = pendingCredited[m]
    BY <1>7, <2>2, ReceivedSums DEF TypeOK
  <2> QED BY <1>7, <2>1, <2>3 DEF ShelfInv, FreeLevels
<1>14. HeldLevels'
  <2> SUFFICES ASSUME NEW k \in Levels, NEW d \in Clerks, levelHolder'[k] = d
               PROVE  /\ Working(d)'
                      /\ \A m \in At(k) : OrderOf[m] = clerk'[d].order
                      /\ pendingOnHand'[k] = Opening[k] + PendingAt(k)'
    BY DEF HeldLevels
  <2>1. CASE k = l
    BY <1>4, <1>8, <1>9, <1>11, <2>1
  <2>2. CASE k # l
    BY <1>8, <1>9, <1>10, <2>2 DEF ShelfInv, HeldLevels
  <2> QED BY <2>1, <2>2
(* No other clerk is about to credit this level.                             *)
<1>15. LevelsRead'
  <2> SUFFICES ASSUME NEW d \in Clerks, NEW k \in Levels, clerk'[d].pc = "credit", LevelOf[clerk'[d].line] = k
               PROVE  clerk'[d].seen = Opening[k] + PendingAt(k)'
    BY DEF LevelsRead
  <2>1. d # c /\ clerk'[d] = clerk[d] /\ clerk[d].pc = "credit"
    BY <1>8
  <2>2. PICK m \in Lines : m = clerk[d].line
    BY <2>1 DEF TypeOK
  <2>3. Crediting(d, m) /\ Crediting(c, ln)
    BY <1>1, <1>2, <2>1, <2>2 DEF Crediting
  <2>4. LevelOf[m] \in Levels /\ m \in At(LevelOf[m])
    BY <2>3, OwnLevel
  <2>5. LevelOf[m] # l
    <3> SUFFICES ASSUME LevelOf[m] = l PROVE FALSE
      OBVIOUS
    <3>1. OrderOf[m] = clerk[c].order /\ OrderOf[m] = clerk[d].order
      BY <1>4, <2>3, <2>4, CreditFacts
    <3>2. orderHolder[clerk[c].order] = c /\ orderHolder[clerk[d].order] = d
      BY <2>3, CreditFacts
    <3> QED BY <2>1, <3>1, <3>2
  <2>6. PendingAt(LevelOf[m])' = PendingAt(LevelOf[m])
    BY <1>10, <2>4, <2>5
  <2>7. clerk[d].seen = Opening[LevelOf[m]] + PendingAt(LevelOf[m])
    BY <2>1, <2>2 DEF ShelfInv, LevelsRead
  <2> QED BY <2>1, <2>2, <2>6, <2>7
<1> QED BY <1>12, <1>13, <1>14, <1>15 DEF ShelfInv

(* When a clerk is done: of which order the lines of a level are, by who     *)
(* holds the level.                                                          *)
LEMMA HeldByOthers ==
    ASSUME TypeOK, CreditInv, ShelfInv, Technicians = {}, NEW c \in Clerks, NEW l \in Levels
    PROVE  /\ levelHolder[l] = c => /\ orderHolder[clerk[c].order] = c
                                    /\ \A ln \in At(l) : OrderOf[ln] = clerk[c].order
           /\ orderHolder[clerk[c].order] = c /\ levelHolder[l] \notin {Nobody, c} =>
                  \A ln \in At(l) : OrderOf[ln] # clerk[c].order
<1>1. ASSUME NEW d \in Clerks, levelHolder[l] = d
      PROVE  orderHolder[clerk[d].order] = d /\ \A ln \in At(l) : OrderOf[ln] = clerk[d].order
  BY <1>1 DEF ShelfInv, HeldLevels, CreditInv
<1>2. levelHolder[l] \in Clerks \cup {Nobody}
  BY DEF TypeOK
<1> QED BY <1>1, <1>2

(* The rest of it is the same whether the clerk commits or rolls back.       *)
LEMMA ShelfRelease ==
    ASSUME TypeOK, CreditInv, ShelfInv, OneOrderEach, Technicians = {}, NEW c \in Clerks, ~Idle(c),
           Release(c), Stocked',
           \A l \in Levels : levelHolder[l] \in {Nobody, c} =>
               \A ln \in At(l) : pendingCredited'[ln] = credited'[ln],
           \A ln \in Lines : \/ pendingCredited'[ln] = pendingCredited[ln]
                             \/ OrderOf[ln] = clerk[c].order /\ orderHolder[clerk[c].order] = c
    PROVE  ShelfInv'
<1>1. /\ clerk'[c] = IdleClerk /\ \A d \in Clerks \ {c} : clerk'[d] = clerk[d]
      /\ \A l \in Levels : levelHolder'[l] = IF levelHolder[l] = c THEN Nobody ELSE levelHolder[l]
      /\ \A l \in Levels : levelHolder[l] # c => pendingOnHand'[l] = pendingOnHand[l]
  BY DEF Release, HeldBy, TypeOK
<1>2. \A l : PendingAt(l)' = Sum(pendingCredited', At(l))
  BY DEF PendingAt, Sum
<1>3. ASSUME NEW l \in Levels, \A ln \in At(l) : pendingCredited'[ln] = pendingCredited[ln]
      PROVE  PendingAt(l)' = PendingAt(l)
  BY <1>2, <1>3, ReceivedSums, ShelfSums, SumEqual
<1>4. FreeLevels'
  BY <1>1 DEF FreeLevels
<1>5. HeldLevels'
  <2> SUFFICES ASSUME NEW l \in Levels, NEW d \in Clerks, levelHolder'[l] = d
               PROVE  /\ Working(d)'
                      /\ \A ln \in At(l) : OrderOf[ln] = clerk'[d].order
                      /\ pendingOnHand'[l] = Opening[l] + PendingAt(l)'
    BY DEF HeldLevels
  <2>1. levelHolder[l] = d /\ d # c /\ d # Nobody /\ clerk'[d] = clerk[d]
    BY <1>1, InventoryAssumption
  <2>2. PendingAt(l)' = PendingAt(l)
    <3>1. \A ln \in At(l) : pendingCredited'[ln] = pendingCredited[ln]
      BY <2>1, HeldByOthers, ReceivedSums
    <3> QED BY <1>3, <3>1
  <2> QED BY <1>1, <2>1, <2>2 DEF ShelfInv, HeldLevels, Working
<1>6. LevelsRead'
  <2> SUFFICES ASSUME NEW d \in Clerks, NEW k \in Levels, clerk'[d].pc = "credit", LevelOf[clerk'[d].line] = k
               PROVE  clerk'[d].seen = Opening[k] + PendingAt(k)'
    BY DEF LevelsRead
  <2>1. d # c /\ clerk'[d] = clerk[d] /\ clerk[d].pc = "credit"
    BY <1>1 DEF IdleClerk
  <2>2. PICK m \in Lines : m = clerk[d].line
    BY <2>1 DEF TypeOK
  <2>3. Crediting(d, m)
    BY <2>1, <2>2 DEF Crediting
  <2>4. PICK l \in Levels : l = LevelOf[m] /\ l = k
    BY <2>1, <2>2
  <2>5. \A ln \in At(l) : OrderOf[ln] = clerk[d].order
    <3>1. \A ln \in At(LevelOf[m]) : OrderOf[ln] = clerk[d].order
      BY <2>3, OwnLevel
    <3> QED BY <2>4, <3>1
  <2>6. \A ln \in At(l) : pendingCredited'[ln] = pendingCredited[ln]
    <3>1. orderHolder[clerk[d].order] = d
      BY <2>3, CreditFacts
    <3> QED BY <2>1, <2>5, <3>1, ReceivedSums
  <2>7. PendingAt(l)' = PendingAt(l)
    BY <1>3, <2>6
  <2>8. clerk[d].seen = Opening[l] + PendingAt(l)
    BY <2>1, <2>2, <2>4 DEF ShelfInv, LevelsRead
  <2> QED BY <2>1, <2>2, <2>4, <2>7, <2>8
<1> QED BY <1>4, <1>5, <1>6 DEF ShelfInv

LEMMA ShelfCommitPost ==
    ASSUME TypeOK, CreditInv, ShelfInv, OneOrderEach, Technicians = {}, NEW c \in Clerks, CommitPost(c)
    PROVE  ShelfInv'
<1>1. PICK o \in Orders : o = clerk[c].order
  BY ClerkFields DEF CommitPost, Idle
<1>2. /\ Release(c) /\ ~Idle(c)
      /\ rows' = rows \cup HeldBy(c)
      /\ onHand' = [l \in Levels |-> IF l \in HeldBy(c) THEN pendingOnHand[l] ELSE onHand[l]]
      /\ credited' = [ln \in Lines |-> IF OrderOf[ln] = o THEN pendingCredited[ln] ELSE credited[ln]]
      /\ UNCHANGED <<pendingCredited, used, adjusted>>
  BY <1>1 DEF CommitPost, Idle, usageVars
<1>3. orderHolder[o] = c
  BY <1>1, CreditFacts DEF CommitPost, Working, CreditInv
<1>4. \A l : CreditedAt(l)' = Sum(credited', At(l))
  BY DEF CreditedAt, Sum
<1>5. ASSUME NEW l \in Levels, levelHolder[l] \in {Nobody, c}
      PROVE  \A ln \in At(l) : pendingCredited'[ln] = credited'[ln]
  <2>1. CASE levelHolder[l] = c
    BY <1>1, <1>2, <2>1, HeldByOthers, ReceivedSums
  <2>2. CASE levelHolder[l] = Nobody
    BY <1>2, <2>2, ReceivedSums DEF ShelfInv, FreeLevels
  <2> QED BY <1>5, <2>1, <2>2
<1>6. Stocked'
  <2> SUFFICES ASSUME NEW l \in Levels
               PROVE  /\ onHand'[l] = Opening[l] + CreditedAt(l)'
                      /\ l \notin rows' => onHand'[l] = 0
                      /\ used'[l] = 0 /\ adjusted'[l] = 0
    BY DEF Stocked
  <2>1. CASE levelHolder[l] = c
    <3>1. onHand'[l] = pendingOnHand[l] /\ l \in rows'
      BY <1>2, <2>1 DEF HeldBy
    <3>2. CreditedAt(l)' = PendingAt(l)
      BY <1>2, <1>4, <1>5, <2>1, ReceivedSums, ShelfSums, SumEqual
    <3> QED BY <1>2, <2>1, <3>1, <3>2 DEF ShelfInv, HeldLevels, Stocked
  <2>2. CASE levelHolder[l] # c
    <3>1. onHand'[l] = onHand[l] /\ (l \notin rows' => l \notin rows)
      BY <1>2, <2>2 DEF HeldBy
    <3>2. \A ln \in At(l) : credited'[ln] = credited[ln]
      <4>1. CASE levelHolder[l] = Nobody
        BY <1>2, <4>1, ReceivedSums DEF ShelfInv, FreeLevels
      <4>2. CASE levelHolder[l] # Nobody
        BY <1>1, <1>2, <1>3, <2>2, <4>2, HeldByOthers, ReceivedSums
      <4> QED BY <4>1, <4>2
    <3>3. CreditedAt(l)' = CreditedAt(l)
      BY <1>4, <3>2, ReceivedSums, ShelfSums, SumEqual
    <3> QED BY <1>2, <3>1, <3>3 DEF ShelfInv, Stocked
  <2> QED BY <2>1, <2>2
<1> QED BY <1>2, <1>5, <1>6, ShelfRelease

LEMMA ShelfRollback ==
    ASSUME TypeOK, CreditInv, ShelfInv, OneOrderEach, Technicians = {}, NEW c \in Clerks, ~Idle(c), Rollback(c)
    PROVE  ShelfInv'
<1>1. PICK o \in Orders : o = clerk[c].order
  BY ClerkFields
<1>2. /\ Release(c)
      /\ pendingCredited' = [ln \in Lines |->
             IF orderHolder[o] = c /\ OrderOf[ln] = o THEN credited[ln] ELSE pendingCredited[ln]]
      /\ UNCHANGED <<rows, onHand, credited, used, adjusted>>
  BY <1>1 DEF Rollback, usageVars
<1>3. Stocked'
  <2>1. \A l : CreditedAt(l)' = CreditedAt(l)
    BY <1>2 DEF CreditedAt
  <2> QED BY <1>2, <2>1 DEF ShelfInv, Stocked
<1>4. ASSUME NEW l \in Levels, levelHolder[l] \in {Nobody, c}
      PROVE  \A ln \in At(l) : pendingCredited'[ln] = credited'[ln]
  <2>1. CASE levelHolder[l] = c
    BY <1>1, <1>2, <2>1, HeldByOthers, ReceivedSums
  <2>2. CASE levelHolder[l] = Nobody
    BY <1>2, <2>2, ReceivedSums DEF ShelfInv, FreeLevels
  <2> QED BY <1>4, <2>1, <2>2
<1>5. \A ln \in Lines : \/ pendingCredited'[ln] = pendingCredited[ln]
                        \/ OrderOf[ln] = clerk[c].order /\ orderHolder[clerk[c].order] = c
  BY <1>1, <1>2
<1> QED BY <1>2, <1>3, <1>4, <1>5, ShelfRelease

LEMMA ShelfClerk ==
    ASSUME TypeOK, CreditInv, ShelfInv, OneOrderEach, Technicians = {}, NEW c \in Clerks, ClerkNext(c)
    PROVE  ShelfInv'
<1>0. /\ \A b : clerk' = [clerk EXCEPT ![c] = b] =>
             clerk'[c] = b /\ \A d \in Clerks \ {c} : clerk'[d] = clerk[d]
      /\ ~Idle(c) => clerk[c] \in BusyClerk
  BY ClerkFields DEF TypeOK
<1>1. ASSUME NEW b, clerk' = [clerk EXCEPT ![c] = b], b.pc # "credit",
             Working(c) => b.pc \in {"lines", "read"} /\ b.order = clerk[c].order,
             UNCHANGED <<rows, onHand, levelHolder, pendingOnHand, used, adjusted, credited, pendingCredited>>
      PROVE  ShelfInv'
  BY <1>0, <1>1, ShelfOthers DEF Working
<1>2. ASSUME NEW o \in Orders, NEW st \in HandStatuses, NEW entries, Post(c, o, st, entries)
      PROVE  ShelfInv'
  <2> DEFINE b == [pc |-> "model", order |-> o, status |-> st,
                   entries |-> entries, line |-> 0, delta |-> 0, seen |-> 0]
  <2>1. ~Working(c) /\ clerk' = [clerk EXCEPT ![c] = b] /\ b.pc # "credit"
    BY <1>2 DEF Post, Idle, Working
  <2> HIDE DEF b
  <2> QED BY <1>1, <1>2, <2>1 DEF Post, levelVars, orderVars, usageVars
<1>3. CASE SaveModel(c)
  <2> DEFINE b == [clerk[c] EXCEPT !.pc = "lines"]
  <2>1. clerk[c].pc = "model" /\ ~Working(c) /\ clerk' = [clerk EXCEPT ![c] = b]
    BY <1>3 DEF SaveModel, Working
  <2>2. b.pc = "lines"
    BY <1>0, <2>1 DEF Idle, BusyClerk
  <2> HIDE DEF b
  <2> QED BY <1>1, <1>3, <2>1, <2>2 DEF SaveModel, levelVars, usageVars
<1>4. CASE LineStep(c)
  <2>1. PICK ln \in Lines : SaveLine(c, ln) \/ DeleteLine(c, ln) \/ RefuseLine(c, ln)
    BY <1>4 DEF LineStep
  <2>2. CASE SaveLine(c, ln)
    <3> DEFINE e == clerk[c].entries[ln]
               delta == e.received - PreviousReceived(ln)
               pc == IF delta = 0 THEN "lines" ELSE "read"
               b == [clerk[c] EXCEPT !.pc = pc, !.entries = [clerk[c].entries EXCEPT ![ln] = Keep],
                                     !.line = ln, !.delta = delta]
    <3>1. clerk' = [clerk EXCEPT ![c] = b]
      BY <2>2 DEF SaveLine
    <3>2. pc \in {"lines", "read"}
      OBVIOUS
    <3> HIDE DEF delta, pc
    <3>3. b.pc = pc /\ b.order = clerk[c].order
      BY <1>0, <2>2 DEF SaveLine, IsNext, Idle, BusyClerk
    <3> HIDE DEF b
    <3> QED BY <1>1, <2>2, <3>1, <3>2, <3>3 DEF SaveLine, levelVars, usageVars
  <2>3. CASE DeleteLine(c, ln)
    <3> DEFINE b == [clerk[c] EXCEPT !.entries[ln] = Keep]
    <3>1. clerk[c].pc = "lines" /\ clerk' = [clerk EXCEPT ![c] = b]
      BY <2>3 DEF DeleteLine, IsNext
    <3>2. b.pc = "lines" /\ b.order = clerk[c].order
      BY <1>0, <3>1 DEF Idle, BusyClerk
    <3> HIDE DEF b
    <3> QED BY <1>1, <2>3, <3>1, <3>2 DEF DeleteLine, levelVars, usageVars
  <2>4. CASE RefuseLine(c, ln)
    BY <2>4, ShelfRollback DEF RefuseLine, IsNext, Idle
  <2> QED BY <2>1, <2>2, <2>3, <2>4
<1>5. CASE BreakDeadlock(c) \/ CrashPost(c)
  <2>1. ~Idle(c) /\ Rollback(c)
    <3>1. CASE BreakDeadlock(c)
      <4>1. \E d \in Clerks : WaitsFor(c, d)
        BY <3>1 DEF BreakDeadlock, Deadlocked
      <4> QED BY <3>1, <4>1 DEF BreakDeadlock, WaitsFor, Idle
    <3> QED BY <1>5, <3>1 DEF CrashPost
  <2> QED BY <2>1, ShelfRollback
<1>6. CASE ReadLevel(c) \/ CreditLevel(c) \/ CommitPost(c)
  BY <1>6, ShelfReadLevel, ShelfCreditLevel, ShelfCommitPost
<1> QED BY <1>2, <1>3, <1>4, <1>5, <1>6 DEF ClerkNext

LEMMA ShelfStep ==
    ASSUME OneOrderEach, Technicians = {}, Stocktakers = {}, TypeOK, CreditInv, ShelfInv, [Next]_vars
    PROVE  ShelfInv'
<1>1. CASE UNCHANGED vars
  BY <1>1, ShelfOthers DEF vars, levelVars, orderVars, usageVars, Working
<1>2. ASSUME NEW c \in Clerks, ClerkNext(c) PROVE ShelfInv'
  BY <1>2, ShelfClerk
<1>3. ASSUME NEW p \in Planners, PlannerNext(p) PROVE ShelfInv'
  <2>1. ASSUME NEW l \in Levels, NEW w \in WorkOrders, NEW q \in Quantities, Reserve(p, l, w, q)
        PROVE  ShelfInv'
    BY <2>1, ShelfOthers DEF Reserve, orderVars, usageVars, Working
  <2>2. ASSUME NEW i \in DOMAIN reservations, LoadReservation(p, i) PROVE ShelfInv'
    BY <2>2, ShelfOthers DEF LoadReservation, levelVars, orderVars, usageVars, Working
  <2>3. CASE CancelReservation(p)
    BY <2>3, ShelfOthers DEF CancelReservation, levelVars, orderVars, usageVars, Working
  <2> QED BY <1>3, <2>1, <2>2, <2>3 DEF PlannerNext
<1> QED BY <1>1, <1>2, <1>3 DEF Next

(* What was credited is what the lines say arrived.                          *)
LEMMA ShelfBalanced ==
    ASSUME Deletable = {}, TypeOK, CreditInv, ShelfInv
    PROVE  Balanced
<1> SUFFICES ASSUME NEW l \in Levels
             PROVE  onHand[l] = Opening[l] + ReceivedAt(l) + adjusted[l] - used[l]
  BY DEF Balanced
<1>1. \A ln \in At(l) : credited[ln] = Received[ln]
  BY ReceivedSums DEF CreditInv, CreditedOnce, Received
<1>2. CreditedAt(l) = ReceivedAt(l)
  BY <1>1, ReceivedSums, ShelfSums, SumEqual
<1>3. ReceivedAt(l) \in Nat /\ Opening[l] \in Nat
  BY ReceivedSums, InventoryAssumption
<1> QED BY <1>2, <1>3 DEF ShelfInv, Stocked

(* Any number of clerks receive, however stale their forms and in whatever   *)
(* order their transactions wait, fail and commit: every unit on a shelf is  *)
(* one that a line says arrived (models.py, PurchaseOrderLine.save) - where  *)
(* no line may be deleted and the lines for a shelf are of one order.        *)
THEOREM ReceiptsBalance ==
    Technicians = {} /\ Stocktakers = {} /\ Deletable = {} /\ OneOrderEach => (Spec => []Balanced)
<1> SUFFICES ASSUME Technicians = {}, Stocktakers = {}, Deletable = {}, OneOrderEach PROVE Spec => []Balanced
  OBVIOUS
<1>1. Init => ShelfInv
  BY ShelfInit
<1>2. TypeOK /\ CreditInv /\ ShelfInv /\ [Next]_vars => ShelfInv'
  BY ShelfStep
<1>3. TypeOK /\ CreditInv /\ ShelfInv => Balanced
  BY ShelfBalanced
<1> QED BY <1>1, <1>2, <1>3, CreditInit, CreditStep, TypeCorrect, PTL DEF Spec

(* A commit is a delivery of the ledger; nothing else a clerk does shows.    *)
LEMMA QuietClerk ==
    ASSUME NEW c \in Clerks, ClerkNext(c), ~CommitPost(c)
    PROVE  Quiet
<1>1. UNCHANGED <<line, used, adjusted>>
  BY LinesByCommit, ClerksLeaveUsage DEF usageVars
<1>2. Rollback(c) => UNCHANGED onHand
  BY DEF Rollback
<1>3. LineStep(c) => UNCHANGED onHand
  <2> SUFFICES ASSUME NEW ln \in Lines, SaveLine(c, ln) \/ DeleteLine(c, ln) \/ RefuseLine(c, ln)
               PROVE  UNCHANGED onHand
    BY DEF LineStep
  <2>1. CASE SaveLine(c, ln)
    BY <2>1 DEF SaveLine, levelVars
  <2>2. CASE DeleteLine(c, ln)
    BY <2>2 DEF DeleteLine, levelVars
  <2>3. CASE RefuseLine(c, ln)
    BY <1>2, <2>3 DEF RefuseLine
  <2> QED BY <2>1, <2>2, <2>3
<1>4. ASSUME NEW o \in Orders, NEW st, NEW entries, Post(c, o, st, entries) PROVE UNCHANGED onHand
  BY <1>4 DEF Post, levelVars
<1>5. SaveModel(c) \/ ReadLevel(c) \/ CreditLevel(c) => UNCHANGED onHand
  BY DEF SaveModel, ReadLevel, CreditLevel, levelVars
<1> QED BY <1>1, <1>2, <1>3, <1>4, <1>5 DEF ClerkNext, BreakDeadlock, CrashPost, Quiet

LEMMA ReceiptRaises ==
    ASSUME Deletable = {}, TypeOK, TypeOK', CreditInv, ViewInv, NEW c \in Clerks, CommitPost(c), NEW l
    PROVE  ReceivedAt(l)' >= ReceivedAt(l)
<1>1. line' = [ln \in Lines |-> IF OrderOf[ln] = clerk[c].order THEN pendingLine[ln] ELSE line[ln]]
  BY DEF CommitPost
<1>2. ReceivedAt(l)' = Sum(Received', At(l))
  BY DEF ReceivedAt, Sum, Received, At
<1>3. \A ln \in Lines : Received[ln] \in Int /\ Received'[ln] \in Int
  BY DEF TypeOK, LineRow, Received
<1>4. \A ln \in Lines : Received[ln] <= Received'[ln]
  <2> SUFFICES ASSUME NEW ln \in Lines PROVE line[ln].received <= line'[ln].received
    BY DEF Received
  <2>1. line[ln].received \in Nat /\ line'[ln].received \in Nat
    BY DEF TypeOK, LineRow
  <2>2. CASE line'[ln] = line[ln]
    BY <2>1, <2>2
  <2>3. CASE line'[ln] = pendingLine[ln]
    <3>1. CASE line[ln].state = "saved"
      <4>1. pendingLine[ln].state # "deleted" /\ pendingLine[ln].state # "unsaved"
        BY <3>1 DEF CreditInv, ViewInv, Grown
      <4>2. pendingLine[ln].state = "saved"
        BY <4>1 DEF TypeOK, LineRow
      <4> QED BY <2>3, <3>1, <4>2 DEF ViewInv, Grown
    <3>2. CASE line[ln].state = "unsaved"
      BY <2>1, <3>2 DEF CreditInv
    <3>3. line[ln].state \in {"unsaved", "saved"}
      BY DEF TypeOK, LineRow, CreditInv
    <3> QED BY <3>1, <3>2, <3>3
  <2> QED BY <1>1, <2>2, <2>3
<1>5. \A ln \in At(l) : Received[ln] \in Int /\ Received'[ln] \in Int /\ Received[ln] <= Received'[ln]
  BY <1>3, <1>4, ReceivedSums
<1>6. Sum(Received, At(l)) <= Sum(Received', At(l))
  BY <1>5, ReceivedSums, SumLeq
<1> QED BY <1>2, <1>6, ReceivedSums, ReceivedTyped

LEMMA CommitDelivers ==
    ASSUME Deletable = {}, TypeOK, TypeOK', CreditInv, ViewInv, Balanced, Balanced',
           NEW c \in Clerks, CommitPost(c)
    PROVE  Ledger!Receive
<1> DEFINE R == [l \in Levels |-> ReceivedAt(l)]
<1>1. UNCHANGED <<used, adjusted>>
  BY DEF CommitPost, usageVars
<1>2. \A l \in Levels : R'[l] >= R[l]
  BY ReceiptRaises
<1>3. onHand' = [l \in Levels |-> onHand[l] + (R'[l] - R[l])]
  <2>1. ASSUME NEW l \in Levels PROVE onHand'[l] = onHand[l] + (R'[l] - R[l])
    <3>1. R[l] = ReceivedAt(l) /\ R'[l] = ReceivedAt(l)'
      OBVIOUS
    <3>2. R[l] \in Int /\ R'[l] \in Int
      BY <3>1, ReceivedSums, ReceivedTyped
    <3>3. /\ onHand[l] = Opening[l] + R[l] + adjusted[l] - used[l]
          /\ onHand'[l] = Opening[l] + R'[l] + adjusted'[l] - used'[l]
      BY <3>1 DEF Balanced
    <3>4. /\ onHand[l] \in Int /\ onHand'[l] \in Int /\ adjusted[l] \in Int /\ used[l] \in Int
          /\ Opening[l] \in Int
      BY InventoryAssumption DEF TypeOK
    <3> HIDE DEF R
    <3> QED BY <1>1, <3>2, <3>3, <3>4
  <2>2. onHand' \in [Levels -> Int]
    BY DEF TypeOK
  <2> HIDE DEF R
  <2> QED BY <2>1, <2>2
<1>4. DOMAIN R' = Levels
  OBVIOUS
<1> QED BY <1>1, <1>2, <1>3, <1>4 DEF Ledger!Receive

(* ... and every committed POST is one delivery, which books on each shelf   *)
(* what its lines say more than before; a rolled back one never shows.       *)
THEOREM ReceiptsImplementLedger ==
    Technicians = {} /\ Stocktakers = {} /\ Deletable = {} /\ OneOrderEach => (Spec => LedgerSpec)
<1> SUFFICES ASSUME Technicians = {}, Stocktakers = {}, Deletable = {}, OneOrderEach PROVE Spec => LedgerSpec
  OBVIOUS
<1>1. /\ TypeOK /\ TypeOK' /\ CreditInv /\ ViewInv /\ Balanced /\ Balanced' /\ [Next]_vars
      => [Ledger!Next]_(Ledger!ledgerVars)
  <2> SUFFICES ASSUME TypeOK, TypeOK', CreditInv, ViewInv, Balanced, Balanced', [Next]_vars
               PROVE  [Ledger!Next]_(Ledger!ledgerVars)
    OBVIOUS
  <2>1. CASE UNCHANGED vars
    <3>1. Quiet
      BY <2>1 DEF Quiet, vars, levelVars, orderVars, usageVars
    <3> QED BY <3>1, QuietStutters
  <2>2. ASSUME NEW c \in Clerks, ClerkNext(c) PROVE [Ledger!Next]_(Ledger!ledgerVars)
    <3>1. CASE CommitPost(c)
      BY <3>1, CommitDelivers DEF Ledger!Next
    <3>2. CASE ~CommitPost(c)
      BY <2>2, <3>2, QuietClerk, QuietStutters
    <3> QED BY <3>1, <3>2
  <2>3. ASSUME NEW p \in Planners, PlannerNext(p) PROVE [Ledger!Next]_(Ledger!ledgerVars)
    BY <2>3, QuietBooks, QuietStutters
  <2> QED BY <2>1, <2>2, <2>3 DEF Next
<1> QED BY <1>1, LedgerInit, CreditInit, CreditStep, ViewInit, ViewStep, TypeCorrect, ReceiptsBalance, PTL
        DEF Spec, LedgerSpec, Ledger!LedgerSpec
=============================================================================
