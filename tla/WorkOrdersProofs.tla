-------------------------- MODULE WorkOrdersProofs --------------------------
(* For any tickets, people, phones and desks, with or without crashes: types, *)
(* the mail to whoever is assigned, the closing stamps, the snapshot, and    *)
(* what the status log has and has not.                                      *)
EXTENDS TicketHistory, TLAPS

(* Nobody with an address can be assigned, on record or in a row that is     *)
(* about to be written, for whom no mail was tried or is about to be.        *)
Tried(w, a) == a \in Reachable => a \in told[w] \cup undelivered[w]
ToldInv ==
    /\ AssigneeWasMailed
    /\ \A r \in Requests : \/ Idle(r)
                           \/ Tried(request[r].ticket, request[r].row.assignee)
                           \/ r \in Desks /\ request[r].pc \in {"form", "read"}
                           \/ r \in Desks /\ request[r].pc \in {"write", "log", "notify"}
                              /\ AssignmentChanged(r)

(* Past ReadPrevious a row is stamped, so every row that is written is.      *)
IsStamped(row) == row.status = "CLOSED" => row.closedAt /\ row.closeTime # "blank"
StampInv == \A r \in Requests :
    request[r].pc \in {"write", "log", "notify", "commit"} => IsStamped(request[r].row)

(* Requests on a work order that exists carry its snapshot; one that does    *)
(* not exist yet has a single request, which creates it.                     *)
SnapshotInv ==
    /\ \A r \in Requests : ~Idle(r) /\ ticket[request[r].ticket] # NoRow =>
           request[r].row.snapshot = ticket[request[r].ticket].snapshot
    /\ \A r, q \in Requests : ~Idle(r) /\ ~Idle(q) /\ request[r].ticket = request[q].ticket
                              /\ ticket[request[r].ticket] = NoRow => r = q

(* A form is of a work order that exists. *)
Opened == \A d \in Desks : request[d].pc = "form" => ticket[request[d].ticket] # NoRow

-----------------------------------------------------------------------------
(* Facts about the parts of a request *)

LEMMA Busy == ASSUME TypeOK, NEW r \in Requests, ~Idle(r)
              PROVE  request[r] \in BusyRequest
BY DEF TypeOK, Idle, IdleRequest

(* A request begins with a row.                                              *)
LEMMA SavingIsBusy ==
    ASSUME NEW w \in Tickets, NEW row \in Row
    PROVE  /\ Saving(w, row) \in BusyRequest
           /\ [Saving(w, row) EXCEPT !.pc = "form"] \in BusyRequest
BY DEF Saving, BusyRequest

LEMMA NewRowIsRow ==
    ASSUME NEW st \in Statuses, NEW a \in People \cup {NoOne}, NEW time \in CloseTimes
    PROVE  NewRow(st, a, time) \in Row
BY DEF NewRow, Row

(* Stamping a row makes it stamped, and leaves who it is assigned to and the *)
(* configuration alone.                                                      *)
LEMMA StampedRow ==
    ASSUME NEW row \in Row
    PROVE  /\ Stamped(row) \in Row
           /\ IsStamped(Stamped(row))
           /\ Stamped(row).assignee = row.assignee
           /\ Stamped(row).snapshot = row.snapshot
BY DEF Stamped, IsStamped, Row, CloseTimes

(* Taking the configuration changes nothing else, and nothing at all in a    *)
(* row that exists.                                                          *)
LEMMA SnapshotRow ==
    ASSUME TypeOK, NEW row \in Row, NEW previous
    PROVE  /\ WithSnapshot(row, previous) \in Row
           /\ WithSnapshot(row, previous).assignee = row.assignee
           /\ previous # NoRow => WithSnapshot(row, previous) = row
<1>1. configuration \in Nat
  BY DEF TypeOK
<1> QED
  BY <1>1 DEF WithSnapshot, Row

LEMMA PcMoves ==
    ASSUME NEW q \in BusyRequest,
           NEW pc \in {"form", "read", "write", "log", "notify", "commit"}
    PROVE  /\ [q EXCEPT !.pc = pc] \in BusyRequest
           /\ [q EXCEPT !.pc = pc].pc = pc
           /\ [q EXCEPT !.pc = pc].row = q.row
           /\ [q EXCEPT !.pc = pc].ticket = q.ticket
           /\ [q EXCEPT !.pc = pc].previous = q.previous
BY DEF BusyRequest

(* What ReadPrevious makes of a request. *)
ReadBy(r) == [request[r] EXCEPT !.pc = "write", !.previous = ticket[request[r].ticket],
                                !.row = Stamped(WithSnapshot(@, ticket[request[r].ticket]))]

LEMMA ReadRow ==
    ASSUME TypeOK, NEW r \in Requests, ReadPrevious(r)
    PROVE  /\ request' = [request EXCEPT ![r] = ReadBy(r)]
           /\ ReadBy(r) \in BusyRequest
           /\ ReadBy(r).pc = "write"
           /\ ReadBy(r).ticket = request[r].ticket
           /\ ReadBy(r).previous = ticket[request[r].ticket]
           /\ IsStamped(ReadBy(r).row)
           /\ ReadBy(r).row.assignee = request[r].row.assignee
           /\ ticket[request[r].ticket] # NoRow =>
                  ReadBy(r).row.snapshot = request[r].row.snapshot
<1> DEFINE previous == ticket[request[r].ticket]
           row == request[r].row
           new == Stamped(WithSnapshot(row, previous))
<1>1. request[r] \in BusyRequest
  BY Busy DEF ReadPrevious, Idle
<1>2. row \in Row /\ request[r].ticket \in Tickets
  BY <1>1 DEF BusyRequest
<1>3. previous \in Row \cup {NoRow}
  BY <1>2 DEF TypeOK
<1>4. WithSnapshot(row, previous) \in Row
  BY <1>2, SnapshotRow
<1>5. /\ new \in Row /\ IsStamped(new)
      /\ new.assignee = row.assignee
      /\ previous # NoRow => new.snapshot = row.snapshot
  BY <1>2, <1>4, StampedRow, SnapshotRow
<1>6. /\ ReadBy(r) \in BusyRequest
      /\ ReadBy(r).pc = "write" /\ ReadBy(r).row = new
      /\ ReadBy(r).ticket = request[r].ticket /\ ReadBy(r).previous = previous
  <2> HIDE DEF new
  <2>1. ReadBy(r) = [request[r] EXCEPT !.pc = "write", !.previous = previous, !.row = new]
    BY DEF ReadBy, new
  <2> QED
    BY <1>1, <1>3, <1>5, <2>1 DEF BusyRequest
<1>7. request' = [request EXCEPT ![r] = ReadBy(r)]
  BY DEF ReadPrevious, ReadBy
<1> QED
  BY <1>5, <1>6, <1>7

-----------------------------------------------------------------------------
(* Types *)

LEMMA InitTypeOK == Init => TypeOK
BY WorkOrdersAssumption DEF Init, TypeOK, Entry

(* The request a beginning action leaves behind. *)
LEMMA BeginTypeOK ==
    ASSUME TypeOK, NEW r \in Requests, NEW begun \in BusyRequest,
           request' = [request EXCEPT ![r] = begun],
           UNCHANGED <<ticket, holder, log, told, undelivered, configuration>>
    PROVE  TypeOK'
BY DEF TypeOK

LEMMA LoggedTypeOK ==
    ASSUME TypeOK, NEW r \in Requests, request[r] \in BusyRequest
    PROVE  Logged(r) \in [Tickets -> Seq(Entry)]
<1>1. LogEntry(r) \in Entry
  BY DEF LogEntry, IsNew, Entry, BusyRequest, Row
<1>2. log[request[r].ticket] \in Seq(Entry)
  BY DEF TypeOK, BusyRequest
<1>3. Append(log[request[r].ticket], LogEntry(r)) \in Seq(Entry)
  BY <1>1, <1>2
<1> QED
  BY <1>3 DEF Logged, TypeOK

LEMMA PhoneTypeOK == ASSUME TypeOK, NEW p \in Phones, PhoneNext(p) PROVE TypeOK'
<1>1. ASSUME NEW w \in Tickets, Report(p, w) PROVE TypeOK'
  <2>1. NewRow("OPEN", NoOne, "blank") \in Row
    BY NewRowIsRow, WorkOrdersAssumption DEF CloseTimes
  <2>2. Saving(w, NewRow("OPEN", NoOne, "blank")) \in BusyRequest
    BY <2>1, SavingIsBusy
  <2> QED
    BY <1>1, <2>2, BeginTypeOK DEF Report, Requests
<1>2. ASSUME NEW w \in Tickets, NEW st \in Statuses, UpdateStatus(p, w, st) PROVE TypeOK'
  <2>1. [ticket[w] EXCEPT !.status = st] \in Row
    BY <1>2 DEF UpdateStatus, TypeOK, Row
  <2>2. Saving(w, [ticket[w] EXCEPT !.status = st]) \in BusyRequest
    BY <2>1, SavingIsBusy
  <2> QED
    BY <1>2, <2>2, BeginTypeOK DEF UpdateStatus, Requests
<1> QED
  BY <1>1, <1>2 DEF PhoneNext

LEMMA DeskTypeOK == ASSUME TypeOK, Opened, NEW d \in Desks, DeskNext(d) PROVE TypeOK'
<1>1. ASSUME NEW w \in Tickets, NEW st \in Statuses,
             NEW a \in People \cup {NoOne}, NEW time \in Typed, AddForm(d, w, st, a, time)
      PROVE  TypeOK'
  <2>1. NewRow(st, a, time) \in Row
    BY NewRowIsRow, WorkOrdersAssumption DEF CloseTimes
  <2>2. Saving(w, NewRow(st, a, time)) \in BusyRequest
    BY <2>1, SavingIsBusy
  <2> QED
    BY <1>1, <2>2, BeginTypeOK DEF AddForm, Requests
<1>2. ASSUME NEW w \in Tickets, OpenForm(d, w) PROVE TypeOK'
  <2>1. ticket[w] \in Row
    BY <1>2 DEF OpenForm, TypeOK
  <2>2. [Saving(w, ticket[w]) EXCEPT !.pc = "form"] \in BusyRequest
    BY <2>1, SavingIsBusy
  <2> QED
    BY <1>2, <2>2, BeginTypeOK DEF OpenForm, Requests
<1>3. ASSUME NEW st \in Statuses, NEW a \in People \cup {NoOne},
             NEW time \in CloseTimes, SubmitForm(d, st, a, time)
      PROVE  TypeOK'
  <2> DEFINE w == request[d].ticket
             row == [ticket[w] EXCEPT !.status = st, !.assignee = a, !.closeTime = time]
  <2>1. request[d] \in BusyRequest
    BY <1>3, Busy DEF SubmitForm, Idle, Requests
  <2>2. w \in Tickets /\ ticket[w] \in Row
    BY <1>3, <2>1 DEF SubmitForm, Opened, TypeOK, BusyRequest
  <2>3. row \in Row
    BY <2>2 DEF Row
  <2>4. Saving(w, row) \in BusyRequest
    BY <2>2, <2>3, SavingIsBusy
  <2> QED
    BY <1>3, <2>4, BeginTypeOK DEF SubmitForm, Requests
<1>4. ASSUME Commit(d) PROVE TypeOK'
  <2>1. request[d] \in BusyRequest
    BY <1>4, Busy DEF Commit, Idle, Requests
  <2>2. log' \in [Tickets -> Seq(Entry)]
    BY <1>4, <2>1, LoggedTypeOK DEF Commit, Requests
  <2> QED
    BY <1>4, <2>1, <2>2 DEF Commit, Unlock, TypeOK, BusyRequest
<1> QED
  BY <1>1, <1>2, <1>3, <1>4 DEF DeskNext

LEMMA SaveTypeOK == ASSUME TypeOK, NEW r \in Requests, SaveStep(r) PROVE TypeOK'
<1>1. ASSUME ReadPrevious(r) PROVE TypeOK'
  BY <1>1, ReadRow, BeginTypeOK DEF ReadPrevious
<1>2. ASSUME WriteRow(r) PROVE TypeOK'
  <2>1. request[r] \in BusyRequest
    BY <1>2, Busy DEF WriteRow, Idle
  <2>2. [request[r] EXCEPT !.pc = "log"] \in BusyRequest
    BY <2>1, PcMoves
  <2>3. request[r].row \in Row
    BY <2>1 DEF BusyRequest
  <2> QED
    BY <1>2, <2>2, <2>3 DEF WriteRow, TypeOK
<1>3. ASSUME LogChange(r) PROVE TypeOK'
  <2>1. request[r] \in BusyRequest
    BY <1>3, Busy DEF LogChange, Idle
  <2>2. [request[r] EXCEPT !.pc = "notify"] \in BusyRequest
    BY <2>1, PcMoves
  <2>3. log' \in [Tickets -> Seq(Entry)]
    BY <1>3, <2>1, LoggedTypeOK DEF LogChange, TypeOK
  <2> QED
    BY <1>3, <2>2, <2>3 DEF LogChange, TypeOK
<1>4. ASSUME Notify(r) PROVE TypeOK'
  <2>1. request[r] \in BusyRequest
    BY <1>4, Busy DEF Notify, Idle
  <2>2. [request[r] EXCEPT !.pc = "commit"] \in BusyRequest
    BY <2>1, PcMoves
  <2>3. Recipients(r) \subseteq Reachable
    BY DEF Recipients
  <2>4. told' \in [Tickets -> SUBSET Reachable] /\ undelivered' \in [Tickets -> SUBSET Reachable]
    BY <1>4, <2>3 DEF Notify, TypeOK
  <2> QED
    BY <1>4, <2>2, <2>4 DEF Notify, TypeOK
<1> QED
  BY <1>1, <1>2, <1>3, <1>4 DEF SaveStep

LEMMA NextTypeOK == TypeOK /\ Opened /\ [Next]_vars => TypeOK'
<1> SUFFICES ASSUME TypeOK, Opened, [Next]_vars PROVE TypeOK'
  OBVIOUS
<1>1. ASSUME NEW r \in Requests, Crash(r) PROVE TypeOK'
  BY <1>1 DEF Crash, Unlock, TypeOK
<1>2. CASE Reconfigure
  BY <1>2, WorkOrdersAssumption DEF Reconfigure, TypeOK
<1>3. CASE UNCHANGED vars
  BY <1>3 DEF vars, TypeOK
<1> QED
  BY <1>1, <1>2, <1>3, PhoneTypeOK, DeskTypeOK, SaveTypeOK DEF Next

-----------------------------------------------------------------------------
(* Work orders are never removed, and forms stay forms of existing ones. *)

LEMMA RowsStay ==
    ASSUME TypeOK, [Next]_vars, NEW w \in Tickets, ticket[w] # NoRow PROVE ticket'[w] # NoRow
<1>1. ASSUME NEW r \in Requests, WriteRow(r) PROVE ticket'[w] # NoRow
  <2>1. request[r].row # NoRow
    BY <1>1, Busy, NoRowAssumption DEF WriteRow, Idle, BusyRequest
  <2> QED
    BY <1>1, <2>1 DEF WriteRow, TypeOK
<1>2. ASSUME NEW d \in Desks, Commit(d) PROVE ticket'[w] # NoRow
  <2>1. request[d].row # NoRow
    BY <1>2, Busy, NoRowAssumption DEF Commit, Idle, BusyRequest, Requests
  <2> QED
    BY <1>2, <2>1 DEF Commit, TypeOK
<1>3. CASE UNCHANGED ticket
  BY <1>3
<1> QED
  BY <1>1, <1>2, <1>3 DEF Next, vars, PhoneNext, DeskNext, SaveStep, Report, UpdateStatus, AddForm,
     OpenForm, SubmitForm, ReadPrevious, LogChange, Notify, Crash, Reconfigure

(* A step of one request leaves the others alone, and what was tried stays.  *)
StepOf(r) == \/ r \in Phones /\ PhoneNext(r)
             \/ r \in Desks /\ DeskNext(r)
             \/ SaveStep(r) \/ Crash(r)

LEMMA NextIsStep ==
    ASSUME [Next]_vars
    PROVE  (\E r \in Requests : StepOf(r)) \/ Reconfigure \/ UNCHANGED vars
BY DEF Next, StepOf, Requests

LEMMA Others ==
    ASSUME TypeOK, NEW r \in Requests, StepOf(r), NEW q \in Requests, q # r
    PROVE  request'[q] = request[q]
<1>1. CASE r \in Phones /\ PhoneNext(r)
  BY <1>1 DEF PhoneNext, Report, UpdateStatus, TypeOK
<1>2. CASE r \in Desks /\ DeskNext(r)
  BY <1>2 DEF DeskNext, AddForm, OpenForm, SubmitForm, Commit, TypeOK
<1>3. CASE SaveStep(r)
  BY <1>3 DEF SaveStep, ReadPrevious, WriteRow, LogChange, Notify, TypeOK
<1>4. CASE Crash(r)
  BY <1>4 DEF Crash, TypeOK
<1> QED
  BY <1>1, <1>2, <1>3, <1>4 DEF StepOf

(* After its row is read, a save only moves on: it keeps its work order, its *)
(* row and the previous one until it is over.                                *)
Kept(r) == /\ request'[r].row = request[r].row
           /\ request'[r].ticket = request[r].ticket
           /\ request'[r].previous = request[r].previous

LEMMA SaveMoves ==
    ASSUME TypeOK, NEW r \in Requests
    PROVE  /\ WriteRow(r) => request'[r].pc = "log" /\ Kept(r)
           /\ LogChange(r) => request'[r].pc = "notify" /\ Kept(r)
           /\ Notify(r) => IF r \in Phones THEN Idle(r)' ELSE request'[r].pc = "commit" /\ Kept(r)
<1>1. ASSUME WriteRow(r) PROVE request'[r].pc = "log" /\ Kept(r)
  <2>1. request[r] \in BusyRequest
    BY <1>1, Busy DEF WriteRow, Idle
  <2>2. request'[r] = [request[r] EXCEPT !.pc = "log"]
    BY <1>1 DEF WriteRow, TypeOK
  <2> QED
    BY <2>1, <2>2, PcMoves DEF Kept
<1>2. ASSUME LogChange(r) PROVE request'[r].pc = "notify" /\ Kept(r)
  <2>1. request[r] \in BusyRequest
    BY <1>2, Busy DEF LogChange, Idle
  <2>2. request'[r] = [request[r] EXCEPT !.pc = "notify"]
    BY <1>2 DEF LogChange, TypeOK
  <2> QED
    BY <2>1, <2>2, PcMoves DEF Kept
<1>3. ASSUME Notify(r), r \notin Phones PROVE request'[r].pc = "commit" /\ Kept(r)
  <2>1. request[r] \in BusyRequest
    BY <1>3, Busy DEF Notify, Idle
  <2>2. request'[r] = [request[r] EXCEPT !.pc = "commit"]
    BY <1>3 DEF Notify, TypeOK
  <2> QED
    BY <2>1, <2>2, PcMoves DEF Kept
<1>4. ASSUME Notify(r), r \in Phones PROVE Idle(r)'
  BY <1>4 DEF Notify, TypeOK, Idle, IdleRequest
<1> QED
  BY <1>1, <1>2, <1>3, <1>4

LEMMA TriedStays ==
    ASSUME TypeOK, [Next]_vars, NEW w \in Tickets, NEW a, Tried(w, a)
    PROVE  Tried(w, a)'
<1>1. ASSUME NEW r \in Requests, Notify(r) PROVE Tried(w, a)'
  BY <1>1 DEF Notify, TypeOK, Tried
<1>2. CASE UNCHANGED <<told, undelivered>>
  BY <1>2 DEF Tried
<1> QED
  BY <1>1, <1>2 DEF Next, vars, PhoneNext, DeskNext, SaveStep, Report, UpdateStatus, AddForm,
     OpenForm, SubmitForm, ReadPrevious, WriteRow, LogChange, Commit, Crash, Reconfigure

LEMMA InitOpened == Init => Opened
BY DEF Init, Opened, IdleRequest, Requests

LEMMA NextOpened == TypeOK /\ Opened /\ [Next]_vars => Opened'
<1> SUFFICES ASSUME TypeOK, Opened, [Next]_vars, NEW d \in Desks, request'[d].pc = "form"
             PROVE  ticket'[request'[d].ticket] # NoRow
  BY DEF Opened
<1> d \in Requests
  BY DEF Requests
<1>1. CASE request'[d] = request[d]
  <2>1. request[d].ticket \in Tickets
    BY <1>1, Busy DEF Idle, BusyRequest
  <2> QED
    BY <1>1, <2>1, RowsStay DEF Opened
<1>2. CASE StepOf(d)
  <2>1. ASSUME NEW w \in Tickets, OpenForm(d, w) PROVE ticket'[request'[d].ticket] # NoRow
    <3>1. request'[d].ticket = w
      BY <2>1 DEF OpenForm, Saving, TypeOK
    <3> QED
      BY <2>1, <3>1 DEF OpenForm
  <2>2. ASSUME d \in Phones, PhoneNext(d) PROVE FALSE
    BY <2>2, WorkOrdersAssumption
  <2>3. ASSUME SaveStep(d) PROVE FALSE
    <3>1. request[d] \in BusyRequest
      BY <2>3, Busy DEF SaveStep, ReadPrevious, WriteRow, LogChange, Notify, Idle
    <3>2. CASE ReadPrevious(d)
      BY <3>2, ReadRow DEF TypeOK
    <3>3. CASE WriteRow(d) \/ LogChange(d) \/ Notify(d)
      BY <3>3, SaveMoves DEF Idle
    <3> QED
      BY <2>3, <3>2, <3>3 DEF SaveStep
  <2>4. ASSUME Crash(d) \/ Commit(d) PROVE FALSE
    BY <2>4 DEF Crash, Commit, TypeOK, IdleRequest
  <2>5. ASSUME NEW w \in Tickets, NEW st, NEW a, NEW time, AddForm(d, w, st, a, time)
        PROVE  FALSE
    BY <2>5 DEF AddForm, Saving, TypeOK
  <2>6. ASSUME NEW st, NEW a, NEW time, SubmitForm(d, st, a, time) PROVE FALSE
    BY <2>6 DEF SubmitForm, Saving, TypeOK
  <2> QED
    BY <1>2, <2>1, <2>2, <2>3, <2>4, <2>5, <2>6 DEF StepOf, DeskNext
<1>3. CASE Reconfigure \/ UNCHANGED vars
  BY <1>1, <1>3 DEF Reconfigure, vars
<1> QED
  BY <1>1, <1>2, <1>3, NextIsStep, Others

-----------------------------------------------------------------------------
(* The closing stamps *)

LEMMA InitStamped == Init => StampInv /\ ClosedIsStamped
BY DEF Init, StampInv, ClosedIsStamped, IdleRequest

LEMMA NextStampInv == TypeOK /\ StampInv /\ [Next]_vars => StampInv'
<1> SUFFICES ASSUME TypeOK, StampInv, [Next]_vars, NEW r \in Requests,
                    request'[r].pc \in {"write", "log", "notify", "commit"}
             PROVE  IsStamped(request'[r].row)
  BY DEF StampInv, IsStamped
<1>1. CASE request'[r] = request[r]
  BY <1>1 DEF StampInv
<1>2. CASE StepOf(r)
  <2>1. ~Idle(r)'
    BY DEF Idle
  <2>2. CASE ReadPrevious(r)
    BY <2>2, ReadRow DEF TypeOK
  <2>3. CASE WriteRow(r) \/ LogChange(r) \/ Notify(r)
    <3>1. request'[r].row = request[r].row
      BY <2>1, <2>3, SaveMoves DEF Kept
    <3>2. request[r].pc \in {"write", "log", "notify"}
      BY <2>3 DEF WriteRow, LogChange, Notify
    <3> QED
      BY <3>1, <3>2 DEF StampInv
  <2>4. ASSUME \/ Crash(r) \/ PhoneNext(r) \/ DeskNext(r) PROVE FALSE
    <3>1. ASSUME Crash(r) \/ Commit(r) PROVE FALSE
      BY <3>1 DEF Crash, Commit, IdleRequest, TypeOK
    <3>2. ASSUME PhoneNext(r) PROVE FALSE
      BY <3>2 DEF PhoneNext, Report, UpdateStatus, Saving, TypeOK
    <3>3. ASSUME NEW w \in Tickets, OpenForm(r, w) PROVE FALSE
      BY <3>3 DEF OpenForm, Saving, TypeOK
    <3>4. ASSUME NEW w, NEW st, NEW a, NEW time, AddForm(r, w, st, a, time) PROVE FALSE
      BY <3>4 DEF AddForm, Saving, TypeOK
    <3>5. ASSUME NEW st, NEW a, NEW time, SubmitForm(r, st, a, time) PROVE FALSE
      BY <3>5 DEF SubmitForm, Saving, TypeOK
    <3> QED
      BY <2>4, <3>1, <3>2, <3>3, <3>4, <3>5 DEF DeskNext
  <2> QED
    BY <1>2, <2>2, <2>3, <2>4 DEF StepOf, SaveStep
<1>3. CASE Reconfigure \/ UNCHANGED vars
  BY <1>1, <1>3 DEF Reconfigure, vars
<1> QED
  BY <1>1, <1>2, <1>3, NextIsStep, Others

(* What a step can put on record: the row of the save that takes it. *)
LEMMA RowsWritten ==
    ASSUME TypeOK, [Next]_vars, NEW w \in Tickets, ticket'[w] # ticket[w]
    PROVE  \E r \in Requests : /\ (r \in Phones /\ WriteRow(r)) \/ (r \in Desks /\ Commit(r))
                              /\ request[r].ticket = w
                              /\ ticket'[w] = request[r].row
<1>1. ASSUME NEW r \in Requests, WriteRow(r), r \in Phones
      PROVE  request[r].ticket = w /\ ticket'[w] = request[r].row
  BY <1>1, WorkOrdersAssumption DEF WriteRow, TypeOK
<1>2. ASSUME NEW r \in Desks, Commit(r)
      PROVE  request[r].ticket = w /\ ticket'[w] = request[r].row
  BY <1>2 DEF Commit, TypeOK
<1>3. ASSUME UNCHANGED ticket PROVE FALSE
  BY <1>3
<1>4. ASSUME NEW r \in Requests, StepOf(r), ~(r \in Phones /\ WriteRow(r)), ~(r \in Desks /\ Commit(r))
      PROVE  UNCHANGED ticket
  BY <1>4 DEF StepOf, PhoneNext, DeskNext, SaveStep, Report, UpdateStatus, AddForm, WriteRow,
     OpenForm, SubmitForm, ReadPrevious, LogChange, Notify, Crash
<1>5. PICK r \in Requests : (r \in Phones /\ WriteRow(r)) \/ (r \in Desks /\ Commit(r))
  <2>1. CASE Reconfigure \/ UNCHANGED vars
    BY <1>3, <2>1 DEF Reconfigure, vars
  <2>2. CASE \E r \in Requests : StepOf(r)
    <3>1. PICK r \in Requests : StepOf(r)
      BY <2>2
    <3>2. CASE (r \in Phones /\ WriteRow(r)) \/ (r \in Desks /\ Commit(r))
      BY <3>2
    <3>3. CASE ~(r \in Phones /\ WriteRow(r)) /\ ~(r \in Desks /\ Commit(r))
      BY <1>3, <1>4, <3>1, <3>3
    <3> QED
      BY <3>2, <3>3
  <2> QED
    BY <2>1, <2>2, NextIsStep
<1> QED
  BY <1>1, <1>2, <1>5

LEMMA NextStamped == TypeOK /\ StampInv /\ ClosedIsStamped /\ [Next]_vars => ClosedIsStamped'
<1> SUFFICES ASSUME TypeOK, StampInv, ClosedIsStamped, [Next]_vars, NEW w \in Tickets,
                    ticket'[w] # NoRow
             PROVE  IsStamped(ticket'[w])
  BY DEF ClosedIsStamped, IsStamped
<1>1. CASE ticket'[w] = ticket[w]
  BY <1>1 DEF ClosedIsStamped, IsStamped
<1>2. CASE ticket'[w] # ticket[w]
  <2>1. PICK r \in Requests : /\ WriteRow(r) \/ Commit(r)
                              /\ ticket'[w] = request[r].row
    BY <1>2, RowsWritten
  <2> QED
    BY <2>1 DEF WriteRow, Commit, StampInv
<1> QED
  BY <1>1, <1>2

-----------------------------------------------------------------------------
(* The snapshot *)

(* Where a request in progress comes from: it has just been made for a work  *)
(* order nobody had, or loaded from the row, or it was there before.         *)
LEMMA Carries ==
    ASSUME TypeOK, Opened, [Next]_vars, NEW r \in Requests, ~Idle(r)',
           NEW w, w = request'[r].ticket
    PROVE  \/ Idle(r) /\ Unclaimed(w)
           \/ ticket[w] # NoRow /\ request'[r].row.snapshot = ticket[w].snapshot
           \/ /\ ~Idle(r) /\ w = request[r].ticket
              /\ ticket[w] # NoRow => request'[r].row.snapshot = request[r].row.snapshot
<1>1. CASE request'[r] = request[r]
  BY <1>1 DEF Idle
<1>2. CASE StepOf(r)
  <2>1. ASSUME NEW v \in Tickets, Report(r, v) PROVE Idle(r) /\ Unclaimed(w)
    BY <2>1 DEF Report, Saving, TypeOK
  <2>2. ASSUME NEW v \in Tickets, NEW st, NEW a, NEW time, AddForm(r, v, st, a, time)
        PROVE  Idle(r) /\ Unclaimed(w)
    BY <2>2 DEF AddForm, Saving, TypeOK
  <2>3. ASSUME NEW v \in Tickets, NEW st \in Statuses, UpdateStatus(r, v, st)
        PROVE  ticket[w] # NoRow /\ request'[r].row.snapshot = ticket[w].snapshot
    <3>1. ticket[v] \in Row
      BY <2>3 DEF UpdateStatus, TypeOK
    <3>2. [ticket[v] EXCEPT !.status = st].snapshot = ticket[v].snapshot
      BY <3>1 DEF Row
    <3> QED
      BY <2>3, <3>2 DEF UpdateStatus, Saving, TypeOK
  <2>4. ASSUME NEW v \in Tickets, OpenForm(r, v)
        PROVE  ticket[w] # NoRow /\ request'[r].row.snapshot = ticket[w].snapshot
    BY <2>4 DEF OpenForm, Saving, TypeOK
  <2>5. ASSUME r \in Desks, NEW st, NEW a, NEW time, SubmitForm(r, st, a, time)
        PROVE  ticket[w] # NoRow /\ request'[r].row.snapshot = ticket[w].snapshot
    <3>1. w = request[r].ticket /\ w \in Tickets
      BY <2>5, Busy DEF SubmitForm, Saving, TypeOK, Idle, BusyRequest
    <3>2. ticket[w] # NoRow /\ ticket[w] \in Row
      BY <2>5, <3>1 DEF SubmitForm, Opened, TypeOK
    <3>3. [ticket[w] EXCEPT !.status = st, !.assignee = a, !.closeTime = time].snapshot
            = ticket[w].snapshot
      BY <3>2 DEF Row
    <3> QED
      BY <2>5, <3>1, <3>2, <3>3 DEF SubmitForm, Saving, TypeOK
  <2>6. CASE ReadPrevious(r)
    <3>1. /\ request' = [request EXCEPT ![r] = ReadBy(r)]
          /\ ReadBy(r).ticket = request[r].ticket
          /\ ticket[request[r].ticket] # NoRow =>
                 ReadBy(r).row.snapshot = request[r].row.snapshot
      BY <2>6, ReadRow
    <3>2. ~Idle(r)
      BY <2>6 DEF ReadPrevious, Idle
    <3>3. request'[r] = ReadBy(r)
      BY <3>1 DEF TypeOK
    <3> QED BY <3>1, <3>2, <3>3
  <2>7. CASE WriteRow(r) \/ LogChange(r) \/ Notify(r)
    <3>1. Kept(r)
      BY <2>7, SaveMoves DEF Idle
    <3> QED
      BY <2>7, <3>1 DEF Kept, Idle, WriteRow, LogChange, Notify
  <2>8. ASSUME Crash(r) \/ Commit(r) PROVE Idle(r)'
    BY <2>8 DEF Crash, Commit, Idle, IdleRequest, TypeOK
  <2>9. CASE r \in Phones /\ PhoneNext(r)
    BY <2>1, <2>3, <2>9 DEF PhoneNext
  <2>10. CASE r \in Desks /\ DeskNext(r)
    BY <2>2, <2>4, <2>5, <2>8, <2>10 DEF DeskNext
  <2> QED
    BY <1>2, <2>6, <2>7, <2>8, <2>9, <2>10 DEF StepOf, SaveStep
<1>3. CASE Reconfigure \/ UNCHANGED vars
  BY <1>1, <1>3 DEF Reconfigure, vars
<1> QED
  BY <1>1, <1>2, <1>3, NextIsStep, Others

LEMMA InitSnapshot == Init => SnapshotInv
BY DEF Init, SnapshotInv, Idle, IdleRequest

(* A row that is written over another one carries its snapshot. *)
LEMMA SnapshotKept ==
    ASSUME TypeOK, SnapshotInv, [Next]_vars, NEW w \in Tickets, ticket[w] # NoRow
    PROVE  ticket'[w].snapshot = ticket[w].snapshot
<1>1. CASE ticket'[w] = ticket[w]
  BY <1>1
<1>2. CASE ticket'[w] # ticket[w]
  <2>1. PICK r \in Requests : /\ WriteRow(r) \/ Commit(r)
                              /\ request[r].ticket = w
                              /\ ticket'[w] = request[r].row
    BY <1>2, RowsWritten
  <2>2. ~Idle(r)
    BY <2>1 DEF WriteRow, Commit, Idle
  <2> QED
    BY <2>1, <2>2 DEF SnapshotInv
<1> QED
  BY <1>1, <1>2

(* A work order that comes to exist is the row of its only request. *)
LEMMA Created ==
    ASSUME TypeOK, SnapshotInv, [Next]_vars, NEW r \in Requests, ~Idle(r), ~Idle(r)',
           NEW w \in Tickets, w = request[r].ticket, ticket[w] = NoRow, ticket'[w] # NoRow
    PROVE  request'[r].row = ticket'[w]
<1>1. PICK q \in Requests : /\ WriteRow(q) \/ Commit(q)
                            /\ request[q].ticket = w
                            /\ ticket'[w] = request[q].row
  BY RowsWritten
<1>2. q = r
  BY <1>1 DEF SnapshotInv, WriteRow, Commit, Idle
<1>3. ~Commit(r)
  BY DEF Commit, Idle, IdleRequest, TypeOK
<1> QED
  BY <1>1, <1>2, <1>3, SaveMoves DEF Kept

LEMMA NextSnapshot == TypeOK /\ Opened /\ SnapshotInv /\ [Next]_vars => SnapshotInv'
<1> SUFFICES ASSUME TypeOK, Opened, SnapshotInv, [Next]_vars PROVE SnapshotInv'
  OBVIOUS
<1>1. TypeOK'
  BY NextTypeOK
<1>2. ASSUME NEW r \in Requests, ~Idle(r)' PROVE request'[r].ticket \in Tickets
  BY <1>1, <1>2 DEF TypeOK, Idle, IdleRequest, BusyRequest
<1>3. ASSUME NEW r \in Requests, ~Idle(r)', NEW w \in Tickets, w = request'[r].ticket,
             ticket'[w] # NoRow
      PROVE  request'[r].row.snapshot = ticket'[w].snapshot
  <2>1. CASE Idle(r) /\ Unclaimed(w)
    <3>1. PICK q \in Requests : (WriteRow(q) \/ Commit(q)) /\ request[q].ticket = w
      BY <1>3, <2>1, RowsWritten DEF Unclaimed
    <3> QED
      BY <2>1, <3>1 DEF Unclaimed, WriteRow, Commit, Idle
  <2>2. CASE ticket[w] # NoRow /\ request'[r].row.snapshot = ticket[w].snapshot
    BY <2>2, SnapshotKept
  <2>3. CASE /\ ~Idle(r) /\ w = request[r].ticket
             /\ ticket[w] # NoRow => request'[r].row.snapshot = request[r].row.snapshot
    <3>1. CASE ticket[w] # NoRow
      BY <2>3, <3>1, SnapshotKept DEF SnapshotInv
    <3>2. CASE ticket[w] = NoRow
      BY <1>3, <2>3, <3>2, Created
    <3> QED
      BY <3>1, <3>2
  <2> QED
    BY <1>3, <2>1, <2>2, <2>3, Carries
<1>4. ASSUME NEW r \in Requests, NEW q \in Requests, ~Idle(r)', ~Idle(q)',
             NEW w \in Tickets, w = request'[r].ticket, w = request'[q].ticket,
             ticket'[w] = NoRow
      PROVE  r = q
  <2>1. ticket[w] = NoRow
    BY <1>4, RowsStay
  <2>2. (Idle(r) /\ Unclaimed(w)) \/ (~Idle(r) /\ request[r].ticket = w)
    BY <1>4, <2>1, Carries
  <2>3. (Idle(q) /\ Unclaimed(w)) \/ (~Idle(q) /\ request[q].ticket = w)
    BY <1>4, <2>1, Carries
  <2>4. CASE ~Idle(r) /\ ~Idle(q)
    BY <2>1, <2>2, <2>3, <2>4 DEF SnapshotInv
  <2>5. CASE Idle(r) /\ Idle(q)
    <3>1. request'[r] # request[r] /\ request'[q] # request[q]
      BY <1>4, <2>5 DEF Idle
    <3> QED
      BY <3>1, NextIsStep, Others DEF Reconfigure, vars
  <2> QED
    BY <2>2, <2>3, <2>4, <2>5 DEF Unclaimed
<1> QED
  BY <1>2, <1>3, <1>4 DEF SnapshotInv

-----------------------------------------------------------------------------
(* The assignment mails *)

ToldOrTelling(r) ==
    \/ Idle(r)
    \/ Tried(request[r].ticket, request[r].row.assignee)
    \/ r \in Desks /\ request[r].pc \in {"form", "read"}
    \/ r \in Desks /\ request[r].pc \in {"write", "log", "notify"} /\ AssignmentChanged(r)

LEMMA MailedParts ==
    AssigneeWasMailed <=> \A w \in Tickets : ticket[w] # NoRow => Tried(w, ticket[w].assignee)
BY DEF AssigneeWasMailed, Tried

LEMMA ToldInvParts == ToldInv <=> AssigneeWasMailed /\ \A r \in Requests : ToldOrTelling(r)
BY DEF ToldInv, ToldOrTelling

LEMMA InitTold == Init => ToldInv
BY DEF Init, ToldInv, AssigneeWasMailed, Idle, IdleRequest

LEMMA NextTelling ==
    ASSUME TypeOK, ToldInv, [Next]_vars, NEW r \in Requests PROVE ToldOrTelling(r)'
<1>1. AssigneeWasMailed /\ ToldOrTelling(r)
  BY ToldInvParts
<1>2. ASSUME NEW w \in Tickets, NEW a, Tried(w, a) PROVE Tried(w, a)'
  BY <1>2, TriedStays
<1>3. CASE request'[r] = request[r]
  <2>1. CASE Idle(r)
    BY <1>3, <2>1 DEF ToldOrTelling, Idle
  <2>2. CASE ~Idle(r)
    <3>1. request[r].ticket \in Tickets
      BY <2>2, Busy DEF BusyRequest
    <3>2. AssignmentChanged(r)' <=> AssignmentChanged(r)
      BY <1>3 DEF AssignmentChanged, IsNew
    <3>3. Tried(request[r].ticket, request[r].row.assignee) =>
              Tried(request[r].ticket, request[r].row.assignee)'
      BY <1>3, <3>1, <1>2 DEF Tried
    <3> QED
      BY <1>1, <1>3, <2>2, <3>2, <3>3 DEF ToldOrTelling, Idle, Tried
  <2> QED
    BY <2>1, <2>2
<1>4. CASE StepOf(r)
  <2>1. ASSUME NEW w \in Tickets, Report(r, w) PROVE ToldOrTelling(r)'
    <3>1. request'[r].ticket = w /\ request'[r].row.assignee = NoOne
      BY <2>1 DEF Report, Saving, NewRow, TypeOK
    <3> QED
      BY <3>1, WorkOrdersAssumption DEF ToldOrTelling, Tried
  <2>2. ASSUME NEW w \in Tickets, NEW st \in Statuses, UpdateStatus(r, w, st)
        PROVE  ToldOrTelling(r)'
    <3>1. ticket[w] \in Row
      BY <2>2 DEF UpdateStatus, TypeOK
    <3>2. [ticket[w] EXCEPT !.status = st].assignee = ticket[w].assignee
      BY <3>1 DEF Row
    <3>3. Tried(w, ticket[w].assignee)'
      BY <1>1, <1>2, <2>2, MailedParts DEF UpdateStatus, Tried
    <3>4. request'[r].ticket = w /\ request'[r].row.assignee = ticket[w].assignee
      BY <2>2, <3>2 DEF UpdateStatus, Saving, TypeOK
    <3> QED
      BY <2>2, <3>3, <3>4 DEF ToldOrTelling, Tried, UpdateStatus
  <2>3. ASSUME r \in Desks, NEW w, NEW st, NEW a, NEW time, AddForm(r, w, st, a, time)
        PROVE  ToldOrTelling(r)'
    BY <2>3 DEF AddForm, Saving, TypeOK, ToldOrTelling
  <2>4. ASSUME r \in Desks, NEW w \in Tickets, OpenForm(r, w) PROVE ToldOrTelling(r)'
    BY <2>4 DEF OpenForm, Saving, TypeOK, ToldOrTelling
  <2>5. ASSUME r \in Desks, NEW st, NEW a, NEW time, SubmitForm(r, st, a, time)
        PROVE  ToldOrTelling(r)'
    BY <2>5 DEF SubmitForm, Saving, TypeOK, ToldOrTelling
  <2>6. ASSUME Crash(r) \/ Commit(r) PROVE ToldOrTelling(r)'
    BY <2>6 DEF Crash, Commit, Idle, IdleRequest, TypeOK, ToldOrTelling
  <2>7. ASSUME ReadPrevious(r) PROVE ToldOrTelling(r)'
    <3> DEFINE w == request[r].ticket
    <3>1. request[r] \in BusyRequest /\ w \in Tickets
      BY <2>7, Busy DEF ReadPrevious, Idle, BusyRequest
    <3>2. /\ request'[r].pc = "write" /\ request'[r].ticket = w
          /\ request'[r].previous = ticket[w]
          /\ request'[r].row.assignee = request[r].row.assignee
      BY <2>7, ReadRow DEF TypeOK
    <3>3. told' = told /\ undelivered' = undelivered
      BY <2>7 DEF ReadPrevious
    <3>4. CASE r \in Phones
      BY <1>1, <2>7, <3>2, <3>3, <3>4, WorkOrdersAssumption
         DEF ToldOrTelling, Tried, ReadPrevious, Idle
    <3>5. CASE r \in Desks /\ AssignmentChanged(r)'
      BY <3>2, <3>5 DEF ToldOrTelling
    <3>6. CASE ~AssignmentChanged(r)'
      <4>1. ticket[w] # NoRow /\ ticket[w].assignee = request'[r].row.assignee
        BY <3>2, <3>6 DEF AssignmentChanged, IsNew
      <4> QED
        BY <1>1, <3>1, <3>2, <3>3, <4>1, MailedParts DEF ToldOrTelling, Tried
    <3> QED
      BY <3>4, <3>5, <3>6 DEF Requests
  <2>8. ASSUME WriteRow(r) \/ LogChange(r) PROVE ToldOrTelling(r)'
    <3>1. /\ Kept(r) /\ request'[r].pc \in {"log", "notify"}
          /\ told' = told /\ undelivered' = undelivered
      BY <2>8, SaveMoves DEF WriteRow, LogChange
    <3>2. AssignmentChanged(r)' <=> AssignmentChanged(r)
      BY <3>1 DEF AssignmentChanged, IsNew, Kept
    <3> QED
      BY <1>1, <2>8, <3>1, <3>2 DEF ToldOrTelling, Tried, Kept, WriteRow, LogChange, Idle
  <2>9. ASSUME Notify(r) PROVE ToldOrTelling(r)'
    <3>1. CASE r \in Phones
      BY <2>9, <3>1, SaveMoves DEF ToldOrTelling
    <3>2. CASE r \notin Phones
      <4>1. Kept(r) /\ request[r].ticket \in Tickets
        BY <2>9, <3>2, SaveMoves, Busy DEF Notify, Idle, BusyRequest
      <4>2. CASE AssignmentChanged(r)
        BY <2>9, <4>1, <4>2 DEF Notify, Recipients, TypeOK, Kept, ToldOrTelling, Tried
      <4>3. CASE ~AssignmentChanged(r)
        <5>1. Tried(request[r].ticket, request[r].row.assignee)
          BY <1>1, <2>9, <4>3 DEF ToldOrTelling, Notify, Idle
        <5>2. PICK w, a : w = request[r].ticket /\ a = request[r].row.assignee
          OBVIOUS
        <5>3. Tried(w, a)'
          BY <1>2, <4>1, <5>1, <5>2
        <5> QED
          BY <4>1, <5>2, <5>3 DEF Kept, ToldOrTelling, Tried
      <4> QED
        BY <4>2, <4>3
    <3> QED
      BY <3>1, <3>2
  <2>10. CASE r \in Phones /\ PhoneNext(r)
    BY <2>1, <2>2, <2>10 DEF PhoneNext
  <2>11. CASE r \in Desks /\ DeskNext(r)
    BY <2>3, <2>4, <2>5, <2>6, <2>11 DEF DeskNext
  <2> QED
    BY <1>4, <2>6, <2>7, <2>8, <2>9, <2>10, <2>11 DEF StepOf, SaveStep
<1>5. CASE Reconfigure \/ UNCHANGED vars
  BY <1>3, <1>5 DEF Reconfigure, vars
<1> QED
  BY <1>3, <1>4, <1>5, NextIsStep, Others

LEMMA NextTold == TypeOK /\ ToldInv /\ [Next]_vars => ToldInv'
<1> SUFFICES ASSUME TypeOK, ToldInv, [Next]_vars PROVE ToldInv'
  OBVIOUS
<1>1. ASSUME NEW w \in Tickets, NEW a, Tried(w, a) PROVE Tried(w, a)'
  BY <1>1, TriedStays
<1>2. ASSUME NEW w \in Tickets, ticket'[w] # NoRow, NEW a, a = ticket'[w].assignee
      PROVE  Tried(w, a)'
  <2>1. CASE ticket'[w] = ticket[w]
    BY <1>1, <1>2, <2>1, MailedParts DEF ToldInv
  <2>2. CASE ticket'[w] # ticket[w]
    <3>1. PICK r \in Requests : /\ (r \in Phones /\ WriteRow(r)) \/ (r \in Desks /\ Commit(r))
                                /\ request[r].ticket = w
                                /\ ticket'[w] = request[r].row
      BY <2>2, RowsWritten
    <3>2. ToldOrTelling(r)
      BY ToldInvParts
    <3>3. Tried(w, a)
      BY <1>2, <3>1, <3>2, WorkOrdersAssumption DEF ToldOrTelling, WriteRow, Commit, Idle
    <3> QED
      BY <1>1, <3>3
  <2> QED
    BY <2>1, <2>2
<1>3. AssigneeWasMailed'
  BY <1>2 DEF AssigneeWasMailed, Tried
<1>4. \A r \in Requests : ToldOrTelling(r)'
  BY NextTelling
<1> QED
  BY <1>3, <1>4 DEF ToldInv, ToldOrTelling, Tried

-----------------------------------------------------------------------------
(* The theorems *)

IInv == TypeOK /\ Opened /\ StampInv /\ ClosedIsStamped /\ SnapshotInv /\ ToldInv

LEMMA Invariance == Spec => []IInv
<1>1. Init => IInv
  BY InitTypeOK, InitOpened, InitStamped, InitSnapshot, InitTold DEF IInv
<1>2. IInv /\ [Next]_vars => IInv'
  BY NextTypeOK, NextOpened, NextStampInv, NextStamped, NextSnapshot, NextTold DEF IInv
<1> QED
  BY <1>1, <1>2, PTL DEF Spec

(* Requests, rows, locks and logs keep the shape WorkOrder.save relies on.   *)
THEOREM TypeCorrect == Spec => []TypeOK
<1>1. IInv => TypeOK
  BY DEF IInv
<1> QED
  BY <1>1, Invariance, PTL

(* Nobody with an address is assigned a work order without a mail to them,   *)
(* or a failed one on the server's log, with any number of desks and phones  *)
(* writing stale rows back and dying anywhere (core/notifications.py).       *)
THEOREM AssigneesAreMailed == Spec => []AssigneeWasMailed
<1>1. IInv => AssigneeWasMailed
  BY DEF IInv, ToldInv
<1> QED
  BY <1>1, Invariance, PTL

(* A closed work order has both of its closing times (WorkOrder.save).       *)
THEOREM ClosedAreStamped == Spec => []ClosedIsStamped
<1>1. IInv => ClosedIsStamped
  BY DEF IInv
<1> QED
  BY <1>1, Invariance, PTL

(* The configuration snapshot is "never changed afterward" (models.py).      *)
THEOREM SnapshotsAreFrozen == Spec => SnapshotFrozen
<1>1. IInv /\ [Next]_vars =>
        [\A w \in Tickets : ticket[w] # NoRow =>
            ticket'[w] # NoRow /\ ticket'[w].snapshot = ticket[w].snapshot]_vars
  BY RowsStay, SnapshotKept DEF IInv
<1> QED
  BY <1>1, Invariance, PTL DEF Spec, SnapshotFrozen
-----------------------------------------------------------------------------
(* Statuses that were logged *)

(* A status has a line, or a phone that has written it is about to add one,  *)
(* or the phone that was died.                                               *)
Listed(w, st) == \E i \in 1..Len(log[w]) : log[w][i].to = st
OnItsWay(w, st) == \E p \in Phones : Owes(p, w) /\ request[p].row.status = st
Accounted(w, st) == Listed(w, st) \/ OnItsWay(w, st) \/ st \in lost[w]

(* Not only every status that was on record is accounted for, but also what  *)
(* a save has read to compare its own with.                                  *)
Compares(r) == request[r].pc \in {"write", "log", "notify", "commit"}
AccountInv ==
    /\ \A w \in Tickets : ticket[w] # NoRow => Accounted(w, ticket[w].status)
    /\ \A w \in Tickets : \A st \in had[w] : Accounted(w, st)
    /\ \A r \in Requests : Compares(r) /\ request[r].previous # NoRow =>
           Accounted(request[r].ticket, request[r].previous.status)

LEMMA HistoryStep ==
    ASSUME [HistoryNext]_historyVars
    PROVE  /\ [Next]_vars
           /\ \A w \in Tickets : /\ had'[w] \in {had[w], had[w] \cup StatusOnRecord(w)'}
                                 /\ lost[w] \subseteq lost'[w]
BY DEF HistoryNext, historyVars

(* The only steps that add to a log. *)
LEMMA LogSteps ==
    ASSUME TypeOK, [Next]_vars
    PROVE  \/ UNCHANGED log
           \/ \E r \in Requests : /\ (r \in Phones /\ LogChange(r)) \/ (r \in Desks /\ Commit(r))
                                  /\ log' = Logged(r)
<1>1. ASSUME NEW r \in Requests, StepOf(r)
      PROVE  \/ UNCHANGED log
             \/ ((r \in Phones /\ LogChange(r)) \/ (r \in Desks /\ Commit(r))) /\ log' = Logged(r)
  BY <1>1 DEF StepOf, PhoneNext, DeskNext, SaveStep, Report, UpdateStatus, AddForm, WriteRow,
     OpenForm, SubmitForm, ReadPrevious, LogChange, Notify, Crash, Commit
<1>2. CASE Reconfigure \/ UNCHANGED vars
  BY <1>2 DEF Reconfigure, vars
<1> QED
  BY <1>1, <1>2, NextIsStep

(* What a save adds. *)
LEMMA LineAdded ==
    ASSUME TypeOK, NEW r \in Requests, request[r] \in BusyRequest, log' = Logged(r),
           NEW w \in Tickets
    PROVE  /\ log[w] \in Seq(Entry) /\ LogEntry(r) \in Entry
           /\ log'[w] = IF StatusChanged(r) /\ request[r].ticket = w
                        THEN Append(log[w], LogEntry(r)) ELSE log[w]
<1>1. LogEntry(r) \in Entry
  BY DEF LogEntry, IsNew, Entry, BusyRequest, Row
<1>2. log[w] \in Seq(Entry)
  BY DEF TypeOK
<1> QED
  BY <1>1, <1>2 DEF Logged, TypeOK

LEMMA ListedStays ==
    ASSUME TypeOK, [Next]_vars, NEW w \in Tickets, NEW st, Listed(w, st)
    PROVE  Listed(w, st)'
<1>1. CASE log'[w] = log[w]
  BY <1>1 DEF Listed
<1>2. ASSUME NEW r \in Requests, LogChange(r) \/ Commit(r), log' = Logged(r), log'[w] # log[w]
      PROVE  Listed(w, st)'
  <2>1. request[r] \in BusyRequest
    BY <1>2, Busy DEF LogChange, Commit, Idle
  <2>2. log[w] \in Seq(Entry) /\ LogEntry(r) \in Entry /\ log'[w] = Append(log[w], LogEntry(r))
    BY <1>2, <2>1, LineAdded
  <2>3. PICK i \in 1..Len(log[w]) : log[w][i].to = st
    BY DEF Listed
  <2>4. i \in 1..Len(log'[w]) /\ log'[w][i] = log[w][i]
    BY <2>2, <2>3
  <2> QED
    BY <2>3, <2>4 DEF Listed
<1> QED
  BY <1>1, <1>2, LogSteps

(* A phone that owes a line waits, writes it, or dies. *)
LEMMA LogsOrWaits ==
    ASSUME TypeOK, [Next]_vars, NEW p \in Phones, request[p].pc = "log"
    PROVE  LogChange(p) \/ Idle(p)' \/ request'[p] = request[p]
<1>1. p \in Requests /\ p \notin Desks
  BY WorkOrdersAssumption DEF Requests
<1>2. CASE Crash(p)
  BY <1>1, <1>2 DEF Crash, TypeOK, Idle, IdleRequest
<1>3. CASE StepOf(p) /\ ~Crash(p)
  BY <1>1, <1>3 DEF StepOf, PhoneNext, SaveStep, Report, UpdateStatus, Idle,
     ReadPrevious, WriteRow, Notify
<1>4. CASE Reconfigure \/ UNCHANGED vars
  BY <1>4 DEF Reconfigure, vars
<1> QED
  BY <1>1, <1>2, <1>3, <1>4, NextIsStep, Others

(* What is on its way arrives, or is lost. *)
LEMMA AccountStays ==
    ASSUME TypeOK, [HistoryNext]_historyVars, NEW w \in Tickets, NEW st, Accounted(w, st)
    PROVE  Accounted(w, st)'
<1> [Next]_vars
  BY HistoryStep
<1>1. CASE Listed(w, st)
  BY <1>1, ListedStays DEF Accounted
<1>2. ASSUME NEW p \in Phones, Owes(p, w), request[p].row.status = st
      PROVE  Accounted(w, st)'
  <2>1. p \in Requests /\ request[p] \in BusyRequest /\ request[p].pc = "log"
    BY <1>2, Busy DEF Owes, Idle, Requests
  <2>2. CASE request'[p] = request[p]
    BY <1>2, <2>2 DEF Accounted, OnItsWay, Owes, StatusChanged, IsNew
  <2>3. CASE LogChange(p)
    <3>1. log' = Logged(p)
      BY <2>3 DEF LogChange
    <3>2. /\ log[w] \in Seq(Entry) /\ LogEntry(p) \in Entry
          /\ log'[w] = Append(log[w], LogEntry(p))
      BY <1>2, <2>1, <3>1, LineAdded DEF Owes
    <3>3. /\ Len(log'[w]) \in 1..Len(log'[w])
          /\ log'[w][Len(log'[w])] = LogEntry(p)
      BY <3>2
    <3>4. LogEntry(p).to = st
      BY <1>2 DEF LogEntry
    <3> QED
      BY <3>3, <3>4 DEF Accounted, Listed
  <2>4. CASE Idle(p)'
    <3>1. HistoryNext
      BY <2>1, <2>4 DEF historyVars, vars, Idle
    <3>2. st \in lost'[w]
      BY <1>2, <2>4, <3>1 DEF HistoryNext
    <3> QED
      BY <3>2 DEF Accounted
  <2> QED
    BY <2>1, <2>2, <2>3, <2>4, LogsOrWaits
<1>3. CASE st \in lost[w]
  BY <1>3, HistoryStep DEF Accounted
<1> QED
  BY <1>1, <1>2, <1>3 DEF Accounted, OnItsWay

(* A request that compares has not moved, or has taken a step of its save.   *)
LEMMA ComparingSteps ==
    ASSUME TypeOK, [Next]_vars, NEW r \in Requests, Compares(r)'
    PROVE  \/ request'[r] = request[r] \/ ReadPrevious(r) \/ WriteRow(r)
           \/ LogChange(r) \/ Notify(r)
<1>1. CASE StepOf(r)
  <2>1. CASE Crash(r)
    BY <2>1 DEF Crash, TypeOK, IdleRequest, Compares
  <2>2. CASE r \in Phones /\ PhoneNext(r)
    BY <2>2 DEF PhoneNext, Report, UpdateStatus, Saving, TypeOK, Compares
  <2>3. CASE r \in Desks /\ DeskNext(r)
    <3>1. ASSUME NEW w \in Tickets, NEW st, NEW a, NEW time, AddForm(r, w, st, a, time)
          PROVE  FALSE
      BY <3>1 DEF AddForm, Saving, TypeOK, Compares
    <3>2. ASSUME NEW w \in Tickets, OpenForm(r, w) PROVE FALSE
      BY <3>2 DEF OpenForm, Saving, TypeOK, Compares
    <3>3. ASSUME NEW st, NEW a, NEW time, SubmitForm(r, st, a, time) PROVE FALSE
      BY <3>3 DEF SubmitForm, Saving, TypeOK, Compares
    <3>4. ASSUME Commit(r) PROVE FALSE
      BY <3>4 DEF Commit, TypeOK, IdleRequest, Compares
    <3> QED
      BY <2>3, <3>1, <3>2, <3>3, <3>4 DEF DeskNext
  <2> QED
    BY <1>1, <2>1, <2>2, <2>3 DEF StepOf, SaveStep
<1>2. CASE Reconfigure \/ UNCHANGED vars
  BY <1>2 DEF Reconfigure, vars
<1> QED
  BY <1>1, <1>2, NextIsStep, Others

(* Before it has read the previous row, a request does not compare.          *)
LEMMA ComparesAfterRead ==
    ASSUME TypeOK, [Next]_vars, NEW r \in Requests, Compares(r)'
    PROVE  \/ ReadPrevious(r)
           \/ Compares(r) /\ request'[r].ticket = request[r].ticket
                          /\ request'[r].previous = request[r].previous
<1>1. CASE request'[r] = request[r]
  BY <1>1 DEF Compares
<1>2. CASE WriteRow(r) \/ LogChange(r) \/ Notify(r)
  <2>1. ~Idle(r)'
    BY DEF Compares, Idle
  <2> QED
    BY <1>2, <2>1, SaveMoves DEF Kept, Compares, WriteRow, LogChange, Notify
<1> QED
  BY <1>1, <1>2, ComparingSteps

(* The row a save puts on record has a status that it logs, or that was      *)
(* accounted for when it was read.                                           *)
LEMMA WrittenIsAccounted ==
    ASSUME TypeOK, AccountInv, [HistoryNext]_historyVars, NEW r \in Requests,
           (r \in Phones /\ WriteRow(r)) \/ (r \in Desks /\ Commit(r)),
           NEW w, w = request[r].ticket, NEW st, st = request[r].row.status
    PROVE  Accounted(w, st)'
<1>1. request[r] \in BusyRequest /\ w \in Tickets /\ Compares(r)
  BY Busy DEF WriteRow, Commit, Idle, Compares, BusyRequest
<1>2. CASE ~StatusChanged(r)
  <2>1. Accounted(w, st)
    BY <1>1, <1>2 DEF StatusChanged, IsNew, AccountInv
  <2> QED
    BY <1>1, <2>1, AccountStays
<1>3. CASE StatusChanged(r) /\ r \in Phones /\ WriteRow(r)
  <2>1. request'[r].pc = "log" /\ Kept(r)
    BY <1>3, SaveMoves
  <2> QED
    BY <1>3, <2>1 DEF Accounted, OnItsWay, Owes, StatusChanged, IsNew, Kept
<1>4. CASE StatusChanged(r) /\ r \in Desks /\ Commit(r)
  <2>1. log' = Logged(r)
    BY <1>4 DEF Commit
  <2>2. /\ log[w] \in Seq(Entry) /\ LogEntry(r) \in Entry
        /\ log'[w] = Append(log[w], LogEntry(r))
    BY <1>1, <1>4, <2>1, LineAdded
  <2>3. /\ Len(log'[w]) \in 1..Len(log'[w])
        /\ log'[w][Len(log'[w])] = LogEntry(r)
    BY <2>2
  <2>4. LogEntry(r).to = st
    BY DEF LogEntry
  <2> QED
    BY <2>3, <2>4 DEF Accounted, Listed
<1> QED
  BY <1>2, <1>3, <1>4

LEMMA NextAccount == TypeOK /\ AccountInv /\ [HistoryNext]_historyVars => AccountInv'
<1> SUFFICES ASSUME TypeOK, AccountInv, [HistoryNext]_historyVars
             PROVE  AccountInv'
  OBVIOUS
<1> [Next]_vars
  BY HistoryStep
<1>1. ASSUME NEW w \in Tickets, ticket'[w] # NoRow, NEW st, st = ticket'[w].status
      PROVE  Accounted(w, st)'
  <2>1. CASE ticket'[w] = ticket[w]
    <3>1. Accounted(w, st)
      BY <1>1, <2>1 DEF AccountInv
    <3> QED
      BY <3>1, AccountStays
  <2>2. CASE ticket'[w] # ticket[w]
    BY <1>1, <2>2, RowsWritten, WrittenIsAccounted
  <2> QED
    BY <2>1, <2>2
<1>2. ASSUME NEW r \in Requests, Compares(r)', request'[r].previous # NoRow,
             NEW w, w = request'[r].ticket, NEW st, st = request'[r].previous.status
      PROVE  Accounted(w, st)'
  <2>1. CASE ReadPrevious(r)
    <3>1. w = request[r].ticket /\ request'[r].previous = ticket[w]
      BY <1>2, <2>1, ReadRow DEF TypeOK
    <3>2. w \in Tickets
      BY <2>1, <3>1, Busy DEF ReadPrevious, Idle, BusyRequest
    <3>3. Accounted(w, st)
      BY <1>2, <3>1, <3>2 DEF AccountInv
    <3> QED
      BY <3>2, <3>3, AccountStays
  <2>2. CASE /\ Compares(r) /\ request'[r].ticket = request[r].ticket
             /\ request'[r].previous = request[r].previous
    <3>1. w \in Tickets
      BY <1>2, <2>2, Busy DEF Compares, Idle, BusyRequest
    <3>2. Accounted(w, st)
      BY <1>2, <2>2 DEF AccountInv
    <3> QED
      BY <3>1, <3>2, AccountStays
  <2> QED
    BY <1>2, <2>1, <2>2, ComparesAfterRead
<1>3. ASSUME NEW w \in Tickets, NEW st \in had'[w] PROVE Accounted(w, st)'
  <2>1. CASE st \in had[w]
    BY <2>1, AccountStays DEF AccountInv
  <2>2. CASE st \in StatusOnRecord(w)'
    BY <1>1, <2>2 DEF StatusOnRecord
  <2> QED
    BY <2>1, <2>2, HistoryStep
<1>4. \A w \in Tickets : ticket'[w] # NoRow => Accounted(w, ticket[w].status)'
  BY <1>1 DEF Accounted, Listed, OnItsWay
<1>5. \A w \in Tickets : \A st \in had'[w] : Accounted(w, st)'
  BY <1>3
<1>6. \A r \in Requests : Compares(r)' /\ request'[r].previous # NoRow =>
          Accounted(request[r].ticket, request[r].previous.status)'
  BY <1>2 DEF Accounted, Listed, OnItsWay, Owes
<1> QED
  BY <1>4, <1>5, <1>6 DEF AccountInv

LEMMA HistoryInvariance == HistorySpec => [](IInv /\ AccountInv)
<1>1. HistoryInit => IInv /\ AccountInv
  <2>1. HistoryInit => Init
    BY DEF HistoryInit
  <2>2. HistoryInit => AccountInv
    BY DEF HistoryInit, Init, AccountInv, Compares, IdleRequest
  <2>3. Init => IInv
    BY InitTypeOK, InitOpened, InitStamped, InitSnapshot, InitTold DEF IInv
  <2> QED
    BY <2>1, <2>2, <2>3
<1>2. IInv /\ AccountInv /\ [HistoryNext]_historyVars => (IInv /\ AccountInv)'
  <2>1. IInv /\ [HistoryNext]_historyVars => IInv'
    BY HistoryStep, NextTypeOK, NextOpened, NextStampInv, NextStamped, NextSnapshot, NextTold
       DEF IInv
  <2>2. IInv /\ AccountInv /\ [HistoryNext]_historyVars => AccountInv'
    BY NextAccount DEF IInv
  <2> QED
    BY <2>1, <2>2
<1> QED
  BY <1>1, <1>2, PTL DEF HistorySpec

(* With any number of overlapping saves, comparing with stale rows and dying *)
(* anywhere: no status a work order ever had is missing from its log, but    *)
(* one whose phone died between the row and the line (WorkOrder.save).       *)
THEOREM StatusesAreLogged == HistorySpec => []StatusIsLogged
<1>1. AccountInv => StatusIsLogged
  BY DEF AccountInv, StatusIsLogged, LoggedStatuses, Owed, Accounted, OnItsWay, Listed
<1> QED
  BY <1>1, HistoryInvariance, PTL

-----------------------------------------------------------------------------
(* Lines and what they tell *)

(* What saves compare with, and what phones have written and not yet logged, *)
(* was on record.                                                            *)
HadInv ==
    /\ \A w \in Tickets : StatusOnRecord(w) \subseteq had[w]
    /\ \A r \in Requests : Compares(r) /\ request[r].previous # NoRow =>
           request[r].previous.status \in had[request[r].ticket]
    /\ \A p \in Phones : request[p].pc = "log" =>
           request[p].row.status \in had[request[p].ticket]
    /\ LogInventsNothing

LEMMA HadGrows ==
    ASSUME [HistoryNext]_historyVars, \A w \in Tickets : StatusOnRecord(w) \subseteq had[w]
    PROVE  \A w \in Tickets : had[w] \subseteq had'[w] /\ StatusOnRecord(w)' \subseteq had'[w]
<1>1. CASE HistoryNext
  BY <1>1 DEF HistoryNext
<1>2. CASE UNCHANGED historyVars
  BY <1>2 DEF historyVars, vars, StatusOnRecord
<1> QED
  BY <1>1, <1>2

(* A step that logs leads from a status the work order had to one it has.    *)
LEMMA LineIsTrue ==
    ASSUME TypeOK, HadInv, [HistoryNext]_historyVars, NEW r \in Requests,
           (r \in Phones /\ LogChange(r)) \/ (r \in Desks /\ Commit(r)),
           NEW w \in Tickets, w = request[r].ticket
    PROVE  LogEntry(r).from \in had'[w] \cup {"new"} /\ LogEntry(r).to \in had'[w]
<1>1. request[r] \in BusyRequest /\ Compares(r)
  BY Busy DEF LogChange, Commit, Idle, Compares
<1>2. had[w] \subseteq had'[w] /\ StatusOnRecord(w)' \subseteq had'[w]
  BY HadGrows DEF HadInv
<1>3. LogEntry(r).from \in had'[w] \cup {"new"}
  BY <1>1, <1>2 DEF HadInv, LogEntry, IsNew
<1>4. CASE r \in Phones /\ LogChange(r)
  BY <1>2, <1>3, <1>4 DEF HadInv, LogEntry, LogChange
<1>5. CASE r \in Desks /\ Commit(r)
  <2>1. ticket'[w] = request[r].row /\ request[r].row # NoRow
    BY <1>1, <1>5, NoRowAssumption DEF Commit, TypeOK, BusyRequest
  <2>2. StatusOnRecord(w)' = {request[r].row.status}
    BY <2>1 DEF StatusOnRecord
  <2> QED
    BY <1>2, <1>3, <2>2 DEF LogEntry
<1> QED
  BY <1>4, <1>5

LEMMA NextInventsNothing ==
    ASSUME TypeOK, HadInv, [HistoryNext]_historyVars PROVE LogInventsNothing'
<1> SUFFICES ASSUME NEW w \in Tickets, NEW i \in 1..Len(log'[w])
             PROVE  log'[w][i].from \in had'[w] \cup {"new"} /\ log'[w][i].to \in had'[w]
  BY DEF LogInventsNothing
<1>1. [Next]_vars /\ had[w] \subseteq had'[w]
  BY HistoryStep, HadGrows DEF HadInv
<1>2. \A j \in 1..Len(log[w]) :
          log[w][j].from \in had'[w] \cup {"new"} /\ log[w][j].to \in had'[w]
  BY <1>1 DEF HadInv, LogInventsNothing
<1>3. CASE log'[w] = log[w]
  BY <1>2, <1>3
<1>4. ASSUME NEW r \in Requests, (r \in Phones /\ LogChange(r)) \/ (r \in Desks /\ Commit(r)),
             log' = Logged(r), log'[w] # log[w]
      PROVE  log'[w][i].from \in had'[w] \cup {"new"} /\ log'[w][i].to \in had'[w]
  <2>1. request[r] \in BusyRequest
    BY <1>4, Busy DEF LogChange, Commit, Idle
  <2>2. /\ log[w] \in Seq(Entry) /\ LogEntry(r) \in Entry
        /\ w = request[r].ticket /\ log'[w] = Append(log[w], LogEntry(r))
    BY <1>4, <2>1, LineAdded
  <2>3. LogEntry(r).from \in had'[w] \cup {"new"} /\ LogEntry(r).to \in had'[w]
    BY <1>4, <2>2, LineIsTrue
  <2>4. CASE i \in 1..Len(log[w])
    BY <1>2, <2>2, <2>4
  <2>5. CASE i = Len(log[w]) + 1
    BY <2>2, <2>3, <2>5
  <2> QED
    BY <2>2, <2>4, <2>5
<1> QED
  BY <1>1, <1>3, <1>4, LogSteps

LEMMA NextHad == TypeOK /\ HadInv /\ [HistoryNext]_historyVars => HadInv'
<1> SUFFICES ASSUME TypeOK, HadInv, [HistoryNext]_historyVars PROVE HadInv'
  OBVIOUS
<1>1. [Next]_vars
  BY HistoryStep
<1>2. \A w \in Tickets : had[w] \subseteq had'[w] /\ StatusOnRecord(w)' \subseteq had'[w]
  BY HadGrows DEF HadInv
<1>3. ASSUME NEW r \in Requests, Compares(r)', request'[r].previous # NoRow
      PROVE  request'[r].previous.status \in had'[request'[r].ticket]
  <2>1. CASE ReadPrevious(r)
    <3>1. /\ request'[r].ticket = request[r].ticket
          /\ request'[r].previous = ticket[request[r].ticket]
      BY <2>1, ReadRow DEF TypeOK
    <3>2. request[r].ticket \in Tickets
      BY <2>1, Busy DEF ReadPrevious, Idle, BusyRequest
    <3>3. ticket[request[r].ticket].status \in had[request[r].ticket]
      BY <1>3, <3>1, <3>2 DEF HadInv, StatusOnRecord
    <3> QED
      BY <1>2, <3>1, <3>2, <3>3
  <2>2. CASE /\ Compares(r) /\ request'[r].ticket = request[r].ticket
             /\ request'[r].previous = request[r].previous
    <3>1. request[r].ticket \in Tickets
      BY <2>2, Busy DEF Compares, Idle, BusyRequest
    <3> QED
      BY <1>2, <1>3, <2>2, <3>1 DEF HadInv
  <2> QED
    BY <1>1, <1>3, <2>1, <2>2, ComparesAfterRead
<1>4. ASSUME NEW p \in Phones, request'[p].pc = "log"
      PROVE  request'[p].row.status \in had'[request'[p].ticket]
  <2>1. p \in Requests /\ p \notin Desks /\ Compares(p)'
    BY <1>4, WorkOrdersAssumption DEF Compares, Requests
  <2>2. CASE request'[p] = request[p]
    <3>1. request[p].ticket \in Tickets
      BY <1>4, <2>1, <2>2, Busy DEF Idle, BusyRequest
    <3> QED
      BY <1>2, <1>4, <2>2, <3>1 DEF HadInv
  <2>3. CASE WriteRow(p)
    <3>1. request[p] \in BusyRequest /\ Kept(p)
      BY <2>1, <2>3, Busy, SaveMoves DEF WriteRow, Idle
    <3>2. request[p].ticket \in Tickets /\ ticket'[request[p].ticket] = request[p].row
      BY <2>1, <2>3, <3>1 DEF WriteRow, TypeOK, BusyRequest
    <3>3. request[p].row # NoRow
      BY <3>1, NoRowAssumption DEF BusyRequest
    <3>4. request[p].row.status \in had'[request[p].ticket]
      BY <1>2, <3>2, <3>3 DEF StatusOnRecord
    <3> QED
      BY <3>1, <3>4 DEF Kept
  <2>4. ~ReadPrevious(p) /\ ~LogChange(p) /\ ~Notify(p)
    <3>1. ~ReadPrevious(p)
      BY <1>4, <2>1, ReadRow DEF TypeOK
    <3>2. ~LogChange(p) /\ ~Notify(p)
      BY <1>4, <2>1, SaveMoves DEF Idle
    <3> QED
      BY <3>1, <3>2
  <2> QED
    BY <1>1, <2>1, <2>2, <2>3, <2>4, ComparingSteps
<1>5. LogInventsNothing'
  BY NextInventsNothing
<1> QED
  BY <1>2, <1>3, <1>4, <1>5 DEF HadInv

(* Every line of every log leads from a status the work order had, or from   *)
(* "new", to one it had: what was rolled back left none (models.py).         *)
THEOREM LogsInventNothing == HistorySpec => []LogInventsNothing
<1>1. HistoryInit => HadInv
  BY DEF HistoryInit, Init, HadInv, LogInventsNothing, StatusOnRecord, Compares, IdleRequest,
     Requests
<1>2. IInv /\ HadInv /\ [HistoryNext]_historyVars => HadInv'
  BY NextHad DEF IInv
<1>3. HadInv => LogInventsNothing
  BY DEF HadInv
<1> QED
  BY <1>1, <1>2, <1>3, HistoryInvariance, PTL DEF HistorySpec
=============================================================================
