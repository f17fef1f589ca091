--------------------------- MODULE TicketHistory ---------------------------
(* Work orders and, beside them, what nobody keeps: which statuses each has  *)
(* had, and the lines of its status log that were never written because a    *)
(* phone's request died between the row and the line.                        *)
EXTENDS WorkOrders

VARIABLES had,   \* the statuses each work order has had on record
          lost   \* those whose line died with the request that owed it

historyVars == <<vars, had, lost>>

(* A phone has changed the row and has its line still to write.              *)
Owes(p, w) == request[p].pc = "log" /\ request[p].ticket = w /\ StatusChanged(p)
Owed(w) == {request[p].row.status : p \in {q \in Phones : Owes(q, w)}}

StatusOnRecord(w) == IF ticket[w] = NoRow THEN {} ELSE {ticket[w].status}

HistoryInit == /\ Init
               /\ had = [w \in Tickets |-> {}]
               /\ lost = [w \in Tickets |-> {}]

HistoryNext ==
    /\ Next
    /\ had' = [w \in Tickets |-> had[w] \cup StatusOnRecord(w)']
    /\ lost' = [w \in Tickets |-> lost[w] \cup
            {request[p].row.status : p \in {q \in Phones : Owes(q, w) /\ Idle(q)'}}]

HistorySpec == HistoryInit /\ [][HistoryNext]_historyVars

-----------------------------------------------------------------------------
LoggedStatuses(w) == {log[w][i].to : i \in 1..Len(log[w])}

(* However saves overlap and whichever previous status they compared with,   *)
(* no status a work order ever had is missing from its log, unless a phone   *)
(* died with the line or still owes it.  One that was IN_PROGRESS has the    *)
(* line by which sla.py judges when work began (WorkOrder.save).             *)
StatusIsLogged == \A w \in Tickets :
    had[w] \subseteq LoggedStatuses(w) \cup Owed(w) \cup lost[w]

(* The log claims nothing that was not so: every line leads from a status    *)
(* the work order had, or from "new", to one it had.  A transition that was  *)
(* rolled back leaves no line (WorkOrderStatusChange, models.py).            *)
LogInventsNothing == \A w \in Tickets : \A i \in 1..Len(log[w]) :
    log[w][i].from \in had[w] \cup {"new"} /\ log[w][i].to \in had[w]
=============================================================================
