------------------------------ MODULE Permits ------------------------------
(* Permits to work (src/backend/safety): who is on record as having approved *)
(* one.  Supervisors run the "Approve selected permits" action of the list;  *)
(* editors save the change form, on which the approval is read-only.         *)
EXTENDS Integers

CONSTANTS Permits,      \* PermitToWork rows
          Users,        \* who can open the list of permits
          Supervisors,  \* users with can_approve_permittowork
          Unscoped,     \* users whose list joins no other table: superusers and
                        \* Admin and OEM members, as long as they do not search
          Editors,      \* change forms that may be in progress
          Contents,     \* what else a permit says: its status, holder, lockout
          NotApproved,  \* the approver of a permit that is not approved
          Unlocked      \* the holder of an unlocked row

ASSUME PermitsAssumption ==
    /\ Supervisors \subseteq Users /\ Unscoped \subseteq Users
    /\ NotApproved \notin Users
    /\ Users \cap Editors = {}
    /\ Unlocked \notin Users \cup Editors

VARIABLES permit,    \* the committed rows
          lockedBy,  \* the request that has updated a row and not committed
          approval,  \* the users' UPDATEs in progress
          edit,      \* the change forms being saved
          older      \* the requests in progress that began before the approval
                     \* of a permit was on record

permitVars == <<permit, lockedBy, approval, edit, older>>

PermitRow == [content : Contents, approver : Users \cup {NotApproved}]
NoApproval == [pc |-> "idle"]
NoEdit == [pc |-> "idle"]

PermitsInit ==
    /\ permit \in [Permits -> [content : Contents, approver : {NotApproved}]]
    /\ lockedBy = [p \in Permits |-> Unlocked]
    /\ approval = [u \in Users |-> NoApproval]
    /\ edit = [e \in Editors |-> NoEdit]
    /\ older = [p \in Permits |-> {}]

Approved(p) == permit[p].approver # NotApproved
InProgress == {u \in Users : approval[u] # NoApproval} \cup {e \in Editors : edit[e] # NoEdit}

(* A request that begins has seen every approval that is on record now; one  *)
(* that commits leaves the others unaware of the approvals it changes.       *)
SeenBy(r) == older' = [p \in Permits |-> older[p] \ {r}]
UnseenBut(r) == older' = [p \in Permits |->
    IF permit'[p].approver # permit[p].approver THEN InProgress \ {r} ELSE older[p]]

ReleasePermits(r) ==
    lockedBy' = [p \in Permits |-> IF lockedBy[p] = r THEN Unlocked ELSE lockedBy[p]]

-----------------------------------------------------------------------------
(* approve_permits: one UPDATE, whose WHERE keeps approved permits out.      *)

(* Mutant: the permission is not looked at. *)
Allowed_Anyone(u) == TRUE
Allowed(u) == u \in Supervisors

ToApprove(S) == {p \in S : ~Approved(p)}

(* The rows are found in a snapshot of what is committed ... *)
Approve(u, S) ==
    /\ approval[u] = NoApproval
    /\ Allowed(u)
    /\ ToApprove(S) # {}
    /\ approval' = [approval EXCEPT ![u] = [pc |-> "update", left |-> ToApprove(S)]]
    /\ SeenBy(u)
    /\ UNCHANGED <<permit, lockedBy, edit>>

(* ... and locked one by one.  A row that was locked is looked at again, if  *)
(* the WHERE is the table's own.  A user's sites are looked up through the   *)
(* asset: then the WHERE is in a sub-select, which is not evaluated again.   *)
(* Mutant: nor is it for anybody else.                                       *)
StillToApprove_AsFound(u, p) == TRUE
StillToApprove(u, p) == u \in Unscoped => ~Approved(p)

ReachPermit(u, p) ==
    /\ approval[u] # NoApproval
    /\ p \in approval[u].left
    /\ lockedBy[p] = Unlocked
    /\ lockedBy' = IF StillToApprove(u, p) THEN [lockedBy EXCEPT ![p] = u] ELSE lockedBy
    /\ approval' = [approval EXCEPT ![u].left = @ \ {p}]
    /\ UNCHANGED <<permit, edit, older>>

CommitApproval(u) ==
    /\ approval[u] # NoApproval
    /\ approval[u].left = {}
    /\ permit' = [p \in Permits |-> IF lockedBy[p] = u THEN [permit[p] EXCEPT !.approver = u]
                                    ELSE permit[p]]
    /\ ReleasePermits(u)
    /\ approval' = [approval EXCEPT ![u] = NoApproval]
    /\ UnseenBut(u)
    /\ UNCHANGED edit

(* The request fails, or PostgreSQL ends it to break a cycle of waits.       *)
AbortApproval(u) ==
    /\ approval[u] # NoApproval
    /\ ReleasePermits(u)
    /\ approval' = [approval EXCEPT ![u] = NoApproval]
    /\ UNCHANGED <<permit, edit, older>>

-----------------------------------------------------------------------------
(* The change form, from the POST on: the row is loaded, the fields of the   *)
(* form put over it, and all of it written in save_model.                    *)

LoadPermit(e, p, content) ==
    /\ edit[e] = NoEdit
    /\ edit' = [edit EXCEPT ![e] = [pc |-> "loaded", permit |-> p,
                                    row |-> [permit[p] EXCEPT !.content = content]]]
    /\ SeenBy(e)
    /\ UNCHANGED <<permit, lockedBy, approval>>

SavePermit(e) ==
    LET p == edit[e].permit IN
    /\ edit[e].pc = "loaded"
    /\ lockedBy[p] = Unlocked
    /\ lockedBy' = [lockedBy EXCEPT ![p] = e]
    /\ edit' = [edit EXCEPT ![e].pc = "saved"]
    /\ UNCHANGED <<permit, approval, older>>

CommitEdit(e) ==
    /\ edit[e].pc = "saved"
    /\ permit' = [permit EXCEPT ![edit[e].permit] = edit[e].row]
    /\ ReleasePermits(e)
    /\ edit' = [edit EXCEPT ![e] = NoEdit]
    /\ UnseenBut(e)
    /\ UNCHANGED approval

AbortEdit(e) ==
    /\ edit[e] # NoEdit
    /\ ReleasePermits(e)
    /\ edit' = [edit EXCEPT ![e] = NoEdit]
    /\ UNCHANGED <<permit, approval, older>>

PermitsNext ==
    \/ \E u \in Users : \/ \E S \in SUBSET Permits : Approve(u, S)
                        \/ \E p \in Permits : ReachPermit(u, p)
                        \/ CommitApproval(u) \/ AbortApproval(u)
    \/ \E e \in Editors : \/ \E p \in Permits, content \in Contents : LoadPermit(e, p, content)
                          \/ SavePermit(e) \/ CommitEdit(e) \/ AbortEdit(e)

PermitsSpec == PermitsInit /\ [][PermitsNext]_permitVars

-----------------------------------------------------------------------------
(* Properties *)

PermitsTypeOK ==
    /\ permit \in [Permits -> PermitRow]
    /\ lockedBy \in [Permits -> Users \cup Editors \cup {Unlocked}]
    /\ approval \in [Users -> {NoApproval} \cup [pc : {"update"}, left : SUBSET Permits]]
    /\ edit \in [Editors -> {NoEdit} \cup
                    [pc : {"loaded", "saved"}, permit : Permits, row : PermitRow]]
    /\ older \in [Permits -> SUBSET (Users \cup Editors)]

(* Every approval on record is a supervisor's, through any mix of approvals  *)
(* and of forms that write whole rows back (safety/models.py, approved_by).  *)
ApproverIsSupervisor ==
    \A p \in Permits : permit[p].approver \in Supervisors \cup {NotApproved}

(* Nobody replaces or removes an approval that was on record when they       *)
(* began.  Only what was under way before it was can: a form, which writes   *)
(* the row back as it was loaded, or the UPDATE of a supervisor whose list   *)
(* joins other tables (safety/admin.py, approve_permits and save_model).     *)
ApproverKept ==
    [][\A p \in Permits : Approved(p) /\ permit'[p].approver # permit[p].approver =>
          \E r \in older[p] \ Unscoped : lockedBy[p] = r]_permitVars

(* "already approved - left unchanged" (safety/admin.py): what the message   *)
(* says of an approval that was already there.                               *)
ApprovalStands ==
    [][\A p \in Permits : Approved(p) => permit'[p].approver = permit[p].approver]_permitVars
=============================================================================
