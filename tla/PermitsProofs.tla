--------------------------- MODULE PermitsProofs ---------------------------
(* For any permits, users and forms: approvals on record are supervisors',   *)
(* and only what was under way before an approval replaces or removes it.    *)
EXTENDS Permits, TLAPS

(* The rows that forms are about to write back carry approvals of            *)
(* supervisors too, and only supervisors' UPDATEs run.                       *)
ApprovalInv == /\ ApproverIsSupervisor
               /\ \A e \in Editors : edit[e] # NoEdit =>
                      edit[e].row.approver \in Supervisors \cup {NotApproved}
               /\ \A u \in Users : approval[u] # NoApproval => u \in Supervisors

(* A form that is about to commit holds the lock of its row, and a user who  *)
(* holds one has an UPDATE in progress.                                      *)
LockInv == /\ \A e \in Editors : edit[e].pc = "saved" => lockedBy[edit[e].permit] = e
           /\ \A p \in Permits : lockedBy[p] \in Users => approval[lockedBy[p]] # NoApproval

(* An UPDATE that is to reach, or has locked, an approved permit began       *)
(* before the approval, and is not one that would have looked again; a form  *)
(* that carries another approver than the row began before it too.           *)
UpdateUnaware(u, p) == Approved(p) =>
    /\ approval[u] # NoApproval /\ p \in approval[u].left => u \in older[p]
    /\ lockedBy[p] = u => u \in older[p] \ Unscoped
FormUnaware(e, p) == Approved(p) /\ edit[e] # NoEdit /\ edit[e].permit = p
                     /\ edit[e].row.approver # permit[p].approver => e \in older[p]
UnawareInv == \A p \in Permits : /\ \A u \in Users : UpdateUnaware(u, p)
                                 /\ \A e \in Editors : FormUnaware(e, p)

BusyEdit == [pc : {"loaded", "saved"}, permit : Permits, row : PermitRow]
BusyApproval == [pc : {"update"}, left : SUBSET Permits]

-----------------------------------------------------------------------------
(* Facts about the parts of a request *)

(* A form that is not idle has a permit and a row of it. *)
LEMMA Busy == ASSUME PermitsTypeOK, NEW e \in Editors, edit[e] # NoEdit
              PROVE  edit[e] \in BusyEdit
BY DEF PermitsTypeOK, BusyEdit

LEMMA NotIdle == ASSUME NEW e, edit[e].pc \in {"loaded", "saved"}
                 PROVE  edit[e] # NoEdit
BY DEF NoEdit

LEMMA BusyUpdate == ASSUME PermitsTypeOK, NEW u \in Users, approval[u] # NoApproval
                    PROVE  approval[u] \in BusyApproval
BY DEF PermitsTypeOK, BusyApproval

(* Reaching a permit takes it off what is left, and nothing else.            *)
LEMMA Reached ==
    ASSUME PermitsTypeOK, NEW u \in Users, NEW p \in Permits, ReachPermit(u, p)
    PROVE  /\ approval'[u] \in BusyApproval /\ approval'[u] # NoApproval
           /\ approval'[u].left = approval[u].left \ {p}
           /\ \A v \in Users : v # u => approval'[v] = approval[v]
<1>1. approval[u] \in BusyApproval
  BY BusyUpdate DEF ReachPermit
<1>2. approval'[u] = [approval[u] EXCEPT !.left = @ \ {p}]
  BY DEF ReachPermit, PermitsTypeOK
<1>3. approval'[u] \in BusyApproval /\ approval'[u].left = approval[u].left \ {p}
  BY <1>1, <1>2 DEF BusyApproval
<1>4. \A v \in Users : v # u => approval'[v] = approval[v]
  BY DEF ReachPermit, PermitsTypeOK
<1> QED
  BY <1>3, <1>4 DEF BusyApproval, NoApproval

(* A form keeps its permit and its row while it is saved. *)
LEMMA Saved ==
    ASSUME PermitsTypeOK, NEW e \in Editors, SavePermit(e)
    PROVE  /\ edit[e] \in BusyEdit /\ edit[e] # NoEdit /\ edit'[e] \in BusyEdit
           /\ edit'[e].permit = edit[e].permit /\ edit'[e].row = edit[e].row
           /\ \A f \in Editors : f # e => edit'[f] = edit[f]
<1>1. edit[e] \in BusyEdit /\ edit[e] # NoEdit
  BY Busy, NotIdle DEF SavePermit
<1>2. edit'[e] = [edit[e] EXCEPT !.pc = "saved"]
  BY DEF SavePermit, PermitsTypeOK
<1>3. \A f \in Editors : f # e => edit'[f] = edit[f]
  BY DEF SavePermit, PermitsTypeOK
<1> QED
  BY <1>1, <1>2, <1>3 DEF BusyEdit

-----------------------------------------------------------------------------
(* Types *)

LEMMA InitTypeOK == PermitsInit => PermitsTypeOK
BY DEF PermitsInit, PermitsTypeOK, PermitRow, NoEdit, NoApproval

LEMMA InProgressType == InProgress \subseteq Users \cup Editors
BY DEF InProgress

LEMMA NextTypeOK == PermitsTypeOK /\ [PermitsNext]_permitVars => PermitsTypeOK'
<1> SUFFICES ASSUME PermitsTypeOK, [PermitsNext]_permitVars PROVE PermitsTypeOK'
  OBVIOUS
<1>1. ASSUME NEW u \in Users, NEW S \in SUBSET Permits, Approve(u, S) PROVE PermitsTypeOK'
  <2>1. [pc |-> "update", left |-> ToApprove(S)] \in BusyApproval
    BY DEF ToApprove, BusyApproval
  <2> QED
    BY <1>1, <2>1 DEF Approve, SeenBy, PermitsTypeOK, BusyApproval
<1>2. ASSUME NEW u \in Users, NEW p \in Permits, ReachPermit(u, p) PROVE PermitsTypeOK'
  <2>1. approval' \in [Users -> {NoApproval} \cup BusyApproval]
    BY <1>2, Reached DEF ReachPermit, PermitsTypeOK, BusyApproval
  <2>2. lockedBy' \in [Permits -> Users \cup Editors \cup {Unlocked}]
    BY <1>2 DEF ReachPermit, PermitsTypeOK
  <2> QED
    BY <1>2, <2>1, <2>2 DEF ReachPermit, PermitsTypeOK, BusyApproval
<1>3. ASSUME NEW u \in Users, CommitApproval(u) PROVE PermitsTypeOK'
  <2>1. permit' \in [Permits -> PermitRow]
    BY <1>3 DEF CommitApproval, PermitsTypeOK, PermitRow
  <2>2. older' \in [Permits -> SUBSET (Users \cup Editors)]
    BY <1>3, InProgressType DEF CommitApproval, UnseenBut, PermitsTypeOK
  <2> QED
    BY <1>3, <2>1, <2>2 DEF CommitApproval, ReleasePermits, PermitsTypeOK
<1>4. ASSUME NEW u \in Users, AbortApproval(u) PROVE PermitsTypeOK'
  BY <1>4 DEF AbortApproval, ReleasePermits, PermitsTypeOK
<1>5. ASSUME NEW e \in Editors, NEW p \in Permits, NEW content \in Contents,
             LoadPermit(e, p, content)
      PROVE  PermitsTypeOK'
  <2>1. [permit[p] EXCEPT !.content = content] \in PermitRow
    BY DEF PermitsTypeOK, PermitRow
  <2> QED
    BY <1>5, <2>1 DEF LoadPermit, SeenBy, PermitsTypeOK
<1>6. ASSUME NEW e \in Editors, SavePermit(e) PROVE PermitsTypeOK'
  BY <1>6, Saved DEF SavePermit, PermitsTypeOK, BusyEdit
<1>7. ASSUME NEW e \in Editors, CommitEdit(e) PROVE PermitsTypeOK'
  <2>1. edit[e] \in BusyEdit
    BY <1>7, Busy, NotIdle DEF CommitEdit
  <2>2. older' \in [Permits -> SUBSET (Users \cup Editors)]
    BY <1>7, InProgressType DEF CommitEdit, UnseenBut, PermitsTypeOK
  <2> QED
    BY <1>7, <2>1, <2>2 DEF CommitEdit, ReleasePermits, PermitsTypeOK, BusyEdit
<1>8. ASSUME NEW e \in Editors, AbortEdit(e) PROVE PermitsTypeOK'
  BY <1>8 DEF AbortEdit, ReleasePermits, PermitsTypeOK
<1>9. CASE UNCHANGED permitVars
  BY <1>9 DEF permitVars, PermitsTypeOK
<1> QED
  BY <1>1, <1>2, <1>3, <1>4, <1>5, <1>6, <1>7, <1>8, <1>9 DEF PermitsNext

-----------------------------------------------------------------------------
(* Whose approvals there are *)

LEMMA InitApproval == PermitsInit => ApprovalInv
BY DEF PermitsInit, ApprovalInv, ApproverIsSupervisor

LEMMA NextApproval == PermitsTypeOK /\ ApprovalInv /\ [PermitsNext]_permitVars => ApprovalInv'
<1> SUFFICES ASSUME PermitsTypeOK, ApprovalInv, [PermitsNext]_permitVars PROVE ApprovalInv'
  OBVIOUS
<1> USE DEF ApprovalInv, ApproverIsSupervisor
<1>1. ASSUME NEW u \in Users, NEW S \in SUBSET Permits, Approve(u, S) PROVE ApprovalInv'
  BY <1>1 DEF Approve, Allowed, PermitsTypeOK
<1>2. ASSUME NEW u \in Users, NEW p \in Permits, ReachPermit(u, p) PROVE ApprovalInv'
  BY <1>2 DEF ReachPermit, PermitsTypeOK
<1>3. ASSUME NEW u \in Users, CommitApproval(u) PROVE ApprovalInv'
  BY <1>3 DEF CommitApproval, PermitsTypeOK, PermitRow
<1>4. ASSUME NEW u \in Users, AbortApproval(u) PROVE ApprovalInv'
  BY <1>4 DEF AbortApproval, PermitsTypeOK
<1>5. ASSUME NEW e \in Editors, NEW p \in Permits, NEW content \in Contents,
             LoadPermit(e, p, content)
      PROVE  ApprovalInv'
  <2>1. [permit[p] EXCEPT !.content = content].approver \in Supervisors \cup {NotApproved}
    BY DEF PermitsTypeOK, PermitRow
  <2> QED
    BY <1>5, <2>1 DEF LoadPermit, PermitsTypeOK
<1>6. ASSUME NEW e \in Editors, SavePermit(e) PROVE ApprovalInv'
  BY <1>6, Saved DEF SavePermit
<1>7. ASSUME NEW e \in Editors, CommitEdit(e) PROVE ApprovalInv'
  <2>1. edit[e] \in BusyEdit /\ edit[e] # NoEdit
    BY <1>7, Busy, NotIdle DEF CommitEdit
  <2> QED
    BY <1>7, <2>1 DEF CommitEdit, PermitsTypeOK, BusyEdit
<1>8. ASSUME NEW e \in Editors, AbortEdit(e) PROVE ApprovalInv'
  BY <1>8 DEF AbortEdit, PermitsTypeOK
<1>9. CASE UNCHANGED permitVars
  BY <1>9 DEF permitVars
<1> QED
  BY <1>1, <1>2, <1>3, <1>4, <1>5, <1>6, <1>7, <1>8, <1>9 DEF PermitsNext

-----------------------------------------------------------------------------
(* Who holds the locks *)

LEMMA InitLocks == PermitsInit => LockInv
BY PermitsAssumption DEF PermitsInit, LockInv, NoEdit

(* The lock of a form's row is not touched by anybody else's step.           *)
LEMMA NextLocks == PermitsTypeOK /\ LockInv /\ [PermitsNext]_permitVars => LockInv'
<1> SUFFICES ASSUME PermitsTypeOK, LockInv, [PermitsNext]_permitVars PROVE LockInv'
  OBVIOUS
<1>0. \A e \in Editors : edit[e].pc = "saved" => edit[e].permit \in Permits
  BY Busy, NotIdle DEF BusyEdit
<1>1. ASSUME NEW u \in Users, NEW S \in SUBSET Permits, Approve(u, S) PROVE LockInv'
  BY <1>1 DEF Approve, LockInv, PermitsTypeOK, NoApproval
<1>2. ASSUME NEW u \in Users, NEW p \in Permits, ReachPermit(u, p) PROVE LockInv'
  <2>1. \A v \in Users : approval[v] # NoApproval => approval'[v] # NoApproval
    BY <1>2, Reached
  <2>2. \A q \in Permits : q # p => lockedBy'[q] = lockedBy[q]
    BY <1>2 DEF ReachPermit, PermitsTypeOK
  <2>3. approval[u] # NoApproval /\ lockedBy[p] = Unlocked /\ lockedBy'[p] \in {u, Unlocked}
    BY <1>2 DEF ReachPermit, PermitsTypeOK
  <2>4. \A e \in Editors : edit[e].pc = "saved" => edit[e].permit # p
    BY <2>3, PermitsAssumption DEF LockInv
  <2>5. UNCHANGED edit
    BY <1>2 DEF ReachPermit
  <2> QED
    BY <1>0, <2>1, <2>2, <2>3, <2>4, <2>5, PermitsAssumption DEF LockInv
<1>3. ASSUME NEW u \in Users, CommitApproval(u) \/ AbortApproval(u) PROVE LockInv'
  <2>1. \A q \in Permits : lockedBy'[q] = IF lockedBy[q] = u THEN Unlocked ELSE lockedBy[q]
    BY <1>3 DEF CommitApproval, AbortApproval, ReleasePermits
  <2>2. \A v \in Users : v # u => approval'[v] = approval[v]
    BY <1>3 DEF CommitApproval, AbortApproval, PermitsTypeOK
  <2>3. UNCHANGED edit
    BY <1>3 DEF CommitApproval, AbortApproval
  <2>4. \A e \in Editors : e # u
    BY PermitsAssumption
  <2> QED
    BY <1>0, <2>1, <2>2, <2>3, <2>4, PermitsAssumption DEF LockInv
<1>4. ASSUME NEW e \in Editors, NEW p \in Permits, NEW content \in Contents,
             LoadPermit(e, p, content)
      PROVE  LockInv'
  BY <1>4 DEF LoadPermit, LockInv, PermitsTypeOK
<1>5. ASSUME NEW e \in Editors, SavePermit(e) PROVE LockInv'
  <2> DEFINE p == edit[e].permit
  <2>1. p \in Permits /\ edit'[e].permit = p /\ \A f \in Editors : f # e => edit'[f] = edit[f]
    BY <1>5, Saved DEF BusyEdit
  <2>2. /\ lockedBy[p] = Unlocked /\ lockedBy'[p] = e
        /\ \A q \in Permits : q # p => lockedBy'[q] = lockedBy[q]
    BY <1>5, <2>1 DEF SavePermit, PermitsTypeOK
  <2>3. \A f \in Editors : edit[f].pc = "saved" => edit[f].permit # p
    BY <2>2, PermitsAssumption DEF LockInv
  <2>4. UNCHANGED approval
    BY <1>5 DEF SavePermit
  <2> QED
    BY <1>0, <2>1, <2>2, <2>3, <2>4, PermitsAssumption DEF LockInv
<1>6. ASSUME NEW e \in Editors, CommitEdit(e) \/ AbortEdit(e) PROVE LockInv'
  <2>1. \A q \in Permits : lockedBy'[q] = IF lockedBy[q] = e THEN Unlocked ELSE lockedBy[q]
    BY <1>6 DEF CommitEdit, AbortEdit, ReleasePermits
  <2>2. /\ edit'[e] = NoEdit
        /\ \A f \in Editors : f # e => edit'[f] = edit[f]
    BY <1>6 DEF CommitEdit, AbortEdit, PermitsTypeOK
  <2>3. UNCHANGED approval
    BY <1>6 DEF CommitEdit, AbortEdit
  <2>4. NoEdit.pc # "saved"
    BY DEF NoEdit
  <2> QED
    BY <1>0, <2>1, <2>2, <2>3, <2>4, PermitsAssumption DEF LockInv
<1>7. CASE UNCHANGED permitVars
  BY <1>7 DEF permitVars, LockInv
<1> QED
  BY <1>1, <1>2, <1>3, <1>4, <1>5, <1>6, <1>7 DEF PermitsNext

-----------------------------------------------------------------------------
(* What was under way *)

LEMMA InitUnaware == PermitsInit => UnawareInv
BY DEF PermitsInit, UnawareInv, UpdateUnaware, FormUnaware, Approved

(* A commit that changes the approver of some permits, all of which its      *)
(* request holds.                                                            *)
LEMMA CommitUnaware ==
    ASSUME PermitsTypeOK, LockInv, UnawareInv, NEW r \in Users \cup Editors, UnseenBut(r),
           ReleasePermits(r),
           \A p \in Permits : lockedBy[p] # r => permit'[p] = permit[p],
           \A u \in Users : approval'[u] # NoApproval => u # r /\ approval'[u] = approval[u],
           \A e \in Editors : edit'[e] # NoEdit => e # r /\ edit'[e] = edit[e]
    PROVE  UnawareInv'
<1> SUFFICES ASSUME NEW p \in Permits, Approved(p)'
             PROVE  /\ \A u \in Users : UpdateUnaware(u, p)'
                    /\ \A e \in Editors : FormUnaware(e, p)'
  BY DEF UnawareInv, UpdateUnaware, FormUnaware
<1>0. r # Unlocked
  BY PermitsAssumption
<1>1. CASE permit'[p].approver = permit[p].approver
  <2>1. older'[p] = older[p] /\ Approved(p)
    BY <1>1 DEF UnseenBut, Approved
  <2>2. lockedBy'[p] \in {lockedBy[p], Unlocked}
    BY DEF ReleasePermits
  <2> QED
    BY <1>1, <2>1, <2>2, PermitsAssumption DEF UnawareInv, UpdateUnaware, FormUnaware
<1>2. CASE permit'[p].approver # permit[p].approver
  <2>1. older'[p] = InProgress \ {r}
    BY <1>2 DEF UnseenBut
  <2>2. lockedBy[p] = r /\ lockedBy'[p] = Unlocked
    BY <1>2 DEF ReleasePermits
  <2> QED
    BY <2>1, <2>2, PermitsAssumption DEF UpdateUnaware, FormUnaware, InProgress
<1> QED
  BY <1>1, <1>2

LEMMA NextUnaware == PermitsTypeOK /\ LockInv /\ UnawareInv /\ [PermitsNext]_permitVars => UnawareInv'
<1> SUFFICES ASSUME PermitsTypeOK, LockInv, UnawareInv, [PermitsNext]_permitVars PROVE UnawareInv'
  OBVIOUS
<1>1. ASSUME NEW u \in Users, NEW S \in SUBSET Permits, Approve(u, S) PROVE UnawareInv'
  <2>1. UNCHANGED <<permit, lockedBy, edit>> /\ \A p \in Permits : older'[p] = older[p] \ {u}
    BY <1>1 DEF Approve, SeenBy
  <2>2. /\ approval'[u].left = {p \in S : ~Approved(p)}
        /\ \A v \in Users : v # u => approval'[v] = approval[v]
    BY <1>1 DEF Approve, ToApprove, PermitsTypeOK
  <2>3. \A p \in Permits : lockedBy[p] # u
    BY <1>1 DEF Approve, LockInv
  <2>4. \A e \in Editors : e # u
    BY PermitsAssumption
  <2> QED
    BY <2>1, <2>2, <2>3, <2>4 DEF UnawareInv, UpdateUnaware, FormUnaware, Approved
<1>2. ASSUME NEW u \in Users, NEW p \in Permits, ReachPermit(u, p) PROVE UnawareInv'
  <2>1. UNCHANGED <<permit, edit, older>>
    BY <1>2 DEF ReachPermit
  <2>2. /\ \A q \in Permits : q # p => lockedBy'[q] = lockedBy[q]
        /\ lockedBy'[p] = IF u \in Unscoped => ~Approved(p) THEN u ELSE Unlocked
        /\ approval[u] # NoApproval /\ p \in approval[u].left
    BY <1>2 DEF ReachPermit, StillToApprove, PermitsTypeOK
  <2>3. /\ approval'[u].left = approval[u].left \ {p}
        /\ \A v \in Users : v # u => approval'[v] = approval[v]
    BY <1>2, Reached
  <2>4. UpdateUnaware(u, p) /\ Unlocked \notin Users
    BY PermitsAssumption DEF UnawareInv
  <2>5. ASSUME NEW v \in Users, NEW q \in Permits PROVE UpdateUnaware(v, q)'
    <3>1. UpdateUnaware(v, q) /\ (Approved(q)' <=> Approved(q))
      BY <2>1 DEF UnawareInv, Approved
    <3>2. approval'[v] # NoApproval /\ q \in approval'[v].left =>
              approval[v] # NoApproval /\ q \in approval[v].left
      BY <2>2, <2>3
    <3>3. lockedBy'[q] = v => lockedBy[q] = v \/ (q = p /\ v = u /\ (u \in Unscoped => ~Approved(p)))
      BY <2>2, <2>4
    <3> QED
      BY <2>1, <2>2, <2>4, <3>1, <3>2, <3>3 DEF UpdateUnaware
  <2>6. ASSUME NEW e \in Editors, NEW q \in Permits PROVE FormUnaware(e, q)'
    BY <2>1 DEF UnawareInv, FormUnaware, Approved
  <2> QED
    BY <2>5, <2>6 DEF UnawareInv
<1>3. ASSUME NEW u \in Users, CommitApproval(u) PROVE UnawareInv'
  <2>1. \A p \in Permits : lockedBy[p] # u => permit'[p] = permit[p]
    BY <1>3 DEF CommitApproval, PermitsTypeOK
  <2>2. \A v \in Users : approval'[v] # NoApproval => v # u /\ approval'[v] = approval[v]
    BY <1>3 DEF CommitApproval, PermitsTypeOK
  <2>3. \A e \in Editors : edit'[e] # NoEdit => e # u /\ edit'[e] = edit[e]
    BY <1>3, PermitsAssumption DEF CommitApproval
  <2> QED
    BY <1>3, <2>1, <2>2, <2>3, CommitUnaware DEF CommitApproval
<1>4. ASSUME NEW u \in Users, AbortApproval(u) PROVE UnawareInv'
  <2>1. UNCHANGED <<permit, edit, older>>
    BY <1>4 DEF AbortApproval
  <2>2. \A p \in Permits : lockedBy'[p] \in {lockedBy[p], Unlocked}
    BY <1>4 DEF AbortApproval, ReleasePermits
  <2>3. \A v \in Users : approval'[v] # NoApproval => approval'[v] = approval[v]
    BY <1>4 DEF AbortApproval, PermitsTypeOK
  <2> QED
    BY <2>1, <2>2, <2>3, PermitsAssumption DEF UnawareInv, UpdateUnaware, FormUnaware, Approved
<1>5. ASSUME NEW e \in Editors, NEW p \in Permits, NEW content \in Contents,
             LoadPermit(e, p, content)
      PROVE  UnawareInv'
  <2>1. /\ UNCHANGED <<permit, lockedBy, approval>>
        /\ \A q \in Permits : older'[q] = older[q] \ {e}
        /\ \A f \in Editors : f # e => edit'[f] = edit[f]
    BY <1>5 DEF LoadPermit, SeenBy, PermitsTypeOK
  <2>2. [permit[p] EXCEPT !.content = content].approver = permit[p].approver
    BY DEF PermitsTypeOK, PermitRow
  <2>3. edit'[e].permit = p /\ edit'[e].row.approver = permit[p].approver
    BY <1>5, <2>2 DEF LoadPermit, PermitsTypeOK
  <2>4. \A u \in Users : e # u
    BY PermitsAssumption
  <2> QED
    BY <2>1, <2>3, <2>4 DEF UnawareInv, UpdateUnaware, FormUnaware, Approved
<1>6. ASSUME NEW e \in Editors, SavePermit(e) PROVE UnawareInv'
  <2>1. UNCHANGED <<permit, approval, older>>
    BY <1>6 DEF SavePermit
  <2>2. \A p \in Permits : lockedBy'[p] \in {lockedBy[p], e}
    BY <1>6 DEF SavePermit, PermitsTypeOK
  <2>3. /\ edit'[e].permit = edit[e].permit /\ edit'[e].row = edit[e].row /\ edit[e] # NoEdit
        /\ \A f \in Editors : f # e => edit'[f] = edit[f]
    BY <1>6, Saved
  <2>4. \A u \in Users : e # u
    BY PermitsAssumption
  <2> QED
    BY <2>1, <2>2, <2>3, <2>4 DEF UnawareInv, UpdateUnaware, FormUnaware, Approved
<1>7. ASSUME NEW e \in Editors, CommitEdit(e) PROVE UnawareInv'
  <2>1. \A p \in Permits : lockedBy[p] # e => permit'[p] = permit[p]
    BY <1>7 DEF CommitEdit, LockInv, PermitsTypeOK
  <2>2. \A f \in Editors : edit'[f] # NoEdit => f # e /\ edit'[f] = edit[f]
    BY <1>7 DEF CommitEdit, PermitsTypeOK
  <2>3. \A u \in Users : approval'[u] # NoApproval => u # e /\ approval'[u] = approval[u]
    BY <1>7, PermitsAssumption DEF CommitEdit
  <2> QED
    BY <1>7, <2>1, <2>2, <2>3, CommitUnaware DEF CommitEdit
<1>8. ASSUME NEW e \in Editors, AbortEdit(e) PROVE UnawareInv'
  <2>1. UNCHANGED <<permit, approval, older>>
    BY <1>8 DEF AbortEdit
  <2>2. \A p \in Permits : lockedBy'[p] \in {lockedBy[p], Unlocked}
    BY <1>8 DEF AbortEdit, ReleasePermits
  <2>3. \A f \in Editors : edit'[f] # NoEdit => edit'[f] = edit[f]
    BY <1>8 DEF AbortEdit, PermitsTypeOK
  <2> QED
    BY <2>1, <2>2, <2>3, PermitsAssumption DEF UnawareInv, UpdateUnaware, FormUnaware, Approved
<1>9. CASE UNCHANGED permitVars
  BY <1>9 DEF permitVars, UnawareInv, UpdateUnaware, FormUnaware, Approved
<1> QED
  BY <1>1, <1>2, <1>3, <1>4, <1>5, <1>6, <1>7, <1>8, <1>9 DEF PermitsNext

-----------------------------------------------------------------------------
(* The theorems *)

IInv == PermitsTypeOK /\ ApprovalInv /\ LockInv /\ UnawareInv

LEMMA Invariance == PermitsSpec => []IInv
<1>1. PermitsInit => IInv
  BY InitTypeOK, InitApproval, InitLocks, InitUnaware DEF IInv
<1>2. IInv /\ [PermitsNext]_permitVars => IInv'
  BY NextTypeOK, NextApproval, NextLocks, NextUnaware DEF IInv
<1> QED
  BY <1>1, <1>2, PTL DEF PermitsSpec

(* Every approval on record is a supervisor's (safety/models.py,             *)
(* approved_by), whoever has the list open and whatever forms write back.    *)
THEOREM ApprovalsAreSupervisors == PermitsSpec => []ApproverIsSupervisor
<1>1. IInv => ApproverIsSupervisor
  BY DEF IInv, ApprovalInv
<1> QED
  BY <1>1, Invariance, PTL

(* An approval on record is replaced or removed by nobody who began after it *)
(* (safety/admin.py): only by a form or a scoped supervisor's UPDATE that    *)
(* was under way when it was given.                                          *)
THEOREM ApprovalsAreKept == PermitsSpec => ApproverKept
<1>1. IInv /\ [PermitsNext]_permitVars =>
        [\A p \in Permits : Approved(p) /\ permit'[p].approver # permit[p].approver =>
             \E r \in older[p] \ Unscoped : lockedBy[p] = r]_permitVars
  <2> SUFFICES ASSUME IInv, PermitsNext, NEW p \in Permits, Approved(p),
                      permit'[p].approver # permit[p].approver
               PROVE  \E r \in older[p] \ Unscoped : lockedBy[p] = r
    OBVIOUS
  <2> USE DEF IInv
  <2>1. ASSUME NEW u \in Users, CommitApproval(u) PROVE lockedBy[p] \in older[p] \ Unscoped
    <3>1. lockedBy[p] = u
      BY <2>1 DEF CommitApproval, PermitsTypeOK
    <3> QED
      BY <3>1 DEF UnawareInv, UpdateUnaware
  <2>2. ASSUME NEW e \in Editors, CommitEdit(e) PROVE lockedBy[p] \in older[p] \ Unscoped
    <3>1. edit[e] # NoEdit
      BY <2>2, NotIdle DEF CommitEdit
    <3>2. edit[e].permit = p /\ edit[e].row.approver # permit[p].approver
      BY <2>2 DEF CommitEdit, PermitsTypeOK
    <3>3. lockedBy[p] = e /\ e \in older[p]
      BY <2>2, <3>1, <3>2 DEF CommitEdit, LockInv, UnawareInv, FormUnaware
    <3> QED
      BY <3>3, PermitsAssumption
  <2>3. ASSUME NEW u \in Users,
               \/ AbortApproval(u) \/ \E S \in SUBSET Permits : Approve(u, S)
               \/ \E q \in Permits : ReachPermit(u, q)
        PROVE  FALSE
    BY <2>3 DEF AbortApproval, Approve, ReachPermit
  <2>4. ASSUME NEW e \in Editors,
               \/ SavePermit(e) \/ AbortEdit(e)
               \/ \E q \in Permits, content \in Contents : LoadPermit(e, q, content)
        PROVE  FALSE
    BY <2>4 DEF SavePermit, AbortEdit, LoadPermit
  <2> QED
    BY <2>1, <2>2, <2>3, <2>4 DEF PermitsNext
<1> QED
  BY <1>1, Invariance, PTL DEF PermitsSpec, ApproverKept
=============================================================================
