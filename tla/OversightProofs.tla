--------------------------- MODULE OversightProofs ---------------------------
(* For any work orders, saves, managers, sites and targets: what clears a    *)
(* missed response, what a mail of the digest names and the dashboard counts *)
(* whatever is saved while they are compiled, and that no visit is off the   *)
(* board.                                                                    *)
EXTENDS Oversight, FiniteSetTheorems, TLAPS

HasFirst(S) == S # {} => \E h \in S : \A k \in S : h <= k

(* A log has a first start, none of the future, and a save that will add one *)
(* has stamped it already.                                                   *)
LogInv == \A w \in Jobs : /\ HasFirst(starts[w])
                          /\ \A h \in starts[w] : h <= now
                          /\ ~Exists(w) => starts[w] = {}
SavesInv == \A r \in Saves : saves[r] # NoSave => saves[r].at <= now /\ Exists(saves[r].job)

-----------------------------------------------------------------------------
LEMMA InitTypeOK == OversightInit => OversightTypeOK
BY OversightAssumption DEF OversightInit, OversightTypeOK, Job, NoSave, NoReader

LEMMA SitesOfUser == ASSUME OversightTypeOK, NEW u \in Managers
                     PROVE  AccessibleSites(u) \in SUBSET Sites
<1>1. UserGroups[u] \subseteq Groups
  BY DEF Groups
<1> QED
  BY <1>1 DEF AccessibleSites, OversightTypeOK

(* The fields of a reader at each of its places, and of a save under way.    *)
LEMMA Places == ASSUME OversightTypeOK
                PROVE  /\ reader.pc = "next" => reader \in AtNext
                       /\ reader.pc = "sites" => reader \in AtSites
                       /\ reader.pc = "logs" => \E S \in SUBSET Jobs : reader \in AtLogs(S)
BY DEF OversightTypeOK, NoReader, AtNext, AtSites, AtLogs

LEMMA UnderWay == ASSUME OversightTypeOK, NEW r \in Saves, saves[r] # NoSave
                  PROVE  saves[r] \in SaveInProgress
BY DEF OversightTypeOK

LEMMA StatusesAreVerdicts ==
    ASSUME NEW w, NEW j, NEW hour PROVE SlaStatuses(w, j, hour) \in SUBSET Verdicts
<1>1. ResponseStatus(w, j, hour) \in Verdicts
  BY DEF ResponseStatus, Waiting, Verdicts
<1>2. \A target : Waiting(j, hour, target) \in Verdicts
  BY DEF Waiting, Verdicts
<1> QED
  BY <1>1, <1>2 DEF SlaStatuses

LEMMA ReaderTypeOK == ASSUME OversightTypeOK, ReaderNext PROVE OversightTypeOK'
<1> USE DEF OversightTypeOK
<1>1. CASE StartReading(Managers) \/ \E u \in Managers : StartReading({u})
  BY <1>1 DEF StartReading, AtNext, workVars
<1>2. ASSUME NEW u \in Managers, ReadSites(u) PROVE OversightTypeOK'
  <2>1. reader \in AtNext
    BY <1>2, Places DEF ReadSites
  <2>2. reader' \in AtSites
    BY <1>2, <2>1, SitesOfUser DEF ReadSites, AtNext, AtSites
  <2> QED
    BY <1>2, <2>2 DEF ReadSites, workVars
<1>3. CASE ReadJobs
  <2> DEFINE found == OpenAt(reader.sites)
  <2>1. reader \in AtSites
    BY <1>3, Places DEF ReadJobs
  <2>2. found \in SUBSET Jobs
    BY DEF OpenAt
  <2>3. /\ [w \in found |-> job[w]] \in [found -> Job]
        /\ [w \in found |-> {}] \in [found -> SUBSET Verdicts]
        /\ [w \in found |-> starts[w]] \in [found -> SUBSET Nat]
    <3> HIDE DEF found
    <3> QED
      BY <2>2
  <2>4. reader' = [pc |-> "logs", left |-> reader.left, rows |-> [w \in found |-> job[w]],
                   toCheck |-> found, outcome |-> [w \in found |-> {}],
                   since |-> now, logs |-> [w \in found |-> starts[w]]]
    BY <1>3 DEF ReadJobs
  <2>5. reader' \in AtLogs(found)
    <3> HIDE DEF found
    <3> QED
      BY <2>1, <2>3, <2>4 DEF AtSites, AtLogs
  <2> HIDE DEF found
  <2> QED
    BY <1>3, <2>2, <2>5 DEF ReadJobs, workVars
<1>4. ASSUME NEW w \in Jobs, NEW hour \in 0..now, CheckJob(w, hour) PROVE OversightTypeOK'
  <2>1. PICK S \in SUBSET Jobs : reader \in AtLogs(S)
    BY <1>4, Places DEF CheckJob
  <2>2. SlaStatuses(w, reader.rows[w], hour) \in SUBSET Verdicts
    BY StatusesAreVerdicts
  <2>3. reader' \in AtLogs(S)
    BY <1>4, <2>1, <2>2 DEF CheckJob, AtLogs
  <2> QED
    BY <1>4, <2>3 DEF CheckJob, workVars
<1>5. CASE ReportFound
  <2>1. PICK S \in SUBSET Jobs : reader \in AtLogs(S)
    BY <1>5, Places DEF ReportFound
  <2> QED
    BY <1>5, <2>1 DEF ReportFound, AtLogs, AtNext, workVars
<1>6. CASE EndReading \/ KillReader
  BY <1>6 DEF EndReading, KillReader, workVars
<1> QED
  BY <1>1, <1>2, <1>3, <1>4, <1>5, <1>6 DEF ReaderNext

LEMMA SaveTypeOK == ASSUME OversightTypeOK, NEW r \in Saves, SaveNext(r) PROVE OversightTypeOK'
<1> USE DEF OversightTypeOK
<1>1. ASSUME NEW w \in Jobs, NEW status \in JobStatuses, BeginSave(r, w, status)
      PROVE  OversightTypeOK'
  BY <1>1 DEF BeginSave, SaveInProgress
<1>2. ASSUME saves[r].pc \in {"write", "stamp", "end"}
      PROVE  /\ saves[r] \in SaveInProgress
             /\ \A p \in {"stamp", "end"} : [saves[r] EXCEPT !.pc = p] \in SaveInProgress
             /\ [saves[r] EXCEPT !.pc = "end", !.at = now] \in SaveInProgress
             /\ [job EXCEPT ![saves[r].job].status = saves[r].status] \in [Jobs -> Job]
  <2>1. saves[r] \in SaveInProgress
    BY <1>2, UnderWay DEF NoSave
  <2>2. [job[saves[r].job] EXCEPT !.status = saves[r].status] \in Job
    BY <2>1 DEF SaveInProgress, Job
  <2> QED
    BY <2>1, <2>2 DEF SaveInProgress
<1>3. CASE WriteJob(r)
  BY <1>2, <1>3 DEF WriteJob
<1>4. CASE StampStart(r)
  BY <1>2, <1>4 DEF StampStart
<1>5. CASE EndSave(r)
  <2>1. saves[r] \in SaveInProgress
    BY <1>2, <1>5 DEF EndSave
  <2>2. starts' \in [Jobs -> SUBSET Nat]
    BY <1>5, <2>1 DEF EndSave, SaveInProgress
  <2> QED
    BY <1>2, <1>5, <2>2 DEF EndSave
<1>6. CASE AbortSave(r)
  BY <1>6 DEF AbortSave
<1> QED
  BY <1>1, <1>3, <1>4, <1>5, <1>6 DEF SaveNext

LEMMA NextTypeOK == OversightTypeOK /\ [OversightNext]_oversightVars => OversightTypeOK'
<1> SUFFICES ASSUME OversightTypeOK, [OversightNext]_oversightVars PROVE OversightTypeOK'
  OBVIOUS
<1> USE DEF OversightTypeOK
<1>1. CASE HourPasses
  BY <1>1 DEF HourPasses
<1>2. ASSUME NEW w \in Jobs, NEW status \in JobStatuses, NEW created \in 0..now,
             NEW started \in 0..now, ReportJob(w, status, created, started)
      PROVE  OversightTypeOK'
  <2>1. [status |-> status, created |-> created] \in Job
    BY DEF Job
  <2> QED
    BY <1>2, <2>1 DEF ReportJob
<1>3. ASSUME NEW who \in Assignable, NEW s \in Sites, AssignSite(who, s) PROVE OversightTypeOK'
  BY <1>3, OversightAssumption DEF AssignSite, workVars
<1>4. CASE UNCHANGED oversightVars
  BY <1>4 DEF oversightVars, workVars
<1> QED
  BY <1>1, <1>2, <1>3, <1>4, SaveTypeOK, ReaderTypeOK DEF OversightNext

-----------------------------------------------------------------------------
(* What a step does to the clock, the rows and the logs: the only line it    *)
(* adds to the log of a work order there is, is that of a save that ends.    *)
Logs(r, w) == /\ saves[r].pc = "end" /\ saves[r].job = w /\ EndSave(r) /\ saves[r].begins
              /\ starts'[w] = starts[w] \cup {saves[r].at}
Grows == /\ now <= now'
         /\ \A w \in Jobs : Exists(w) =>
                /\ Exists(w)' /\ job'[w].created = job[w].created
                /\ starts'[w] = starts[w] \/ \E r \in Saves : Logs(r, w)

LEMMA StepGrows == OversightTypeOK /\ [OversightNext]_oversightVars => Grows
<1> SUFFICES ASSUME OversightTypeOK, [OversightNext]_oversightVars PROVE Grows
  OBVIOUS
<1> USE DEF OversightTypeOK
<1>1. CASE UNCHANGED <<job, starts>> /\ (now' = now \/ HourPasses)
  BY <1>1 DEF Grows, HourPasses, Exists
<1>2. ASSUME NEW w \in Jobs, NEW status \in JobStatuses, NEW created \in 0..now,
             NEW started \in 0..now, ReportJob(w, status, created, started)
      PROVE  Grows
  BY <1>2 DEF ReportJob, Grows, Exists
<1>3. ASSUME NEW r \in Saves, WriteJob(r) PROVE Grows
  <2>1. saves[r] \in SaveInProgress
    BY <1>3, UnderWay DEF WriteJob, NoSave
  <2>2. \A w \in Jobs : job'[w].created = job[w].created /\ (Exists(w) => Exists(w)')
    BY <1>3, <2>1 DEF WriteJob, SaveInProgress, Job, JobStatuses, Exists
  <2> QED
    BY <1>3, <2>2 DEF WriteJob, Grows
<1>4. ASSUME NEW r \in Saves, EndSave(r) PROVE Grows
  <2>1. saves[r] \in SaveInProgress
    BY <1>4, UnderWay DEF EndSave, NoSave
  <2>2. \A w \in Jobs : job'[w].created = job[w].created /\ (Exists(w) => Exists(w)')
    BY <1>4, <2>1 DEF EndSave, SaveInProgress, Job, JobStatuses, Exists
  <2>3. ASSUME NEW w \in Jobs, starts'[w] # starts[w] PROVE Logs(r, w)
    BY <1>4, <2>1, <2>3 DEF EndSave, SaveInProgress, Logs
  <2>4. now' = now
    BY <1>4 DEF EndSave
  <2> QED
    BY <2>2, <2>3, <2>4 DEF Grows
<1>5. ASSUME NEW r \in Saves, SaveNext(r) PROVE WriteJob(r) \/ EndSave(r) \/ UNCHANGED <<now, job, starts>>
  BY <1>5 DEF SaveNext, BeginSave, StampStart, AbortSave
<1>6. ASSUME ReaderNext PROVE UNCHANGED workVars
  BY <1>6 DEF ReaderNext, StartReading, ReadSites, ReadJobs, CheckJob, ReportFound, EndReading, KillReader
<1>7. ASSUME NEW who \in Assignable, NEW s \in Sites, AssignSite(who, s) PROVE UNCHANGED workVars
  BY <1>7 DEF AssignSite
<1>8. CASE HourPasses
  BY <1>1, <1>8 DEF HourPasses
<1>9. CASE UNCHANGED oversightVars
  BY <1>1, <1>9 DEF oversightVars, workVars
<1> QED
  BY <1>1, <1>2, <1>3, <1>4, <1>5, <1>6, <1>7, <1>8, <1>9 DEF OversightNext, workVars

-----------------------------------------------------------------------------
LEMMA InitLog == OversightInit => LogInv /\ SavesInv
BY DEF OversightInit, LogInv, SavesInv, HasFirst, Exists

(* One more start leaves a log with a first one. *)
LEMMA FirstOfMore == ASSUME NEW S \in SUBSET Nat, NEW t \in Nat, HasFirst(S)
                     PROVE  HasFirst(S \cup {t})
<1>1. CASE S = {}
  BY <1>1 DEF HasFirst
<1>2. CASE S # {}
  <2>1. PICK h \in S : \A k \in S : h <= k
    BY <1>2 DEF HasFirst
  <2> DEFINE m == IF t <= h THEN t ELSE h
  <2>2. m \in S \cup {t} /\ \A k \in S \cup {t} : m <= k
    BY <2>1
  <2> QED
    BY <2>2 DEF HasFirst
<1> QED
  BY <1>1, <1>2

LEMMA NextLog ==
    ASSUME OversightTypeOK, OversightTypeOK', LogInv, SavesInv, [OversightNext]_oversightVars
    PROVE  LogInv'
<1> SUFFICES ASSUME NEW w \in Jobs
             PROVE  /\ HasFirst(starts'[w])
                    /\ \A h \in starts'[w] : h <= now'
                    /\ ~Exists(w)' => starts'[w] = {}
  BY DEF LogInv, HasFirst
<1> USE DEF OversightTypeOK
<1>0. Grows
  BY StepGrows
<1>1. CASE starts'[w] = starts[w] /\ (Exists(w) => Exists(w)')
  BY <1>0, <1>1 DEF LogInv, Grows
<1>2. CASE Exists(w) /\ \E r \in Saves : Logs(r, w)
  <2>1. PICK r \in Saves : Logs(r, w)
    BY <1>2
  <2>2. saves[r] \in SaveInProgress
    BY <2>1, UnderWay DEF Logs, NoSave
  <2>3. saves[r].at \in Nat /\ saves[r].at <= now /\ now' = now
    BY <2>1, <2>2 DEF SavesInv, Logs, EndSave, SaveInProgress, NoSave
  <2>4. Exists(w)'
    BY <1>0, <1>2 DEF Grows
  <2>5. starts'[w] = starts[w] \cup {saves[r].at} /\ starts[w] \in SUBSET Nat
    BY <2>1 DEF Logs
  <2>6. HasFirst(starts'[w])
    BY <2>3, <2>5, FirstOfMore DEF LogInv
  <2> QED
    BY <2>3, <2>4, <2>5, <2>6 DEF LogInv
<1>3. CASE ~Exists(w)
  <2>1. ASSUME NEW v \in Jobs, NEW status \in JobStatuses, NEW created \in 0..now,
               NEW started \in 0..now, ReportJob(v, status, created, started), v = w
        PROVE  /\ starts'[w] = {started} \/ starts'[w] = {}
               /\ Exists(w)' /\ now' = now /\ started \in Nat
    BY <2>1 DEF ReportJob, Exists, JobStatuses
  <2>2. ASSUME NEW v \in Jobs, NEW status \in JobStatuses, NEW created \in 0..now,
               NEW started \in 0..now, ReportJob(v, status, created, started)
        PROVE  starts'[w] = starts[w] \/ v = w
    BY <2>2 DEF ReportJob
  <2>3. ASSUME NEW r \in Saves, SaveNext(r) PROVE starts'[w] = starts[w]
    <3>1. CASE EndSave(r)
      <4>1. saves[r] \in SaveInProgress
        BY <3>1, UnderWay DEF EndSave, NoSave
      <4>2. saves[r].job \in Jobs /\ saves[r].job # w
        BY <1>3, <4>1 DEF SaveInProgress, SavesInv, NoSave
      <4> QED
        BY <3>1, <4>2 DEF EndSave
    <3> QED
      BY <2>3, <3>1 DEF SaveNext, BeginSave, WriteJob, StampStart, AbortSave
  <2>4. ASSUME ReaderNext PROVE starts' = starts
    BY <2>4 DEF ReaderNext, StartReading, ReadSites, ReadJobs, CheckJob, ReportFound, EndReading,
                KillReader, workVars
  <2>5. CASE starts'[w] = starts[w]
    BY <1>1, <1>3, <2>5
  <2>6. CASE \E v \in Jobs, status \in JobStatuses, created, started \in 0..now :
                 v = w /\ ReportJob(v, status, created, started)
    BY <2>1, <2>6 DEF HasFirst
  <2> QED
    BY <2>2, <2>3, <2>4, <2>5, <2>6
       DEF OversightNext, HourPasses, AssignSite, oversightVars, workVars
<1> QED
  BY <1>0, <1>1, <1>2, <1>3 DEF Grows

LEMMA NextSaves ==
    ASSUME OversightTypeOK, OversightTypeOK', SavesInv, [OversightNext]_oversightVars
    PROVE  SavesInv'
<1> SUFFICES ASSUME NEW r \in Saves, saves'[r] # NoSave
             PROVE  saves'[r].at <= now' /\ job'[saves'[r].job].status # "none"
  BY DEF SavesInv, Exists
<1> USE DEF OversightTypeOK
<1>0. Grows
  BY StepGrows
<1>1. CASE saves'[r] = saves[r]
  <2>1. saves[r] \in SaveInProgress
    BY <1>1, UnderWay
  <2>2. saves[r].at <= now' /\ saves[r].job \in Jobs /\ Exists(saves[r].job)
    BY <1>0, <1>1, <2>1 DEF SavesInv, Grows, SaveInProgress
  <2>4. job'[saves[r].job].status # "none"
    BY <1>0, <2>2 DEF Grows, Exists
  <2> QED
    BY <1>1, <2>2, <2>4 DEF Exists
<1>2. ASSUME NEW w \in Jobs, NEW status \in JobStatuses, BeginSave(r, w, status)
      PROVE  saves'[r].at <= now' /\ job'[saves'[r].job].status # "none"
  BY <1>2 DEF BeginSave, Exists
<1>3. ASSUME WriteJob(r) \/ StampStart(r)
      PROVE  saves'[r].at <= now' /\ job'[saves'[r].job].status # "none"
  <2>1. saves[r] \in SaveInProgress /\ saves[r] # NoSave
    BY <1>3, UnderWay DEF WriteJob, StampStart, NoSave
  <2>2. saves'[r].job = saves[r].job /\ saves'[r].at \in {saves[r].at, now} /\ now' = now
    BY <1>3, <2>1 DEF WriteJob, StampStart, SaveInProgress
  <2>3. saves[r].at <= now /\ saves[r].job \in Jobs /\ Exists(saves[r].job)
    BY <2>1 DEF SavesInv, SaveInProgress
  <2>4. job'[saves[r].job].status # "none"
    BY <1>0, <2>3 DEF Grows, Exists
  <2> QED
    BY <2>2, <2>3, <2>4 DEF Exists
<1>4. ASSUME EndSave(r) \/ AbortSave(r) PROVE FALSE
  BY <1>4 DEF EndSave, AbortSave
<1>5. ASSUME NEW q \in Saves, q # r, SaveNext(q) PROVE saves'[r] = saves[r]
  BY <1>5 DEF SaveNext, BeginSave, WriteJob, StampStart, EndSave, AbortSave
<1>6. ASSUME ReaderNext PROVE saves' = saves
  BY <1>6 DEF ReaderNext, StartReading, ReadSites, ReadJobs, CheckJob, ReportFound, EndReading,
              KillReader, workVars
<1> QED
  BY <1>1, <1>2, <1>3, <1>4, <1>5, <1>6
     DEF OversightNext, SaveNext, HourPasses, ReportJob, AssignSite, oversightVars, workVars

-----------------------------------------------------------------------------
(* FirstStart(w) and FirstStart(w)' are both of this form.                   *)
LEMMA FirstIsLeast ==
    ASSUME NEW S, HasFirst(S), S # {}
    PROVE  LET m == CHOOSE h \in S : \A k \in S : h <= k
           IN  m \in S /\ \A k \in S : m <= k
BY DEF HasFirst

(* What the status of a response says of the log.                            *)
InTime(S, due) == \E h \in S : h <= due
Judged(S, created, target, hour) ==
    IF S = {} THEN IF hour - created > target THEN "overdue" ELSE "pending"
    ELSE IF (CHOOSE h \in S : \A k \in S : h <= k) - created > target THEN "breached" ELSE "met"
LEMMA ResponseSays ==
    ASSUME NEW S \in SUBSET Nat, HasFirst(S), NEW created \in Nat, NEW target \in Nat,
           NEW hour \in Nat
    PROVE  LET status == Judged(S, created, target, hour)
           IN  /\ status = "met" <=> InTime(S, created + target)
               /\ status = "breached" <=> S # {} /\ ~InTime(S, created + target)
               /\ status = "overdue" <=> S = {} /\ hour > created + target
<1> DEFINE status == Judged(S, created, target, hour)
           m == CHOOSE h \in S : \A k \in S : h <= k
<1>1. CASE S = {}
  BY <1>1 DEF InTime, Judged
<1>2. CASE S # {}
  <2>1. m \in S /\ \A k \in S : m <= k
    BY <1>2, FirstIsLeast
  <2>2. status = IF m - created > target THEN "breached" ELSE "met"
    BY <1>2 DEF Judged
  <2>3. m \in Nat
    BY <2>1
  <2> HIDE DEF m, status
  <2>4. m - created > target <=> ~InTime(S, created + target)
    BY <2>1, <2>3 DEF InTime
  <2> QED
    BY <1>2, <2>2, <2>4 DEF status
<1> QED
  BY <1>1, <1>2

LEMMA ClearedOnlyInTime ==
    ASSUME OversightTypeOK, OversightTypeOK', LogInv, LogInv', Grows,
           NEW w \in Jobs, Exists(w), Response[w] # NoTarget
    PROVE  LET was == ResponseStatus(w, job[w], now)
               is == ResponseStatus(w, job[w], now)'
           IN  /\ was = "met" => is = "met"
               /\ was \in {"breached", "overdue"} =>
                      is \in {"breached", "overdue"} \/ \E r \in Saves : ClearedBy(r, w)
<1> DEFINE was == ResponseStatus(w, job[w], now)
           is == ResponseStatus(w, job[w], now)'
           due == job[w].created + Response[w]
<1>1. /\ Response[w] \in Nat /\ job[w].created \in Nat /\ now \in Nat /\ now' \in Nat
      /\ starts[w] \in SUBSET Nat /\ starts'[w] \in SUBSET Nat /\ now <= now'
      /\ job'[w].created = job[w].created
  BY OversightAssumption DEF OversightTypeOK, Job, Grows
<1>2. HasFirst(starts[w]) /\ HasFirst(starts'[w])
  BY DEF LogInv, HasFirst
<1>3. /\ was = "met" <=> InTime(starts[w], due)
      /\ was = "breached" <=> starts[w] # {} /\ ~InTime(starts[w], due)
      /\ was = "overdue" <=> starts[w] = {} /\ now > due
  <2>1. was = Judged(starts[w], job[w].created, Response[w], now)
    BY DEF ResponseStatus, Waiting, FirstStart, Judged
  <2> HIDE DEF was
  <2>2. LET status == Judged(starts[w], job[w].created, Response[w], now)
        IN  /\ status = "met" <=> InTime(starts[w], job[w].created + Response[w])
            /\ status = "breached" <=>
                   starts[w] # {} /\ ~InTime(starts[w], job[w].created + Response[w])
            /\ status = "overdue" <=> starts[w] = {} /\ now > job[w].created + Response[w]
    BY <1>1, <1>2, ResponseSays
  <2> QED
    BY <2>1, <2>2
<1>4. /\ is = "met" <=> InTime(starts'[w], due)
      /\ is = "breached" <=> starts'[w] # {} /\ ~InTime(starts'[w], due)
      /\ is = "overdue" <=> starts'[w] = {} /\ now' > due
  <2>1. is = Judged(starts'[w], job[w].created, Response[w], now')
    BY <1>1 DEF ResponseStatus, Waiting, FirstStart, Judged
  <2> HIDE DEF is
  <2>2. LET status == Judged(starts'[w], job[w].created, Response[w], now')
        IN  /\ status = "met" <=> InTime(starts'[w], job[w].created + Response[w])
            /\ status = "breached" <=>
                   starts'[w] # {} /\ ~InTime(starts'[w], job[w].created + Response[w])
            /\ status = "overdue" <=> starts'[w] = {} /\ now' > job[w].created + Response[w]
    BY <1>1, <1>2, ResponseSays
  <2> QED
    BY <2>1, <2>2
<1>5. due \in Nat
  BY <1>1
<1> HIDE DEF was, is
<1>6. CASE starts'[w] = starts[w]
  <2> HIDE DEF due
  <2> QED
    BY <1>1, <1>3, <1>4, <1>5, <1>6 DEF was, is
<1>7. ASSUME NEW r \in Saves, Logs(r, w)
      PROVE  /\ was = "met" => is = "met"
             /\ was \in {"breached", "overdue"} =>
                    is \in {"breached", "overdue"} \/ ClearedBy(r, w)
  <2>1. starts'[w] = starts[w] \cup {saves[r].at}
    BY <1>7 DEF Logs
  <2>2. saves[r].at <= due => ClearedBy(r, w)
    BY <1>7 DEF Logs, ClearedBy, Due
  <2> HIDE DEF due
  <2>3. InTime(starts'[w], due) => InTime(starts[w], due) \/ saves[r].at <= due
    BY <2>1 DEF InTime
  <2>4. InTime(starts[w], due) => InTime(starts'[w], due)
    BY <2>1 DEF InTime
  <2> QED
    BY <1>3, <1>4, <2>1, <2>2, <2>3, <2>4
<1> QED
  BY <1>6, <1>7 DEF Grows, was, is

-----------------------------------------------------------------------------
(* Of the rows that have been checked: what is late by all that is on record *)
(* was judged a breach, and what was judged one is late by what was on       *)
(* record when the rows were read, all of which still is.                    *)
ReaderInv == reader.pc = "logs" =>
    /\ reader.since <= now
    /\ \A w \in DOMAIN reader.rows : Exists(w) /\ reader.logs[w] \subseteq starts[w]
    /\ \A w \in DOMAIN reader.rows \ reader.toCheck :
          /\ LateBy(starts[w], w, reader.rows[w], reader.since) => IsBreach(reader.outcome[w])
          /\ IsBreach(reader.outcome[w]) => LateBy(reader.logs[w], w, reader.rows[w], now)

(* Late by a log and an hour is late by a smaller log and a later hour.      *)
LEMMA LateStays ==
    ASSUME NEW w \in Jobs, NEW j \in Job, NEW log, NEW smaller, smaller \subseteq log,
           NEW h \in Nat, NEW later \in Nat, h <= later, LateBy(log, w, j, h)
    PROVE  LateBy(smaller, w, j, later)
<1>1. \A target : target \in Nat /\ Overran(j, h, target) => Overran(j, later, target)
  BY DEF Overran, Job
<1> QED
  BY <1>1, OversightAssumption DEF LateBy, Overran

(* The test of the digest, at the moment it is made. *)
LEMMA BreachIsLate ==
    ASSUME OversightTypeOK, LogInv, NEW w \in Jobs, NEW j \in Job, NEW hour \in Nat,
           hour <= now, NEW log \in SUBSET starts[w]
    PROVE  /\ LateBy(starts[w], w, j, hour) => IsBreach(SlaStatuses(w, j, hour))
           /\ IsBreach(SlaStatuses(w, j, hour)) => LateBy(log, w, j, now)
<1> DEFINE late(status) == status \in {"breached", "overdue"}
           response == Response[w] # NoTarget /\ late(ResponseStatus(w, j, hour))
           resolution == Resolution[w] # NoTarget /\ late(Waiting(j, hour, Resolution[w]))
<1>1. IsBreach(SlaStatuses(w, j, hour)) <=> response \/ resolution
  BY DEF IsBreach, SlaStatuses
<1>2. now \in Nat /\ j.created \in Nat /\ starts[w] \in SUBSET Nat
  BY DEF OversightTypeOK, Job
<1>3. resolution <=> Overran(j, hour, Resolution[w])
  <2>1. CASE Resolution[w] = NoTarget
    BY <2>1 DEF Overran
  <2>2. CASE Resolution[w] \in Nat
    BY <1>2, <2>2, OversightAssumption DEF Overran, Waiting
  <2> QED
    BY <2>1, <2>2, OversightAssumption
<1>4. CASE Response[w] = NoTarget
  <2>1. ~response
    BY <1>4
  <2>2. \A h : Overran(j, h, Response[w]) = FALSE
    BY <1>4 DEF Overran
  <2>3. Overran(j, hour, Resolution[w]) => Overran(j, now, Resolution[w])
    BY <1>2, OversightAssumption DEF Overran
  <2> HIDE DEF response, resolution
  <2> QED
    BY <1>1, <1>3, <2>1, <2>2, <2>3 DEF LateBy
<1>5. CASE Response[w] \in Nat
  <2> DEFINE due == j.created + Response[w]
  <2>1. Response[w] # NoTarget /\ due \in Nat
    BY <1>2, <1>5, OversightAssumption
  <2>2. response <=> IF starts[w] = {} THEN hour > due ELSE ~InTime(starts[w], due)
    <3>1. HasFirst(starts[w])
      BY DEF LogInv
    <3>2. ResponseStatus(w, j, hour) = Judged(starts[w], j.created, Response[w], hour)
      BY DEF ResponseStatus, Waiting, FirstStart, Judged
    <3> DEFINE status == ResponseStatus(w, j, hour)
    <3>3. /\ status = "met" <=> InTime(starts[w], due)
          /\ status = "breached" <=> starts[w] # {} /\ ~InTime(starts[w], due)
          /\ status = "overdue" <=> starts[w] = {} /\ hour > due
      <4> HIDE DEF status
      <4> QED
        BY <1>2, <1>5, <3>1, <3>2, ResponseSays DEF status
    <3> QED
      BY <2>1, <3>3
  <2>3. /\ Overran(j, hour, Response[w]) <=> hour > due
        /\ Overran(j, now, Response[w]) <=> now > due
    BY <2>1 DEF Overran
  <2>4. /\ (\A h \in starts[w] : h > due) <=> ~InTime(starts[w], due)
        /\ (\A h \in starts[w] : h > due) => \A h \in log : h > due
    <3> HIDE DEF due
    <3> QED
      BY <1>2, <2>1 DEF InTime
  <2>5. hour > due => now > due
    <3> HIDE DEF due
    <3> QED
      BY <1>2, <2>1
  <2>6. starts[w] # {} /\ ~InTime(starts[w], due) => now > due
    <3> HIDE DEF due
    <3>1. \A h \in starts[w] : h <= now
      BY DEF LogInv
    <3> QED
      BY <1>2, <2>1, <3>1 DEF InTime
  <2>7. starts[w] = {} => ~InTime(starts[w], due)
    BY DEF InTime
  <2>8. Overran(j, hour, Resolution[w]) => Overran(j, now, Resolution[w])
    BY <1>2, OversightAssumption DEF Overran
  <2>9. \A S, h : LateBy(S, w, j, h) <=>
            \/ Overran(j, h, Response[w]) /\ \A k \in S : k > due
            \/ Overran(j, h, Resolution[w])
    BY DEF LateBy
  <2> HIDE DEF response, resolution, due
  <2> QED
    BY <1>1, <1>3, <2>2, <2>3, <2>4, <2>5, <2>6, <2>7, <2>8, <2>9
<1> QED
  BY <1>4, <1>5, OversightAssumption

LEMMA RowsAreRows ==
    ASSUME OversightTypeOK, reader.pc = "logs"
    PROVE  /\ DOMAIN reader.rows \subseteq Jobs /\ reader.since \in Nat
           /\ reader.toCheck \subseteq DOMAIN reader.rows
           /\ DOMAIN reader.logs = DOMAIN reader.rows
           /\ DOMAIN reader.outcome = DOMAIN reader.rows
           /\ \A w \in DOMAIN reader.rows : reader.rows[w] \in Job
<1>1. PICK S \in SUBSET Jobs : reader \in AtLogs(S)
  BY Places
<1> QED
  BY <1>1 DEF AtLogs

LEMMA InitReader == OversightInit => ReaderInv
BY DEF OversightInit, ReaderInv, NoReader

(* The world goes on while the reader rests. *)
LEMMA WorldKeepsReader ==
    ASSUME OversightTypeOK, OversightTypeOK', ReaderInv, Grows, UNCHANGED reader
    PROVE  ReaderInv'
<1> SUFFICES ASSUME reader.pc = "logs" PROVE ReaderInv'
  BY DEF ReaderInv
<1>1. now \in Nat /\ now' \in Nat /\ now <= now' /\ reader.since <= now /\ reader.since \in Nat
  BY RowsAreRows DEF OversightTypeOK, Grows, ReaderInv
<1>2. ASSUME NEW w \in DOMAIN reader.rows
      PROVE  /\ w \in Jobs /\ reader.rows[w] \in Job
             /\ job'[w].status # "none" /\ starts[w] \subseteq starts'[w]
             /\ reader.logs[w] \subseteq starts'[w]
  <2>1. w \in Jobs /\ Exists(w) /\ reader.rows[w] \in Job /\ reader.logs[w] \subseteq starts[w]
    BY RowsAreRows DEF ReaderInv
  <2> QED
    BY <2>1 DEF Grows, Logs, Exists
<1>3. ASSUME NEW w \in DOMAIN reader.rows
      PROVE  /\ LateBy(starts'[w], w, reader.rows[w], reader.since) =>
                    LateBy(starts[w], w, reader.rows[w], reader.since)
             /\ LateBy(reader.logs[w], w, reader.rows[w], now) =>
                    LateBy(reader.logs[w], w, reader.rows[w], now')
  <2>1. w \in Jobs /\ reader.rows[w] \in Job /\ starts[w] \subseteq starts'[w]
    BY <1>2
  <2>2. LateBy(starts'[w], w, reader.rows[w], reader.since) =>
            LateBy(starts[w], w, reader.rows[w], reader.since)
    BY <1>1, <2>1, LateStays
  <2>3. LateBy(reader.logs[w], w, reader.rows[w], now) =>
            LateBy(reader.logs[w], w, reader.rows[w], now')
    BY <1>1, <2>1, LateStays
  <2> QED
    BY <2>2, <2>3
<1>4. reader.since <= now'
  BY <1>1
<1>5. ASSUME NEW w \in DOMAIN reader.rows \ reader.toCheck
      PROVE  /\ LateBy(starts'[w], w, reader.rows[w], reader.since) => IsBreach(reader.outcome[w])
             /\ IsBreach(reader.outcome[w]) => LateBy(reader.logs[w], w, reader.rows[w], now')
  BY <1>3 DEF ReaderInv
<1>6. /\ reader'.since <= now'
      /\ \A w \in DOMAIN reader'.rows :
            job'[w].status # "none" /\ reader'.logs[w] \subseteq starts'[w]
      /\ \A w \in DOMAIN reader'.rows \ reader'.toCheck :
            /\ LateBy(starts'[w], w, reader'.rows[w], reader'.since) => IsBreach(reader'.outcome[w])
            /\ IsBreach(reader'.outcome[w]) => LateBy(reader'.logs[w], w, reader'.rows[w], now')
  BY <1>2, <1>4, <1>5
<1> QED
  BY <1>6 DEF ReaderInv, Exists, LateBy, IsBreach, Overran

LEMMA CheckKeepsReader ==
    ASSUME OversightTypeOK, OversightTypeOK', LogInv, ReaderInv,
           NEW w \in Jobs, NEW hour \in 0..now, CheckJob(w, hour)
    PROVE  ReaderInv'
<1> DEFINE row == reader.rows[w]
<1>1. /\ reader.pc = "logs" /\ w \in reader.toCheck /\ w \in DOMAIN reader.rows /\ row \in Job
      /\ reader.since \in Nat /\ reader.since <= hour /\ hour \in Nat /\ hour <= now /\ now \in Nat
  BY RowsAreRows DEF CheckJob, OversightTypeOK
<1>2. reader.logs[w] \in SUBSET starts[w]
  BY <1>1 DEF ReaderInv
<1>3. /\ LateBy(starts[w], w, row, hour) => IsBreach(SlaStatuses(w, row, hour))
      /\ IsBreach(SlaStatuses(w, row, hour)) => LateBy(reader.logs[w], w, row, now)
  BY <1>1, <1>2, BreachIsLate
<1>4. LateBy(starts[w], w, row, reader.since) => LateBy(starts[w], w, row, hour)
  BY <1>1, LateStays
<1>5. /\ reader'.rows = reader.rows /\ reader'.since = reader.since /\ reader'.logs = reader.logs
      /\ reader'.toCheck = reader.toCheck \ {w}
      /\ reader'.outcome[w] = SlaStatuses(w, row, hour)
      /\ \A v \in DOMAIN reader.rows : v # w => reader'.outcome[v] = reader.outcome[v]
      /\ UNCHANGED <<now, job, starts>>
  <2>1. PICK S \in SUBSET Jobs : reader \in AtLogs(S)
    BY <1>1, Places
  <2>2. w \in S /\ DOMAIN reader.outcome = S
    BY <1>1, <2>1 DEF AtLogs
  <2> QED
    BY <2>1, <2>2 DEF CheckJob, AtLogs, workVars
<1>6. /\ reader'.since <= now'
      /\ \A v \in DOMAIN reader'.rows :
            job'[v].status # "none" /\ reader'.logs[v] \subseteq starts'[v]
  BY <1>1, <1>5 DEF ReaderInv, Exists
<1>7. ASSUME NEW v \in DOMAIN reader'.rows \ reader'.toCheck
      PROVE  /\ LateBy(starts'[v], v, reader'.rows[v], reader'.since) => IsBreach(reader'.outcome[v])
             /\ IsBreach(reader'.outcome[v]) => LateBy(reader'.logs[v], v, reader'.rows[v], now')
  <2>1. CASE v = w
    BY <1>3, <1>4, <1>5, <2>1
  <2>2. CASE v # w
    BY <1>1, <1>5, <1>7, <2>2 DEF ReaderInv
  <2> QED
    BY <2>1, <2>2
<1> QED
  BY <1>6, <1>7 DEF ReaderInv, Exists, LateBy, IsBreach, Overran

LEMMA NextReader ==
    ASSUME OversightTypeOK, OversightTypeOK', LogInv, ReaderInv, [OversightNext]_oversightVars
    PROVE  ReaderInv'
<1>1. CASE UNCHANGED reader
  BY <1>1, StepGrows, WorldKeepsReader
<1>2. CASE ReadJobs
  <2>1. /\ reader'.since = now /\ reader'.toCheck = OpenAt(reader.sites)
        /\ reader'.rows = [w \in OpenAt(reader.sites) |-> job[w]]
        /\ reader'.logs = [w \in OpenAt(reader.sites) |-> starts[w]]
        /\ UNCHANGED <<now, job, starts>>
    BY <1>2 DEF ReadJobs, workVars
  <2>2. \A w \in OpenAt(reader.sites) : job[w].status # "none"
    BY DEF OpenAt, Exists
  <2> QED
    BY <2>1, <2>2 DEF ReaderInv, OversightTypeOK, Exists
<1>3. ASSUME NEW w \in Jobs, NEW hour \in 0..now, CheckJob(w, hour) PROVE ReaderInv'
  BY <1>3, CheckKeepsReader
<1>4. CASE \/ StartReading(Managers) \/ \E u \in Managers : StartReading({u}) \/ ReadSites(u)
           \/ ReportFound \/ EndReading \/ KillReader
  BY <1>4 DEF StartReading, ReadSites, ReportFound, EndReading, KillReader, NoReader, ReaderInv
<1>5. UNCHANGED reader \/ ReaderNext
  BY DEF OversightNext, SaveNext, oversightVars, HourPasses, ReportJob, AssignSite,
         BeginSave, WriteJob, StampStart, EndSave, AbortSave
<1> QED
  BY <1>1, <1>2, <1>3, <1>4, <1>5 DEF ReaderNext

LEMMA NamedAreLate ==
    ASSUME ReaderInv, Finished PROVE SurelyLate \subseteq Named /\ Named \subseteq MaybeLate
BY DEF ReaderInv, Finished, SurelyLate, Named, MaybeLate

-----------------------------------------------------------------------------
(* The worst of some statuses is one of the two late ones just if one of     *)
(* them is late, and it cannot be both.                                      *)
LEMMA WorstIsLate ==
    ASSUME NEW S
    PROVE  (WorstOf(S) = "breached" \/ WorstOf(S) = "overdue") <=> IsBreach(S)
BY DEF WorstOf, IsBreach

LEMMA CountsAreOfLate == ASSUME OversightTypeOK, ReaderInv PROVE DashboardIsRight
<1> SUFFICES ASSUME Finished
             PROVE  CountOf("breached") + CountOf("overdue")
                        \in Cardinality(SurelyLate)..Cardinality(MaybeLate)
  BY DEF DashboardIsRight
<1> DEFINE found == DOMAIN reader.rows
           worst(w) == WorstOf(reader.outcome[w])
           breached == {w \in found : worst(w) = "breached"}
           overdue == {w \in found : worst(w) = "overdue"}
<1>1. found \subseteq Jobs /\ IsFiniteSet(found)
  <2>1. found \in SUBSET Jobs
    BY RowsAreRows DEF Finished
  <2> QED
    BY <2>1, FS_Subset, OversightAssumption
<1>2. /\ breached \in SUBSET found /\ overdue \in SUBSET found /\ SurelyLate \in SUBSET found
      /\ Named \in SUBSET found /\ MaybeLate \in SUBSET found
  BY DEF SurelyLate, Named, MaybeLate
<1>3. breached \cup overdue = Named /\ breached \cap overdue = {}
  BY WorstIsLate DEF Named
<1> HIDE DEF found, breached, overdue
<1>4. /\ IsFiniteSet(breached) /\ IsFiniteSet(overdue) /\ IsFiniteSet(SurelyLate)
      /\ IsFiniteSet(Named) /\ IsFiniteSet(MaybeLate)
  BY <1>1, <1>2, FS_Subset
<1>5. Cardinality(breached) + Cardinality(overdue) = Cardinality(Named)
  <2>1. Cardinality(breached \cap overdue) = 0
    BY <1>3, FS_EmptySet
  <2>2. Cardinality(breached) \in Nat /\ Cardinality(overdue) \in Nat
    BY <1>4, FS_CardinalityType
  <2>3. Cardinality(breached \cup overdue) =
            Cardinality(breached) + Cardinality(overdue) - Cardinality(breached \cap overdue)
    BY <1>4, FS_Union
  <2> QED
    BY <1>3, <2>1, <2>2, <2>3
<1>6. /\ Cardinality(SurelyLate) <= Cardinality(Named)
      /\ Cardinality(Named) <= Cardinality(MaybeLate)
  BY <1>4, NamedAreLate, FS_Subset
<1>7. /\ Cardinality(SurelyLate) \in Nat /\ Cardinality(Named) \in Nat
      /\ Cardinality(MaybeLate) \in Nat
  BY <1>4, FS_CardinalityType
<1>8. CountOf("breached") = Cardinality(breached) /\ CountOf("overdue") = Cardinality(overdue)
  BY DEF CountOf, breached, overdue, found
<1> QED
  BY <1>5, <1>6, <1>7, <1>8

(* A visit has one column, the one it is shown under. *)
LEMMA BoardHasAll == BoardIsComplete
<1> SUFFICES ASSUME NEW u \in Managers, NEW w \in Jobs, Exists(w),
                    SiteOf[w] \in AccessibleSites(u)
             PROVE  Cardinality({t \in Columns(u) : w \in Board(u)[t]}) = 1
  BY DEF BoardIsComplete
<1>1. ShownUnder(u, w) \in Columns(u)
  BY OversightAssumption DEF ShownUnder, Columns
<1>2. \A t \in Columns(u) : w \in Board(u)[t] <=> ShownUnder(u, w) = t
  BY DEF Board
<1>3. {t \in Columns(u) : w \in Board(u)[t]} = {ShownUnder(u, w)}
  BY <1>1, <1>2
<1> QED
  BY <1>3, FS_Singleton

-----------------------------------------------------------------------------
OversightInv == OversightTypeOK /\ LogInv /\ SavesInv /\ ReaderInv

LEMMA Invariance == OversightSpec => []OversightInv
<1>1. OversightInit => OversightInv
  BY InitTypeOK, InitLog, InitReader DEF OversightInv
<1>2. OversightInv /\ [OversightNext]_oversightVars => OversightInv'
  BY NextTypeOK, NextLog, NextSaves, NextReader DEF OversightInv
<1> QED
  BY <1>1, <1>2, PTL DEF OversightSpec

(* The shape of work orders, saves, logs, assignments and the reader in      *)
(* progress (workorders/models.py, core/notifications.py).                   *)
THEOREM TypeCorrect == OversightSpec => []OversightTypeOK
<1>1. OversightInv => OversightTypeOK
  BY DEF OversightInv
<1> QED
  BY <1>1, Invariance, PTL

(* However many saves overlap and in whatever order they commit, a response  *)
(* in time stays so, and one that was missed is cleared by nothing but a     *)
(* start in time that was still unseen (workorders/sla.py).                  *)
THEOREM VerdictsAreFinal == OversightSpec => VerdictIsFinal
<1>1. OversightInv /\ OversightInv' /\ [OversightNext]_oversightVars =>
        [\A w \in Jobs : Exists(w) /\ Response[w] # NoTarget =>
            LET was == ResponseStatus(w, job[w], now)
                is == ResponseStatus(w, job[w], now)'
            IN  /\ was = "met" => is = "met"
                /\ was \in {"breached", "overdue"} =>
                       is \in {"breached", "overdue"} \/ \E r \in Saves : ClearedBy(r, w)
        ]_oversightVars
  BY StepGrows, ClearedOnlyInTime DEF OversightInv
<1> QED
  BY <1>1, Invariance, PTL DEF OversightSpec, VerdictIsFinal

(* Whatever is saved and committed between the queries of the digest, a mail *)
(* leaves out none of the work orders found that is late for sure, and names *)
(* none whose start in time it could see (notify_daily_digest).              *)
THEOREM DigestsAreRight == OversightSpec => []DigestIsRight
<1>1. OversightInv => DigestIsRight
  BY NamedAreLate DEF OversightInv, DigestIsRight
<1> QED
  BY <1>1, Invariance, PTL

(* The dashboard's two counts add up to the work orders that are late, each  *)
(* once (sla_summary).                                                       *)
THEOREM DashboardsAreRight == OversightSpec => []DashboardIsRight
<1>1. OversightInv => DashboardIsRight
  BY CountsAreOfLate DEF OversightInv
<1> QED
  BY <1>1, Invariance, PTL

(* Every visit to one of the user's sites is on the board once, whatever the *)
(* teams and the assignments of sites (dispatch_board).                      *)
THEOREM BoardsAreComplete == OversightSpec => []BoardIsComplete
<1>1. OversightInit => BoardIsComplete
  BY BoardHasAll
<1>2. BoardIsComplete /\ [OversightNext]_oversightVars => BoardIsComplete'
  BY BoardHasAll, PTL
<1> QED
  BY <1>1, <1>2, PTL DEF OversightSpec
=============================================================================
