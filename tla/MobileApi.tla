----------------------------- MODULE MobileApi -----------------------------
(* What the mobile endpoints do with one request of one technician            *)
(* (src/backend/mobile_api).  A handler is one step: nothing stated about the *)
(* phone depends on what runs between its queries, which Inventory and        *)
(* WorkOrders take apart.                                                     *)
EXTENDS Integers, FiniteSets

CONSTANTS Tickets,        \* the tickets assigned to the technician
          NoTicket,
          Locations,      \* the stock locations; one part is looked at
          LevelId,        \* id of the part's level, of the locations that stock it
          LocationId,     \* id of the location itself
          SiteOf,         \* the site of a ticket, a location, a scanned asset
          Scopes,         \* the sets of sites the technician may be given
          Permissions,    \* the model permissions of the technician's groups
          Items,          \* the items of the templates
          Checklist,      \* the items of each ticket's template, {} for no template
          Opening         \* on hand at the start, where the part is stocked

Stocked == DOMAIN LevelId

ASSUME ApiAssumption == /\ Stocked \subseteq Locations
                        /\ LocationId \in [Locations -> Nat]
                        /\ \A l, m \in Locations : LocationId[l] = LocationId[m] => l = m
                        /\ Opening \in [Stocked -> Nat]
                        /\ Checklist \in [Tickets -> SUBSET Items]
                        /\ NoTicket \notin Tickets

VARIABLES sites,      \* the sites the technician may see now
          status,     \* per ticket, as far as the phone tells statuses apart
          answers,    \* <<ticket, item>>: the responses on record
          comments,   \* the tickets with a comment from the phone
          onHand,     \* per location that stocks the part
          booked,     \* per ticket, how many bookings it has
          taken,      \* <<location chosen, location taken from>> of the bookings
          short       \* the tickets that a booking was refused for want of stock

server == <<sites, status, answers, comments, onHand, booked, taken, short>>

ApiInit == /\ sites \in Scopes
           /\ status = [t \in Tickets |-> "OPEN"]
           /\ answers = {}
           /\ comments = {}
           /\ onHand = Opening
           /\ booked = [t \in Tickets |-> 0]
           /\ taken = {}
           /\ short = {}

InScope(x) == SiteOf[x] \in sites

-----------------------------------------------------------------------------
(* A request is an operation, the ticket in the path and an argument.  What   *)
(* comes back: whether it worked, whether the ticket can be flagged, and what *)
(* the phone reads out of it.                                                 *)
Done(data) == [ok |-> TRUE, flag |-> FALSE, data |-> data]
Refusal == [ok |-> FALSE, flag |-> FALSE, data |-> {}]
Shortage == [ok |-> FALSE, flag |-> TRUE, data |-> {}]

Required == [mine |-> "view_workorder", detail |-> "view_workorder",
             status |-> "change_workorder", flag |-> "change_workorder",
             comments |-> "view_workordercomment", comment |-> "add_workordercomment",
             checklist |-> "view_workorderchecklistresponse",
             respond |-> "add_workorderchecklistresponse",
             part |-> "view_sparepart", asset |-> "view_asset",
             consume |-> "add_workorderpartusage"]

(* Every path with a ticket resolves it among those in scope. *)
Admitted(r) == /\ Required[r.op] \in Permissions
               /\ r.op \notin {"mine", "part", "asset"} => InScope(r.ticket)

(* find_spare_part_by_code knows the part by barcode and by sku; an asset is  *)
(* looked for by its tag, in scope.                                           *)
Mine == Done({t \in Tickets : InScope(t) /\ status[t] # "CLOSED"})
Detail(t) == Done(Checklist[t])
Levels(code) == IF code = "known" THEN Done({l \in Stocked : InScope(l)}) ELSE Refusal
AssetAt(code) == IF code = "known" /\ InScope("asset") THEN Done({}) ELSE Refusal

(* The id in the request is taken for the id of a location. *)
LocationsWith(id) == {l \in Locations : InScope(l) /\ LocationId[l] = id}

(* Mutant: the quantity on hand is not looked at. *)
Enough_Always(l, q) == TRUE
Enough(l, q) == onHand[l] >= q

Consumption(id, q) ==
    LET found == LocationsWith(id)
    IN  IF found \cap Stocked = {} THEN Refusal
        ELSE IF \E l \in found : Enough(l, q) THEN Done({}) ELSE Shortage

Response(r) ==
    IF ~Admitted(r) THEN Refusal
    ELSE CASE r.op = "mine" -> Mine
           [] r.op \in {"detail", "checklist"} -> Detail(r.ticket)
           [] r.op = "part" -> Levels(r.arg)
           [] r.op = "asset" -> AssetAt(r.arg)
           [] r.op = "respond" -> IF r.arg \in Checklist[r.ticket] THEN Done({}) ELSE Refusal
           [] r.op = "consume" -> Consumption(LevelId[r.arg[1]], r.arg[2])
           [] OTHER -> Done({})

-----------------------------------------------------------------------------
UpdateStatus(r) ==
    /\ r.op \in {"status", "flag"}
    /\ status' = [status EXCEPT ![r.ticket] = r.arg]
    /\ UNCHANGED <<sites, answers, comments, onHand, booked, taken, short>>

PostComment(r) ==
    /\ r.op = "comment"
    /\ comments' = comments \cup {r.ticket}
    /\ UNCHANGED <<sites, status, answers, onHand, booked, taken, short>>

PostResponse(r) ==
    /\ r.op = "respond"
    /\ answers' = answers \cup {<<r.ticket, r.arg>>}
    /\ UNCHANGED <<sites, status, comments, onHand, booked, taken, short>>

ConsumePart(r) ==
    /\ r.op = "consume"
    /\ \E l \in LocationsWith(LevelId[r.arg[1]]) :
          /\ onHand' = [onHand EXCEPT ![l] = @ - r.arg[2]]
          /\ taken' = taken \cup {<<r.arg[1], l>>}
    /\ booked' = [booked EXCEPT ![r.ticket] = @ + 1]
    /\ UNCHANGED <<sites, status, answers, comments, short>>

Read(r) == r.op \in {"mine", "detail", "comments", "checklist", "part", "asset"}
           /\ UNCHANGED server

Refuse(r) ==
    /\ short' = IF Response(r).flag THEN short \cup {r.ticket} ELSE short
    /\ UNCHANGED <<sites, status, answers, comments, onHand, booked, taken>>

Handle(r) ==
    IF Response(r).ok
    THEN \/ UpdateStatus(r) \/ PostComment(r) \/ PostResponse(r)
         \/ ConsumePart(r) \/ Read(r)
    ELSE Refuse(r)

(* Meanwhile the office changes the technician's sites. *)
Rescope ==
    /\ sites' \in Scopes \ {sites}
    /\ UNCHANGED <<status, answers, comments, onHand, booked, taken, short>>
=============================================================================
