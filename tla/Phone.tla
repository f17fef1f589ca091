------------------------------- MODULE Phone -------------------------------
(* The technician's single-page app (src/backend/pwa/static/pwa/app.js) on a  *)
(* phone with a bad connection, in front of the mobile endpoints.  Several    *)
(* requests may be under way; each has captured the elements it will write    *)
(* to, while the screen goes on changing.  Answers come in any order, or not. *)
EXTENDS MobileApi

CONSTANTS Slots,        \* 1..n: at most n requests are under way
          Quantities,   \* how many are typed to be booked at once
          Codes,        \* what is scanned or typed: a known code or others
          MaxPosts,     \* bound on the taps that post something, flags apart
          Chosen,       \* the statuses picked by hand
          MaxCameras    \* bound on the camera loops; 0 without a BarcodeDetector

VARIABLES screen,   \* what is shown
          slots,    \* the requests under way
          cameras,  \* the camera loops that were started and found nothing yet
          taps,     \* per ticket, how often "Book onto" it was tapped
          told,     \* per ticket, how often the screen said "Booked"
          posts     \* how often something was posted

ASSUME PhoneAssumption == IsFiniteSet(Slots) /\ Quantities \subseteq Nat /\ MaxPosts \in Nat

phone == <<screen, slots, cameras, taps, told, posts>>
vars == <<server, phone>>

-----------------------------------------------------------------------------
(* Screens.  A panel of a ticket's page and the result of a scan say whose    *)
(* they are, which need not be the ticket of the page.                        *)
Loading == [kind |-> "loading"]
ErrorPage == [kind |-> "error"]
Left == [kind |-> "left"]
TicketList(shown) == [kind |-> "tickets", shown |-> shown]

HasList(t) == Checklist[t] # {}
Panel(state) == [state |-> state, of |-> NoTicket, items |-> {}]
DetailPage(t) ==
    [kind |-> "detail", ticket |-> t, comments |-> Panel("waiting"),
     checklist |-> Panel(IF HasList(t) THEN "waiting" ELSE "absent")]

Result(state, t, offers, msg) ==
    [state |-> state, of |-> t, offers |-> offers, msg |-> msg]
NoResult(state) == Result(state, NoTicket, {}, "none")
ScanPage(t, mode) ==
    [kind |-> "scan", ticket |-> t, mode |-> mode,
     result |-> NoResult("blank")]
OnScan == screen.kind = "scan"

(* When the elements a request captured are gone, its answer goes unheard: a  *)
(* read is forgotten, a write may still reach the server.  A lookup that      *)
(* fails writes to the result it captured, one that succeeds looks for one.   *)
Writes == {"status", "flag", "comment", "respond", "consume"}
Pending == [ok |-> FALSE, flag |-> FALSE, data |-> {"pending"}]
Lost == [ok |-> FALSE, flag |-> FALSE, data |-> {"lost"}]
Free == [op |-> "free", heard |-> FALSE]
Request(op, t, arg) == [op |-> op, ticket |-> t, arg |-> arg, live |-> TRUE,
                        heard |-> TRUE, answer |-> Pending]

(* A ticket's page is followed by two lists, which need a slot each. *)
Busy == {s \in Slots : slots[s].op # "free"}
Room(n) == Cardinality(Busy)
           + Cardinality({s \in Busy : slots[s].op = "detail" /\ slots[s].heard})
           + n <= Cardinality(Slots)

With(book, r) ==
    [book EXCEPT ![CHOOSE s \in Slots : book[s] = Free] = r]

Unheard(r) == IF r.op \in Writes /\ r.answer = Pending
              THEN [r EXCEPT !.heard = FALSE] ELSE Free

(* The result of a scan is overwritten; or the whole page is. *)
DetachCard(book) ==
    [s \in Slots |-> IF book[s].op \in {"consume", "flag"} THEN Unheard(book[s]) ELSE book[s]]
Detach(book) ==
    [s \in Slots |->
        CASE book[s].op \in {"comments", "checklist", "consume", "flag"} -> Unheard(book[s])
          [] book[s].op \in {"part", "asset"} -> [book[s] EXCEPT !.live = FALSE]
          [] OTHER -> book[s]]
Orphan(book) == [s \in Slots |-> Unheard(book[s])]

Post(r) == /\ Room(1)
           /\ posts < MaxPosts
           /\ slots' = With(slots, r)
           /\ posts' = posts + 1
           /\ UNCHANGED <<screen, cameras, told>>
Quiet == UNCHANGED <<cameras, taps, told, posts>>

-----------------------------------------------------------------------------
(* What the technician does. *)
ShowTickets ==
    /\ Room(1)
    /\ screen.kind # "left"
    /\ screen' = Loading
    /\ slots' = With(Detach(slots), Request("mine", NoTicket, ""))
    /\ Quiet

ShowTicketDetail(t) ==
    /\ Room(2)
    /\ screen.kind = "tickets"
    /\ t \in screen.shown
    /\ screen' = Loading
    /\ slots' = With(Detach(slots), Request("detail", t, ""))
    /\ Quiet

(* The page and the first requests for its lists. *)
RenderTicketDetail(book, t) ==
    LET open == With(Detach(book), Request("comments", t, ""))
    IN  /\ screen' = DetailPage(t)
        /\ slots' = IF HasList(t) THEN With(open, Request("checklist", t, "")) ELSE open

BackToTicket ==
    /\ Room(2)
    /\ OnScan
    /\ screen.ticket # NoTicket
    /\ RenderTicketDetail(slots, screen.ticket)
    /\ Quiet

(* What is said beside the button is left out: the answer is not heard. *)
SubmitStatus(st) ==
    /\ screen.kind = "detail"
    /\ Post([Request("status", screen.ticket, st) EXCEPT !.heard = FALSE])
    /\ UNCHANGED taps

SubmitComment ==
    /\ screen.kind = "detail"
    /\ Post(Request("comment", screen.ticket, ""))
    /\ UNCHANGED taps

SubmitChecklistResponse(item) ==
    /\ screen.kind = "detail"
    /\ item \in screen.checklist.items
    /\ Post(Request("respond", screen.checklist.of, item))
    /\ UNCHANGED taps

(* From the tab or the mode buttons without a ticket, from a ticket's page    *)
(* with it.  getUserMedia has been asked for the camera when this returns.    *)
ShowScan(t, mode) ==
    /\ \/ screen.kind # "left" /\ t = NoTicket /\ mode = "part"
       \/ OnScan /\ t = NoTicket /\ screen.ticket = NoTicket
       \/ screen.kind = "detail" /\ t = screen.ticket /\ mode = "part"
    /\ screen' = ScanPage(t, mode)
    /\ slots' = Detach(slots)
    /\ cameras' = IF Cardinality(cameras) < MaxCameras
                  THEN cameras \cup {[ticket |-> t, mode |-> mode]}
                  ELSE cameras
    /\ UNCHANGED <<taps, told, posts>>

(* lookupPart and lookupAsset take whatever scan page there is. *)
HandleScannedCode(code, t, mode) ==
    /\ Room(1)
    /\ screen' = [screen EXCEPT !.result = NoResult("looking")]
    /\ slots' = With(DetachCard(slots), Request(mode, t, code))

SubmitCode(code) ==
    /\ OnScan
    /\ HandleScannedCode(code, screen.ticket, screen.mode)
    /\ Quiet

(* The video element is looked for when the camera has started, whichever     *)
(* page shows it by then, and the loop works for the ticket and mode it was   *)
(* asked for.  Without a page, or when the camera is denied, that was all.    *)
NoCamera(c) ==
    /\ cameras' = cameras \ {c}
    /\ UNCHANGED <<screen, slots, taps, told, posts>>

Detect(c, code) ==
    /\ OnScan
    /\ HandleScannedCode(code, c.ticket, c.mode)
    /\ cameras' = cameras \ {c}
    /\ UNCHANGED <<taps, told, posts>>

(* The value of the option is the id of the stock level. *)
BookPart(l, q) ==
    /\ OnScan
    /\ screen.result.of # NoTicket
    /\ l \in screen.result.offers
    /\ Post(Request("consume", screen.result.of, <<l, q>>))
    /\ taps' = [taps EXCEPT ![screen.result.of] = @ + 1]

FlagWaitingOnParts ==
    /\ OnScan
    /\ screen.result.msg = "flag"
    /\ Room(1)
    /\ slots' = With(slots, Request("flag", screen.result.of, "WAITING_ON_PARTS"))
    /\ UNCHANGED screen
    /\ Quiet

(* The app is opened again, or the page reloaded: nothing is kept. *)
Open ==
    /\ Cardinality(Busy) < Cardinality(Slots)
    /\ screen' = Loading
    /\ slots' = With(Orphan(slots), Request("mine", NoTicket, ""))
    /\ cameras' = {}
    /\ UNCHANGED <<taps, told, posts>>

-----------------------------------------------------------------------------
(* Answers.  A request may be lost on the way, its answer on the way back, or *)
(* it arrives when the phone has given it up.                                 *)
Serve(s) ==
    /\ slots[s].op # "free"
    /\ slots[s].answer = Pending
    /\ Handle(slots[s])
    /\ slots' = [slots EXCEPT ![s] =
           IF @.heard THEN [@ EXCEPT !.answer = Response(slots[s])] ELSE Free]
    /\ UNCHANGED <<screen, cameras, taps, told, posts>>

(* What the app hears, and the slots without the request. *)
Answers(s) ==
    LET r == slots[s]
        gone == [slots EXCEPT ![s] = Free]
        late == [slots EXCEPT ![s].heard = FALSE]
    IN  {<<Lost, gone>>}
        \cup IF r.answer # Pending THEN {<<r.answer, gone>>}
             ELSE IF r.op \in Writes THEN {<<Lost, late>>} ELSE {}

(* Mutant: an answer is an answer, whatever its status. *)
Succeeded_Answered(o) == o # Lost
Succeeded(o) == o.ok

(* Mutant: any refusal offers to flag the ticket. *)
AsksToFlag_Refused(o) == o # Lost
AsksToFlag(o) == o.flag

(* Mutant: a list that cannot be loaded is left as it is. *)
PanelAfter_NoCatch(panel, r, o) ==
    IF o.ok THEN [state |-> "shown", of |-> r.ticket, items |-> o.data] ELSE panel
PanelAfter(panel, r, o) ==
    IF o.ok THEN [state |-> "shown", of |-> r.ticket, items |-> o.data]
            ELSE Panel("failed")

OnTickets(r, o, book) ==
    /\ r.op = "mine"
    /\ screen' = IF o.ok THEN TicketList(o.data) ELSE ErrorPage
    /\ slots' = Detach(book)
    /\ Quiet

OnTicketDetail(r, o, book) ==
    /\ r.op = "detail"
    /\ IF o.ok THEN RenderTicketDetail(book, r.ticket)
               ELSE screen' = ErrorPage /\ slots' = Detach(book)
    /\ Quiet

OnList(r, o, book) ==
    /\ r.op \in {"comments", "checklist"}
    /\ screen' = [screen EXCEPT ![r.op] = PanelAfter(@, r, o)]
    /\ slots' = book
    /\ Quiet

(* The list is loaded again, into the page that is shown now, if it has one. *)
OnPosted(r, o, book) ==
    /\ r.op \in {"comment", "respond"}
    /\ LET list == IF r.op = "comment" THEN "comments" ELSE "checklist"
       IN  slots' = IF o.ok /\ screen.kind = "detail" /\ screen[list].state # "absent"
                    THEN With(book, Request(list, r.ticket, "")) ELSE book
    /\ UNCHANGED screen
    /\ Quiet

OnPart(r, o, book) ==
    /\ r.op = "part"
    /\ IF IF o.ok THEN OnScan ELSE r.live
       THEN /\ screen' = [screen EXCEPT !.result =
                   IF ~o.ok THEN NoResult("failed")
                   ELSE IF o.data = {} THEN NoResult("none")
                   ELSE Result("card", r.ticket, o.data, "none")]
            /\ slots' = DetachCard(book)
       ELSE slots' = book /\ UNCHANGED screen
    /\ Quiet

(* An asset found leaves the app for its history page. *)
OnAsset(r, o, book) ==
    /\ r.op = "asset"
    /\ IF o.ok
       THEN screen' = Left /\ slots' = Orphan(book) /\ cameras' = {}
       ELSE /\ UNCHANGED cameras
            /\ IF r.live
               THEN screen' = [screen EXCEPT !.result = NoResult("failed")]
                    /\ slots' = DetachCard(book)
               ELSE slots' = book /\ UNCHANGED screen
    /\ UNCHANGED <<taps, told, posts>>

Message(msg) == screen' = [screen EXCEPT !.result.msg = msg]

OnConsumed(r, o, book) ==
    /\ r.op = "consume"
    /\ IF Succeeded(o)
       THEN /\ Message("booked")
            /\ told' = [told EXCEPT ![r.ticket] = @ + 1]
       ELSE /\ Message(IF AsksToFlag(o) THEN "flag" ELSE "failed")
            /\ UNCHANGED told
    /\ slots' = book
    /\ UNCHANGED <<cameras, taps, posts>>

OnFlagged(r, o, book) ==
    /\ r.op = "flag"
    /\ Message(IF o.ok THEN "flagged" ELSE "failed")
    /\ slots' = book
    /\ Quiet

Hear(s) ==
    /\ slots[s].heard
    /\ \E answer \in Answers(s) :
          LET r == slots[s]
              o == answer[1]
              book == answer[2]
          IN  \/ OnTickets(r, o, book) \/ OnTicketDetail(r, o, book)
              \/ OnList(r, o, book) \/ OnPosted(r, o, book)
              \/ OnPart(r, o, book) \/ OnAsset(r, o, book)
              \/ OnConsumed(r, o, book) \/ OnFlagged(r, o, book)
    /\ UNCHANGED server

-----------------------------------------------------------------------------
Init == /\ ApiInit
        /\ screen = Loading
        /\ slots = [s \in Slots |-> IF s = 1 THEN Request("mine", NoTicket, "") ELSE Free]
        /\ cameras = {}
        /\ taps = [t \in Tickets |-> 0]
        /\ told = [t \in Tickets |-> 0]
        /\ posts = 0

Technician ==
    /\ \/ ShowTickets \/ BackToTicket \/ SubmitComment \/ FlagWaitingOnParts \/ Open
       \/ \E t \in Tickets : ShowTicketDetail(t)
       \/ \E st \in Chosen : SubmitStatus(st)
       \/ \E i \in Items : SubmitChecklistResponse(i)
       \/ \E t \in Tickets \cup {NoTicket}, mode \in {"part", "asset"} : ShowScan(t, mode)
       \/ \E code \in Codes : SubmitCode(code)
       \/ \E c \in cameras : NoCamera(c) \/ \E code \in Codes : Detect(c, code)
       \/ \E l \in Stocked, q \in Quantities : BookPart(l, q)
    /\ UNCHANGED server

Office == Rescope /\ UNCHANGED phone

Next == Technician \/ Office \/ \E s \in Slots : Serve(s) \/ Hear(s)

Spec == Init /\ [][Next]_vars

(* Every fetch settles: it is answered, or the network gives it up. *)
FairSpec == Spec /\ \A s \in Slots : WF_vars(Hear(s))

-----------------------------------------------------------------------------
TypeOK ==
    /\ sites \in Scopes
    /\ status \in [Tickets -> {"OPEN", "WAITING_ON_PARTS"} \cup Chosen]
    /\ onHand \in [Stocked -> Nat]
    /\ \A t \in Tickets : taps[t] \in 0..MaxPosts
    /\ screen.kind \in {"loading", "error", "left", "tickets", "detail", "scan"}
    /\ \A s \in Slots : slots[s].op \in {"free"} \cup DOMAIN Required

(* Answers may be lost and screens change under them, but the phone never     *)
(* says of a ticket "Booked" more often than the server booked parts onto it, *)
(* nor does the server book more often than the technician tapped.            *)
EveryBookingWasAskedFor ==
    \A t \in Tickets : told[t] <= booked[t] /\ booked[t] <= taps[t]

(* "Surface a next step": a ticket is offered to be marked as waiting on      *)
(* parts, and marked from that offer, only after the server had too little    *)
(* for a booking onto that very ticket.                                       *)
FlagFollowsShortage ==
    /\ OnScan /\ screen.result.msg = "flag" => screen.result.of \in short
    /\ \A s \in Busy : slots[s].op = "flag" => slots[s].ticket \in short

(* Nothing the app says it is loading or looking up stays so for ever. *)
Waiting == \/ screen.kind = "loading"
           \/ screen.kind = "detail" /\ "waiting" \in {screen.comments.state, screen.checklist.state}
           \/ OnScan /\ screen.result.state = "looking"
EveryWaitEnds == Waiting ~> ~Waiting

(* "Book a part out of stock onto this ticket": what is taken is taken from   *)
(* the shelf the technician chose.                                            *)
BookedFromChosen == \A move \in taken : move[1] = move[2]
=============================================================================
