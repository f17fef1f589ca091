---------------------------- MODULE PhoneProofs ----------------------------
(* For any number of tickets, requests under way and bookings: what the phone *)
(* says of bookings is never more than what was booked, nothing is booked     *)
(* that was not tapped for, and a ticket is flagged only after a shortage.    *)
(* And from which shelf: the chosen one, if ids were what app.js takes them   *)
(* for.                                                                       *)
EXTENDS Phone, FiniteSetTheorems, TLAPS

Holders == Tickets \cup {NoTicket}
Listed == UNION {Checklist[t] : t \in Holders}
Data == Tickets \cup Locations \cup Listed \cup {"pending", "lost"}
Args == {"", "WAITING_ON_PARTS"} \cup Chosen \cup Items \cup Codes
        \cup (Stocked \X Quantities)
Ops == {"mine", "detail", "status", "flag", "comments", "comment", "checklist",
        "respond", "part", "asset", "consume"}
Outcomes == [ok : BOOLEAN, flag : BOOLEAN, data : SUBSET Data]
(* What goes with a request that changes something on the server.             *)
Suits(op, arg) == /\ op = "status" => arg \in Chosen
                  /\ op = "flag" => arg = "WAITING_ON_PARTS"
                  /\ op = "consume" => arg \in Stocked \X Quantities
Requests == {r \in [op : Ops, ticket : Holders, arg : Args, live : BOOLEAN,
                    heard : BOOLEAN, answer : Outcomes] : Suits(r.op, r.arg)}
Entries == Requests \cup {Free}

Panels == [state : {"absent", "waiting", "failed", "shown"}, of : Holders, items : SUBSET Data]
Results == [state : {"blank", "looking", "failed", "none", "card"}, of : Holders,
            offers : SUBSET Data, msg : {"none", "booked", "failed", "flag", "flagged"}]
ScanPages == [kind : {"scan"}, ticket : Holders, mode : {"part", "asset"}, result : Results]
DetailPages == [kind : {"detail"}, ticket : Holders, comments : Panels, checklist : Panels]
Screens == {Loading, ErrorPage, Left} \cup [kind : {"tickets"}, shown : SUBSET Data]
           \cup DetailPages \cup ScanPages

Shape == /\ slots \in [Slots -> Entries]
         /\ screen \in Screens
         /\ cameras \subseteq [ticket : Holders, mode : {"part", "asset"}]
         /\ booked \in [Tickets -> Nat]
         /\ taps \in [Tickets -> Nat]
         /\ told \in [Tickets -> Nat]

(* A request that is heard finds what it captured still on the screen. *)
Captures(r) == r.heard =>
    /\ r.op \in {"comments", "checklist"} => screen.kind = "detail"
    /\ r.op \in {"part", "asset"} /\ r.live => OnScan
    /\ r.op \in {"consume", "flag"} =>
          OnScan /\ screen.result.of = r.ticket
Captured == \A s \in Slots : Captures(slots[s])

(* Every shortage an answer tells of has happened; and so on to the flag. *)
ShortageTold == \A s \in Slots :
    slots[s].op = "consume" /\ slots[s].answer.flag => slots[s].ticket \in short
FlagSent == \A s \in Slots : slots[s].op = "flag" => slots[s].ticket \in short
FlagOffered == OnScan /\ screen.result.msg = "flag" => screen.result.of \in short
Flagging == ShortageTold /\ FlagSent /\ FlagOffered

(* A tap is a booking under way or at most one booking; a booking that is not *)
(* yet told of is at most one answer under way.                               *)
Asking(t) == {s \in Slots : /\ slots[s].op = "consume" /\ slots[s].ticket = t
                            /\ slots[s].answer = Pending}
Telling(t) == {s \in Slots : /\ slots[s].op = "consume" /\ slots[s].ticket = t
                             /\ slots[s].heard /\ slots[s].answer.ok}
Counted == \A t \in Tickets : /\ told[t] + Cardinality(Telling(t)) <= booked[t]
                              /\ booked[t] + Cardinality(Asking(t)) <= taps[t]

PhoneInv == Shape /\ Captured /\ Flagging /\ Counted

-----------------------------------------------------------------------------
(* What may become of an entry, and what may be sent besides bookings. *)
Weaker(e, old) == e = Free \/ /\ e \in Requests /\ old \in Requests
                              /\ e.op = old.op /\ e.ticket = old.ticket
                              /\ e.answer = old.answer
                              /\ e.heard => old.heard
                              /\ e.live => old.live
Fresh(e) == e \in Requests /\ e.op # "consume" /\ (e.op = "flag" => e.ticket \in short)

LEMMA FreeFacts == Free.op = "free" /\ ~Free.heard /\ Free \notin Requests
BY DEF Free, Requests, Ops

LEMMA OutcomeFacts == Pending \in Outcomes /\ Lost \in Outcomes /\ Pending # Lost
                      /\ ~Pending.ok /\ ~Pending.flag /\ ~Lost.ok /\ ~Lost.flag
<1>1. "pending" \in {"pending"} /\ "pending" \notin {"lost"}
  OBVIOUS
<1>2. {"pending"} \in SUBSET Data /\ {"lost"} \in SUBSET Data
  <2>1. {"pending", "lost"} \subseteq Data
    BY DEF Data
  <2> QED
    BY <2>1
<1> QED
  BY <1>1, <1>2 DEF Pending, Lost, Outcomes

LEMMA RequestFacts ==
    ASSUME NEW op \in Ops, NEW t \in Holders, NEW arg \in Args, Suits(op, arg)
    PROVE  /\ Request(op, t, arg) \in Requests
           /\ Request(op, t, arg).op = op
           /\ Request(op, t, arg).ticket = t
           /\ Request(op, t, arg).answer = Pending
           /\ Request(op, t, arg).heard
BY OutcomeFacts DEF Request, Requests

LEMMA UnheardFacts ==
    ASSUME NEW r \in Entries
    PROVE  Unheard(r) \in Entries /\ Weaker(Unheard(r), r) /\ ~Unheard(r).heard
<1>1. CASE r = Free
  BY <1>1, FreeFacts DEF Unheard, Writes, Weaker, Entries
<1>2. CASE r \in Requests
  BY <1>2, FreeFacts DEF Unheard, Weaker, Entries, Requests
<1> QED
  BY <1>1, <1>2 DEF Entries

LEMMA WithFacts ==
    ASSUME NEW book \in [Slots -> Entries], NEW r \in Requests
    PROVE  /\ With(book, r) \in [Slots -> Entries]
           /\ \E n : \A s \in Slots : With(book, r)[s] = IF s = n THEN r ELSE book[s]
           /\ \A s \in Slots : With(book, r)[s] = book[s] \/ With(book, r)[s] = r
BY DEF With, Entries

(* What writing the page leaves of the requests, and writing the result. *)
LEMMA DetachFacts ==
    ASSUME NEW book \in [Slots -> Entries]
    PROVE  /\ Detach(book) \in [Slots -> Entries]
           /\ \A s \in Slots : Weaker(Detach(book)[s], book[s])
           /\ \A s \in Slots : Detach(book)[s].heard =>
                 /\ Detach(book)[s].op \notin {"comments", "checklist", "consume", "flag"}
                 /\ Detach(book)[s].op \in {"part", "asset"} => ~Detach(book)[s].live
<1> SUFFICES ASSUME NEW s \in Slots
             PROVE  LET e == Detach(book)[s] IN
                    /\ e \in Entries
                    /\ Weaker(e, book[s])
                    /\ e.heard => /\ e.op \notin {"comments", "checklist", "consume", "flag"}
                                  /\ e.op \in {"part", "asset"} => ~e.live
  BY DEF Detach
<1>1. CASE book[s] = Free
  BY <1>1, FreeFacts DEF Detach, Weaker, Entries
<1>2. CASE book[s] \in Requests /\ book[s].op \in {"comments", "checklist", "consume", "flag"}
  BY <1>2, UnheardFacts DEF Detach, Entries
<1>3. CASE book[s] \in Requests /\ book[s].op \in {"part", "asset"}
  BY <1>3 DEF Detach, Weaker, Entries, Requests
<1>4. CASE book[s] \in Requests
           /\ book[s].op \notin {"comments", "checklist", "consume", "flag", "part", "asset"}
  BY <1>4 DEF Detach, Weaker, Entries
<1> QED
  BY <1>1, <1>2, <1>3, <1>4 DEF Entries

LEMMA DetachCardFacts ==
    ASSUME NEW book \in [Slots -> Entries]
    PROVE  /\ DetachCard(book) \in [Slots -> Entries]
           /\ \A s \in Slots : Weaker(DetachCard(book)[s], book[s])
           /\ \A s \in Slots : DetachCard(book)[s].heard =>
                 DetachCard(book)[s].op \notin {"consume", "flag"}
<1> SUFFICES ASSUME NEW s \in Slots
             PROVE  LET e == DetachCard(book)[s] IN
                    /\ e \in Entries
                    /\ Weaker(e, book[s])
                    /\ e.heard => e.op \notin {"consume", "flag"}
  BY DEF DetachCard
<1>1. CASE book[s] = Free
  BY <1>1, FreeFacts DEF DetachCard, Weaker, Entries
<1>2. CASE book[s] \in Requests
  BY <1>2, UnheardFacts DEF DetachCard, Weaker, Entries
<1> QED
  BY <1>1, <1>2 DEF Entries

LEMMA OrphanFacts ==
    ASSUME NEW book \in [Slots -> Entries]
    PROVE  /\ Orphan(book) \in [Slots -> Entries]
           /\ \A s \in Slots : Weaker(Orphan(book)[s], book[s]) /\ ~Orphan(book)[s].heard
BY UnheardFacts DEF Orphan

LEMMA WeakerIsTransitive ==
    ASSUME NEW e, NEW f, NEW g, Weaker(e, f), Weaker(f, g)
    PROVE  Weaker(e, g)
BY FreeFacts DEF Weaker

LEMMA SlotFreed ==
    ASSUME PhoneInv, NEW s \in Slots
    PROVE  /\ [slots EXCEPT ![s] = Free] \in [Slots -> Entries]
           /\ \A n \in Slots : Weaker([slots EXCEPT ![s] = Free][n], slots[n])
           /\ \A n \in Slots : Captures([slots EXCEPT ![s] = Free][n])
BY FreeFacts DEF PhoneInv, Shape, Entries, Weaker, Captured, Captures

(* The pages are told apart by their kind. *)
LEMMA ScreenFacts ==
    ASSUME PhoneInv
    PROVE  /\ OnScan => screen \in ScanPages
           /\ screen.kind = "detail" => screen \in DetailPages
           /\ screen.kind = "tickets" => screen \in [kind : {"tickets"}, shown : SUBSET Data]
BY DEF PhoneInv, Shape, Screens, OnScan, Loading, ErrorPage, Left, ScanPages, DetailPages

LEMMA PageFacts ==
    /\ \A state \in {"blank", "looking", "failed", "none", "card"} :
          NoResult(state) \in Results /\ NoResult(state).msg = "none"
    /\ \A t \in Holders, mode \in {"part", "asset"} :
          ScanPage(t, mode) \in ScanPages /\ ScanPage(t, mode).result.msg = "none"
    /\ \A t \in Holders : DetailPage(t) \in DetailPages
<1>1. \A state \in {"blank", "looking", "failed", "none", "card"} :
          NoResult(state) \in Results /\ NoResult(state).msg = "none"
  BY DEF NoResult, Result, Results, Holders
<1>2. \A t \in Holders, mode \in {"part", "asset"} :
          ScanPage(t, mode) \in ScanPages /\ ScanPage(t, mode).result.msg = "none"
  BY <1>1 DEF ScanPage, ScanPages
<1>3. ASSUME NEW state \in {"absent", "waiting", "failed", "shown"}
      PROVE  Panel(state) \in Panels
  BY DEF Panel, Panels, Holders
<1>4. \A t \in Holders : DetailPage(t) \in DetailPages
  BY <1>3 DEF DetailPage, DetailPages, HasList
<1> QED
  BY <1>1, <1>2, <1>4

-----------------------------------------------------------------------------
(* A step that sends at most requests of other kinds, and only forgets        *)
(* bookings and flags, keeps the invariant.                                   *)
LEMMA Settled ==
    ASSUME PhoneInv, slots' \in [Slots -> Entries], screen' \in Screens,
           cameras' \subseteq [ticket : Holders, mode : {"part", "asset"}],
           Captured', FlagOffered',
           \A s \in Slots : Weaker(slots'[s], slots[s]) \/ Fresh(slots'[s]),
           UNCHANGED <<booked, taps, told, short>>
    PROVE  PhoneInv'
<1>1. Shape'
  BY DEF PhoneInv, Shape
<1>2. ShortageTold' /\ FlagSent'
  BY FreeFacts DEF PhoneInv, Flagging, ShortageTold, FlagSent, Weaker, Fresh
<1>3. ASSUME NEW t \in Tickets
      PROVE  Asking(t)' \subseteq Asking(t) /\ Telling(t)' \subseteq Telling(t)
  BY FreeFacts DEF Asking, Telling, Weaker, Fresh
<1>4. \A t \in Tickets : IsFiniteSet(Asking(t)) /\ IsFiniteSet(Telling(t))
  BY PhoneAssumption, FS_Subset DEF Asking, Telling
<1>5. ASSUME NEW t \in Tickets
      PROVE  /\ Cardinality(Asking(t)') <= Cardinality(Asking(t))
             /\ Cardinality(Telling(t)') <= Cardinality(Telling(t))
             /\ Cardinality(Asking(t)') \in Nat /\ Cardinality(Telling(t)') \in Nat
             /\ Cardinality(Asking(t)) \in Nat /\ Cardinality(Telling(t)) \in Nat
  <2>1. IsFiniteSet(Asking(t)') /\ IsFiniteSet(Telling(t)')
    BY <1>3, <1>4, FS_Subset
  <2> QED
    BY <2>1, <1>3, <1>4, FS_Subset, FS_CardinalityType
<1>6. Counted'
  BY <1>5 DEF PhoneInv, Counted, Shape
<1> QED
  BY <1>1, <1>2, <1>6 DEF PhoneInv, Flagging

(* The page gives way to one without lists and results; at most a request for *)
(* a page is sent.                                                            *)
LEMMA PageGone ==
    ASSUME PhoneInv, NEW book \in [Slots -> Entries], NEW after \in [Slots -> Entries],
           \A s \in Slots : Weaker(book[s], slots[s]),
           \A s \in Slots :
              \/ after[s] = Detach(book)[s] \/ after[s] = Orphan(book)[s]
              \/ after[s] \in Requests /\ after[s].op \in {"mine", "detail"},
           slots' = after, screen' \in Screens, ~OnScan', screen'.kind # "detail",
           cameras' \subseteq [ticket : Holders, mode : {"part", "asset"}],
           UNCHANGED <<booked, taps, told, short>>
    PROVE  PhoneInv'
<1>1. \A s \in Slots : Weaker(after[s], slots[s]) \/ Fresh(after[s])
  BY DetachFacts, OrphanFacts, WeakerIsTransitive DEF Fresh
<1>2. Captured'
  <2> SUFFICES ASSUME NEW s \in Slots
               PROVE  Captures(after[s])'
    BY DEF Captured
  <2>1. CASE after[s] = Detach(book)[s]
    BY <2>1, DetachFacts DEF Captures
  <2>2. CASE after[s] = Orphan(book)[s]
    BY <2>2, OrphanFacts DEF Captures
  <2>3. CASE after[s] \in Requests /\ after[s].op \in {"mine", "detail"}
    BY <2>3 DEF Captures
  <2> QED
    BY <2>1, <2>2, <2>3
<1>3. FlagOffered'
  BY DEF FlagOffered
<1> QED
  BY <1>1, <1>2, <1>3, Settled

(* A ticket's page takes the place of the page. *)
LEMMA RenderedDetail ==
    ASSUME PhoneInv, NEW book \in [Slots -> Entries], NEW t \in Holders,
           \A s \in Slots : Weaker(book[s], slots[s]),
           RenderTicketDetail(book, t), Quiet, UNCHANGED <<booked, short>>
    PROVE  PhoneInv'
<1>1. /\ Request("comments", t, "") \in Requests
      /\ Request("comments", t, "").op = "comments"
      /\ Request("checklist", t, "") \in Requests
      /\ Request("checklist", t, "").op = "checklist"
  <2>1. /\ t \in Holders /\ "" \in Args /\ "comments" \in Ops /\ "checklist" \in Ops
        /\ Suits("comments", "") /\ Suits("checklist", "")
    BY DEF Holders, Args, Ops, Suits
  <2> QED
    BY <2>1, RequestFacts
<1>2. Detach(book) \in [Slots -> Entries]
  BY DetachFacts
<1>3. PICK open \in [Slots -> Entries] :
        /\ open = With(Detach(book), Request("comments", t, ""))
        /\ \A s \in Slots : open[s] = Detach(book)[s] \/ open[s] = Request("comments", t, "")
  <2> DEFINE first == With(Detach(book), Request("comments", t, ""))
  <2>1. first \in [Slots -> Entries]
    BY <1>1, <1>2, WithFacts
  <2>2. \A s \in Slots : first[s] = Detach(book)[s] \/ first[s] = Request("comments", t, "")
    BY <1>1, <1>2, WithFacts
  <2> HIDE DEF first
  <2>3. \E open \in [Slots -> Entries] :
          /\ open = first
          /\ \A s \in Slots : open[s] = Detach(book)[s] \/ open[s] = Request("comments", t, "")
    BY <2>1, <2>2
  <2> QED
    BY <2>3 DEF first
<1>4. /\ With(open, Request("checklist", t, "")) \in [Slots -> Entries]
      /\ \A s \in Slots : \/ With(open, Request("checklist", t, ""))[s] = open[s]
                          \/ With(open, Request("checklist", t, ""))[s] = Request("checklist", t, "")
  BY <1>1, <1>3, WithFacts
<1>5. slots' = IF HasList(t) THEN With(open, Request("checklist", t, "")) ELSE open
  BY <1>3 DEF RenderTicketDetail
<1>6. /\ slots' \in [Slots -> Entries]
      /\ \A s \in Slots : \/ slots'[s] = Detach(book)[s]
                          \/ slots'[s] = Request("comments", t, "")
                          \/ slots'[s] = Request("checklist", t, "")
  BY <1>3, <1>4, <1>5
<1>7. screen' \in Screens /\ screen'.kind = "detail" /\ ~OnScan'
  BY PageFacts DEF RenderTicketDetail, DetailPage, OnScan, Screens
<1>8. \A s \in Slots : Weaker(slots'[s], slots[s]) \/ Fresh(slots'[s])
  <2>1. \A s \in Slots : Weaker(Detach(book)[s], book[s])
    BY DetachFacts
  <2>2. \A s \in Slots : Weaker(Detach(book)[s], slots[s])
    BY <2>1, WeakerIsTransitive
  <2> QED
    BY <1>1, <1>6, <2>2 DEF Fresh
<1>9. Captured'
  <2> SUFFICES ASSUME NEW s \in Slots
               PROVE  Captures(slots[s])'
    BY DEF Captured
  <2>1. CASE slots'[s] = Detach(book)[s]
    BY <2>1, DetachFacts DEF Captures
  <2>2. CASE slots'[s] \in {Request("comments", t, ""), Request("checklist", t, "")}
    BY <2>2, <1>1, <1>7 DEF Captures
  <2> QED
    BY <2>1, <2>2, <1>6
<1>10. FlagOffered'
  BY <1>7 DEF FlagOffered
<1>11. cameras' \subseteq [ticket : Holders, mode : {"part", "asset"}] /\ UNCHANGED <<taps, told>>
  BY DEF Quiet, PhoneInv, Shape
<1> QED
  BY <1>6, <1>7, <1>8, <1>9, <1>10, <1>11, Settled

(* A result takes the place of the result of a scan; at most a lookup is sent. *)
LEMMA ResultReplaced ==
    ASSUME PhoneInv, OnScan, NEW book \in [Slots -> Entries], NEW result \in Results,
           result.msg = "none",
           \A s \in Slots : Weaker(book[s], slots[s]),
           \A s \in Slots : Captures(book[s]),
           screen' = [screen EXCEPT !.result = result], slots' \in [Slots -> Entries],
           \A s \in Slots :
              \/ slots'[s] = DetachCard(book)[s]
              \/ slots'[s] \in Requests /\ slots'[s].op \in {"part", "asset"},
           cameras' \subseteq cameras, UNCHANGED <<booked, taps, told, short>>
    PROVE  PhoneInv'
<1>1. screen' \in ScanPages /\ OnScan' /\ screen'.result.msg = "none"
  BY ScreenFacts DEF ScanPages, OnScan
<1>2. \A s \in Slots : Weaker(slots'[s], slots[s]) \/ Fresh(slots'[s])
  BY DetachCardFacts, WeakerIsTransitive DEF Fresh
<1>3. Captured'
  <2> SUFFICES ASSUME NEW s \in Slots
               PROVE  Captures(slots[s])'
    BY DEF Captured
  <2>1. CASE slots'[s] = DetachCard(book)[s]
    <3>1. slots'[s].heard => slots'[s].op \notin {"consume", "flag", "comments", "checklist"}
      BY <2>1, DetachCardFacts, FreeFacts DEF Weaker, Captures, OnScan
    <3> QED
      BY <3>1, <1>1 DEF Captures
  <2>2. CASE slots'[s] \in Requests /\ slots'[s].op \in {"part", "asset"}
    BY <2>2, <1>1 DEF Captures
  <2> QED
    BY <2>1, <2>2
<1>4. FlagOffered'
  BY <1>1 DEF FlagOffered
<1>5. cameras' \subseteq [ticket : Holders, mode : {"part", "asset"}] /\ screen' \in Screens
  BY <1>1 DEF PhoneInv, Shape, Screens
<1> QED
  BY <1>2, <1>3, <1>4, <1>5, Settled

(* The page stays and at most one request is sent. *)
LEMMA Sent ==
    ASSUME PhoneInv, NEW book \in [Slots -> Entries],
           \A s \in Slots : Weaker(book[s], slots[s]),
           \A s \in Slots : Captures(book[s]),
           slots' \in [Slots -> Entries],
           \A s \in Slots : \/ slots'[s] = book[s]
                            \/ Fresh(slots'[s]) /\ Captures(slots'[s]),
           UNCHANGED <<screen, cameras, booked, taps, told, short>>
    PROVE  PhoneInv'
<1>1. Captured'
  BY DEF Captured, Captures, OnScan
<1>2. FlagOffered' /\ Shape
  BY DEF PhoneInv, Flagging, FlagOffered, OnScan
<1> QED
  BY <1>1, <1>2, Settled DEF Shape

LEMMA SlotsKept ==
    ASSUME PhoneInv
    PROVE  /\ slots \in [Slots -> Entries]
           /\ \A s \in Slots : Weaker(slots[s], slots[s]) /\ Captures(slots[s])
BY DEF PhoneInv, Shape, Captured, Weaker, Entries

-----------------------------------------------------------------------------
(* The technician's steps. *)
LEMMA ShowsTickets ==
    ASSUME PhoneInv, ShowTickets, UNCHANGED server
    PROVE  PhoneInv'
<1>1. NoTicket \in Holders /\ "" \in Args /\ "mine" \in Ops /\ Suits("mine", "")
  BY DEF Holders, Args, Ops, Suits
<1>2. Request("mine", NoTicket, "") \in Requests /\ Request("mine", NoTicket, "").op = "mine"
  BY <1>1, RequestFacts
<1>3. Detach(slots) \in [Slots -> Entries]
  BY SlotsKept, DetachFacts
<1>4. /\ slots' \in [Slots -> Entries]
      /\ \A s \in Slots : slots'[s] = Detach(slots)[s] \/ slots'[s] = Request("mine", NoTicket, "")
  <2>1. \A book \in [Slots -> Entries], r \in Requests :
           /\ With(book, r) \in [Slots -> Entries]
           /\ \A s \in Slots : With(book, r)[s] = book[s] \/ With(book, r)[s] = r
    BY WithFacts
  <2>2. slots' = With(Detach(slots), Request("mine", NoTicket, ""))
    BY DEF ShowTickets
  <2> QED
    BY <1>2, <1>3, <2>1, <2>2
<1>5. screen' \in Screens /\ ~OnScan' /\ screen'.kind # "detail"
  BY DEF ShowTickets, Screens, Loading, OnScan
<1> QED
  BY <1>2, <1>4, <1>5, SlotsKept, PageGone DEF ShowTickets, Quiet, server, PhoneInv, Shape

LEMMA ShowsTicketDetail ==
    ASSUME PhoneInv, NEW t \in Tickets, ShowTicketDetail(t), UNCHANGED server
    PROVE  PhoneInv'
<1>1. t \in Holders /\ "" \in Args /\ "detail" \in Ops /\ Suits("detail", "")
  BY DEF Holders, Args, Ops, Suits
<1>2. Request("detail", t, "") \in Requests /\ Request("detail", t, "").op = "detail"
  BY <1>1, RequestFacts
<1>3. Detach(slots) \in [Slots -> Entries]
  BY SlotsKept, DetachFacts
<1>4. /\ slots' \in [Slots -> Entries]
      /\ \A s \in Slots : slots'[s] = Detach(slots)[s] \/ slots'[s] = Request("detail", t, "")
  <2>1. \A book \in [Slots -> Entries], r \in Requests :
           /\ With(book, r) \in [Slots -> Entries]
           /\ \A s \in Slots : With(book, r)[s] = book[s] \/ With(book, r)[s] = r
    BY WithFacts
  <2>2. slots' = With(Detach(slots), Request("detail", t, ""))
    BY DEF ShowTicketDetail
  <2> QED
    BY <1>2, <1>3, <2>1, <2>2
<1>5. screen' \in Screens /\ ~OnScan' /\ screen'.kind # "detail"
  BY DEF ShowTicketDetail, Screens, Loading, OnScan
<1> QED
  BY <1>2, <1>4, <1>5, SlotsKept, PageGone DEF ShowTicketDetail, Quiet, server, PhoneInv, Shape

LEMMA Reopened ==
    ASSUME PhoneInv, Open, UNCHANGED server
    PROVE  PhoneInv'
<1>1. NoTicket \in Holders /\ "" \in Args /\ "mine" \in Ops /\ Suits("mine", "")
  BY DEF Holders, Args, Ops, Suits
<1>2. Request("mine", NoTicket, "") \in Requests /\ Request("mine", NoTicket, "").op = "mine"
  BY <1>1, RequestFacts
<1>3. Orphan(slots) \in [Slots -> Entries]
  BY SlotsKept, OrphanFacts
<1>4. /\ slots' \in [Slots -> Entries]
      /\ \A s \in Slots : slots'[s] = Orphan(slots)[s] \/ slots'[s] = Request("mine", NoTicket, "")
  BY <1>2, <1>3, WithFacts DEF Open
<1>5. screen' \in Screens /\ ~OnScan' /\ screen'.kind # "detail"
  BY DEF Open, Screens, Loading, OnScan
<1> QED
  BY <1>2, <1>4, <1>5, SlotsKept, PageGone DEF Open, server

LEMMA BackAtTicket ==
    ASSUME PhoneInv, BackToTicket, UNCHANGED server
    PROVE  PhoneInv'
<1>1. screen.ticket \in Holders
  BY ScreenFacts DEF BackToTicket, ScanPages
<1> QED
  BY <1>1, SlotsKept, RenderedDetail DEF BackToTicket, server

LEMMA Posted ==
    ASSUME PhoneInv, NEW op \in {"status", "comment", "respond"}, NEW t \in Holders,
           NEW arg \in Args, NEW r, r.op = op, Fresh(r), Captures(r), Post(r),
           UNCHANGED <<taps, server>>
    PROVE  PhoneInv'
<1>1. /\ slots' \in [Slots -> Entries]
      /\ \A s \in Slots : slots'[s] = slots[s] \/ slots'[s] = r
  BY SlotsKept, WithFacts DEF Post, Fresh
<1> QED
  BY <1>1, SlotsKept, Sent DEF Post, server, Fresh

LEMMA SubmitsOfTheDetailPage ==
    ASSUME PhoneInv, UNCHANGED server
    PROVE  /\ \A st \in Chosen : SubmitStatus(st) => PhoneInv'
           /\ SubmitComment => PhoneInv'
           /\ \A i \in Items : SubmitChecklistResponse(i) => PhoneInv'
<1>1. ASSUME NEW st \in Chosen, SubmitStatus(st)
      PROVE  PhoneInv'
  <2> DEFINE r == [Request("status", screen.ticket, st) EXCEPT !.heard = FALSE]
  <2>1. screen.ticket \in Holders /\ st \in Args /\ "status" \in Ops /\ Suits("status", st)
    BY <1>1, ScreenFacts DEF SubmitStatus, DetailPages, Holders, Args, Ops, Suits
  <2>2. Request("status", screen.ticket, st) \in Requests
    BY <2>1, RequestFacts
  <2>3. r \in Requests /\ r.op = "status" /\ ~r.heard
    BY <2>1, <2>2, RequestFacts DEF Requests
  <2>4. Fresh(r) /\ Captures(r)
    BY <2>3 DEF Fresh, Captures
  <2>5. Post(r) /\ UNCHANGED <<taps, server>>
    BY <1>1 DEF SubmitStatus
  <2> HIDE DEF r
  <2> QED
    BY <2>1, <2>3, <2>4, <2>5, Posted
<1>2. ASSUME SubmitComment
      PROVE  PhoneInv'
  <2> DEFINE r == Request("comment", screen.ticket, "")
  <2>1. screen.ticket \in Holders /\ "" \in Args /\ "comment" \in Ops /\ Suits("comment", "")
    BY <1>2, ScreenFacts DEF SubmitComment, DetailPages, Holders, Args, Ops, Suits
  <2>2. r \in Requests /\ r.op = "comment"
    BY <2>1, RequestFacts
  <2>3. Post(r) /\ UNCHANGED <<taps, server>>
    BY <1>2 DEF SubmitComment
  <2>4. Fresh(r) /\ Captures(r)
    BY <2>2 DEF Fresh, Captures
  <2> HIDE DEF r
  <2> QED
    BY <2>1, <2>2, <2>3, <2>4, Posted
<1>3. ASSUME NEW i \in Items, SubmitChecklistResponse(i)
      PROVE  PhoneInv'
  <2> DEFINE r == Request("respond", screen.checklist.of, i)
  <2>1. screen.checklist.of \in Holders /\ i \in Args /\ "respond" \in Ops /\ Suits("respond", i)
    BY <1>3, ScreenFacts DEF SubmitChecklistResponse, DetailPages, Panels, Args, Ops, Suits
  <2>2. r \in Requests /\ r.op = "respond"
    BY <2>1, RequestFacts
  <2>3. Post(r) /\ UNCHANGED <<taps, server>>
    BY <1>3 DEF SubmitChecklistResponse
  <2>4. Fresh(r) /\ Captures(r)
    BY <2>2 DEF Fresh, Captures
  <2> HIDE DEF r
  <2> QED
    BY <2>1, <2>2, <2>3, <2>4, Posted
<1> QED
  BY <1>1, <1>2, <1>3

LEMMA ShowsScan ==
    ASSUME PhoneInv, NEW t \in Holders, NEW mode \in {"part", "asset"}, ShowScan(t, mode),
           UNCHANGED server
    PROVE  PhoneInv'
<1>1. /\ screen' \in ScanPages /\ OnScan' /\ screen'.result.msg = "none"
  BY PageFacts DEF ShowScan, ScanPages, OnScan
<1>2. Detach(slots) \in [Slots -> Entries]
  BY SlotsKept, DetachFacts
<1>3. slots' = Detach(slots)
  BY DEF ShowScan
<1>4. Captured'
  BY <1>1, <1>3, SlotsKept, DetachFacts DEF Captured, Captures
<1>5. \A s \in Slots : Weaker(slots'[s], slots[s])
  BY <1>3, SlotsKept, DetachFacts
<1>6. cameras' \subseteq [ticket : Holders, mode : {"part", "asset"}]
  BY DEF ShowScan, PhoneInv, Shape
<1>7. FlagOffered' /\ screen' \in Screens
  BY <1>1 DEF FlagOffered, Screens
<1> QED
  BY <1>2, <1>3, <1>4, <1>5, <1>6, <1>7, Settled DEF ShowScan, server

LEMMA HandlesCode ==
    ASSUME PhoneInv, OnScan, NEW code \in Codes, NEW t \in Holders, NEW mode \in {"part", "asset"},
           HandleScannedCode(code, t, mode), cameras' \subseteq cameras,
           UNCHANGED <<taps, told, server>>
    PROVE  PhoneInv'
<1>1. t \in Holders /\ code \in Args /\ mode \in Ops /\ Suits(mode, code)
  BY DEF Args, Ops, Suits
<1>2. Request(mode, t, code) \in Requests /\ Request(mode, t, code).op = mode
  BY <1>1, RequestFacts
<1>3. DetachCard(slots) \in [Slots -> Entries]
  BY SlotsKept, DetachCardFacts
<1>4. slots' = With(DetachCard(slots), Request(mode, t, code))
  BY DEF HandleScannedCode
<1>5. /\ slots' \in [Slots -> Entries]
      /\ \A s \in Slots : slots'[s] = DetachCard(slots)[s] \/ slots'[s] = Request(mode, t, code)
  BY <1>2, <1>3, <1>4, WithFacts
<1>6. screen' = [screen EXCEPT !.result = NoResult("looking")]
      /\ NoResult("looking") \in Results /\ NoResult("looking").msg = "none"
  BY PageFacts DEF HandleScannedCode
<1>7. UNCHANGED <<booked, taps, told, short>>
  BY DEF server
<1> QED
  BY <1>2, <1>5, <1>6, <1>7, SlotsKept, ResultReplaced

LEMMA LooksUp ==
    ASSUME PhoneInv, UNCHANGED server
    PROVE  /\ \A code \in Codes : SubmitCode(code) => PhoneInv'
           /\ \A c \in cameras : NoCamera(c) => PhoneInv'
           /\ \A c \in cameras, code \in Codes : Detect(c, code) => PhoneInv'
<1>1. ASSUME NEW code \in Codes, SubmitCode(code)
      PROVE  PhoneInv'
  <2>1. OnScan /\ screen.ticket \in Holders /\ screen.mode \in {"part", "asset"}
    BY <1>1, ScreenFacts DEF SubmitCode, ScanPages
  <2>2. /\ HandleScannedCode(code, screen.ticket, screen.mode)
        /\ cameras' \subseteq cameras /\ UNCHANGED <<taps, told, server>>
    BY <1>1 DEF SubmitCode, Quiet
  <2> QED
    BY <2>1, <2>2, HandlesCode
<1>2. ASSUME NEW c \in cameras, NoCamera(c)
      PROVE  PhoneInv'
  <2>1. Captured' /\ FlagOffered' /\ Shape
    <3>1. UNCHANGED <<screen, slots, short>>
      BY <1>2 DEF NoCamera, server
    <3>2. Captured /\ FlagOffered /\ Shape
      BY DEF PhoneInv, Flagging
    <3>3. Captured'
      BY <3>1, <3>2 DEF Captured, Captures, OnScan
    <3>4. FlagOffered'
      BY <3>1, <3>2 DEF FlagOffered, OnScan
    <3> QED
      BY <3>2, <3>3, <3>4
  <2> QED
    BY <1>2, <2>1, SlotsKept, Settled DEF NoCamera, Shape, server
<1>3. ASSUME NEW c \in cameras, NEW code \in Codes, Detect(c, code)
      PROVE  PhoneInv'
  <2>1. OnScan /\ c.ticket \in Holders /\ c.mode \in {"part", "asset"}
    BY <1>3 DEF Detect, PhoneInv, Shape
  <2>2. /\ HandleScannedCode(code, c.ticket, c.mode)
        /\ cameras' \subseteq cameras /\ UNCHANGED <<taps, told, server>>
    BY <1>3 DEF Detect
  <2> QED
    BY <2>1, <2>2, HandlesCode
<1> QED
  BY <1>1, <1>2, <1>3

LEMMA FlagsWaitingOnParts ==
    ASSUME PhoneInv, FlagWaitingOnParts, UNCHANGED server
    PROVE  PhoneInv'
<1> DEFINE r == Request("flag", screen.result.of, "WAITING_ON_PARTS")
<1>1. screen.result.of \in Holders /\ "WAITING_ON_PARTS" \in Args /\ "flag" \in Ops
      /\ Suits("flag", "WAITING_ON_PARTS")
  BY ScreenFacts DEF FlagWaitingOnParts, ScanPages, Results, Args, Ops, Suits
<1>2. r \in Requests /\ r.op = "flag" /\ r.ticket = screen.result.of
  BY <1>1, RequestFacts
<1>3. Fresh(r) /\ Captures(r)
  BY <1>2 DEF Fresh, Captures, FlagWaitingOnParts, PhoneInv, Flagging, FlagOffered
<1>4. slots' = With(slots, r)
  BY DEF FlagWaitingOnParts
<1>5. UNCHANGED <<screen, cameras, booked, taps, told, short>>
  BY DEF FlagWaitingOnParts, Quiet, server
<1> HIDE DEF r
<1>6. /\ slots' \in [Slots -> Entries]
      /\ \A s \in Slots : slots'[s] = slots[s] \/ slots'[s] = r
  BY <1>2, <1>4, SlotsKept, WithFacts
<1> QED
  BY <1>2, <1>3, <1>5, <1>6, SlotsKept, Sent

(* The counts are of finite sets. *)
LEMMA Counts ==
    \A t \in Tickets : /\ IsFiniteSet(Asking(t)) /\ Cardinality(Asking(t)) \in Nat
                       /\ IsFiniteSet(Telling(t)) /\ Cardinality(Telling(t)) \in Nat
                       /\ IsFiniteSet(Asking(t)') /\ Cardinality(Asking(t)') \in Nat
                       /\ IsFiniteSet(Telling(t)') /\ Cardinality(Telling(t)') \in Nat
BY PhoneAssumption, FS_Subset, FS_CardinalityType DEF Asking, Telling

(* A tap sends a booking: one more tap, at most one more to be answered. *)
LEMMA BooksPart ==
    ASSUME PhoneInv, NEW l \in Stocked, NEW q \in Quantities, BookPart(l, q), UNCHANGED server
    PROVE  PhoneInv'
<1> DEFINE r == Request("consume", screen.result.of, <<l, q>>)
<1>1. screen.result.of \in Holders /\ <<l, q>> \in Args /\ "consume" \in Ops
      /\ Suits("consume", <<l, q>>)
  BY ScreenFacts DEF BookPart, ScanPages, Results, Args, Ops, Suits
<1>2. r \in Requests /\ r.op = "consume" /\ r.ticket = screen.result.of /\ r.answer = Pending
  BY <1>1, RequestFacts
<1>3. slots' = With(slots, r)
  BY DEF BookPart, Post
<1>4. UNCHANGED <<screen, cameras, booked, told, short>>
      /\ taps' = [taps EXCEPT ![screen.result.of] = @ + 1]
  BY DEF BookPart, Post, server
<1>5. OnScan
  BY DEF BookPart
<1> HIDE DEF r
<1>6. slots' \in [Slots -> Entries]
  BY <1>2, <1>3, SlotsKept, WithFacts
<1>7. PICK n : \A s \in Slots : slots'[s] = IF s = n THEN r ELSE slots[s]
  <2>1. \E n : \A s \in Slots : With(slots, r)[s] = IF s = n THEN r ELSE slots[s]
    BY <1>2, SlotsKept, WithFacts
  <2> QED
    BY <1>3, <2>1
<1>8. Shape'
  <2>1. taps' \in [Tickets -> Nat]
    <3>1. taps \in [Tickets -> Nat]
      BY DEF PhoneInv, Shape
    <3> DEFINE of == screen.result.of
    <3>2. of \in Tickets /\ taps' = [taps EXCEPT ![of] = @ + 1]
      BY <1>1, <1>4 DEF BookPart, Holders
    <3> HIDE DEF of
    <3> QED
      BY <3>1, <3>2
  <2> QED
    BY <1>4, <1>6, <2>1 DEF PhoneInv, Shape
<1>9. Captured'
  BY <1>2, <1>4, <1>5, <1>7 DEF PhoneInv, Captured, Captures, OnScan
<1>10. Flagging'
  BY <1>2, <1>4, <1>7, OutcomeFacts
     DEF PhoneInv, Flagging, ShortageTold, FlagSent, FlagOffered, OnScan
<1>11. ASSUME NEW t \in Tickets
       PROVE  /\ told[t]' + Cardinality(Telling(t)') <= booked[t]'
              /\ booked[t]' + Cardinality(Asking(t)') <= taps[t]'
  <2>1. Telling(t)' \subseteq Telling(t)
    BY <1>2, <1>7, OutcomeFacts DEF Telling
  <2>2. Cardinality(Telling(t)') <= Cardinality(Telling(t))
    BY <2>1, Counts, FS_Subset
  <2>3. CASE t = screen.result.of
    <3>1. Asking(t)' \subseteq Asking(t) \cup {n}
      BY <1>7 DEF Asking
    <3>2. /\ IsFiniteSet(Asking(t) \cup {n})
          /\ Cardinality(Asking(t) \cup {n}) \in Nat
          /\ Cardinality(Asking(t) \cup {n}) <= Cardinality(Asking(t)) + 1
      <4>1. IsFiniteSet(Asking(t)) /\ Cardinality(Asking(t)) \in Nat
        BY Counts
      <4>2. /\ IsFiniteSet(Asking(t) \cup {n})
            /\ \/ Cardinality(Asking(t) \cup {n}) = Cardinality(Asking(t))
               \/ Cardinality(Asking(t) \cup {n}) = Cardinality(Asking(t)) + 1
        BY <4>1, FS_AddElement
      <4> QED
        BY <4>1, <4>2
    <3>3. Cardinality(Asking(t)') <= Cardinality(Asking(t) \cup {n})
      BY <3>1, <3>2, FS_Subset
    <3>4. taps[t]' = taps[t] + 1
      BY <1>4, <2>3 DEF PhoneInv, Shape
    <3> QED
      BY <1>4, <2>2, <3>2, <3>3, <3>4, Counts DEF PhoneInv, Shape, Counted
  <2>4. CASE t # screen.result.of
    <3>1. Asking(t)' \subseteq Asking(t)
      BY <1>2, <1>7, <2>4 DEF Asking
    <3>2. Cardinality(Asking(t)') <= Cardinality(Asking(t))
      BY <3>1, Counts, FS_Subset
    <3>3. taps[t]' = taps[t]
      BY <1>4, <2>4 DEF PhoneInv, Shape
    <3> QED
      BY <1>4, <2>2, <3>2, <3>3, Counts DEF PhoneInv, Shape, Counted
  <2> QED
    BY <2>3, <2>4
<1> QED
  BY <1>8, <1>9, <1>10, <1>11 DEF PhoneInv, Counted

-----------------------------------------------------------------------------
(* What the server answers, and does. *)
LEMMA Responds ==
    ASSUME NEW r \in Requests
    PROVE  /\ Response(r) \in Outcomes
           /\ r.op = "consume" => Response(r).data = {}
           /\ Response(r).flag => ~Response(r).ok
<1>1. /\ \A data \in SUBSET Data : Done(data) \in Outcomes /\ ~Done(data).flag
      /\ Refusal \in Outcomes /\ Shortage \in Outcomes
      /\ ~Refusal.ok /\ ~Refusal.flag /\ ~Shortage.ok
      /\ Done({}).data = {} /\ Refusal.data = {} /\ Shortage.data = {}
  BY DEF Done, Refusal, Shortage, Outcomes
<1>2. CASE ~Admitted(r)
  BY <1>1, <1>2 DEF Response
<1>3. CASE Admitted(r) /\ r.op = "mine"
  <2>1. {t \in Tickets : InScope(t) /\ status[t] # "CLOSED"} \in SUBSET Data
    BY DEF Data
  <2> QED
    BY <1>1, <1>3, <2>1 DEF Response, Mine
<1>4. CASE Admitted(r) /\ r.op \in {"detail", "checklist"}
  <2>1. Checklist[r.ticket] \in SUBSET Data
    BY DEF Data, Listed, Requests
  <2> QED
    BY <1>1, <1>4, <2>1 DEF Response, Detail
<1>5. CASE Admitted(r) /\ r.op = "part"
  <2>1. {l \in Stocked : InScope(l)} \in SUBSET Data
    BY ApiAssumption DEF Data
  <2> QED
    BY <1>1, <1>5, <2>1 DEF Response, Levels
<1>6. CASE Admitted(r) /\ r.op \in {"asset", "respond"}
  BY <1>1, <1>6 DEF Response, AssetAt
<1>7. CASE Admitted(r) /\ r.op = "consume"
  BY <1>1, <1>7 DEF Response, Consumption
<1>8. CASE /\ Admitted(r)
           /\ r.op \notin {"mine", "detail", "checklist", "part", "asset", "respond", "consume"}
  BY <1>1, <1>8 DEF Response
<1> QED
  BY <1>2, <1>3, <1>4, <1>5, <1>6, <1>7, <1>8

LEMMA Handled ==
    ASSUME NEW r \in Requests, Handle(r)
    PROVE  /\ short \subseteq short'
           /\ Response(r).flag => r.ticket \in short'
           /\ IF r.op = "consume" /\ Response(r).ok
              THEN booked' = [booked EXCEPT ![r.ticket] = @ + 1]
              ELSE booked' = booked
<1>1. CASE ~Response(r).ok
  BY <1>1 DEF Handle, Refuse
<1>2. CASE Response(r).ok
  BY <1>2, Responds
     DEF Handle, UpdateStatus, PostComment, PostResponse, ConsumePart, Read, server
<1> QED
  BY <1>1, <1>2

LEMMA OneMore ==
    ASSUME NEW f \in [Tickets -> Nat], NEW x
    PROVE  /\ [f EXCEPT ![x] = @ + 1] \in [Tickets -> Nat]
           /\ \A t \in Tickets : [f EXCEPT ![x] = @ + 1][t] = IF t = x THEN f[t] + 1 ELSE f[t]
<1>1. CASE x \in Tickets
  BY <1>1
<1>2. CASE x \notin Tickets
  <2>1. [f EXCEPT ![x] = @ + 1] = f
    BY <1>2
  <2> QED
    BY <1>2, <2>1
<1> QED
  BY <1>1, <1>2

(* A booking that is done is one more, and one less to be answered. *)
LEMMA Serves ==
    ASSUME PhoneInv, NEW s \in Slots, Serve(s)
    PROVE  PhoneInv'
<1> DEFINE r == slots[s]
<1> DEFINE answered == [r EXCEPT !.answer = Response(r)]
<1>1. r \in Requests /\ r.answer = Pending /\ Handle(r)
  BY FreeFacts DEF Serve, PhoneInv, Shape, Entries, Free
<1>2. slots' = [slots EXCEPT ![s] = IF r.heard THEN answered ELSE Free]
  BY DEF Serve
<1>3. UNCHANGED <<screen, cameras, taps, told>>
  BY DEF Serve
<1>4. /\ answered \in Requests /\ answered.op = r.op /\ answered.ticket = r.ticket
      /\ answered.heard = r.heard /\ answered.live = r.live /\ answered.answer = Response(r)
  BY <1>1, Responds DEF Requests
<1> DEFINE after == IF r.heard THEN answered ELSE Free
<1>5. after \in Entries /\ slots' = [slots EXCEPT ![s] = after]
  BY <1>2, <1>4 DEF Entries
<1>6. \/ after = Free
      \/ /\ after.op = r.op /\ after.ticket = r.ticket /\ after.heard = r.heard
         /\ after.live = r.live /\ after.answer = Response(r)
  BY <1>4
<1> HIDE DEF answered, after
<1>7. slots' \in [Slots -> Entries] /\ slots'[s] = after
      /\ \A n \in Slots \ {s} : slots'[n] = slots[n]
  BY <1>5 DEF PhoneInv, Shape
<1>8. booked' \in [Tickets -> Nat]
  BY <1>1, Handled, OneMore DEF PhoneInv, Shape
<1>9. Shape'
  BY <1>3, <1>7, <1>8 DEF PhoneInv, Shape
<1>10. Captured'
  BY <1>3, <1>6, <1>7, FreeFacts DEF PhoneInv, Captured, Captures, OnScan
<1>11. Flagging'
  <2>1. short \subseteq short' /\ (Response(r).flag => r.ticket \in short')
    BY <1>1, Handled
  <2>2. ShortageTold'
    BY <2>1, <1>6, <1>7, FreeFacts DEF PhoneInv, Flagging, ShortageTold
  <2>3. FlagSent'
    BY <2>1, <1>6, <1>7, FreeFacts DEF PhoneInv, Flagging, FlagSent
  <2>4. FlagOffered'
    BY <2>1, <1>3 DEF PhoneInv, Flagging, FlagOffered, OnScan
  <2> QED
    BY <2>2, <2>3, <2>4 DEF Flagging
<1>12. ASSUME NEW t \in Tickets
       PROVE  /\ told[t]' + Cardinality(Telling(t)') <= booked[t]'
              /\ booked[t]' + Cardinality(Asking(t)') <= taps[t]'
  <2>1. /\ told[t] \in Nat /\ booked[t] \in Nat /\ taps[t] \in Nat
        /\ told[t] + Cardinality(Telling(t)) <= booked[t]
        /\ booked[t] + Cardinality(Asking(t)) <= taps[t]
    BY DEF PhoneInv, Shape, Counted
  <2>2. CASE r.op = "consume" /\ Response(r).ok /\ r.ticket = t
    <3>1. booked'[t] = booked[t] + 1
      BY <2>2, <1>1, Handled, OneMore DEF PhoneInv, Shape
    <3>2. Response(r) # Pending
      BY <1>1, <2>2, OutcomeFacts
    <3>3. s \in Asking(t) /\ Asking(t)' \subseteq Asking(t) \ {s}
      BY <2>2, <3>2, <1>1, <1>6, <1>7, FreeFacts DEF Asking
    <3>4. Telling(t)' \subseteq Telling(t) \cup {s}
      BY <1>7 DEF Telling
    <3>5. /\ IsFiniteSet(Asking(t) \ {s})
          /\ Cardinality(Asking(t) \ {s}) = Cardinality(Asking(t)) - 1
      BY <3>3, Counts, FS_RemoveElement
    <3>6. /\ IsFiniteSet(Telling(t) \cup {s})
          /\ \/ Cardinality(Telling(t) \cup {s}) = Cardinality(Telling(t))
             \/ Cardinality(Telling(t) \cup {s}) = Cardinality(Telling(t)) + 1
      BY Counts, FS_AddElement
    <3>7. /\ Cardinality(Asking(t)') <= Cardinality(Asking(t) \ {s})
          /\ Cardinality(Telling(t)') <= Cardinality(Telling(t) \cup {s})
      BY <3>3, <3>4, <3>5, <3>6, FS_Subset
    <3> QED
      BY <2>1, <3>1, <3>5, <3>6, <3>7, <1>3, Counts
  <2>3. CASE ~(r.op = "consume" /\ Response(r).ok /\ r.ticket = t)
    <3>1. booked'[t] = booked[t]
      BY <2>3, <1>1, Handled, OneMore DEF PhoneInv, Shape
    <3>2. r.op = "consume" => Response(r) # Pending
      <4>1. {} # {"pending"}
        OBVIOUS
      <4> QED
        BY <4>1, <1>1, Responds DEF Pending
    <3>3. Asking(t)' \subseteq Asking(t)
      BY <3>2, <1>6, <1>7, FreeFacts DEF Asking
    <3>4. Telling(t)' \subseteq Telling(t)
      BY <2>3, <1>6, <1>7, FreeFacts DEF Telling
    <3>5. /\ Cardinality(Asking(t)') <= Cardinality(Asking(t))
          /\ Cardinality(Telling(t)') <= Cardinality(Telling(t))
      BY <3>3, <3>4, Counts, FS_Subset
    <3> QED
      BY <2>1, <3>1, <3>5, <1>3, Counts
  <2> QED
    BY <2>2, <2>3
<1> QED
  BY <1>9, <1>10, <1>11, <1>12 DEF PhoneInv, Counted

-----------------------------------------------------------------------------
(* What the app makes of an answer. *)
LEMMA Heard ==
    ASSUME PhoneInv, NEW s \in Slots, slots[s].heard, NEW answer \in Answers(s)
    PROVE  /\ slots[s] \in Requests
           /\ answer[1] \in Outcomes
           /\ answer[2] \in [Slots -> Entries]
           /\ \A n \in Slots : Weaker(answer[2][n], slots[n]) /\ Captures(answer[2][n])
           /\ answer[1].ok \/ answer[1].flag =>
                 /\ answer[1] = slots[s].answer
                 /\ answer[2] = [slots EXCEPT ![s] = Free]
<1> DEFINE r == slots[s]
           gone == [slots EXCEPT ![s] = Free]
           late == [slots EXCEPT ![s].heard = FALSE]
<1>1. r \in Requests
  BY FreeFacts DEF PhoneInv, Shape, Entries
<1>2. /\ gone \in [Slots -> Entries]
      /\ \A n \in Slots : Weaker(gone[n], slots[n]) /\ Captures(gone[n])
  BY SlotFreed
<1>3. /\ late \in [Slots -> Entries]
      /\ \A n \in Slots : Weaker(late[n], slots[n]) /\ Captures(late[n])
  <2>1. [r EXCEPT !.heard = FALSE] \in Requests
    BY <1>1 DEF Requests
  <2>2. late = [slots EXCEPT ![s] = [r EXCEPT !.heard = FALSE]]
    OBVIOUS
  <2>3. late \in [Slots -> Entries]
    BY <2>1, <2>2, SlotsKept DEF Entries
  <2>4. ASSUME NEW n \in Slots, n # s
        PROVE  Weaker(late[n], slots[n]) /\ Captures(late[n])
    BY <2>2, <2>4, SlotsKept
  <2>5. late[s] = [r EXCEPT !.heard = FALSE]
    BY <2>2, SlotsKept
  <2>6. Weaker(late[s], slots[s]) /\ Captures(late[s])
    BY <1>1, <2>1, <2>5 DEF Weaker, Captures, Requests
  <2> QED
    BY <2>3, <2>4, <2>6
<1>4. answer = <<Lost, gone>> \/ answer = <<r.answer, gone>> \/ answer = <<Lost, late>>
  BY DEF Answers
<1>5. r.answer \in Outcomes
  BY <1>1 DEF Requests
<1> HIDE DEF gone, late
<1>6. CASE answer = <<r.answer, gone>>
  BY <1>1, <1>2, <1>5, <1>6 DEF gone
<1>7. CASE answer = <<Lost, gone>> \/ answer = <<Lost, late>>
  BY <1>1, <1>2, <1>3, <1>7, OutcomeFacts
<1> QED
  BY <1>4, <1>6, <1>7

(* The page stays, and so does what it shows. *)
LEMMA Forgotten ==
    ASSUME PhoneInv, NEW book \in [Slots -> Entries],
           \A n \in Slots : Weaker(book[n], slots[n]) /\ Captures(book[n]),
           slots' = book, UNCHANGED <<screen, cameras, booked, taps, told, short>>
    PROVE  PhoneInv'
BY Sent

LEMMA HearsPages ==
    ASSUME PhoneInv, NEW r \in Requests, NEW o \in Outcomes, NEW book \in [Slots -> Entries],
           \A n \in Slots : Weaker(book[n], slots[n]) /\ Captures(book[n]),
           UNCHANGED server
    PROVE  /\ OnTickets(r, o, book) => PhoneInv'
           /\ OnTicketDetail(r, o, book) => PhoneInv'
<1>1. Detach(book) \in [Slots -> Entries] /\ UNCHANGED <<booked, short>>
  BY DetachFacts DEF server
<1>2. /\ ErrorPage \in Screens /\ ErrorPage.kind = "error"
      /\ \A shown \in SUBSET Data : /\ TicketList(shown) \in Screens
                                    /\ TicketList(shown).kind = "tickets"
  BY DEF Screens, ErrorPage, TicketList
<1>3. o.data \in SUBSET Data /\ r.ticket \in Holders
  BY DEF Outcomes, Requests
<1>4. ASSUME slots' = Detach(book), screen' \in Screens, screen'.kind \in {"error", "tickets"}, Quiet
      PROVE  PhoneInv'
  <2>1. ~OnScan' /\ screen'.kind # "detail"
    BY <1>4 DEF OnScan
  <2>2. cameras' \subseteq [ticket : Holders, mode : {"part", "asset"}]
        /\ UNCHANGED <<booked, taps, told, short>>
    BY <1>1, <1>4 DEF Quiet, PhoneInv, Shape
  <2>3. \A s \in Slots : slots'[s] = Detach(book)[s]
    BY <1>4
  <2> QED
    BY <1>1, <1>4, <2>1, <2>2, <2>3, PageGone
<1>5. OnTickets(r, o, book) => PhoneInv'
  BY <1>2, <1>3, <1>4 DEF OnTickets
<1>6. OnTicketDetail(r, o, book) => PhoneInv'
  <2>1. CASE o.ok
    BY <1>1, <1>3, <2>1, RenderedDetail DEF OnTicketDetail
  <2>2. CASE ~o.ok
    BY <1>2, <1>4, <2>2 DEF OnTicketDetail
  <2> QED
    BY <2>1, <2>2
<1> QED
  BY <1>5, <1>6

LEMMA HearsLists ==
    ASSUME PhoneInv, NEW r \in Requests, NEW o \in Outcomes, NEW book \in [Slots -> Entries],
           \A n \in Slots : Weaker(book[n], slots[n]) /\ Captures(book[n]),
           Captures(r), r.heard, UNCHANGED server
    PROVE  /\ OnList(r, o, book) => PhoneInv'
           /\ OnPosted(r, o, book) => PhoneInv'
<1>1. ASSUME OnList(r, o, book)
      PROVE  PhoneInv'
  <2>1. screen \in DetailPages
    BY <1>1, ScreenFacts DEF OnList, Captures
  <2>2. ASSUME NEW panel \in Panels
        PROVE  PanelAfter(panel, r, o) \in Panels
    BY DEF PanelAfter, Panel, Panels, Outcomes, Requests, Holders
  <2>3. screen' \in DetailPages
    <3>1. CASE r.op = "comments"
      <4>1. screen' = [screen EXCEPT !.comments = PanelAfter(screen.comments, r, o)]
        BY <1>1, <3>1 DEF OnList
      <4> QED
        BY <2>1, <2>2, <4>1 DEF DetailPages
    <3>2. CASE r.op = "checklist"
      <4>1. screen' = [screen EXCEPT !.checklist = PanelAfter(screen.checklist, r, o)]
        BY <1>1, <3>2 DEF OnList
      <4> QED
        BY <2>1, <2>2, <4>1 DEF DetailPages
    <3> QED
      BY <1>1, <3>1, <3>2 DEF OnList
  <2>4. screen.kind = "detail" /\ screen'.kind = "detail" /\ ~OnScan /\ ~OnScan'
    BY <2>1, <2>3 DEF DetailPages, OnScan
  <2>5. Captured' /\ FlagOffered' /\ screen' \in Screens
    BY <1>1, <2>3, <2>4 DEF OnList, Captured, Captures, FlagOffered, Screens
  <2>6. cameras' \subseteq [ticket : Holders, mode : {"part", "asset"}]
        /\ UNCHANGED <<booked, taps, told, short>>
    BY <1>1 DEF OnList, Quiet, PhoneInv, Shape, server
  <2> QED
    BY <1>1, <2>5, <2>6, Settled DEF OnList
<1>2. ASSUME OnPosted(r, o, book)
      PROVE  PhoneInv'
  <2> DEFINE list == IF r.op = "comment" THEN "comments" ELSE "checklist"
  <2> DEFINE again == Request(list, r.ticket, "")
  <2>1. /\ r.ticket \in Holders /\ "" \in Args
        /\ list \in Ops /\ list \in {"comments", "checklist"} /\ Suits(list, "")
    BY DEF Requests, Args, Ops, Suits
  <2> HIDE DEF list
  <2>2. again \in Requests /\ again.op \in {"comments", "checklist"}
    <3>1. Request(list, r.ticket, "") \in Requests /\ Request(list, r.ticket, "").op = list
      BY <2>1, RequestFacts
    <3> QED
      BY <2>1, <3>1
  <2>3. UNCHANGED <<screen, cameras, booked, taps, told, short>>
    BY <1>2 DEF OnPosted, Quiet, server
  <2>4. CASE slots' = book
    BY <2>3, <2>4, Forgotten
  <2>5. CASE slots' = With(book, again) /\ screen.kind = "detail"
    <3>1. Fresh(again) /\ Captures(again)
      BY <2>2, <2>5 DEF Fresh, Captures
    <3> HIDE DEF again
    <3>2. slots' \in [Slots -> Entries] /\ \A s \in Slots : slots'[s] = book[s] \/ slots'[s] = again
      BY <2>2, <2>5, WithFacts
    <3> QED
      BY <2>3, <3>1, <3>2, Sent
  <2> QED
    BY <1>2, <2>4, <2>5 DEF OnPosted, list
<1> QED
  BY <1>1, <1>2

LEMMA HearsLookups ==
    ASSUME PhoneInv, NEW r \in Requests, NEW o \in Outcomes, NEW book \in [Slots -> Entries],
           \A n \in Slots : Weaker(book[n], slots[n]) /\ Captures(book[n]),
           Captures(r), r.heard, UNCHANGED server
    PROVE  /\ OnPart(r, o, book) => PhoneInv'
           /\ OnAsset(r, o, book) => PhoneInv'
<1>1. DetachCard(book) \in [Slots -> Entries] /\ Orphan(book) \in [Slots -> Entries]
  BY DetachCardFacts, OrphanFacts
<1>2. ASSUME OnScan, NEW result \in Results, result.msg = "none", slots' = DetachCard(book),
             screen' = [screen EXCEPT !.result = result], UNCHANGED <<cameras, taps, told>>
      PROVE  PhoneInv'
  BY <1>1, <1>2, ResultReplaced DEF server
<1>3. ASSUME slots' = book, UNCHANGED <<screen, cameras, taps, told>>
      PROVE  PhoneInv'
  BY <1>3, Forgotten DEF server
<1>4. \A state \in {"failed", "none"} : NoResult(state) \in Results /\ NoResult(state).msg = "none"
  BY PageFacts
<1>5. ASSUME OnPart(r, o, book)
      PROVE  PhoneInv'
  <2> DEFINE result == IF ~o.ok THEN NoResult("failed")
                       ELSE IF o.data = {} THEN NoResult("none")
                       ELSE Result("card", r.ticket, o.data, "none")
  <2>1. Result("card", r.ticket, o.data, "none") \in Results
        /\ Result("card", r.ticket, o.data, "none").msg = "none"
    BY DEF Result, Results, Requests, Outcomes
  <2>2. result \in Results /\ result.msg = "none"
    BY <1>4, <2>1
  <2>3. (IF o.ok THEN OnScan ELSE r.live) => OnScan
    BY <1>5 DEF OnPart, Captures
  <2>4. CASE IF o.ok THEN OnScan ELSE r.live
    <3>1. screen' = [screen EXCEPT !.result = result] /\ slots' = DetachCard(book)
          /\ UNCHANGED <<cameras, taps, told>>
      BY <1>5, <2>4 DEF OnPart, Quiet
    <3> HIDE DEF result
    <3> QED
      BY <1>2, <2>2, <2>3, <2>4, <3>1
  <2>5. CASE ~(IF o.ok THEN OnScan ELSE r.live)
    BY <1>3, <1>5, <2>5 DEF OnPart, Quiet
  <2> QED
    BY <2>4, <2>5
<1>6. ASSUME OnAsset(r, o, book)
      PROVE  PhoneInv'
  <2>1. CASE o.ok
    <3>1. screen' \in Screens /\ ~OnScan' /\ screen'.kind # "detail"
      BY <1>6, <2>1 DEF OnAsset, Left, Screens, OnScan
    <3>2. slots' = Orphan(book) /\ cameras' = {} /\ UNCHANGED <<booked, taps, told, short>>
      BY <1>6, <2>1 DEF OnAsset, server
    <3> QED
      BY <1>1, <3>1, <3>2, PageGone
  <2>2. CASE ~o.ok /\ r.live
    <3>1. OnScan
      BY <1>6, <2>2 DEF OnAsset, Captures
    <3> QED
      BY <1>2, <1>4, <1>6, <2>2, <3>1 DEF OnAsset
  <2>3. CASE ~o.ok /\ ~r.live
    BY <1>3, <1>6, <2>3 DEF OnAsset
  <2> QED
    BY <2>1, <2>2, <2>3
<1> QED
  BY <1>5, <1>6

(* A message beside the buttons of the result on the screen. *)
LEMMA Messages ==
    ASSUME PhoneInv, OnScan, NEW msg \in {"booked", "failed", "flag", "flagged"}, Message(msg)
    PROVE  /\ screen' \in Screens /\ OnScan' /\ screen'.result.of = screen.result.of
           /\ screen'.result.msg = msg
           /\ \A r : Captures(r) => Captures(r)'
<1>1. screen \in ScanPages
  BY ScreenFacts
<1>2. screen.result \in Results /\ screen' = [screen EXCEPT !.result = [@ EXCEPT !.msg = msg]]
  BY <1>1 DEF Message, ScanPages
<1>3. [screen.result EXCEPT !.msg = msg] \in Results
      /\ [screen.result EXCEPT !.msg = msg].of = screen.result.of
      /\ [screen.result EXCEPT !.msg = msg].msg = msg
  BY <1>2 DEF Results
<1>4. screen' \in ScanPages /\ screen'.result = [screen.result EXCEPT !.msg = msg]
  BY <1>1, <1>2, <1>3 DEF ScanPages
<1> QED
  BY <1>1, <1>3, <1>4 DEF Screens, ScanPages, OnScan, Captures

LEMMA Told ==
    ASSUME PhoneInv, OnScan, NEW msg \in {"booked", "failed", "flag", "flagged"}, Message(msg),
           NEW book \in [Slots -> Entries],
           \A n \in Slots : Weaker(book[n], slots[n]) /\ Captures(book[n]),
           msg = "flag" => screen.result.of \in short,
           slots' = book, UNCHANGED <<cameras, booked, taps, told, short>>
    PROVE  PhoneInv'
<1>1. /\ screen' \in Screens /\ OnScan' /\ screen'.result.of = screen.result.of
      /\ screen'.result.msg = msg
      /\ \A r : Captures(r) => Captures(r)'
  BY Messages
<1>2. Captured'
  BY <1>1 DEF Captured, Captures
<1>3. FlagOffered' /\ cameras' \subseteq [ticket : Holders, mode : {"part", "asset"}]
  BY <1>1 DEF FlagOffered, PhoneInv, Shape
<1> QED
  BY <1>1, <1>2, <1>3, Settled

LEMMA HearsFlagged ==
    ASSUME PhoneInv, NEW r \in Requests, NEW o \in Outcomes, NEW book \in [Slots -> Entries],
           \A n \in Slots : Weaker(book[n], slots[n]) /\ Captures(book[n]),
           Captures(r), r.heard, UNCHANGED server, OnFlagged(r, o, book)
    PROVE  PhoneInv'
<1> DEFINE msg == IF o.ok THEN "flagged" ELSE "failed"
<1>1. OnScan /\ Message(msg) /\ msg \in {"booked", "failed", "flag", "flagged"} /\ msg # "flag"
  BY DEF OnFlagged, Captures
<1>2. slots' = book /\ UNCHANGED <<cameras, booked, taps, told, short>>
  BY DEF OnFlagged, Quiet, server
<1> HIDE DEF msg
<1> QED
  BY <1>1, <1>2, Told

(* "Booked": one more is told of, one less to be told of. *)
LEMMA HearsConsumed ==
    ASSUME PhoneInv, NEW s \in Slots, slots[s].heard, NEW answer \in Answers(s),
           OnConsumed(slots[s], answer[1], answer[2]), UNCHANGED server
    PROVE  PhoneInv'
<1> DEFINE r == slots[s]
           o == answer[1]
           book == answer[2]
<1>1. /\ r \in Requests /\ o \in Outcomes /\ book \in [Slots -> Entries]
      /\ \A n \in Slots : Weaker(book[n], slots[n]) /\ Captures(book[n])
      /\ o.ok \/ o.flag => o = r.answer /\ book = [slots EXCEPT ![s] = Free]
  BY Heard
<1>2. r.op = "consume" /\ OnScan /\ screen.result.of = r.ticket
  BY DEF OnConsumed, PhoneInv, Captured, Captures
<1>3. slots' = book /\ UNCHANGED <<cameras, booked, taps, short>>
  BY DEF OnConsumed, server
<1>4. CASE ~o.ok
  <2> DEFINE msg == IF o.flag THEN "flag" ELSE "failed"
  <2>1. Message(msg) /\ msg \in {"booked", "failed", "flag", "flagged"} /\ UNCHANGED told
    BY <1>4 DEF OnConsumed, Succeeded, AsksToFlag
  <2>2. msg = "flag" => screen.result.of \in short
    BY <1>1, <1>2 DEF PhoneInv, Flagging, ShortageTold
  <2> HIDE DEF msg
  <2> QED
    BY <1>1, <1>2, <1>3, <2>1, <2>2, Told
<1>5. CASE o.ok
  <2>1. /\ Message("booked") /\ told' = [told EXCEPT ![r.ticket] = @ + 1]
        /\ r.answer.ok /\ slots' = [slots EXCEPT ![s] = Free]
    BY <1>1, <1>3, <1>5 DEF OnConsumed, Succeeded
  <2>2. /\ screen' \in Screens /\ OnScan' /\ screen'.result.msg = "booked"
        /\ \A q : Captures(q) => Captures(q)'
    BY <1>2, <2>1, Messages
  <2>3. told' \in [Tickets -> Nat]
        /\ \A t \in Tickets : told'[t] = IF t = r.ticket THEN told[t] + 1 ELSE told[t]
    BY <2>1, OneMore DEF PhoneInv, Shape
  <2>4. Shape'
    BY <1>1, <1>3, <2>2, <2>3 DEF PhoneInv, Shape
  <2>5. Captured'
    BY <1>1, <1>3, <2>2 DEF Captured
  <2>6. /\ slots'[s] = Free
        /\ \A n \in Slots \ {s} : slots'[n] = slots[n]
    BY <2>1 DEF PhoneInv, Shape
  <2>7. Flagging'
    BY <1>3, <2>2, <2>6, FreeFacts DEF PhoneInv, Flagging, ShortageTold, FlagSent, FlagOffered
  <2>8. ASSUME NEW t \in Tickets
        PROVE  /\ told[t]' + Cardinality(Telling(t)') <= booked[t]'
               /\ booked[t]' + Cardinality(Asking(t)') <= taps[t]'
    <3>1. /\ told[t] \in Nat /\ booked[t] \in Nat /\ taps[t] \in Nat
          /\ told[t] + Cardinality(Telling(t)) <= booked[t]
          /\ booked[t] + Cardinality(Asking(t)) <= taps[t]
      BY DEF PhoneInv, Shape, Counted
    <3>2. Asking(t)' \subseteq Asking(t) /\ Telling(t)' \subseteq Telling(t) \ {s}
      BY <2>6, FreeFacts DEF Asking, Telling
    <3>3. Cardinality(Asking(t)') <= Cardinality(Asking(t))
      BY <3>2, Counts, FS_Subset
    <3>4. /\ IsFiniteSet(Telling(t) \ {s})
          /\ Cardinality(Telling(t) \ {s}) =
                IF s \in Telling(t) THEN Cardinality(Telling(t)) - 1 ELSE Cardinality(Telling(t))
      BY Counts, FS_RemoveElement
    <3>5. Cardinality(Telling(t)') <= Cardinality(Telling(t) \ {s})
      BY <3>2, <3>4, FS_Subset
    <3>6. t = r.ticket => s \in Telling(t)
      BY <1>2, <2>1 DEF Telling
    <3> QED
      BY <1>3, <2>3, <3>1, <3>3, <3>4, <3>5, <3>6, Counts
  <2> QED
    BY <2>4, <2>5, <2>7, <2>8 DEF PhoneInv, Counted
<1> QED
  BY <1>4, <1>5

LEMMA Hears ==
    ASSUME PhoneInv, NEW s \in Slots, Hear(s)
    PROVE  PhoneInv'
<1>1. slots[s].heard /\ UNCHANGED server
  BY DEF Hear
<1>2. PICK answer \in Answers(s) :
        LET r == slots[s]
            o == answer[1]
            book == answer[2]
        IN  \/ OnTickets(r, o, book) \/ OnTicketDetail(r, o, book)
            \/ OnList(r, o, book) \/ OnPosted(r, o, book)
            \/ OnPart(r, o, book) \/ OnAsset(r, o, book)
            \/ OnConsumed(r, o, book) \/ OnFlagged(r, o, book)
  BY DEF Hear
<1>3. /\ slots[s] \in Requests /\ answer[1] \in Outcomes /\ answer[2] \in [Slots -> Entries]
      /\ \A n \in Slots : Weaker(answer[2][n], slots[n]) /\ Captures(answer[2][n])
      /\ Captures(slots[s])
  BY <1>1, Heard, SlotsKept
<1>4. CASE OnTickets(slots[s], answer[1], answer[2]) \/ OnTicketDetail(slots[s], answer[1], answer[2])
  BY <1>1, <1>3, <1>4, HearsPages
<1>5. CASE OnList(slots[s], answer[1], answer[2]) \/ OnPosted(slots[s], answer[1], answer[2])
  BY <1>1, <1>3, <1>5, HearsLists
<1>6. CASE OnPart(slots[s], answer[1], answer[2]) \/ OnAsset(slots[s], answer[1], answer[2])
  BY <1>1, <1>3, <1>6, HearsLookups
<1>7. CASE OnConsumed(slots[s], answer[1], answer[2])
  BY <1>1, <1>7, HearsConsumed
<1>8. CASE OnFlagged(slots[s], answer[1], answer[2])
  BY <1>1, <1>3, <1>8, HearsFlagged
<1> QED
  BY <1>2, <1>4, <1>5, <1>6, <1>7, <1>8

-----------------------------------------------------------------------------
LEMMA Starts == Init => PhoneInv
<1> SUFFICES ASSUME Init
             PROVE  PhoneInv
  OBVIOUS
<1>1. Request("mine", NoTicket, "") \in Requests /\ Request("mine", NoTicket, "").op = "mine"
  <2>1. NoTicket \in Holders /\ "" \in Args /\ "mine" \in Ops /\ Suits("mine", "")
    BY DEF Holders, Args, Ops, Suits
  <2> QED
    BY <2>1, RequestFacts
<1>2. \A s \in Slots : slots[s] = Request("mine", NoTicket, "") \/ slots[s] = Free
  BY DEF Init
<1>3. slots \in [Slots -> Entries]
  BY <1>1 DEF Init, Entries
<1>4. Shape /\ ~OnScan
  BY <1>3 DEF Init, ApiInit, Shape, Screens, Loading, OnScan
<1>5. Captured /\ Flagging
  BY <1>1, <1>2, <1>4, FreeFacts
     DEF Captured, Captures, Flagging, ShortageTold, FlagSent, FlagOffered
<1>6. ASSUME NEW t \in Tickets
      PROVE  Cardinality(Asking(t)) = 0 /\ Cardinality(Telling(t)) = 0
  <2>1. Asking(t) = {} /\ Telling(t) = {}
    BY <1>1, <1>2, FreeFacts DEF Asking, Telling
  <2> QED
    BY <2>1, FS_EmptySet
<1>7. \A t \in Tickets : booked[t] = 0 /\ taps[t] = 0 /\ told[t] = 0
  BY DEF Init, ApiInit
<1>8. Counted
  BY <1>6, <1>7 DEF Counted
<1> QED
  BY <1>4, <1>5, <1>8 DEF PhoneInv

LEMMA Keeps == PhoneInv /\ [Next]_vars => PhoneInv'
<1> SUFFICES ASSUME PhoneInv, [Next]_vars
             PROVE  PhoneInv'
  OBVIOUS
<1>1. CASE Technician
  <2>1. UNCHANGED server
    BY <1>1 DEF Technician
  <2>2. CASE ShowTickets \/ BackToTicket \/ SubmitComment \/ FlagWaitingOnParts \/ Open
    BY <2>1, <2>2, ShowsTickets, BackAtTicket, SubmitsOfTheDetailPage, FlagsWaitingOnParts, Reopened
  <2>3. CASE \/ \E t \in Tickets : ShowTicketDetail(t)
             \/ \E st \in Chosen : SubmitStatus(st)
             \/ \E i \in Items : SubmitChecklistResponse(i)
    BY <2>1, <2>3, ShowsTicketDetail, SubmitsOfTheDetailPage
  <2>4. CASE \E t \in Tickets \cup {NoTicket}, mode \in {"part", "asset"} : ShowScan(t, mode)
    BY <2>1, <2>4, ShowsScan DEF Holders
  <2>5. CASE \/ \E code \in Codes : SubmitCode(code)
             \/ \E c \in cameras : NoCamera(c) \/ \E code \in Codes : Detect(c, code)
    BY <2>1, <2>5, LooksUp
  <2>6. CASE \E l \in Stocked, q \in Quantities : BookPart(l, q)
    BY <2>1, <2>6, BooksPart
  <2> QED
    BY <1>1, <2>2, <2>3, <2>4, <2>5, <2>6 DEF Technician
<1>2. CASE Office
  BY <1>2, SlotsKept, Forgotten DEF Office, Rescope, phone
<1>3. CASE \E s \in Slots : Serve(s) \/ Hear(s)
  BY <1>3, Serves, Hears
<1>4. CASE UNCHANGED vars
  BY <1>4, SlotsKept, Forgotten DEF vars, server, phone
<1> QED
  BY <1>1, <1>2, <1>3, <1>4 DEF Next

LEMMA Always == Spec => []PhoneInv
BY Starts, Keeps, PTL DEF Spec

(* What the server keeps, and what was posted.                               *)
Kept == /\ sites \in Scopes
        /\ status \in [Tickets -> {"OPEN", "WAITING_ON_PARTS"} \cup Chosen]
        /\ onHand \in [Stocked -> Nat]
        /\ posts \in 0..MaxPosts
        /\ \A t \in Tickets : taps[t] <= posts

(* A booking takes no more than there is, as an id is that of one location.  *)
LEMMA TakenFromEnough ==
    ASSUME Kept, NEW r \in Requests, Response(r).ok, ConsumePart(r)
    PROVE  onHand' \in [Stocked -> Nat]
<1> DEFINE id == LevelId[r.arg[1]]
           q == r.arg[2]
           found == LocationsWith(id)
<1>1. r.op = "consume" /\ q \in Nat
  BY PhoneAssumption DEF ConsumePart, Requests, Suits
<1>2. Consumption(id, q).ok
  <2>1. Admitted(r)
    BY DEF Response, Refusal
  <2> QED
    BY <1>1, <2>1 DEF Response
<1>3. found \cap Stocked # {} /\ \E l \in found : Enough(l, q)
  BY <1>2 DEF Consumption, Refusal, Shortage
<1>4. PICK l \in found : onHand' = [onHand EXCEPT ![l] = @ - q]
  BY DEF ConsumePart
<1>5. found = {l}
  BY <1>4, ApiAssumption DEF LocationsWith
<1>6. l \in Stocked /\ onHand[l] >= q
  BY <1>3, <1>5 DEF Enough
<1> HIDE DEF q
<1>7. onHand[l] - q \in Nat
  BY <1>1, <1>6 DEF Kept
<1> QED
  BY <1>4, <1>6, <1>7 DEF Kept

LEMMA ServedIsKept ==
    ASSUME PhoneInv, Kept, NEW s \in Slots, Serve(s)
    PROVE  Kept'
<1> DEFINE r == slots[s]
<1>1. r \in Requests /\ Handle(r) /\ UNCHANGED <<taps, posts>>
  BY FreeFacts DEF Serve, PhoneInv, Shape, Entries
<1> HIDE DEF r
<1>2. CASE ~Response(r).ok
  BY <1>1, <1>2 DEF Handle, Refuse, Kept
<1>3. CASE UpdateStatus(r)
  <2>1. r.arg \in {"OPEN", "WAITING_ON_PARTS"} \cup Chosen
    BY <1>1, <1>3 DEF UpdateStatus, Requests, Suits
  <2> QED
    BY <1>1, <1>3, <2>1 DEF UpdateStatus, Kept
<1>4. CASE PostComment(r) \/ PostResponse(r) \/ Read(r)
  BY <1>1, <1>4 DEF PostComment, PostResponse, Read, server, Kept
<1>5. CASE Response(r).ok /\ ConsumePart(r)
  BY <1>1, <1>5, TakenFromEnough DEF ConsumePart, Kept
<1> QED
  BY <1>1, <1>2, <1>3, <1>4, <1>5 DEF Handle

(* Each tap that books is a post. *)
LEMMA PostsCount ==
    ASSUME PhoneInv, Kept, Technician
    PROVE  Kept'
<1>1. UNCHANGED server
  BY DEF Technician
<1>2. CASE UNCHANGED <<taps, posts>>
  BY <1>1, <1>2 DEF server, Kept
<1>3. ASSUME NEW r, Post(r), UNCHANGED taps
      PROVE  Kept'
  BY <1>1, <1>3, PhoneAssumption DEF Post, server, Kept, PhoneInv, Shape
<1>4. ASSUME NEW l \in Stocked, NEW q \in Quantities, BookPart(l, q)
      PROVE  Kept'
  <2>1. posts < MaxPosts /\ posts' = posts + 1
        /\ \A t \in Tickets : taps'[t] = taps[t] \/ taps'[t] = taps[t] + 1
    BY <1>4 DEF BookPart, Post, PhoneInv, Shape
  <2> QED
    BY <1>1, <2>1, PhoneAssumption DEF server, Kept, PhoneInv, Shape
<1>5. CASE ShowTickets \/ BackToTicket \/ FlagWaitingOnParts \/ Open
  <2>1. UNCHANGED <<taps, posts>>
    BY <1>5 DEF ShowTickets, BackToTicket, FlagWaitingOnParts, Open, Quiet
  <2> QED
    BY <1>2, <2>1
<1>6. CASE SubmitComment
  BY <1>3, <1>6 DEF SubmitComment
<1>7. ASSUME NEW t \in Tickets, ShowTicketDetail(t) PROVE Kept'
  BY <1>2, <1>7 DEF ShowTicketDetail, Quiet
<1>8. ASSUME NEW st \in Chosen, SubmitStatus(st) PROVE Kept'
  BY <1>3, <1>8 DEF SubmitStatus
<1>9. ASSUME NEW i \in Items, SubmitChecklistResponse(i) PROVE Kept'
  BY <1>3, <1>9 DEF SubmitChecklistResponse
<1>10. ASSUME NEW t, NEW mode, ShowScan(t, mode) PROVE Kept'
  BY <1>2, <1>10 DEF ShowScan
<1>11. ASSUME NEW code, SubmitCode(code) PROVE Kept'
  BY <1>2, <1>11 DEF SubmitCode, Quiet
<1>12. ASSUME NEW c, NoCamera(c) PROVE Kept'
  BY <1>2, <1>12 DEF NoCamera
<1>13. ASSUME NEW c, NEW code, Detect(c, code) PROVE Kept'
  BY <1>2, <1>13 DEF Detect
<1> QED
  BY <1>4, <1>5, <1>6, <1>7, <1>8, <1>9, <1>10, <1>11, <1>12, <1>13 DEF Technician

(* Answers change neither the server nor what was posted. *)
LEMMA HearingPostsNothing ==
    ASSUME NEW s \in Slots, Hear(s)
    PROVE  UNCHANGED <<server, taps, posts>>
<1>1. UNCHANGED server
  BY DEF Hear
<1>2. ASSUME NEW r, NEW o, NEW book,
             \/ OnTickets(r, o, book) \/ OnTicketDetail(r, o, book)
             \/ OnList(r, o, book) \/ OnPosted(r, o, book)
             \/ OnPart(r, o, book) \/ OnAsset(r, o, book)
             \/ OnConsumed(r, o, book) \/ OnFlagged(r, o, book)
      PROVE  UNCHANGED <<taps, posts>>
  BY <1>2 DEF OnTickets, OnTicketDetail, OnList, OnPosted, OnPart, OnAsset, OnConsumed,
              OnFlagged, Quiet
<1> QED
  BY <1>1, <1>2 DEF Hear

LEMMA StaysKept == PhoneInv /\ Kept /\ [Next]_vars => Kept'
<1> SUFFICES ASSUME PhoneInv, Kept, [Next]_vars
             PROVE  Kept'
  OBVIOUS
<1>1. CASE Office
  BY <1>1 DEF Office, Rescope, phone, Kept
<1>2. CASE UNCHANGED vars
  BY <1>2 DEF vars, server, phone, Kept
<1>3. ASSUME NEW s \in Slots, Hear(s)
      PROVE  Kept'
  BY <1>3, HearingPostsNothing DEF server, Kept
<1> QED
  BY <1>1, <1>2, <1>3, PostsCount, ServedIsKept DEF Next

(* Screens, requests and the server's rows keep their types; in particular no *)
(* booking takes more than its shelf has (consume_part).                      *)
THEOREM TypeCorrect == Spec => []TypeOK
<1>1. Init => Kept
  <2> SUFFICES ASSUME Init
               PROVE  Kept
    OBVIOUS
  <2>1. ApiInit /\ taps = [t \in Tickets |-> 0] /\ posts = 0
    BY DEF Init
  <2> QED
    BY <2>1, PhoneAssumption, ApiAssumption DEF ApiInit, Kept
<1>2. PhoneInv /\ Kept => TypeOK
  <2> SUFFICES ASSUME PhoneInv, Kept
               PROVE  TypeOK
    OBVIOUS
  <2>1. \A t \in Tickets : taps[t] \in 0..MaxPosts
    BY PhoneAssumption DEF PhoneInv, Shape, Kept
  <2>2. screen.kind \in {"loading", "error", "left", "tickets", "detail", "scan"}
    BY DEF PhoneInv, Shape, Screens, Loading, ErrorPage, Left, DetailPages, ScanPages
  <2>3. \A s \in Slots : slots[s].op \in {"free"} \cup DOMAIN Required
    <3>1. DOMAIN Required = Ops
      BY DEF Required, Ops
    <3> QED
      BY <3>1, FreeFacts DEF PhoneInv, Shape, Entries, Requests
  <2> QED
    BY <2>1, <2>2, <2>3 DEF Kept, TypeOK
<1> QED
  BY <1>1, <1>2, Always, StaysKept, PTL DEF Spec

(* Whatever is lost or overwritten, "Booked" is said of bookings that were    *)
(* done (renderPartResult), and they were tapped for.                         *)
THEOREM BookingsWereAskedFor == Spec => []EveryBookingWasAskedFor
<1>1. PhoneInv => EveryBookingWasAskedFor
  BY Counts DEF PhoneInv, Shape, Counted, EveryBookingWasAskedFor
<1> QED
  BY <1>1, Always, PTL

(* "Flag Ticket as Waiting on Parts" is offered for the ticket that was short *)
(* of parts (renderPartResult, the 409 of consume_part).                      *)
THEOREM FlagsFollowShortages == Spec => []FlagFollowsShortage
<1>1. PhoneInv => FlagFollowsShortage
  BY DEF PhoneInv, Flagging, FlagOffered, FlagSent, FlagFollowsShortage, Busy
<1> QED
  BY <1>1, Always, PTL

=============================================================================
