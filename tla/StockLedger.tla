---------------------------- MODULE StockLedger ----------------------------
(* What the inventory promises about a StockLevel, whoever touches it: every *)
(* unit on the shelf is explained.  Parts leave through a usage row, arrive  *)
(* through the received counts of purchase order lines, and are otherwise    *)
(* only corrected by hand, by the amount the person meant.  Each of these is *)
(* a single atomic step here; Inventory implements them in several.          *)
EXTENDS Integers

CONSTANTS Levels,   \* the StockLevel rows: one per (spare part, location)
          Opening   \* the quantity each starts with

VARIABLES onHand,    \* quantity_on_hand
          used,      \* units taken, by usage rows
          received,  \* units that arrived, by purchase order lines
          adjusted   \* net correction made by hand

ledgerVars == <<onHand, used, received, adjusted>>

Init == /\ onHand = Opening
        /\ used = [l \in Levels |-> 0]
        /\ received = [l \in Levels |-> 0]
        /\ adjusted = [l \in Levels |-> 0]

(* q units are booked onto a work order. *)
Consume(l, q) == /\ q <= onHand[l]
                 /\ onHand' = [onHand EXCEPT ![l] = @ - q]
                 /\ used' = [used EXCEPT ![l] = @ + q]
                 /\ UNCHANGED <<received, adjusted>>

(* A delivery: the shelf grows by exactly what the lines now say arrived. *)
Receive == /\ DOMAIN received' = Levels
           /\ \A l \in Levels : received'[l] >= received[l]
           /\ onHand' = [l \in Levels |-> onHand[l] + (received'[l] - received[l])]
           /\ UNCHANGED <<used, adjusted>>

(* A recount of one level. *)
Recount(l, n) == /\ onHand' = [onHand EXCEPT ![l] = n]
                 /\ adjusted' = [adjusted EXCEPT ![l] = @ + (n - onHand[l])]
                 /\ UNCHANGED <<used, received>>

Next == \/ \E l \in Levels : \E q \in 1..onHand[l] : Consume(l, q)
        \/ Receive
        \/ \E l \in Levels : \E n \in {onHand'[l]} : n \in Nat /\ Recount(l, n)

LedgerSpec == Init /\ [][Next]_ledgerVars

(* Every unit is explained: the state of the books at any time. *)
Explained == \A l \in Levels :
    onHand[l] = Opening[l] + received[l] + adjusted[l] - used[l]
=============================================================================
