------------------------------ MODULE MCPhone ------------------------------
(* One phone, two tickets at two sites, two shelves for TLC. *)
EXTENDS Phone, TLC

CONSTANTS a, b, near, far, north, south

OneAway == near :> 2 @@ far :> 3
OneRight == near :> 1
InOrder == near :> 1 @@ far :> 2
BySite == a :> north @@ b :> south @@ near :> north @@ far :> south @@ "asset" :> north
OneEach == near :> 1 @@ far :> 1
OneNear == near :> 1
AllOrNorth == {{north, south}, {north}}
Everything == {Required[op] : op \in DOMAIN Required}
OnlyB == a :> {} @@ b :> {"step"}
=============================================================================
