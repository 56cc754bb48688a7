------------------------------ MODULE MCRoutes ------------------------------
(* Three routers in a line: r1 with a server, r2 next to it with another,  *)
(* and r3, which shares a fast and a slow net with r2; its device on the   *)
(* slow one comes and goes.                                                *)
EXTENDS Routes, TLC

CONSTANTS r1, r2, r3, i1, i2, i3, n12, na, nb, v1, v2

MCInternal == r1 :> i1 @@ r2 :> i2 @@ r3 :> i3
MCConfigured == r1 :> {n12} @@ r2 :> {n12, na, nb} @@ r3 :> {na}
MCAuto == r1 :> {} @@ r2 :> {} @@ r3 :> {nb}
MCTicks == i1 :> 1 @@ i2 :> 1 @@ i3 :> 1 @@ n12 :> 1 @@ na :> 1 @@ nb :> 7
MCBudgets == {[timers |-> 3, wire |-> 1], [timers |-> 2, wire |-> 2]}
Symmetric == Permutations(Node)
=============================================================================
