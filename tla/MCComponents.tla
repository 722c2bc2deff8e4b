---------------------------- MODULE MCComponents ----------------------------
(***************************************************************************)
(* Components with three threads and two items for the monitor, four list   *)
(* items of which a and b compare equal, c is larger and d smaller, hash   *)
(* items of which v and w have the same key and u and x collide, and a     *)
(* bitmap that does not fill its last word.                                *)
(***************************************************************************)
EXTENDS Components, TLC

CONSTANTS a, b, c, d, u, v, w, x, y, z

MCListKey == [i \in ListItems |-> CASE i = c -> 3 [] i = d -> 1 [] OTHER -> 2]
MCKeyOf == (u :> 0) @@ (v :> 1) @@ (w :> 1) @@ (x :> 4) @@ (y :> 3) @@ (z :> 2)
MCHash == [k \in 0 .. 4 |-> k]

MCListVector == <<c, d, a>>
MCHashVector == <<u, v, z, y, x>>

Symmetry == Permutations(Threads \ {Main}) \cup Permutations(Items)
=============================================================================
