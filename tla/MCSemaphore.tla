---------------------------- MODULE MCSemaphore ----------------------------
(***************************************************************************)
(* Small instances of Semaphore.tla.  MaxValue bounds the values V reaches.*)
(***************************************************************************)
EXTENDS Semaphore

CONSTANTS MaxValue, Initial

MCInitialValue == [s \in Sems |-> Initial]

BoundedNext == Next /\ \A s \in Sems : value'[s] <= MaxValue

MCSpec == Init /\ [][BoundedNext]_vars

MCFairSpec == MCSpec /\ Scheduling
=============================================================================
