---------------------------- MODULE MCScheduler ----------------------------
(***************************************************************************)
(* A small instance of Scheduler.tla; each .cfg chooses the policies.      *)
(***************************************************************************)
EXTENDS Scheduler, TLC

\* The slices {3,4,5,6,7} of scheduler.h:22 scaled down: the last level's is
\* the longest.
MCTimeSlices == [i \in Levels |-> IF i = QueueNum - 1 THEN 2 ELSE 1]

Symmetry == Permutations(Threads \ {Main})
=============================================================================
