---------------------------- MODULE MesaMonitor ----------------------------
(***************************************************************************)
(* What class Lock and class Condition promise together (the comments of   *)
(* threads/synch.h:53-115): a monitor with Mesa-style conditions.  Waiting *)
(* releases the lock and joins the waiters in one step; a thread that      *)
(* waits owns the lock again only after somebody signalled it.             *)
(***************************************************************************)
EXTENDS Naturals, Sequences

CONSTANTS Threads, NoThread

VARIABLES
    owner,      \* the thread in the monitor
    waiters     \* threads that wait and were not signalled, oldest first

monitorVars == <<owner, waiters>>

MonitorInit == owner = NoThread /\ waiters = <<>>

IsWaiting(t) == \E i \in 1..Len(waiters) : waiters[i] = t

\* Acquire, and the second half of Wait.
Enter(t) ==
    /\ owner = NoThread
    /\ ~IsWaiting(t)
    /\ owner' = t
    /\ UNCHANGED waiters

\* Release.
Leave ==
    /\ owner # NoThread
    /\ owner' = NoThread
    /\ UNCHANGED waiters

\* The first half of Wait.
LeaveAndWait ==
    /\ owner # NoThread
    /\ owner' = NoThread
    /\ waiters' = Append(waiters, owner)

\* Signal, and one round of Broadcast.
Notify ==
    /\ owner # NoThread
    /\ waiters # <<>>
    /\ waiters' = Tail(waiters)
    /\ UNCHANGED owner

MonitorNext ==
    \/ Leave
    \/ LeaveAndWait
    \/ Notify
    \/ \E t \in Threads : Enter(t)

MonitorSpec == MonitorInit /\ [][MonitorNext]_monitorVars
=============================================================================
