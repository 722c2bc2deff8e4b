------------------------------ MODULE Barrier ------------------------------
(***************************************************************************)
(* Condition::Barrier (threads/synch.cc:303-308) and its test, testBarrier *)
(* and MyBarrier (threads/kernel.cc:375-399).  Monitor.tla has the lock    *)
(* and the condition, SyncTest.tla the main thread.                        *)
(***************************************************************************)
EXTENDS Naturals, Sequences, FiniteSets

CONSTANTS Threads, Main, NoThread, NoSem, TheLock,
          BARRIER_NUM,
          test          \* the threads, in the order of forking

Workers == {test[k] : k \in DOMAIN test}
ForkOrder == test

VARIABLES cur, ready, blocked, value, queue, inP, lockHolder, waitQueue, at,
          barrierNum,   \* Condition::barrierNum
          stage         \* "before", "arrived" in Barrier, "passed"

\* The semaphores of the lock and of its waiters (see Monitor.tla).
Sems == Threads \cup {TheLock}
InitialValue == [s \in Sems |-> IF s = TheLock THEN 1 ELSE 0]

Mon == INSTANCE Monitor

barrierVars == <<barrierNum, stage>>

TypeOK ==
    /\ Mon!MonitorTypeOK
    /\ barrierNum \in 0..Len(test)
    /\ stage \in [Workers -> {"before", "arrived", "passed"}]

Init ==
    /\ Mon!MonitorInit
    /\ barrierNum = 0
    /\ stage = [t \in Workers |-> "before"]
-----------------------------------------------------------------------------
SetStage(t, s) == stage' = [stage EXCEPT ![t] = s]

\* barrierMutex->Acquire().
Begin(t) ==
    /\ stage[t] = "before"
    /\ Mon!Acquire(t)
    /\ UNCHANGED barrierVars

\* Mutant: barrierNum is compared before it is incremented.
ArriveEarly(t) ==
    /\ stage[t] = "before" /\ at[t] = "entered" /\ Mon!Inside(t)
    /\ barrierNum' = barrierNum + 1
    /\ \/ barrierNum' # BARRIER_NUM - 1 /\ Mon!Wait(t)
       \/ barrierNum' = BARRIER_NUM - 1 /\ Mon!Broadcast(t)
    /\ SetStage(t, "arrived")

\* Mutant: Signal in place of Broadcast.
ArriveSignals(t) ==
    /\ stage[t] = "before" /\ at[t] = "entered" /\ Mon!Inside(t)
    /\ barrierNum' = barrierNum + 1
    /\ \/ barrierNum' # BARRIER_NUM /\ Mon!Wait(t)
       \/ barrierNum' = BARRIER_NUM /\ Mon!Signal(t)
    /\ SetStage(t, "arrived")

\* Barrier: the last thread to come wakes the others (BARRIER_NUM > 1, so
\* there are some), the others wait.
Arrive(t) ==
    /\ stage[t] = "before" /\ at[t] = "entered" /\ Mon!Inside(t)
    /\ barrierNum' = barrierNum + 1
    /\ \/ /\ barrierNum' # BARRIER_NUM
          /\ Mon!Wait(t)
       \/ /\ barrierNum' = BARRIER_NUM
          /\ Mon!Broadcast(t)
    /\ SetStage(t, "arrived")

\* The next round of Broadcast.
BroadcastNext(t) ==
    /\ stage[t] = "arrived" /\ at[t] = "broadcast"
    /\ Mon!Broadcast(t)
    /\ UNCHANGED barrierVars

\* After Barrier: barrierMutex->Release().
Pass(t) ==
    /\ stage[t] = "arrived"
    /\ Mon!Release(t)
    /\ SetStage(t, "passed")
    /\ UNCHANGED barrierNum

\* The rest of Wait and of P.
Resume(t) ==
    /\ Mon!WaiterP(t) \/ Mon!Reacquire(t) \/ Mon!TestAgain(t)
    /\ UNCHANGED barrierVars

Finish(t) ==
    /\ stage[t] = "passed" /\ cur = t
    /\ Mon!FinishCaller(t)
    /\ UNCHANGED barrierVars

Step(t) ==
    \/ Begin(t) \/ Arrive(t) \/ BroadcastNext(t) \/ Pass(t)
    \/ Resume(t) \/ Finish(t)
-----------------------------------------------------------------------------
(***************************************************************************)
(* Properties.                                                             *)
(***************************************************************************)
\* A thread that is back from Barrier with the lock, or past it.
Through(t) ==
    \/ stage[t] = "passed"
    \/ stage[t] = "arrived" /\ at[t] \in {"entered", "broadcast"} /\ inP[t] = NoSem

\* No thread returns from Barrier before the last one has called it: a
\* waiter is woken by the broadcast and by nothing else.
NobodyEarly ==
    (\E t \in Workers : Through(t)) => \A u \in Workers : stage[u] # "before"
=============================================================================
