------------------------------ MODULE Monitor ------------------------------
(***************************************************************************)
(* class Lock and class Condition of threads/synch.cc: one lock, one       *)
(* condition used under it, and threads that call their operations in any  *)
(* order the assertions allow.                                             *)
(*                                                                         *)
(* A step is a thread's code up to its next P or V, which ends at the      *)
(* preemption point inside it.  at[t] is where t goes on from there:       *)
(*   "out"       outside the monitor                                       *)
(*   "entered"   after the P of Acquire: lockHolder is assigned next       *)
(*   "held"      in the monitor, after a Signal                            *)
(*   "broadcast" in Broadcast's loop, after a Signal                       *)
(*   "wait"      in Wait, after Release: waiter->P() comes next            *)
(*   "reacquire" in Wait, after waiter->P(): Acquire comes next            *)
(* While t sleeps in a P, inP[t] says so and at[t] is already the label    *)
(* that follows.  The semaphore Wait allocates for t is named t: t has one *)
(* at a time, WaiterSemaphores shows that it is as new whenever t is not   *)
(* in Wait.                                                                *)
(***************************************************************************)
EXTENDS Semaphore

CONSTANT TheLock        \* Lock's semaphore

\* Lock's semaphore starts at 1, Wait's waiter at 0.
MonitorSems == Threads \cup {TheLock}
MonitorValue == [s \in MonitorSems |-> IF s = TheLock THEN 1 ELSE 0]

ASSUME MonitorAssumption ==
    /\ TheLock \notin Threads
    /\ Sems = MonitorSems /\ InitialValue = MonitorValue

VARIABLES
    lockHolder,   \* Lock::lockHolder
    waitQueue,    \* Condition::waitQueue
    at            \* see above

monitorVars == <<lockHolder, waitQueue, at>>
allVars == <<vars, monitorVars>>

Labels == {"out", "entered", "held", "broadcast", "wait", "reacquire"}

MonitorTypeOK ==
    /\ TypeOK
    /\ lockHolder \in Threads \cup {NoThread}
    /\ waitQueue \in Seq(Threads)
    /\ at \in [Threads -> Labels]

MonitorInit ==
    /\ Init
    /\ lockHolder = NoThread
    /\ waitQueue = <<>>
    /\ at = [t \in Threads |-> "out"]
-----------------------------------------------------------------------------
(***************************************************************************)
(* The operations.                                                         *)
(***************************************************************************)
Goto(t, label) == at' = [at EXCEPT ![t] = label]

\* lockHolder as t's code finds it: after Acquire's P, t assigns it first.
Holder(t) == IF at[t] = "entered" THEN t ELSE lockHolder

\* t executes in the monitor; a Broadcast has nobody left to signal.
Inside(t) ==
    /\ Running(t)
    /\ \/ at[t] \in {"entered", "held"}
       \/ at[t] = "broadcast" /\ waitQueue = <<>>

\* ASSERT(IsHeldByCurrentThread()), without which the operation aborts.
Asserted(t) == Holder(t) = t

\* Lock::Acquire up to the preemption point in P.
Acquire(t) ==
    /\ at[t] = "out"
    /\ P(t, TheLock)
    /\ Goto(t, "entered")
    /\ UNCHANGED <<lockHolder, waitQueue>>

\* Lock::Release.
Release(t) ==
    /\ Inside(t) /\ Asserted(t)
    /\ lockHolder' = NoThread
    /\ V(TheLock)
    /\ Goto(t, "out")
    /\ UNCHANGED waitQueue

\* Condition::Wait up to the end of Release.
Wait(t) ==
    /\ Inside(t) /\ Asserted(t)
    /\ waitQueue' = Append(waitQueue, t)
    /\ lockHolder' = NoThread
    /\ V(TheLock)
    /\ Goto(t, "wait")

\* Mutant: Wait does not wait.
WaiterPSkipped(t) ==
    /\ at[t] = "wait" /\ Running(t)
    /\ Goto(t, "reacquire")
    /\ UNCHANGED <<cur, ready, blocked, value, queue, inP, lockHolder, waitQueue>>

\* waiter->P() in Wait.
WaiterP(t) ==
    /\ at[t] = "wait"
    /\ P(t, t)
    /\ Goto(t, "reacquire")
    /\ UNCHANGED <<lockHolder, waitQueue>>

\* Mutant: Wait returns without the lock.
ReacquireSkipped(t) ==
    /\ at[t] = "reacquire" /\ Running(t)
    /\ Goto(t, "entered")
    /\ UNCHANGED <<cur, ready, blocked, value, queue, inP, lockHolder, waitQueue>>

\* conditionLock->Acquire() in Wait; delete waiter follows.
Reacquire(t) ==
    /\ at[t] = "reacquire"
    /\ P(t, TheLock)
    /\ Goto(t, "entered")
    /\ UNCHANGED <<lockHolder, waitQueue>>

\* Mutant: Front in place of RemoveFront.
SignalWaiterKeeps(t, label) ==
    /\ Asserted(t)
    /\ lockHolder' = Holder(t)
    /\ waitQueue # <<>>
    /\ UNCHANGED waitQueue
    /\ V(Head(waitQueue))
    /\ Goto(t, label)

\* Condition::Signal when somebody waits; otherwise it changes nothing and
\* is no preemption point.
SignalWaiter(t, label) ==
    /\ Asserted(t)
    /\ lockHolder' = Holder(t)
    /\ waitQueue # <<>>
    /\ waitQueue' = Tail(waitQueue)
    /\ V(Head(waitQueue))
    /\ Goto(t, label)

Signal(t) == Inside(t) /\ SignalWaiter(t, "held")

\* Condition::Broadcast: Signal until waitQueue is empty.
Broadcast(t) ==
    /\ Inside(t) \/ (Running(t) /\ at[t] = "broadcast")
    /\ SignalWaiter(t, "broadcast")
-----------------------------------------------------------------------------
(***************************************************************************)
(* The machine.                                                            *)
(***************************************************************************)
TestAgain(t) == PAgain(t) /\ UNCHANGED monitorVars
Switch(n) == (Yield(n) \/ DispatchThread(n)) /\ UNCHANGED monitorVars
ForkCaller(t) == ForkThread(t) /\ UNCHANGED monitorVars

\* Mutant: Finish yields in place of sleeping.
FinishCallerYields(t) ==
    /\ cur = t /\ at[t] = "out"
    /\ \E n \in ready : Yield(n)
    /\ UNCHANGED monitorVars

FinishCaller(t) ==
    /\ cur = t /\ at[t] = "out"
    /\ FinishThread
    /\ UNCHANGED monitorVars

MonitorNext ==
    \E t \in Threads :
        \/ Acquire(t) \/ Release(t)
        \/ Wait(t) \/ WaiterP(t) \/ Reacquire(t)
        \/ Signal(t) \/ Broadcast(t)
        \/ TestAgain(t) \/ Switch(t) \/ ForkCaller(t) \/ FinishCaller(t)

MonitorSpec == MonitorInit /\ [][MonitorNext]_allVars
-----------------------------------------------------------------------------
(***************************************************************************)
(* Properties.                                                             *)
(***************************************************************************)
Owns(t) == at[t] \in {"entered", "held", "broadcast"} /\ inP[t] = NoSem

\* In Wait, from joining waitQueue to the end of waiter->P().
InWait(t) == at[t] = "wait" \/ (at[t] = "reacquire" /\ inP[t] = t)

\* At most one thread is in the monitor, and the semaphore is 0 exactly when
\* one is (the comment of Lock::Acquire).  IsHeldByCurrentThread holds
\* wherever Release, Wait and Signal assert it, although lockHolder is
\* assigned after the preemption point in P, and no other thread takes
\* itself for the holder.
MutualExclusion ==
    /\ \A t, u \in Threads : Owns(t) /\ Owns(u) => t = u
    /\ value[TheLock] = IF \E t \in Threads : Owns(t) THEN 0 ELSE 1
    /\ \A t \in Threads : Owns(t) => Holder(t) = t
    /\ lockHolder # NoThread => Owns(lockHolder)

\* "There is no chance the waiter will miss the signal" (Wait's comment):
\* a thread in Wait is on waitQueue and not signalled, or off waitQueue with
\* its one signal recorded in its semaphore, even if it has not slept yet.
\* Outside Wait the semaphore is as Wait allocates it and as it may be
\* deleted: value 0 and nobody on its queue.
WaiterSemaphores ==
    \A t \in Threads :
        LET places == {i \in 1..Len(waitQueue) : waitQueue[i] = t} IN
        IF InWait(t)
        THEN Cardinality(places) + value[t] = 1
        ELSE places = {} /\ value[t] = 0 /\ queue[t] = <<>>

\* The thread in the monitor.
Owner == IF \E t \in Threads : Owns(t) THEN CHOOSE t \in Threads : Owns(t) ELSE NoThread

\* Lock and Condition implement the monitor of their comments: Wait releases
\* the lock and joins the waiters atomically, Signal is to the oldest one.
Mesa == INSTANCE MesaMonitor WITH owner <- Owner, waiters <- waitQueue

ImplementsMesaMonitor == Mesa!MonitorSpec
=============================================================================
