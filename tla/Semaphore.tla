----------------------------- MODULE Semaphore -----------------------------
(***************************************************************************)
(* class Semaphore of threads/synch.cc, used by threads and by interrupt   *)
(* handlers in every order the machine allows.                             *)
(*                                                                         *)
(* A thread inside P is marked in inP.  A thread that Sleep put to sleep   *)
(* and that is dispatched again returns into P's while loop with           *)
(* interrupts still off, so nothing happens between its dispatch and its   *)
(* next test of value: PAgain is the only step of such a thread.           *)
(***************************************************************************)
EXTENDS Dispatcher, Naturals, Sequences, FiniteSets

CONSTANTS
    Sems,           \* the Semaphore objects
    NoSem,          \* not in P
    InitialValue    \* [Sems -> Nat], the constructor's initialValue

ASSUME SemaphoreAssumption ==
    /\ IsFiniteSet(Threads)     \* at most MaxThreadNum (threads/thread.h:56)
    /\ NoSem \notin Sems
    /\ InitialValue \in [Sems -> Nat]

VARIABLES
    value,      \* Semaphore::value
    queue,      \* Semaphore::queue
    inP         \* inP[t]: the semaphore whose P put t to sleep, or NoSem

semaphoreVars == <<value, queue, inP>>
vars == <<cur, ready, blocked, value, queue, inP>>

TypeOK ==
    /\ DispatcherTypeOK
    /\ value \in [Sems -> Nat]
    /\ queue \in [Sems -> Seq(Threads)]
    /\ inP \in [Threads -> Sems \cup {NoSem}]

Init ==
    /\ DispatcherInit
    /\ value = InitialValue
    /\ queue = [s \in Sems |-> <<>>]
    /\ inP = [t \in Threads |-> NoSem]
-----------------------------------------------------------------------------
(***************************************************************************)
(* P and V.                                                                *)
(***************************************************************************)
\* Mutant: P's test is off by one.
TestValueOffByOne(t, s) ==
    /\ value[s] >= 0
    /\ value' = [value EXCEPT ![s] = @ - 1]
    /\ inP' = [inP EXCEPT ![t] = NoSem]
    /\ UNCHANGED <<queue, cur, ready, blocked>>

\* The while loop of P, from its test to the next Sleep or to the decrement.
TestValue(t, s) ==
    \/ /\ value[s] > 0
       /\ value' = [value EXCEPT ![s] = @ - 1]
       /\ inP' = [inP EXCEPT ![t] = NoSem]
       /\ UNCHANGED <<queue, cur, ready, blocked>>
    \/ /\ value[s] = 0
       /\ queue' = [queue EXCEPT ![s] = Append(@, t)]
       /\ inP' = [inP EXCEPT ![t] = s]
       /\ Block
       /\ UNCHANGED value

\* P called by the running thread t.
P(t, s) == cur = t /\ inP[t] = NoSem /\ TestValue(t, s)

\* t returns from Sleep into P's loop.
PAgain(t) == cur = t /\ inP[t] # NoSem /\ TestValue(t, inP[t])

\* Mutant: V wakes a thread only when the value was 0.
VWakesFromZero(s) ==
    /\ value' = [value EXCEPT ![s] = @ + 1]
    /\ UNCHANGED inP
    /\ \/ /\ queue[s] # <<>> /\ value[s] = 0
          /\ queue' = [queue EXCEPT ![s] = Tail(@)]
          /\ Wake(Head(queue[s]))
       \/ /\ queue[s] = <<>> \/ value[s] > 0
          /\ UNCHANGED <<queue, cur, ready, blocked>>

\* Mutant: Front in place of RemoveFront.
VStaysQueued(s) ==
    /\ value' = [value EXCEPT ![s] = @ + 1]
    /\ UNCHANGED <<inP, queue>>
    /\ \/ queue[s] # <<>> /\ Wake(Head(queue[s]))
       \/ queue[s] = <<>> /\ UNCHANGED <<cur, ready, blocked>>

\* V called by a thread or a handler.
V(s) ==
    /\ value' = [value EXCEPT ![s] = @ + 1]
    /\ UNCHANGED inP
    /\ \/ /\ queue[s] # <<>>
          /\ queue' = [queue EXCEPT ![s] = Tail(@)]
          /\ Wake(Head(queue[s]))
       \/ /\ queue[s] = <<>>
          /\ UNCHANGED <<queue, cur, ready, blocked>>

\* The running thread executes its own code, with interrupts on.
Running(t) == cur = t /\ inP[t] = NoSem

\* Interrupt handlers run at a tick of a thread that enabled interrupts, or
\* from Interrupt::Idle inside Sleep's loop; CheckIfDue calls all that are
\* due, also after the first has made a thread ready.
Interruptible == cur # NoThread => inP[cur] = NoSem
-----------------------------------------------------------------------------
(***************************************************************************)
(* The machine: threads that call P, V, Fork, Yield and finish, handlers   *)
(* that call V.                                                            *)
(***************************************************************************)
ThreadV(t, s) == Running(t) /\ V(s)

HandlerV(s) == Interruptible /\ V(s)

\* A voluntary Yield, or the one OneTick makes when yieldOnReturn is set.
Yield(n) ==
    /\ cur # NoThread
    /\ inP[cur] = NoSem
    /\ YieldTo(n)
    /\ UNCHANGED semaphoreVars

ForkThread(t) ==
    /\ cur # NoThread
    /\ inP[cur] = NoSem
    /\ Fork(t)
    /\ UNCHANGED semaphoreVars

\* The main thread does not finish: it halts the machine.
FinishThread ==
    /\ cur \notin {NoThread, Main}
    /\ inP[cur] = NoSem
    /\ Finish
    /\ UNCHANGED semaphoreVars

DispatchThread(n) == Dispatch(n) /\ UNCHANGED semaphoreVars

Next ==
    \/ FinishThread
    \/ \E t \in Threads :
          \/ PAgain(t)
          \/ Yield(t)
          \/ ForkThread(t)
          \/ DispatchThread(t)
          \/ \E s \in Sems : P(t, s) \/ ThreadV(t, s)
    \/ \E s \in Sems : HandlerV(s)

Spec == Init /\ [][Next]_vars

\* The processor never stops while it has something to do, and the policy
\* gives every ready thread its turn: round robin (typeno 2), see
\* Scheduler!ReadyEventuallyRuns.
Scheduling ==
    /\ WF_vars(\E t \in Threads : PAgain(t))
    /\ \A t \in Threads : SF_vars(Yield(t) \/ DispatchThread(t))
-----------------------------------------------------------------------------
(***************************************************************************)
(* Properties.                                                             *)
(***************************************************************************)
\* Threads asleep on s, and threads a V(s) made ready that have not yet
\* tested the value again.
Sleepers(s) == {t \in blocked : inP[t] = s}
Woken(s) == {t \in Threads \ blocked : inP[t] = s}

\* Every sleeping thread is on the queue of the semaphore whose P put it to
\* sleep, once, and on no other: List::Append's "already in the list"
\* assertion (lib/list.cc:79) holds in P, and some V can still reach it.
SleepersQueued ==
    /\ \A t \in blocked : inP[t] # NoSem
    /\ \A s \in Sems :
          /\ {queue[s][i] : i \in 1..Len(queue[s])} = Sleepers(s)
          /\ \A i, j \in 1..Len(queue[s]) : queue[s][i] = queue[s][j] => i = j

\* While threads sleep on s, each unit of its value is already promised to a
\* woken thread that will test it.  P and V are not one atomic hand-off (V
\* wakes one thread, and any running thread may take the unit first), and
\* still no unit is left beside a sleeping thread.
NoLostWakeup ==
    \A s \in Sems :
        queue[s] # <<>> => value[s] <= Cardinality(Woken(s))

\* A thread never sleeps for good beside an available semaphore.
AvailableIsTaken ==
    \A s \in Sems :
        (queue[s] # <<>> /\ value[s] > 0) ~> (queue[s] = <<>> \/ value[s] = 0)
=============================================================================
