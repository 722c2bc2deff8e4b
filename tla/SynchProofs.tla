---------------------------- MODULE SynchProofs ----------------------------
(***************************************************************************)
(* Semaphore::P and V lose no wake-up; Lock and Condition exclude, miss no *)
(* signal and implement a Mesa monitor; SynchList strands no item: for any *)
(* number of threads, semaphores, items and calls.  A step of SynchList is *)
(* a step of its monitor, and a step of a monitor is one of its            *)
(* semaphores, so what is proved of one holds in the next.                 *)
(***************************************************************************)
EXTENDS SynchList, FiniteSetTheorems, TLAPS

(***************************************************************************)
(* Lists used as queues of threads that are on them at most once.          *)
(***************************************************************************)
\* The elements of a list.
Elements(q) == {q[i] : i \in 1..Len(q)}

\* No element occurs twice.
Distinct(q) == \A i, j \in 1..Len(q) : q[i] = q[j] => i = j

\* List::Append of an element that is not there.
LEMMA AppendElements ==
    ASSUME NEW S, NEW q \in Seq(S), NEW x \in S, x \notin Elements(q), Distinct(q)
    PROVE  /\ Append(q, x) \in Seq(S)
           /\ Append(q, x) # <<>>
           /\ Elements(Append(q, x)) = Elements(q) \cup {x}
           /\ Distinct(Append(q, x))
<1> DEFINE a == Append(q, x)
<1>1. /\ a \in Seq(S) /\ Len(a) = Len(q) + 1 /\ Len(q) \in Nat
      /\ \A i \in 1..Len(q) : a[i] = q[i]
      /\ a[Len(q) + 1] = x
  OBVIOUS
<1>2. Elements(a) = Elements(q) \cup {x}
  BY <1>1 DEF Elements
<1>3. Distinct(a)
  BY <1>1 DEF Distinct, Elements
<1>4. a # <<>>
  BY <1>1
<1> QED
  BY <1>1, <1>2, <1>3, <1>4

\* List::RemoveFront of a list that is not empty.
LEMMA TailElements ==
    ASSUME NEW S, NEW q \in Seq(S), q # <<>>, Distinct(q)
    PROVE  /\ Tail(q) \in Seq(S)
           /\ Head(q) \in Elements(q)
           /\ Elements(Tail(q)) = Elements(q) \ {Head(q)}
           /\ Distinct(Tail(q))
<1> DEFINE r == Tail(q)
<1>1. /\ r \in Seq(S) /\ Len(r) = Len(q) - 1 /\ Len(q) \in Nat \ {0}
      /\ \A i \in 1..Len(r) : r[i] = q[i + 1]
      /\ Head(q) = q[1]
  OBVIOUS
<1>2. Elements(r) = Elements(q) \ {Head(q)}
  <2>1. ASSUME NEW y \in Elements(r) PROVE y \in Elements(q) /\ y # Head(q)
    <3>1. PICK i \in 1..Len(r) : y = r[i]
      BY <2>1 DEF Elements
    <3>2. i + 1 \in 1..Len(q) /\ 1 \in 1..Len(q) /\ i + 1 # 1 /\ y = q[i + 1]
      BY <3>1, <1>1
    <3> QED
      BY <3>2, <1>1 DEF Elements, Distinct
  <2>2. ASSUME NEW y \in Elements(q), y # Head(q) PROVE y \in Elements(r)
    <3>1. PICK i \in 1..Len(q) : y = q[i]
      BY DEF Elements
    <3>2. i # 1
      BY <3>1, <2>2, <1>1
    <3>3. i - 1 \in 1..Len(r) /\ r[i - 1] = q[i]
      BY <3>1, <3>2, <1>1
    <3> QED
      BY <3>1, <3>3 DEF Elements
  <2> QED
    BY <2>1, <2>2
<1>3. Distinct(r)
  <2> SUFFICES ASSUME NEW i \in 1..Len(r), NEW j \in 1..Len(r), r[i] = r[j]
               PROVE  i = j
    BY DEF Distinct
  <2>1. i + 1 \in 1..Len(q) /\ j + 1 \in 1..Len(q) /\ q[i + 1] = q[j + 1]
    BY <1>1
  <2>2. i + 1 = j + 1
    BY <2>1 DEF Distinct
  <2> QED
    BY <2>2
<1>4. Head(q) \in Elements(q)
  BY <1>1 DEF Elements
<1> QED
  BY <1>1, <1>2, <1>3, <1>4

(***************************************************************************)
(* Semaphore: the inductive invariant.                                     *)
(***************************************************************************)
Inv == TypeOK /\ OnePlace /\ SleepersQueued /\ NoLostWakeup

\* SleepersQueued in terms of the lemmas above.
LEMMA SleepersQueuedIs ==
    SleepersQueued <=>
        /\ \A t \in blocked : inP[t] # NoSem
        /\ \A s \in Sems : Elements(queue[s]) = Sleepers(s) /\ Distinct(queue[s])
  BY DEF SleepersQueued, Elements, Distinct

\* Woken(s) is finite, so that it has a cardinality.
LEMMA WokenFinite == \A s : IsFiniteSet(Woken(s)) /\ Cardinality(Woken(s)) \in Nat
<1> TAKE s
<1>1. Woken(s) \subseteq Threads
  BY DEF Woken
<1>2. IsFiniteSet(Woken(s))
  BY <1>1, SemaphoreAssumption, FS_Subset
<1> QED
  BY <1>2, FS_CardinalityType

\* The state before the first call.
LEMMA InitInv == Init => Inv
<1> SUFFICES ASSUME Init PROVE Inv
  OBVIOUS
<1> USE DEF Init, DispatcherInit
<1>1. TypeOK
  BY DispatcherAssumption, SemaphoreAssumption DEF TypeOK, DispatcherTypeOK
<1>2. OnePlace
  BY DEF OnePlace
<1>3. SleepersQueued
  BY DEF SleepersQueued, Sleepers
<1>4. NoLostWakeup
  BY DEF NoLostWakeup
<1> QED
  BY <1>1, <1>2, <1>3, <1>4 DEF Inv

\* Steps that leave the semaphores alone and put nobody to sleep.
LEMMA SwitchInv ==
    ASSUME Inv, UNCHANGED semaphoreVars, UNCHANGED blocked,
           DispatcherTypeOK', OnePlace'
    PROVE  Inv'
<1>1. TypeOK'
  BY DEF Inv, TypeOK, semaphoreVars
<1>2. SleepersQueued'
  BY DEF Inv, SleepersQueued, Sleepers, semaphoreVars
<1>3. NoLostWakeup'
  BY DEF Inv, NoLostWakeup, Woken, semaphoreVars
<1> QED
  BY <1>1, <1>2, <1>3 DEF Inv

\* One round of P's while loop by the running thread t, which is new to P or
\* was woken in it.
LEMMA TestValueInv ==
    ASSUME Inv, NEW t \in Threads, NEW s \in Sems, cur = t,
           inP[t] \in {NoSem, s}, TestValue(t, s)
    PROVE  Inv'
<1> USE DEF Inv
<1>1. /\ t \notin blocked /\ t \notin ready /\ t # NoThread
      /\ blocked \subseteq Threads /\ ready \subseteq Threads
      /\ value \in [Sems -> Nat] /\ queue \in [Sems -> Seq(Threads)]
      /\ inP \in [Threads -> Sems \cup {NoSem}]
      /\ NoSem \notin Sems /\ NoThread \notin Threads
  BY DispatcherAssumption, SemaphoreAssumption
     DEF OnePlace, TypeOK, DispatcherTypeOK
<1>2. CASE value[s] > 0
  <2>1. /\ value' = [value EXCEPT ![s] = @ - 1]
        /\ inP' = [inP EXCEPT ![t] = NoSem]
        /\ UNCHANGED <<queue, cur, ready, blocked>>
    BY <1>1, <1>2 DEF TestValue
  <2>2. TypeOK'
    BY <1>1, <1>2, <2>1 DEF TypeOK, DispatcherTypeOK
  <2>3. OnePlace'
    BY <2>1 DEF OnePlace
  <2>4. SleepersQueued'
    <3>1. \A r \in Sems : Sleepers(r)' = Sleepers(r)
      BY <1>1, <2>1 DEF Sleepers
    <3> QED
      BY <3>1, <1>1, <2>1 DEF SleepersQueued
  <2>5. ASSUME NEW r \in Sems, queue[r] # <<>>
        PROVE  value'[r] <= Cardinality(Woken(r))'
    <3>1. value[r] <= Cardinality(Woken(r))
      BY <2>5 DEF NoLostWakeup
    <3>2. CASE inP[t] = NoSem
      <4>1. Woken(r)' = Woken(r)
        BY <1>1, <2>1, <3>2 DEF Woken
      <4> QED
        BY <4>1, <3>1, <1>1, <1>2, <2>1, WokenFinite
    <3>3. CASE inP[t] = s /\ r = s
      <4>1. t \in Woken(s) /\ Woken(s)' = Woken(s) \ {t}
        BY <1>1, <2>1, <3>3 DEF Woken
      <4>2. Cardinality(Woken(s)') = Cardinality(Woken(s)) - 1
        BY <4>1, WokenFinite, FS_RemoveElement
      <4> QED
        BY <4>2, <3>1, <3>3, <1>1, <1>2, <2>1, WokenFinite
    <3>4. CASE inP[t] = s /\ r # s
      <4>1. Woken(r)' = Woken(r)
        BY <1>1, <2>1, <3>4 DEF Woken
      <4> QED
        BY <4>1, <3>1, <3>4, <1>1, <2>1
    <3> QED
      BY <3>2, <3>3, <3>4
  <2>6. NoLostWakeup'
    BY <2>5, <2>1 DEF NoLostWakeup
  <2> QED
    BY <2>2, <2>3, <2>4, <2>6
<1>3. CASE value[s] = 0
  <2>1. /\ queue' = [queue EXCEPT ![s] = Append(@, t)]
        /\ inP' = [inP EXCEPT ![t] = s]
        /\ blocked' = blocked \cup {t}
        /\ cur' = NoThread
        /\ UNCHANGED <<value, ready>>
    BY <1>1, <1>3 DEF TestValue, Block
  <2>2. \A r \in Sems : Sleepers(r)' = IF r = s THEN Sleepers(r) \cup {t}
                                               ELSE Sleepers(r)
    BY <1>1, <2>1 DEF Sleepers
  <2>3. \A r \in Sems : Elements(queue[r]) = Sleepers(r) /\ Distinct(queue[r])
    BY SleepersQueuedIs
  <2>4. t \notin Elements(queue[s])
    BY <1>1, <2>3 DEF Sleepers
  <2>5. /\ queue'[s] \in Seq(Threads)
        /\ Elements(queue'[s]) = Elements(queue[s]) \cup {t}
        /\ Distinct(queue'[s])
    BY <1>1, <2>1, <2>3, <2>4, AppendElements
  <2>6. TypeOK'
    BY <1>1, <2>1, <2>5 DEF TypeOK, DispatcherTypeOK
  <2>7. OnePlace'
    BY <1>1, <2>1 DEF OnePlace
  <2>8. SleepersQueued'
    <3>1. ASSUME NEW r \in Sems
          PROVE  Elements(queue'[r]) = Sleepers(r)' /\ Distinct(queue'[r])
      BY <1>1, <2>1, <2>2, <2>3, <2>5
    <3>2. \A u \in blocked' : inP'[u] # NoSem
      BY <1>1, <2>1 DEF SleepersQueued
    <3> QED
      BY <3>1, <3>2 DEF SleepersQueued, Elements, Distinct
  <2>9. ASSUME NEW r \in Sems, queue'[r] # <<>>
        PROVE  value'[r] <= Cardinality(Woken(r))'
    <3>1. IsFiniteSet(Woken(r)') /\ Cardinality(Woken(r)') \in Nat
      <4>1. Woken(r)' \subseteq Threads
        BY DEF Woken
      <4> QED
        BY <4>1, SemaphoreAssumption, FS_Subset, FS_CardinalityType
    <3>2. CASE r = s
      BY <3>1, <3>2, <1>1, <1>3, <2>1
    <3>3. CASE r # s
      <4>1. Woken(r)' = Woken(r)
        BY <1>1, <2>1, <3>3 DEF Woken
      <4> QED
        BY <4>1, <2>9, <3>3, <1>1, <2>1 DEF NoLostWakeup
    <3> QED
      BY <3>2, <3>3
  <2>10. NoLostWakeup'
    BY <2>9 DEF NoLostWakeup
  <2> QED
    BY <2>6, <2>7, <2>8, <2>10
<1> QED
  BY <1>1, <1>2, <1>3

\* V by a thread or a handler.
LEMMA VInv ==
    ASSUME Inv, NEW s \in Sems, V(s)
    PROVE  Inv'
<1> USE DEF Inv
<1>1. /\ blocked \subseteq Threads /\ ready \subseteq Threads
      /\ cur \in Threads \cup {NoThread}
      /\ value \in [Sems -> Nat] /\ queue \in [Sems -> Seq(Threads)]
      /\ inP \in [Threads -> Sems \cup {NoSem}]
      /\ NoSem \notin Sems /\ NoThread \notin Threads
      /\ value' = [value EXCEPT ![s] = @ + 1] /\ inP' = inP
  BY DispatcherAssumption, SemaphoreAssumption DEF TypeOK, DispatcherTypeOK, V
<1>2. \A r \in Sems : Elements(queue[r]) = Sleepers(r) /\ Distinct(queue[r])
  BY SleepersQueuedIs
<1>3. CASE queue[s] = <<>>
  <2>1. UNCHANGED <<queue, cur, ready, blocked>>
    BY <1>3 DEF V
  <2>2. TypeOK' /\ OnePlace'
    BY <1>1, <2>1 DEF TypeOK, DispatcherTypeOK, OnePlace
  <2>3. SleepersQueued'
    BY <1>1, <2>1 DEF SleepersQueued, Sleepers
  <2>4. NoLostWakeup'
    BY <1>1, <1>3, <2>1 DEF NoLostWakeup, Woken
  <2> QED
    BY <2>2, <2>3, <2>4
<1>4. CASE queue[s] # <<>>
  <2> DEFINE h == Head(queue[s])
  <2>1. /\ queue' = [queue EXCEPT ![s] = Tail(@)]
        /\ h \in blocked
        /\ blocked' = blocked \ {h}
        /\ ready' = ready \cup {h}
        /\ cur' = cur
    BY <1>4 DEF V, Wake
  <2>2. /\ queue'[s] \in Seq(Threads)
        /\ h \in Elements(queue[s])
        /\ Elements(queue'[s]) = Elements(queue[s]) \ {h}
        /\ Distinct(queue'[s])
    BY <1>1, <1>2, <1>4, <2>1, TailElements
  <2>3. inP[h] = s
    BY <1>2, <2>2 DEF Sleepers
  <2>4. TypeOK'
    BY <1>1, <2>1, <2>2 DEF TypeOK, DispatcherTypeOK
  <2>5. OnePlace'
    BY <2>1 DEF OnePlace
  <2>6. SleepersQueued'
    <3>1. \A r \in Sems : Sleepers(r)' = IF r = s THEN Sleepers(r) \ {h}
                                                 ELSE Sleepers(r)
      BY <1>1, <2>1, <2>3 DEF Sleepers
    <3>2. ASSUME NEW r \in Sems
          PROVE  Elements(queue'[r]) = Sleepers(r)' /\ Distinct(queue'[r])
      BY <1>1, <1>2, <2>1, <2>2, <3>1
    <3>3. \A u \in blocked' : inP'[u] # NoSem
      BY <1>1, <2>1 DEF SleepersQueued
    <3> QED
      BY <3>2, <3>3 DEF SleepersQueued, Elements, Distinct
  <2>7. ASSUME NEW r \in Sems, queue'[r] # <<>>
        PROVE  value'[r] <= Cardinality(Woken(r))'
    <3>1. CASE r = s
      <4>1. value[s] <= Cardinality(Woken(s))
        BY <1>4 DEF NoLostWakeup
      <4>2. h \notin Woken(s) /\ Woken(s)' = Woken(s) \cup {h}
        BY <1>1, <2>1, <2>3 DEF Woken
      <4>3. Cardinality(Woken(s)') = Cardinality(Woken(s)) + 1
        BY <4>2, WokenFinite, FS_AddElement
      <4> QED
        BY <4>1, <4>3, <3>1, <1>1, WokenFinite
    <3>2. CASE r # s
      <4>1. Woken(r)' = Woken(r)
        BY <1>1, <2>1, <2>3, <3>2 DEF Woken
      <4> QED
        BY <4>1, <2>7, <3>2, <1>1, <2>1 DEF NoLostWakeup
    <3> QED
      BY <3>1, <3>2
  <2>8. NoLostWakeup'
    BY <2>7 DEF NoLostWakeup
  <2> QED
    BY <2>4, <2>5, <2>6, <2>8
<1> QED
  BY <1>3, <1>4

\* One step of the machine.
LEMMA NextInv == Inv /\ [Next]_vars => Inv'
<1> SUFFICES ASSUME Inv, [Next]_vars PROVE Inv'
  OBVIOUS
<1>0. /\ DispatcherTypeOK /\ OnePlace /\ NoThread \notin Threads
      /\ inP \in [Threads -> Sems \cup {NoSem}]
  BY DispatcherAssumption DEF Inv, TypeOK
<1>1. CASE FinishThread
  <2>1. DispatcherTypeOK' /\ OnePlace' /\ UNCHANGED blocked /\ UNCHANGED semaphoreVars
    BY <1>0, <1>1 DEF FinishThread, Finish, DispatcherTypeOK, OnePlace
  <2> QED
    BY <2>1, SwitchInv
<1>2. ASSUME NEW t \in Threads, PAgain(t) PROVE Inv'
  BY <1>0, <1>2, TestValueInv DEF PAgain
<1>3. ASSUME NEW t \in Threads, Yield(t) PROVE Inv'
  <2>1. DispatcherTypeOK' /\ OnePlace' /\ UNCHANGED blocked /\ UNCHANGED semaphoreVars
    BY <1>0, <1>3 DEF Yield, YieldTo, DispatcherTypeOK, OnePlace
  <2> QED
    BY <2>1, SwitchInv
<1>4. ASSUME NEW t \in Threads, ForkThread(t) PROVE Inv'
  <2>1. DispatcherTypeOK' /\ OnePlace' /\ UNCHANGED blocked /\ UNCHANGED semaphoreVars
    BY <1>0, <1>4 DEF ForkThread, Fork, Forked, DispatcherTypeOK, OnePlace
  <2> QED
    BY <2>1, SwitchInv
<1>5. ASSUME NEW t \in Threads, DispatchThread(t) PROVE Inv'
  <2>1. DispatcherTypeOK' /\ OnePlace' /\ UNCHANGED blocked /\ UNCHANGED semaphoreVars
    BY <1>0, <1>5 DEF DispatchThread, Dispatch, DispatcherTypeOK, OnePlace
  <2> QED
    BY <2>1, SwitchInv
<1>6. ASSUME NEW t \in Threads, NEW s \in Sems, P(t, s) PROVE Inv'
  BY <1>6, TestValueInv DEF P
<1>7. ASSUME NEW t \in Threads, NEW s \in Sems, ThreadV(t, s) PROVE Inv'
  BY <1>7, VInv DEF ThreadV
<1>8. ASSUME NEW s \in Sems, HandlerV(s) PROVE Inv'
  BY <1>8, VInv DEF HandlerV
<1>9. CASE UNCHANGED vars
  BY <1>9 DEF vars, Inv, TypeOK, DispatcherTypeOK, OnePlace, SleepersQueued,
              Sleepers, NoLostWakeup, Woken
<1> QED
  BY <1>1, <1>2, <1>3, <1>4, <1>5, <1>6, <1>7, <1>8, <1>9 DEF Next
-----------------------------------------------------------------------------
(***************************************************************************)
(* Semaphore: the theorems.                                                *)
(***************************************************************************)
\* The inductive invariant holds in every reachable state.
THEOREM SemaphoreInvariant == Spec => []Inv
  BY InitInv, NextInv, PTL DEF Spec

\* Every variable keeps its type; above all "value, always >= 0" (synch.h).
THEOREM SemaphoreTypeOK == Spec => []TypeOK
<1>1. Inv => TypeOK
  BY DEF Inv
<1> QED
  BY <1>1, SemaphoreInvariant, PTL

\* Threads that sleep in P are exactly the ones on the semaphore's queue.
THEOREM SleepersAreQueued == Spec => []SleepersQueued
<1>1. Inv => SleepersQueued
  BY DEF Inv
<1> QED
  BY <1>1, SemaphoreInvariant, PTL

\* P and V lose no wake-up: beside a sleeping thread every unit of the value
\* is promised to a woken one.
THEOREM WakeupsAreKept == Spec => []NoLostWakeup
<1>1. Inv => NoLostWakeup
  BY DEF Inv
<1> QED
  BY <1>1, SemaphoreInvariant, PTL
-----------------------------------------------------------------------------
(***************************************************************************)
(* Monitor: its semaphores.                                                *)
(***************************************************************************)
\* The lock and the waiters have semaphores of their own.
LEMMA MonitorConstants ==
    /\ Main \in Threads /\ IsFiniteSet(Threads)
    /\ NoThread \notin Threads /\ TheLock \notin Threads
    /\ TheLock \in Sems /\ Threads \subseteq Sems /\ Sems = Threads \cup {TheLock}
    /\ NoSem \notin Sems /\ NoSem \notin Threads /\ NoSem # TheLock
    /\ InitialValue[TheLock] = 1 /\ \A t \in Threads : InitialValue[t] = 0
  BY DispatcherAssumption, SemaphoreAssumption, MonitorAssumption DEF MonitorSems, MonitorValue

\* waitQueue holds threads, whatever else happens.
WaitQueueOK == waitQueue \in Seq(Threads)

\* Only Wait and Signal change waitQueue.
LEMMA WaitQueueType == MonitorSpec => []WaitQueueOK
<1>1. MonitorInit => WaitQueueOK
  BY DEF MonitorInit, WaitQueueOK
<1>2. WaitQueueOK /\ [MonitorNext]_allVars => WaitQueueOK'
  <2> SUFFICES ASSUME WaitQueueOK, [MonitorNext]_allVars PROVE WaitQueueOK'
    OBVIOUS
  <2>1. ASSUME NEW t \in Threads, Wait(t) PROVE WaitQueueOK'
    BY <2>1 DEF Wait, WaitQueueOK
  <2>2. ASSUME NEW t \in Threads, NEW l, SignalWaiter(t, l) PROVE WaitQueueOK'
    BY <2>2 DEF SignalWaiter, WaitQueueOK
  <2>3. CASE UNCHANGED waitQueue
    BY <2>3 DEF WaitQueueOK
  <2> QED
    BY <2>1, <2>2, <2>3
       DEF MonitorNext, allVars, Acquire, Release, WaiterP, Reacquire, Signal, Broadcast,
           TestAgain, Switch, ForkCaller, FinishCaller, monitorVars
<1> QED
  BY <1>1, <1>2, PTL DEF MonitorSpec

\* A step of a monitor is a step of its semaphores.
LEMMA SemaphoreStep == WaitQueueOK /\ [MonitorNext]_allVars => [Next]_vars
<1> SUFFICES ASSUME WaitQueueOK, [MonitorNext]_allVars PROVE [Next]_vars
  OBVIOUS
<1>0. TheLock \in Sems /\ Threads \subseteq Sems
  BY MonitorConstants
<1>1. CASE UNCHANGED allVars
  BY <1>1 DEF allVars
<1>2. ASSUME NEW t \in Threads, Acquire(t) \/ Reacquire(t) \/ WaiterP(t) PROVE Next
  BY <1>0, <1>2 DEF Acquire, Reacquire, WaiterP, Next
<1>3. ASSUME NEW t \in Threads, Release(t) \/ Wait(t) PROVE Next
  BY <1>0, <1>3 DEF Release, Wait, Inside, Next, ThreadV
<1>4. ASSUME NEW t \in Threads, Signal(t) \/ Broadcast(t) PROVE Next
  <2>1. waitQueue # <<>> /\ Running(t) /\ V(Head(waitQueue))
    BY <1>4 DEF Signal, Broadcast, SignalWaiter, Inside
  <2>2. Head(waitQueue) \in Sems
    BY <1>0, <2>1 DEF WaitQueueOK
  <2> QED
    BY <2>1, <2>2 DEF Next, ThreadV
<1>5. ASSUME NEW t \in Threads,
             TestAgain(t) \/ Switch(t) \/ ForkCaller(t) \/ FinishCaller(t)
      PROVE  Next
  BY <1>5 DEF TestAgain, Switch, ForkCaller, FinishCaller, Next
<1> QED
  BY <1>1, <1>2, <1>3, <1>4, <1>5 DEF MonitorNext

\* The semaphores of a monitor behave as Semaphore says.
LEMMA SemaphoreBehaviour == MonitorSpec => []Inv
<1>1. MonitorInit => Init
  BY DEF MonitorInit
<1> QED
  BY <1>1, SemaphoreStep, WaitQueueType, SemaphoreInvariant, PTL DEF MonitorSpec, Spec
-----------------------------------------------------------------------------
(***************************************************************************)
(* Mutual exclusion.                                                       *)
(***************************************************************************)
\* What the proofs below use of the semaphores.
SemTypes ==
    /\ value \in [Sems -> Nat]
    /\ inP \in [Threads -> Sems \cup {NoSem}]

\* A thread sleeps on the lock in Acquire and on its own semaphore in Wait.
SleepPlaces ==
    \A t \in Threads :
        inP[t] # NoSem => \/ at[t] = "entered" /\ inP[t] = TheLock
                          \/ at[t] = "reacquire" /\ inP[t] = t

\* MutualExclusion is inductive once it is known where threads sleep.
ExclusionInv ==
    /\ at \in [Threads -> Labels]
    /\ lockHolder \in Threads \cup {NoThread}
    /\ SleepPlaces
    /\ MutualExclusion

\* The P of Acquire, at its first test and after each wake-up: t enters with
\* the one unit, or sleeps as no owner.
LEMMA LockTest ==
    ASSUME SemTypes, ExclusionInv,
           NEW t \in Threads, ~Owns(t), TestValue(t, TheLock),
           at' = [at EXCEPT ![t] = "entered"], UNCHANGED lockHolder
    PROVE  ExclusionInv'
<1> USE DEF ExclusionInv
<1>0. TheLock \in Sems /\ NoSem # TheLock
  BY MonitorConstants
<1>1. /\ at' \in [Threads -> Labels] /\ at'[t] = "entered"
      /\ \A u \in Threads \ {t} : at'[u] = at[u]
  BY DEF Labels
<1>2. CASE value[TheLock] > 0
  <2>1. value[TheLock] = 1 /\ \A u \in Threads : ~Owns(u)
    BY <1>2 DEF MutualExclusion
  <2>2. /\ value'[TheLock] = 0 /\ inP'[t] = NoSem
        /\ \A u \in Threads \ {t} : inP'[u] = inP[u]
    BY <1>0, <1>2, <2>1 DEF TestValue, SemTypes
  <2>3. Owns(t)' /\ \A u \in Threads \ {t} : ~Owns(u)'
    BY <1>1, <2>1, <2>2 DEF Owns
  <2>4. lockHolder = NoThread
    BY <2>1 DEF MutualExclusion
  <2>5. MutualExclusion'
    BY <1>1, <2>2, <2>3, <2>4 DEF MutualExclusion, Holder
  <2> QED
    BY <1>1, <2>2, <2>5 DEF SleepPlaces
<1>3. CASE value[TheLock] = 0
  <2>1. /\ value' = value /\ inP'[t] = TheLock
        /\ \A u \in Threads \ {t} : inP'[u] = inP[u]
    BY <1>0, <1>3 DEF TestValue, SemTypes
  <2>2. \A u \in Threads : Owns(u)' <=> Owns(u)
    BY <1>0, <1>1, <2>1 DEF Owns
  <2>3. \A u \in Threads : Owns(u) => Holder(u)' = Holder(u)
    BY <1>1 DEF Holder
  <2>4. MutualExclusion'
    BY <2>1, <2>2, <2>3 DEF MutualExclusion
  <2> QED
    BY <1>1, <2>1, <2>4 DEF SleepPlaces
<1> QED
  BY <1>0, <1>2, <1>3 DEF SemTypes

\* Release, and the first half of Wait: the owner leaves.
LEMMA OwnerLeaves ==
    ASSUME SemTypes, ExclusionInv,
           NEW t \in Threads, Inside(t), V(TheLock), lockHolder' = NoThread,
           NEW l \in {"out", "wait"}, at' = [at EXCEPT ![t] = l]
    PROVE  ExclusionInv'
<1> USE DEF ExclusionInv
<1>0. TheLock \in Sems
  BY MonitorConstants
<1>1. Owns(t) /\ inP[t] = NoSem
  BY DEF Owns, Inside, Running
<1>2. value[TheLock] = 0 /\ \A u \in Threads \ {t} : ~Owns(u)
  BY <1>1 DEF MutualExclusion
<1>3. /\ at' \in [Threads -> Labels] /\ at'[t] = l
      /\ \A u \in Threads \ {t} : at'[u] = at[u]
  BY DEF Labels
<1>4. value'[TheLock] = 1 /\ inP' = inP
  BY <1>0, <1>2 DEF V, SemTypes
<1>5. \A u \in Threads : ~Owns(u)'
  BY <1>2, <1>3, <1>4 DEF Owns
<1>6. MutualExclusion'
  BY <1>4, <1>5 DEF MutualExclusion
<1> QED
  BY <1>1, <1>3, <1>4, <1>6 DEF SleepPlaces

\* waiter->P() in Wait, at its first test and after each wake-up, by a
\* thread that does not own the lock before or after it.
LEMMA WaiterTest ==
    ASSUME SemTypes, ExclusionInv,
           NEW t \in Threads, ~Owns(t), TestValue(t, t),
           at' = [at EXCEPT ![t] = "reacquire"], UNCHANGED lockHolder
    PROVE  ExclusionInv'
<1> USE DEF ExclusionInv
<1>1. TheLock \in Sems /\ t \in Sems /\ t # TheLock /\ t # NoSem
  BY MonitorConstants
<1>2. /\ at' \in [Threads -> Labels] /\ at'[t] = "reacquire"
      /\ \A u \in Threads \ {t} : at'[u] = at[u]
  BY DEF Labels
<1>3. /\ value'[TheLock] = value[TheLock] /\ inP'[t] \in {NoSem, t}
      /\ \A u \in Threads \ {t} : inP'[u] = inP[u]
  BY <1>1 DEF TestValue, SemTypes
<1>4. \A u \in Threads : (Owns(u)' <=> Owns(u)) /\ (Owns(u) => Holder(u)' = Holder(u))
  BY <1>2, <1>3 DEF Owns, Holder
<1>5. MutualExclusion'
  BY <1>3, <1>4 DEF MutualExclusion
<1> QED
  BY <1>2, <1>3, <1>5 DEF SleepPlaces

\* Signal, and one round of Broadcast.
LEMMA OwnerSignals ==
    ASSUME SemTypes, WaitQueueOK, ExclusionInv,
           NEW t \in Threads, Owns(t),
           NEW l \in {"held", "broadcast"}, SignalWaiter(t, l)
    PROVE  ExclusionInv'
<1> USE DEF ExclusionInv
<1> DEFINE h == Head(waitQueue)
<1>1. TheLock \in Sems /\ h \in Sems /\ h # TheLock
  BY MonitorConstants DEF WaitQueueOK, SignalWaiter
<1>2. /\ at' \in [Threads -> Labels] /\ at'[t] = l
      /\ \A u \in Threads \ {t} : at'[u] = at[u]
  BY DEF Labels, SignalWaiter, Goto
<1>3. value'[TheLock] = value[TheLock] /\ inP' = inP /\ lockHolder' = t
  BY <1>1 DEF SignalWaiter, Asserted, V, SemTypes
<1>4. \A u \in Threads : Owns(u)' <=> u = t
  BY <1>2, <1>3 DEF Owns, MutualExclusion
<1>5. MutualExclusion'
  BY <1>2, <1>3, <1>4 DEF MutualExclusion, Holder
<1> QED
  BY <1>2, <1>3, <1>5 DEF SleepPlaces, Owns

\* One step.
LEMMA ExclusionStep ==
    ASSUME SemTypes, WaitQueueOK, ExclusionInv, [MonitorNext]_allVars
    PROVE  ExclusionInv'
<1>1. ASSUME NEW t \in Threads, Acquire(t) \/ Reacquire(t) PROVE ExclusionInv'
  <2>1. ~Owns(t) /\ TestValue(t, TheLock)
    BY <1>1 DEF Acquire, Reacquire, Owns, P
  <2> QED
    BY <1>1, <2>1, LockTest DEF Acquire, Reacquire, Goto
<1>2. ASSUME NEW t \in Threads, Release(t) \/ Wait(t) PROVE ExclusionInv'
  BY <1>2, OwnerLeaves DEF Release, Wait, Goto
<1>3. ASSUME NEW t \in Threads, WaiterP(t) PROVE ExclusionInv'
  <2>1. ~Owns(t) /\ TestValue(t, t)
    BY <1>3 DEF WaiterP, Owns, P
  <2> QED
    BY <1>3, <2>1, WaiterTest DEF WaiterP, Goto
<1>4. ASSUME NEW t \in Threads, Signal(t) \/ Broadcast(t) PROVE ExclusionInv'
  <2>1. Owns(t)
    BY <1>4 DEF Signal, Broadcast, Inside, Running, Owns
  <2> QED
    BY <1>4, <2>1, OwnerSignals DEF Signal, Broadcast
<1>5. ASSUME NEW t \in Threads, TestAgain(t) PROVE ExclusionInv'
  <2>1. ~Owns(t) /\ inP[t] # NoSem /\ TestValue(t, inP[t]) /\ UNCHANGED <<lockHolder, at>>
    BY <1>5 DEF TestAgain, PAgain, monitorVars, Owns
  <2>2. CASE at[t] = "entered" /\ inP[t] = TheLock
    <3>1. at' = [at EXCEPT ![t] = "entered"]
      BY <2>1, <2>2 DEF ExclusionInv
    <3> QED
      BY <2>1, <2>2, <3>1, LockTest
  <2>3. CASE at[t] = "reacquire" /\ inP[t] = t
    <3>1. at' = [at EXCEPT ![t] = "reacquire"]
      BY <2>1, <2>3 DEF ExclusionInv
    <3> QED
      BY <2>1, <2>3, <3>1, WaiterTest
  <2> QED
    BY <2>1, <2>2, <2>3 DEF ExclusionInv, SleepPlaces
<1>6. CASE UNCHANGED <<value, inP, lockHolder, at>>
  BY <1>6 DEF ExclusionInv, SleepPlaces, MutualExclusion, Owns, Holder
<1>7. ASSUME NEW t \in Threads, Switch(t) \/ ForkCaller(t) \/ FinishCaller(t)
      PROVE  ExclusionInv'
  BY <1>6, <1>7 DEF Switch, ForkCaller, FinishCaller, monitorVars, Yield,
                    DispatchThread, ForkThread, FinishThread, semaphoreVars
<1> QED
  BY <1>1, <1>2, <1>3, <1>4, <1>5, <1>6, <1>7 DEF MonitorNext, allVars, vars, monitorVars

\* The invariant holds in every reachable state.
LEMMA ExclusionInvariant == MonitorSpec => []ExclusionInv
<1>1. MonitorInit => ExclusionInv
  BY MonitorConstants DEF MonitorInit, Init, ExclusionInv, SleepPlaces,
         MutualExclusion, Owns, Labels
<1>2. Inv => SemTypes
  BY DEF Inv, TypeOK, SemTypes
<1>3. Inv /\ WaitQueueOK /\ ExclusionInv /\ [MonitorNext]_allVars => ExclusionInv'
  BY <1>2, ExclusionStep
<1> QED
  BY <1>1, <1>3, SemaphoreBehaviour, WaitQueueType, PTL DEF MonitorSpec

\* At most one thread is in the monitor, and IsHeldByCurrentThread holds
\* wherever Release, Wait and Signal assert it, for any number of threads.
THEOREM LocksExclude == MonitorSpec => []MutualExclusion
<1>1. ExclusionInv => MutualExclusion
  BY DEF ExclusionInv
<1> QED
  BY <1>1, ExclusionInvariant, PTL
-----------------------------------------------------------------------------
(***************************************************************************)
(* Signals are not missed.                                                 *)
(***************************************************************************)
Waits(t) == t \in Elements(waitQueue)

\* The inductive form of WaiterSemaphores.
WaiterInv ==
    /\ Distinct(waitQueue)
    /\ \A t \in Threads :
          /\ Waits(t) => InWait(t)
          /\ value[t] = IF InWait(t) /\ ~Waits(t) THEN 1 ELSE 0

\* waiter->P(): t takes its signal and leaves Wait, or sleeps for it.
LEMMA WaiterTakes ==
    ASSUME SemTypes, WaiterInv, UNCHANGED waitQueue,
           NEW t \in Threads, InWait(t), TestValue(t, t),
           at' = [at EXCEPT ![t] = "reacquire"], at \in [Threads -> Labels]
    PROVE  WaiterInv'
<1>1. t \in Sems /\ t # NoSem /\ Threads \subseteq Sems
  BY MonitorConstants
<1>2. Distinct(waitQueue)' /\ \A u \in Threads : Waits(u)' <=> Waits(u)
  BY DEF WaiterInv, Waits, Elements, Distinct
<1>3. \A u \in Threads \ {t} : (InWait(u)' <=> InWait(u)) /\ value'[u] = value[u]
  BY <1>1 DEF InWait, TestValue, SemTypes
<1>4. CASE value[t] > 0
  <2>1. ~Waits(t) /\ value[t] = 1
    BY <1>4 DEF WaiterInv
  <2>2. value'[t] = 0 /\ inP'[t] = NoSem /\ at'[t] = "reacquire"
    BY <1>1, <1>4, <2>1 DEF TestValue, SemTypes
  <2>3. ~InWait(t)'
    BY <1>1, <2>2 DEF InWait
  <2> QED
    BY <1>2, <1>3, <2>1, <2>2, <2>3 DEF WaiterInv
<1>5. CASE value[t] = 0
  <2>1. value' = value /\ inP'[t] = t /\ at'[t] = "reacquire"
    BY <1>1, <1>5 DEF TestValue, SemTypes
  <2>2. InWait(t)'
    BY <2>1 DEF InWait
  <2> QED
    BY <1>2, <1>3, <2>1, <2>2 DEF WaiterInv
<1> QED
  BY <1>1, <1>4, <1>5 DEF SemTypes

\* Steps that change neither waitQueue nor the semaphore of a waiter.
LEMMA WaitersAlone ==
    ASSUME WaiterInv, UNCHANGED waitQueue,
           \A u \in Threads : (InWait(u)' <=> InWait(u)) /\ value'[u] = value[u]
    PROVE  WaiterInv'
<1>1. Distinct(waitQueue)' /\ \A u \in Threads : Waits(u)' <=> Waits(u)
  BY DEF WaiterInv, Waits, Elements, Distinct
<1> QED
  BY <1>1 DEF WaiterInv

\* The first half of Wait: t joins waitQueue with a new semaphore.
LEMMA WaiterJoins ==
    ASSUME SemTypes, WaitQueueOK, ExclusionInv, WaiterInv,
           NEW t \in Threads, Wait(t)
    PROVE  WaiterInv'
<1>1. Threads \subseteq Sems /\ TheLock \notin Threads /\ TheLock \in Sems /\ NoSem \notin Threads
  BY MonitorConstants
<1>2. ~InWait(t)
  BY <1>1 DEF Wait, Inside, InWait, Running
<1>3. ~Waits(t) /\ value[t] = 0
  BY <1>2 DEF WaiterInv
<1>4. /\ \A u \in Threads : Waits(u)' <=> Waits(u) \/ u = t
      /\ Distinct(waitQueue)'
  <2>1. /\ Elements(Append(waitQueue, t)) = Elements(waitQueue) \cup {t}
        /\ Distinct(Append(waitQueue, t))
    BY <1>3, AppendElements DEF WaitQueueOK, WaiterInv, Waits
  <2> QED
    BY <2>1 DEF Wait, Waits, Elements, Distinct
<1>5. \A u \in Threads : value'[u] = value[u]
  BY <1>1 DEF Wait, V, SemTypes
<1>6. at'[t] = "wait" /\ \A u \in Threads \ {t} : at'[u] = at[u] /\ inP'[u] = inP[u]
  BY DEF Wait, Goto, V, ExclusionInv
<1>7. InWait(t)' /\ \A u \in Threads \ {t} : InWait(u)' <=> InWait(u)
  BY <1>6 DEF InWait
<1> QED
  BY <1>3, <1>4, <1>5, <1>7 DEF WaiterInv

\* Signal: the oldest waiter leaves waitQueue with one unit.
LEMMA WaiterSignalled ==
    ASSUME SemTypes, WaitQueueOK, ExclusionInv, WaiterInv,
           NEW t \in Threads, Owns(t),
           NEW l \in {"held", "broadcast"}, SignalWaiter(t, l)
    PROVE  WaiterInv'
<1> DEFINE h == Head(waitQueue)
<1>1. Threads \subseteq Sems /\ NoSem \notin Threads /\ waitQueue # <<>> /\ h \in Threads
  BY MonitorConstants DEF SignalWaiter, WaitQueueOK
<1>2. /\ h \in Elements(waitQueue)
      /\ Elements(Tail(waitQueue)) = Elements(waitQueue) \ {h}
      /\ Distinct(Tail(waitQueue))
  BY <1>1, TailElements DEF WaitQueueOK, WaiterInv
<1>3. /\ \A u \in Threads : Waits(u)' <=> Waits(u) /\ u # h
      /\ Distinct(waitQueue)'
  <2>1. waitQueue' = Tail(waitQueue)
    BY DEF SignalWaiter
  <2>2. Elements(waitQueue)' = Elements(Tail(waitQueue))
    BY <2>1 DEF Elements
  <2>3. Distinct(waitQueue)' <=> Distinct(Tail(waitQueue))
    BY <2>1 DEF Distinct
  <2> QED
    BY <1>2, <2>2, <2>3 DEF Waits
<1>4. Waits(h) /\ InWait(h) /\ value[h] = 0
  BY <1>1, <1>2 DEF WaiterInv, Waits
<1>5. value'[h] = 1 /\ \A u \in Threads \ {h} : value'[u] = value[u]
  BY <1>1, <1>4 DEF SignalWaiter, V, SemTypes
<1>6. \A u \in Threads : InWait(u)' <=> InWait(u)
  <2>1. inP' = inP /\ at'[t] = l /\ \A u \in Threads \ {t} : at'[u] = at[u]
    BY DEF SignalWaiter, V, Goto, ExclusionInv
  <2> QED
    BY <2>1, <1>1 DEF InWait, Owns
<1> QED
  BY <1>3, <1>4, <1>5, <1>6 DEF WaiterInv

\* One step.
LEMMA WaiterStep ==
    ASSUME SemTypes, WaitQueueOK, ExclusionInv, WaiterInv, [MonitorNext]_allVars
    PROVE  WaiterInv'
<1>0. /\ at \in [Threads -> Labels] /\ inP \in [Threads -> Sems \cup {NoSem}]
      /\ value \in [Sems -> Nat]
      /\ Threads \subseteq Sems /\ TheLock \in Sems
      /\ TheLock \notin Threads /\ NoSem \notin Threads
  BY MonitorConstants DEF ExclusionInv, SemTypes
<1>1. ASSUME NEW t \in Threads, Acquire(t) \/ Reacquire(t) PROVE WaiterInv'
  <2>1. /\ TestValue(t, TheLock) /\ inP[t] = NoSem /\ UNCHANGED waitQueue
        /\ at[t] \in {"out", "reacquire"} /\ at' = [at EXCEPT ![t] = "entered"]
    BY <1>1 DEF Acquire, Reacquire, P, Goto
  <2>2. \A u \in Threads : (InWait(u)' <=> InWait(u)) /\ value'[u] = value[u]
    BY <1>0, <2>1 DEF InWait, TestValue
  <2> QED
    BY <2>1, <2>2, WaitersAlone
<1>2. ASSUME NEW t \in Threads, Release(t) PROVE WaiterInv'
  <2>1. \A u \in Threads : (InWait(u)' <=> InWait(u)) /\ value'[u] = value[u]
    BY <1>0, <1>2 DEF Release, Inside, Running, V, Goto, InWait
  <2> QED
    BY <1>2, <2>1, WaitersAlone DEF Release
<1>3. ASSUME NEW t \in Threads, Wait(t) PROVE WaiterInv'
  BY <1>3, WaiterJoins
<1>4. ASSUME NEW t \in Threads, WaiterP(t) PROVE WaiterInv'
  BY <1>0, <1>4, WaiterTakes DEF WaiterP, P, Goto, InWait
<1>5. ASSUME NEW t \in Threads, Signal(t) \/ Broadcast(t) PROVE WaiterInv'
  <2>1. Owns(t)
    BY <1>5 DEF Signal, Broadcast, Inside, Running, Owns
  <2> QED
    BY <1>5, <2>1, WaiterSignalled DEF Signal, Broadcast
<1>6. ASSUME NEW t \in Threads, TestAgain(t) PROVE WaiterInv'
  <2>1. inP[t] # NoSem /\ TestValue(t, inP[t]) /\ UNCHANGED <<waitQueue, at>>
    BY <1>6 DEF TestAgain, PAgain, monitorVars
  <2>2. CASE at[t] = "entered" /\ inP[t] = TheLock
    <3>1. \A u \in Threads : (InWait(u)' <=> InWait(u)) /\ value'[u] = value[u]
      BY <1>0, <2>1, <2>2 DEF InWait, TestValue
    <3> QED
      BY <2>1, <3>1, WaitersAlone
  <2>3. CASE at[t] = "reacquire" /\ inP[t] = t
    <3>1. at' = [at EXCEPT ![t] = "reacquire"] /\ InWait(t)
      BY <1>0, <2>1, <2>3 DEF InWait
    <3> QED
      BY <1>0, <2>1, <2>3, <3>1, WaiterTakes
  <2> QED
    BY <2>1, <2>2, <2>3 DEF ExclusionInv, SleepPlaces
<1>7. CASE UNCHANGED <<value, inP, waitQueue, at>>
  <2>1. \A u \in Threads : (InWait(u)' <=> InWait(u)) /\ value'[u] = value[u]
    BY <1>7 DEF InWait
  <2> QED
    BY <1>7, <2>1, WaitersAlone
<1>8. ASSUME NEW t \in Threads, Switch(t) \/ ForkCaller(t) \/ FinishCaller(t)
      PROVE  WaiterInv'
  BY <1>7, <1>8 DEF Switch, ForkCaller, FinishCaller, monitorVars, Yield,
                    DispatchThread, ForkThread, FinishThread, semaphoreVars
<1> QED
  BY <1>1, <1>2, <1>3, <1>4, <1>5, <1>6, <1>7, <1>8 DEF MonitorNext, allVars, vars, monitorVars

\* A thread that is not in Wait has nobody on its semaphore.
LEMMA QueueIsEmpty ==
    ASSUME Inv, ExclusionInv, NEW t \in Threads, ~InWait(t)
    PROVE  queue[t] = <<>>
<1>1. /\ t \in Sems /\ t # NoSem /\ t # TheLock
      /\ queue[t] \in Seq(Threads) /\ blocked \subseteq Threads
  BY MonitorConstants DEF Inv, TypeOK, DispatcherTypeOK
<1>2. {queue[t][i] : i \in 1..Len(queue[t])} = {u \in blocked : inP[u] = t}
  BY <1>1 DEF Inv, SleepersQueued, Sleepers
<1>3. \A u \in blocked : inP[u] # t
  BY <1>1 DEF ExclusionInv, SleepPlaces, InWait
<1>4. \A i \in 1..Len(queue[t]) : FALSE
  BY <1>2, <1>3
<1> QED
  BY <1>1, <1>4

\* The number of places of t in a queue that it is on at most once.
LEMMA CountPlaces ==
    ASSUME NEW q \in Seq(Threads), Distinct(q), NEW t
    PROVE  LET places == {i \in 1..Len(q) : q[i] = t}
           IN  IF t \in Elements(q) THEN Cardinality(places) = 1 ELSE places = {}
<1> DEFINE places == {i \in 1..Len(q) : q[i] = t}
<1>1. CASE t \in Elements(q)
  <2>1. PICK i \in 1..Len(q) : q[i] = t
    BY <1>1 DEF Elements
  <2>2. places = {i}
    BY <2>1 DEF Distinct
  <2> QED
    BY <1>1, <2>2, FS_Singleton
<1>2. CASE t \notin Elements(q)
  BY <1>2 DEF Elements
<1> QED
  BY <1>1, <1>2

\* WaiterSemaphores from its inductive form.
LEMMA WaiterInvImplies ==
    ASSUME Inv, WaitQueueOK, ExclusionInv, WaiterInv
    PROVE  WaiterSemaphores
<1> SUFFICES ASSUME NEW t \in Threads
             PROVE  LET places == {i \in 1..Len(waitQueue) : waitQueue[i] = t} IN
                    IF InWait(t)
                    THEN Cardinality(places) + value[t] = 1
                    ELSE places = {} /\ value[t] = 0 /\ queue[t] = <<>>
  BY DEF WaiterSemaphores
<1> DEFINE places == {i \in 1..Len(waitQueue) : waitQueue[i] = t}
<1>1. IF Waits(t) THEN Cardinality(places) = 1 ELSE places = {}
  BY CountPlaces DEF WaitQueueOK, WaiterInv, Waits
<1>2. /\ Waits(t) => InWait(t)
      /\ value[t] = IF InWait(t) /\ ~Waits(t) THEN 1 ELSE 0
  BY DEF WaiterInv
<1>3. Cardinality({}) = 0
  BY FS_EmptySet
<1> HIDE DEF places
<1>4. IF InWait(t)
      THEN Cardinality(places) + value[t] = 1
      ELSE places = {} /\ value[t] = 0 /\ queue[t] = <<>>
  BY <1>1, <1>2, <1>3, QueueIsEmpty
<1> QED
  BY <1>4 DEF places

\* The invariant holds in every reachable state.
LEMMA WaiterInvariant == MonitorSpec => []WaiterInv
<1>1. MonitorInit => WaiterInv
  BY MonitorConstants DEF MonitorInit, Init, WaiterInv, Waits, InWait, Elements,
         Distinct
<1>2. Inv => SemTypes
  BY DEF Inv, TypeOK, SemTypes
<1>3. Inv /\ WaitQueueOK /\ ExclusionInv /\ WaiterInv /\ [MonitorNext]_allVars => WaiterInv'
  BY <1>2, WaiterStep
<1> QED
  BY <1>1, <1>3, SemaphoreBehaviour, WaitQueueType, ExclusionInvariant, PTL DEF MonitorSpec

\* A thread in Wait never misses its signal, even one sent before it sleeps,
\* and its semaphore is as new when Wait deletes it.
THEOREM SignalsAreKept == MonitorSpec => []WaiterSemaphores
<1>1. Inv /\ WaitQueueOK /\ ExclusionInv /\ WaiterInv => WaiterSemaphores
  BY WaiterInvImplies
<1> QED
  BY <1>1, SemaphoreBehaviour, WaitQueueType, ExclusionInvariant,
     WaiterInvariant, PTL
-----------------------------------------------------------------------------
(***************************************************************************)
(* The refinement.                                                         *)
(***************************************************************************)
\* Owner is the thread that owns the lock.
OwnerIs ==
    /\ \A t \in Threads : Owns(t) => Owner = t
    /\ (\A t \in Threads : ~Owns(t)) => Owner = NoThread

\* Because there is at most one owner, CHOOSE finds it.
LEMMA OwnerExact == MutualExclusion => OwnerIs
<1> SUFFICES ASSUME MutualExclusion PROVE OwnerIs
  OBVIOUS
<1>1. ASSUME NEW t \in Threads, Owns(t) PROVE Owner = t
  <2>1. Owner = CHOOSE u \in Threads : Owns(u)
    BY <1>1 DEF Owner
  <2>2. Owner \in Threads /\ Owns(Owner)
    BY <1>1, <2>1
  <2> QED
    BY <1>1, <2>2 DEF MutualExclusion
<1>2. ASSUME \A t \in Threads : ~Owns(t) PROVE Owner = NoThread
  BY <1>2 DEF Owner
<1> QED
  BY <1>1, <1>2 DEF OwnerIs

\* Steps in which nobody enters, leaves, waits or signals.
LEMMA OwnerStays ==
    ASSUME OwnerIs, OwnerIs', UNCHANGED waitQueue,
           \A u \in Threads : Owns(u)' <=> Owns(u)
    PROVE  UNCHANGED Mesa!monitorVars
<1>1. Owner' = Owner
  BY DEF OwnerIs
<1> QED
  BY <1>1 DEF Mesa!monitorVars

\* The P of Acquire: t enters, or nothing happens.
LEMMA LockTestEnters ==
    ASSUME SemTypes, ExclusionInv, ExclusionInv', WaiterInv,
           OwnerIs, OwnerIs', UNCHANGED waitQueue,
           NEW t \in Threads, ~Owns(t), ~InWait(t), TestValue(t, TheLock),
           at' = [at EXCEPT ![t] = "entered"]
    PROVE  [Mesa!MonitorNext]_Mesa!monitorVars
<1>0. TheLock \in Sems /\ NoSem # TheLock
  BY MonitorConstants
<1>1. at'[t] = "entered" /\ \A u \in Threads \ {t} : at'[u] = at[u] /\ inP'[u] = inP[u]
  BY DEF ExclusionInv, TestValue, SemTypes
<1>2. CASE value[TheLock] > 0
  <2>1. \A u \in Threads : ~Owns(u)
    BY <1>2 DEF ExclusionInv, MutualExclusion
  <2>2. inP'[t] = NoSem
    BY <1>0, <1>2 DEF TestValue, SemTypes
  <2>3. Owner = NoThread /\ Owner' = t
    BY <1>1, <2>1, <2>2 DEF OwnerIs, Owns
  <2>4. ~Mesa!IsWaiting(t)
    BY DEF WaiterInv, Waits, Elements, Mesa!IsWaiting
  <2> QED
    BY <2>3, <2>4 DEF Mesa!MonitorNext, Mesa!Enter
<1>3. CASE value[TheLock] = 0
  <2>1. inP'[t] = TheLock
    BY <1>0, <1>3 DEF TestValue, SemTypes
  <2>2. \A u \in Threads : Owns(u)' <=> Owns(u)
    BY <1>0, <1>1, <2>1 DEF Owns
  <2> QED
    BY <2>2, OwnerStays
<1> QED
  BY <1>0, <1>2, <1>3 DEF SemTypes

\* waiter->P(): not a step of the abstract monitor.
LEMMA WaiterTestStutters ==
    ASSUME OwnerIs, OwnerIs', UNCHANGED waitQueue, at \in [Threads -> Labels], SemTypes,
           NEW t \in Threads, ~Owns(t), TestValue(t, t),
           at' = [at EXCEPT ![t] = "reacquire"]
    PROVE  UNCHANGED Mesa!monitorVars
<1>1. /\ at'[t] = "reacquire"
      /\ \A u \in Threads \ {t} : at'[u] = at[u] /\ inP'[u] = inP[u]
  BY DEF TestValue, SemTypes
<1>2. \A u \in Threads : Owns(u)' <=> Owns(u)
  BY <1>1 DEF Owns
<1> QED
  BY <1>2, OwnerStays

\* One step.
LEMMA MesaStep ==
    ASSUME SemTypes, ExclusionInv, ExclusionInv', WaiterInv,
           OwnerIs, OwnerIs', [MonitorNext]_allVars
    PROVE  [Mesa!MonitorNext]_Mesa!monitorVars
<1>0. at \in [Threads -> Labels] /\ NoSem \notin Threads /\ NoThread \notin Threads
  BY MonitorConstants DEF ExclusionInv
<1>1. ASSUME NEW t \in Threads, Acquire(t) \/ Reacquire(t)
      PROVE  [Mesa!MonitorNext]_Mesa!monitorVars
  <2>1. /\ TestValue(t, TheLock) /\ UNCHANGED waitQueue
        /\ ~Owns(t) /\ ~InWait(t) /\ at' = [at EXCEPT ![t] = "entered"]
    BY <1>0, <1>1 DEF Acquire, Reacquire, P, Goto, Owns, InWait
  <2> QED
    BY <2>1, LockTestEnters
<1>2. ASSUME NEW t \in Threads, Release(t) \/ Wait(t)
      PROVE  [Mesa!MonitorNext]_Mesa!monitorVars
  <2>1. Owns(t) /\ Owner = t
    BY <1>2 DEF Release, Wait, Inside, Running, Owns, OwnerIs
  <2>2. /\ inP' = inP /\ at'[t] \in {"out", "wait"}
        /\ \A u \in Threads \ {t} : at'[u] = at[u]
    BY <1>0, <1>2 DEF Release, Wait, V, Goto
  <2>3. \A u \in Threads : ~Owns(u)'
    BY <2>1, <2>2 DEF Owns, ExclusionInv, MutualExclusion
  <2>4. Owner' = NoThread
    BY <2>3 DEF OwnerIs
  <2>5. CASE Release(t)
    BY <1>0, <2>1, <2>4, <2>5 DEF Release, Mesa!MonitorNext, Mesa!Leave
  <2>6. CASE Wait(t)
    BY <1>0, <2>1, <2>4, <2>6 DEF Wait, Mesa!MonitorNext, Mesa!LeaveAndWait
  <2> QED
    BY <1>2, <2>5, <2>6
<1>3. ASSUME NEW t \in Threads, WaiterP(t) PROVE UNCHANGED Mesa!monitorVars
  <2>1. /\ TestValue(t, t) /\ UNCHANGED waitQueue
        /\ ~Owns(t) /\ at' = [at EXCEPT ![t] = "reacquire"]
    BY <1>3 DEF WaiterP, P, Goto, Owns
  <2> QED
    BY <1>0, <2>1, WaiterTestStutters
<1>4. ASSUME NEW t \in Threads, Signal(t) \/ Broadcast(t) PROVE Mesa!MonitorNext
  <2>1. Owns(t) /\ inP[t] = NoSem
    BY <1>4 DEF Signal, Broadcast, Inside, Running, Owns
  <2>2. /\ inP' = inP /\ at'[t] \in {"held", "broadcast"}
        /\ waitQueue # <<>> /\ waitQueue' = Tail(waitQueue)
    BY <1>0, <1>4 DEF Signal, Broadcast, SignalWaiter, V, Goto
  <2>3. Owner = t /\ Owner' = t
    BY <2>1, <2>2 DEF Owns, OwnerIs
  <2> QED
    BY <1>0, <2>2, <2>3 DEF Mesa!MonitorNext, Mesa!Notify
<1>5. ASSUME NEW t \in Threads, TestAgain(t) PROVE [Mesa!MonitorNext]_Mesa!monitorVars
  <2>1. /\ ~Owns(t) /\ inP[t] # NoSem /\ TestValue(t, inP[t])
        /\ UNCHANGED <<waitQueue, at>>
    BY <1>5 DEF TestAgain, PAgain, monitorVars, Owns
  <2>2. CASE at[t] = "entered" /\ inP[t] = TheLock
    <3>1. at' = [at EXCEPT ![t] = "entered"] /\ ~InWait(t)
      BY <1>0, <2>1, <2>2 DEF InWait
    <3> QED
      BY <2>1, <2>2, <3>1, LockTestEnters
  <2>3. CASE at[t] = "reacquire" /\ inP[t] = t
    <3>1. at' = [at EXCEPT ![t] = "reacquire"]
      BY <1>0, <2>1, <2>3
    <3> QED
      BY <1>0, <2>1, <2>3, <3>1, WaiterTestStutters
  <2> QED
    BY <2>1, <2>2, <2>3 DEF ExclusionInv, SleepPlaces
<1>6. CASE UNCHANGED <<inP, waitQueue, at>>
  BY <1>6, OwnerStays DEF Owns
<1>7. ASSUME NEW t \in Threads, Switch(t) \/ ForkCaller(t) \/ FinishCaller(t)
      PROVE  [Mesa!MonitorNext]_Mesa!monitorVars
  BY <1>6, <1>7 DEF Switch, ForkCaller, FinishCaller, monitorVars, Yield,
                    DispatchThread, ForkThread, FinishThread, semaphoreVars
<1> QED
  BY <1>1, <1>2, <1>3, <1>4, <1>5, <1>6, <1>7 DEF MonitorNext, allVars, vars, monitorVars

\* Lock and Condition implement the monitor of their comments: the first half
\* of Wait leaves and joins the waiters in one step although Release is a
\* preemption point, and only a thread that was signalled enters again.
THEOREM MonitorIsMesa == MonitorSpec => ImplementsMesaMonitor
<1>1. MonitorInit => Mesa!MonitorInit
  BY DEF MonitorInit, Init, Mesa!MonitorInit, Owner, Owns
<1>2. Inv => SemTypes
  BY DEF Inv, TypeOK, SemTypes
<1>3. ExclusionInv => OwnerIs
  BY OwnerExact DEF ExclusionInv
<1>4. Inv /\ ExclusionInv /\ ExclusionInv' /\ WaiterInv /\ OwnerIs /\ OwnerIs'
         /\ [MonitorNext]_allVars => [Mesa!MonitorNext]_Mesa!monitorVars
  BY <1>2, MesaStep
<1> QED
  BY <1>1, <1>3, <1>4, SemaphoreBehaviour, ExclusionInvariant, WaiterInvariant, PTL
     DEF MonitorSpec, ImplementsMesaMonitor, Mesa!MonitorSpec
-----------------------------------------------------------------------------
(***************************************************************************)
(* SynchList.                                                              *)
(***************************************************************************)
\* A step of a SynchList is one of its lock and condition.
LEMMA MonitorStep == [SynchListNext]_synchListVars => [MonitorNext]_allVars
<1> SUFFICES ASSUME [SynchListNext]_synchListVars PROVE [MonitorNext]_allVars
  OBVIOUS
<1>1. CASE UNCHANGED synchListVars
  BY <1>1 DEF synchListVars
<1>2. CASE Abort
  BY <1>2 DEF Abort
<1>3. ASSUME NEW t \in Threads, Release(t) \/ Signal(t) \/ Wait(t) PROVE MonitorNext
  BY <1>3 DEF MonitorNext
<1>4. ASSUME NEW t \in Threads, Step(t) PROVE [MonitorNext]_allVars
  <2>1. CASE Resume(t)
    BY <2>1 DEF Resume, MonitorNext
  <2>2. CASE AppendItem(t)
    BY <1>2, <1>3, <2>2 DEF AppendItem, ReleaseAndReturn
  <2>3. CASE RemoveFrontItem(t)
    BY <1>3, <2>3 DEF RemoveFrontItem, ReleaseAndReturn
  <2>4. CASE RemoveItem(t)
    BY <1>2, <1>3, <2>4 DEF RemoveItem, ReleaseAndReturn
  <2>5. CASE AppendRelease(t) \/ ApplyAll(t)
    BY <1>3, <2>5 DEF AppendRelease, ApplyAll, ReleaseAndReturn
  <2> QED
    BY <1>4, <2>1, <2>2, <2>3, <2>4, <2>5 DEF Step
<1>5. ASSUME NEW t \in Threads, Machine(t) PROVE MonitorNext
  BY <1>5 DEF Machine, MonitorNext
<1>6. ASSUME NEW t \in Threads, NEW o, NEW x, Call(t, o, x) PROVE MonitorNext
  BY <1>6 DEF Call, MonitorNext
<1> QED
  BY <1>1, <1>4, <1>5, <1>6 DEF SynchListNext

\* The lock and the condition of a SynchList are those of Monitor.
LEMMA MonitorBehaviour == SynchListSpec => MonitorSpec
<1>1. SynchListInit => MonitorInit
  BY DEF SynchListInit
<1> QED
  BY <1>1, MonitorStep, PTL DEF SynchListSpec, MonitorSpec

\* NoItemStranded is inductive once it is known that only RemoveFront waits.
StrandedInv ==
    /\ list \in Seq(Items)
    /\ op \in [Threads -> Ops \cup {"none"}]
    /\ item \in [Threads -> Items \cup {NoItem}]
    /\ \A t \in Threads : op[t] = "Append" => item[t] \in Items
    /\ \A t \in Threads : Waits(t) => op[t] = "RemoveFront"
    /\ NoItemStranded

\* Testing in terms of Waits; it is finite, so that it has a cardinality.
LEMMA TestingIs ==
    /\ Testing = {t \in Threads : op[t] = "RemoveFront" /\ ~Waits(t)}
    /\ IsFiniteSet(Testing) /\ Cardinality(Testing) \in Nat
<1>1. Testing = {t \in Threads : op[t] = "RemoveFront" /\ ~Waits(t)}
  BY DEF Testing, Waits, Elements
<1>2. IsFiniteSet(Testing)
  <2>1. Testing \subseteq Threads
    BY DEF Testing
  <2> QED
    BY <2>1, MonitorConstants, FS_Subset
<1> QED
  BY <1>1, <1>2, FS_CardinalityType

\* The same after a step.
LEMMA TestingAfter ==
    /\ Testing' = {t \in Threads : op'[t] = "RemoveFront" /\ ~Waits(t)'}
    /\ IsFiniteSet(Testing') /\ Cardinality(Testing') \in Nat
<1>1. Testing' = {t \in Threads : op'[t] = "RemoveFront" /\ ~Waits(t)'}
  BY DEF Testing, Waits, Elements
<1>2. IsFiniteSet(Testing')
  <2>1. Testing' \subseteq Threads
    BY DEF Testing
  <2> QED
    BY <2>1, MonitorConstants, FS_Subset
<1> QED
  BY <1>1, <1>2, FS_CardinalityType

\* Steps that leave the waiters alone, add no item and take nobody off Testing.
LEMMA NothingStranded ==
    ASSUME NoItemStranded, UNCHANGED waitQueue,
           Len(list) \in Nat, Len(list') \in Nat, Len(list') <= Len(list),
           Testing \subseteq Testing'
    PROVE  NoItemStranded'
<1>1. Cardinality(Testing) <= Cardinality(Testing')
  BY TestingAfter, FS_Subset
<1>2. CASE waitQueue # <<>>
  <2>1. Len(list) <= Cardinality(Testing)
    BY <1>2 DEF NoItemStranded
  <2>2. Len(list') <= Cardinality(Testing')
    BY <1>1, <2>1, TestingIs, TestingAfter
  <2> QED
    BY <2>2 DEF NoItemStranded
<1>3. CASE waitQueue = <<>>
  BY <1>3 DEF NoItemStranded
<1> QED
  BY <1>2, <1>3

\* The return of an operation other than RemoveFront.
LEMMA ReturnInv ==
    ASSUME StrandedInv, NEW t \in Threads, op[t] # "RemoveFront", ReleaseAndReturn(t),
           list' \in Seq(Items), Len(list') <= Len(list) \/ waitQueue = <<>>
    PROVE  StrandedInv'
<1> USE DEF StrandedInv
<1>1. /\ waitQueue' = waitQueue /\ op' = [op EXCEPT ![t] = "none"]
      /\ item' = [item EXCEPT ![t] = NoItem]
  BY DEF ReleaseAndReturn, Release
<1>2. /\ op' \in [Threads -> Ops \cup {"none"}]
      /\ item' \in [Threads -> Items \cup {NoItem}]
      /\ \A u \in Threads : op'[u] = "Append" => item'[u] \in Items
  BY <1>1
<1>3. \A u \in Threads : Waits(u)' <=> Waits(u)
  BY <1>1 DEF Waits, Elements
<1>4. \A u \in Threads : Waits(u)' => op'[u] = "RemoveFront"
  BY <1>1, <1>3
<1>5. NoItemStranded'
  <2>1. CASE waitQueue = <<>>
    BY <1>1, <2>1 DEF NoItemStranded
  <2>2. CASE Len(list') <= Len(list)
    <3>1. Testing \subseteq Testing'
      BY <1>1, <1>3, TestingIs, TestingAfter
    <3> QED
      BY <1>1, <2>2, <3>1, NothingStranded
  <2> QED
    BY <2>1, <2>2
<1> QED
  BY <1>2, <1>4, <1>5

\* Append with a waiter: the item is promised to the waiter it signals.
LEMMA AppendSignals ==
    ASSUME StrandedInv, WaitQueueOK, WaiterInv, NEW t \in Threads,
           op[t] = "Append", list' = Append(list, item[t]), Signal(t),
           UNCHANGED <<op, item>>
    PROVE  StrandedInv'
<1> USE DEF StrandedInv
<1> DEFINE h == Head(waitQueue)
<1>1. waitQueue # <<>> /\ waitQueue' = Tail(waitQueue) /\ h \in Threads
  BY DEF Signal, SignalWaiter, WaitQueueOK
<1>2. /\ h \in Elements(waitQueue)
      /\ Elements(Tail(waitQueue)) = Elements(waitQueue) \ {h}
  BY <1>1, TailElements DEF WaitQueueOK, WaiterInv
<1>3. Waits(h) /\ \A u \in Threads : Waits(u)' <=> Waits(u) /\ u # h
  <2>1. Elements(waitQueue)' = Elements(Tail(waitQueue))
    BY <1>1 DEF Elements
  <2> QED
    BY <1>2, <2>1 DEF Waits
<1>4. list' \in Seq(Items) /\ Len(list') = Len(list) + 1 /\ Len(list) \in Nat
  OBVIOUS
<1>5. h \notin Testing /\ Testing' = Testing \cup {h}
  BY <1>1, <1>3, TestingIs, TestingAfter
<1>6. Cardinality(Testing') = Cardinality(Testing) + 1
  BY <1>5, TestingIs, FS_AddElement
<1>7. Len(list) <= Cardinality(Testing)
  BY <1>1 DEF NoItemStranded
<1>8. Len(list') <= Cardinality(Testing')
  BY <1>4, <1>6, <1>7, TestingIs
<1>9. NoItemStranded'
  BY <1>8 DEF NoItemStranded
<1> QED
  BY <1>3, <1>4, <1>9

\* RemoveFront with an item: the thread that takes it was testing.
LEMMA RemoveFrontTakes ==
    ASSUME StrandedInv, WaiterInv, NEW t \in Threads,
           op[t] = "RemoveFront", Inside(t), list # <<>>, list' = Tail(list),
           ReleaseAndReturn(t)
    PROVE  StrandedInv'
<1> USE DEF StrandedInv
<1>1. /\ waitQueue' = waitQueue /\ op' = [op EXCEPT ![t] = "none"]
      /\ item' = [item EXCEPT ![t] = NoItem]
  BY DEF ReleaseAndReturn, Release
<1>2. ~Waits(t)
  <2>1. ~InWait(t)
    BY MonitorConstants DEF Inside, Running, InWait
  <2> QED
    BY <2>1 DEF WaiterInv
<1>3. list' \in Seq(Items) /\ Len(list') = Len(list) - 1 /\ Len(list) \in Nat
  OBVIOUS
<1>4. \A u \in Threads : Waits(u)' <=> Waits(u)
  BY <1>1 DEF Waits, Elements
<1>5. /\ op' \in [Threads -> Ops \cup {"none"}]
      /\ item' \in [Threads -> Items \cup {NoItem}]
      /\ \A u \in Threads : op'[u] = "Append" => item'[u] \in Items
      /\ \A u \in Threads : Waits(u)' => op'[u] = "RemoveFront"
  BY <1>1, <1>2, <1>4
<1>6. CASE waitQueue # <<>>
  <2>1. t \in Testing /\ Testing' = Testing \ {t}
    BY <1>1, <1>2, <1>4, TestingIs, TestingAfter
  <2>2. Cardinality(Testing') = Cardinality(Testing) - 1
    BY <2>1, TestingIs, FS_RemoveElement
  <2>3. Len(list) <= Cardinality(Testing)
    BY <1>6 DEF NoItemStranded
  <2>4. Len(list') <= Cardinality(Testing')
    BY <1>3, <2>2, <2>3, TestingIs
  <2>5. NoItemStranded'
    BY <2>4 DEF NoItemStranded
  <2> QED
    BY <1>3, <1>5, <2>5
<1>7. CASE waitQueue = <<>>
  <2>1. NoItemStranded'
    BY <1>1, <1>7 DEF NoItemStranded
  <2> QED
    BY <1>3, <1>5, <2>1
<1> QED
  BY <1>6, <1>7

\* RemoveFront without an item: nothing is stranded while t joins the waiters.
LEMMA RemoveFrontWaits ==
    ASSUME StrandedInv, WaitQueueOK, WaiterInv, NEW t \in Threads,
           op[t] = "RemoveFront", list = <<>>, Wait(t), UNCHANGED <<list, op, item>>
    PROVE  StrandedInv'
<1> USE DEF StrandedInv
<1>1. waitQueue' = Append(waitQueue, t)
  BY DEF Wait
<1>2. \A u \in Threads : Waits(u)' => Waits(u) \/ u = t
  <2>1. Elements(Append(waitQueue, t)) = Elements(waitQueue) \cup {t}
    BY DEF WaitQueueOK, Elements
  <2> QED
    BY <1>1, <2>1 DEF Waits, Elements
<1>3. Len(list') = 0
  OBVIOUS
<1>4. NoItemStranded'
  BY <1>3, TestingAfter DEF NoItemStranded
<1> QED
  BY <1>2, <1>4

\* List::Remove: the list without its element k.
LEMMA WithoutOne ==
    ASSUME NEW S, NEW q \in Seq(S), NEW k \in 1..Len(q)
    PROVE  LET r == SubSeq(q, 1, k - 1) \o SubSeq(q, k + 1, Len(q))
           IN  r \in Seq(S) /\ Len(r) = Len(q) - 1
<1> DEFINE a == SubSeq(q, 1, k - 1)
           b == SubSeq(q, k + 1, Len(q))
<1>1. Len(q) \in Nat /\ k \in Nat /\ k - 1 \in 0..Len(q) /\ k + 1 \in 1..Len(q) + 1
  OBVIOUS
<1>2. a \in Seq(S) /\ Len(a) = k - 1
  BY <1>1
<1>3. b \in Seq(S) /\ Len(b) = Len(q) - k
  BY <1>1
<1> HIDE DEF a, b
<1>4. a \o b \in Seq(S) /\ Len(a \o b) = Len(a) + Len(b)
  BY <1>2, <1>3
<1>5. a \o b \in Seq(S) /\ Len(a \o b) = Len(q) - 1
  BY <1>1, <1>2, <1>3, <1>4
<1> QED
  BY <1>5 DEF a, b

\* One step.
LEMMA StrandedStep ==
    ASSUME StrandedInv, WaitQueueOK, WaiterInv, [SynchListNext]_synchListVars
    PROVE  StrandedInv'
<1>0. list \in Seq(Items) /\ Len(list) \in Nat /\ item \in [Threads -> Items \cup {NoItem}]
  BY DEF StrandedInv
<1>1. CASE UNCHANGED <<waitQueue, list, op, item>>
  <2>1. \A u \in Threads : Waits(u)' <=> Waits(u)
    BY <1>1 DEF Waits, Elements
  <2>2. NoItemStranded'
    BY <1>1 DEF StrandedInv, NoItemStranded, Testing
  <2> QED
    BY <1>1, <2>1, <2>2 DEF StrandedInv
<1>2. CASE UNCHANGED synchListVars \/ Abort
  BY <1>1, <1>2 DEF synchListVars, allVars, monitorVars, listVars, Abort
<1>3. ASSUME NEW t \in Threads, AppendItem(t) PROVE StrandedInv'
  <2>1. CASE Abort
    BY <1>2, <2>1
  <2>2. CASE list' = Append(list, item[t]) /\ Signal(t) /\ UNCHANGED <<op, item>>
    BY <1>3, <2>2, AppendSignals DEF AppendItem
  <2>3. CASE list' = Append(list, item[t]) /\ waitQueue = <<>> /\ ReleaseAndReturn(t)
    <3>1. op[t] = "Append" /\ item[t] \in Items
      BY <1>3 DEF AppendItem, StrandedInv
    <3>2. list' \in Seq(Items)
      BY <1>0, <2>3, <3>1
    <3> QED
      BY <2>3, <3>1, <3>2, ReturnInv
  <2> QED
    BY <1>3, <2>1, <2>2, <2>3 DEF AppendItem
<1>4. ASSUME NEW t \in Threads, AppendRelease(t) \/ ApplyAll(t) PROVE StrandedInv'
  <2>1. op[t] # "RemoveFront" /\ ReleaseAndReturn(t) /\ list' = list
    BY <1>4 DEF AppendRelease, ApplyAll
  <2> QED
    BY <1>0, <2>1, ReturnInv
<1>5. ASSUME NEW t \in Threads, RemoveFrontItem(t) PROVE StrandedInv'
  BY <1>5, RemoveFrontTakes, RemoveFrontWaits DEF RemoveFrontItem
<1>6. ASSUME NEW t \in Threads, RemoveItem(t) PROVE StrandedInv'
  <2>1. CASE Abort
    BY <1>2, <2>1
  <2>2. CASE ~Abort
    <3>1. PICK k \in 1..Len(list) :
             list' = SubSeq(list, 1, k - 1) \o SubSeq(list, k + 1, Len(list))
      BY <1>6, <2>2, Zenon DEF RemoveItem
    <3>2. ReleaseAndReturn(t) /\ op[t] # "RemoveFront"
      BY <1>6, <2>2, Zenon DEF RemoveItem
    <3>3. list' \in Seq(Items) /\ Len(list') = Len(list) - 1
      BY <1>0, <3>1, WithoutOne
    <3> QED
      BY <1>0, <3>2, <3>3, ReturnInv
  <2> QED
    BY <2>1, <2>2
<1>7. ASSUME NEW t \in Threads, Resume(t) \/ Machine(t) PROVE StrandedInv'
  BY <1>1, <1>7 DEF Resume, Machine, WaiterP, Reacquire, TestAgain, Switch, ForkCaller,
                    FinishCaller, monitorVars, listVars
<1>8. ASSUME NEW t \in Threads, NEW o \in Ops, NEW x \in Items \cup {NoItem}, Call(t, o, x)
      PROVE  StrandedInv'
  <2>1. /\ op[t] = "none" /\ (o \in {"RemoveFront", "Apply"} <=> x = NoItem)
        /\ op' = [op EXCEPT ![t] = o] /\ item' = [item EXCEPT ![t] = x]
        /\ UNCHANGED <<list, waitQueue>>
    BY <1>8 DEF Call, Acquire
  <2>2. \A u \in Threads : Waits(u)' <=> Waits(u)
    BY <2>1 DEF Waits, Elements
  <2>3. /\ op' \in [Threads -> Ops \cup {"none"}]
        /\ item' \in [Threads -> Items \cup {NoItem}]
        /\ \A u \in Threads : op'[u] = "Append" => item'[u] \in Items
        /\ \A u \in Threads : Waits(u)' => op'[u] = "RemoveFront"
    BY <2>1, <2>2 DEF StrandedInv
  <2>4. Testing \subseteq Testing'
    BY <2>1, <2>2, TestingIs, TestingAfter DEF StrandedInv
  <2>5. NoItemStranded'
    BY <1>0, <2>1, <2>4, NothingStranded DEF StrandedInv
  <2> QED
    BY <1>0, <2>1, <2>3, <2>5 DEF StrandedInv
<1> QED
  BY <1>2, <1>3, <1>4, <1>5, <1>6, <1>7, <1>8 DEF SynchListNext, Step

\* One Signal for each Append is enough: while a thread waits in RemoveFront,
\* every item is promised to a thread that will test the list.
THEOREM ItemsAreDelivered == SynchListSpec => []NoItemStranded
<1>1. SynchListInit => StrandedInv
  BY DEF SynchListInit, MonitorInit, StrandedInv, NoItemStranded, Waits, Elements
<1>2. WaitQueueOK /\ WaiterInv /\ StrandedInv /\ [SynchListNext]_synchListVars => StrandedInv'
  BY StrandedStep
<1>3. StrandedInv => NoItemStranded
  BY DEF StrandedInv
<1> QED
  BY <1>1, <1>2, <1>3, MonitorBehaviour, WaitQueueType, WaiterInvariant, PTL
     DEF SynchListSpec
=============================================================================
