--------------------------- MODULE SyncTestProofs ---------------------------
(***************************************************************************)
(* The barrier test, and the tests of Kernel::SyncTest beside their main   *)
(* thread, under every schedule: what holds of the steps of the threads    *)
(* (see TestProofs for types 0 and 3) holds of the whole.  The steps of    *)
(* main and the switches of the processor leave their variables alone.     *)
(***************************************************************************)
EXTENDS SyncTest, TestProofs

(***************************************************************************)
(* Type 2, the barrier.                                                    *)
(***************************************************************************)
Arrived == {t \in BT!Workers : stage[t] # "before"}

\* In Barrier, on waitQueue and not signalled.
Waits(t) ==
    \/ at[t] = "wait" /\ inP[t] = NoSem
    \/ at[t] = "reacquire" /\ inP[t] = t

BTTypes ==
    /\ value \in [BT!Sems -> Nat]
    /\ inP \in [Threads -> BT!Sems \cup {NoSem}]
    /\ at \in [Threads -> BT!Mon!Labels]
    /\ stage \in [BT!Workers -> {"before", "arrived", "passed"}]

\* Where a thread is before it calls Barrier.
Outside(t) ==
    stage[t] = "before" => at[t] \in {"out", "entered"} /\ inP[t] \in {NoSem, TheLock}

\* Until the last thread comes, nobody is signalled: those in Barrier wait.
Closed(t) ==
    /\ value[t] = 0
    /\ stage[t] # "passed"
    /\ stage[t] = "arrived" => Waits(t)

BTInv ==
    /\ BTTypes
    /\ barrierNum = Cardinality(Arrived)
    /\ \A t \in BT!Workers : Outside(t)
    /\ barrierNum # BARRIER_NUM => \A t \in BT!Workers : Closed(t)

\* The threads are there, and as many as Barrier waits for.
LEMMA BTThreads ==
    /\ BT!Workers \subseteq Threads /\ IsFiniteSet(BT!Workers)
    /\ Cardinality(BT!Workers) = BARRIER_NUM /\ BARRIER_NUM \in Nat
    /\ BT!Sems = Threads \cup {TheLock} /\ TheLock \notin Threads
    /\ NoSem \notin Threads \cup {TheLock}
<1>1. test \in Seq(Threads) /\ << >> \in Seq(Threads) /\ test \o << >> = test
  BY TestAssumption
<1>2. IsInjective(test \o << >>)
  BY <1>1, TestAssumption
<1>3. Range(test) \subseteq Threads /\ IsFiniteSet(Range(test)) /\ Cardinality(Range(test)) = Len(test)
  BY <1>1, <1>2, TwoGroups
<1> QED
  BY <1>1, <1>3, TestAssumption DEF BT!Workers, BT!Sems, Range

\* All have come when barrierNum says so.
LEMMA BTCount ==
    /\ IsFiniteSet(Arrived) /\ Cardinality(Arrived) \in Nat
    /\ Cardinality(Arrived) = BARRIER_NUM => Arrived = BT!Workers
    /\ \A t : t \notin Arrived => Cardinality(Arrived \cup {t}) = Cardinality(Arrived) + 1
<1>1. Arrived \subseteq BT!Workers
  BY DEF Arrived
<1>2. /\ IsFiniteSet(Arrived)
      /\ Cardinality(Arrived) = Cardinality(BT!Workers) => Arrived = BT!Workers
  BY <1>1, BTThreads, FS_Subset
<1> QED
  BY <1>2, BTThreads, FS_CardinalityType, FS_AddElement

\* Steps that nobody makes before the last thread has come, and steps that
\* leave stage alone.
LEMMA BTOpen ==
    ASSUME BTInv, BTTypes', barrierNum = BARRIER_NUM, UNCHANGED barrierNum, NEW t \in BT!Workers,
           \A u \in BT!Workers : u # t => stage'[u] = stage[u],
           stage[t] # "before" /\ stage'[t] # "before"
    PROVE  BTInv'
<1>1. Arrived' = Arrived
  BY DEF Arrived
<1>2. Arrived = BT!Workers
  BY BTCount DEF BTInv
<1>3. \A u \in BT!Workers : stage'[u] # "before"
  BY <1>2 DEF Arrived
<1> QED
  BY <1>1, <1>3 DEF BTInv, Outside

\* P by t, at its first test or after a wake-up.
LEMMA BTTest ==
    ASSUME BTInv, NEW t \in BT!Workers, NEW s \in BT!Sems, BT!Mon!TestValue(t, s),
           NEW x \in BT!Mon!Labels, BT!Mon!Goto(t, x),
           stage' \in [BT!Workers -> {"before", "arrived", "passed"}]
    PROVE  /\ BTTypes'
           /\ \A u \in Threads : u # t => at'[u] = at[u] /\ inP'[u] = inP[u]
           /\ at'[t] = x
           /\ \A r \in BT!Sems : r # s => value'[r] = value[r]
           /\ \/ value[s] > 0 /\ inP'[t] = NoSem
              \/ value[s] = 0 /\ value'[s] = 0 /\ inP'[t] = s
<1>1. /\ value \in [BT!Sems -> Nat] /\ inP \in [Threads -> BT!Sems \cup {NoSem}]
      /\ at \in [Threads -> BT!Mon!Labels] /\ t \in Threads
  BY BTThreads DEF BTInv, BTTypes
<1>2. \/ value[s] > 0 /\ value' = [value EXCEPT ![s] = @ - 1] /\ inP' = [inP EXCEPT ![t] = NoSem]
      \/ value[s] = 0 /\ value' = value /\ inP' = [inP EXCEPT ![t] = s]
  BY DEF BT!Mon!TestValue
<1>3. value' \in [BT!Sems -> Nat] /\ inP' \in [Threads -> BT!Sems \cup {NoSem}]
  BY <1>1, <1>2
<1>4. at' \in [Threads -> BT!Mon!Labels] /\ at'[t] = x /\ \A u \in Threads : u # t => at'[u] = at[u]
  BY <1>1 DEF BT!Mon!Goto
<1>5. /\ \A u \in Threads : u # t => inP'[u] = inP[u]
      /\ \A r \in BT!Sems : r # s => value'[r] = value[r]
      /\ \/ value[s] > 0 /\ inP'[t] = NoSem
         \/ value[s] = 0 /\ value'[s] = 0 /\ inP'[t] = s
  BY <1>1, <1>2
<1> QED
  BY <1>3, <1>4, <1>5 DEF BTTypes

\* V by t.
LEMMA BTV ==
    ASSUME BTInv, NEW t \in BT!Workers, NEW s \in BT!Sems, BT!Mon!V(s),
           NEW x \in BT!Mon!Labels, BT!Mon!Goto(t, x),
           stage' \in [BT!Workers -> {"before", "arrived", "passed"}]
    PROVE  /\ BTTypes' /\ inP' = inP
           /\ \A u \in Threads : u # t => at'[u] = at[u]
           /\ at'[t] = x
           /\ \A r \in BT!Sems : r # s => value'[r] = value[r]
  BY BTThreads DEF BT!Mon!V, BT!Mon!Goto, BTInv, BTTypes

\* A step that changes none of the variables of the invariant.
LEMMA BTQuiet == BTInv /\ UNCHANGED <<value, inP, at, barrierNum, stage>> => BTInv'
<1> SUFFICES ASSUME BTInv, UNCHANGED <<value, inP, at, barrierNum, stage>> PROVE BTInv'
  OBVIOUS
<1>1. Arrived' = Arrived /\ BTTypes'
  BY DEF Arrived, BTInv, BTTypes
<1> QED
  BY <1>1 DEF BTInv, Outside, Closed, Waits

\* A section of a thread of the barrier keeps the invariant.
LEMMA BTStep == \A t \in BT!Workers : BTInv /\ waitQueue \in Seq(Threads) /\ BT!Step(t) => BTInv'
<1> SUFFICES ASSUME NEW t \in BT!Workers, BTInv, waitQueue \in Seq(Threads), BT!Step(t)
             PROVE  BTInv'
  OBVIOUS
<1>0. /\ t \in Threads /\ t \in BT!Sems /\ TheLock \in BT!Sems
      /\ stage \in [BT!Workers -> {"before", "arrived", "passed"}]
      /\ at \in [Threads -> BT!Mon!Labels] /\ inP \in [Threads -> BT!Sems \cup {NoSem}]
  BY BTThreads DEF BTInv, BTTypes
<1>a. Outside(t) /\ (barrierNum # BARRIER_NUM => Closed(t))
  BY DEF BTInv
<1>1. CASE BT!Begin(t)
  <2>1. /\ stage[t] = "before" /\ BT!Mon!TestValue(t, TheLock) /\ BT!Mon!Goto(t, "entered")
        /\ UNCHANGED <<barrierNum, stage>>
    BY <1>1 DEF BT!Begin, BT!barrierVars, BT!Mon!Acquire, BT!Mon!P
  <2>2. "entered" \in BT!Mon!Labels /\ stage' \in [BT!Workers -> {"before", "arrived", "passed"}]
    BY <1>0, <2>1 DEF BT!Mon!Labels
  <2>3. /\ BTTypes'
        /\ \A u \in Threads : u # t => at'[u] = at[u] /\ inP'[u] = inP[u]
        /\ at'[t] = "entered" /\ inP'[t] \in {NoSem, TheLock}
        /\ \A r \in BT!Sems : r # TheLock => value'[r] = value[r]
    BY <1>0, <2>1, <2>2, BTTest
  <2>4. Arrived' = Arrived
    BY <2>1 DEF Arrived
  <2> QED
    BY <2>1, <2>3, <2>4, BTThreads DEF BTInv, Outside, Closed, Waits
<1>2. CASE BT!Arrive(t)
  <2>1. /\ stage[t] = "before" /\ at[t] = "entered" /\ inP[t] = NoSem
        /\ barrierNum' = barrierNum + 1 /\ stage' = [stage EXCEPT ![t] = "arrived"]
    BY <1>2 DEF BT!Arrive, BT!SetStage, BT!Mon!Inside, BT!Mon!Running
  <2>2. /\ stage' \in [BT!Workers -> {"before", "arrived", "passed"}]
        /\ stage'[t] = "arrived" /\ \A u \in BT!Workers : u # t => stage'[u] = stage[u]
    BY <1>0, <2>1
  <2>3. /\ Arrived' = Arrived \cup {t} /\ t \notin Arrived
    BY <2>1, <2>2 DEF Arrived
  <2>4. /\ barrierNum' = Cardinality(Arrived') /\ barrierNum # BARRIER_NUM
    BY <2>1, <2>3, BTCount DEF BTInv
  <2>5. CASE barrierNum' # BARRIER_NUM
    <3>1. BT!Mon!V(TheLock) /\ BT!Mon!Goto(t, "wait")
      BY <1>2, <2>5 DEF BT!Arrive, BT!Mon!Wait
    <3>2. "wait" \in BT!Mon!Labels
      BY DEF BT!Mon!Labels
    <3>3. /\ BTTypes' /\ inP' = inP
          /\ \A u \in Threads : u # t => at'[u] = at[u]
          /\ at'[t] = "wait"
          /\ \A r \in BT!Sems : r # TheLock => value'[r] = value[r]
      BY <1>0, <2>2, <3>1, <3>2, BTV
    <3> QED
      BY <2>1, <2>2, <2>4, <3>3, BTThreads DEF BTInv, Outside, Closed, Waits
  <2>6. CASE barrierNum' = BARRIER_NUM
    <3>1. /\ waitQueue # << >> /\ BT!Mon!V(Head(waitQueue)) /\ BT!Mon!Goto(t, "broadcast")
      BY <1>2, <2>6 DEF BT!Arrive, BT!Mon!Broadcast, BT!Mon!SignalWaiter
    <3>2. "broadcast" \in BT!Mon!Labels /\ Head(waitQueue) \in BT!Sems
      BY <3>1, BTThreads DEF BT!Mon!Labels
    <3>3. /\ BTTypes' /\ inP' = inP
          /\ \A u \in Threads : u # t => at'[u] = at[u]
      BY <1>0, <2>2, <3>1, <3>2, BTV
    <3> QED
      BY <2>1, <2>2, <2>4, <2>6, <3>3, BTThreads DEF BTInv, Outside
  <2> QED
    BY <2>5, <2>6
<1>3. CASE BT!BroadcastNext(t)
  <2>1. /\ stage[t] = "arrived" /\ at[t] = "broadcast" /\ UNCHANGED <<barrierNum, stage>>
        /\ waitQueue # << >> /\ BT!Mon!V(Head(waitQueue)) /\ BT!Mon!Goto(t, "broadcast")
    BY <1>3 DEF BT!BroadcastNext, BT!barrierVars, BT!Mon!Broadcast, BT!Mon!SignalWaiter
  <2>2. "broadcast" \in BT!Mon!Labels /\ Head(waitQueue) \in BT!Sems
    BY <2>1, BTThreads DEF BT!Mon!Labels
  <2>3. BTTypes'
    BY <1>0, <2>1, <2>2, BTV
  <2>4. barrierNum = BARRIER_NUM
    BY <1>a, <2>1 DEF Closed, Waits
  <2> QED
    BY <2>1, <2>3, <2>4, BTOpen
<1>4. CASE BT!Pass(t)
  <2>1. /\ stage[t] = "arrived" /\ at[t] \in {"entered", "held", "broadcast"} /\ UNCHANGED barrierNum
        /\ BT!Mon!V(TheLock) /\ BT!Mon!Goto(t, "out")
        /\ stage' = [stage EXCEPT ![t] = "passed"]
    BY <1>4 DEF BT!Pass, BT!SetStage, BT!Mon!Release, BT!Mon!Inside
  <2>2. /\ stage' \in [BT!Workers -> {"before", "arrived", "passed"}]
        /\ stage'[t] = "passed" /\ \A u \in BT!Workers : u # t => stage'[u] = stage[u]
    BY <1>0, <2>1
  <2>3. "out" \in BT!Mon!Labels
    BY DEF BT!Mon!Labels
  <2>4. BTTypes'
    BY <1>0, <2>1, <2>2, <2>3, BTV
  <2>5. barrierNum = BARRIER_NUM
    BY <1>a, <2>1 DEF Closed, Waits
  <2> QED
    BY <2>1, <2>2, <2>4, <2>5, BTOpen
<1>5. CASE BT!Resume(t)
  <2>1. UNCHANGED <<barrierNum, stage>> /\ Arrived' = Arrived
    BY <1>5 DEF BT!Resume, BT!barrierVars, Arrived
  <2>a. stage' \in [BT!Workers -> {"before", "arrived", "passed"}]
    BY <1>0, <2>1
  <2>2. CASE BT!Mon!WaiterP(t)
    <3>1. /\ at[t] = "wait" /\ BT!Mon!TestValue(t, t) /\ BT!Mon!Goto(t, "reacquire")
      BY <2>2 DEF BT!Mon!WaiterP, BT!Mon!P
    <3>2. "reacquire" \in BT!Mon!Labels
      BY DEF BT!Mon!Labels
    <3>3. /\ BTTypes' /\ at'[t] = "reacquire"
          /\ \A u \in Threads : u # t => at'[u] = at[u] /\ inP'[u] = inP[u]
          /\ \A r \in BT!Sems : r # t => value'[r] = value[r]
          /\ value[t] > 0 \/ (value'[t] = 0 /\ inP'[t] = t)
      BY <1>0, <2>a, <3>1, <3>2, BTTest
    <3>4. Outside(t)' /\ (barrierNum # BARRIER_NUM => Closed(t)')
      BY <1>0, <1>a, <2>1, <3>1, <3>3 DEF Outside, Closed, Waits
    <3>5. \A u \in BT!Workers : u # t => (Outside(u)' <=> Outside(u)) /\ (Closed(u)' <=> Closed(u))
      BY <2>1, <3>3, BTThreads DEF Outside, Closed, Waits
    <3> QED
      BY <2>1, <3>3, <3>4, <3>5 DEF BTInv
  <2>3. CASE BT!Mon!Reacquire(t)
    <3>1. /\ at[t] = "reacquire" /\ inP[t] = NoSem
          /\ BT!Mon!TestValue(t, TheLock) /\ BT!Mon!Goto(t, "entered")
      BY <2>3 DEF BT!Mon!Reacquire, BT!Mon!P
    <3>2. "entered" \in BT!Mon!Labels
      BY DEF BT!Mon!Labels
    <3>3. BTTypes'
      BY <1>0, <2>a, <3>1, <3>2, BTTest
    <3>4. barrierNum = BARRIER_NUM /\ stage[t] # "before"
      BY <1>0, <1>a, <3>1, BTThreads DEF Outside, Closed, Waits
    <3> QED
      BY <2>1, <3>3, <3>4, BTOpen
  <2>4. CASE BT!Mon!TestAgain(t)
    <3>1. /\ inP[t] # NoSem /\ inP[t] \in BT!Sems
          /\ BT!Mon!TestValue(t, inP[t]) /\ BT!Mon!Goto(t, at[t])
      BY <1>0, <2>4 DEF BT!Mon!TestAgain, BT!Mon!PAgain, BT!Mon!monitorVars, BT!Mon!Goto
    <3>2. /\ BTTypes' /\ at'[t] = at[t]
          /\ \A u \in Threads : u # t => at'[u] = at[u] /\ inP'[u] = inP[u]
          /\ \A r \in BT!Sems : r # inP[t] => value'[r] = value[r]
          /\ \/ value[inP[t]] > 0 /\ inP'[t] = NoSem
             \/ value'[inP[t]] = 0 /\ inP'[t] = inP[t]
      <4>1. PICK s \in BT!Sems : s = inP[t]
        BY <3>1
      <4>2. PICK x \in BT!Mon!Labels : x = at[t]
        BY <1>0
      <4>3. BT!Mon!TestValue(t, s) /\ BT!Mon!Goto(t, x)
        BY <3>1, <4>1, <4>2
      <4> QED
        BY <1>0, <2>a, <4>1, <4>2, <4>3, BTTest
    <3>3. CASE stage[t] = "before" \/ barrierNum # BARRIER_NUM
      <4>1. /\ stage[t] = "before" => inP[t] = TheLock
            /\ stage[t] # "before" => inP[t] = t /\ at[t] = "reacquire" /\ value[t] = 0
        BY <1>0, <1>a, <3>1, <3>3 DEF Outside, Closed, Waits
      <4>2. Outside(t)' /\ (barrierNum # BARRIER_NUM => Closed(t)')
        BY <1>0, <1>a, <2>1, <3>2, <4>1, SMTT(30) DEF Outside, Closed, Waits
      <4>3. \A u \in BT!Workers : u # t => (Outside(u)' <=> Outside(u)) /\ (Closed(u)' <=> Closed(u))
        BY <2>1, <3>2, <4>1, BTThreads, SMTT(30) DEF Outside, Closed, Waits
      <4> QED
        BY <2>1, <3>2, <4>2, <4>3 DEF BTInv
    <3>4. CASE stage[t] # "before" /\ barrierNum = BARRIER_NUM
      BY <2>1, <3>2, <3>4, BTOpen
    <3> QED
      BY <3>3, <3>4
  <2> QED
    BY <1>5, <2>2, <2>3, <2>4 DEF BT!Resume
<1>6. CASE BT!Finish(t)
  <2>1. UNCHANGED <<value, inP, at, barrierNum, stage>>
    BY <1>6 DEF BT!Finish, BT!barrierVars, BT!Mon!FinishCaller, BT!Mon!monitorVars,
       BT!Mon!FinishThread, BT!Mon!semaphoreVars
  <2> QED
    BY <2>1, BTQuiet
<1> QED
  BY <1>1, <1>2, <1>3, <1>4, <1>5, <1>6 DEF BT!Step

\* waitQueue is a queue of threads.
LEMMA BTQueue ==
    \A t \in BT!Workers : waitQueue \in Seq(Threads) /\ BT!Step(t) => waitQueue' \in Seq(Threads)
<1> SUFFICES ASSUME NEW t \in BT!Workers, waitQueue \in Seq(Threads), BT!Step(t)
             PROVE  waitQueue' \in Seq(Threads)
  OBVIOUS
<1>1. t \in Threads
  BY BTThreads
<1>2. \/ waitQueue' = Append(waitQueue, t)
      \/ waitQueue # << >> /\ waitQueue' = Tail(waitQueue)
      \/ waitQueue' = waitQueue
  BY DEF BT!Step, BT!Begin, BT!Arrive, BT!BroadcastNext, BT!Pass, BT!Resume, BT!Finish,
     BT!Mon!Acquire, BT!Mon!Wait, BT!Mon!Broadcast, BT!Mon!SignalWaiter, BT!Mon!Release,
     BT!Mon!WaiterP, BT!Mon!Reacquire, BT!Mon!TestAgain, BT!Mon!FinishCaller, BT!Mon!monitorVars
<1> QED
  BY <1>1, <1>2

\* Nobody has come, and nobody is signalled.
LEMMA BTInit == BT!Init => BTInv /\ waitQueue \in Seq(Threads)
<1> SUFFICES ASSUME BT!Init PROVE BTInv /\ waitQueue \in Seq(Threads)
  OBVIOUS
<1> USE BTThreads
<1>0. /\ value = BT!InitialValue /\ inP = [t \in Threads |-> NoSem]
      /\ at = [t \in Threads |-> "out"] /\ waitQueue = << >>
      /\ barrierNum = 0 /\ stage = [t \in BT!Workers |-> "before"]
  BY DEF BT!Init, BT!Mon!MonitorInit, BT!Mon!Init
<1>1. /\ BT!InitialValue \in [BT!Sems -> Nat]
      /\ \A t \in BT!Workers : BT!InitialValue[t] = 0
  BY DEF BT!InitialValue
<1>2. BTTypes
  BY <1>0, <1>1 DEF BTTypes, BT!Mon!Labels
<1>3. Arrived = {} /\ barrierNum = Cardinality(Arrived)
  BY <1>0, FS_EmptySet DEF Arrived
<1> QED
  BY <1>0, <1>1, <1>2, <1>3 DEF BTInv, Outside, Closed

\* Nobody is through before all have come.
LEMMA BTNobodyEarly == BTInv => BT!NobodyEarly
<1> SUFFICES ASSUME BTInv, NEW t \in BT!Workers, BT!Through(t)
             PROVE  \A u \in BT!Workers : stage[u] # "before"
  BY DEF BT!NobodyEarly
<1>1. barrierNum = BARRIER_NUM
  <2>1. t \in Threads /\ (barrierNum # BARRIER_NUM => Closed(t))
    BY BTThreads DEF BTInv
  <2> QED
    BY <2>1 DEF Closed, BT!Through, Waits
<1>2. Arrived = BT!Workers
  BY <1>1, BTCount DEF BTInv
<1> QED
  BY <1>2 DEF Arrived

(***************************************************************************)
(* The four tests beside main.                                             *)
(***************************************************************************)
\* The invariant of the test that type selects.
TestInv ==
    /\ type = 0 => PCInv
    /\ type = 2 => BTInv /\ waitQueue \in Seq(Threads)
    /\ type = 3 => RWInv

\* The threads that main forks are those of the test.
LEMMA TestWorkers ==
    /\ type = 0 => Workers = PC1!Workers
    /\ type = 2 => Workers = BT!Workers
    /\ type = 3 => Workers = RW!Workers
<1>1. {producers, consumers, test, readers, writers} \subseteq Seq(Threads)
  BY TestAssumption
<1>2. Range(producers \o consumers) = Range(producers) \cup Range(consumers)
  BY <1>1, BothGroups, SMTT(30)
<1>3. Range(readers \o writers) = Range(readers) \cup Range(writers)
  BY <1>1, BothGroups, SMTT(30)
<1>4. ASSUME type = 0 PROVE Workers = PC1!Workers
  <2>1. ForkOrder = producers \o consumers /\ type # 4
    BY <1>4, SMTT(30) DEF ForkOrder, PC1!ForkOrder
  <2>2. Workers = Range(producers \o consumers)
    BY <2>1, Zenon DEF Workers
  <2> QED
    BY <1>2, <2>2, SMTT(30) DEF PC1!Workers, PC1!Producers, PC1!Consumers, Range
<1>5. ASSUME type = 2 PROVE Workers = BT!Workers
  BY <1>5, SMTT(30) DEF Workers, ForkOrder, BT!ForkOrder, BT!Workers, Range
<1>6. ASSUME type = 3 PROVE Workers = RW!Workers
  <2>1. type # 0 /\ type # 1 /\ type # 2 /\ type # 4
    BY <1>6, SMTT(30)
  <2>2. ForkOrder = RW!ForkOrder
    BY <1>6, <2>1, Zenon DEF ForkOrder
  <2>3. Workers = Range(readers \o writers)
    BY <2>1, <2>2, Zenon DEF Workers, RW!ForkOrder
  <2> QED
    BY <1>3, <2>3, SMTT(30) DEF RW!Workers, RW!Readers, RW!Writers, Range
<1> QED
  BY <1>4, <1>5, <1>6

\* Main forks and halts, the processor switches: the threads' variables stay.
LEMMA TestQuiet ==
    TestInv /\ UNCHANGED type /\ UNCHANGED threadVars => TestInv'
<1> SUFFICES ASSUME TestInv, UNCHANGED type, UNCHANGED threadVars PROVE TestInv'
  OBVIOUS
<1>1. type = 0 => PCInv'
  BY PCQuiet, SMTT(30) DEF TestInv, threadVars
<1>2. type = 2 => BTInv' /\ waitQueue' \in Seq(Threads)
  BY BTQuiet, SMTT(30) DEF TestInv, threadVars
<1>3. type = 3 => RWInv'
  BY RWQuiet, SMTT(30) DEF TestInv, threadVars
<1> QED
  BY <1>1, <1>2, <1>3, SMTT(30) DEF TestInv

LEMMA TestStep == ASSUME NEW t \in Workers, TestInv, Step(t) PROVE TestInv'
<1>1. type' = type /\ ~aborted
  BY SMTT(30) DEF Step, Stopped
<1>2. ASSUME type = 0 PROVE PCInv'
  <2>1. PC1!Step(t) /\ t \in PC1!Workers /\ PCInv
    BY <1>2, TestWorkers, SMTT(30) DEF Step, TestInv
  <2> QED
    BY <2>1, PCStep, SMTT(30)
<1>3. ASSUME type = 2 PROVE BTInv' /\ waitQueue' \in Seq(Threads)
  <2>1. BT!Step(t) /\ t \in BT!Workers /\ BTInv /\ waitQueue \in Seq(Threads)
    BY <1>3, TestWorkers, SMTT(30) DEF Step, TestInv
  <2> QED
    BY <2>1, BTStep, BTQueue, SMTT(30)
<1>4. ASSUME type = 3 PROVE RWInv'
  <2>1. RW!Step(t) /\ t \in RW!Workers /\ RWInv
    BY <1>4, TestWorkers, SMTT(30) DEF Step, TestInv
  <2> QED
    BY <1>1, <2>1, RWStep, SMTT(30)
<1> QED
  BY <1>1, <1>2, <1>3, <1>4, SMTT(30) DEF TestInv

LEMMA TestInit == Init => TestInv
<1> SUFFICES ASSUME Init PROVE TestInv
  OBVIOUS
<1>1. type = 0 => PCInv
  BY PCInit, SMTT(30) DEF Init
<1>2. type = 2 => BTInv /\ waitQueue \in Seq(Threads)
  BY BTInit, SMTT(30) DEF Init
<1>3. type = 3 => RWInv
  BY RWInit, SMTT(30) DEF Init
<1> QED
  BY <1>1, <1>2, <1>3 DEF TestInv

LEMMA TestNext == TestInv /\ [Next]_vars => TestInv'
<1> SUFFICES ASSUME TestInv, [Next]_vars PROVE TestInv'
  OBVIOUS
<1>1. ASSUME MainStep PROVE TestInv'
  BY <1>1, TestQuiet, SMTT(30) DEF MainStep, ForkNext, Halt
<1>2. ASSUME NEW n \in Threads, Switch(n) PROVE TestInv'
  BY <1>2, TestQuiet, SMTT(30) DEF Switch
<1>3. ASSUME NEW t \in Workers, Step(t) PROVE TestInv'
  BY <1>3, TestStep
<1>4. ASSUME UNCHANGED vars PROVE TestInv'
  BY <1>4, TestQuiet, SMTT(30) DEF vars, threadVars
<1> QED
  BY <1>1, <1>2, <1>3, <1>4, SMTT(30) DEF Next

LEMMA TestInvariant == Spec => []TestInv
  BY TestInit, TestNext, PTL DEF Spec

\* Producers and consumers of type 0: the semaphores isFull and isEmpty keep
\* high and low inside produceArray, and low behind what has been written, for
\* any numbers of producers, consumers and items.
THEOREM ArrayIsInBounds == Spec => []InBounds
<1>1. TestInv => InBounds
  BY PCInBounds, SMTT(30) DEF TestInv, InBounds
<1> QED
  BY <1>1, TestInvariant, PTL

\* Type 2: no thread leaves Barrier before all BARRIER_NUM threads came to it.
THEOREM BarrierHolds == Spec => []NobodyEarly
<1>1. TestInv => NobodyEarly
  BY BTNobodyEarly, SMTT(30) DEF TestInv, NobodyEarly
<1> QED
  BY <1>1, TestInvariant, PTL

\* Type 3: a writer in its section is alone there, and readerCount is the number
\* of readers between the two sections that count.
THEOREM WritersExclude == Spec => []WritersAlone
<1>1. TestInv => WritersAlone
  BY RWAlone, SMTT(30) DEF TestInv, WritersAlone
<1> QED
  BY <1>1, TestInvariant, PTL
=============================================================================
