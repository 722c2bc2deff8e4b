------------------------------ MODULE SyncTest ------------------------------
(***************************************************************************)
(* Kernel::SyncTest (threads/kernel.cc:322-482, option -st), and           *)
(* Kernel::ThreadSelfTest (option -K), which does the same: the main       *)
(* thread forks the threads of the test that type selects, one after the   *)
(* other, yields for as long as isReadyListEmpty is false, and returns to  *)
(* main, which halts the machine.  The threads are in the modules          *)
(*   type 0  ProducerConsumer1     type 2  Barrier                         *)
(*   type 1  ProducerConsumer2     type 3  ReaderWriter                    *)
(* and for -K, here type 4, at the end of this one.                        *)
(***************************************************************************)
EXTENDS TestThreads

CONSTANTS Types,        \* values of type
          simple,       \* -K: the threads, as SimpleThread numbers them
          Loops         \* rounds of each: 5, 100, or 500, 100 and 20 in the code

ASSUME SyncTestAssumption ==
    /\ Types \subseteq 0..4
    /\ simple \in Seq(Threads) /\ IsInjective(simple)
    /\ Loops \in Nat

VARIABLES type,
          forked,               \* how many threads main has forked
          halted,               \* Interrupt::Halt was called
          list, op, item        \* type 1

PC2 == INSTANCE ProducerConsumer2
BT == INSTANCE Barrier
CPU == INSTANCE Dispatcher

vars == <<type, cur, ready, blocked, value, queue, inP, forked, halted,
          aborted, at, i, consumed, lockHolder, waitQueue, high, low,
          produceArray, list, op, item, barrierNum, stage, readerCount, rounds>>

(***************************************************************************)
(* The thread test, Thread::MyThreadTest with SimpleThread                 *)
(* (threads/thread.cc:496-604, option -K, typeno 1 to 3): the first thread *)
(* forks the second and the second the third, each before its own loop.    *)
(* A round of the loop writes a line with interrupts off, so that a thread *)
(* can lose the processor at the end of each round.                        *)
(***************************************************************************)
SimpleThreads == Range(simple)

MyThreadTest ==
    /\ CPU!DispatcherInit
    /\ value = <<>> /\ queue = <<>> /\ inP = [t \in Threads |-> NoSem]
    /\ rounds = [t \in SimpleThreads |-> 0]
    /\ at = [t \in SimpleThreads |-> "fork"]

\* The thread that t forks, if any
Forks(t) == {simple[k] : k \in {j \in 2 .. Len(simple) : simple[j - 1] = t}}

\* SimpleThread, up to its loop
SimpleFork(t) ==
    /\ at[t] = "fork" /\ cur = t
    /\ IF Forks(t) # {} THEN \E n \in Forks(t) : CPU!Fork(n)
                        ELSE UNCHANGED <<cur, ready, blocked>>
    /\ at' = [at EXCEPT ![t] = "loop"]
    /\ UNCHANGED rounds

SimpleRound(t) ==
    /\ at[t] = "loop" /\ cur = t
    /\ rounds[t] < Loops
    /\ rounds' = [rounds EXCEPT ![t] = @ + 1]
    /\ UNCHANGED <<cur, ready, blocked, at>>

SimpleFinish(t) ==
    /\ at[t] = "loop" /\ cur = t
    /\ rounds[t] = Loops
    /\ CPU!Finish
    /\ UNCHANGED <<rounds, at>>

SimpleThread(t) ==
    /\ SimpleFork(t) \/ SimpleRound(t) \/ SimpleFinish(t)
    /\ UNCHANGED <<value, queue, inP>>
-----------------------------------------------------------------------------
ForkOrder == CASE type = 0 -> PC1!ForkOrder
               [] type = 1 -> PC2!ForkOrder
               [] type = 2 -> BT!ForkOrder
               [] type = 3 -> RW!ForkOrder
               [] OTHER -> <<simple[1]>>

\* The threads of the test, which are those that main forks but for type 4
Workers == IF type = 4 THEN SimpleThreads ELSE Range(ForkOrder)

\* The variables of the other tests are not there.
Absent(x) == x = <<>>

Init ==
    /\ type \in Types
    /\ forked = 0 /\ halted = FALSE /\ aborted = FALSE
    /\ \/ type = 0 /\ PC1!Init /\ Absent(lockHolder) /\ Absent(waitQueue)
       \/ type = 1 /\ PC2!Init
       \/ type = 2 /\ BT!Init /\ Absent(i) /\ Absent(consumed)
       \/ type = 3 /\ RW!Init /\ Absent(i) /\ Absent(consumed) /\ Absent(waitQueue)
       \/ /\ type = 4 /\ MyThreadTest
          /\ Absent(i) /\ Absent(consumed) /\ Absent(lockHolder) /\ Absent(waitQueue)
    /\ type # 0 => Absent(high) /\ Absent(low) /\ Absent(produceArray)
    /\ type # 1 => Absent(list) /\ Absent(op) /\ Absent(item)
    /\ type # 2 => Absent(barrierNum) /\ Absent(stage)
    /\ type # 3 => Absent(readerCount)
    /\ type \notin {3, 4} => Absent(rounds)
-----------------------------------------------------------------------------
(***************************************************************************)
(* The main thread and the processor.                                      *)
(***************************************************************************)
Stopped == halted \/ aborted

threadVars == <<value, queue, inP, aborted, at, i, consumed, lockHolder,
                waitQueue, high, low, produceArray, list, op, item,
                barrierNum, stage, readerCount, rounds>>

\* new Thread(...)->Fork(...).
ForkNext ==
    /\ cur = Main
    /\ forked < Len(ForkOrder)
    /\ CPU!Fork(ForkOrder[forked + 1])
    /\ forked' = forked + 1
    /\ UNCHANGED <<type, halted>>
    /\ UNCHANGED threadVars

\* The while loop ends and main halts the machine.
Halt ==
    /\ cur = Main
    /\ forked = Len(ForkOrder)
    /\ ready = {}
    /\ halted' = TRUE
    /\ UNCHANGED <<type, cur, ready, blocked, forked>>
    /\ UNCHANGED threadVars

MainStep == ~Stopped /\ (ForkNext \/ Halt)

\* A switch to n: main's call of Yield in the loop, a time slice that ends at
\* the preemption point of any thread, or the dispatch of n after a Sleep.
Switch(n) ==
    /\ ~Stopped
    /\ \/ cur # NoThread /\ inP[cur] = NoSem /\ CPU!YieldTo(n)
       \/ CPU!Dispatch(n)
    /\ UNCHANGED <<type, forked, halted>>
    /\ UNCHANGED threadVars

\* A section of thread t of the test.
Step(t) ==
    /\ ~Stopped
    /\ UNCHANGED <<type, forked, halted>>
    /\ type # 0 => UNCHANGED <<high, low, produceArray>>
    /\ type # 1 => UNCHANGED <<list, op, item>>
    /\ type # 2 => UNCHANGED <<barrierNum, stage>>
    /\ type # 3 => UNCHANGED readerCount
    /\ type \notin {3, 4} => UNCHANGED rounds
    /\ \/ type = 0 /\ PC1!Step(t) /\ UNCHANGED <<lockHolder, waitQueue, aborted>>
       \/ type = 1 /\ PC2!Step(t)
       \/ type = 2 /\ BT!Step(t) /\ UNCHANGED <<i, consumed, aborted>>
       \/ type = 3 /\ RW!Step(t) /\ UNCHANGED <<i, consumed, waitQueue>>
       \/ type = 4 /\ SimpleThread(t) /\ UNCHANGED <<i, consumed, lockHolder, waitQueue, aborted>>

Next ==
    \/ MainStep
    \/ \E n \in Threads : Switch(n)
    \/ \E t \in Workers : Step(t)
    \/ Stopped /\ UNCHANGED vars     \* the machine is off

Spec == Init /\ [][Next]_vars

\* Round robin (typeno 2) gives each ready thread its turn, and a slice lasts
\* at least one timer period, which is longer than a section.
Fairness ==
    /\ SF_vars(MainStep)
    /\ \A t \in Threads \ {Main} : SF_vars(t \in Workers /\ Step(t))
    /\ \A n \in Threads : SF_vars(Switch(n))

FairSpec == Spec /\ Fairness
-----------------------------------------------------------------------------
(***************************************************************************)
(* Properties.                                                             *)
(***************************************************************************)
\* Type 0: produceArray, filled once, is neither overrun nor read ahead.
InBounds == type = 0 => PC1!InBounds

\* Type 2: no thread returns from Barrier before the last one has called it.
NobodyEarly == type = 2 => BT!NobodyEarly

\* Type 3: a writer writes alone, and readerCount is what the code around it
\* takes it for.
WritersAlone == type = 3 => RW!WritersAlone /\ RW!CountIsExact

\* "By convention, only the thread that acquired the lock may release it"
\* (synch.cc:195): the assertion of Lock::Release holds.
ConventionKept == ~aborted

\* main halts as soon as no thread is ready.  That is not too early: every
\* thread has been forked and has finished, none is left asleep on a semaphore,
\* and what was produced has been consumed.
HaltsWhenDone ==
    halted =>
        /\ forked = Len(ForkOrder)
        /\ \A t \in Workers : t \notin {cur} \cup ready \cup blocked
        /\ type = 0 => PC1!AllConsumed
        /\ type = 1 => PC2!AllConsumed
        /\ type = 4 => \A t \in SimpleThreads : rounds[t] = Loops

\* The test ends (with two readers, perhaps in the assertion).
Terminates == <>Stopped
=============================================================================
