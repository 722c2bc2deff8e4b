---------------------------- MODULE TestThreads ----------------------------
(***************************************************************************)
(* What the tests of Kernel::SyncTest (threads/kernel.cc:21-39, 278-482)   *)
(* share: the numbers, the threads, the semaphores and locks, and the      *)
(* variables.  A test uses some of them, see SyncTest.tla.                 *)
(***************************************************************************)
EXTENDS Integers, Sequences, FiniteSets, Functions

CONSTANTS Threads, Main, NoThread, NoSem,
          isFull, isEmpty, produceArrayLock,            \* type 0
          MAX_PRODUCE_ARRAY_NUM,
          producers, consumers,                         \* types 0 and 1
          PRODUCE_TIMES, CONSUME_TIMES,
          TheLock,                                      \* types 1 and 2
          test, BARRIER_NUM,                            \* type 2
          readers, writers, wLock, rwMutex, Times       \* type 3

\* As in kernel.cc:21-39 and synch.h:22, where the numbers are 50, 50, 2 * 25
\* and 5, 5.  Every thread of a test is an object of its own.
ASSUME TestAssumption ==
    /\ Main \in Threads /\ NoThread \notin Threads
    /\ {producers, consumers, test, readers, writers} \subseteq Seq(Threads)
    /\ IsInjective(producers \o consumers) /\ IsInjective(readers \o writers)
    /\ IsInjective(test)
    /\ {PRODUCE_TIMES, CONSUME_TIMES, Times} \subseteq Nat
    /\ MAX_PRODUCE_ARRAY_NUM = PRODUCE_TIMES * Len(producers)
    /\ MAX_PRODUCE_ARRAY_NUM = CONSUME_TIMES * Len(consumers)
    /\ BARRIER_NUM = Len(test) /\ BARRIER_NUM > 1
    /\ isFull # isEmpty /\ produceArrayLock \notin {isFull, isEmpty} /\ wLock # rwMutex
    /\ TheLock \notin Threads
    /\ NoSem \notin Threads \cup {TheLock, isFull, isEmpty, produceArrayLock, wLock, rwMutex}

VARIABLES cur, ready, blocked, value, queue, inP,
          aborted,      \* an assertion failed
          at, i, consumed, lockHolder, waitQueue,
          high, low, produceArray,      \* type 0
          barrierNum, stage,            \* type 2
          readerCount, rounds           \* type 3, and rounds also -K

PC1 == INSTANCE ProducerConsumer1
RW == INSTANCE ReaderWriter
=============================================================================
