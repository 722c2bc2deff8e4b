---------------------------- MODULE ReaderWriter ----------------------------
(***************************************************************************)
(* The readers/writers test, MyReader, MyWriter and MyReaderWriter         *)
(* (threads/kernel.cc:401-474), on class Lock.  Readers count themselves   *)
(* under rwMutex; the first takes wLock for all of them, the last releases *)
(* it.  SyncTest.tla has the main thread.                                  *)
(*                                                                         *)
(* A section ends in a P or a V; at[t] is the section t executes next:     *)
(*   reader  "begin"  rwMutex->Acquire()                                   *)
(*           "count"  ++readerCount, then wLock->Acquire() or the release  *)
(*           "first"  rwMutex->Release() of the reader that took wLock     *)
(*           "read"   the read, then rwMutex->Acquire()                    *)
(*           "uncount" --readerCount, then wLock->Release() or the other   *)
(*           "last"   rwMutex->Release() of the reader that released wLock *)
(*   writer  "begin"  wLock->Acquire()                                     *)
(*           "write"  the write and wLock->Release()                       *)
(***************************************************************************)
EXTENDS Integers, Sequences, FiniteSets

CONSTANTS Threads, Main, NoThread, NoSem, wLock, rwMutex,
          readers, writers,     \* the threads, in the order of forking
          Times                 \* rounds of each, 10 in the code

Locks == {wLock, rwMutex}
Sems == Locks
InitialValue == [s \in Locks |-> 1]

ForkOrder == readers \o writers
Readers == {readers[k] : k \in DOMAIN readers}
Writers == {writers[k] : k \in DOMAIN writers}
Workers == Readers \cup Writers

VARIABLES cur, ready, blocked, value, queue, inP,
          lockHolder,   \* Lock::lockHolder of both locks
          readerCount,
          rounds,       \* rounds[t]: rounds t has completed
          at,
          aborted       \* the assertion of Lock::Release failed

Sem == INSTANCE Semaphore

testVars == <<lockHolder, readerCount, rounds, at, aborted>>

TypeOK ==
    /\ Sem!TypeOK
    /\ lockHolder \in [Locks -> Threads \cup {NoThread}]
    /\ readerCount \in 0..Cardinality(Readers)
    /\ rounds \in [Workers -> 0..Times]
    /\ at \in [Workers -> {"begin", "count", "first", "read", "uncount",
                           "last", "write"}]
    /\ aborted \in BOOLEAN

Init ==
    /\ Sem!Init
    /\ lockHolder = [l \in Locks |-> NoThread]
    /\ readerCount = 0
    /\ rounds = [t \in Workers |-> 0]
    /\ at = [t \in Workers |-> "begin"]
    /\ aborted = FALSE
-----------------------------------------------------------------------------
Goto(t, label) == at' = [at EXCEPT ![t] = label]
EndRound(t) == rounds' = [rounds EXCEPT ![t] = @ + 1] /\ Goto(t, "begin")
At(t, label) == at[t] = label /\ Sem!Running(t)

\* lock->Release() with lockHolder equal to held when it is called: the
\* assertion, the reset of lockHolder and V; or the abort.
Release(t, lock, held, Return) ==
    \/ /\ held[lock] = t
       /\ lockHolder' = [held EXCEPT ![lock] = NoThread]
       /\ Sem!V(lock)
       /\ Return
       /\ UNCHANGED aborted
    \/ /\ held[lock] # t
       /\ aborted' = TRUE
       /\ lockHolder' = held
       /\ UNCHANGED <<cur, ready, blocked, value, queue, inP, rounds, at>>

\* lockHolder after the assignment that ends Acquire.
Took(t, lock) == [lockHolder EXCEPT ![lock] = t]

Begin(t) ==
    /\ At(t, "begin") /\ rounds[t] < Times
    /\ \/ t \in Readers /\ Sem!P(t, rwMutex) /\ Goto(t, "count")
       \/ t \in Writers /\ Sem!P(t, wLock) /\ Goto(t, "write")
    /\ UNCHANGED <<lockHolder, readerCount, rounds, aborted>>

\* Mutant: no reader takes wLock.
CountNoLock(t) ==
    /\ At(t, "count")
    /\ readerCount' = readerCount + 1
    /\ Release(t, rwMutex, Took(t, rwMutex), Goto(t, "read") /\ UNCHANGED rounds)

Count(t) ==
    /\ At(t, "count")
    /\ readerCount' = readerCount + 1
    /\ \/ /\ readerCount' = 1
          /\ lockHolder' = Took(t, rwMutex)
          /\ Sem!P(t, wLock)
          /\ Goto(t, "first")
          /\ UNCHANGED <<rounds, aborted>>
       \/ /\ readerCount' # 1
          /\ Release(t, rwMutex, Took(t, rwMutex),
                     Goto(t, "read") /\ UNCHANGED rounds)

FirstReader(t) ==
    /\ At(t, "first")
    /\ Release(t, rwMutex, Took(t, wLock), Goto(t, "read") /\ UNCHANGED rounds)
    /\ UNCHANGED readerCount

Read(t) ==
    /\ At(t, "read")
    /\ Sem!P(t, rwMutex)
    /\ Goto(t, "uncount")
    /\ UNCHANGED <<lockHolder, readerCount, rounds, aborted>>

Uncount(t) ==
    /\ At(t, "uncount")
    /\ readerCount' = readerCount - 1
    /\ \/ /\ readerCount' = 0
          /\ Release(t, wLock, Took(t, rwMutex),
                     Goto(t, "last") /\ UNCHANGED rounds)
       \/ /\ readerCount' # 0
          /\ Release(t, rwMutex, Took(t, rwMutex), EndRound(t))

LastReader(t) ==
    /\ At(t, "last")
    /\ Release(t, rwMutex, lockHolder, EndRound(t))
    /\ UNCHANGED readerCount

Write(t) ==
    /\ At(t, "write")
    /\ Release(t, wLock, Took(t, wLock), EndRound(t))
    /\ UNCHANGED readerCount

PAgain(t) == Sem!PAgain(t) /\ UNCHANGED testVars

Finish(t) ==
    /\ At(t, "begin") /\ rounds[t] = Times
    /\ Sem!FinishThread
    /\ UNCHANGED testVars

Step(t) ==
    \/ Begin(t) \/ Count(t) \/ FirstReader(t) \/ Read(t) \/ Uncount(t)
    \/ LastReader(t) \/ Write(t) \/ PAgain(t) \/ Finish(t)
-----------------------------------------------------------------------------
(***************************************************************************)
(* Properties.                                                             *)
(***************************************************************************)
Reads(t) == t \in Readers /\ at[t] = "read" /\ inP[t] = NoSem
Writes(t) == t \in Writers /\ at[t] = "write" /\ inP[t] = NoSem

\* A writer writes alone: no reader reads and no other writer writes.
WritersAlone ==
    \A t, u \in Workers : Writes(t) /\ (Reads(u) \/ Writes(u)) => t = u

\* readerCount counts the readers between their two turns under rwMutex, and
\* while there is one that reads, wLock is taken.
CountIsExact ==
    ~aborted =>
    /\ readerCount = Cardinality({t \in Readers :
                        at[t] \in {"first", "read", "uncount"}})
    /\ (\E t \in Readers : Reads(t)) => value[wLock] = 0
=============================================================================
