-------------------------- MODULE SchedulerProofs --------------------------
(***************************************************************************)
(* The thread system keeps its lists, statuses, slots and carcass in       *)
(* agreement, under every policy, and implements Dispatcher, for any       *)
(* number of threads, slots, priorities and feedback queues.               *)
(***************************************************************************)
EXTENDS SchedulerLemmas

(***************************************************************************)
(* Fork, Sleep, Run and the thread table.                                  *)
(***************************************************************************)
\* Fork makes a new thread ready.
LEMMA ForkInv ==
    ASSUME Inv, NEW t \in Threads, Fork(t), UNCHANGED typeno
    PROVE  Inv'
<1> DEFINE c == currentThread
<1>0. /\ c \in Threads /\ c' = c /\ pc \in [Threads -> PCs] /\ pc[c] = "run"
      /\ status \in [Threads -> Statuses] /\ status[t] = "JUST_CREATED"
      /\ UNCHANGED <<threadArray, threadID, toBeDestroyed, yieldOnReturn, waiting, fault>>
  BY DEF Inv, TypeOK, Fork, Running
<1>1. pc[t] = "none" /\ t # c
  BY <1>0 DEF Inv, StatusAndPlace
<1>2. /\ blockList' = RemoveFirst(blockList, t) /\ SetSlice(t) /\ rl' = Enqueue(rl, t)
      /\ status' = [status EXCEPT ![t] = "READY"]
      /\ pc' = [pc EXCEPT ![t] = "begin", ![c] = "tick"]
  BY DEF Fork, ReadyToRun
<1>3. /\ status'[t] = "READY" /\ \A u \in Threads : u # t => status'[u] = status[u]
      /\ pc'[t] = "begin" /\ pc'[c] = "tick"
      /\ \A u \in Threads : u # t /\ u # c => pc'[u] = pc[u]
  BY <1>0, <1>1, <1>2
<1>4. ReadyThreads' = ReadyThreads \cup {t}
  BY <1>3 DEF ReadyThreads
<1>5. /\ rl' \in ReadyLists
      /\ priority' \in [Threads -> Int] /\ timeSliceRemain' \in [Threads -> Int]
      /\ (ListsHold(rl, ReadyThreads))' /\ QueueDiscipline' /\ LevelsInRange'
  <2>1. t \notin ReadyThreads
    BY <1>0 DEF ReadyThreads
  <2> QED
    BY <1>2, <1>4, <2>1, ListsInv, EnqueueStep
<1>6. /\ blockList' \in Seq(Threads) /\ Distinct(blockList')
      /\ Elements(blockList') = Elements(blockList) \ {t}
  BY <1>2, Unblocked
<1>7. TypeOK'
  <2>1. status' \in [Threads -> Statuses] /\ pc' \in [Threads -> PCs]
    BY <1>0, <1>2 DEF Statuses, PCs
  <2>2. inFork' \subseteq Threads
    BY <1>0 DEF Fork, Inv, TypeOK
  <2> QED
    BY <1>0, <1>5, <1>6, <2>1, <2>2 DEF Inv, TypeOK, ReadyLists
<1>8. StatusAndPlace'
  <2>1. \A u \in Threads : status'[u] \in {"FREE", "JUST_CREATED"} <=> pc'[u] = "none"
    BY <1>0, <1>1, <1>3 DEF Inv, StatusAndPlace
  <2>2. ASSUME NEW u \in Threads \ {c}
        PROVE  /\ status'[u] # "RUNNING"
               /\ status'[u] = "READY" => pc'[u] \in SwitchedOutPCs
               /\ status'[u] = "BLOCKED" => pc'[u] \in {"sleep", "dead"}
    <3>1. CASE u = t
      BY <1>3, <3>1 DEF SwitchedOutPCs
    <3>2. CASE u # t
      BY <1>3, <3>2 DEF Inv, StatusAndPlace
    <3> QED
      BY <3>1, <3>2
  <2>3. status'[c] = "RUNNING"
    BY <1>0, <1>1, <1>3 DEF Inv, StatusAndPlace, RunningPCs
  <2> QED
    BY <1>0, <1>3, <2>1, <2>2, <2>3 DEF StatusAndPlace
<1>9. \A u \in Threads : /\ pc'[u] = "dead" <=> pc[u] = "dead"
                         /\ Finished(u)' <=> Finished(u)
  BY <1>0, <1>1, <1>3 DEF Finished
<1>10. CarcassBlocked'
  BY <1>0, <1>1, <1>3, <1>9 DEF Inv, CarcassBlocked
<1>11. WaitingExact'
  BY <1>0, <1>3, <1>9 DEF Inv, WaitingExact
<1>12. CarcassFreedNext'
  <2>1. toBeDestroyed = NULL
    BY <1>0 DEF Inv, CarcassFreedNext
  <2>2. \A u \in Threads : pc'[u] # "dead"
    BY <1>9, <2>1, SchedulerAssumption DEF Inv, CarcassFreedNext
  <2> QED
    BY <1>0, <2>1, <2>2 DEF CarcassFreedNext
<1>13. SlotTable'
  <2>1. \A u \in Threads : Live(u)' <=> Live(u)
    BY <1>0, <1>3 DEF Live, Inv, TypeOK
  <2> QED
    BY <1>0, <2>1 DEF Inv, SlotTable
<1>14. BlockListHolds'
  <2>1. ASSUME NEW u \in Threads, pc'[u] # "none"
        PROVE  u \in Elements(blockList') <=> status'[u] = "BLOCKED"
    <3>1. CASE u = t
      BY <1>3, <1>6, <3>1
    <3>2. CASE u # t
      BY <1>0, <1>3, <1>6, <2>1, <3>2 DEF Inv, BlockListHolds
    <3> QED
      BY <3>1, <3>2
  <2> QED
    BY <1>6, <2>1 DEF BlockListHolds
<1>15. YieldIsPrompt'
  BY <1>0 DEF Inv, YieldIsPrompt
<1> QED
  BY <1>5, <1>7, <1>8, <1>10, <1>11, <1>12, <1>13, <1>14, <1>15 DEF Inv

\* Thread::Sleep, of a thread that waits for a semaphore or that finishes.
LEMMA EnterSleepInv ==
    ASSUME Inv, UNCHANGED typeno, NEW at \in {"loop", "exit"}, EnterSleep(at),
           pc[currentThread] \in {"run", "woken"},
           waiting' = IF at = "loop" THEN waiting \cup {currentThread} ELSE waiting
    PROVE  Inv'
<1> DEFINE c == currentThread
<1>0. /\ c \in Threads /\ c' = c /\ pc \in [Threads -> PCs]
      /\ status \in [Threads -> Statuses] /\ status[c] = "RUNNING"
      /\ UNCHANGED <<threadArray, threadID, priority, timeSliceRemain, inFork, rl,
                     toBeDestroyed, yieldOnReturn, fault>>
  BY DEF Inv, TypeOK, EnterSleep, StatusAndPlace, RunningPCs
<1>1. /\ status' = [status EXCEPT ![c] = "BLOCKED"] /\ blockList' = Append(blockList, c)
      /\ pc' = [pc EXCEPT ![c] = at]
  BY DEF EnterSleep
<1>2. /\ status'[c] = "BLOCKED" /\ \A u \in Threads : u # c => status'[u] = status[u]
      /\ pc'[c] = at /\ \A u \in Threads : u # c => pc'[u] = pc[u]
  BY <1>0, <1>1
<1>3. /\ blockList' \in Seq(Threads) /\ Distinct(blockList')
      /\ Elements(blockList') = Elements(blockList) \cup {c}
  <2>1. c \notin Elements(blockList) /\ Distinct(blockList) /\ blockList \in Seq(Threads)
    BY <1>0 DEF Inv, BlockListHolds, TypeOK
  <2> QED
    BY <1>0, <1>1, <2>1, AppendElements
<1>4. TypeOK'
  <2>1. status' \in [Threads -> Statuses] /\ pc' \in [Threads -> PCs]
    BY <1>0, <1>1 DEF Statuses, PCs
  <2> QED
    BY <1>0, <1>3, <2>1 DEF Inv, TypeOK
<1>5. StatusAndPlace'
  BY <1>0, <1>2 DEF Inv, StatusAndPlace, RunningPCs, SwitchedOutPCs
<1>6. CarcassBlocked'
  BY <1>0, <1>2 DEF Inv, CarcassBlocked
<1>7. WaitingExact'
  <2>1. \A u \in Threads : u # c => (Finished(u)' <=> Finished(u))
    BY <1>2 DEF Finished
  <2>2. Finished(c)' <=> at # "loop"
    BY <1>0, <1>2 DEF Finished
  <2>3. waiting = {u \in Threads : status[u] = "BLOCKED" /\ ~Finished(u)} /\ c \notin waiting
    BY <1>0 DEF Inv, WaitingExact
  <2>4. \A u : u \in waiting' <=> u \in waiting \/ (u = c /\ at = "loop")
    OBVIOUS
  <2>5. \A u \in Threads : u \in waiting' <=> status'[u] = "BLOCKED" /\ ~Finished(u)'
    BY <1>0, <1>2, <2>1, <2>2, <2>3, <2>4
  <2>6. waiting' \subseteq Threads
    BY <1>0, <2>3, <2>4
  <2> QED
    BY <2>5, <2>6 DEF WaitingExact
<1>8. CarcassFreedNext'
  <2>1. toBeDestroyed = NULL
    BY DEF Inv, CarcassFreedNext
  <2>2. \A u \in Threads : pc'[u] # "dead"
    BY <1>2, <2>1, SchedulerAssumption DEF Inv, CarcassFreedNext
  <2> QED
    BY <1>0, <2>1, <2>2 DEF CarcassFreedNext
<1>9. SlotTable'
  <2>1. \A u \in Threads : Live(u)' <=> Live(u)
    BY <1>0, <1>2 DEF Live, Inv, TypeOK
  <2> QED
    BY <1>0, <2>1 DEF Inv, SlotTable
<1>10. BlockListHolds'
  BY <1>2, <1>3 DEF Inv, BlockListHolds
<1>11. (ListsHold(rl, ReadyThreads))'
  <2>1. ReadyThreads' = ReadyThreads
    BY <1>0, <1>2 DEF ReadyThreads
  <2> QED
    BY <1>0, <2>1 DEF Inv, ListsHold
<1>12. LevelsInRange' /\ QueueDiscipline'
  BY <1>0 DEF Inv, LevelsInRange, QueueDiscipline
<1>13. YieldIsPrompt'
  BY <1>0 DEF Inv, YieldIsPrompt
<1> QED
  BY <1>4, <1>5, <1>6, <1>7, <1>8, <1>9, <1>10, <1>11, <1>12, <1>13 DEF Inv

\* The current thread goes to sleep on a semaphore.
LEMMA WaitOnSemaphoreInv == Inv /\ WaitOnSemaphore /\ UNCHANGED typeno => Inv'
  BY EnterSleepInv DEF WaitOnSemaphore, Running

\* The current thread finishes, and becomes the carcass.
LEMMA FinishInv == Inv /\ Finish /\ UNCHANGED typeno => Inv'
  BY EnterSleepInv DEF Finish, Running

\* The end of Sleep's loop: the next thread may be the current one.
LEMMA LeaveSleepInv == Inv /\ LeaveSleep /\ UNCHANGED typeno => Inv'
<1> SUFFICES ASSUME Inv, LeaveSleep, UNCHANGED typeno PROVE Inv'
  OBVIOUS
<1> DEFINE c == currentThread
           n == getReadyListFront(rl)
           at == IF Finished(c) THEN "dead" ELSE "sleep"
<1>0. /\ c \in Threads /\ pc \in [Threads -> PCs] /\ status \in [Threads -> Statuses]
      /\ pc[c] \in {"loop", "idle", "exit", "exitidle"}
      /\ ~isReadyListEmpty(rl) /\ rl' = RemoveNext(rl)
      /\ UNCHANGED <<threadArray, threadID, priority, timeSliceRemain, inFork,
                     blockList, yieldOnReturn, waiting, fault>>
  BY DEF LeaveSleep, Sleeping, Inv, TypeOK
<1>1. /\ toBeDestroyed' = IF Finished(c) THEN c ELSE toBeDestroyed
      /\ status' = [status EXCEPT ![n] = "RUNNING"]
      /\ c' = n /\ pc' = [pc EXCEPT ![c] = at]
  BY DEF LeaveSleep, SwitchTo
<1>2. /\ n \in Threads /\ status[n] = "READY"
      /\ RemoveNext(rl) \in ReadyLists
      /\ ListsHold(RemoveNext(rl), ReadyThreads \ {n})
      /\ Disciplined(RemoveNext(rl), priority, timeSliceRemain)
  BY <1>0, NextToRun
<1> HIDE DEF n
<1>3. /\ status'[n] = "RUNNING" /\ \A t \in Threads : t # n => status'[t] = status[t]
      /\ pc'[c] = at /\ \A t \in Threads : t # c => pc'[t] = pc[t]
  BY <1>0, <1>1, <1>2
<1>4. /\ n = c => ~Finished(c)
      /\ n # c => pc[n] \in SwitchedOutPCs
      /\ Finished(c) => status[c] = "BLOCKED"
      /\ ~Finished(c) => status[c] \in {"BLOCKED", "READY"}
  BY <1>0, <1>2 DEF Inv, StatusAndPlace, Finished
<1>5. pc'[n] \in SwitchedOutPCs
  BY <1>2, <1>3, <1>4 DEF SwitchedOutPCs
<1>6. TypeOK'
  <2>1. status' \in [Threads -> Statuses] /\ pc' \in [Threads -> PCs]
    BY <1>0, <1>1 DEF Statuses, PCs
  <2>2. toBeDestroyed' \in Threads \cup {NULL}
    BY <1>0, <1>1 DEF Inv, TypeOK
  <2> QED
    BY <1>0, <1>1, <1>2, <2>1, <2>2 DEF Inv, TypeOK, ReadyLists
<1>7. StatusAndPlace'
  <2>1. \A t \in Threads : status'[t] \in {"FREE", "JUST_CREATED"} <=> pc'[t] = "none"
    BY <1>0, <1>2, <1>3, <1>4 DEF Inv, StatusAndPlace, SwitchedOutPCs
  <2>2. ASSUME NEW t \in Threads \ {n}
        PROVE  /\ status'[t] # "RUNNING"
               /\ status'[t] = "READY" => pc'[t] \in SwitchedOutPCs
               /\ status'[t] = "BLOCKED" => pc'[t] \in {"sleep", "dead"}
    <3>1. CASE t = c
      BY <1>0, <1>3, <1>4, <3>1 DEF SwitchedOutPCs
    <3>2. CASE t # c
      BY <1>3, <3>2 DEF Inv, StatusAndPlace
    <3> QED
      BY <3>1, <3>2
  <2> QED
    BY <1>1, <1>3, <1>5, <2>1, <2>2 DEF StatusAndPlace, SwitchedOutPCs, RunningPCs
<1>8. toBeDestroyed = NULL /\ \A t \in Threads : pc[t] # "dead"
  BY <1>0, SchedulerAssumption DEF Inv, CarcassFreedNext
<1>9. CarcassBlocked'
  BY <1>2, <1>3, <1>4, <1>8 DEF CarcassBlocked
<1>10. WaitingExact'
  <2>1. \A t \in Threads : Finished(t)' <=> Finished(t)
    BY <1>0, <1>3 DEF Finished
  <2> QED
    BY <1>0, <1>2, <1>3, <2>1 DEF Inv, WaitingExact
<1>11. CarcassFreedNext'
  <2>1. CASE Finished(c)
    <3>1. toBeDestroyed' = c /\ pc'[c] = "dead" /\ n # c
      BY <1>1, <1>3, <1>4, <2>1
    <3> QED
      BY <1>1, <1>3, <1>5, <1>8, <3>1 DEF CarcassFreedNext, SwitchedOutPCs
  <2>2. CASE ~Finished(c)
    BY <1>1, <1>3, <1>8, <2>2 DEF CarcassFreedNext
  <2> QED
    BY <2>1, <2>2
<1>12. SlotTable'
  <2>1. \A t \in Threads : Live(t)' <=> Live(t)
    BY <1>2, <1>3 DEF Live
  <2> QED
    BY <1>0, <2>1 DEF Inv, SlotTable
<1>13. BlockListHolds'
  <2>1. \A t \in Threads : pc'[t] # "none" => pc[t] # "none"
    BY <1>0, <1>3
  <2> QED
    BY <1>0, <1>2, <1>3, <2>1 DEF Inv, BlockListHolds
<1>14. (ListsHold(rl, ReadyThreads))'
  <2>1. ReadyThreads' = ReadyThreads \ {n}
    BY <1>2, <1>3 DEF ReadyThreads
  <2> QED
    BY <1>0, <1>2, <2>1 DEF ListsHold
<1>15. LevelsInRange'
  BY <1>0 DEF Inv, LevelsInRange
<1>16. QueueDiscipline'
  <2>1. (Disciplined(rl, priority, timeSliceRemain))'
    BY <1>0, <1>2
  <2>2. (QueueDiscipline <=> Disciplined(rl, priority, timeSliceRemain))'
    BY DisciplineIs, PTL
  <2> QED
    BY <2>1, <2>2
<1>17. YieldIsPrompt'
  <2>1. pc[c] # "ticked"
    BY <1>0
  <2> QED
    BY <1>0, <2>1 DEF Inv, YieldIsPrompt
<1> QED
  BY <1>6, <1>7, <1>9, <1>10, <1>11, <1>12, <1>13, <1>14, <1>15, <1>16, <1>17 DEF Inv

\* The thread switched to frees the carcass and goes on.
LEMMA ResumeInv == Inv /\ Resume /\ UNCHANGED typeno => Inv'
<1> SUFFICES ASSUME Inv, Resume, UNCHANGED typeno PROVE Inv'
  OBVIOUS
<1> DEFINE c == currentThread
           d == toBeDestroyed
           x == IF pc[c] = "sleep" THEN "woken" ELSE "tick"
<1>0. /\ c \in Threads /\ pc \in [Threads -> PCs] /\ status \in [Threads -> Statuses]
      /\ pc[c] \in SwitchedOutPCs /\ c' = c /\ d' = NULL
      /\ UNCHANGED <<threadID, inFork, rl, blockList, yieldOnReturn, waiting, fault>>
  BY DEF Resume, CheckToBeDestroyed, Inv, TypeOK, SwitchedOutPCs
<1>1. /\ d \in Threads \cup {NULL} /\ d # c /\ status[c] = "RUNNING" /\ NULL \notin Threads
      /\ \A t \in Threads : pc[t] = "dead" => t = d
      /\ d # NULL => d \in Threads /\ pc[d] = "dead" /\ status[d] = "BLOCKED"
  BY <1>0, SchedulerAssumption DEF Inv, TypeOK, CarcassFreedNext, CarcassBlocked,
                                   StatusAndPlace, SwitchedOutPCs, RunningPCs
<1>2. /\ pc'[c] = x
      /\ d # NULL => pc'[d] = "none"
      /\ \A t \in Threads : t # c /\ t # d => pc'[t] = pc[t]
      /\ pc' \in [Threads -> PCs]
  BY <1>0, <1>1 DEF Resume, PCs
<1>3. /\ d # NULL => status'[d] = "FREE"
      /\ \A t \in Threads : t # d => status'[t] = status[t]
      /\ status' \in [Threads -> Statuses]
  BY <1>0, <1>1 DEF Resume, CheckToBeDestroyed, Statuses
<1>4. /\ \A t \in Threads : t # d => priority'[t] = priority[t]
      /\ d # NULL => priority'[d] = 0
      /\ priority' \in [Threads -> Int]
  BY <1>1 DEF Resume, CheckToBeDestroyed, Inv, TypeOK
<1>5. /\ \A t \in Threads : t # d => timeSliceRemain'[t] = timeSliceRemain[t]
      /\ timeSliceRemain' \in [Threads -> Int]
  BY <1>1 DEF Resume, CheckToBeDestroyed, Inv, TypeOK
<1>6. /\ threadArray' \in [Slots -> Threads \cup {NULL}]
      /\ \A i \in Slots : threadArray'[i] = IF d # NULL /\ i = threadID[d]
                                            THEN NULL ELSE threadArray[i]
  BY <1>1 DEF Resume, CheckToBeDestroyed, Inv, TypeOK
<1>7. x \in {"woken", "tick"}
  OBVIOUS
<1> HIDE DEF x
<1>8. TypeOK'
  BY <1>0, <1>2, <1>3, <1>4, <1>5, <1>6 DEF Inv, TypeOK
<1>9. StatusAndPlace'
  <2>1. \A t \in Threads : status'[t] \in {"FREE", "JUST_CREATED"} <=> pc'[t] = "none"
    <3> TAKE t \in Threads
    <3>1. CASE t = c
      BY <1>1, <1>2, <1>3, <1>7, <3>1
    <3>2. CASE t = d
      BY <1>1, <1>2, <1>3, <3>2
    <3>3. CASE t # c /\ t # d
      BY <1>2, <1>3, <3>3 DEF Inv, StatusAndPlace
    <3> QED
      BY <3>1, <3>2, <3>3
  <2>2. ASSUME NEW t \in Threads \ {c}
        PROVE  /\ status'[t] # "RUNNING"
               /\ status'[t] = "READY" => pc'[t] \in SwitchedOutPCs
               /\ status'[t] = "BLOCKED" => pc'[t] \in {"sleep", "dead"}
    <3>1. CASE t = d
      BY <1>1, <1>3, <3>1
    <3>2. CASE t # d
      BY <1>2, <1>3, <3>2 DEF Inv, StatusAndPlace
    <3> QED
      BY <3>1, <3>2
  <2>3. status'[c] = "RUNNING"
    BY <1>0, <1>1, <1>3
  <2> QED
    BY <1>0, <1>2, <1>7, <2>1, <2>2, <2>3 DEF StatusAndPlace
<1>10. \A t \in Threads : pc'[t] # "dead"
  BY <1>1, <1>2, <1>7
<1>11. CarcassBlocked' /\ CarcassFreedNext'
  BY <1>0, <1>10 DEF CarcassBlocked, CarcassFreedNext
<1>12. WaitingExact'
  <2>1. \A t \in Threads : (status'[t] = "BLOCKED" /\ ~Finished(t)') <=> (status[t] = "BLOCKED" /\ ~Finished(t))
    <3> TAKE t \in Threads
    <3>1. CASE t = c
      BY <1>1, <1>3, <3>1
    <3>2. CASE t = d
      BY <1>1, <1>3, <3>2 DEF Finished
    <3>3. CASE t # c /\ t # d
      BY <1>2, <1>3, <3>3 DEF Finished
    <3> QED
      BY <3>1, <3>2, <3>3
  <2> QED
    BY <1>0, <2>1 DEF Inv, WaitingExact
<1>13. SlotTable'
  <2> SUFFICES ASSUME NEW i \in Slots, NEW t \in Threads
               PROVE  threadArray'[i] = t <=> (status'[t] # "FREE" /\ threadID[t] = i)
    BY <1>0 DEF SlotTable, Live
  <2>1. threadArray[i] = t <=> (status[t] # "FREE" /\ threadID[t] = i)
    BY DEF Inv, SlotTable, Live
  <2>2. CASE t = d
    BY <1>1, <1>3, <1>6, <2>1, <2>2
  <2>3. CASE t # d /\ d # NULL
    <3>1. threadArray[threadID[d]] = d /\ threadID[d] \in Slots
      BY <1>1, <2>3 DEF Inv, SlotTable, Live, TypeOK
    <3> QED
      BY <1>1, <1>3, <1>6, <2>1, <2>3, <3>1
  <2>4. CASE d = NULL
    BY <1>3, <1>6, <2>1, <2>4, <1>1
  <2> QED
    BY <2>2, <2>3, <2>4
<1>14. BlockListHolds'
  <2>1. ASSUME NEW t \in Threads, pc'[t] # "none"
        PROVE  t \in Elements(blockList) <=> status'[t] = "BLOCKED"
    <3>1. t # d
      BY <1>1, <1>2, <2>1
    <3>2. pc[t] # "none"
      BY <1>0, <1>2, <2>1, <3>1 DEF SwitchedOutPCs
    <3> QED
      BY <1>3, <3>1, <3>2 DEF Inv, BlockListHolds
  <2> QED
    BY <1>0, <2>1 DEF Inv, BlockListHolds
<1>15. ReadyThreads' = ReadyThreads /\ d \notin ReadyThreads
  BY <1>1, <1>3 DEF ReadyThreads
<1>16. (ListsHold(rl, ReadyThreads))'
  BY <1>0, <1>15 DEF Inv, ListsHold
<1>17. LevelsInRange'
  <2>1. QueueNum \in Nat \ {0}
    BY SchedulerAssumption
  <2>2. 0 \in -1 .. QueueNum - 1
    BY <2>1
  <2>3. ASSUME typeno = 3, NEW t \in Threads PROVE priority'[t] \in -1 .. QueueNum - 1
    <3>1. CASE t = d
      BY <1>1, <1>4, <2>2, <3>1
    <3>2. CASE t # d
      BY <1>4, <2>3, <3>2 DEF Inv, LevelsInRange
    <3> QED
      BY <3>1, <3>2
  <2> QED
    BY <2>3 DEF LevelsInRange
<1>18. QueueDiscipline'
  <2>1. \A t \in ReadyThreads : /\ priority'[t] = priority[t]
                                /\ timeSliceRemain'[t] = timeSliceRemain[t]
    BY <1>4, <1>5, <1>15 DEF ReadyThreads
  <2>2. Disciplined(rl, priority', timeSliceRemain')
    BY <2>1, ListsInv, DisciplineKept
  <2>3. (Disciplined(rl, priority, timeSliceRemain))'
    BY <1>0, <2>2
  <2>4. (QueueDiscipline <=> Disciplined(rl, priority, timeSliceRemain))'
    BY DisciplineIs, PTL
  <2> QED
    BY <2>3, <2>4
<1>19. YieldIsPrompt'
  BY <1>0 DEF Inv, YieldIsPrompt, SwitchedOutPCs
<1> QED
  BY <1>8, <1>9, <1>11, <1>12, <1>13, <1>14, <1>16, <1>17, <1>18, <1>19 DEF Inv

\* new Thread takes a free slot.
LEMMA NewThreadInv ==
    ASSUME Inv, NEW t \in Threads, NEW p \in Priorities, NewThread(t, p), UNCHANGED typeno
    PROVE  Inv'
<1> DEFINE c == currentThread
           m == Min(FreeSlots)
<1>0. /\ c \in Threads /\ c' = c /\ pc \in [Threads -> PCs] /\ status \in [Threads -> Statuses]
      /\ pc[c] = "run" /\ status[t] = "FREE"
      /\ UNCHANGED <<pc, inFork, rl, blockList, toBeDestroyed, yieldOnReturn, waiting>>
  BY DEF NewThread, Running, Inv, TypeOK
<1>1. CASE FreeSlots = {}
  <2>1. /\ UNCHANGED <<threadArray, threadID, status, priority, timeSliceRemain>>
        /\ fault' \in Faults
    BY <1>1 DEF NewThread, Faults
  <2>2. pc' = [pc EXCEPT ![c] = "run"] /\ inFork' \subseteq Threads
    BY <1>0 DEF Inv, TypeOK
  <2> QED
    BY <1>0, <2>1, <2>2, MoveInv
<1>2. CASE FreeSlots # {}
  <2>1. /\ threadArray' = [threadArray EXCEPT ![m] = t]
        /\ threadID' = [threadID EXCEPT ![t] = m]
        /\ status' = [status EXCEPT ![t] = "JUST_CREATED"]
        /\ UNCHANGED fault
    BY <1>2 DEF NewThread
  <2>2. m \in Slots /\ threadArray[m] = NULL
    <3>1. FreeSlots \in SUBSET Nat
      BY SchedulerAssumption DEF FreeSlots, Slots
    <3>2. m \in FreeSlots
      BY <1>2, <3>1, MinIsLeast
    <3> QED
      BY <3>2 DEF FreeSlots
  <2> HIDE DEF m
  <2>3. /\ priority' \in [Threads -> Int]
        /\ \A u \in Threads : u # t => priority'[u] = priority[u]
        /\ typeno = 3 => priority'[t] = -1
    <3> DEFINE v == CASE typeno = 1 -> p [] typeno = 3 -> -1 [] OTHER -> 0
    <3>1. priority' = [priority EXCEPT ![t] = v]
      BY <1>2 DEF NewThread
    <3>2. v \in Int /\ (typeno = 3 => v = -1)
      BY SchedulerAssumption
    <3> HIDE DEF v
    <3> QED
      BY <3>1, <3>2 DEF Inv, TypeOK
  <2>4. /\ timeSliceRemain' \in [Threads -> Int]
        /\ \A u \in Threads : u # t => timeSliceRemain'[u] = timeSliceRemain[u]
    <3> DEFINE v == IF typeno = 1 THEN timeSlice ELSE 0
    <3>1. timeSliceRemain' = [timeSliceRemain EXCEPT ![t] = v]
      BY <1>2 DEF NewThread
    <3>2. v \in Int
      BY SchedulerAssumption
    <3> HIDE DEF v
    <3> QED
      BY <3>1, <3>2 DEF Inv, TypeOK
  <2>5. /\ status'[t] = "JUST_CREATED" /\ \A u \in Threads : u # t => status'[u] = status[u]
        /\ threadID'[t] = m /\ \A u \in Threads : u # t => threadID'[u] = threadID[u]
        /\ threadArray'[m] = t /\ \A i \in Slots : i # m => threadArray'[i] = threadArray[i]
        /\ NULL \notin Threads
    BY <1>0, <2>1, <2>2, SchedulerAssumption DEF Inv, TypeOK
  <2>6. TypeOK'
    <3>1. status' \in [Threads -> Statuses] /\ threadID' \in [Threads -> Slots]
      BY <1>0, <2>1, <2>2 DEF Statuses, Inv, TypeOK
    <3>2. threadArray' \in [Slots -> Threads \cup {NULL}]
      BY <2>1, <2>2 DEF Inv, TypeOK
    <3> QED
      BY <1>0, <2>1, <2>3, <2>4, <3>1, <3>2 DEF Inv, TypeOK
  <2>7. pc[t] = "none" /\ t # c
    BY <1>0 DEF Inv, StatusAndPlace
  <2>8. StatusAndPlace'
    BY <1>0, <2>5, <2>7 DEF Inv, StatusAndPlace
  <2>9. CarcassBlocked'
    BY <1>0, <2>5, <2>7 DEF Inv, CarcassBlocked
  <2>10. WaitingExact'
    <3>1. \A u \in Threads : status'[u] = "BLOCKED" <=> status[u] = "BLOCKED"
      BY <1>0, <2>5
    <3> QED
      BY <1>0, <3>1 DEF Inv, WaitingExact, Finished
  <2>11. CarcassFreedNext'
    BY <1>0 DEF Inv, CarcassFreedNext
  <2>12. SlotTable'
    <3> SUFFICES ASSUME NEW i \in Slots, NEW u \in Threads
                 PROVE  threadArray'[i] = u <=> (status'[u] # "FREE" /\ threadID'[u] = i)
      BY DEF SlotTable, Live
    <3>1. /\ threadArray[i] = u <=> (status[u] # "FREE" /\ threadID[u] = i)
          /\ threadArray[i] # t
          /\ u # t => ~(status[u] # "FREE" /\ threadID[u] = m)
      BY <1>0, <2>2, <2>5 DEF Inv, SlotTable, Live
    <3> QED
      BY <2>5, <3>1
  <2>13. BlockListHolds'
    BY <1>0, <2>5, <2>7 DEF Inv, BlockListHolds
  <2>14. ReadyThreads' = ReadyThreads /\ t \notin ReadyThreads
    BY <1>0, <2>5 DEF ReadyThreads
  <2>15. (ListsHold(rl, ReadyThreads))'
    BY <1>0, <2>14 DEF Inv, ListsHold
  <2>16. LevelsInRange'
    <3>1. QueueNum \in Nat \ {0}
      BY SchedulerAssumption
    <3> QED
      BY <2>3, <3>1 DEF Inv, LevelsInRange
  <2>17. QueueDiscipline'
    <3>1. \A u \in ReadyThreads : /\ priority'[u] = priority[u]
                                  /\ timeSliceRemain'[u] = timeSliceRemain[u]
      BY <2>3, <2>4, <2>14 DEF ReadyThreads
    <3>2. Disciplined(rl, priority', timeSliceRemain')
      BY <3>1, ListsInv, DisciplineKept
    <3>3. (Disciplined(rl, priority, timeSliceRemain))'
      BY <1>0, <3>2
    <3>4. (QueueDiscipline <=> Disciplined(rl, priority, timeSliceRemain))'
      BY DisciplineIs, PTL
    <3> QED
      BY <3>3, <3>4
  <2>18. YieldIsPrompt'
    BY <1>0 DEF Inv, YieldIsPrompt
  <2> QED
    BY <2>6, <2>8, <2>9, <2>10, <2>11, <2>12, <2>13, <2>15, <2>16, <2>17, <2>18 DEF Inv
<1> QED
  BY <1>1, <1>2

(***************************************************************************)
(* The invariant and what follows from it.                                 *)
(***************************************************************************)
LEMMA NextInv == Inv /\ [Next]_vars => Inv'
<1> SUFFICES ASSUME Inv, [Next]_vars PROVE Inv'
  OBVIOUS
<1>1. CASE Next
  <2>0. Step /\ UNCHANGED typeno
    BY <1>1 DEF Next
  <2>1. CASE LeaveSleep
    BY <2>0, <2>1, LeaveSleepInv
  <2>2. CASE Resume
    BY <2>0, <2>2, ResumeInv
  <2>3. CASE TimerInterrupt
    BY <2>0, <2>3, TimerInterruptInv
  <2>4. CASE IdleTimerInterrupt
    BY <2>0, <2>4, IdleTimerInterruptInv
  <2>5. CASE EndTick
    BY <2>0, <2>5, EndTickInv
  <2>6. CASE ForkTest
    BY <2>0, <2>6, ForkTestInv
  <2>7. CASE CallYield
    BY <2>0, <2>7, CallYieldInv
  <2>8. CASE WaitOnSemaphore
    BY <2>0, <2>8, WaitOnSemaphoreInv
  <2>9. CASE ReturnFromP
    BY <2>0, <2>9, ReturnFromPInv
  <2>10. CASE CriticalSection
    BY <2>0, <2>10, CriticalSectionInv
  <2>11. CASE Finish
    BY <2>0, <2>11, FinishInv
  <2>12. ASSUME NEW t \in Threads, DeviceInterrupt(t) PROVE Inv'
    BY <2>0, <2>12, DeviceInterruptInv
  <2>13. ASSUME NEW t \in Threads, Fork(t) PROVE Inv'
    BY <2>0, <2>13, ForkInv
  <2>14. ASSUME NEW t \in Threads, WakeThread(t) PROVE Inv'
    BY <2>0, <2>14, WakeThreadInv
  <2>15. ASSUME NEW t \in Threads, NEW p \in Priorities, NewThread(t, p) PROVE Inv'
    BY <2>0, <2>15, NewThreadInv
  <2> QED
    BY <2>0, <2>1, <2>2, <2>3, <2>4, <2>5, <2>6, <2>7, <2>8, <2>9, <2>10, <2>11,
       <2>12, <2>13, <2>14, <2>15 DEF Step
<1>2. CASE UNCHANGED vars
  <2>0. UNCHANGED <<typeno, currentThread, threadArray, threadID, status, priority,
                    timeSliceRemain, pc, inFork, rl, blockList, toBeDestroyed,
                    yieldOnReturn, waiting, fault>>
    BY <1>2 DEF vars
  <2>1. TypeOK' /\ StatusAndPlace'
    BY <2>0 DEF Inv, TypeOK, StatusAndPlace
  <2>2. CarcassBlocked' /\ WaitingExact' /\ CarcassFreedNext'
    BY <2>0 DEF Inv, CarcassBlocked, WaitingExact, Finished, CarcassFreedNext
  <2>3. SlotTable' /\ BlockListHolds' /\ LevelsInRange' /\ YieldIsPrompt'
    BY <2>0 DEF Inv, SlotTable, Live, BlockListHolds, LevelsInRange, YieldIsPrompt
  <2>4. ListsHold(rl, ReadyThreads)'
    <3>1. ReadyThreads' = ReadyThreads
      BY <2>0 DEF ReadyThreads
    <3> QED
      BY <2>0, <3>1 DEF Inv, ListsHold
  <2>5. QueueDiscipline'
    BY <2>0 DEF Inv, QueueDiscipline
  <2> QED
    BY <2>1, <2>2, <2>3, <2>4, <2>5 DEF Inv
<1> QED
  BY <1>1, <1>2

\* Under each of the four policies, for any threads, slots, priorities and
\* feedback queues, the lists, statuses, slots and the carcass stay in agreement.
THEOREM SchedulerInvariant == Spec => []Inv
  BY InitInv, NextInv, PTL DEF Spec

\* A thread that is on a list once has one place there.
LEMMA OnePlaceInList ==
    ASSUME NEW q \in Seq(Threads), Distinct(q), NEW t
    PROVE  IF t \in Elements(q) THEN \E k : Places(q, t) = {k} ELSE Places(q, t) = {}
<1>1. ASSUME t \in Elements(q) PROVE \E k : Places(q, t) = {k}
  <2>1. PICK k \in 1 .. Len(q) : q[k] = t
    BY <1>1 DEF Elements
  <2>2. Places(q, t) = {k}
    BY <2>1 DEF Places, Distinct
  <2> QED
    BY <2>2
<1>2. ASSUME t \notin Elements(q) PROVE Places(q, t) = {}
  BY <1>2 DEF Places, Elements
<1> QED
  BY <1>1, <1>2

\* g counts the elements of the subsets of S, as the function in Cardinality does.
Counts(g, S) ==
    g = [T \in SUBSET S |-> IF T = {} THEN 0 ELSE 1 + g[T \ {CHOOSE x : x \in T}]]

\* Where there is such a function, Cardinality is the value of one.
LEMMA CountIs ==
    \A S : (\E g : Counts(g, S)) => \E g : Counts(g, S) /\ Cardinality(S) = g[S]
<1> TAKE S
<1> DEFINE CS ==
        CHOOSE g : g = [T \in SUBSET S |-> IF T = {} THEN 0 ELSE 1 + g[T \ {CHOOSE x : x \in T}]]
<1>1. Cardinality(S) = CS[S]
  BY Zenon DEF Cardinality
<1>2. (\E g : Counts(g, S)) => Counts(CS, S)
  BY Zenon DEF Counts
<1> HIDE DEF CS
<1> QED
  BY <1>1, <1>2

\* The empty set has no elements.
LEMMA NoElements == Cardinality({}) = 0
<1>1. Counts([T \in SUBSET {} |-> 0], {})
  BY DEF Counts
<1>2. PICK g : Counts(g, {}) /\ Cardinality({}) = g[{}]
  BY <1>1, CountIs
<1> QED
  BY <1>2 DEF Counts

\* A set of one element has one.
LEMMA OneElement == \A x : Cardinality({x}) = 1
<1> TAKE x
<1> DEFINE f == [T \in SUBSET {x} |-> IF T = {} THEN 0 ELSE 1]
<1>0. \A T \in SUBSET {x} : T # {} => T = {x} /\ (CHOOSE y : y \in T) = x
  OBVIOUS
<1>1. Counts(f, {x})
  BY <1>0 DEF Counts
<1>2. PICK g : Counts(g, {x}) /\ Cardinality({x}) = g[{x}]
  BY <1>1, CountIs
<1>3. g[{}] = 0 /\ g[{x}] = 1 + g[{x} \ {CHOOSE y : y \in {x}}]
  BY <1>2 DEF Counts
<1>4. {x} \ {CHOOSE y : y \in {x}} = {}
  OBVIOUS
<1> QED
  BY <1>2, <1>3, <1>4

\* Every thread that is READY is on the ready lists once, and no other.
LEMMA ReadyOnce == Inv => ReadyExactlyOnce
<1> SUFFICES ASSUME Inv, NEW t \in Threads
             PROVE  Cardinality(ReadyPlaces(t)) = IF status[t] = "READY" THEN 1 ELSE 0
  BY DEF ReadyExactlyOnce
<1> DEFINE A == Places(rl.readyList, t)
           B == Places(rl.sortedReadyList, t)
           F(i) == Places(rl.threadArrQueue[i], t)
<1>0. /\ rl.readyList \in Seq(Threads) /\ rl.sortedReadyList \in Seq(Threads)
      /\ \A i \in Levels : rl.threadArrQueue[i] \in Seq(Threads)
      /\ typeno \in 0 .. 3 /\ ListsHold(rl, ReadyThreads)
  BY ListsInv DEF ReadyLists
<1>1. ReadyPlaces(t) = ({-1} \X A) \cup ({-2} \X B) \cup UNION {{i} \X F(i) : i \in Levels}
  BY DEF ReadyPlaces
<1>2. IF t \in Elements(rl.readyList) THEN \E k : A = {k} ELSE A = {}
  BY <1>0, OnePlaceInList DEF ListsHold, Holds
<1>3. IF t \in Elements(rl.sortedReadyList) THEN \E k : B = {k} ELSE B = {}
  BY <1>0, OnePlaceInList DEF ListsHold, Holds
<1>4. ASSUME NEW i \in Levels
      PROVE  IF t \in Elements(rl.threadArrQueue[i]) THEN \E k : F(i) = {k} ELSE F(i) = {}
  <2>1. Distinct(rl.threadArrQueue[i])
    BY <1>0 DEF ListsHold, LevelsHold
  <2> QED
    BY <1>0, <2>1, OnePlaceInList
<1> HIDE DEF A, B, F
<1>5. CASE status[t] # "READY"
  <2>1. t \notin ReadyThreads
    BY <1>5 DEF ReadyThreads
  <2>2. A = {} /\ B = {} /\ \A i \in Levels : F(i) = {}
    BY <1>0, <1>2, <1>3, <1>4, <2>1 DEF ListsHold, Holds, LevelsHold
  <2>3. ReadyPlaces(t) = {}
    BY <1>1, <2>2
  <2> QED
    BY <1>5, <2>3, NoElements
<1>6. CASE status[t] = "READY"
  <2>0. t \in ReadyThreads
    BY <1>6 DEF ReadyThreads
  <2>1. CASE typeno \in {0, 2}
    <3>0. /\ Elements(rl.sortedReadyList) = {}
          /\ \A i \in Levels : t \notin Elements(rl.threadArrQueue[i])
      BY <1>0, <2>1 DEF ListsHold, Holds, LevelsHold
    <3>1. B = {} /\ \A i \in Levels : F(i) = {}
      BY <1>3, <1>4, <3>0
    <3>2. PICK k : A = {k}
      BY <1>0, <1>2, <2>0, <2>1 DEF ListsHold, Holds
    <3>3. ReadyPlaces(t) = {<<-1, k>>}
      BY <1>1, <3>1, <3>2
    <3> QED
      BY <1>6, <3>3, OneElement
  <2>2. CASE typeno = 1
    <3>1. A = {} /\ \A i \in Levels : F(i) = {}
      BY <1>0, <1>2, <1>4, <2>2 DEF ListsHold, Holds, LevelsHold
    <3>2. PICK k : B = {k}
      BY <1>0, <1>3, <2>0, <2>2 DEF ListsHold, Holds
    <3>3. ReadyPlaces(t) = {<<-2, k>>}
      BY <1>1, <3>1, <3>2
    <3> QED
      BY <1>6, <3>3, OneElement
  <2>3. CASE typeno = 3
    <3>1. A = {} /\ B = {}
      BY <1>0, <1>2, <1>3, <2>3 DEF ListsHold, Holds
    <3>2. LevelsHold(rl.threadArrQueue, ReadyThreads)
      BY <1>0, <2>3 DEF ListsHold
    <3>3. PICK n \in Levels : t \in Elements(rl.threadArrQueue[n])
      BY <2>0, <3>2 DEF LevelsHold
    <3>4. \A i \in Levels : i # n => t \notin Elements(rl.threadArrQueue[i])
      BY <3>2, <3>3 DEF LevelsHold
    <3>5. \A i \in Levels : i # n => F(i) = {}
      BY <1>4, <3>4
    <3>6. PICK k : F(n) = {k}
      BY <1>4, <3>3
    <3>7. UNION {{i} \X F(i) : i \in Levels} = {n} \X F(n)
      BY <3>5
    <3>8. ReadyPlaces(t) = {<<n, k>>}
      BY <1>1, <3>1, <3>6, <3>7
    <3> QED
      BY <1>6, <3>8, OneElement
  <2> QED
    BY <1>0, <2>1, <2>2, <2>3
<1> QED
  BY <1>5, <1>6

\* blockList holds the sleeping threads, each once.
LEMMA BlockedOnce == Inv => BlockListExact
<1> SUFFICES ASSUME Inv, NEW t \in Threads, pc[t] # "none"
             PROVE  Cardinality(Places(blockList, t)) = IF status[t] = "BLOCKED" THEN 1 ELSE 0
  BY DEF BlockListExact
<1>1. /\ blockList \in Seq(Threads) /\ Distinct(blockList)
      /\ t \in Elements(blockList) <=> status[t] = "BLOCKED"
  BY DEF Inv, TypeOK, BlockListHolds
<1>2. CASE status[t] = "BLOCKED"
  <2>1. PICK k : Places(blockList, t) = {k}
    BY <1>1, <1>2, OnePlaceInList
  <2> QED
    BY <1>2, <2>1, OneElement
<1>3. CASE status[t] # "BLOCKED"
  <2>1. Places(blockList, t) = {}
    BY <1>1, <1>3, OnePlaceInList
  <2> QED
    BY <1>3, <2>1, NoElements
<1> QED
  BY <1>2, <1>3

\* The variables have their types, for every typeno.
THEOREM SchedulerTypeOK == Spec => []TypeOK
<1>1. Inv => TypeOK
  BY DEF Inv
<1> QED
  BY <1>1, SchedulerInvariant, PTL

\* A thread that ReadyToRun made ready is on the ready lists exactly once
\* until FindNextToRun returns it.
THEOREM ReadyThreadsAreListed == Spec => []ReadyExactlyOnce
  BY ReadyOnce, SchedulerInvariant, PTL

\* blockAThread never finds the thread on blockList already, and a thread
\* that is awake is not there.
THEOREM BlockListIsExact == Spec => []BlockListExact
  BY BlockedOnce, SchedulerInvariant, PTL

\* The assertion on toBeDestroyed in Run holds, and ~Thread frees no thread
\* that can still run.
THEOREM CarcassIsFreed == Spec => []CarcassFreedNext
<1>1. Inv => CarcassFreedNext
  BY DEF Inv
<1> QED
  BY <1>1, SchedulerInvariant, PTL

\* threadArray and threadID agree through reuse of slots and addresses.
THEOREM SlotsAgree == Spec => []SlotTable
<1>1. Inv => SlotTable
  BY DEF Inv
<1> QED
  BY <1>1, SchedulerInvariant, PTL

\* The end of a slice is acted upon before the thread goes on.
THEOREM YieldsArePrompt == Spec => []YieldIsPrompt
<1>1. Inv => YieldIsPrompt
  BY DEF Inv
<1> QED
  BY <1>1, SchedulerInvariant, PTL

\* The lists of the policies are in their order.
THEOREM QueuesAreDisciplined == Spec => []QueueDiscipline
<1>1. Inv => QueueDiscipline
  BY DEF Inv
<1> QED
  BY <1>1, SchedulerInvariant, PTL

(***************************************************************************)
(* The refinement of Dispatcher.  In every state blocked is waiting, so    *)
(* that a step is described by what it does to the processor, to the ready *)
(* threads and to waiting.                                                 *)
(***************************************************************************)

Processor == IF Sleeping THEN NULL ELSE currentThread

\* What the refinement mapping takes from the invariant.
LEMMA Mapping ==
    ASSUME Inv
    PROVE  /\ waiting = {t \in Threads : status[t] = "BLOCKED" /\ ~Finished(t)}
           /\ Processor = IF status[currentThread] = "RUNNING" THEN currentThread ELSE NULL
           /\ currentThread \in Threads /\ NULL \notin Threads
           /\ status \in [Threads -> Statuses]
  BY SchedulerAssumption DEF Inv, WaitingExact, Processor, StatusAndPlace, Sleeping, RunningPCs, TypeOK, PCs

\* The same in the next state.
LEMMA MappingNext ==
    ASSUME Inv'
    PROVE  /\ waiting' = {t \in Threads : status'[t] = "BLOCKED" /\ ~Finished(t)'}
           /\ Processor' = IF status'[currentThread'] = "RUNNING" THEN currentThread' ELSE NULL
           /\ currentThread' \in Threads
  BY SchedulerAssumption DEF Inv, WaitingExact, Processor, StatusAndPlace, Sleeping, RunningPCs, TypeOK, PCs

\* A step that leaves the current thread, the statuses and waiting alone is
\* invisible to the dispatcher.
LEMMA Stutters ==
    ASSUME Inv, Inv', UNCHANGED <<currentThread, status, waiting>>
    PROVE  UNCHANGED D!dispatcherVars
<1>1. Processor' = Processor
  BY Mapping, MappingNext
<1> QED
  BY <1>1, Mapping, MappingNext DEF D!dispatcherVars, Processor

\* The effect of ReadyToRun on the ready threads.
LEMMA BecomesReady ==
    ASSUME Inv, NEW t \in Threads, ReadyToRun(t)
    PROVE  ReadyThreads' = ReadyThreads \cup {t}
  BY Mapping DEF ReadyToRun, ReadyThreads

\* V from a handler or from a thread is Wake.
LEMMA Wakes ==
    ASSUME Inv, Inv', NEW t \in Threads, t \in waiting, waiting' = waiting \ {t}, ReadyToRun(t),
           UNCHANGED currentThread
    PROVE  D!Wake(t)
<1>1. status[t] = "BLOCKED" /\ status' = [status EXCEPT ![t] = "READY"]
  BY Mapping DEF ReadyToRun
<1>2. Processor' = Processor
  BY <1>1, Mapping, MappingNext
<1> QED
  BY <1>2, Mapping, MappingNext, BecomesReady DEF D!Wake, Processor, ReadyThreads

\* Fork is Fork.
LEMMA Forks ==
    ASSUME Inv, Inv', NEW t \in Threads, Fork(t)
    PROVE  D!Fork(t)
<1>1. /\ status[t] = "JUST_CREATED" /\ status' = [status EXCEPT ![t] = "READY"]
      /\ pc[currentThread] = "run" /\ UNCHANGED <<currentThread, waiting>> /\ ReadyToRun(t)
  BY DEF Fork, ReadyToRun, Running
<1>2. status[currentThread] = "RUNNING"
  BY <1>1 DEF Inv, StatusAndPlace, RunningPCs
<1>3. Processor' = Processor /\ Processor = currentThread /\ t # currentThread
  BY <1>1, <1>2, Mapping, MappingNext
<1>4. t \notin waiting /\ t \notin ReadyThreads
  BY <1>1, Mapping DEF ReadyThreads
<1>5. waiting' = waiting /\ ReadyThreads' = ReadyThreads \cup {t}
  BY <1>1, BecomesReady
<1>6. Processor # NULL
  BY <1>3, Mapping
<1> QED
  BY <1>3, <1>4, <1>5, <1>6, Mapping, MappingNext DEF D!Fork, D!Forked, Processor, ReadyThreads

\* Yield hands the processor to a ready thread or does nothing.
LEMMA Yields ==
    ASSUME Inv, Inv', Yield, pc[currentThread] \in RunningPCs
    PROVE  UNCHANGED D!dispatcherVars \/ \E n \in Threads : D!YieldTo(n)
<1>1. CASE isReadyListEmpty(rl)
  <2>1. UNCHANGED <<currentThread, status, waiting>>
    BY <1>1 DEF Yield
  <2> QED
    BY <2>1, Stutters
<1>2. CASE ~isReadyListEmpty(rl)
  <2> DEFINE c == currentThread
             n == getReadyListFront(rl)
  <2>1. /\ status' = [status EXCEPT ![c] = "READY", ![n] = "RUNNING"]
        /\ c' = n /\ waiting' = waiting
    BY <1>2 DEF Yield, SwitchTo
  <2>2. n \in Threads /\ status[n] = "READY"
    BY <1>2, NextToRun
  <2> HIDE DEF n
  <2>3. status[c] = "RUNNING"
    BY DEF Inv, StatusAndPlace
  <2>4. /\ status'[c] = "READY" /\ status'[n] = "RUNNING" /\ n # c
        /\ \A t \in Threads : t # c /\ t # n => status'[t] = status[t]
    BY <2>1, <2>2, <2>3, Mapping
  <2>5. ReadyThreads' = (ReadyThreads \ {n}) \cup {c} /\ n \in ReadyThreads
    BY <2>2, <2>3, <2>4, Mapping DEF ReadyThreads
  <2>6. Processor = c /\ Processor' = n /\ Processor # NULL
    BY <2>1, <2>3, <2>4, Mapping, MappingNext
  <2>7. PICK m \in Threads : m = n
    BY <2>2
  <2>8. D!YieldTo(m)
    BY <2>1, <2>5, <2>6, <2>7, Mapping, MappingNext DEF D!YieldTo, Processor, ReadyThreads
  <2> QED
    BY <2>8
<1> QED
  BY <1>1, <1>2

\* Sleep that finds a thread to run is Dispatch.
LEMMA Dispatches ==
    ASSUME Inv, Inv', LeaveSleep
    PROVE  \E n \in Threads : D!Dispatch(n)
<1> DEFINE c == currentThread
           n == getReadyListFront(rl)
<1>1. /\ status' = [status EXCEPT ![n] = "RUNNING"] /\ c' = n /\ waiting' = waiting
      /\ ~isReadyListEmpty(rl) /\ Sleeping
  BY DEF LeaveSleep, SwitchTo
<1>2. n \in Threads /\ status[n] = "READY"
  BY <1>1, NextToRun
<1> HIDE DEF n
<1>3. ReadyThreads' = ReadyThreads \ {n} /\ n \in ReadyThreads
  BY <1>1, <1>2, Mapping DEF ReadyThreads
<1>4. Processor = NULL /\ Processor' = n
  BY <1>1, <1>2, Mapping, MappingNext DEF Processor
<1>5. PICK m \in Threads : m = n
  BY <1>2
<1>6. D!Dispatch(m)
  BY <1>1, <1>3, <1>4, <1>5, Mapping, MappingNext DEF D!Dispatch, Processor, ReadyThreads
<1> QED
  BY <1>6

\* Sleep, of a thread that waits or that finishes.
LEMMA Sleeps ==
    ASSUME Inv, Inv', NEW at, EnterSleep(at), pc[currentThread] \in RunningPCs
    PROVE  /\ waiting' = waiting \cup {currentThread} => D!Block
           /\ waiting' = waiting => D!Finish
<1> DEFINE c == currentThread
<1>1. status' = [status EXCEPT ![c] = "BLOCKED"] /\ c' = c
  BY DEF EnterSleep
<1>2. status[c] = "RUNNING"
  BY DEF Inv, StatusAndPlace
<1>3. ReadyThreads' = ReadyThreads
  BY <1>1, <1>2, Mapping DEF ReadyThreads
<1>4. Processor = c /\ Processor # NULL /\ Processor' = NULL
  BY <1>1, <1>2, Mapping, MappingNext
<1>5. waiting' = waiting \cup {c} => D!Block
  BY <1>3, <1>4, Mapping, MappingNext DEF D!Block, Processor, ReadyThreads
<1>6. waiting' = waiting => D!Finish
  BY <1>3, <1>4, Mapping, MappingNext DEF D!Finish, Processor, ReadyThreads
<1> QED
  BY <1>5, <1>6

\* Steps that free or make an object, which the dispatcher does not know.
LEMMA ObjectsStutter ==
    ASSUME Inv, Inv', UNCHANGED <<currentThread, waiting>>,
           \A t \in Threads : status'[t] = status[t]
                                \/ (status[t] \notin {"READY", "RUNNING"} /\ status'[t] \notin {"READY", "RUNNING"})
    PROVE  UNCHANGED D!dispatcherVars
<1>1. ReadyThreads' = ReadyThreads
  BY DEF ReadyThreads
<1>2. Processor' = Processor
  BY Mapping, MappingNext
<1> QED
  BY <1>1, <1>2, Mapping, MappingNext DEF D!dispatcherVars, Processor, ReadyThreads

\* Every step of the thread system is a step of the dispatcher or leaves it
\* alone.
LEMMA StepRefines == Inv /\ Inv' /\ [Next]_vars => [D!DispatcherNext]_(D!dispatcherVars)
<1> SUFFICES ASSUME Inv, Inv', [Next]_vars, ~UNCHANGED D!dispatcherVars
             PROVE  D!DispatcherNext
  OBVIOUS
<1> USE DEF D!DispatcherNext
<1>0. Step
  <2>1. CASE UNCHANGED vars
    BY <2>1, Stutters DEF vars
  <2> QED
    BY <2>1 DEF Next
<1>1. CASE LeaveSleep
  BY <1>1, Dispatches
<1>2. CASE Resume
  <2>1. UNCHANGED <<currentThread, waiting>>
    BY <1>2 DEF Resume
  <2>2. toBeDestroyed # NULL => toBeDestroyed \in Threads /\ status[toBeDestroyed] = "BLOCKED"
    BY DEF Inv, TypeOK, CarcassFreedNext, CarcassBlocked
  <2>3. \A t \in Threads : status'[t] = status[t] \/ (status[t] = "BLOCKED" /\ status'[t] = "FREE")
    BY <1>2, <2>2, Mapping DEF Resume, CheckToBeDestroyed
  <2> QED
    BY <2>1, <2>3, ObjectsStutter
<1>3. CASE TimerInterrupt \/ IdleTimerInterrupt \/ ReturnFromP \/ CriticalSection
  BY <1>3, Stutters DEF TimerInterrupt, IdleTimerInterrupt, ReturnFromP, CriticalSection
<1>4. CASE EndTick
  <2>1. CASE yieldOnReturn
    BY <1>4, <2>1, Yields DEF EndTick, RunningPCs
  <2>2. CASE ~yieldOnReturn
    BY <1>4, <2>2, Stutters DEF EndTick
  <2> QED
    BY <2>1, <2>2
<1>5. CASE ForkTest
  <2>1. CASE Yield
    BY <1>5, <2>1, Yields DEF ForkTest, RunningPCs
  <2>2. CASE ~Yield
    BY <1>5, <2>2, Stutters DEF ForkTest
  <2> QED
    BY <2>1, <2>2
<1>6. CASE CallYield
  BY <1>6, Yields DEF CallYield, Running, RunningPCs
<1>7. CASE WaitOnSemaphore
  BY <1>7, Sleeps DEF WaitOnSemaphore, Running, RunningPCs
<1>8. CASE Finish
  BY <1>8, Sleeps DEF Finish, Running, RunningPCs
<1>9. ASSUME NEW t \in Threads, DeviceInterrupt(t) PROVE D!DispatcherNext
  <2>1. D!Wake(t)
    BY <1>9, Wakes DEF DeviceInterrupt
  <2> QED
    BY <2>1
<1>10. ASSUME NEW t \in Threads, WakeThread(t) PROVE D!DispatcherNext
  <2>1. D!Wake(t)
    BY <1>10, Wakes DEF WakeThread
  <2> QED
    BY <2>1
<1>11. ASSUME NEW t \in Threads, Fork(t) PROVE D!DispatcherNext
  <2>1. D!Fork(t)
    BY <1>11, Forks
  <2> QED
    BY <2>1
<1>12. ASSUME NEW t \in Threads, NEW p \in Priorities, NewThread(t, p)
       PROVE  D!DispatcherNext
  <2>1. UNCHANGED <<currentThread, waiting>> /\ status[t] = "FREE"
    BY <1>12 DEF NewThread
  <2>2. status' = status \/ status' = [status EXCEPT ![t] = "JUST_CREATED"]
    BY <1>12 DEF NewThread
  <2>3. \A u \in Threads : status'[u] = status[u] \/ (status[u] = "FREE" /\ status'[u] = "JUST_CREATED")
    BY <2>1, <2>2, Mapping
  <2> QED
    BY <2>1, <2>3, ObjectsStutter
<1> QED
  BY <1>0, <1>1, <1>2, <1>3, <1>4, <1>5, <1>6, <1>7, <1>8, <1>9, <1>10, <1>11, <1>12 DEF Step

\* The thread system implements the dispatcher on which the synchronisation
\* modules are built, under each of its four policies.
THEOREM SchedulerImplementsDispatcher == Spec => ImplementsDispatcher
<1>1. Init => D!DispatcherInit
  BY SchedulerAssumption DEF Init, D!DispatcherInit, Sleeping, Finished
<1> QED
  BY <1>1, StepRefines, SchedulerInvariant, PTL DEF Spec, ImplementsDispatcher, D!DispatcherSpec
=============================================================================
