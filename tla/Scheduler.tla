----------------------------- MODULE Scheduler -----------------------------
(***************************************************************************)
(* The thread system: class Thread (threads/thread.cc), class Scheduler    *)
(* with its four policies (threads/scheduler.cc), the time-slicing handler *)
(* (threads/alarm.cc) and the part of machine/interrupt.cc that decides    *)
(* when a thread can lose the processor.                                   *)
(*                                                                         *)
(* typeno selects the policy, as in threads/main.cc:64-70:                 *)
(*   0 FIFO, 1 preemptive priority, 2 round robin, 3 feedback queues.      *)
(*                                                                         *)
(* pc[t] says where thread t is:                                           *)
(*   "none"   no stack yet (or no object)                                  *)
(*   "begin"  forked, will start in ThreadRoot -> Thread::Begin            *)
(*   "run"    executing its own code, interrupts enabled                   *)
(*   "fork"   in Fork after SetLevel, before the typeno 1 test (line 116)  *)
(*   "tick"   in Interrupt::OneTick, called by SetLevel                    *)
(*   "ticked" in OneTick, the timer interrupt has been handled             *)
(*   "yield"  switched out by Run, called by Yield                         *)
(*   "loop"   in Sleep(FALSE), looking for a thread to run                 *)
(*   "idle"   the same, in or back from Interrupt::Idle                    *)
(*   "sleep"  switched out by Run, called by Sleep(FALSE)                  *)
(*   "woken"  returned from Sleep into Semaphore::P, interrupts off        *)
(*   "exit"   in Sleep(TRUE), looking for a thread to run                  *)
(*   "exitidle" the same, in or back from Interrupt::Idle                  *)
(*   "dead"   switched out by Run(_, TRUE)                                 *)
(***************************************************************************)
EXTENDS Integers, Sequences, FiniteSets, FiniteSetsExt

CONSTANTS
    Threads,            \* addresses at which Thread objects may live
    Main,               \* the main thread
    NULL,
    Policies,           \* the values of typeno considered
    MaxThreadNum,       \* entries of kernel->threadArray
    timeSlice,          \* round robin's slice, in timer interrupts
    QueueNum,           \* number of feedback queues
    threadArrTimeSlice, \* slice of each feedback queue
    Priorities,         \* values given to a new thread's priority (typeno 1)
    MainPriority,       \* the constructor's default priority (typeno 1)
    Uninitialized       \* values timeSliceRemain may hold before it is set

ASSUME SchedulerAssumption ==
    /\ Main \in Threads
    /\ NULL \notin Threads
    /\ Policies \subseteq 0..3
    /\ MaxThreadNum \in Nat \ {0}
    /\ timeSlice \in Nat \ {0}
    /\ QueueNum \in Nat \ {0}
    /\ threadArrTimeSlice \in [0..QueueNum - 1 -> Nat \ {0}]
    /\ Priorities \subseteq Int
    /\ MainPriority \in Priorities
    /\ Uninitialized \subseteq Int

\* What SortedList::Insert and List::Remove do to the contents of a list:
\* e is put at a place, or is taken from the first one where it is.
InsertAt(s, k, e) == SubSeq(s, 1, k - 1) \o <<e>> \o SubSeq(s, k, Len(s))
RemoveAt(s, k) == SubSeq(s, 1, k - 1) \o SubSeq(s, k + 1, Len(s))
RemoveFirst(s, e) ==
    LET places == {k \in 1..Len(s) : s[k] = e}
    IN  IF places = {} THEN s ELSE RemoveAt(s, Min(places))

VARIABLES
    typeno,             \* scheduling policy, set on the command line
    currentThread,      \* kernel->currentThread
    threadArray,        \* kernel->threadArray
    threadID,           \* Thread::threadID, the thread's index there
    status,             \* Thread::status, "FREE" where no object lives
    priority,           \* Thread::priority
    timeSliceRemain,    \* Thread::timeSliceRemain
    pc,                 \* see above
    inFork,             \* threads inside Fork, past its SetLevel (typeno 1)
    rl,                 \* readyList, sortedReadyList and threadArrQueue
    blockList,          \* Scheduler::blockList
    toBeDestroyed,      \* Scheduler::toBeDestroyed
    yieldOnReturn,      \* Interrupt::yieldOnReturn
    waiting,            \* threads on the queue of some semaphore
    fault               \* an assertion failed or NULL was dereferenced

vars == <<typeno, currentThread, threadArray, threadID, status, priority,
          timeSliceRemain, pc, inFork, rl, blockList, toBeDestroyed, yieldOnReturn, waiting, fault>>

Slots == 0..MaxThreadNum - 1
Levels == 0..QueueNum - 1
Statuses == {"FREE", "JUST_CREATED", "RUNNING", "READY", "BLOCKED"}
PCs == {"none", "begin", "run", "fork", "tick", "ticked", "yield", "loop",
        "idle", "sleep", "woken", "exit", "exitidle", "dead"}
Faults == {"none", "no free slot", "NULL front"}

TypeOK ==
    /\ typeno \in 0..3
    /\ currentThread \in Threads
    /\ threadArray \in [Slots -> Threads \cup {NULL}]
    /\ threadID \in [Threads -> Slots]
    /\ status \in [Threads -> Statuses]
    /\ priority \in [Threads -> Int]
    /\ timeSliceRemain \in [Threads -> Int]
    /\ pc \in [Threads -> PCs]
    /\ inFork \subseteq Threads
    /\ rl \in [readyList : Seq(Threads), sortedReadyList : Seq(Threads),
               threadArrQueue : [Levels -> Seq(Threads)]]
    /\ blockList \in Seq(Threads)
    /\ toBeDestroyed \in Threads \cup {NULL}
    /\ yieldOnReturn \in BOOLEAN
    /\ waiting \subseteq Threads
    /\ fault \in Faults

\* The constructor gives timeSliceRemain a value only for typeno 1, and
\* the main thread never passes through ReadyToRun before its first tick:
\* for the other policies its slice starts as whatever the memory holds.
Init ==
    /\ typeno \in Policies
    /\ currentThread = Main
    /\ threadArray = [i \in Slots |-> IF i = 0 THEN Main ELSE NULL]
    /\ threadID = [t \in Threads |-> 0]
    /\ status = [t \in Threads |-> IF t = Main THEN "RUNNING" ELSE "FREE"]
    /\ priority = [t \in Threads |->
                     IF t # Main THEN 0
                     ELSE CASE typeno = 1 -> MainPriority
                            [] typeno = 3 -> -1
                            [] OTHER -> 0]
    /\ \E r \in IF typeno = 1 THEN {timeSlice} ELSE Uninitialized :
          timeSliceRemain = [t \in Threads |-> IF t = Main THEN r ELSE 0]
    /\ pc = [t \in Threads |-> IF t = Main THEN "run" ELSE "none"]
    /\ inFork = {}
    /\ rl = [readyList |-> <<>>, sortedReadyList |-> <<>>,
             threadArrQueue |-> [i \in Levels |-> <<>>]]
    /\ blockList = <<>>
    /\ toBeDestroyed = NULL
    /\ yieldOnReturn = FALSE
    /\ waiting = {}
    /\ fault = "none"
-----------------------------------------------------------------------------
(***************************************************************************)
(* The ready lists.                                                        *)
(***************************************************************************)
\* The feedback queues that hold a thread.
NonEmptyLevels(r) == {i \in Levels : r.threadArrQueue[i] # <<>>}

\* Scheduler::isReadyListEmpty.
isReadyListEmpty(r) ==
    CASE typeno \in {0, 2} -> r.readyList = <<>>
      [] typeno = 1 -> r.sortedReadyList = <<>>
      [] OTHER -> NonEmptyLevels(r) = {}

\* Scheduler::getReadyListFront, and the thread FindNextToRun returns.
getReadyListFront(r) ==
    IF isReadyListEmpty(r) THEN NULL
    ELSE CASE typeno \in {0, 2} -> Head(r.readyList)
           [] typeno = 1 -> Head(r.sortedReadyList)
           [] OTHER -> Head(r.threadArrQueue[Min(NonEmptyLevels(r))])

\* Mutant: Front in place of RemoveFront.
RemoveNextKeeps(r) == r

\* The ready lists after FindNextToRun returned a thread.
RemoveNext(r) ==
    CASE typeno \in {0, 2} -> [r EXCEPT !.readyList = Tail(@)]
      [] typeno = 1 -> [r EXCEPT !.sortedReadyList = Tail(@)]
      [] OTHER -> [r EXCEPT !.threadArrQueue[Min(NonEmptyLevels(r))] = Tail(@)]

\* Mutant: cmp with its arguments swapped.
InsertSortedReversed(s, t) ==
    LET smaller == {i \in 1..Len(s) : priority[s[i]] < priority[t]}
        place == IF smaller = {} THEN Len(s) + 1 ELSE Min(smaller)
    IN  InsertAt(s, place, t)

\* SortedList<Thread*>::Insert with cmp: before the first thread of a larger
\* priority number, hence after those of the same number.
InsertSorted(s, t) ==
    LET larger == {i \in 1..Len(s) : priority[s[i]] > priority[t]}
        place == IF larger = {} THEN Len(s) + 1 ELSE Min(larger)
    IN  InsertAt(s, place, t)

\* ReadyToRun moves a thread one feedback queue down, to the last at most.
QueueOf(t) == IF priority[t] # QueueNum - 1 THEN priority[t] + 1 ELSE priority[t]

\* The ready lists r after ReadyToRun(t).
Enqueue(r, t) ==
    CASE typeno \in {0, 2} -> [r EXCEPT !.readyList = Append(@, t)]
      [] typeno = 1 -> [r EXCEPT !.sortedReadyList = InsertSorted(@, t)]
      [] OTHER -> [r EXCEPT !.threadArrQueue[QueueOf(t)] = Append(@, t)]

\* The thread fields ReadyToRun(t) sets, other than status.
SetSlice(t) ==
    /\ priority' = IF typeno = 3 THEN [priority EXCEPT ![t] = QueueOf(t)]
                   ELSE priority
    /\ timeSliceRemain' =
          CASE typeno = 2 -> [timeSliceRemain EXCEPT ![t] = timeSlice]
            [] typeno = 3 -> [timeSliceRemain EXCEPT
                                ![t] = threadArrTimeSlice[QueueOf(t)]]
            [] OTHER -> timeSliceRemain

\* Mutant: a thread made ready stays on blockList.
ReadyToRunStaysBlocked(t) ==
    /\ UNCHANGED blockList
    /\ status' = [status EXCEPT ![t] = "READY"]
    /\ SetSlice(t)
    /\ rl' = Enqueue(rl, t)

\* Scheduler::ReadyToRun(t), for a thread that is not the running one.
ReadyToRun(t) ==
    /\ blockList' = RemoveFirst(blockList, t)
    /\ status' = [status EXCEPT ![t] = "READY"]
    /\ SetSlice(t)
    /\ rl' = Enqueue(rl, t)
-----------------------------------------------------------------------------
(***************************************************************************)
(* Switching.                                                              *)
(***************************************************************************)
\* Scheduler::Run(n, ...) up to SWITCH: the old thread is left at label at.
SwitchTo(n, at) ==
    /\ currentThread' = n
    /\ pc' = [pc EXCEPT ![currentThread] = at]

\* Thread::Yield of the running thread.  With no ready thread it only sets
\* the interrupt level back, which is a tick.
Yield ==
    /\ IF isReadyListEmpty(rl)
       THEN /\ pc' = [pc EXCEPT ![currentThread] = "tick"]
            /\ UNCHANGED <<currentThread, status, priority, timeSliceRemain,
                           rl, blockList>>
       ELSE LET n == getReadyListFront(rl) IN
            /\ blockList' = RemoveFirst(blockList, currentThread)
            /\ SetSlice(currentThread)
            /\ rl' = Enqueue(RemoveNext(rl), currentThread)
            /\ status' = [status EXCEPT ![currentThread] = "READY",
                                        ![n] = "RUNNING"]
            /\ SwitchTo(n, "yield")
    /\ UNCHANGED <<threadArray, threadID, toBeDestroyed, waiting, fault>>

\* Thread::Sleep up to its loop: blockAThread.
EnterSleep(at) ==
    /\ status' = [status EXCEPT ![currentThread] = "BLOCKED"]
    /\ blockList' = Append(blockList, currentThread)
    /\ pc' = [pc EXCEPT ![currentThread] = at]
    /\ UNCHANGED <<currentThread, threadArray, threadID, priority,
                   timeSliceRemain, inFork, rl, toBeDestroyed, yieldOnReturn, fault>>

Sleeping == pc[currentThread] \in {"loop", "idle", "exit", "exitidle"}
Finished(t) == pc[t] \in {"exit", "exitidle", "dead"}

\* The end of Sleep's loop and Run(n, finishing).
LeaveSleep ==
    /\ Sleeping
    /\ ~isReadyListEmpty(rl)
    /\ LET n == getReadyListFront(rl)
           finishing == Finished(currentThread)
       IN  /\ toBeDestroyed' = IF finishing THEN currentThread
                                            ELSE toBeDestroyed
           /\ status' = [status EXCEPT ![n] = "RUNNING"]
           /\ SwitchTo(n, IF finishing THEN "dead" ELSE "sleep")
    /\ rl' = RemoveNext(rl)
    /\ UNCHANGED <<threadArray, threadID, priority, timeSliceRemain, inFork,
                   blockList, yieldOnReturn, waiting, fault>>

\* Mutant: Thread::Begin without CheckToBeDestroyed.
CheckToBeDestroyedNotInBegin ==
    LET t == toBeDestroyed IN
    IF t = NULL \/ pc[currentThread] = "begin"
    THEN UNCHANGED <<threadArray, status, priority, timeSliceRemain,
                     toBeDestroyed>>
    ELSE /\ threadArray' = [threadArray EXCEPT ![threadID[t]] = NULL]
         /\ toBeDestroyed' = NULL
         /\ status' = [status EXCEPT ![t] = "FREE"]
         /\ priority' = [priority EXCEPT ![t] = 0]
         /\ timeSliceRemain' = [timeSliceRemain EXCEPT ![t] = 0]

\* Mutant: ~Thread without removeAThread.
CheckToBeDestroyedKeepsSlot ==
    /\ toBeDestroyed' = NULL
    /\ UNCHANGED threadArray
    /\ LET t == toBeDestroyed IN
       IF t = NULL
       THEN UNCHANGED <<status, priority, timeSliceRemain>>
       ELSE /\ status' = [status EXCEPT ![t] = "FREE"]
            /\ priority' = [priority EXCEPT ![t] = 0]
            /\ timeSliceRemain' = [timeSliceRemain EXCEPT ![t] = 0]

\* Scheduler::CheckToBeDestroyed: ~Thread frees the object and its slot.
CheckToBeDestroyed ==
    /\ toBeDestroyed' = NULL
    /\ LET t == toBeDestroyed IN
       IF t = NULL
       THEN UNCHANGED <<threadArray, status, priority, timeSliceRemain>>
       ELSE /\ threadArray' = [threadArray EXCEPT ![threadID[t]] = NULL]
            /\ status' = [status EXCEPT ![t] = "FREE"]
            /\ priority' = [priority EXCEPT ![t] = 0]
            /\ timeSliceRemain' = [timeSliceRemain EXCEPT ![t] = 0]

\* The thread SWITCH switched to: Thread::Begin, or the rest of Run and
\* Yield, both up to enabling interrupts; or the rest of Run and Sleep, back
\* into Semaphore::P with interrupts still off.
Resume ==
    /\ pc[currentThread] \in {"begin", "yield", "sleep"}
    /\ CheckToBeDestroyed
    /\ pc' = [t \in Threads |->
                CASE t = currentThread /\ pc[t] = "sleep" -> "woken"
                  [] t = currentThread /\ pc[t] # "sleep" -> "tick"
                  [] t = toBeDestroyed -> "none"
                  [] OTHER -> pc[t]]
    /\ UNCHANGED <<currentThread, threadID, inFork, rl, blockList,
                   yieldOnReturn, waiting, fault>>
-----------------------------------------------------------------------------
(***************************************************************************)
(* Interrupts.                                                             *)
(***************************************************************************)
\* timeSliceRemain goes down at every timer interrupt; all values <= 0 have
\* the same effect, so the model stops at SliceFloor.
SliceFloor == 0

\* Mutant: the slice ends also in IdleMode, as it does for typeno 1.
AlarmCallBackIdle(idle) ==
    LET left == timeSliceRemain[currentThread] - 1 IN
    /\ timeSliceRemain' = [timeSliceRemain EXCEPT
                             ![currentThread] = IF left < SliceFloor
                                                THEN SliceFloor ELSE left]
    /\ yieldOnReturn' = (yieldOnReturn \/ typeno = 1 \/ (typeno \in {2, 3} /\ left <= 0))

\* Mutant: equality, which a slice that starts at or below 0 never meets.
AlarmCallBackExact(idle) ==
    LET left == timeSliceRemain[currentThread] - 1 IN
    /\ timeSliceRemain' = [timeSliceRemain EXCEPT
                             ![currentThread] = IF left < SliceFloor
                                                THEN SliceFloor ELSE left]
    /\ yieldOnReturn' = \/ yieldOnReturn
                        \/ typeno = 1
                        \/ typeno \in {2, 3} /\ ~idle /\ left = 0

\* Alarm::CallBack, with the machine in mode idle or not.
AlarmCallBack(idle) ==
    LET left == timeSliceRemain[currentThread] - 1 IN
    /\ timeSliceRemain' = [timeSliceRemain EXCEPT
                             ![currentThread] = IF left < SliceFloor
                                                THEN SliceFloor ELSE left]
    /\ yieldOnReturn' = \/ yieldOnReturn
                        \/ typeno = 1
                        \/ typeno \in {2, 3} /\ ~idle /\ left <= 0

\* Sleep found no thread and Interrupt::Idle advances the clock to the next
\* interrupt.  CheckIfDue calls the handlers of all that are due by then,
\* also after one of them has made a thread ready.  (The timer is due
\* once in each; the model does not count.)
Idling == Sleeping /\ (isReadyListEmpty(rl) \/ pc[currentThread] \in {"idle", "exitidle"})

EnterIdle == pc' = [pc EXCEPT ![currentThread] =
                      IF Finished(currentThread) THEN "exitidle" ELSE "idle"]

\* A timer interrupt due at this tick.
TimerInterrupt ==
    /\ pc[currentThread] = "tick"
    /\ AlarmCallBack(FALSE)
    /\ pc' = [pc EXCEPT ![currentThread] = "ticked"]
    /\ UNCHANGED <<currentThread, threadArray, threadID, status, priority,
                   inFork, rl, blockList, toBeDestroyed, waiting, fault>>

\* A timer interrupt taken in Interrupt::Idle.
IdleTimerInterrupt ==
    /\ Idling
    /\ AlarmCallBack(TRUE)
    /\ EnterIdle
    /\ UNCHANGED <<currentThread, threadArray, threadID, status, priority,
                   inFork, rl, blockList, toBeDestroyed, waiting, fault>>

\* A device handler calls V on a semaphore on which t waits.
DeviceInterrupt(t) ==
    /\ \/ pc[currentThread] \in {"tick", "ticked"} /\ UNCHANGED pc
       \/ Idling /\ EnterIdle
    /\ t \in waiting
    /\ waiting' = waiting \ {t}
    /\ ReadyToRun(t)
    /\ UNCHANGED <<currentThread, threadArray, threadID, inFork,
                   toBeDestroyed, yieldOnReturn, fault>>

\* The end of OneTick: the context switch a handler asked for.
EndTick ==
    /\ pc[currentThread] \in {"tick", "ticked"}
    /\ yieldOnReturn' = FALSE
    /\ UNCHANGED inFork
    /\ IF yieldOnReturn THEN Yield
       ELSE /\ pc' = [pc EXCEPT ![currentThread] =
                        IF currentThread \in inFork THEN "fork" ELSE "run"]
            /\ UNCHANGED <<currentThread, threadArray, threadID, status,
                           priority, timeSliceRemain, rl, blockList, toBeDestroyed,
                           waiting, fault>>
-----------------------------------------------------------------------------
(***************************************************************************)
(* What the running thread may call.                                       *)
(***************************************************************************)
Running == pc[currentThread] = "run" /\ fault = "none"

\* Mutant: the search for a free slot goes one too far.
FreeSlotsPastEnd == {i \in Slots : threadArray[i] = NULL} \cup {MaxThreadNum}

\* The entries of threadArray that addAThread may take.
FreeSlots == {i \in Slots : threadArray[i] = NULL}

\* new Thread, and setPriority as the callers use it, before Fork.  The
\* object may be placed wherever one was freed.
NewThread(t, p) ==
    /\ Running
    /\ status[t] = "FREE"
    /\ IF FreeSlots = {}
       THEN /\ fault' = "no free slot"
            /\ UNCHANGED <<threadArray, threadID, status, priority,
                           timeSliceRemain>>
       ELSE /\ threadArray' = [threadArray EXCEPT ![Min(FreeSlots)] = t]
            /\ threadID' = [threadID EXCEPT ![t] = Min(FreeSlots)]
            /\ status' = [status EXCEPT ![t] = "JUST_CREATED"]
            /\ priority' = [priority EXCEPT ![t] =
                              CASE typeno = 1 -> p
                                [] typeno = 3 -> -1
                                [] OTHER -> 0]
            /\ timeSliceRemain' = [timeSliceRemain EXCEPT ![t] =
                                     IF typeno = 1 THEN timeSlice ELSE 0]
            /\ UNCHANGED fault
    /\ UNCHANGED <<currentThread, pc, inFork, rl, blockList, toBeDestroyed,
                   yieldOnReturn, waiting>>

\* Thread::Fork up to and including SetLevel.
Fork(t) ==
    /\ Running
    /\ status[t] = "JUST_CREATED"
    /\ ReadyToRun(t)
    /\ pc' = [pc EXCEPT ![t] = "begin", ![currentThread] = "tick"]
    /\ inFork' = IF typeno = 1 THEN inFork \cup {currentThread} ELSE inFork
    /\ UNCHANGED <<currentThread, threadArray, threadID, toBeDestroyed,
                   yieldOnReturn, waiting, fault>>

\* The rest of Fork for typeno 1: getReadyListFront()->getPriority() decides
\* whether the forking thread yields.
ForkTest ==
    /\ pc[currentThread] = "fork"
    /\ fault = "none"
    /\ inFork' = inFork \ {currentThread}
    /\ UNCHANGED yieldOnReturn
    /\ LET front == getReadyListFront(rl)
           Stay == UNCHANGED <<currentThread, threadArray, threadID, status,
                       priority, timeSliceRemain, rl, blockList,
                       toBeDestroyed, waiting>>
       IN  CASE front = NULL ->
                    /\ fault' = "NULL front"
                    /\ UNCHANGED pc
                    /\ Stay
             [] front # NULL /\ priority[front] < priority[currentThread] ->
                    Yield
             [] OTHER ->
                    /\ pc' = [pc EXCEPT ![currentThread] = "run"]
                    /\ UNCHANGED fault
                    /\ Stay

\* A call of Yield.
CallYield == Running /\ Yield /\ UNCHANGED <<inFork, yieldOnReturn>>

\* Semaphore::P finds the value 0, on the first test or after a wake-up.
WaitOnSemaphore ==
    /\ Running \/ pc[currentThread] = "woken"
    /\ waiting' = waiting \cup {currentThread}
    /\ EnterSleep("loop")

\* Semaphore::P takes the value and sets the interrupt level back.
ReturnFromP ==
    /\ pc[currentThread] = "woken"
    /\ pc' = [pc EXCEPT ![currentThread] = "tick"]
    /\ UNCHANGED <<currentThread, threadArray, threadID, status, priority,
                   timeSliceRemain, inFork, rl, blockList, toBeDestroyed,
                   yieldOnReturn, waiting, fault>>

\* Mutant: V makes ready the front of the queue and leaves it there.
WakeThreadStaysQueued(t) ==
    /\ Running
    /\ t \in waiting
    /\ ReadyToRun(t)
    /\ pc' = [pc EXCEPT ![currentThread] = "tick"]
    /\ UNCHANGED <<currentThread, threadArray, threadID, inFork,
                   toBeDestroyed, yieldOnReturn, waiting, fault>>

\* Semaphore::V of the running thread wakes t and sets the level back.
WakeThread(t) ==
    /\ Running
    /\ t \in waiting
    /\ waiting' = waiting \ {t}
    /\ ReadyToRun(t)
    /\ pc' = [pc EXCEPT ![currentThread] = "tick"]
    /\ UNCHANGED <<currentThread, threadArray, threadID, inFork,
                   toBeDestroyed, yieldOnReturn, fault>>

\* SetLevel off and on again around other kernel code.
CriticalSection ==
    /\ Running
    /\ pc' = [pc EXCEPT ![currentThread] = "tick"]
    /\ UNCHANGED <<currentThread, threadArray, threadID, status, priority,
                   timeSliceRemain, inFork, rl, blockList, toBeDestroyed,
                   yieldOnReturn, waiting, fault>>

\* Thread::Finish; the main thread ends the machine instead.
Finish ==
    /\ Running
    /\ currentThread # Main
    /\ UNCHANGED waiting
    /\ EnterSleep("exit")
-----------------------------------------------------------------------------
Step ==
    \/ LeaveSleep
    \/ Resume
    \/ TimerInterrupt
    \/ IdleTimerInterrupt
    \/ EndTick
    \/ ForkTest
    \/ CallYield
    \/ WaitOnSemaphore
    \/ ReturnFromP
    \/ CriticalSection
    \/ Finish
    \/ \E t \in Threads :
          \/ DeviceInterrupt(t)
          \/ Fork(t)
          \/ WakeThread(t)
          \/ \E p \in Priorities : NewThread(t, p)

Next == Step /\ UNCHANGED typeno

Spec == Init /\ [][Next]_vars
-----------------------------------------------------------------------------
(***************************************************************************)
(* Safety.                                                                 *)
(***************************************************************************)
\* Positions of t in a list.
Places(s, t) == {i \in 1..Len(s) : s[i] = t}

\* Positions of t in the ready lists: the feedback queues are lists 0 to
\* QueueNum - 1, readyList is list -1 and sortedReadyList list -2.
ReadyPlaces(t) ==
    ({-1} \X Places(rl.readyList, t)) \cup ({-2} \X Places(rl.sortedReadyList, t))
        \cup UNION {{i} \X Places(rl.threadArrQueue[i], t) : i \in Levels}

Live(t) == status[t] # "FREE"

\* The ready lists hold exactly the READY threads, each once, so a thread
\* made ready is neither lost nor dispatched twice (ReadyToRun and
\* FindNextToRun, under every policy).
ReadyExactlyOnce ==
    \A t \in Threads :
        Cardinality(ReadyPlaces(t)) = IF status[t] = "READY" THEN 1 ELSE 0

\* blockList holds the sleeping threads, each once, and no other forked one:
\* List::Append's assertion holds in blockAThread.  A finished thread stays
\* there after it is freed, and it is ReadyToRun, when a new thread at the
\* same address is forked, that takes the stale entry off.
BlockListExact ==
    \A t \in Threads :
        pc[t] # "none" => Cardinality(Places(blockList, t))
                     = IF status[t] = "BLOCKED" THEN 1 ELSE 0

\* A finished thread is freed by the next thread that runs, before anything
\* else: the assertion toBeDestroyed == NULL of Run (line 185) holds when a
\* second thread finishes, and ~Thread never frees the current thread.
CarcassFreedNext ==
    /\ toBeDestroyed # NULL =>
          /\ pc[currentThread] \in {"begin", "yield", "sleep"}
          /\ toBeDestroyed # currentThread
          /\ pc[toBeDestroyed] = "dead"
    /\ \A t \in Threads : pc[t] = "dead" => t = toBeDestroyed

\* threadArray lists every live thread once, at its threadID: slots freed by
\* ~Thread are reused while other threads keep theirs.
SlotTable ==
    \A i \in Slots, t \in Threads :
        threadArray[i] = t <=> (Live(t) /\ threadID[t] = i)

\* A request to yield is acted upon by the thread that the handler
\* interrupted: none is pending once a thread executes its own code or looks
\* for another thread to run.  Under typeno 1 the handler asks for a yield
\* also in IdleMode (alarm.cc:53), and a later thread pays for it.
YieldIsPrompt ==
    (yieldOnReturn /\ typeno # 1) => pc[currentThread] = "ticked"

\* The policies' queues are in order: sortedReadyList by priority; feedback
\* queue i holds threads of level i with at most that level's slice.  (At
\* most: the timer handler charges currentThread, which may be a thread that
\* sleeps and that a device handler of the same Idle just made ready.)
QueueDiscipline ==
    /\ \A i, j \in 1..Len(rl.sortedReadyList) :
          i < j => priority[rl.sortedReadyList[i]] <= priority[rl.sortedReadyList[j]]
    /\ \A i \in Levels : \A k \in 1..Len(rl.threadArrQueue[i]) :
          LET t == rl.threadArrQueue[i][k] IN
          priority[t] = i /\ timeSliceRemain[t] <= threadArrTimeSlice[i]
-----------------------------------------------------------------------------
(***************************************************************************)
(* What a comment in the code says that the code does not do.              *)
(***************************************************************************)
\* Fork returns to its caller: it does not dereference an empty ready list.
ForkReturns == fault # "NULL front"

-----------------------------------------------------------------------------
(***************************************************************************)
(* Refinement and liveness.                                                *)
(***************************************************************************)
\* The dispatcher the synchronisation routines rely on.
D == INSTANCE Dispatcher WITH
        NoThread <- NULL,
        cur <- IF Sleeping THEN NULL ELSE currentThread,
        ready <- {t \in Threads : status[t] = "READY"},
        blocked <- {t \in Threads : status[t] = "BLOCKED" /\ ~Finished(t)}

ImplementsDispatcher == D!DispatcherSpec

\* The machine keeps going: every step the processor has to take next is
\* taken, and the timer, which reschedules itself (machine/timer.cc:52-60),
\* fires again and again at ticks.
Machine ==
    /\ WF_vars(UNCHANGED typeno /\ LeaveSleep)
    /\ WF_vars(UNCHANGED typeno /\ Resume)
    /\ WF_vars(UNCHANGED typeno /\ EndTick)
    /\ WF_vars(UNCHANGED typeno /\ ForkTest)
    /\ WF_vars(UNCHANGED typeno /\ (ReturnFromP \/ WaitOnSemaphore))
    /\ WF_vars(UNCHANGED typeno /\ (CriticalSection \/ CallYield \/ Finish))
    /\ SF_vars(UNCHANGED typeno /\ TimerInterrupt)

FairSpec == Spec /\ Machine

\* A ready thread is eventually dispatched.
ReadyEventuallyRuns ==
    \A t \in Threads : status[t] = "READY" ~> status[t] = "RUNNING"
=============================================================================
