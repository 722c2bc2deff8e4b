# A verification of MyNachos 4.1 in TLA+

Nachos is an instructional operating system kernel that runs on a simulated
machine. This project models the kernel of this repository and the machine under
it (`src/code`) in TLA+, checks the models with TLC on small instances, and proves
properties of the thread system, the context switch, the synchronisation core with its
tests and the devices for every instance with TLAPS.

## The system

| Part | State | Operations | Talks to |
|---|---|---|---|
| Threads (`threads/thread.cc`) | status, priority, timeSliceRemain, slot in `kernel->threadArray` | constructor, Fork, Begin, Yield, Sleep, Finish, destructor | scheduler, interrupts |
| Context switch (`threads/switch.s`) | registers, stacks, `machineState` | SWITCH, ThreadRoot, StackAllocate | threads |
| Scheduler (`threads/scheduler.cc`) | readyList, sortedReadyList, threadArrQueue, blockList, suspendList, toBeDestroyed | ReadyToRun, FindNextToRun, Run, CheckToBeDestroyed, blockAThread, suspend/restore | threads |
| Interrupts, timer, alarm (`machine/interrupt.cc`, `machine/timer.cc`, `threads/alarm.cc`) | level, pending list, yieldOnReturn, status, clock | SetLevel, OneTick, CheckIfDue, Idle, Schedule, CallBack | every device, scheduler |
| Semaphore, Lock, Condition, Barrier (`threads/synch.cc`) | value and queue; lockHolder; waitQueue, barrierNum | P, V; Acquire, Release; Wait, Signal, Broadcast, Barrier | scheduler |
| SynchList (`threads/synchlist.cc`) | list, lock, listEmpty | Append, RemoveFront, Apply, RemoveSpecificOne | Lock, Condition, List |
| Tests (`threads/kernel.cc`, `threads/thread.cc`) | their shared variables | producer/consumer 1 and 2, barrier, readers/writers, threads, console, network | all of the above |
| List, SortedList, Bitmap, HashTable (`lib/`) | pointers, counts, bits, buckets | Append, Prepend, Remove, Insert; Mark, FindAndSet; Insert, Find, Remove; SelfTest | everything |
| Disk, SynchDisk | active request, head, track buffer; lock, semaphore | ReadRequest, WriteRequest, CallBack; ReadSector, WriteSector | interrupts, file system |
| Console, SynchConsole | one character in, one out | PutChar, GetChar, CallBack | interrupts |
| Network, PostOffice | one packet in, one out; mailboxes | Send, Receive, PostalDelivery | interrupts, SynchList |
| File system (`filesys/`) | free map, directory, headers on disk; or the host's files | Create, Open, Remove, ReadAt, WriteAt | SynchDisk, or the host |
| Virtual memory (`machine/translate.cc`, `userprog/`) | page tables, reverse page table, TLB, frames | Translate, page fault, replacement, context switch, suspension | MIPS simulator, files |
| MIPS simulator (`machine/mipssim.cc`) | registers, memory | Decode, OneInstruction, DelayedLoad, Mult | virtual memory, system calls |

What is hard here. Nachos is a uniprocessor in one host process: a context
switch happens only inside `Thread::Yield` and `Thread::Sleep`, and involuntarily
only where interrupts go from off to on (`SetLevel` calls `OneTick`, which runs
the handlers that are due and then yields if one asked for it). So every `P`
and `V` ends in a preemption point, *including those inside Lock, Condition and
SynchList*, and code that looks atomic is not: `lockHolder` is assigned after the
preemption point of `Acquire`, `Wait` may lose the processor between releasing
the lock and sleeping, `Fork` looks at the ready list after other threads ran.
Handlers call `V` too, from any tick and from the idle loop, where the current
thread is one that sleeps. Finished threads are freed by whoever runs next, and
their addresses reused. Devices poll and keep one item each way. The file system
writes header, directory and free map in separate sectors. A user instruction
that faults is started again, with a load of the one before it still under way.
The properties below are about these cases.

## Modules

`A <= B` reads "B is shown to implement A", `A -> B` "A is built on B". Each `MC*`
module instantiates the module of its name for TLC.

```
Dispatcher <= Scheduler                                thread.cc, scheduler.cc, alarm.cc
Semaphore -> Dispatcher                                synch.cc
MesaMonitor <= Monitor -> Semaphore                    synch.cc
SynchList -> Monitor                                   synchlist.cc
ItemList <= LinkedList                                 list.cc
ItemTable <= HashTable, Bitmap                         hash.cc, bitmap.cc, pbitmap.cc
ContextSwitch                                          switch.s
Components -> ContextSwitch, Monitor, SynchList, LinkedList, HashTable, Bitmap
SyncTest -> TestThreads, ProducerConsumer1, ProducerConsumer2, Barrier, ReaderWriter
Devices -> SynchDisk, ConsoleTest, NetworkTest -> Interrupt
Files -> FileSystem, HostFile
UserPrograms -> VirtualMemory, MIPS; MIPSManual
SchedulerProofs -> SchedulerLemmas;  DeviceProofs -> DeviceLemmas
SyncTestProofs -> TestProofs;  SynchProofs;  ContextSwitchProofs
```

Components, SyncTest, Devices, Files and UserPrograms put several machines beside
each other: a variable of the initial state says which one a behaviour is about,
and the variables of the others are empty. The specifications that interact are
composed for real: the tests with main and the dispatcher, each device with the
pending list, the clock and the threads that use it, the commands with the
directory, the free map, the open files and the disk.

**Threads.** *Dispatcher* is the abstract processor: the thread that holds it, the
ready ones and the blocked ones, and no policy. *Scheduler* is the thread system in
full: the status, slot, priority and slice of every thread, the ready lists of the
four policies (`typeno` 0 FIFO, 1 priority, 2 round robin, 3 feedback queues),
`blockList`, `toBeDestroyed`, `yieldOnReturn`. `pc` says where in `Fork`, `Yield`,
`Sleep`, `OneTick`, `Idle` or its own code each thread is; handlers run at ticks and
in `Idle`. Semaphores are abstracted to the threads that wait on one. `Main`'s
first slice is nondeterministic for the policies that never initialise it. Thread
objects are addresses, freed and reused. *ContextSwitch* has the stacks word by word
and the registers one by one, through each instruction of SWITCH.

**Synchronisation.** *Semaphore* has `P` and `V` as coded. A thread that sleeps in
`P` is marked in `inP`; dispatched, it goes on with the loop's test before anything
else can happen (interrupts are still off). It stands on Dispatcher, so what it
shows holds for every policy that Scheduler shows to implement Dispatcher. *Monitor*
has `Lock` and `Condition`, each operation cut at the P and V inside; *MesaMonitor* is
what their comments promise. A step of a thread is its code up to the preemption
point in its next P or V: nothing else can run in between.

**Library.** *LinkedList* has the pointers of `List` and `SortedList`, *HashTable* the
buckets, the rehashing and the iterator, *Bitmap* the words with the unused bits of
the last one, and a PersistentBitmap's file. *ItemList* and *ItemTable* are the
sequence and the keyed set they stand for. *Components* puts them beside each other
and makes the calls of the self tests, with their assertions.

**Tests.** *SyncTest* is `Kernel::SyncTest` with the main thread that forks, yields and
halts, and the thread test; *TestThreads* has the numbers, threads and variables that
the tests share. Each test is a module, whose threads use Semaphore, Monitor or
SynchList.

**Devices.** *Interrupt* is the pending list, the clock, `OneTick`, `CheckIfDue`, `Idle`,
`Schedule` and the timer, of each machine. Times are kept relative to now, since
nothing else reads them and polling devices would make the state infinite; the
clock is kept modulo the turn of the disk. *SynchDisk* has `ComputeLatency` with
seek, rotation and track buffer, and `ReadSector`/`WriteSector` with lock and
semaphore. *ConsoleTest* and *NetworkTest* are `nachos -C` and `nachos -N`, the latter on
two machines with sockets that lose packets. The post offices are commented out of
`Kernel::Initialize` (`threads/kernel.cc:147-148`); the model is the code with them.

**Files.** In *FileSystem* an operation on an open file is its sequence of sector
writes, with `WriteAt`'s reads of the first and last sector; the directory is the
table, of which one entry lies across two sectors as in the code; the commands of main
make up the actions, with a loss of power between any two writes. After it all names
can be used again, also the one whose `Create` or `Remove` was cut short (`damaged`).
The entry of such a name may lead to sectors that are free, and then to those of a file
created since: a second `Remove` may abort in `Deallocate`, or free that file's sectors,
and a write may go into them. `Spoilt` are the files that lose a sector in this way,
computed when the command starts; the properties say that no others do. If the
sector that the entry names has become a sector of data, the command takes this for a
header and may write anywhere (`Misread`), and the model says no more about the disk.
*HostFile* is the default build, with `FILESYS_STUB`: the host keeps one offset for a
descriptor, `OpenFile` another.

**User programs.** *VirtualMemory* has page tables, the reverse page table, the TLB,
FIFO and LRU replacement, page faults, suspension of threads to files (`-dt`) and
Exit, under each of the eight builds. *MIPS* has the processor: decoding by the
tables, every opcode, the delay slots, `Mult`, exceptions and the restart.
*MIPSManual* is the architecture, written independently in integers and sets of bits
with no delay and no fault, and has the programs that both execute, including the
system call stubs of `test/start.s`.

## Runs

| Run | Shows |
|---|---|
| `scheduler` | Thread life cycle with reuse of addresses and slots, under all four policies: ready lists, statuses, blockList, carcass and slot table agree; the queues obey their discipline; the end of a slice is acted upon at once; implements Dispatcher |
| `scheduler_live` | round robin dispatches every ready thread |
| `semaphore` | sleepers are queued; no wake-up is lost; an available semaphore is taken |
| `components` | SWITCH keeps each thread's registers and stack; mutual exclusion, `lockHolder` and waiters' semaphores; Lock and Condition implement MesaMonitor; no item of a SynchList is left beside a waiting thread; List, SortedList, HashTable and Bitmap stay consistent, pass their self tests and implement ItemList and ItemTable |
| `sync_tests` | the four tests of `Kernel::SyncTest` and the thread test do what they are meant to, main halts only when all threads have finished, and it does halt |
| `devices` | no interrupt is late; each disk request is answered once, after exactly the time of a disk that turns; characters and packets are kept in order; an acknowledgement means that the message was received; the tests finish |
| `file_system` | directory, free map, headers and contents agree and reads return what was written, through any number of losses of power, for every file but the one that was being created or removed and those that a later command on that name meets in its sectors; reads and writes of the stub file system go where they should |
| `user_programs` | each thread's memory is its own, frames and TLB agree with the page tables, programs exit; every instruction does what the architecture says, through page faults and delay slots, except `SRL` and `SRLV` of a negative word |
| `priority_fork` | (violation) `Fork` dereferences the front of a ready list that may be empty |
| `reader_releases` | (violation) the last reader releases a lock the first one acquired, and `Lock::Release` aborts |
| `memory_exhausted` | (violation) without a free frame, a page fault takes one in use and writes nothing back |
| `uninit_data` | (violation) a page of uninitialized data holds what the frame's last owner left |

Because of `reader_releases` the run `sync_tests` covers the readers and writers up to
that abort, and `Terminates` counts the abort as an end. Because of `memory_exhausted`
the run `user_programs` has frames for all pages of all threads.

### Bounds

* *scheduler, semaphore, components, sync_tests*: three or four threads, one that
  runs, one to be woken or freed and one or two to interfere, enough for every
  pair of queue operations to race. Four addresses with three slots make the thread
  table full and addresses be reused. Three feedback levels have a first, a middle
  and a last one. Semaphore values stop at `MaxValue` = 2, which gives two units to
  two woken threads while a third sleeps. `SliceFloor` stops `timeSliceRemain` at
  0: all values below 1 act alike. The tests have one producer and two consumers
  as in the code, with 4 numbers in place of 50; a barrier of 3 in place of 5; two
  readers, to come first and to leave last, and one writer, 2 rounds in place of 10.
  Four list items put one at the front, in the middle and at the end; six hash items
  make a table of one bucket grow twice; five bits in words of four leave unused bits
  in the last one. A stack of 18 words holds the frames of SWITCH and its callers.
* *devices*: ticks are scaled (a kernel tick 1, a timer period 2, a sector 2, a
  seek 3), so that every alignment of seek, rotation and clock occurs. Two threads
  make two requests each on two tracks of three sectors; three characters are
  typed; `MaxTries` = 2 stands for the 10 attempts of `SendToSocket`.
* *file_system*: ten sectors of three cells, two directory entries of which the
  second is split between two sectors, files of up to two sectors, four names of
  which two agree in the characters that the directory keeps, `MaxOps` = 5
  operations, of which a write by a program counts as two (`WriteCost`), with any number
  of crashes: enough to create, fill, remove and create again over the remains, to
  use a name whose removal was cut short after another file has its sectors, and to
  find data in place of its header. Files fit into a header (`SizesFit`). On the host two
  names, two objects, `MaxLength` = 3, `MaxCalls` = 6.
* *user_programs*: three threads with three pages each, 9 frames (5 in
  `memory_exhausted`), a TLB of 2 entries, so that it is full with the two pages of an
  instruction and a third is needed; a slice of at least `MinSlice` = 6 steps, one of
  them cut short (`MaxEarly`). Words have 12 bits, in four bytes of three: operands
  lie at the edges of the range, where sign, carry and overflow differ. Up to
  `MaxEvictions` = 2 pages go away while a program runs.

Threads other than main, and names that are alike, are symmetric where no liveness
is checked. Runs say `CHECK_DEADLOCK FALSE` where the system may stop: all threads
asleep with nobody to signal, an assertion failed, or a bound on the calls reached.

### Fairness

* `scheduler_live` assumes that the processor takes the steps it is to take and
  that the timer, which reschedules itself (`machine/timer.cc:52-81`), is again and
  again due at a tick.
* `semaphore` and `sync_tests` assume strong fairness of each thread's dispatch and
  steps; round robin, the default policy (`threads/main.cc:70`), justifies it:
  `ReadyEventuallyRuns` is the dispatch half, and a slice lasts at least one timer
  period (100 ticks), longer than a section of code between two preemption points.
* `devices` assumes strong fairness of threads, which resume after each interrupt,
  and weak fairness of handlers that are due, of the clock, of the user who types and
  of the start of both machines. It does not assume that packets arrive: after a
  loss, `TestsFinish` does not ask for the exchange to finish.
* `user_programs` assumes only that the machine goes on.

## Proofs

All theorems are of the form `Spec => []Inv`, or a refinement, for every value of the
constants. Types and bounds of the runs play no part.

**SynchProofs**, semaphores (any finite set of threads, any semaphores and initial values;
`SemaphoreAssumption`): `SemaphoreTypeOK`, values stay natural although `P` decrements
after a sleep during which others may; `SleepersAreQueued`, a blocked thread is on
exactly one queue, once; `WakeupsAreKept`, `NoLostWakeup`. The inductive invariant
`Inv` is their conjunction with `OnePlace`. None is inductive alone: that `V` wakes a
thread that is really blocked needs `SleepersQueued`, that it is not already counted
needs both that and `OnePlace`, and that `P`'s `Append` adds a new thread needs
`OnePlace`. For `NoLostWakeup`, a `V` with sleepers adds one unit and one woken thread;
a test that takes a unit removes at most one of each; one that fails finds 0.
The first lemmas of the module say what Append and RemoveFront do to the elements of a queue.

**SynchProofs**, monitors (any finite set of threads; `MonitorAssumption`: the semaphores
are the lock and one for each thread that waits, and the lock starts at 1). First, every
step of Monitor is a step of Semaphore (`SemaphoreBehaviour`), so that the invariants
above hold of the semaphores in Lock and Condition. Then

* `LocksExclude`: `MutualExclusion`, strengthened by `SleepPlaces`, which says at which
  P a thread sleeps. Without it a wake-up in `Wait` could count as entering the lock;
* `SignalsAreKept`: `WaiterSemaphores`, from `WaiterInv`: a thread in `Wait` is on
  `waitQueue` or its semaphore has the value 1, never both, and every other waiter's
  semaphore is 0. That only the owner signals comes from mutual exclusion;
* `MonitorIsMesa`: the refinement of MesaMonitor with `owner` the thread that owns the
  lock (`OwnerIs`: there is at most one, so `CHOOSE` finds it) and `waiters` the queue;
* `ItemsAreDelivered`: `NoItemStranded` for every SynchList, any items. A step of
  SynchList is one of Monitor, so `WaiterInv` holds; `StrandedInv` adds that only
  `RemoveFront` waits. An `Append` beside a waiting thread signals one, which then tests;
  a thread that takes an item leaves one item and one tester fewer; one that finds the
  list empty may wait, since then nothing is there to be stranded.

**SchedulerProofs** (any set of threads, slots, priorities, slices and feedback queues,
all four policies; `SchedulerAssumption`). Proved are `SchedulerTypeOK`;
`ReadyThreadsAreListed` and `BlockListIsExact`, each live thread is on the lists its
status calls for, once; `CarcassIsFreed`, the assertion on `toBeDestroyed`;
`SlotsAgree`, `threadArray` and `threadID`; `QueuesAreDisciplined`; `YieldsArePrompt`;
and `SchedulerImplementsDispatcher`. The inductive invariant `Inv` (*SchedulerLemmas*)
adds to them

* `StatusAndPlace`: the status that goes with each place of `pc`. A woken thread is
  found ready, and not already listed, only because of it;
* `CarcassBlocked` and `WaitingExact`: who is blocked, and what waits for it;
* `ListsHold`, `BlockListHolds`: the lists as sets without repetition, which is what
  an insertion or removal can be shown to keep. That they count each thread once
  follows;
* `LevelsInRange`: `ReadyToRun` finds a feedback queue for every thread.

*SchedulerLemmas* says first what inserting into the list of a policy and removing from
it does to the elements and to the order, then which steps leave the ready lists
alone. The refinement maps every step to a step of Dispatcher or a stutter.

**SyncTestProofs** (any number of producers, consumers, barrier threads, readers,
writers and rounds, every schedule; `TestAssumption`, `SyncTestAssumption`: the threads
of a test are distinct, as many numbers are consumed as produced, and the barrier is
for all threads of its test).

* `ArrayIsInBounds`: producers and consumers stay inside `produceArray`. `Balance`
  counts every number as consumed, claimed by a consumer, a unit of `isFull` or about
  to be one, and `high` as the rounds in which a producer has written; without the
  consumers that have their unit and not yet their number, `low` could pass `high`;
* `BarrierHolds`: nobody leaves the barrier before all have come. Until the last one
  arrives `Closed` says that every thread inside waits with its semaphore at 0;
* `WritersExclude`: a writer writes alone. `Mutex` and `WLock` say who has `rwMutex` and
  `wLock`, the latter kept by the readers as a group, and `CountOK` that `readerCount`
  is their number. This holds up to the abort that `reader_releases` shows, since
  that is where the code stops.

The proofs use of a semaphore its value and who sleeps in its `P`, not the order of
its queue. *TestProofs* has the producers and consumers and the readers and writers,
*SyncTestProofs* the barrier and the tests beside main.

**ContextSwitchProofs** (any set of threads, any stack of 16 words or more;
`ContextAssumption`): `ContextsAreKept`, `ContextIsKept`. The inductive invariant
`ContextInv` is the layout of every stack. A thread that is switched out is `New`, as
`StackAllocate` made it, or `Out`, in SWITCH with the frame of its `Run` above; the one
that runs is at one of four places (`Fresh`, `Switched`, `Executes`, `Between`). It needs
the words that ThreadRoot comes back to (`Held`) and that esi and edi keep their
functions through every frame (`Keeps`): SWITCH alone preserves the registers, but only
if the words it restores them from are those it saved.

**DeviceProofs** (disk with any set of threads, any number of requests and any geometry;
console with any input but the byte 0xFF, which its `char` cannot tell from EOF;
network with any losses and any number of tries; `DeviceConstants`: times and sizes
are natural numbers, and only a tick and a seek may take no time). *DeviceLemmas* begins with the pending list of a machine: `Insert` puts an
entry behind those due no later, keeps the list sorted and adds one entry, so that looking
at the front is enough. That the walk along the list ends there is shown with the least
place at which it could stop. Disk and console follow in that module. Proved are

* `InterruptsAreOnTime`: `NeverLate`, for the timer and each device (`MachinesOK`);
* `AssertionsHold`: `NoAssertionFails`. A device gets no request while it is busy, reads
  no character over another and has no packet for others; each disk request is answered
  once, to its thread;
* `NothingIsLostInside`: `KeptInOrder`, from keyboard to display and from socket to
  mailbox;
* `AnswersAreTrue`: `AckMeansReceived`.

`DiskInv` needs the lock (`Locked`: the one thread that is not idle holds it), the
handshake (an active request or a completion to take exactly while a thread waits), and
that the disk is active exactly while a `DiskInt` is pending. `ConsoleInv` needs `InTurn`:
the keyboard is polled only when the last character was taken, and the display is busy
exactly while its interrupt is pending and the thread waits for it. `NetworkInv` says of
each machine that one packet at a time is between device and post office (`Handover`),
that what came in is what was put, the letter, the packet held and the socket, in this
order (`InOrder`), and what each packet says about the place of the other's thread
(`Exchange`): it has sent its message, at most once, and acknowledged only after it
received one. `KeptInOrder` is part of the invariant and not inductive without the rest:
a second character polled, or a packet read while one is held, would be lost.

The theorems on monitors, SynchList and the context switch are about the specification
of each module (`MonitorSpec`, `SynchListSpec`, `SwitchSpec`). The run `components` checks
the same properties on Components, whose behaviours with that `part` are theirs.

Only model-checked, and why:

* `AvailableIsTaken`, `ReadyEventuallyRuns`, `Terminates`, `TestsFinish`, `ProgramsExit`:
  liveness under fairness, which the prover does not treat;
* `SanityCheck`: the self tests use ENABLED. `ImplementsItemList`, `ImplementsItemTable` and
  `SanityCheck` also follow pointers and buckets, which is induction over data;
* `MatchesReference`: MIPS uses recursive operators and bitwise ones;
* `LatencyIsExact`: products and remainders of the turn of the disk by sums of seeks, which
  the solver does not find;
* `HaltsWhenDone`: it needs the number of threads forked and finished of all five tests,
  with the producers and consumers on a SynchList, of which only the parts above are
  proved;
* `DirectoryExact`, `FilesIntact`, `ReadsAreExact`: an operation is a sequence of sector
  writes that recursive definitions build up;
* `FramesExact`, `TLBCoherent`, `ReadsSeeWrites`: they are stated in UserPrograms, which
  contains the processor; the loading of a suspended thread is a recursion over its
  pages.

## Where code and comments differ

Besides the four violations, these places are in the models as the code has them,
and shape the properties:

* with `typeno` 1, called preemptive priority scheduling (`threads/main.cc:66`),
  `Yield` picks the next thread before it puts itself back (`threads/thread.cc:220`),
  so a timer interrupt hands the processor from the best thread to the next one.
  `QueueDiscipline` says only that the ready list is sorted;
* with `typeno` 1 the alarm asks for a context switch also in the idle loop
  (`threads/alarm.cc:53`), where no thread was interrupted, and the request stays for
  the next tick of another thread. `YieldIsPrompt` leaves that policy out;
* `Finish` puts the thread on `blockList` and nothing takes it off when it is freed
  (`threads/scheduler.cc:246`). `BlockListExact` is about the live threads;
* `barrierNum` is never reset (`threads/synch.cc:305`): a barrier serves once;
* `switch.s` says that eax points to the startup function (line 306) and that eax is
  pushed (line 334). The code uses ecx, and keeps eax in `_eax_save`. SWITCH writes
  the return address to the word above the restored stack pointer (line 370); for a
  new thread that is the gap of `StackAllocate`, which is there "to be on the safe
  side" (`threads/thread.cc:422`);
* `SendToSocket` is to "Terminate if we still fail after 10 tries"
  (`lib/sysdep.cc:531`); it goes on, and the packet is lost;
* `Create` of the stub file system empties a file that exists, also under the
  objects that have it open. The file system on the disk refuses;
* the file system "may corrupt the disk" if Nachos stops in the middle of an operation
  (`filesys/filesys.cc:38-40`). `DirectoryExact`, `FilesIntact` and `ReadsAreExact` say how
  far that goes: at once, only the name being created or removed, or the name that the
  new directory entry had before; later, when such a name is used again, also the files
  that own a sector its entry leads to, but no entry of the directory for another name,
  until data is taken for a header;
* `OP_SRL` and `OP_SRLV` shift an `int` (`tmp`, `machine/mipssim.cc:173`), so that the sign
  of a negative word is shifted in, where the architecture has zeros. The model does
  the same (`ShiftRight`), and the programs of `MatchesReference` do not shift such words;
* `-dt` stops Thread 1 at count 30 and Thread 2 at 50, and wakes them when Thread 3 comes
  to 70 (`machine/mipssim.cc:73-87`). If a program exits before that, nobody wakes them,
  or a finished thread is the first on `blockList`, and main halts without them.
  `ProgramsExit` is about programs that go on longer, like `matmult`;
* a handle that is open when its file is removed goes on using the header it has
  read. The commands of main do not do that, and neither does the model.

## Not modelled

* Inputs for which the C++ code has no defined or portable result: a file of more
  than `NumDirect` sectors, which `FileHeader::Allocate` does not refuse; the division of
  the most negative word by -1; a system call in a branch delay slot, which loses the
  branch; `SaveAThread`'s `sprintf` of numbers that do not fit the buffer.
* What becomes of the file that `vmFileName` names: the pointer is into a stack frame
  that is gone. Without `USE_RPT` every Exit hands it to `Remove`
  (`userprog/exception.cc:90`), which may remove another file of the host or none; no
  property depends on that. Pages are read from or written to that file only if a page
  that has a frame is not valid, or dirty, and `ProgramsExit` shows that the former does
  not happen while frames suffice.
* Concurrent use of one file system: the code has no synchronisation there, and the
  commands of main run one at a time.
* The parts of `switch.s` for other processors, which are not assembled.
* The scan of the command line (one flag for each option), `-K` with `typeno` 0 (an
  endless loop by design), random time slices, the debugger of the machine, the
  statistics but for the clock.
* Code that nobody calls: `AddrSpace::Load` and `AddrSpace::Translate`, the SelfTests of
  Semaphore and SynchList.
* The host: memory with guard pages, signals, delays, random numbers. Sockets and
  files are modelled from how the code uses them.
* The user programs in C, the shell and the unit test header. The programs that the
  model executes sample what such programs do.
