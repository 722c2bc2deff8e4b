--------------------------- MODULE VirtualMemory ---------------------------
(***************************************************************************)
(* User programs in paged memory (nachos -x program, with or without -dt): *)
(* address translation (machine/translate.cc), page frames and the TLB     *)
(* (machine/machine.cc), page faults, TLB misses and Exit                  *)
(* (userprog/exception.cc), loading, suspending and restoring a thread's   *)
(* pages (threads/thread.cc, threads/scheduler.cc), and the main thread    *)
(* that forks the programs and halts (threads/main.cc).                    *)
(*                                                                         *)
(* build is the choice of the makefile's options: FIFO_REPLACE or          *)
(* LRU_REPLACE, with or without USE_RPT (one table with an entry for each  *)
(* frame) and USE_TLB.  The programs of all threads are the same file.  An *)
(* instruction is fetched from page 0 and may read or write one more page; *)
(* a page holds one value.  The bits readOnly, use and dirty are left out: *)
(* no code sets the first, and Translate sets the other two in a copy of   *)
(* the entry that it drops.                                                *)
(***************************************************************************)
EXTENDS Integers, Sequences, FiniteSets, FiniteSetsExt

CONSTANTS
    NumThreads,         \* "Thread 1" ... (threads/main.cc forks three)
    NumPages,           \* pages of the program, the last one of uninitialized data
    NumPhysPages, TLBSize,
    Programs,           \* sequences of [page, writing], one instruction each
    Builds,
    Pauses,             \* for -dt: the counts (30, 50, 70) in Machine::Run
    MinSlice,           \* instructions that a time slice is good for
    MaxEarly            \* bound on the slices that end sooner

Threads == 1 .. NumThreads
Main == 0
Pages == 0 .. NumPages - 1
Frames == 0 .. NumPhysPages - 1

VARIABLES
    build, program,
    pause,              \* the counts at which the threads of -dt stop, or <<>>
    m,                  \* the Machine: pt, tlb, mmBitmap, mainMemory
    cur, ready, blockList, suspendList,
    at,                 \* the next instruction of each thread
    count,              \* Machine::Run's count, up to the last pause
    slice,              \* instructions since the last switch, up to MinSlice
    early,              \* how many slices have ended sooner than that
    file,               \* what SaveAThread has written for each thread
    halted, aborted,
    own                 \* what each thread should find in its pages

vars == <<build, program, pause, m, cur, ready, blockList, suspendList, at, count,
          slice, early, file, halted, aborted, own>>

\* What a page holds: zero, what the file says, or what an instruction wrote.
Zero == 0
InFile(v) == v + 1
Written(t, i) == 10 * t + 100 * i

\* The last page is not in the file: ReadAt reads nothing beyond its end.
IsUninit(v) == v = NumPages - 1
-----------------------------------------------------------------------------
(***************************************************************************)
(* TranslationEntry and the tables.  Without USE_RPT each thread's address *)
(* space has a table of its own, indexed by page; with it there is one     *)
(* table, indexed by frame.                                                *)
(***************************************************************************)
Reset == [vpn |-> -1, tID |-> -1, ppn |-> -1, valid |-> FALSE,
          FIFOFlag |-> -1, LRUFlag |-> -1]

Table(t) == IF build.rpt THEN Main ELSE t

\* updateFIFOFlag and updateLRUFlag: one more than the largest flag of the other valid entries
NextFlag(table, pos, Flag(_)) ==
    1 + Max({-1} \cup {Flag(table[i]) : i \in {j \in DOMAIN table \ {pos} : table[j].valid}})

FIFO(e) == e.FIFOFlag
LRU(e) == e.LRUFlag

updateFIFOFlag(table, pos) ==
    IF build.replace = "FIFO"
    THEN [table EXCEPT ![pos].FIFOFlag = NextFlag(table, pos, FIFO)] ELSE table

updateLRUFlag(table, pos) ==
    IF build.replace = "LRU"
    THEN [table EXCEPT ![pos].LRUFlag = NextFlag(table, pos, LRU)] ELSE table

\* The first entry with the smallest flag
findOneToReplace(table) ==
    LET Flag(i) == IF build.replace = "FIFO" THEN FIFO(table[i]) ELSE LRU(table[i])
        least == {i \in DOMAIN table : \A j \in DOMAIN table : Flag(i) <= Flag(j)}
    IN  Min(least)

findAvailablePageFrame(mach) ==
    IF mach.mmBitmap # Frames THEN Min(Frames \ mach.mmBitmap) ELSE -1

(***************************************************************************)
(* Thread::loadPageFrame: enter page v of thread t as the one in frame     *)
(* ppn, and read its contents, if there are any to read.                   *)
(***************************************************************************)
loadPageFrame(mach, t, v, ppn, contents) ==
    LET pos == IF build.rpt THEN ppn ELSE v
        table == [mach.pt[Table(t)] EXCEPT
                     ![pos].vpn = v, ![pos].ppn = ppn, ![pos].valid = TRUE,
                     ![pos].tID = IF build.rpt THEN t ELSE @]
    IN  [mach EXCEPT !.pt[Table(t)] = updateFIFOFlag(table, pos),
                     !.mmBitmap = @ \cup {ppn},
                     !.mainMemory[ppn] = IF contents = {} THEN @
                                         ELSE CHOOSE c \in contents : TRUE]

\* A frame for page v of thread t: a free one, or, for want of one, what
\* findOneToReplace finds in the current page table.
LoadInto(mach, t, v, contents) ==
    LET free == findAvailablePageFrame(mach)
        ppn == IF free # -1 THEN free ELSE findOneToReplace(mach.pt[Table(cur)])
    IN  loadPageFrame(mach, t, v, ppn, contents)

\* PageFaultException: read the page from the program's file.
PageFault(mach, t, v) ==
    LoadInto(mach, t, v, IF IsUninit(v) THEN {} ELSE {InFile(v)})

(***************************************************************************)
(* pageTableTranslation, as the set of the position found in the table.    *)
(* With USE_RPT it does not look at valid.                                 *)
(***************************************************************************)
\* Mutant: the search does not compare the thread.
pageTableTranslationMutated(mach, t, v) ==
    LET table == mach.pt[Table(t)]
        found == IF build.rpt THEN {i \in Frames : table[i].vpn = v}
                 ELSE {i \in {v} : table[i].valid}
    IN  {i \in found : \A j \in found : i <= j}

pageTableTranslation(mach, t, v) ==
    LET table == mach.pt[Table(t)]
        found == IF build.rpt
                 THEN {i \in Frames : table[i].vpn = v /\ table[i].tID = t}
                 ELSE {i \in {v} : table[i].valid}
    IN  {i \in found : \A j \in found : i <= j}

\* Without USE_RPT, a page that is not valid but has a frame would be swapped in.
SwapsIn(mach, t, v) ==
    ~build.rpt /\ ~mach.pt[t][v].valid /\ mach.pt[t][v].ppn # -1

\* The entry that pageTableTranslation hands out, and the TLB entries for a page
EntryOf(mach, t, v) ==
    mach.pt[Table(t)][CHOOSE i \in pageTableTranslation(mach, t, v) : TRUE]

TLBHits(mach, v) == {i \in 1 .. TLBSize : mach.tlb[i].valid /\ mach.tlb[i].vpn = v}

\* updateTLB: into the first invalid entry, else over findOneToReplace's.
updateTLB(mach, entry) ==
    LET invalid == {i \in 1 .. TLBSize : ~mach.tlb[i].valid}
        i == IF invalid # {} THEN Min(invalid) ELSE findOneToReplace(mach.tlb)
    IN  [mach EXCEPT !.tlb = updateFIFOFlag([mach.tlb EXCEPT ![i] = entry], i)]

\* Translate finds the page.
Hit(mach, t, v) ==
    IF build.tlb THEN TLBHits(mach, v) # {} ELSE pageTableTranslation(mach, t, v) # {}

FrameOf(mach, t, v) ==
    IF build.tlb THEN mach.tlb[Min(TLBHits(mach, v))].ppn
    ELSE EntryOf(mach, t, v).ppn

\* What a successful Translate changes
Touch(mach, t, v) ==
    LET pos == IF build.rpt THEN FrameOf(mach, t, v) ELSE v
        touched == [mach EXCEPT !.pt[Table(t)] = updateLRUFlag(@, pos)]
    IN  IF build.tlb
        THEN [touched EXCEPT !.tlb = updateLRUFlag(@, Min(TLBHits(mach, v)))]
        ELSE touched

\* ExceptionHandler for TLBMissException and PageFaultException
Miss(mach, t, v) ==
    IF build.tlb /\ pageTableTranslation(mach, t, v) # {}
    THEN updateTLB(mach, EntryOf(mach, t, v))
    ELSE PageFault(mach, t, v)
-----------------------------------------------------------------------------
(***************************************************************************)
(* The scheduler, with typeno 2 (threads/main.cc:70).  Run resets the TLB. *)
(***************************************************************************)
\* Mutant: Scheduler::Run leaves the TLB as it is.
FlushedMutated(mach) == mach

Flushed(mach) ==
    IF build.tlb THEN [mach EXCEPT !.tlb = [i \in 1 .. TLBSize |-> Reset]] ELSE mach

SwitchTo(mach, queue) ==
    /\ cur' = Head(queue)
    /\ ready' = Tail(queue)
    /\ slice' = 0
    /\ m' = Flushed(mach)

\* Mutant: main halts without waiting for the programs.
MainStepMutated ==
    /\ cur = Main
    /\ halted' = TRUE
    /\ UNCHANGED <<build, program, pause, m, cur, ready, slice, blockList, suspendList, at,
                   count, early, file, aborted, own>>

\* main: Yield while somebody is ready, then Halt.
MainStep ==
    /\ cur = Main
    /\ IF ready # <<>>
       THEN SwitchTo(m, Append(ready, Main)) /\ UNCHANGED halted
       ELSE halted' = TRUE /\ UNCHANGED <<m, cur, ready, slice>>
    /\ UNCHANGED <<build, program, pause, blockList, suspendList, at, count, early,
                   file, aborted, own>>

\* The time slice of thread t ends.  Without -dt some may be short: a slice is
\* longer than the programs here, and may end anywhere in a program.
Preempt(t) ==
    /\ cur = t
    /\ ready # <<>>
    /\ IF slice = MinSlice THEN UNCHANGED early
       ELSE pause = <<>> /\ early < MaxEarly /\ early' = early + 1
    /\ SwitchTo(m, Append(ready, t))
    /\ UNCHANGED <<build, program, pause, blockList, suspendList, at, count, file,
                   halted, aborted, own>>

\* Thread t is at its count of Machine::Run, and stops there once.
AtPause(t) == pause # <<>> /\ t \in DOMAIN pause /\ count[t] = pause[t]
Counted(t) ==
    count' = [count EXCEPT ![t] = IF pause = <<>> \/ t \notin DOMAIN pause \/ @ > pause[t]
                                  THEN @ ELSE @ + 1]

\* The pages of thread t that are in memory, in the order of the table
Resident(mach, t) ==
    LET table == mach.pt[Table(t)]
    IN  {i \in DOMAIN table : table[i].valid /\ (build.rpt => table[i].tID = t)}

\* Mutant: SaveAThread keeps the frames of the thread.
ReleasedMutated(mach, t) == mach.mmBitmap

\* The frames in use once the ones of thread t are free
Released(mach, t) ==
    mach.mmBitmap \ {mach.pt[Table(t)][i].ppn : i \in Resident(mach, t)}

\* Thread::SaveAThread: the pages go to a file, and their frames are free.
SaveAThread(mach, t) ==
    [mach EXCEPT !.pt[Table(t)] = [i \in DOMAIN @ |->
                     IF i \in Resident(mach, t) THEN [@[i] EXCEPT !.valid = FALSE] ELSE @[i]],
                 !.mmBitmap = Released(mach, t)]

Saved(mach, t) ==
    LET table == mach.pt[Table(t)]
        Nth(n) == CHOOSE i \in Resident(mach, t) :
                      Cardinality({j \in Resident(mach, t) : j < i}) = n - 1
    IN  [n \in 1 .. Cardinality(Resident(mach, t)) |->
            LET e == table[Nth(n)]
            IN  [vpn |-> IF build.rpt THEN e.vpn ELSE Nth(n),
                 page |-> mach.mainMemory[e.ppn]]]

\* Thread::LoadAThread: the pages of the file, one after the other (the set of
\* the one machine that results)
LoadAThread(mach, t) ==
    LET loaded[n \in 0 .. Len(file[t])] ==
            IF n = 0 THEN {mach}
            ELSE {LoadInto(x, t, file[t][n].vpn, {file[t][n].page}) : x \in loaded[n - 1]}
    IN  loaded[Len(file[t])]

\* Sleep puts a thread that finishes on blockList too, and nobody takes it off.
Live(t) == at[t] <= Len(program) + 1
Takes(list) == list # <<>> /\ Live(Head(list))

\* "Thread 1" sleeps; "Thread 2" suspends the first blocked thread, and sleeps.
Pause(t) ==
    /\ cur = t /\ AtPause(t) /\ t < 3
    /\ Counted(t)
    /\ IF t = 2 /\ ~Takes(blockList)
       THEN aborted' = TRUE /\ UNCHANGED <<m, cur, ready, slice, blockList, suspendList, file>>
       ELSE /\ IF t = 2
               THEN LET s == Head(blockList)
                    IN  /\ file' = [file EXCEPT ![s] = Saved(m, s)]
                        /\ suspendList' = Append(suspendList, s)
                        /\ blockList' = Append(Tail(blockList), t)
                        /\ SwitchTo(SaveAThread(m, s), ready)
               ELSE /\ blockList' = Append(blockList, t)
                    /\ SwitchTo(m, ready)
                    /\ UNCHANGED <<suspendList, file>>
            /\ UNCHANGED aborted
    /\ UNCHANGED <<build, program, pause, at, early, halted, own>>

\* "Thread 3" awakes the first blocked thread and restores the first suspended one.
Resume(t) ==
    /\ cur = t /\ AtPause(t) /\ t = 3
    /\ Counted(t)
    /\ IF ~Takes(blockList) \/ ~Takes(suspendList)
       THEN aborted' = TRUE /\ UNCHANGED <<m, ready, blockList, suspendList, file>>
       ELSE LET s == Head(suspendList)
            IN  /\ m' \in LoadAThread(m, s)
                /\ ready' = ready \o <<Head(blockList), s>>
                /\ blockList' = Tail(blockList)
                /\ suspendList' = Tail(suspendList)
                /\ file' = [file EXCEPT ![s] = <<>>]
                /\ UNCHANGED aborted
    /\ UNCHANGED <<build, program, pause, cur, slice, early, at, halted, own>>
-----------------------------------------------------------------------------
(***************************************************************************)
(* One call of OneInstruction.  An exception ends it with nothing done     *)
(* but what the handler does, and Machine::Run calls it again.             *)
(***************************************************************************)
Running(t) ==
    /\ cur = t /\ ~AtPause(t)
    /\ Counted(t)

Elapse == slice' = IF slice < MinSlice THEN slice + 1 ELSE slice

\* ReadMem or WriteMem after both translations
Access(t, v, mach) ==
    /\ IF program[at[t]].writing
       THEN /\ m' = [mach EXCEPT !.mainMemory[FrameOf(mach, t, v)] = Written(t, at[t])]
            /\ own' = [own EXCEPT ![t][v] = Written(t, at[t])]
       ELSE m' = mach /\ UNCHANGED own
    /\ at' = [at EXCEPT ![t] = @ + 1]

Execute(t) ==
    /\ Running(t)
    /\ Elapse
    /\ at[t] <= Len(program)
    /\ LET v == program[at[t]].page
       IN  /\ aborted' = (aborted \/ SwapsIn(m, t, 0) \/ SwapsIn(m, t, v))
           /\ IF ~Hit(m, t, 0)
              THEN m' = Miss(m, t, 0) /\ UNCHANGED <<at, own>>
              ELSE \E fetched \in {Touch(m, t, 0)} :
                  IF ~Hit(fetched, t, v)
                  THEN m' = Miss(fetched, t, v) /\ UNCHANGED <<at, own>>
                  ELSE \E done \in {Touch(fetched, t, v)} : Access(t, v, done)
    /\ UNCHANGED <<build, program, pause, cur, ready, blockList, suspendList,
                   early, file, halted>>

\* What the Exit system call leaves: no frame and no entry of the thread.
Exited(mach, t) ==
    IF build.rpt
    THEN LET mine == {i \in Frames : mach.pt[Main][i].tID = t}
         IN  [mach EXCEPT !.mmBitmap = @ \ mine,
                          !.pt[Main] = [i \in Frames |-> IF i \in mine THEN Reset ELSE @[i]]]
    ELSE [mach EXCEPT !.mmBitmap = Released(mach, t), !.pt[t] = <<>>]

\* The last instruction: SC_Exit, and Finish, which deletes the address space.
Exit(t) ==
    /\ Running(t)
    /\ at[t] = Len(program) + 1
    /\ aborted' = (aborted \/ SwapsIn(m, t, 0))
    /\ IF ~Hit(m, t, 0)
       THEN Elapse /\ m' = Miss(m, t, 0) /\ UNCHANGED <<at, cur, ready, blockList>>
       ELSE /\ at' = [at EXCEPT ![t] = @ + 1]
            /\ blockList' = Append(blockList, t)
            /\ \E touched \in {Touch(m, t, 0)} : SwitchTo(Exited(touched, t), ready)
    /\ UNCHANGED <<build, program, pause, suspendList, early, file, halted, own>>

\* AddrSpace::AddrSpace, which SimpleUserThread calls before it runs the program
NewPageTables == [t \in Threads |-> [v \in Pages |-> Reset]]

\* Machine::Machine, with the tables of the address spaces
NewMachine ==
    [pt |-> IF build.rpt THEN [x \in {Main} |-> [i \in Frames |-> Reset]] ELSE NewPageTables,
     tlb |-> [i \in 1 .. TLBSize |-> Reset],
     mmBitmap |-> {},
     mainMemory |-> [f \in Frames |-> Zero]]

Init ==
    /\ build \in Builds /\ program \in Programs /\ pause \in Pauses
    /\ m = NewMachine
    /\ cur = Main /\ ready = [t \in Threads |-> t]
    /\ blockList = <<>> /\ suspendList = <<>>
    /\ at = [t \in Threads |-> 1] /\ count = [t \in Threads |-> 0]
    /\ slice = 0 /\ early = 0
    /\ file = [t \in Threads |-> <<>>]
    /\ halted = FALSE /\ aborted = FALSE
    /\ own = [t \in Threads |->
                 [v \in Pages |-> IF IsUninit(v) THEN Zero ELSE InFile(v)]]

Step ==
    /\ ~halted /\ ~aborted
    /\ \/ MainStep
       \/ \E t \in Threads : Preempt(t) \/ Pause(t) \/ Resume(t) \/ Execute(t) \/ Exit(t)

Halted == halted /\ UNCHANGED vars

Next == Step \/ Halted

Spec == Init /\ [][Next]_vars /\ WF_vars(Step)
-----------------------------------------------------------------------------
Suspended(t) == \E i \in DOMAIN suspendList : suspendList[i] = t
InMemory(t) == Live(t) /\ ~Suspended(t)

\* The frames that a thread's program can reach through its page table
FramesOf(t) ==
    {m.pt[Table(t)][i].ppn : i \in UNION {pageTableTranslation(m, t, v) : v \in Pages}}

(***************************************************************************)
(* What a thread finds in page v, in memory, in the file of a suspended    *)
(* thread, or, when it is loaded, in the program's file.                   *)
(***************************************************************************)
View(t, v) ==
    IF Suspended(t)
    THEN LET saved == {i \in DOMAIN file[t] : file[t][i].vpn = v}
         IN  IF saved # {} THEN {file[t][i].page : i \in saved}
             ELSE IF IsUninit(v) THEN {} ELSE {InFile(v)}
    ELSE IF pageTableTranslation(m, t, v) # {}
    THEN {m.mainMemory[EntryOf(m, t, v).ppn]}
    ELSE IF IsUninit(v) THEN {} ELSE {InFile(v)}

(***************************************************************************)
(* Each thread has a memory of its own: a page holds what the thread last  *)
(* wrote, or else what the file holds, through page faults, switches,      *)
(* suspension, and the Exit of other threads (pages of uninitialized data  *)
(* that the thread has not written are the subject of UninitDataIsZero).   *)
(***************************************************************************)
ReadsSeeWrites ==
    \A t \in Threads, v \in Pages :
        Live(t) /\ own[t][v] # Zero => View(t, v) = {own[t][v]}

(***************************************************************************)
(* A page of uninitialized data holds zeros until it is written.           *)
(***************************************************************************)
UninitDataIsZero ==
    \A t \in Threads, v \in Pages :
        Live(t) /\ own[t][v] = Zero => View(t, v) \subseteq {Zero}

(***************************************************************************)
(* mmBitmap marks exactly the frames that threads in memory use, and no    *)
(* two of them, nor two pages of one, use the same frame: the frames of a  *)
(* suspended or finished thread can be used again, and none is lost.       *)
(***************************************************************************)
FramesExact ==
    /\ m.mmBitmap = UNION {FramesOf(t) : t \in {s \in Threads : InMemory(s)}}
    /\ \A t, s \in Threads : InMemory(t) /\ InMemory(s) /\ t # s =>
           FramesOf(t) \cap FramesOf(s) = {}
    /\ \A t \in Threads : InMemory(t) =>
           Cardinality(FramesOf(t))
               = Cardinality({v \in Pages : pageTableTranslation(m, t, v) # {}})

(***************************************************************************)
(* The TLB agrees with the page table of the running thread: a translation *)
(* of another thread, or one for a page that has moved, is never used.     *)
(***************************************************************************)
TLBCoherent ==
    cur \in Threads => \A i \in 1 .. TLBSize :
        m.tlb[i].valid =>
            /\ pageTableTranslation(m, cur, m.tlb[i].vpn) # {}
            /\ m.tlb[i].ppn = EntryOf(m, cur, m.tlb[i].vpn).ppn

(***************************************************************************)
(* Every program comes to its Exit, and main halts after all of them: no   *)
(* instruction faults for ever, whichever entries are replaced, nobody is  *)
(* left blocked or suspended, -dt finds a live thread at the front of each *)
(* list it takes one from, and pageTableTranslation never has to swap a    *)
(* page in from the file whose name AddrSpace keeps as a pointer into a    *)
(* stack frame that is gone.  With -dt, this is about programs that go on  *)
(* beyond the last count at which Machine::Run stops a thread.             *)
(***************************************************************************)
AllExited == halted /\ \A t \in Threads : ~Live(t)

ProgramsExit == <>AllExited
=============================================================================
