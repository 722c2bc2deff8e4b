----------------------------- MODULE SynchDisk -----------------------------
(***************************************************************************)
(* The simulated disk (machine/disk.cc) and the synchronous one that       *)
(* filesys/synchdisk.cc makes of it, used by Clients threads.              *)
(*                                                                         *)
(* A thread takes the lock, makes a request, waits for the semaphore that  *)
(* the disk's interrupt handler increments, and releases the lock.  The    *)
(* lock is its holder and the semaphore a number: that the code's locks    *)
(* and semaphores behave so is what Monitor and Semaphore show.  What a    *)
(* sector holds is left to FileSystem; here it is the handshake and the    *)
(* timing.                                                                 *)
(***************************************************************************)
EXTENDS Interrupt, FiniteSetsExt

CONSTANTS
    Clients,            \* the threads that use the disk
    Requests,           \* how many requests each of them makes
    SectorsPerTrack, NumTracks, RotationTime, SeekTime

NumSectors == SectorsPerTrack * NumTracks
Sectors == 0 .. NumSectors - 1

Cycle == SectorsPerTrack * RotationTime     \* one turn of the disk, in ticks

VARIABLES
    at,             \* where in ReadSector or WriteSector each thread is
    left,           \* the requests it still has to make
    lock,           \* the set of the thread that holds the lock, or {}
    semaphore,
    active,         \* Disk::active, a request is in progress
    lastSector,     \* Disk::lastSector, the previous request
    bufferInit,     \* Disk::bufferInit - totalTicks (see Elapsed)
    clock           \* stats->totalTicks modulo Cycle

diskVars == <<at, left, lock, semaphore, active, lastSector, bufferInit, clock>>

(***************************************************************************)
(* The geometry of the disk: Disk::ModuloDiff, and Disk::TimeToSeek, with  *)
(* the time to reach the track and the rest of the sector then passing     *)
(* under the head.                                                         *)
(***************************************************************************)
Abs(n) == IF n < 0 THEN -n ELSE n

ModuloDiff(to, from) == ((to % SectorsPerTrack) - (from % SectorsPerTrack)) % SectorsPerTrack

Seek(newSector) ==
    SeekTime * Abs(newSector \div SectorsPerTrack - lastSector \div SectorsPerTrack)

\* Mutant: the partly passed sector is counted from the request, not from the end of the seek.
RotationMutated(newSector) == (RotationTime - (clock % RotationTime)) % RotationTime

Rotation(newSector) ==
    LET over == (clock + Seek(newSector)) % RotationTime
    IN  IF over > 0 THEN RotationTime - over ELSE 0

(***************************************************************************)
(* Disk::ComputeLatency: a sector that the track buffer has caught whole   *)
(* is read in the time of one sector, any other request waits until the    *)
(* sector has passed under the head.                                       *)
(***************************************************************************)
Buffered(newSector) ==
    LET timeAfter == Seek(newSector) + Rotation(newSector)
        bufferSlot == (clock + bufferInit) \div RotationTime
    IN  /\ Seek(newSector) = 0
        /\ (timeAfter - bufferInit) \div RotationTime > ModuloDiff(newSector, bufferSlot)

ComputeLatency(newSector, writing) ==
    LET timeAfter == Seek(newSector) + Rotation(newSector)
        wait == ModuloDiff(newSector, (clock + timeAfter) \div RotationTime)
    IN  IF ~writing /\ Buffered(newSector)
        THEN RotationTime
        ELSE timeAfter + wait * RotationTime + RotationTime

\* Disk::UpdateLast: the buffer starts again when the head has moved to another track.
UpdateLast(newSector) ==
    /\ lastSector' = newSector
    /\ bufferInit' = IF Seek(newSector) # 0
                     THEN Seek(newSector) + Rotation(newSector)
                     ELSE bufferInit

(***************************************************************************)
(* ReadRequest and WriteRequest.  The transfer itself is immediate; the    *)
(* interrupt follows after the latency.                                    *)
(***************************************************************************)
Request(t, newSector, writing) ==
    /\ at[t] = "request"
    /\ aborted' = (aborted \/ active)
    /\ active' = TRUE
    /\ UpdateLast(newSector)
    /\ pending' = [pending EXCEPT ![Host] =
                      Schedule(@, "DiskInt", ComputeLatency(newSector, writing))]
    /\ at' = [at EXCEPT ![t] = "P"]
    /\ UNCHANGED <<inHandler, left, lock, semaphore, clock>>

\* Mutant: the handler does not increment the semaphore.
CallBackMutated == UNCHANGED semaphore

\* SynchDisk::CallBack
CallBack == semaphore' = semaphore + 1

\* Disk::CallBack
DiskCallBack ==
    /\ Calls(Host, "DiskInt")
    /\ active' = FALSE
    /\ CallBack
    /\ CheckIfDue(Host, Rest(Host))
    /\ UNCHANGED <<at, left, lock, lastSector, bufferInit, clock, aborted>>

\* Mutant: ReadSector and WriteSector go to the disk without the lock.
AcquireMutated(t) ==
    /\ at[t] = "idle" /\ left[t] > 0
    /\ at' = [at EXCEPT ![t] = "request"]
    /\ UNCHANGED <<interruptVars, left, lock, semaphore, active, lastSector,
                   bufferInit, clock, aborted>>

\* lock->Acquire()
Acquire(t) ==
    /\ at[t] = "idle" /\ left[t] > 0
    /\ lock = {}
    /\ lock' = {t}
    /\ at' = [at EXCEPT ![t] = "request"]
    /\ UNCHANGED <<interruptVars, left, semaphore, active, lastSector,
                   bufferInit, clock, aborted>>

\* semaphore->P(): wait for the interrupt
P(t) ==
    /\ at[t] = "P" /\ semaphore > 0
    /\ semaphore' = semaphore - 1
    /\ at' = [at EXCEPT ![t] = "release"]
    /\ UNCHANGED <<interruptVars, left, lock, active, lastSector, bufferInit, clock, aborted>>

\* lock->Release(), and the return to the caller
Release(t) ==
    /\ at[t] = "release"
    /\ lock' = {}
    /\ at' = [at EXCEPT ![t] = "idle"]
    /\ left' = [left EXCEPT ![t] = @ - 1]
    /\ UNCHANGED <<interruptVars, semaphore, active, lastSector, bufferInit, clock, aborted>>

\* ReadSector and WriteSector, whose bodies differ in the request alone
ThreadStep(t) ==
    /\ ~inHandler[Host]
    /\ \/ Acquire(t)
       \/ \E newSector \in Sectors, writing \in BOOLEAN : Request(t, newSector, writing)
       \/ P(t)
       \/ Release(t)

DiskRunnable(t) ==
    \/ at[t] = "idle" /\ left[t] > 0 /\ lock = {}
    \/ at[t] \in {"request", "release"}
    \/ at[t] = "P" /\ semaphore > 0

(***************************************************************************)
(* Time passes for the disk.  bufferInit is kept relative to the clock.    *)
(* Once it is a whole turn of the disk in the past, only its value modulo  *)
(* Cycle matters: Elapsed keeps that, and keeps it a whole turn in the     *)
(* past.                                                                   *)
(***************************************************************************)
Elapsed(n) ==
    LET start == bufferInit - n
    IN  /\ clock' = (clock + n) % Cycle
        /\ bufferInit' = IF start < -2 * Cycle
                         THEN -(Cycle + ((-start) % Cycle)) ELSE start

DiskTick ==
    /\ \/ /\ \E t \in Clients : DiskRunnable(t)
          /\ OneTick(Host)
          /\ Elapsed(SystemTick)
       \/ /\ \A t \in Clients : ~DiskRunnable(t)
          /\ Idle(Host)
          /\ Elapsed(IdleTicks(Host))
    /\ UNCHANGED <<at, left, lock, semaphore, active, lastSector, aborted>>

DiskTimer ==
    /\ TimerCallBack(Host)
    /\ UNCHANGED <<diskVars, aborted>>

\* Disk::Disk; whether the file exists and what it holds is FileSystem's matter.
NewDisk == active = FALSE /\ lastSector = 0 /\ bufferInit = 0

DiskInit ==
    /\ at = [t \in Clients |-> "idle"]
    /\ left = [t \in Clients |-> Requests]
    /\ lock = {} /\ semaphore = 0
    /\ NewDisk
    /\ clock = 0
    /\ Interrupt({Host}, <<PendingInterrupt("TimerInt", TimerTicks)>>)

DiskFinished == \A t \in Clients : at[t] = "idle" /\ left[t] = 0

(***************************************************************************)
(* The disk's ASSERT(!active) never fails, whatever the threads do: each   *)
(* request is answered once, and its own thread takes the answer.  The one *)
(* thread that waits has a request in progress or a completion to take,    *)
(* never both, and there is none of either without such a thread.          *)
(***************************************************************************)
Waiting == {t \in Clients : at[t] = "P"}

OneCompletionEach ==
    /\ ~aborted
    /\ \A t, u \in Waiting : t = u
    /\ semaphore + (IF active THEN 1 ELSE 0) = (IF Waiting = {} THEN 0 ELSE 1)
    /\ active <=> \E i \in DOMAIN pending[Host] : pending[Host][i].type = "DiskInt"

(***************************************************************************)
(* The latency is that of a disk that turns.  A sector is under the head   *)
(* during whole slots of RotationTime ticks, slot number time \div         *)
(* RotationTime modulo SectorsPerTrack.  A request ends with the first     *)
(* whole pass of its sector that begins once the head has settled, and a   *)
(* read of a sector that has passed whole since the head came to the track *)
(* takes the time of one sector.  The track buffer never starts in the     *)
(* future when a request can be made.                                      *)
(***************************************************************************)
PassesAt(start, s) ==
    /\ (clock + start) % RotationTime = 0
    /\ ((clock + start) \div RotationTime) % SectorsPerTrack = s % SectorsPerTrack

ReferenceLatency(s, writing) ==
    LET settled == Min({n \in Seek(s) .. Seek(s) + RotationTime :
                           (clock + n) % RotationTime = 0})
        caught == \E start \in bufferInit .. settled - RotationTime : PassesAt(start, s)
        passes == {start \in Seek(s) .. Seek(s) + 2 * Cycle : PassesAt(start, s)}
    IN  IF ~writing /\ Seek(s) = 0 /\ caught
        THEN RotationTime
        ELSE Min(passes) + RotationTime

DiskLatencyIsExact ==
    ~active /\ ~inHandler[Host] =>
        /\ bufferInit <= 0
        /\ \A s \in Sectors, writing \in BOOLEAN :
               ComputeLatency(s, writing) = ReferenceLatency(s, writing)
=============================================================================
