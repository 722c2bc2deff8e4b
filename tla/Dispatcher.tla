----------------------------- MODULE Dispatcher -----------------------------
(***************************************************************************)
(* What the thread system of threads/thread.cc and threads/scheduler.cc    *)
(* promises to the code above it, whatever the scheduling policy (typeno): *)
(* one processor, held by at most one thread; every other forked thread is *)
(* ready or blocked.  Scheduler.tla is the detailed version, shown to      *)
(* implement this one; the synchronisation modules are built on this one.  *)
(*                                                                         *)
(* Atomicity.  Nachos switches threads only inside Thread::Yield and       *)
(* Thread::Sleep.  Kernel code reaches Yield involuntarily only from       *)
(* Interrupt::OneTick, which SetLevel calls when interrupts go from off to *)
(* on.  A step of a thread is therefore all of its code from one such      *)
(* point to the next.                                                      *)
(***************************************************************************)
CONSTANTS
    Threads,    \* the Thread objects
    Main,       \* the thread that Kernel::Initialize makes of the caller
    NoThread    \* no thread: the processor is in Sleep's loop

ASSUME DispatcherAssumption == Main \in Threads /\ NoThread \notin Threads

VARIABLES
    cur,        \* kernel->currentThread, NoThread from Sleep to Run
    ready,      \* threads with status READY
    blocked     \* threads put to sleep that have not been made ready

dispatcherVars == <<cur, ready, blocked>>

DispatcherTypeOK ==
    /\ cur \in Threads \cup {NoThread}
    /\ ready \subseteq Threads
    /\ blocked \subseteq Threads

\* A thread is forked and unfinished.
Forked(t) == t = cur \/ t \in ready \/ t \in blocked

DispatcherInit == cur = Main /\ ready = {} /\ blocked = {}
-----------------------------------------------------------------------------
(***************************************************************************)
(* The operations.                                                         *)
(***************************************************************************)
\* Thread::Fork by the running thread: t becomes ready.
Fork(t) ==
    /\ cur # NoThread
    /\ ~Forked(t)
    /\ ready' = ready \cup {t}
    /\ UNCHANGED <<cur, blocked>>

\* Thread::Yield, called or forced by a timer interrupt: FindNextToRun
\* returned n, the yielding thread goes back to the ready list.
YieldTo(n) ==
    /\ cur # NoThread
    /\ n \in ready
    /\ cur' = n
    /\ ready' = (ready \ {n}) \cup {cur}
    /\ UNCHANGED blocked

\* Thread::Sleep(FALSE) up to its loop.
Block ==
    /\ cur # NoThread
    /\ blocked' = blocked \cup {cur}
    /\ cur' = NoThread
    /\ UNCHANGED ready

\* Thread::Finish: Sleep(TRUE) up to its loop; the thread never runs again.
Finish ==
    /\ cur # NoThread
    /\ cur' = NoThread
    /\ UNCHANGED <<ready, blocked>>

\* The end of Sleep's loop: FindNextToRun returned n.
Dispatch(n) ==
    /\ cur = NoThread
    /\ n \in ready
    /\ cur' = n
    /\ ready' = ready \ {n}
    /\ UNCHANGED blocked

\* Scheduler::ReadyToRun of a sleeping thread.
Wake(t) ==
    /\ t \in blocked
    /\ blocked' = blocked \ {t}
    /\ ready' = ready \cup {t}
    /\ UNCHANGED cur
-----------------------------------------------------------------------------
DispatcherNext ==
    \/ Block
    \/ Finish
    \/ \E t \in Threads : Fork(t) \/ YieldTo(t) \/ Dispatch(t) \/ Wake(t)

DispatcherSpec == DispatcherInit /\ [][DispatcherNext]_dispatcherVars

\* No thread is in two of the three places at once: a thread that runs is on
\* no list, and one that sleeps is not ready.
OnePlace ==
    /\ cur \notin ready \cup blocked
    /\ ready \cap blocked = {}
=============================================================================
