----------------------------- MODULE Interrupt -----------------------------
(***************************************************************************)
(* The simulated interrupt hardware (machine/interrupt.cc) and the timer   *)
(* device (machine/timer.cc) of each simulated machine h.                  *)
(*                                                                         *)
(* pending[h]   Interrupt::pending, the sorted list of interrupts that are *)
(*              to happen.  Each is kept with the ticks left until it is   *)
(*              due, when - totalTicks: nothing else reads an absolute     *)
(*              time, and devices that poll would otherwise make the state *)
(*              infinite.                                                  *)
(* inHandler[h] Interrupt::inHandler: CheckIfDue is in its loop.           *)
(* aborted      an ASSERT of a device has failed                           *)
(* The absolute time, which the disk alone reads, is kept in SynchDisk.    *)
(***************************************************************************)
EXTENDS Integers, Sequences

CONSTANTS
    SystemTick,     \* the ticks that one enabling of interrupts takes
    TimerTicks      \* the period of the timer

VARIABLES pending, inHandler, aborted

interruptVars == <<pending, inHandler>>

Host == "host"      \* the machine of the tests that need one alone

\* class PendingInterrupt
PendingInterrupt(type, due) == [type |-> type, due |-> due]

(***************************************************************************)
(* SortedList::Insert with PendingCompare walks the list up to the first   *)
(* interrupt that is due later than the new one, and puts that before it.  *)
(***************************************************************************)
Walk(list, due) ==
    CHOOSE k \in 0 .. Len(list) :
        /\ \A i \in 1 .. k : list[i].due <= due
        /\ k < Len(list) => list[k + 1].due > due

Insert(list, entry) ==
    LET k == Walk(list, entry.due)
    IN  SubSeq(list, 1, k) \o <<entry>> \o SubSeq(list, k + 1, Len(list))

\* The list with one more interrupt of the given type, due fromNow > 0 ticks from now.
Schedule(list, type, fromNow) == Insert(list, PendingInterrupt(type, fromNow))

\* Interrupt::Interrupt on each host, and the interrupts that its devices start with
Interrupt(hosts, list) ==
    /\ pending = [h \in hosts |-> list]
    /\ inHandler = [h \in hosts |-> FALSE]
    /\ aborted = FALSE

IsDue(list) == list # <<>> /\ list[1].due <= 0

(***************************************************************************)
(* The clock of h moves on by n ticks.  CheckIfDue then enters its loop if *)
(* the first interrupt is due.                                             *)
(***************************************************************************)
Advance(h, n) ==
    LET list == [i \in DOMAIN pending[h] |->
                    [pending[h][i] EXCEPT !.due = @ - n]]
    IN  /\ ~inHandler[h]
        /\ pending' = [pending EXCEPT ![h] = list]
        /\ inHandler' = [inHandler EXCEPT ![h] = IsDue(list)]

\* OneTick, called whenever the running thread enables interrupts.
OneTick(h) == Advance(h, SystemTick)

\* The ticks by which Idle moves the clock: up to the first pending interrupt.
IdleTicks(h) == pending[h][1].due

\* Idle: no thread is ready, and the clock moves to the first interrupt.
Idle(h) ==
    /\ pending[h] # <<>>
    /\ Advance(h, IdleTicks(h))

\* The next handler that CheckIfDue's loop calls is the one of this device.
Calls(h, type) == inHandler[h] /\ pending[h][1].type = type

\* Mutant: CheckIfDue calls one handler, with "if" in place of its loop.
CheckIfDueMutated(h, list) ==
    /\ pending' = [pending EXCEPT ![h] = list]
    /\ inHandler' = [inHandler EXCEPT ![h] = FALSE]

(***************************************************************************)
(* One turn of the do-while loop of CheckIfDue: the first interrupt has    *)
(* been removed and its handler has left the list as given; the loop goes  *)
(* on while the next one is due.                                           *)
(***************************************************************************)
CheckIfDue(h, list) ==
    /\ pending' = [pending EXCEPT ![h] = list]
    /\ inHandler' = [inHandler EXCEPT ![h] = IsDue(list)]

\* The list while a handler runs: RemoveFront has taken its own interrupt off.
Rest(h) == Tail(pending[h])

(***************************************************************************)
(* Timer::CallBack: the alarm asks for a context switch, which the models  *)
(* of the devices allow at any point, and the timer is set again, for      *)
(* TimerTicks or, under -rs, for a random delay.                           *)
(***************************************************************************)
SetInterrupt(list) ==
    {Schedule(list, "TimerInt", delay) : delay \in 1 .. 2 * TimerTicks}

TimerCallBack(h) ==
    /\ Calls(h, "TimerInt")
    /\ \E list \in SetInterrupt(Rest(h)) : CheckIfDue(h, list)

(***************************************************************************)
(* No interrupt is missed or late: outside of a handler every pending      *)
(* interrupt lies in the future, and the list is in the order of the       *)
(* times, so that looking at its front alone (CheckIfDue, Idle) is enough. *)
(***************************************************************************)
NeverLate ==
    \A h \in DOMAIN pending :
        /\ ~inHandler[h] => \A i \in DOMAIN pending[h] : pending[h][i].due > 0
        /\ \A i, j \in DOMAIN pending[h] :
               i < j => pending[h][i].due <= pending[h][j].due
=============================================================================
