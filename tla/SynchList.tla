----------------------------- MODULE SynchList -----------------------------
(***************************************************************************)
(* class SynchList of threads/synchlist.cc: a list under a lock, with a    *)
(* condition on which RemoveFront waits while the list is empty.  Threads  *)
(* call its operations in any order; Monitor.tla has the lock and the      *)
(* condition, and at[t] (see there) says how far t is in its operation.    *)
(***************************************************************************)
EXTENDS Monitor

CONSTANTS
    Items,        \* what the lists hold
    NoItem

VARIABLES
    list,         \* SynchList::list
    op,           \* op[t]: the operation t executes
    item,         \* item[t]: its argument
    aborted       \* an assertion of class List failed

listVars == <<list, op, item, aborted>>
synchListVars == <<allVars, listVars>>

Ops == {"Append", "RemoveFront", "Apply", "RemoveSpecificOne"}

SynchListTypeOK ==
    /\ MonitorTypeOK
    /\ list \in Seq(Items)
    /\ op \in [Threads -> Ops \cup {"none"}]
    /\ item \in [Threads -> Items \cup {NoItem}]
    /\ aborted \in BOOLEAN

SynchListInit ==
    /\ MonitorInit
    /\ list = <<>>
    /\ op = [t \in Threads |-> "none"]
    /\ item = [t \in Threads |-> NoItem]
    /\ aborted = FALSE
-----------------------------------------------------------------------------
IsInList(x) == \E i \in 1..Len(list) : list[i] = x

\* t calls operation o, which begins with lock->Acquire().  RemoveFront and
\* Apply have no argument.
Call(t, o, x) ==
    /\ op[t] = "none"
    /\ o \in {"RemoveFront", "Apply"} <=> x = NoItem
    /\ Acquire(t)
    /\ op' = [op EXCEPT ![t] = o]
    /\ item' = [item EXCEPT ![t] = x]
    /\ UNCHANGED <<list, aborted>>

\* The last section of every operation: lock->Release() and the return.  An
\* item that RemoveFront returns is the caller's from here on.
ReleaseAndReturn(t) ==
    /\ Release(t)
    /\ op' = [op EXCEPT ![t] = "none"]
    /\ item' = [item EXCEPT ![t] = NoItem]

\* An assertion fails: the machine stops.
Abort ==
    /\ aborted' = TRUE
    /\ UNCHANGED <<allVars, list, op, item>>

\* Mutant: a signal only when the list was empty.
AppendItemSignalsOnce(t) ==
    /\ op[t] = "Append" /\ at[t] = "entered" /\ Inside(t)
    /\ \/ IsInList(item[t]) /\ Abort
       \/ /\ ~IsInList(item[t])
          /\ list' = Append(list, item[t])
          /\ IF waitQueue # <<>> /\ list = <<>>
             THEN Signal(t) /\ UNCHANGED <<op, item>>
             ELSE ReleaseAndReturn(t)
          /\ UNCHANGED aborted

\* Append after Acquire: list->Append asserts that the item is not there;
\* the signal goes to a waiter, if any.
AppendItem(t) ==
    /\ op[t] = "Append" /\ at[t] = "entered" /\ Inside(t)
    /\ \/ IsInList(item[t]) /\ Abort
       \/ /\ ~IsInList(item[t])
          /\ list' = Append(list, item[t])
          /\ IF waitQueue # <<>> THEN Signal(t) /\ UNCHANGED <<op, item>>
                                 ELSE ReleaseAndReturn(t)
          /\ UNCHANGED aborted

\* Append after the signal.
AppendRelease(t) ==
    /\ op[t] = "Append" /\ at[t] = "held"
    /\ ReleaseAndReturn(t)
    /\ UNCHANGED <<list, aborted>>

\* RemoveFront after Acquire, the first one or the one in Wait: the test of
\* the while loop, then Wait or the removal.
RemoveFrontItem(t) ==
    /\ op[t] = "RemoveFront" /\ at[t] = "entered" /\ Inside(t)
    /\ \/ /\ list = <<>>
          /\ Wait(t)
          /\ UNCHANGED <<list, op, item>>
       \/ /\ list # <<>>
          /\ list' = Tail(list)
          /\ ReleaseAndReturn(t)
    /\ UNCHANGED aborted

\* Apply, which reads the list.
ApplyAll(t) ==
    /\ op[t] = "Apply" /\ at[t] = "entered"
    /\ ReleaseAndReturn(t)
    /\ UNCHANGED <<list, aborted>>

\* RemoveSpecificOne; List::Remove asserts that the item is there and removes
\* the first element that holds it.
RemoveItem(t) ==
    /\ op[t] = "RemoveSpecificOne" /\ at[t] = "entered" /\ Inside(t)
    /\ \/ ~IsInList(item[t]) /\ Abort
       \/ /\ \E k \in 1..Len(list) :
                /\ list[k] = item[t] /\ \A j \in 1..k - 1 : list[j] # item[t]
                /\ list' = SubSeq(list, 1, k - 1) \o SubSeq(list, k + 1, Len(list))
          /\ ReleaseAndReturn(t)
          /\ UNCHANGED aborted

\* The rest of Wait and of P.
Resume(t) ==
    /\ WaiterP(t) \/ Reacquire(t) \/ TestAgain(t)
    /\ UNCHANGED listVars

Step(t) ==
    /\ ~aborted
    /\ \/ AppendItem(t) \/ AppendRelease(t) \/ RemoveFrontItem(t)
       \/ ApplyAll(t) \/ RemoveItem(t) \/ Resume(t)

Machine(t) ==
    /\ ~aborted
    /\ \/ Switch(t)
       \/ ForkCaller(t)
       \/ op[t] = "none" /\ FinishCaller(t)
    /\ UNCHANGED listVars

SynchListNext ==
    \E t \in Threads :
        \/ Step(t)
        \/ Machine(t)
        \/ \E o \in Ops, x \in Items \cup {NoItem} : ~aborted /\ Call(t, o, x)

SynchListSpec == SynchListInit /\ [][SynchListNext]_synchListVars
-----------------------------------------------------------------------------
(***************************************************************************)
(* Properties.                                                             *)
(***************************************************************************)
\* Threads that called RemoveFront and will still test the list.
Testing == {t \in Threads : op[t] = "RemoveFront"
              /\ \A i \in 1..Len(waitQueue) : waitQueue[i] # t}

\* While a thread waits for an item, every item is already promised to a
\* thread that will test the list: one Signal for each Append is enough,
\* although any thread may come first and take the item (Mesa style).
NoItemStranded == waitQueue # <<>> => Len(list) <= Cardinality(Testing)
=============================================================================
