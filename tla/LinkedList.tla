----------------------------- MODULE LinkedList -----------------------------
(***************************************************************************)
(* class List and class SortedList of lib/list.cc, down to the pointers:   *)
(* elements are allocated and deleted, first, last and next are assigned   *)
(* as in the code.  Every queue of the kernel is one of these: the ready   *)
(* lists, semaphore queues, waitQueue, SynchList and pending interrupts.   *)
(***************************************************************************)
EXTENDS Integers, Sequences, FiniteSets, SequencesExt

CONSTANTS
    Items,      \* the items, told apart by ==
    Key,        \* Key[x] < Key[y] iff compare(x, y) < 0
    Elements,   \* addresses of ListElement objects
    NULL

VARIABLES
    sorted,                     \* the object is a SortedList
    first, last, numInList,     \* the fields of List
    next, item,                 \* the fields of each ListElement
    allocated,                  \* the ListElements that exist
    result                      \* what the last RemoveFront returned

vars == <<sorted, first, last, numInList, next, item, allocated, result>>

\* The contents of memory that is not allocated do not matter: any will do.
Init ==
    /\ sorted \in BOOLEAN
    /\ first = NULL /\ last = NULL /\ numInList = 0
    /\ allocated = {}
    /\ next = [e \in Elements |-> NULL]
    /\ \E x \in Items : item = [e \in Elements |-> x] /\ result = x
-----------------------------------------------------------------------------
(***************************************************************************)
(* Walking the list.                                                       *)
(***************************************************************************)
Size == Cardinality(Elements)

\* Where ptr points after k rounds of ptr = ptr->next from first.
Walk == LET ptr[k \in 0..Size] ==
              IF k = 0 THEN first
              ELSE IF ptr[k - 1] = NULL THEN NULL ELSE next[ptr[k - 1]]
        IN  ptr

\* The elements a walk meets; that of a list with a cycle has Size + 1.
Chain == LET steps == {k \in 0..Size : Walk[k] # NULL}
         IN  [k \in 1..Cardinality(steps) |-> Walk[k - 1]]

IsInList(x) == \E k \in 1..Len(Chain) : item[Chain[k]] = x
-----------------------------------------------------------------------------
(***************************************************************************)
(* The operations.  One whose assertion fails is not enabled: to keep the  *)
(* assertion is the caller's part.                                         *)
(***************************************************************************)
\* new ListElement<T>(x) at address e, for an item that is not in the list.
New(e, x) ==
    /\ ~IsInList(x)
    /\ e \notin allocated
    /\ allocated' = allocated \cup {e}
    /\ item' = [item EXCEPT ![e] = x]
    /\ numInList' = numInList + 1
    /\ UNCHANGED result

\* delete e.  Its fields keep their values until the address is used again.
Delete(e) ==
    /\ allocated' = allocated \ {e}
    /\ numInList' = numInList - 1
    /\ UNCHANGED item

\* List::Append.
AppendItem(e, x) ==
    /\ New(e, x)
    /\ last' = e
    /\ IF numInList = 0
       THEN first' = e /\ next' = [next EXCEPT ![e] = NULL]
       ELSE UNCHANGED first /\ next' = [next EXCEPT ![e] = NULL, ![last] = e]

\* List::Prepend.
PrependItem(e, x) ==
    /\ New(e, x)
    /\ first' = e
    /\ IF numInList = 0
       THEN last' = e /\ next' = [next EXCEPT ![e] = NULL]
       ELSE UNCHANGED last /\ next' = [next EXCEPT ![e] = first]

\* List::RemoveFront, without its result.
UnlinkFront ==
    /\ numInList # 0
    /\ IF first = last
       THEN first' = NULL /\ last' = NULL
       ELSE first' = next[first] /\ UNCHANGED last
    /\ Delete(first)
    /\ UNCHANGED next

RemoveFront == UnlinkFront /\ result' = item[first]

\* Mutant: last is not moved back when the last element goes.
RemoveItemKeepsLast(x) ==
    /\ IsInList(x)
    /\ UNCHANGED result
    /\ \/ item[first] = x /\ UnlinkFront
       \/ /\ item[first] # x
          /\ LET k == Min({j \in 2..Len(Chain) : item[Chain[j]] = x})
                 prev == Chain[k - 1]
                 ptr == Chain[k]
             IN  /\ next' = [next EXCEPT ![prev] = next[ptr]]
                 /\ Delete(ptr)
                 /\ UNCHANGED <<first, last>>

\* List::Remove: the front, or the element found behind prev.
RemoveItem(x) ==
    /\ IsInList(x)
    /\ UNCHANGED result
    /\ \/ item[first] = x /\ UnlinkFront
       \/ /\ item[first] # x
          /\ LET k == Min({j \in 2..Len(Chain) : item[Chain[j]] = x})
                 prev == Chain[k - 1]
                 ptr == Chain[k]
             IN  /\ next' = [next EXCEPT ![prev] = next[ptr]]
                 /\ last' = IF next[ptr] = NULL THEN prev ELSE last
                 /\ Delete(ptr)
                 /\ UNCHANGED first

\* Mutant: an item goes before those that compare equal.
InsertUnstable(e, x) ==
    /\ New(e, x)
    /\ LET Larger(p) == Key[x] <= Key[item[p]]
           splice == {k \in 1..Len(Chain) - 1 : Larger(Chain[k + 1])}
       IN  CASE numInList = 0 ->
                    /\ first' = e /\ last' = e
                    /\ next' = [next EXCEPT ![e] = NULL]
             [] numInList # 0 /\ Larger(first) ->
                    /\ first' = e
                    /\ next' = [next EXCEPT ![e] = first]
                    /\ UNCHANGED last
             [] numInList # 0 /\ ~Larger(first) /\ splice # {} ->
                    LET ptr == Chain[Min(splice)] IN
                    /\ next' = [next EXCEPT ![e] = next[ptr], ![ptr] = e]
                    /\ UNCHANGED <<first, last>>
             [] OTHER ->
                    /\ next' = [next EXCEPT ![e] = NULL, ![last] = e]
                    /\ last' = e
                    /\ UNCHANGED first

\* SortedList::Insert: at the front, behind the first ptr whose successor is
\* larger, or at the end.
Insert(e, x) ==
    /\ New(e, x)
    /\ LET Larger(p) == Key[x] < Key[item[p]]
           splice == {k \in 1..Len(Chain) - 1 : Larger(Chain[k + 1])}
       IN  CASE numInList = 0 ->
                    /\ first' = e /\ last' = e
                    /\ next' = [next EXCEPT ![e] = NULL]
             [] numInList # 0 /\ Larger(first) ->
                    /\ first' = e
                    /\ next' = [next EXCEPT ![e] = first]
                    /\ UNCHANGED last
             [] numInList # 0 /\ ~Larger(first) /\ splice # {} ->
                    LET ptr == Chain[Min(splice)] IN
                    /\ next' = [next EXCEPT ![e] = next[ptr], ![ptr] = e]
                    /\ UNCHANGED <<first, last>>
             [] OTHER ->
                    /\ next' = [next EXCEPT ![e] = NULL, ![last] = e]
                    /\ last' = e
                    /\ UNCHANGED first
-----------------------------------------------------------------------------
\* A List; a SortedList, where Append and Prepend are Insert (list.h:105-108).
Next ==
    /\ UNCHANGED sorted
    /\ \/ RemoveFront
       \/ \E x \in Items :
             \/ RemoveItem(x)
             \/ \E e \in Elements :
                   \/ sorted /\ Insert(e, x)
                   \/ ~sorted /\ (AppendItem(e, x) \/ PrependItem(e, x))

Spec == Init /\ [][Next]_vars
-----------------------------------------------------------------------------
(***************************************************************************)
(* Properties.                                                             *)
(***************************************************************************)
\* List::SanityCheck: last is reached from first in numInList elements, and
\* nothing follows it.  Beyond it: the elements are allocated ones, each met
\* once, and no allocated element has been lost.
SanityCheck ==
    /\ first = NULL <=> last = NULL
    /\ Len(Chain) = numInList
    /\ numInList > 0 => Chain[numInList] = last
    /\ Cardinality(allocated) = numInList
    /\ allocated = {Chain[k] : k \in 1..Len(Chain)}

\* The items in list order.
Contents == [k \in 1..Len(Chain) |-> item[Chain[k]]]
=============================================================================
