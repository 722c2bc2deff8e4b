------------------------------ MODULE ItemList ------------------------------
(***************************************************************************)
(* What class List and class SortedList (lib/list.h) promise: a sequence   *)
(* of distinct items.                                                      *)
(***************************************************************************)
EXTENDS Integers, Sequences, SequencesExt

CONSTANTS Items, Key       \* Key[x] < Key[y] iff compare(x, y) < 0

VARIABLES sorted,   \* TRUE for a SortedList
          items,    \* the sequence
          result    \* what the last RemoveFront returned

listVars == <<sorted, items, result>>

IsIn(x) == \E i \in 1..Len(items) : items[i] = x

ListInit == sorted \in BOOLEAN /\ items = <<>> /\ result \in Items

AddLast(x) == ~IsIn(x) /\ items' = Append(items, x) /\ UNCHANGED result
AddFirst(x) == ~IsIn(x) /\ items' = <<x>> \o items /\ UNCHANGED result

TakeFirst ==
    /\ items # <<>>
    /\ items' = Tail(items)
    /\ result' = Head(items)

Take(x) ==
    /\ IsIn(x)
    /\ items' = SelectSeq(items, LAMBDA y : y # x)
    /\ UNCHANGED result

\* After every item that does not compare larger, before the others.
AddSorted(x) ==
    /\ ~IsIn(x)
    /\ items' = SelectSeq(items, LAMBDA y : Key[y] <= Key[x]) \o <<x>>
                  \o SelectSeq(items, LAMBDA y : Key[y] > Key[x])
    /\ UNCHANGED result

ListNext ==
    /\ UNCHANGED sorted
    /\ \/ TakeFirst
       \/ \E x \in Items :
             \/ Take(x)
             \/ sorted /\ AddSorted(x)
             \/ ~sorted /\ (AddLast(x) \/ AddFirst(x))

ListSpec == ListInit /\ [][ListNext]_listVars
=============================================================================
