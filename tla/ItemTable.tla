----------------------------- MODULE ItemTable -----------------------------
(***************************************************************************)
(* What class HashTable (lib/hash.h) and class Bitmap (lib/bitmap.h) are   *)
(* for: a set of items with distinct keys, to be searched, counted, walked *)
(* and, for a PersistentBitmap, kept in a file.                            *)
(***************************************************************************)
EXTENDS Integers, FiniteSets

CONSTANTS Items, KeyOf,     \* KeyOf[x]: the key of item x
          None              \* the answer when there is no item

VARIABLES contents,         \* the set
          saved,            \* its copy in the file
          unvisited,        \* what an iterator has still to show
          answer            \* what the last operation returned

tableVars == <<contents, saved, unvisited, answer>>

Keyed(k) == {x \in contents : KeyOf[x] = k}
Answer(S) == answer' = IF S = {} THEN None ELSE CHOOSE x \in S : TRUE

TableInit == contents = {} /\ saved = {} /\ unvisited = {} /\ answer = None

Add(x) ==
    /\ Keyed(KeyOf[x]) \subseteq {x}
    /\ contents' = contents \cup {x}
    /\ UNCHANGED <<saved, unvisited, answer>>

Discard(x) ==
    /\ contents' = contents \ {x}
    /\ UNCHANGED <<saved, unvisited, answer>>

TakeKey(k) ==
    /\ Keyed(k) # {} /\ Answer(Keyed(k))
    /\ contents' = contents \ Keyed(k)
    /\ UNCHANGED <<saved, unvisited>>

Search(k) == Answer(Keyed(k)) /\ UNCHANGED <<contents, saved, unvisited>>

\* The item of the smallest key, of those that are not in the set, joins it.
Allocate ==
    LET free == Items \ contents
        least == {x \in free : \A y \in free : KeyOf[x] <= KeyOf[y]}
    IN  /\ Answer(least)
        /\ contents' = contents \cup least
        /\ UNCHANGED <<saved, unvisited>>

CountFree ==
    /\ answer' = Cardinality(Items \ contents)
    /\ UNCHANGED <<contents, saved, unvisited>>

Walk == unvisited' = contents /\ UNCHANGED <<contents, saved, answer>>

Visit ==
    /\ answer' \in unvisited
    /\ unvisited' = unvisited \ {answer'}
    /\ UNCHANGED <<contents, saved>>

Save == saved' = contents /\ UNCHANGED <<contents, unvisited, answer>>
Restore == contents' = saved /\ UNCHANGED <<saved, unvisited, answer>>

TableNext ==
    \/ \E x \in Items : Add(x) \/ Discard(x) \/ TakeKey(KeyOf[x]) \/ Search(KeyOf[x])
    \/ Allocate \/ CountFree \/ Walk \/ Visit \/ Save \/ Restore

TableSpec == TableInit /\ [][TableNext]_tableVars
=============================================================================
