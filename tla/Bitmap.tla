------------------------------- MODULE Bitmap -------------------------------
(***************************************************************************)
(* class Bitmap of lib/bitmap.cc and class PersistentBitmap of             *)
(* filesys/pbitmap.cc, down to the words.  The bitmap of free sectors and  *)
(* mmBitmap, the bitmap of free page frames, are these.  A word is the set *)
(* of its bits that are 1.                                                 *)
(***************************************************************************)
EXTENDS Integers, FiniteSets, FiniteSetsExt

CONSTANTS NumBits, BitsInWord

VARIABLES map,      \* Bitmap::map
          file,     \* the words in the file of a PersistentBitmap
          answer    \* what the last operation returned

vars == <<map, file, answer>>

divRoundUp(n, s) == (n \div s) + (IF n % s > 0 THEN 1 ELSE 0)
numWords == divRoundUp(NumBits, BitsInWord)
Bits == 0 .. NumBits - 1

\* Bitmap::Bitmap; the file is a bitmap that was written at once.
Init ==
    /\ map = [w \in 0 .. numWords - 1 |-> {}]
    /\ file = map
    /\ answer = -1
-----------------------------------------------------------------------------
\* Bitmap::Test.
Test(which) == which % BitsInWord \in map[which \div BitsInWord]

\* Bitmap::Mark and Bitmap::Clear, without the assertions.
Marked(which) == [map EXCEPT ![which \div BitsInWord] = @ \cup {which % BitsInWord}]
Cleared(which) == [map EXCEPT ![which \div BitsInWord] = @ \ {which % BitsInWord}]

Mark(which) == map' = Marked(which) /\ UNCHANGED <<file, answer>>
Clear(which) == map' = Cleared(which) /\ UNCHANGED <<file, answer>>

\* Test as its callers see it: the bit's number stands for TRUE.
Ask(which) ==
    /\ answer' = IF Test(which) THEN which ELSE -1
    /\ UNCHANGED <<map, file>>

\* Mutant: the loops run over the bits of all words.
UnsetMutated == {i \in 0 .. numWords * BitsInWord - 1 : ~Test(i)}

\* The bits for which the loops of FindAndSet and NumClear act.
Unset == {i \in Bits : ~Test(i)}

\* Bitmap::FindAndSet: the first i of the loop whose bit is clear.
FindAndSet ==
    /\ IF Unset = {} THEN answer' = -1 /\ UNCHANGED map
       ELSE answer' = Min(Unset) /\ map' = Marked(Min(Unset))
    /\ UNCHANGED file

\* Bitmap::NumClear.
NumClear == answer' = Cardinality(Unset) /\ UNCHANGED <<map, file>>

\* PersistentBitmap::WriteBack and FetchFrom.
WriteBack == file' = map /\ UNCHANGED <<map, answer>>
FetchFrom == map' = file /\ UNCHANGED <<file, answer>>

Next ==
    \/ \E i \in Bits : Mark(i) \/ Clear(i) \/ Ask(i)
    \/ FindAndSet \/ NumClear \/ WriteBack \/ FetchFrom

Spec == Init /\ [][Next]_vars
-----------------------------------------------------------------------------
\* The bits that words w hold, those of the last word past NumBits included.
BitsOf(w) == {i \in 0 .. numWords * BitsInWord - 1 : i % BitsInWord \in w[i \div BitsInWord]}
=============================================================================
