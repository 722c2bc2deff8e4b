----------------------------- MODULE HashTable -----------------------------
(***************************************************************************)
(* class HashTable and class HashIterator of lib/hash.cc.  A bucket is a   *)
(* List, of which LinkedList.tla shows that it keeps a sequence.  An       *)
(* operation whose assertion on its caller fails is not enabled.           *)
(***************************************************************************)
EXTENDS Integers, Sequences, FiniteSets, SequencesExt

CONSTANTS Items, KeyOf, Hash,       \* getKey and hash
          InitialBuckets, ResizeRatio, IncreaseSizeBy,
          Nil                       \* the item NULL

VARIABLES buckets, numItems,        \* HashTable; numBuckets is Size
          iter,                     \* HashIterator: bucket and position in it
          answer                    \* the item the last operation returned

vars == <<buckets, numItems, iter, answer>>

Size == Cardinality(DOMAIN buckets)

InitBuckets(sz) == [i \in 0 .. sz - 1 |-> <<>>]
NoIterator == <<>>

Init ==
    /\ numItems = 0
    /\ buckets = InitBuckets(InitialBuckets)
    /\ iter = NoIterator
    /\ answer = Nil
-----------------------------------------------------------------------------
HashValue(key, numBuckets) == Hash[key] % numBuckets

\* HashTable::FindInBucket: the first item of the bucket that has the key.
FindInBucket(bucket, key) ==
    LET found == SelectSeq(buckets[bucket], LAMBDA x : KeyOf[x] = key)
    IN  IF found = <<>> THEN Nil ELSE Head(found)

\* HashTable::Find.
Found(key) == FindInBucket(HashValue(key, Size), key)

\* buckets[HashValue(getKey(x))]->Append(x).
Put(table, x) ==
    LET numBuckets == Cardinality(DOMAIN table)
    IN  [table EXCEPT ![HashValue(KeyOf[x], numBuckets)] = Append(@, x)]

\* Mutant: the items of the last old bucket are left behind.
ReHashMutated(table) ==
    LET n == Cardinality(DOMAIN table)
        moved == FlattenSeq([i \in 1 .. n - 1 |-> table[i - 1]])
    IN  FoldLeft(Put, InitBuckets(n * IncreaseSizeBy), moved)

\* HashTable::ReHash: from the fronts of the old buckets, one after the other.
ReHash(table) ==
    LET n == Cardinality(DOMAIN table)
        moved == FlattenSeq([i \in 1 .. n |-> table[i - 1]])
    IN  FoldLeft(Put, InitBuckets(n * IncreaseSizeBy), moved)

\* HashTable::Insert.
Insert(x) ==
    /\ iter = NoIterator
    /\ Found(KeyOf[x]) = Nil
    /\ buckets' = Put(IF numItems \div Size >= ResizeRatio THEN ReHash(buckets)
                                                            ELSE buckets, x)
    /\ numItems' = numItems + 1
    /\ UNCHANGED <<iter, answer>>

\* HashTable::Remove.
RemoveKey(key) ==
    /\ iter = NoIterator
    /\ Found(key) # Nil
    /\ answer' = Found(key)
    /\ buckets' = [buckets EXCEPT ![HashValue(key, Size)] = RemoveFirst(@, answer')]
    /\ numItems' = numItems - 1
    /\ UNCHANGED iter

Find(key) == answer' = Found(key) /\ UNCHANGED <<buckets, numItems, iter>>
-----------------------------------------------------------------------------
(***************************************************************************)
(* The iterator; nobody changes the table while one is in use.             *)
(***************************************************************************)
\* HashTable::FindNextFullBucket.
FindNextFullBucket(bucket) ==
    Min({i \in bucket .. Size - 1 : buckets[i] # <<>>} \cup {Size})

IsDone == iter.bucket = Size

\* HashIterator::HashIterator.
Iterate ==
    /\ iter = NoIterator
    /\ iter' = [bucket |-> FindNextFullBucket(0), at |-> 1]
    /\ UNCHANGED <<buckets, numItems, answer>>

\* Mutant: bucket is not incremented before the search.
AdvanceMutated ==
    IF iter.at < Len(buckets[iter.bucket])
    THEN [iter EXCEPT !.at = @ + 1]
    ELSE [bucket |-> FindNextFullBucket(iter.bucket), at |-> 1]

\* HashIterator::Next.
Advance ==
    IF iter.at < Len(buckets[iter.bucket])
    THEN [iter EXCEPT !.at = @ + 1]
    ELSE [bucket |-> FindNextFullBucket(iter.bucket + 1), at |-> 1]

\* A round of the loop over an iterator: Item, then Next.
VisitItem ==
    /\ iter # NoIterator /\ ~IsDone
    /\ answer' = buckets[iter.bucket][iter.at]
    /\ iter' = Advance
    /\ UNCHANGED <<buckets, numItems>>

EndIteration ==
    /\ iter # NoIterator /\ IsDone
    /\ iter' = NoIterator
    /\ UNCHANGED <<buckets, numItems, answer>>

Next ==
    \/ \E x \in Items : Insert(x) \/ RemoveKey(KeyOf[x]) \/ Find(KeyOf[x])
    \/ Iterate \/ VisitItem \/ EndIteration

Spec == Init /\ [][Next]_vars
-----------------------------------------------------------------------------
AllItems == UNION {ToSet(buckets[i]) : i \in DOMAIN buckets}

\* What the iterator has still to show.
Ahead ==
    IF iter = NoIterator THEN {}
    ELSE UNION {ToSet(buckets[i]) : i \in {j \in DOMAIN buckets : j > iter.bucket}}
           \cup (IF IsDone THEN {}
                 ELSE ToSet(SubSeq(buckets[iter.bucket], iter.at,
                                   Len(buckets[iter.bucket]))))

\* HashTable::SanityCheck: every item is in the bucket of its key, also after
\* ReHash, and numItems counts them.
SanityCheck ==
    /\ \A i \in DOMAIN buckets : \A x \in ToSet(buckets[i]) : i = HashValue(KeyOf[x], Size)
    /\ numItems = FoldLeft(LAMBDA n, i : n + Len(buckets[i - 1]), 0,
                           [i \in 1 .. Size |-> i])
=============================================================================
