-------------------------- MODULE SchedulerLemmas --------------------------
(***************************************************************************)
(* What ReadyToRun and FindNextToRun do to the ready lists of a policy, as *)
(* a set of threads and as queues in their order; the inductive invariant  *)
(* of the thread system; and the steps after which the threads that are    *)
(* ready or running are the same, or one yields to another or is woken.    *)
(***************************************************************************)
EXTENDS Scheduler, WellFoundedInduction, TLAPS

(***************************************************************************)
(* Lists on which an element is at most once: insertion and removal.       *)
(***************************************************************************)
\* The elements of a list.
Elements(q) == {q[i] : i \in 1..Len(q)}

\* No element occurs twice.
Distinct(q) == \A i, j \in 1..Len(q) : q[i] = q[j] => i = j

\* new is s with e at place k.
IsInserted(s, k, e, new) ==
    /\ Len(new) = Len(s) + 1
    /\ \A i \in 1 .. Len(s) + 1 :
          new[i] = IF i < k THEN s[i] ELSE IF i = k THEN e ELSE s[i - 1]

\* Insertion of an element that is not there.
LEMMA InsertedElements ==
    ASSUME NEW S, NEW s \in Seq(S), NEW e \in S, e \notin Elements(s), Distinct(s),
           NEW k \in 1 .. Len(s) + 1, NEW new \in Seq(S), IsInserted(s, k, e, new)
    PROVE  Elements(new) = Elements(s) \cup {e} /\ Distinct(new)
<1>0. Len(s) \in Nat /\ k \in Int
  OBVIOUS
<1> DEFINE p(j) == IF j < k THEN j ELSE j - 1
<1>2. \A j \in 1 .. Len(new) : j # k => p(j) \in 1 .. Len(s) /\ new[j] = s[p(j)]
  BY <1>0 DEF IsInserted
<1>3. \A i, j \in 1 .. Len(new) : i # k /\ j # k /\ p(i) = p(j) => i = j
  BY <1>0 DEF IsInserted
<1> HIDE DEF p
<1>4. new[k] = e /\ k \in 1 .. Len(new)
  BY <1>0 DEF IsInserted
<1>5. ASSUME NEW i \in 1 .. Len(s) PROVE s[i] \in Elements(new)
  <2>1. CASE i < k
    <3>1. i \in 1 .. Len(new) /\ new[i] = s[i]
      BY <1>0, <2>1 DEF IsInserted
    <3> QED
      BY <3>1 DEF Elements
  <2>2. CASE i >= k
    <3>1. i + 1 \in 1 .. Len(new) /\ ~(i + 1 < k) /\ i + 1 # k /\ (i + 1) - 1 = i
      BY <1>0, <2>2 DEF IsInserted
    <3>2. new[i + 1] = s[i]
      BY <1>0, <3>1 DEF IsInserted
    <3> QED
      BY <3>1, <3>2 DEF Elements
  <2> QED
    BY <1>0, <2>1, <2>2
<1>6. Elements(new) = Elements(s) \cup {e}
  BY <1>2, <1>4, <1>5 DEF Elements
<1>7. Distinct(new)
  <2> SUFFICES ASSUME NEW i \in 1 .. Len(new), NEW j \in 1 .. Len(new), new[i] = new[j]
               PROVE  i = j
    BY DEF Distinct
  <2>1. CASE i # k /\ j # k
    BY <1>2, <1>3, <2>1 DEF Distinct
  <2>2. CASE i = k \/ j = k
    BY <1>2, <1>4, <2>2 DEF Elements
  <2> QED
    BY <2>1, <2>2
<1> QED
  BY <1>6, <1>7

\* InsertAt moves the entries from its place on back by one.
LEMMA InsertAtShape ==
    ASSUME NEW S, NEW s \in Seq(S), NEW e \in S, NEW k \in 1 .. Len(s) + 1
    PROVE  InsertAt(s, k, e) \in Seq(S) /\ IsInserted(s, k, e, InsertAt(s, k, e))
<1> DEFINE front == SubSeq(s, 1, k - 1)
           back == SubSeq(s, k, Len(s))
           fore == front \o <<e>>
           new == fore \o back
<1>0. Len(s) \in Nat /\ k \in Int
  OBVIOUS
<1>1. /\ front \in Seq(S) /\ Len(front) = k - 1
      /\ \A i \in 1 .. k - 1 : front[i] = s[i]
  OBVIOUS
<1>2. /\ back \in Seq(S) /\ Len(back) = Len(s) - k + 1
      /\ \A i \in 1 .. Len(s) - k + 1 : back[i] = s[k + i - 1]
  OBVIOUS
<1> HIDE DEF front, back
<1>3. /\ fore \in Seq(S) /\ Len(fore) = k
      /\ \A i \in 1 .. k : fore[i] = IF i < k THEN s[i] ELSE e
  BY <1>0, <1>1
<1> HIDE DEF fore
<1>4. /\ new \in Seq(S) /\ Len(new) = Len(s) + 1
      /\ \A i \in 1 .. Len(s) + 1 : new[i] = IF i <= k THEN fore[i] ELSE back[i - k]
  <2>0. fore \in Seq(S) /\ back \in Seq(S)
    BY <1>2, <1>3
  <2>1. /\ new \in Seq(S) /\ Len(new) = Len(fore) + Len(back)
        /\ \A i \in 1 .. Len(fore) + Len(back) :
              new[i] = IF i <= Len(fore) THEN fore[i] ELSE back[i - Len(fore)]
    BY <2>0
  <2> QED
    BY <1>0, <1>2, <1>3, <2>1
<1> HIDE DEF new
<1>5. ASSUME NEW i \in 1 .. Len(s) + 1
      PROVE  new[i] = IF i < k THEN s[i] ELSE IF i = k THEN e ELSE s[i - 1]
  <2>1. i > k => i - k \in 1 .. Len(s) - k + 1 /\ k + (i - k) - 1 = i - 1
    BY <1>0
  <2>2. i > k => back[i - k] = s[i - 1]
    BY <1>2, <2>1
  <2>3. i <= k => fore[i] = IF i < k THEN s[i] ELSE e
    BY <1>0, <1>3
  <2>4. new[i] = IF i <= k THEN fore[i] ELSE back[i - k]
    BY <1>4
  <2> QED
    BY <1>0, <2>2, <2>3, <2>4
<1>6. new \in Seq(S) /\ IsInserted(s, k, e, new)
  BY <1>4, <1>5 DEF IsInserted
<1> QED
  BY <1>6 DEF new, fore, front, back, InsertAt

\* List::Append of an element that is not there.
LEMMA AppendElements ==
    ASSUME NEW S, NEW q \in Seq(S), NEW x \in S, x \notin Elements(q), Distinct(q)
    PROVE  /\ Append(q, x) \in Seq(S)
           /\ Append(q, x) # <<>>
           /\ Elements(Append(q, x)) = Elements(q) \cup {x}
           /\ Distinct(Append(q, x))
<1> DEFINE a == Append(q, x)
           k == Len(q) + 1
<1>1. a \in Seq(S) /\ a # <<>> /\ IsInserted(q, k, x, a) /\ k \in 1 .. Len(q) + 1
  BY DEF IsInserted
<1> HIDE DEF a, k
<1>2. a \in Seq(S) /\ a # <<>> /\ Elements(a) = Elements(q) \cup {x} /\ Distinct(a)
  BY <1>1, InsertedElements
<1> QED
  BY <1>2 DEF a

\* new is s without the entry at place k.
IsRemoved(s, k, new) ==
    /\ Len(new) = Len(s) - 1
    /\ \A i \in 1 .. Len(s) - 1 : new[i] = IF i < k THEN s[i] ELSE s[i + 1]

\* Removal of the element at place k.
LEMMA RemovedElements ==
    ASSUME NEW S, NEW s \in Seq(S), Distinct(s), NEW k \in 1 .. Len(s),
           NEW new \in Seq(S), IsRemoved(s, k, new)
    PROVE  Elements(new) = Elements(s) \ {s[k]} /\ Distinct(new)
<1>0. Len(s) \in Nat /\ k \in Int
  OBVIOUS
<1> DEFINE p(j) == IF j < k THEN j ELSE j + 1
<1>1. \A j \in 1 .. Len(new) : p(j) \in 1 .. Len(s) /\ p(j) # k /\ new[j] = s[p(j)]
  BY <1>0 DEF IsRemoved
<1>2. \A i, j \in 1 .. Len(new) : p(i) = p(j) => i = j
  BY <1>0 DEF IsRemoved
<1> HIDE DEF p
<1>3. ASSUME NEW i \in 1 .. Len(s), i # k PROVE s[i] \in Elements(new)
  <2>1. CASE i < k
    <3>1. i \in 1 .. Len(new) /\ new[i] = s[i]
      BY <1>0, <2>1 DEF IsRemoved
    <3> QED
      BY <3>1 DEF Elements
  <2>2. CASE i > k
    <3>1. i - 1 \in 1 .. Len(new) /\ ~(i - 1 < k) /\ (i - 1) + 1 = i
      BY <1>0, <2>2 DEF IsRemoved
    <3>2. new[i - 1] = s[i]
      BY <1>0, <3>1 DEF IsRemoved
    <3> QED
      BY <3>1, <3>2 DEF Elements
  <2> QED
    BY <1>0, <1>3, <2>1, <2>2
<1>4. Elements(new) = Elements(s) \ {s[k]}
  <2>1. \A j \in 1 .. Len(new) : new[j] \in Elements(s) /\ new[j] # s[k]
    BY <1>1 DEF Elements, Distinct
  <2>2. \A i \in 1 .. Len(s) : s[i] # s[k] => s[i] \in Elements(new)
    BY <1>3
  <2> QED
    BY <2>1, <2>2 DEF Elements
<1>5. Distinct(new)
  BY <1>1, <1>2 DEF Distinct
<1> QED
  BY <1>4, <1>5

\* RemoveAt moves the entries behind its place forward by one.
LEMMA RemoveAtShape ==
    ASSUME NEW S, NEW s \in Seq(S), NEW k \in 1 .. Len(s)
    PROVE  RemoveAt(s, k) \in Seq(S) /\ IsRemoved(s, k, RemoveAt(s, k))
<1> DEFINE front == SubSeq(s, 1, k - 1)
           back == SubSeq(s, k + 1, Len(s))
           new == front \o back
<1>0. Len(s) \in Nat /\ k \in Int
  OBVIOUS
<1>1. /\ front \in Seq(S) /\ Len(front) = k - 1
      /\ \A i \in 1 .. k - 1 : front[i] = s[i]
  OBVIOUS
<1>2. /\ back \in Seq(S) /\ Len(back) = Len(s) - k
      /\ \A i \in 1 .. Len(s) - k : back[i] = s[k + i]
  OBVIOUS
<1> HIDE DEF front, back
<1>3. /\ new \in Seq(S) /\ Len(new) = Len(s) - 1
      /\ \A i \in 1 .. Len(s) - 1 : new[i] = IF i < k THEN front[i] ELSE back[i - (k - 1)]
  <2>0. front \in Seq(S) /\ back \in Seq(S)
    BY <1>1, <1>2
  <2>1. /\ new \in Seq(S) /\ Len(new) = Len(front) + Len(back)
        /\ \A i \in 1 .. Len(front) + Len(back) :
              new[i] = IF i <= Len(front) THEN front[i] ELSE back[i - Len(front)]
    BY <2>0
  <2> QED
    BY <1>0, <1>1, <1>2, <2>1
<1> HIDE DEF new
<1>4. ASSUME NEW i \in 1 .. Len(s) - 1
      PROVE  new[i] = IF i < k THEN s[i] ELSE s[i + 1]
  <2>1. i >= k => i - (k - 1) \in 1 .. Len(s) - k /\ k + (i - (k - 1)) = i + 1
    BY <1>0
  <2>2. i >= k => back[i - (k - 1)] = s[i + 1]
    BY <1>2, <2>1
  <2>3. i < k => front[i] = s[i]
    BY <1>0, <1>1
  <2>4. new[i] = IF i < k THEN front[i] ELSE back[i - (k - 1)]
    BY <1>3
  <2> QED
    BY <1>0, <2>2, <2>3, <2>4
<1>5. new \in Seq(S) /\ IsRemoved(s, k, new)
  BY <1>3, <1>4 DEF IsRemoved
<1> QED
  BY <1>5 DEF new, front, back, RemoveAt

\* List::RemoveFront of a list that is not empty.
LEMMA TailElements ==
    ASSUME NEW S, NEW q \in Seq(S), q # <<>>, Distinct(q)
    PROVE  /\ Tail(q) \in Seq(S)
           /\ Head(q) \in Elements(q)
           /\ Elements(Tail(q)) = Elements(q) \ {Head(q)}
           /\ Distinct(Tail(q))
<1> DEFINE r == Tail(q)
<1>1. r \in Seq(S) /\ 1 \in 1 .. Len(q) /\ Head(q) = q[1] /\ IsRemoved(q, 1, r)
  BY DEF IsRemoved
<1> HIDE DEF r
<1>2. Elements(r) = Elements(q) \ {q[1]} /\ Distinct(r)
  BY <1>1, RemovedElements
<1>3. q[1] \in Elements(q)
  BY <1>1 DEF Elements
<1> QED
  BY <1>1, <1>2, <1>3 DEF r

\* A set of numbers that is not empty has a least element, which Min finds.
LEMMA MinIsLeast ==
    ASSUME NEW S \in SUBSET Nat, S # {}
    PROVE  Min(S) \in S /\ \A y \in S : Min(S) <= y
<1> DEFINE R == OpToRel(<, Nat)
<1>1. PICK x \in S : \A y \in S : ~(<<y, x>> \in R)
  BY NatLessThanWellFounded, WFMin, Zenon
<1>2. ASSUME NEW y \in S PROVE x <= y
  <2>1. y < x => <<y, x>> \in R
    BY DEF OpToRel
  <2> HIDE DEF R
  <2> QED
    BY <1>1, <2>1
<1> QED
  BY <1>2 DEF Min

\* List::Remove of an element, whether it is there or not.
LEMMA RemoveFirstElements ==
    ASSUME NEW S, NEW s \in Seq(S), NEW e, Distinct(s)
    PROVE  /\ RemoveFirst(s, e) \in Seq(S)
           /\ Elements(RemoveFirst(s, e)) = Elements(s) \ {e}
           /\ Distinct(RemoveFirst(s, e))
<1> DEFINE I == {i \in 1 .. Len(s) : s[i] = e}
           k == Min(I)
<1>1. CASE I = {}
  <2>1. RemoveFirst(s, e) = s
    BY <1>1 DEF RemoveFirst
  <2> QED
    BY <1>1, <2>1 DEF Elements
<1>2. CASE I # {}
  <2>1. RemoveFirst(s, e) = RemoveAt(s, k)
    BY <1>2 DEF RemoveFirst
  <2>2. I \in SUBSET Nat
    OBVIOUS
  <2>3. k \in I
    BY <1>2, <2>2, MinIsLeast
  <2>4. k \in 1 .. Len(s) /\ s[k] = e
    BY <2>3
  <2> HIDE DEF k
  <2>5. RemoveAt(s, k) \in Seq(S) /\ IsRemoved(s, k, RemoveAt(s, k))
    BY <2>4, RemoveAtShape
  <2> QED
    BY <2>1, <2>4, <2>5, RemovedElements
<1> QED
  BY <1>1, <1>2

(***************************************************************************)
(* The ready lists as a set of threads.                                    *)
(***************************************************************************)
ReadyLists == [readyList : Seq(Threads), sortedReadyList : Seq(Threads),
               threadArrQueue : [Levels -> Seq(Threads)]]

\* The list q holds the threads of S, each once.
Holds(q, S) == Elements(q) = S /\ Distinct(q)

\* The same of the feedback queues together.
LevelsHold(f, S) ==
    /\ \A i \in Levels : Distinct(f[i])
    /\ \A i, j \in Levels : \A t \in Elements(f[i]) : t \in Elements(f[j]) => i = j
    /\ \A i \in Levels : Elements(f[i]) \subseteq S
    /\ \A t \in S : \E i \in Levels : t \in Elements(f[i])

\* The same of the lists of the policy; the other lists are empty.
ListsHold(r, S) ==
    /\ Holds(r.readyList, IF typeno \in {0, 2} THEN S ELSE {})
    /\ Holds(r.sortedReadyList, IF typeno = 1 THEN S ELSE {})
    /\ LevelsHold(r.threadArrQueue, IF typeno = 3 THEN S ELSE {})

\* The place InsertSorted finds is within the list.
LEMMA InsertSortedPlace ==
    ASSUME priority \in [Threads -> Int], NEW s \in Seq(Threads), NEW t \in Threads
    PROVE  \E k \in 1 .. Len(s) + 1 :
              /\ InsertSorted(s, t) = InsertAt(s, k, t)
              /\ \A i \in 1 .. Len(s) : i < k => priority[s[i]] <= priority[t]
              /\ k <= Len(s) => priority[s[k]] > priority[t]
<1> DEFINE larger == {i \in 1 .. Len(s) : priority[s[i]] > priority[t]}
           k == IF larger = {} THEN Len(s) + 1 ELSE Min(larger)
<1>0. /\ Len(s) \in Nat /\ priority[t] \in Int
      /\ \A i \in 1 .. Len(s) : s[i] \in Threads /\ priority[s[i]] \in Int
  OBVIOUS
<1>1. InsertSorted(s, t) = InsertAt(s, k, t)
  BY DEF InsertSorted
<1>2. CASE larger = {}
  <2>1. k = Len(s) + 1
    BY <1>2
  <2>2. k \in 1 .. Len(s) + 1 /\ ~(k <= Len(s))
    BY <1>0, <2>1
  <2>3. \A i \in 1 .. Len(s) : priority[s[i]] <= priority[t]
    BY <1>0, <1>2
  <2> QED
    BY <1>1, <2>2, <2>3
<1>3. CASE larger # {}
  <2>1. larger \in SUBSET Nat
    OBVIOUS
  <2>2. k \in larger /\ \A i \in larger : k <= i
    BY <1>3, <2>1, MinIsLeast
  <2> HIDE DEF k
  <2>3. k \in 1 .. Len(s) + 1 /\ priority[s[k]] > priority[t]
    BY <1>0, <2>2
  <2>4. \A i \in 1 .. Len(s) : i < k => priority[s[i]] <= priority[t]
    BY <1>0, <2>2, <2>3
  <2> QED
    BY <1>1, <2>3, <2>4
<1> QED
  BY <1>2, <1>3

\* ReadyToRun of a thread that is on none of the lists.
LEMMA EnqueueHolds ==
    ASSUME typeno \in 0 .. 3, priority \in [Threads -> Int],
           NEW r \in ReadyLists, NEW S \in SUBSET Threads, ListsHold(r, S),
           NEW t \in Threads, t \notin S, typeno = 3 => QueueOf(t) \in Levels
    PROVE  Enqueue(r, t) \in ReadyLists /\ ListsHold(Enqueue(r, t), S \cup {t})
<1>0. /\ r.readyList \in Seq(Threads) /\ r.sortedReadyList \in Seq(Threads)
      /\ r.threadArrQueue \in [Levels -> Seq(Threads)]
  BY DEF ReadyLists
<1>1. CASE typeno \in {0, 2}
  <2> DEFINE q == Append(r.readyList, t)
  <2>1. Enqueue(r, t) = [r EXCEPT !.readyList = q]
    BY <1>1 DEF Enqueue
  <2>2. q \in Seq(Threads) /\ Holds(q, S \cup {t})
    BY <1>0, <1>1, AppendElements DEF ListsHold, Holds
  <2> HIDE DEF q
  <2>3. /\ Enqueue(r, t) \in ReadyLists
        /\ Enqueue(r, t).readyList = q
        /\ Enqueue(r, t).sortedReadyList = r.sortedReadyList
        /\ Enqueue(r, t).threadArrQueue = r.threadArrQueue
    BY <2>1, <2>2 DEF ReadyLists
  <2> QED
    BY <1>1, <2>2, <2>3 DEF ListsHold
<1>2. CASE typeno = 1
  <2> DEFINE q == InsertSorted(r.sortedReadyList, t)
  <2>1. Enqueue(r, t) = [r EXCEPT !.sortedReadyList = q]
    BY <1>2 DEF Enqueue
  <2>2. q \in Seq(Threads) /\ Holds(q, S \cup {t})
    <3>1. PICK k \in 1 .. Len(r.sortedReadyList) + 1 : q = InsertAt(r.sortedReadyList, k, t)
      BY <1>0, InsertSortedPlace
    <3>2. Elements(r.sortedReadyList) = S /\ Distinct(r.sortedReadyList)
      BY <1>2 DEF ListsHold, Holds
    <3> QED
      BY <1>0, <3>1, <3>2, InsertAtShape, InsertedElements DEF Holds
  <2> HIDE DEF q
  <2>3. /\ Enqueue(r, t) \in ReadyLists
        /\ Enqueue(r, t).readyList = r.readyList
        /\ Enqueue(r, t).sortedReadyList = q
        /\ Enqueue(r, t).threadArrQueue = r.threadArrQueue
    BY <2>1, <2>2 DEF ReadyLists
  <2> QED
    BY <1>2, <2>2, <2>3 DEF ListsHold
<1>3. CASE typeno = 3
  <2> DEFINE f == r.threadArrQueue
             n == QueueOf(t)
             g == [f EXCEPT ![n] = Append(@, t)]
  <2>1. Enqueue(r, t) = [r EXCEPT !.threadArrQueue = g]
    BY <1>3 DEF Enqueue
  <2>2. LevelsHold(f, S) /\ n \in Levels /\ f \in [Levels -> Seq(Threads)]
    BY <1>0, <1>3 DEF ListsHold
  <2> HIDE DEF f, n
  <2>3. /\ g \in [Levels -> Seq(Threads)] /\ g[n] = Append(f[n], t)
        /\ \A i \in Levels : i # n => g[i] = f[i]
    BY <2>2
  <2> HIDE DEF g
  <2>4. f[n] \in Seq(Threads) /\ Distinct(f[n]) /\ t \notin Elements(f[n])
    BY <2>2 DEF LevelsHold
  <2>5. Elements(g[n]) = Elements(f[n]) \cup {t} /\ Distinct(g[n])
    BY <2>3, <2>4, AppendElements
  <2>6. \A i \in Levels : \A x : x \in Elements(g[i]) <=> x \in Elements(f[i]) \/ (x = t /\ i = n)
    BY <2>3, <2>5
  <2>7. \A i \in Levels : Distinct(g[i])
    BY <2>2, <2>3, <2>5 DEF LevelsHold
  <2>8. \A i \in Levels : t \notin Elements(f[i])
    BY <2>2 DEF LevelsHold
  <2>9. LevelsHold(g, S \cup {t})
    <3>1. ASSUME NEW i \in Levels, NEW j \in Levels,
                 NEW x \in Elements(g[i]), x \in Elements(g[j])
          PROVE  i = j
      <4>1. x = t => i = n /\ j = n
        BY <2>6, <2>8, <3>1
      <4>2. x # t => x \in Elements(f[i]) /\ x \in Elements(f[j])
        BY <2>6, <3>1
      <4> QED
        BY <2>2, <4>1, <4>2 DEF LevelsHold
    <3>2. \A i \in Levels : Elements(g[i]) \subseteq S \cup {t}
      BY <2>2, <2>6 DEF LevelsHold
    <3>3. \A x \in S \cup {t} : \E i \in Levels : x \in Elements(g[i])
      BY <2>2, <2>6 DEF LevelsHold
    <3> QED
      BY <2>7, <3>1, <3>2, <3>3 DEF LevelsHold
  <2>10. /\ Enqueue(r, t) \in ReadyLists
         /\ Enqueue(r, t).readyList = r.readyList
         /\ Enqueue(r, t).sortedReadyList = r.sortedReadyList
         /\ Enqueue(r, t).threadArrQueue = g
    BY <2>1, <2>3 DEF ReadyLists
  <2> QED
    BY <1>3, <2>9, <2>10 DEF ListsHold
<1> QED
  BY <1>1, <1>2, <1>3

\* The first feedback queue that is not empty.
LEMMA FirstLevel ==
    ASSUME NEW r, NonEmptyLevels(r) # {}
    PROVE  /\ Min(NonEmptyLevels(r)) \in Levels
           /\ r.threadArrQueue[Min(NonEmptyLevels(r))] # <<>>
<1>1. NonEmptyLevels(r) \in SUBSET Nat
  BY SchedulerAssumption DEF NonEmptyLevels, Levels
<1>2. Min(NonEmptyLevels(r)) \in NonEmptyLevels(r)
  BY <1>1, MinIsLeast
<1> QED
  BY <1>2 DEF NonEmptyLevels

\* FindNextToRun takes one thread from the lists.
LEMMA RemoveNextHolds ==
    ASSUME typeno \in 0 .. 3, NEW r \in ReadyLists, NEW S \in SUBSET Threads,
           ListsHold(r, S), ~isReadyListEmpty(r)
    PROVE  /\ getReadyListFront(r) \in S
           /\ RemoveNext(r) \in ReadyLists
           /\ ListsHold(RemoveNext(r), S \ {getReadyListFront(r)})
<1>0. /\ r.readyList \in Seq(Threads) /\ r.sortedReadyList \in Seq(Threads)
      /\ r.threadArrQueue \in [Levels -> Seq(Threads)]
  BY DEF ReadyLists
<1> DEFINE n == getReadyListFront(r)
<1>1. CASE typeno \in {0, 2}
  <2> DEFINE q == Tail(r.readyList)
  <2>1. /\ RemoveNext(r) = [r EXCEPT !.readyList = q]
        /\ r.readyList # <<>> /\ n = Head(r.readyList)
    BY <1>1 DEF RemoveNext, isReadyListEmpty, getReadyListFront
  <2> HIDE DEF n
  <2>2. q \in Seq(Threads) /\ n \in S /\ Holds(q, S \ {n})
    BY <1>0, <1>1, <2>1, TailElements DEF ListsHold, Holds
  <2> HIDE DEF q
  <2>3. /\ RemoveNext(r) \in ReadyLists
        /\ RemoveNext(r).readyList = q
        /\ RemoveNext(r).sortedReadyList = r.sortedReadyList
        /\ RemoveNext(r).threadArrQueue = r.threadArrQueue
    BY <2>1, <2>2 DEF ReadyLists
  <2>4. ListsHold(RemoveNext(r), S \ {n})
    BY <1>1, <2>2, <2>3 DEF ListsHold
  <2> QED
    BY <2>2, <2>3, <2>4 DEF n
<1>2. CASE typeno = 1
  <2> DEFINE q == Tail(r.sortedReadyList)
  <2>1. /\ RemoveNext(r) = [r EXCEPT !.sortedReadyList = q]
        /\ r.sortedReadyList # <<>> /\ n = Head(r.sortedReadyList)
    BY <1>2 DEF RemoveNext, isReadyListEmpty, getReadyListFront
  <2> HIDE DEF n
  <2>2. q \in Seq(Threads) /\ n \in S /\ Holds(q, S \ {n})
    BY <1>0, <1>2, <2>1, TailElements DEF ListsHold, Holds
  <2> HIDE DEF q
  <2>3. /\ RemoveNext(r) \in ReadyLists
        /\ RemoveNext(r).readyList = r.readyList
        /\ RemoveNext(r).sortedReadyList = q
        /\ RemoveNext(r).threadArrQueue = r.threadArrQueue
    BY <2>1, <2>2 DEF ReadyLists
  <2>4. ListsHold(RemoveNext(r), S \ {n})
    BY <1>2, <2>2, <2>3 DEF ListsHold
  <2> QED
    BY <2>2, <2>3, <2>4 DEF n
<1>3. CASE typeno = 3
  <2> DEFINE f == r.threadArrQueue
             m == Min(NonEmptyLevels(r))
             g == [f EXCEPT ![m] = Tail(@)]
  <2>0. /\ RemoveNext(r) = [r EXCEPT !.threadArrQueue = g]
        /\ NonEmptyLevels(r) # {} /\ n = Head(f[m])
    BY <1>3 DEF RemoveNext, isReadyListEmpty, getReadyListFront
  <2>2. /\ LevelsHold(f, S) /\ f \in [Levels -> Seq(Threads)]
        /\ m \in Levels /\ f[m] # <<>>
    BY <1>0, <1>3, <2>0, FirstLevel DEF ListsHold
  <2> HIDE DEF f, m, n
  <2>3. /\ g \in [Levels -> Seq(Threads)] /\ g[m] = Tail(f[m])
        /\ \A i \in Levels : i # m => g[i] = f[i]
    BY <2>2
  <2> HIDE DEF g
  <2>4. f[m] \in Seq(Threads) /\ Distinct(f[m])
    BY <2>2 DEF LevelsHold
  <2>5. /\ n \in Elements(f[m])
        /\ Elements(g[m]) = Elements(f[m]) \ {n} /\ Distinct(g[m])
    BY <2>0, <2>2, <2>3, <2>4, TailElements
  <2>6. \A i \in Levels : n \in Elements(f[i]) => i = m
    BY <2>2, <2>5 DEF LevelsHold
  <2>7. \A i \in Levels : Elements(g[i]) = Elements(f[i]) \ {n}
    BY <2>3, <2>5, <2>6
  <2>8. \A i \in Levels : Distinct(g[i])
    BY <2>2, <2>3, <2>5 DEF LevelsHold
  <2>9. LevelsHold(g, S \ {n})
    <3>1. ASSUME NEW i \in Levels, NEW j \in Levels,
                 NEW x \in Elements(g[i]), x \in Elements(g[j])
          PROVE  i = j
      <4>1. x \in Elements(f[i]) /\ x \in Elements(f[j])
        BY <2>7, <3>1
      <4> QED
        BY <2>2, <4>1 DEF LevelsHold
    <3>2. \A i \in Levels : Elements(g[i]) \subseteq S \ {n}
      BY <2>2, <2>7 DEF LevelsHold
    <3>3. \A x \in S \ {n} : \E i \in Levels : x \in Elements(g[i])
      BY <2>2, <2>7 DEF LevelsHold
    <3> QED
      BY <2>8, <3>1, <3>2, <3>3 DEF LevelsHold
  <2>10. /\ RemoveNext(r) \in ReadyLists
         /\ RemoveNext(r).readyList = r.readyList
         /\ RemoveNext(r).sortedReadyList = r.sortedReadyList
         /\ RemoveNext(r).threadArrQueue = g
    BY <2>0, <2>3 DEF ReadyLists
  <2>11. ListsHold(RemoveNext(r), S \ {n})
    BY <1>3, <2>9, <2>10 DEF ListsHold
  <2>12. n \in S
    BY <2>2, <2>5 DEF LevelsHold
  <2> QED
    BY <2>10, <2>11, <2>12 DEF n
<1> QED
  BY <1>1, <1>2, <1>3

(***************************************************************************)
(* The ready lists as queues in their order.                               *)
(***************************************************************************)
\* sortedReadyList is in the order of the priorities.
InOrder(q, prio) ==
    \A i, j \in 1 .. Len(q) : i < j => prio[q[i]] <= prio[q[j]]

\* The threads of feedback queue i have that level and at most its slice.
OnLevel(f, prio, slice) ==
    \A i \in Levels : \A t \in Elements(f[i]) :
        prio[t] = i /\ slice[t] <= threadArrTimeSlice[i]

Disciplined(r, prio, slice) ==
    InOrder(r.sortedReadyList, prio) /\ OnLevel(r.threadArrQueue, prio, slice)

\* What QueueDiscipline says of the state, as a statement about the lists.
LEMMA DisciplineIs == QueueDiscipline <=> Disciplined(rl, priority, timeSliceRemain)
  BY DEF QueueDiscipline, Disciplined, InOrder, OnLevel, Elements

\* Changes that concern other threads, or shorten a slice, are harmless.
LEMMA DisciplineKept ==
    ASSUME typeno \in 0 .. 3, NEW r \in ReadyLists, NEW S \in SUBSET Threads,
           ListsHold(r, S),
           NEW prio, NEW slice, Disciplined(r, prio, slice),
           NEW prio2, NEW slice2,
           \A t \in S : prio2[t] = prio[t],
           \A t \in S, i \in Levels :
               slice[t] <= threadArrTimeSlice[i] => slice2[t] <= threadArrTimeSlice[i]
    PROVE  Disciplined(r, prio2, slice2)
<1>0. /\ r.sortedReadyList \in Seq(Threads)
      /\ Elements(r.sortedReadyList) \subseteq S
  BY DEF ReadyLists, ListsHold, Holds
<1>1. InOrder(r.sortedReadyList, prio2)
  <2>1. \A i \in 1 .. Len(r.sortedReadyList) : r.sortedReadyList[i] \in S
    BY <1>0 DEF Elements
  <2> QED
    BY <2>1 DEF InOrder, Disciplined
<1>2. \A i \in Levels : Elements(r.threadArrQueue[i]) \subseteq S
  BY DEF ListsHold, LevelsHold
<1>3. OnLevel(r.threadArrQueue, prio2, slice2)
  BY <1>2 DEF OnLevel, Disciplined
<1> QED
  BY <1>1, <1>3 DEF Disciplined

\* SortedList::Insert keeps the list sorted.
LEMMA InsertSortedInOrder ==
    ASSUME priority \in [Threads -> Int], NEW s \in Seq(Threads), NEW t \in Threads,
           InOrder(s, priority)
    PROVE  InOrder(InsertSorted(s, t), priority)
<1> DEFINE new == InsertSorted(s, t)
<1>0. /\ Len(s) \in Nat /\ priority[t] \in Int
      /\ \A i \in 1 .. Len(s) : s[i] \in Threads /\ priority[s[i]] \in Int
  OBVIOUS
<1>1. PICK k \in 1 .. Len(s) + 1 :
              /\ new = InsertAt(s, k, t)
              /\ \A i \in 1 .. Len(s) : i < k => priority[s[i]] <= priority[t]
              /\ k <= Len(s) => priority[s[k]] > priority[t]
  BY InsertSortedPlace
<1> HIDE DEF new
<1>2. IsInserted(s, k, t, new)
  BY <1>1, InsertAtShape
<1>3. \A i \in 1 .. Len(s) : i >= k => priority[s[i]] >= priority[t]
  <2> SUFFICES ASSUME NEW i \in 1 .. Len(s), i >= k PROVE priority[s[i]] >= priority[t]
    OBVIOUS
  <2>1. k \in 1 .. Len(s) /\ priority[s[k]] > priority[t]
    BY <1>0, <1>1
  <2>2. priority[s[k]] <= priority[s[i]]
    BY <1>0, <2>1 DEF InOrder
  <2> QED
    BY <1>0, <2>1, <2>2
<1> SUFFICES ASSUME NEW i \in 1 .. Len(new), NEW j \in 1 .. Len(new), i < j
             PROVE  priority[new[i]] <= priority[new[j]]
  BY DEF InOrder, new
<1> DEFINE p(x) == IF x < k THEN x ELSE x - 1
<1>4. Len(new) = Len(s) + 1
  BY <1>2 DEF IsInserted
<1>5. i # k => p(i) \in 1 .. Len(s) /\ new[i] = s[p(i)]
  BY <1>0, <1>2, <1>4 DEF IsInserted
<1>6. j # k => p(j) \in 1 .. Len(s) /\ new[j] = s[p(j)]
  BY <1>0, <1>2, <1>4 DEF IsInserted
<1>7. new[k] = t
  BY <1>0, <1>2 DEF IsInserted
<1>8. CASE i # k /\ j # k
  <2>1. p(i) < p(j)
    BY <1>0, <1>4, <1>8
  <2> QED
    BY <1>5, <1>6, <1>8, <2>1 DEF InOrder
<1>9. CASE i = k
  <2>1. j # k /\ p(j) >= k
    BY <1>0, <1>4, <1>9
  <2> QED
    BY <1>0, <1>3, <1>6, <1>7, <1>9, <2>1
<1>10. CASE j = k
  <2>1. i # k /\ p(i) < k
    BY <1>0, <1>4, <1>10
  <2> QED
    BY <1>1, <1>5, <1>7, <1>10, <2>1
<1> QED
  BY <1>8, <1>9, <1>10

\* ReadyToRun puts a thread where it belongs.
LEMMA EnqueueDisciplined ==
    ASSUME typeno \in 0 .. 3, priority \in [Threads -> Int],
           timeSliceRemain \in [Threads -> Int],
           NEW r \in ReadyLists, NEW S \in SUBSET Threads, ListsHold(r, S),
           NEW t \in Threads, t \notin S, typeno = 3 => QueueOf(t) \in Levels,
           Disciplined(r, priority, timeSliceRemain), SetSlice(t)
    PROVE  Disciplined(Enqueue(r, t), priority', timeSliceRemain')
<1>0. /\ r.readyList \in Seq(Threads) /\ r.sortedReadyList \in Seq(Threads)
      /\ r.threadArrQueue \in [Levels -> Seq(Threads)]
  BY DEF ReadyLists
<1>1. \A x \in S : priority'[x] = priority[x] /\ timeSliceRemain'[x] = timeSliceRemain[x]
  BY DEF SetSlice
<1>2. Disciplined(r, priority', timeSliceRemain')
  BY <1>1, DisciplineKept
<1>3. CASE typeno \in {0, 2}
  <2>1. /\ Enqueue(r, t).sortedReadyList = r.sortedReadyList
        /\ Enqueue(r, t).threadArrQueue = r.threadArrQueue
    BY <1>3 DEF Enqueue, ReadyLists
  <2> QED
    BY <1>2, <2>1 DEF Disciplined
<1>4. CASE typeno = 1
  <2>1. /\ Enqueue(r, t).sortedReadyList = InsertSorted(r.sortedReadyList, t)
        /\ Enqueue(r, t).threadArrQueue = r.threadArrQueue
    BY <1>4 DEF Enqueue, ReadyLists
  <2>2. priority' = priority
    BY <1>4 DEF SetSlice
  <2>3. InOrder(InsertSorted(r.sortedReadyList, t), priority')
    BY <1>0, <2>2, InsertSortedInOrder DEF Disciplined
  <2> QED
    BY <1>2, <2>1, <2>3 DEF Disciplined
<1>5. CASE typeno = 3
  <2> DEFINE f == r.threadArrQueue
             n == QueueOf(t)
             g == [f EXCEPT ![n] = Append(@, t)]
  <2>0. Enqueue(r, t) = [r EXCEPT !.threadArrQueue = g]
    BY <1>5 DEF Enqueue
  <2> HIDE DEF g
  <2>1. /\ Enqueue(r, t).sortedReadyList = r.sortedReadyList
        /\ Enqueue(r, t).threadArrQueue = g
    BY <2>0 DEF ReadyLists
  <2>2. /\ LevelsHold(f, S) /\ n \in Levels /\ f \in [Levels -> Seq(Threads)]
        /\ priority'[t] = n /\ timeSliceRemain'[t] = threadArrTimeSlice[n]
        /\ threadArrTimeSlice[n] \in Nat
    BY <1>0, <1>5, SchedulerAssumption DEF ListsHold, SetSlice, Levels
  <2> HIDE DEF f, n
  <2>3. g[n] = Append(f[n], t) /\ \A i \in Levels : i # n => g[i] = f[i]
    BY <2>2 DEF g
  <2>4. f[n] \in Seq(Threads) /\ Distinct(f[n]) /\ t \notin Elements(f[n])
    BY <2>2 DEF LevelsHold
  <2>5. Elements(g[n]) = Elements(f[n]) \cup {t}
    BY <2>3, <2>4, AppendElements
  <2>6. OnLevel(f, priority', timeSliceRemain')
    BY <1>2 DEF Disciplined, f
  <2>7. ASSUME NEW i \in Levels, NEW x \in Elements(g[i])
        PROVE  priority'[x] = i /\ timeSliceRemain'[x] <= threadArrTimeSlice[i]
    <3>1. CASE x \in Elements(f[i])
      BY <2>6, <3>1 DEF OnLevel
    <3>2. CASE x \notin Elements(f[i])
      <4>1. i = n /\ x = t
        BY <2>3, <2>5, <2>7, <3>2
      <4> QED
        BY <2>2, <4>1
    <3> QED
      BY <3>1, <3>2
  <2>8. OnLevel(g, priority', timeSliceRemain')
    BY <2>7 DEF OnLevel
  <2> QED
    BY <1>2, <2>1, <2>8 DEF Disciplined
<1> QED
  BY <1>3, <1>4, <1>5

\* FindNextToRun leaves the others in their order.
LEMMA RemoveNextDisciplined ==
    ASSUME typeno \in 0 .. 3, NEW r \in ReadyLists, NEW S \in SUBSET Threads,
           ListsHold(r, S), ~isReadyListEmpty(r),
           NEW prio, NEW slice, Disciplined(r, prio, slice)
    PROVE  Disciplined(RemoveNext(r), prio, slice)
<1>0. /\ r.readyList \in Seq(Threads) /\ r.sortedReadyList \in Seq(Threads)
      /\ r.threadArrQueue \in [Levels -> Seq(Threads)]
  BY DEF ReadyLists
<1>1. CASE typeno \in {0, 2}
  <2>1. /\ RemoveNext(r).sortedReadyList = r.sortedReadyList
        /\ RemoveNext(r).threadArrQueue = r.threadArrQueue
    BY <1>1 DEF RemoveNext, ReadyLists
  <2> QED
    BY <2>1 DEF Disciplined
<1>2. CASE typeno = 1
  <2> DEFINE s == r.sortedReadyList
  <2>1. /\ RemoveNext(r).sortedReadyList = Tail(s)
        /\ RemoveNext(r).threadArrQueue = r.threadArrQueue
        /\ s # <<>> /\ s \in Seq(Threads) /\ InOrder(s, prio)
    BY <1>0, <1>2 DEF RemoveNext, ReadyLists, isReadyListEmpty, Disciplined
  <2> HIDE DEF s
  <2>2. /\ Len(s) \in Nat /\ Len(Tail(s)) = Len(s) - 1
        /\ \A i \in 1 .. Len(Tail(s)) : Tail(s)[i] = s[i + 1]
    BY <2>1
  <2>3. ASSUME NEW i \in 1 .. Len(Tail(s)), NEW j \in 1 .. Len(Tail(s)), i < j
        PROVE  prio[Tail(s)[i]] <= prio[Tail(s)[j]]
    <3>1. i + 1 \in 1 .. Len(s) /\ j + 1 \in 1 .. Len(s) /\ i + 1 < j + 1
      BY <2>2, <2>3
    <3>2. prio[s[i + 1]] <= prio[s[j + 1]]
      BY <2>1, <3>1 DEF InOrder
    <3> QED
      BY <2>2, <3>2
  <2>4. InOrder(Tail(s), prio)
    BY <2>3 DEF InOrder
  <2> QED
    BY <2>1, <2>4 DEF Disciplined
<1>3. CASE typeno = 3
  <2> DEFINE f == r.threadArrQueue
             m == Min(NonEmptyLevels(r))
             g == [f EXCEPT ![m] = Tail(@)]
  <2>0. RemoveNext(r) = [r EXCEPT !.threadArrQueue = g] /\ NonEmptyLevels(r) # {}
    BY <1>3 DEF RemoveNext, isReadyListEmpty
  <2> HIDE DEF g
  <2>1. /\ RemoveNext(r).sortedReadyList = r.sortedReadyList
        /\ RemoveNext(r).threadArrQueue = g
    BY <2>0 DEF ReadyLists
  <2>2. /\ LevelsHold(f, S) /\ f \in [Levels -> Seq(Threads)]
        /\ m \in Levels /\ f[m] # <<>>
    BY <1>0, <1>3, <2>0, FirstLevel DEF ListsHold
  <2>3. OnLevel(f, prio, slice)
    BY DEF Disciplined
  <2> HIDE DEF f, m
  <2>4. g[m] = Tail(f[m]) /\ \A i \in Levels : i # m => g[i] = f[i]
    BY <2>2 DEF g
  <2>5. f[m] \in Seq(Threads) /\ Distinct(f[m])
    BY <2>2 DEF LevelsHold
  <2>6. Elements(g[m]) \subseteq Elements(f[m])
    BY <2>2, <2>4, <2>5, TailElements
  <2>7. \A i \in Levels : Elements(g[i]) \subseteq Elements(f[i])
    BY <2>4, <2>6
  <2>8. OnLevel(g, prio, slice)
    BY <2>3, <2>7 DEF OnLevel
  <2> QED
    BY <2>1, <2>8 DEF Disciplined
<1> QED
  BY <1>1, <1>2, <1>3

(***************************************************************************)
(* The inductive invariant.                                                *)
(***************************************************************************)
ReadyThreads == {t \in Threads : status[t] = "READY"}

RunningPCs == {"begin", "yield", "sleep", "run", "fork", "tick", "ticked", "woken"}
SwitchedOutPCs == {"begin", "yield", "sleep"}

\* A thread's status says where it is: only the current thread can be RUNNING,
\* and it is not while it looks for another one; the others were switched
\* out by Run or have not started.  In Interrupt::Idle a handler may make
\* ready the current thread itself.
StatusAndPlace ==
    /\ \A t \in Threads : status[t] \in {"FREE", "JUST_CREATED"} <=> pc[t] = "none"
    /\ \A t \in Threads \ {currentThread} :
          /\ status[t] # "RUNNING"
          /\ status[t] = "READY" => pc[t] \in SwitchedOutPCs
          /\ status[t] = "BLOCKED" => pc[t] \in {"sleep", "dead"}
    /\ pc[currentThread] \in RunningPCs => status[currentThread] = "RUNNING"
    /\ pc[currentThread] \in {"loop", "exit", "exitidle"} => status[currentThread] = "BLOCKED"
    /\ pc[currentThread] = "idle" => status[currentThread] \in {"BLOCKED", "READY"}
    /\ pc[currentThread] \notin {"none", "dead"}

\* The carcass keeps the status that Sleep gave it.
CarcassBlocked == \A t \in Threads : pc[t] = "dead" => status[t] = "BLOCKED"

\* The threads on the queues of semaphores are the sleeping ones.
WaitingExact == waiting = {t \in Threads : status[t] = "BLOCKED" /\ ~Finished(t)}

\* blockList has no thread twice, and of the forked threads those that sleep.
BlockListHolds ==
    /\ Distinct(blockList)
    /\ \A t \in Threads : pc[t] # "none" => (t \in Elements(blockList) <=> status[t] = "BLOCKED")

\* ReadyToRun finds a feedback queue for every thread.
LevelsInRange == typeno = 3 => \A t \in Threads : priority[t] \in -1 .. QueueNum - 1

Inv ==
    /\ TypeOK
    /\ StatusAndPlace
    /\ CarcassBlocked
    /\ WaitingExact
    /\ CarcassFreedNext
    /\ SlotTable
    /\ BlockListHolds
    /\ ListsHold(rl, ReadyThreads)
    /\ LevelsInRange
    /\ QueueDiscipline
    /\ YieldIsPrompt

\* The initial state.
LEMMA InitInv == Init => Inv
<1> SUFFICES ASSUME Init PROVE Inv
  OBVIOUS
<1> USE DEF Init
<1>0. /\ Main \in Threads /\ NULL \notin Threads /\ Policies \subseteq 0 .. 3
      /\ QueueNum \in Nat \ {0} /\ MaxThreadNum \in Nat \ {0} /\ timeSlice \in Int
      /\ MainPriority \in Int /\ Uninitialized \subseteq Int
  BY SchedulerAssumption
<1>1. TypeOK
  <2>1. typeno \in 0 .. 3 /\ currentThread \in Threads /\ inFork \subseteq Threads
    BY <1>0
  <2>2. threadArray \in [Slots -> Threads \cup {NULL}] /\ threadID \in [Threads -> Slots]
    BY <1>0 DEF Slots
  <2>3. status \in [Threads -> Statuses] /\ pc \in [Threads -> PCs]
    BY DEF Statuses, PCs
  <2>4. priority \in [Threads -> Int]
    BY <1>0
  <2>5. timeSliceRemain \in [Threads -> Int]
    BY <1>0
  <2>6. rl \in [readyList : Seq(Threads), sortedReadyList : Seq(Threads),
               threadArrQueue : [Levels -> Seq(Threads)]]
    OBVIOUS
  <2>7. /\ blockList \in Seq(Threads) /\ toBeDestroyed \in Threads \cup {NULL}
        /\ waiting \subseteq Threads /\ fault \in Faults
    BY DEF Faults
  <2>8. yieldOnReturn \in BOOLEAN
    OBVIOUS
  <2> QED
    BY <2>1, <2>2, <2>3, <2>4, <2>5, <2>6, <2>7, <2>8 DEF TypeOK
<1>2. StatusAndPlace /\ CarcassBlocked
  BY <1>0 DEF StatusAndPlace, CarcassBlocked, RunningPCs, SwitchedOutPCs
<1>3. WaitingExact /\ CarcassFreedNext
  BY <1>0 DEF WaitingExact, CarcassFreedNext
<1>4. SlotTable
  BY <1>0 DEF SlotTable, Live, Slots
<1>5. BlockListHolds
  BY DEF BlockListHolds, Distinct, Elements
<1>6. ListsHold(rl, ReadyThreads)
  <2>1. ReadyThreads = {}
    BY DEF ReadyThreads
  <2>2. Elements(<<>>) = {} /\ Distinct(<<>>)
    BY DEF Elements, Distinct
  <2>3. LevelsHold([i \in Levels |-> <<>>], {})
    BY <2>2 DEF LevelsHold
  <2> QED
    BY <2>1, <2>2, <2>3 DEF ListsHold, Holds
<1>7. LevelsInRange
  BY <1>0 DEF LevelsInRange
<1>8. QueueDiscipline /\ YieldIsPrompt
  BY DEF QueueDiscipline, YieldIsPrompt
<1> QED
  BY <1>1, <1>2, <1>3, <1>4, <1>5, <1>6, <1>7, <1>8 DEF Inv

(***************************************************************************)
(* Steps that move the current thread's pc and change no list.             *)
(***************************************************************************)
\* Both places are in the code of a running thread, past the switch, or in
\* the same loop of Sleep.
SamePart(a, b) ==
    \/ a \in RunningPCs \ SwitchedOutPCs /\ b \in RunningPCs \ SwitchedOutPCs
    \/ a \in {"loop", "idle"} /\ b = "idle"
    \/ a \in {"exit", "exitidle"} /\ b = "exitidle"

\* The slices that change get no longer than any level's slice.
SlicesOK ==
    /\ timeSliceRemain' \in [Threads -> Int]
    /\ \A t \in Threads, i \in Levels :
          timeSliceRemain[t] <= threadArrTimeSlice[i]
              => timeSliceRemain'[t] <= threadArrTimeSlice[i]

\* Slices that stay.
LEMMA SlicesStay == TypeOK /\ UNCHANGED timeSliceRemain => SlicesOK
  BY DEF SlicesOK, TypeOK

\* A step that moves the current thread within one part of its code, and
\* shortens slices at most, keeps the invariant.
LEMMA QuietInv ==
    ASSUME Inv,
           UNCHANGED <<typeno, currentThread, threadArray, threadID, status, priority,
                       rl, blockList, toBeDestroyed, waiting>>,
           NEW x \in PCs, pc' = [pc EXCEPT ![currentThread] = x],
           SamePart(pc[currentThread], x),
           SlicesOK, inFork' \subseteq Threads, yieldOnReturn' \in BOOLEAN, fault' \in Faults,
           YieldIsPrompt'
    PROVE  Inv'
<1> DEFINE c == currentThread
<1>0. /\ c \in Threads /\ c' = c /\ pc \in [Threads -> PCs]
      /\ pc'[c] = x /\ \A t \in Threads : t # c => pc'[t] = pc[t]
  BY DEF Inv, TypeOK
<1>1. TypeOK'
  BY <1>0 DEF Inv, TypeOK, SlicesOK
<1>2. /\ pc[c] # "none" /\ x # "none" /\ pc[c] # "dead" /\ x # "dead"
      /\ pc[c] \in {"exit", "exitidle", "dead"} <=> x \in {"exit", "exitidle", "dead"}
  BY DEF SamePart, RunningPCs, SwitchedOutPCs
<1>3. StatusAndPlace'
  <2>1. \A t \in Threads : status'[t] \in {"FREE", "JUST_CREATED"} <=> pc'[t] = "none"
    BY <1>0, <1>2 DEF Inv, StatusAndPlace
  <2>2. \A t \in Threads \ {c'} :
          /\ status'[t] # "RUNNING"
          /\ status'[t] = "READY" => pc'[t] \in SwitchedOutPCs
          /\ status'[t] = "BLOCKED" => pc'[t] \in {"sleep", "dead"}
    BY <1>0 DEF Inv, StatusAndPlace
  <2>3. /\ x \in RunningPCs => status[c] = "RUNNING"
        /\ x \in {"loop", "exit", "exitidle"} => status[c] = "BLOCKED"
        /\ x = "idle" => status[c] \in {"BLOCKED", "READY"}
    BY DEF Inv, StatusAndPlace, SamePart, RunningPCs, SwitchedOutPCs
  <2> QED
    BY <1>0, <1>2, <2>1, <2>2, <2>3 DEF StatusAndPlace
<1>4. CarcassBlocked'
  BY <1>0, <1>2 DEF Inv, CarcassBlocked
<1>5. \A t \in Threads : Finished(t)' <=> Finished(t)
  BY <1>0, <1>2 DEF Finished
<1>6. WaitingExact'
  BY <1>5 DEF Inv, WaitingExact
<1>7. CarcassFreedNext'
  <2>1. toBeDestroyed = NULL
    BY DEF Inv, CarcassFreedNext, SamePart, RunningPCs, SwitchedOutPCs
  <2>2. \A t \in Threads : pc'[t] # "dead"
    BY <1>0, <1>2, <2>1, SchedulerAssumption DEF Inv, CarcassFreedNext
  <2> QED
    BY <2>1, <2>2 DEF CarcassFreedNext
<1>8. SlotTable'
  BY DEF Inv, SlotTable, Live
<1>9. BlockListHolds'
  BY <1>0, <1>2 DEF Inv, BlockListHolds
<1>10. (ListsHold(rl, ReadyThreads))'
  BY DEF Inv, ListsHold, ReadyThreads
<1>11. LevelsInRange'
  BY DEF Inv, LevelsInRange
<1>12. QueueDiscipline'
  <2>1. Disciplined(rl, priority, timeSliceRemain)
    BY DisciplineIs DEF Inv
  <2>2. typeno \in 0 .. 3 /\ rl \in ReadyLists /\ ReadyThreads \in SUBSET Threads
    BY DEF Inv, TypeOK, ReadyLists, ReadyThreads
  <2>3. Disciplined(rl, priority, timeSliceRemain')
    BY <2>1, <2>2, DisciplineKept DEF Inv, SlicesOK
  <2>4. (Disciplined(rl, priority, timeSliceRemain))'
    BY <2>3
  <2>5. (QueueDiscipline <=> Disciplined(rl, priority, timeSliceRemain))'
    BY DisciplineIs, PTL
  <2> QED
    BY <2>4, <2>5
<1> QED
  BY <1>1, <1>3, <1>4, <1>6, <1>7, <1>8, <1>9, <1>10, <1>11, <1>12 DEF Inv

\* Alarm::CallBack shortens a slice, to SliceFloor at least.
LEMMA AlarmSlices ==
    ASSUME Inv, NEW idle \in BOOLEAN, AlarmCallBack(idle)
    PROVE  SlicesOK /\ yieldOnReturn' \in BOOLEAN
<1> DEFINE c == currentThread
           left == timeSliceRemain[c] - 1
           new == IF left < 0 THEN 0 ELSE left
<1>1. /\ c \in Threads /\ timeSliceRemain \in [Threads -> Int] /\ left \in Int
      /\ timeSliceRemain' = [timeSliceRemain EXCEPT ![c] = new]
  BY DEF Inv, TypeOK, AlarmCallBack, SliceFloor
<1>2. \A i \in Levels : threadArrTimeSlice[i] \in Nat \ {0}
  BY SchedulerAssumption DEF Levels
<1>3. new \in Int /\ \A i \in Levels : timeSliceRemain[c] <= threadArrTimeSlice[i]
                                          => new <= threadArrTimeSlice[i]
  BY <1>1, <1>2
<1> HIDE DEF new, left, c
<1>4. SlicesOK
  BY <1>1, <1>3 DEF SlicesOK
<1>5. yieldOnReturn' \in BOOLEAN
  BY Zenon DEF AlarmCallBack
<1> QED
  BY <1>4, <1>5

\* Alarm::CallBack at a tick of a running thread.
LEMMA TimerInterruptInv == Inv /\ TimerInterrupt /\ UNCHANGED typeno => Inv'
<1> SUFFICES ASSUME Inv, TimerInterrupt, UNCHANGED typeno PROVE Inv'
  OBVIOUS
<1>1. SlicesOK /\ yieldOnReturn' \in BOOLEAN
  BY AlarmSlices DEF TimerInterrupt
<1>2. SamePart(pc[currentThread], "ticked") /\ "ticked" \in PCs
  BY DEF TimerInterrupt, SamePart, RunningPCs, SwitchedOutPCs, PCs
<1>3. pc'[currentThread'] = "ticked"
  BY DEF TimerInterrupt, Inv, TypeOK
<1>4. YieldIsPrompt'
  BY <1>3 DEF YieldIsPrompt
<1>5. inFork' \subseteq Threads /\ fault' \in Faults
  BY DEF TimerInterrupt, Inv, TypeOK
<1>6. /\ UNCHANGED <<typeno, currentThread, threadArray, threadID, status, priority,
                     rl, blockList, toBeDestroyed, waiting>>
      /\ pc' = [pc EXCEPT ![currentThread] = "ticked"]
  BY DEF TimerInterrupt
<1> QED
  BY <1>1, <1>2, <1>4, <1>5, <1>6, QuietInv

\* The label that EnterIdle gives to a thread in the loop of Sleep.
LEMMA EnterIdlePlace ==
    ASSUME Idling, EnterIdle
    PROVE  \E x \in {"idle", "exitidle"} :
              /\ pc' = [pc EXCEPT ![currentThread] = x]
              /\ SamePart(pc[currentThread], x)
  BY DEF Idling, Sleeping, EnterIdle, Finished, SamePart

\* Alarm::CallBack from Interrupt::Idle.
LEMMA IdleTimerInterruptInv == Inv /\ IdleTimerInterrupt /\ UNCHANGED typeno => Inv'
<1> SUFFICES ASSUME Inv, IdleTimerInterrupt, UNCHANGED typeno PROVE Inv'
  OBVIOUS
<1>1. SlicesOK /\ yieldOnReturn' \in BOOLEAN
  BY AlarmSlices DEF IdleTimerInterrupt
<1>2. PICK x \in {"idle", "exitidle"} :
              /\ pc' = [pc EXCEPT ![currentThread] = x]
              /\ SamePart(pc[currentThread], x)
  BY EnterIdlePlace DEF IdleTimerInterrupt
<1>3. YieldIsPrompt'
  <2>1. pc[currentThread] # "ticked"
    BY DEF IdleTimerInterrupt, Idling, Sleeping
  <2>2. typeno # 1 => ~yieldOnReturn
    BY <2>1 DEF Inv, YieldIsPrompt
  <2>3. typeno # 1 => ~yieldOnReturn'
    BY <2>2 DEF IdleTimerInterrupt, AlarmCallBack
  <2> QED
    BY <2>3 DEF YieldIsPrompt
<1>4. x \in PCs /\ inFork' \subseteq Threads /\ fault' \in Faults
  BY DEF IdleTimerInterrupt, Inv, TypeOK, PCs
<1>5. UNCHANGED <<typeno, currentThread, threadArray, threadID, status, priority,
                  rl, blockList, toBeDestroyed, waiting>>
  BY DEF IdleTimerInterrupt
<1> QED
  BY <1>1, <1>2, <1>3, <1>4, <1>5, QuietInv

\* Steps of the running thread to another place in its code that change
\* nothing but pc, inFork, fault, and take back a request to yield at most.
LEMMA MoveInv ==
    ASSUME Inv,
           UNCHANGED <<typeno, currentThread, threadArray, threadID, status, priority,
                       timeSliceRemain, rl, blockList, toBeDestroyed, waiting>>,
           NEW x \in {"run", "fork", "tick"}, pc' = [pc EXCEPT ![currentThread] = x],
           pc[currentThread] \in {"run", "fork", "tick", "ticked", "woken"},
           inFork' \subseteq Threads, fault' \in Faults,
           yieldOnReturn' = FALSE
              \/ (yieldOnReturn' = yieldOnReturn /\ pc[currentThread] # "ticked")
    PROVE  Inv'
<1>1. SlicesOK
  BY SlicesStay DEF Inv
<1>2. SamePart(pc[currentThread], x) /\ x \in PCs
  BY DEF SamePart, RunningPCs, SwitchedOutPCs, PCs
<1>3. yieldOnReturn' \in BOOLEAN
  BY DEF Inv, TypeOK
<1>4. typeno # 1 => ~yieldOnReturn'
  BY DEF Inv, YieldIsPrompt
<1>5. YieldIsPrompt'
  BY <1>4 DEF YieldIsPrompt
<1> QED
  BY <1>1, <1>2, <1>3, <1>5, QuietInv

\* A woken thread leaves P.
LEMMA ReturnFromPInv == Inv /\ ReturnFromP /\ UNCHANGED typeno => Inv'
<1> SUFFICES ASSUME Inv, ReturnFromP, UNCHANGED typeno PROVE Inv'
  OBVIOUS
<1>1. inFork' \subseteq Threads /\ fault' \in Faults
  BY DEF ReturnFromP, Inv, TypeOK
<1> QED
  BY <1>1, MoveInv DEF ReturnFromP

\* A thread turns interrupts off and on again.
LEMMA CriticalSectionInv == Inv /\ CriticalSection /\ UNCHANGED typeno => Inv'
<1> SUFFICES ASSUME Inv, CriticalSection, UNCHANGED typeno PROVE Inv'
  OBVIOUS
<1>1. inFork' \subseteq Threads /\ fault' \in Faults
  BY DEF CriticalSection, Inv, TypeOK
<1> QED
  BY <1>1, MoveInv DEF CriticalSection, Running

(***************************************************************************)
(* Steps that change the ready lists.                                      *)
(***************************************************************************)
\* The feedback queue for a thread exists.
LEMMA QueueOfInRange ==
    ASSUME Inv, typeno = 3, NEW t \in Threads
    PROVE  QueueOf(t) \in Levels
<1>1. QueueNum \in Nat \ {0} /\ priority[t] \in -1 .. QueueNum - 1
  BY SchedulerAssumption DEF Inv, LevelsInRange
<1> QED
  BY <1>1 DEF QueueOf, Levels

\* What ReadyToRun(t) does to lists r that hold the threads of S.
LEMMA EnqueueStep ==
    ASSUME Inv, UNCHANGED typeno, NEW r \in ReadyLists, NEW S \in SUBSET Threads,
           ListsHold(r, S), Disciplined(r, priority, timeSliceRemain),
           NEW t \in Threads, t \notin S, SetSlice(t), rl' = Enqueue(r, t),
           ReadyThreads' = S \cup {t}
    PROVE  /\ rl' \in ReadyLists
           /\ priority' \in [Threads -> Int] /\ timeSliceRemain' \in [Threads -> Int]
           /\ (ListsHold(rl, ReadyThreads))' /\ QueueDiscipline' /\ LevelsInRange'
<1>0. /\ typeno \in 0 .. 3 /\ priority \in [Threads -> Int]
      /\ timeSliceRemain \in [Threads -> Int] /\ (typeno = 3 => QueueOf(t) \in Levels)
  BY QueueOfInRange DEF Inv, TypeOK
<1>1. Enqueue(r, t) \in ReadyLists /\ ListsHold(Enqueue(r, t), S \cup {t})
  BY <1>0, EnqueueHolds
<1>2. (ListsHold(rl, ReadyThreads))'
  BY <1>1 DEF ListsHold
<1>3. Disciplined(Enqueue(r, t), priority', timeSliceRemain')
  BY <1>0, EnqueueDisciplined
<1>4. QueueDiscipline'
  <2>1. (Disciplined(rl, priority, timeSliceRemain))'
    BY <1>3
  <2>2. (QueueDiscipline <=> Disciplined(rl, priority, timeSliceRemain))'
    BY DisciplineIs, PTL
  <2> QED
    BY <2>1, <2>2
<1>5. QueueNum \in Nat \ {0} /\ threadArrTimeSlice \in [Levels -> Nat] /\ timeSlice \in Int
  BY SchedulerAssumption DEF Levels
<1>6. priority' \in [Threads -> Int]
  <2>1. typeno = 3 => QueueOf(t) \in Int
    BY <1>0, <1>5 DEF Levels
  <2> QED
    BY <1>0, <2>1 DEF SetSlice
<1>7. timeSliceRemain' \in [Threads -> Int]
  <2>1. typeno = 3 => threadArrTimeSlice[QueueOf(t)] \in Int
    BY <1>0, <1>5
  <2>2. CASE typeno = 2
    BY <1>0, <1>5, <2>2 DEF SetSlice
  <2>3. CASE typeno = 3
    BY <1>0, <2>1, <2>3 DEF SetSlice
  <2>4. CASE typeno \in {0, 1}
    BY <1>0, <2>4 DEF SetSlice
  <2> QED
    BY <1>0, <2>2, <2>3, <2>4
<1>8. LevelsInRange'
  <2> SUFFICES ASSUME typeno = 3, NEW x \in Threads PROVE priority'[x] \in -1 .. QueueNum - 1
    BY DEF LevelsInRange
  <2>1. priority'[x] = IF x = t THEN QueueOf(t) ELSE priority[x]
    BY <1>0 DEF SetSlice
  <2>2. QueueOf(t) \in -1 .. QueueNum - 1
    BY <1>0, <1>5 DEF Levels
  <2>3. priority[x] \in -1 .. QueueNum - 1
    BY DEF Inv, LevelsInRange
  <2> QED
    BY <2>1, <2>2, <2>3
<1> QED
  BY <1>1, <1>2, <1>4, <1>6, <1>7, <1>8

\* The lists in a state of the invariant.
LEMMA ListsInv ==
    ASSUME Inv
    PROVE  /\ typeno \in 0 .. 3 /\ rl \in ReadyLists /\ ReadyThreads \in SUBSET Threads
           /\ ListsHold(rl, ReadyThreads)
           /\ Disciplined(rl, priority, timeSliceRemain)
  BY DisciplineIs DEF Inv, TypeOK, ReadyLists, ReadyThreads

\* The thread FindNextToRun returns, and the lists without it.
LEMMA NextToRun ==
    ASSUME Inv, ~isReadyListEmpty(rl), NEW n, n = getReadyListFront(rl)
    PROVE  /\ n \in Threads /\ status[n] = "READY"
           /\ RemoveNext(rl) \in ReadyLists
           /\ ListsHold(RemoveNext(rl), ReadyThreads \ {n})
           /\ Disciplined(RemoveNext(rl), priority, timeSliceRemain)
<1>1. n \in ReadyThreads
  BY ListsInv, RemoveNextHolds
<1> QED
  BY <1>1, ListsInv, RemoveNextHolds, RemoveNextDisciplined DEF ReadyThreads

\* ReadyToRun of a thread takes it off blockList.
LEMMA Unblocked ==
    ASSUME Inv, NEW t \in Threads, blockList' = RemoveFirst(blockList, t)
    PROVE  /\ blockList' \in Seq(Threads) /\ Distinct(blockList')
           /\ Elements(blockList') = Elements(blockList) \ {t}
  BY RemoveFirstElements DEF Inv, TypeOK, BlockListHolds

\* Thread::Yield that finds a thread to run.
LEMMA YieldSwitchInv ==
    ASSUME Inv, Yield, ~isReadyListEmpty(rl), UNCHANGED typeno,
           pc[currentThread] \in RunningPCs \ SwitchedOutPCs,
           inFork' \subseteq Threads, yieldOnReturn' \in BOOLEAN,
           typeno # 1 => ~yieldOnReturn'
    PROVE  Inv'
<1> DEFINE c == currentThread
           n == getReadyListFront(rl)
<1>1. /\ blockList' = RemoveFirst(blockList, c) /\ SetSlice(c)
      /\ rl' = Enqueue(RemoveNext(rl), c)
      /\ status' = [status EXCEPT ![c] = "READY", ![n] = "RUNNING"]
      /\ c' = n /\ pc' = [pc EXCEPT ![c] = "yield"]
      /\ UNCHANGED <<threadArray, threadID, toBeDestroyed, waiting, fault>>
  BY DEF Yield, SwitchTo
<1>2. /\ n \in Threads /\ status[n] = "READY"
      /\ RemoveNext(rl) \in ReadyLists
      /\ ListsHold(RemoveNext(rl), ReadyThreads \ {n})
      /\ Disciplined(RemoveNext(rl), priority, timeSliceRemain)
  BY NextToRun
<1> HIDE DEF n
<1>3. /\ c \in Threads /\ status[c] = "RUNNING" /\ n # c
      /\ status \in [Threads -> Statuses] /\ pc \in [Threads -> PCs]
      /\ pc[c] \notin {"none", "dead", "exit", "exitidle"}
  BY <1>2 DEF Inv, TypeOK, StatusAndPlace, RunningPCs, SwitchedOutPCs
<1>4. /\ status'[c] = "READY" /\ status'[n] = "RUNNING"
      /\ \A t \in Threads : t # c /\ t # n => status'[t] = status[t]
      /\ pc'[c] = "yield" /\ \A t \in Threads : t # c => pc'[t] = pc[t]
  BY <1>1, <1>3, <1>2
<1>5. pc[n] \in SwitchedOutPCs
  BY <1>2, <1>3 DEF Inv, StatusAndPlace
<1>6. ReadyThreads' = (ReadyThreads \ {n}) \cup {c}
  BY <1>2, <1>3, <1>4 DEF ReadyThreads
<1>7. /\ rl' \in ReadyLists
      /\ priority' \in [Threads -> Int] /\ timeSliceRemain' \in [Threads -> Int]
      /\ (ListsHold(rl, ReadyThreads))' /\ QueueDiscipline' /\ LevelsInRange'
  <2>1. c \notin ReadyThreads \ {n} /\ ReadyThreads \ {n} \in SUBSET Threads
    BY <1>3 DEF ReadyThreads
  <2> QED
    BY <1>1, <1>2, <1>3, <1>6, <2>1, EnqueueStep
<1>8. /\ blockList' \in Seq(Threads) /\ Distinct(blockList')
      /\ Elements(blockList') = Elements(blockList) \ {c}
  BY <1>1, <1>3, Unblocked
<1>9. TypeOK'
  <2>1. status' \in [Threads -> Statuses] /\ pc' \in [Threads -> PCs]
    BY <1>1, <1>3 DEF Statuses, PCs
  <2> QED
    BY <1>1, <1>2, <1>7, <1>8, <2>1 DEF Inv, TypeOK, ReadyLists
<1>10. StatusAndPlace'
  <2>1. \A t \in Threads : status'[t] \in {"FREE", "JUST_CREATED"} <=> pc'[t] = "none"
    BY <1>2, <1>3, <1>4, <1>5 DEF Inv, StatusAndPlace, SwitchedOutPCs
  <2>2. ASSUME NEW t \in Threads \ {n}
        PROVE  /\ status'[t] # "RUNNING"
               /\ status'[t] = "READY" => pc'[t] \in SwitchedOutPCs
               /\ status'[t] = "BLOCKED" => pc'[t] \in {"sleep", "dead"}
    <3>1. CASE t = c
      BY <1>4, <3>1 DEF SwitchedOutPCs
    <3>2. CASE t # c
      BY <1>4, <3>2 DEF Inv, StatusAndPlace
    <3> QED
      BY <3>1, <3>2
  <2>3. status'[n] = "RUNNING" /\ pc'[n] \in SwitchedOutPCs
    BY <1>2, <1>3, <1>4, <1>5
  <2> QED
    BY <1>1, <2>1, <2>2, <2>3 DEF StatusAndPlace, SwitchedOutPCs, RunningPCs
<1>11. CarcassBlocked'
  <2>1. \A t \in Threads : pc'[t] = "dead" => pc[t] = "dead" /\ t # c /\ t # n
    BY <1>2, <1>3, <1>4, <1>5 DEF SwitchedOutPCs
  <2> QED
    BY <1>4, <2>1 DEF Inv, CarcassBlocked
<1>12. WaitingExact'
  <2>1. \A t \in Threads : (status'[t] = "BLOCKED" /\ ~Finished(t)') <=> (status[t] = "BLOCKED" /\ ~Finished(t))
    BY <1>2, <1>3, <1>4 DEF Finished
  <2> QED
    BY <1>1, <2>1 DEF Inv, WaitingExact
<1>13. CarcassFreedNext'
  <2>1. toBeDestroyed = NULL
    BY DEF Inv, CarcassFreedNext, SwitchedOutPCs
  <2>2. \A t \in Threads : pc'[t] # "dead"
    BY <1>4, <2>1, SchedulerAssumption DEF Inv, CarcassFreedNext
  <2> QED
    BY <1>1, <2>1, <2>2 DEF CarcassFreedNext
<1>14. SlotTable'
  <2>1. \A u \in Threads : Live(u)' <=> Live(u)
    BY <1>1, <1>2, <1>3, <1>4 DEF Live, Inv, TypeOK
  <2> QED
    BY <1>1, <2>1 DEF Inv, SlotTable
<1>15. BlockListHolds'
  <2>1. ASSUME NEW t \in Threads, pc'[t] # "none"
        PROVE  t \in Elements(blockList') <=> status'[t] = "BLOCKED"
    <3>1. CASE t = c
      BY <1>4, <1>8, <3>1
    <3>2. CASE t = n
      BY <1>2, <1>3, <1>4, <1>5, <1>8, <3>2 DEF Inv, BlockListHolds, SwitchedOutPCs
    <3>3. CASE t # c /\ t # n
      BY <1>4, <1>8, <2>1, <3>3 DEF Inv, BlockListHolds
    <3> QED
      BY <3>1, <3>2, <3>3
  <2> QED
    BY <1>8, <2>1 DEF BlockListHolds
<1>16. YieldIsPrompt'
  BY DEF YieldIsPrompt
<1> QED
  BY <1>7, <1>9, <1>10, <1>11, <1>12, <1>13, <1>14, <1>15, <1>16 DEF Inv

\* Thread::Yield, called or forced.
LEMMA YieldInv ==
    ASSUME Inv, Yield, UNCHANGED typeno,
           pc[currentThread] \in {"run", "fork", "tick", "ticked"},
           inFork' \subseteq Threads,
           yieldOnReturn' = FALSE
              \/ (yieldOnReturn' = yieldOnReturn /\ pc[currentThread] # "ticked")
    PROVE  Inv'
<1>1. CASE isReadyListEmpty(rl)
  <2>1. /\ UNCHANGED <<typeno, currentThread, threadArray, threadID, status, priority,
                       timeSliceRemain, rl, blockList, toBeDestroyed, waiting>>
        /\ pc' = [pc EXCEPT ![currentThread] = "tick"]
        /\ fault' \in Faults
    BY <1>1 DEF Yield, Inv, TypeOK
  <2> QED
    BY <2>1, MoveInv
<1>2. CASE ~isReadyListEmpty(rl)
  <2>1. yieldOnReturn' \in BOOLEAN
    BY DEF Inv, TypeOK
  <2>2. typeno # 1 => ~yieldOnReturn'
    BY DEF Inv, YieldIsPrompt
  <2>3. pc[currentThread] \in RunningPCs \ SwitchedOutPCs
    BY DEF RunningPCs, SwitchedOutPCs
  <2> QED
    BY <1>2, <2>1, <2>2, <2>3, YieldSwitchInv
<1> QED
  BY <1>1, <1>2

\* A thread calls Yield itself.
LEMMA CallYieldInv == Inv /\ CallYield /\ UNCHANGED typeno => Inv'
<1> SUFFICES ASSUME Inv, CallYield, UNCHANGED typeno PROVE Inv'
  OBVIOUS
<1>1. inFork' \subseteq Threads
  BY DEF CallYield, Inv, TypeOK
<1> QED
  BY <1>1, YieldInv DEF CallYield, Running

\* The end of OneTick, with a Yield if a handler asked for one.
LEMMA EndTickInv == Inv /\ EndTick /\ UNCHANGED typeno => Inv'
<1> SUFFICES ASSUME Inv, EndTick, UNCHANGED typeno PROVE Inv'
  OBVIOUS
<1>1. inFork' \subseteq Threads
  BY DEF EndTick, Inv, TypeOK
<1>2. CASE yieldOnReturn
  BY <1>1, <1>2, YieldInv DEF EndTick
<1>3. CASE ~yieldOnReturn
  <2> DEFINE x == IF currentThread \in inFork THEN "fork" ELSE "run"
  <2>1. /\ UNCHANGED <<typeno, currentThread, threadArray, threadID, status, priority,
                       timeSliceRemain, rl, blockList, toBeDestroyed, waiting>>
        /\ pc' = [pc EXCEPT ![currentThread] = x]
        /\ yieldOnReturn' = FALSE
    BY <1>3 DEF EndTick
  <2>2. fault' \in Faults /\ x \in {"run", "fork", "tick"}
    BY <1>3 DEF EndTick, Inv, TypeOK
  <2>3. pc[currentThread] \in {"tick", "ticked"}
    BY DEF EndTick
  <2> HIDE DEF x
  <2> QED
    BY <1>1, <2>1, <2>2, <2>3, MoveInv
<1> QED
  BY <1>2, <1>3

\* The test at the end of Fork, with the Yield it may call.
LEMMA ForkTestInv == Inv /\ ForkTest /\ UNCHANGED typeno => Inv'
<1> SUFFICES ASSUME Inv, ForkTest, UNCHANGED typeno PROVE Inv'
  OBVIOUS
<1> DEFINE front == getReadyListFront(rl)
           Stay == UNCHANGED <<currentThread, threadArray, threadID, status,
                       priority, timeSliceRemain, rl, blockList, toBeDestroyed, waiting>>
<1>1. /\ inFork' \subseteq Threads /\ yieldOnReturn' = yieldOnReturn
      /\ pc[currentThread] = "fork" /\ pc \in [Threads -> PCs] /\ currentThread \in Threads
      /\ fault \in Faults
  BY DEF ForkTest, Inv, TypeOK
<1>2. CASE front = NULL
  <2>1. fault' = "NULL front" /\ UNCHANGED pc /\ Stay
    BY <1>2 DEF ForkTest
  <2>2. pc' = [pc EXCEPT ![currentThread] = "fork"] /\ fault' \in Faults
    BY <1>1, <2>1 DEF Faults
  <2> QED
    BY <1>1, <2>1, <2>2, MoveInv
<1>3. CASE front # NULL /\ priority[front] < priority[currentThread]
  <2>1. Yield
    BY <1>3 DEF ForkTest
  <2> QED
    BY <1>1, <2>1, YieldInv
<1>4. CASE ~(front = NULL) /\ ~(front # NULL /\ priority[front] < priority[currentThread])
  <2>1. pc' = [pc EXCEPT ![currentThread] = "run"] /\ UNCHANGED fault /\ Stay
    BY <1>4 DEF ForkTest
  <2> QED
    BY <1>1, <2>1, MoveInv
<1> QED
  BY <1>2, <1>3, <1>4

\* ReadyToRun of a sleeping thread, called by V of the running thread or by a
\* handler.  In Idle the thread may be the current one.
LEMMA WakeInv ==
    ASSUME Inv, UNCHANGED <<typeno, currentThread, threadArray, threadID, inFork,
                            toBeDestroyed, yieldOnReturn, fault>>,
           NEW t, t \in waiting, waiting' = waiting \ {t}, ReadyToRun(t),
           NEW x \in PCs, pc' = [pc EXCEPT ![currentThread] = x],
           SamePart(pc[currentThread], x), pc[currentThread] = "ticked" => x = "ticked"
    PROVE  Inv'
<1> DEFINE c == currentThread
<1>0. /\ c \in Threads /\ c' = c /\ pc \in [Threads -> PCs]
      /\ pc'[c] = x /\ \A u \in Threads : u # c => pc'[u] = pc[u]
  BY DEF Inv, TypeOK
<1>1. t \in Threads /\ status[t] = "BLOCKED" /\ ~Finished(t) /\ status \in [Threads -> Statuses]
  BY DEF Inv, WaitingExact, TypeOK
<1>2. /\ blockList' = RemoveFirst(blockList, t) /\ SetSlice(t) /\ rl' = Enqueue(rl, t)
      /\ status' = [status EXCEPT ![t] = "READY"]
  BY DEF ReadyToRun
<1>3. status'[t] = "READY" /\ \A u \in Threads : u # t => status'[u] = status[u]
  BY <1>1, <1>2
<1>4. /\ pc[c] # "none" /\ x # "none" /\ pc[c] # "dead" /\ x # "dead"
      /\ pc[c] \in {"exit", "exitidle", "dead"} <=> x \in {"exit", "exitidle", "dead"}
  BY DEF SamePart, RunningPCs, SwitchedOutPCs
<1>5. IF t = c THEN pc[c] \in {"loop", "idle"} /\ x = "idle" ELSE pc[t] = "sleep"
  BY <1>0, <1>1 DEF Inv, StatusAndPlace, Finished, SamePart, RunningPCs, SwitchedOutPCs
<1>6. ReadyThreads' = ReadyThreads \cup {t}
  BY <1>1, <1>3 DEF ReadyThreads
<1>7. /\ rl' \in ReadyLists
      /\ priority' \in [Threads -> Int] /\ timeSliceRemain' \in [Threads -> Int]
      /\ (ListsHold(rl, ReadyThreads))' /\ QueueDiscipline' /\ LevelsInRange'
  <2>1. t \notin ReadyThreads
    BY <1>1 DEF ReadyThreads
  <2> QED
    BY <1>1, <1>2, <1>6, <2>1, ListsInv, EnqueueStep
<1>8. /\ blockList' \in Seq(Threads) /\ Distinct(blockList')
      /\ Elements(blockList') = Elements(blockList) \ {t}
  BY <1>1, <1>2, Unblocked
<1>9. TypeOK'
  <2>1. status' \in [Threads -> Statuses] /\ pc' \in [Threads -> PCs]
    BY <1>0, <1>1, <1>2 DEF Statuses
  <2> QED
    BY <1>7, <1>8, <2>1 DEF Inv, TypeOK, ReadyLists
<1>10. StatusAndPlace'
  <2>1. \A u \in Threads : status'[u] \in {"FREE", "JUST_CREATED"} <=> pc'[u] = "none"
    BY <1>0, <1>1, <1>3, <1>4, <1>5 DEF Inv, StatusAndPlace
  <2>2. ASSUME NEW u \in Threads \ {c}
        PROVE  /\ status'[u] # "RUNNING"
               /\ status'[u] = "READY" => pc'[u] \in SwitchedOutPCs
               /\ status'[u] = "BLOCKED" => pc'[u] \in {"sleep", "dead"}
    <3>1. CASE u = t
      BY <1>0, <1>3, <1>5, <3>1 DEF SwitchedOutPCs
    <3>2. CASE u # t
      BY <1>0, <1>3, <3>2 DEF Inv, StatusAndPlace
    <3> QED
      BY <3>1, <3>2
  <2>3. /\ x \in RunningPCs => status'[c] = "RUNNING"
        /\ x \in {"loop", "exit", "exitidle"} => status'[c] = "BLOCKED"
        /\ x = "idle" => status'[c] \in {"BLOCKED", "READY"}
    <3>1. CASE t = c
      BY <1>3, <1>5, <3>1 DEF RunningPCs
    <3>2. CASE t # c
      <4>1. status'[c] = status[c]
        BY <1>0, <1>3, <3>2
      <4> QED
        BY <4>1 DEF Inv, StatusAndPlace, SamePart, RunningPCs, SwitchedOutPCs
    <3> QED
      BY <3>1, <3>2
  <2> QED
    BY <1>0, <1>4, <2>1, <2>2, <2>3 DEF StatusAndPlace
<1>11. CarcassBlocked'
  <2>1. \A u \in Threads : pc'[u] = "dead" => pc[u] = "dead" /\ u # c /\ u # t
    BY <1>0, <1>4, <1>5
  <2> QED
    BY <1>3, <2>1 DEF Inv, CarcassBlocked
<1>12. WaitingExact'
  <2>1. \A u \in Threads : Finished(u)' <=> Finished(u)
    BY <1>0, <1>4 DEF Finished
  <2> QED
    BY <1>1, <1>3, <2>1 DEF Inv, WaitingExact
<1>13. CarcassFreedNext'
  <2>1. toBeDestroyed = NULL
    BY DEF Inv, CarcassFreedNext, SamePart, RunningPCs, SwitchedOutPCs
  <2>2. \A u \in Threads : pc'[u] # "dead"
    BY <1>0, <1>4, <2>1, SchedulerAssumption DEF Inv, CarcassFreedNext
  <2> QED
    BY <2>1, <2>2 DEF CarcassFreedNext
<1>14. SlotTable'
  <2>1. \A u \in Threads : Live(u)' <=> Live(u)
    BY <1>1, <1>3 DEF Live, Inv, TypeOK
  <2> QED
    BY <1>1, <2>1 DEF Inv, SlotTable
<1>15. BlockListHolds'
  <2>1. ASSUME NEW u \in Threads, pc'[u] # "none"
        PROVE  u \in Elements(blockList') <=> status'[u] = "BLOCKED"
    <3>1. pc[u] # "none"
      BY <1>0, <1>4, <2>1
    <3> QED
      BY <1>3, <1>8, <3>1 DEF Inv, BlockListHolds
  <2> QED
    BY <1>8, <2>1 DEF BlockListHolds
<1>16. YieldIsPrompt'
  BY <1>0 DEF Inv, YieldIsPrompt
<1> QED
  BY <1>7, <1>9, <1>10, <1>11, <1>12, <1>13, <1>14, <1>15, <1>16 DEF Inv

\* A handler wakes a thread, at a tick or in the idle loop.
LEMMA DeviceInterruptInv ==
    ASSUME Inv, NEW t \in Threads, DeviceInterrupt(t), UNCHANGED typeno
    PROVE  Inv'
<1>0. pc \in [Threads -> PCs] /\ currentThread \in Threads
  BY DEF Inv, TypeOK
<1>1. CASE pc[currentThread] \in {"tick", "ticked"} /\ UNCHANGED pc
  <2> DEFINE x == pc[currentThread]
  <2>1. x \in PCs /\ pc' = [pc EXCEPT ![currentThread] = x]
    BY <1>0, <1>1
  <2>2. SamePart(pc[currentThread], x) /\ (pc[currentThread] = "ticked" => x = "ticked")
    BY <1>1 DEF SamePart, RunningPCs, SwitchedOutPCs
  <2> HIDE DEF x
  <2> QED
    BY <2>1, <2>2, WakeInv DEF DeviceInterrupt
<1>2. CASE Idling /\ EnterIdle
  <2>1. PICK x \in {"idle", "exitidle"} :
              /\ pc' = [pc EXCEPT ![currentThread] = x]
              /\ SamePart(pc[currentThread], x)
    BY <1>2, EnterIdlePlace
  <2>2. x \in PCs /\ pc[currentThread] # "ticked"
    BY <1>2 DEF PCs, Idling, Sleeping
  <2> QED
    BY <2>1, <2>2, WakeInv DEF DeviceInterrupt
<1> QED
  BY <1>1, <1>2 DEF DeviceInterrupt

\* A running thread wakes another one.
LEMMA WakeThreadInv ==
    ASSUME Inv, NEW t \in Threads, WakeThread(t), UNCHANGED typeno
    PROVE  Inv'
<1>1. SamePart(pc[currentThread], "tick") /\ "tick" \in PCs
  BY DEF WakeThread, Running, SamePart, RunningPCs, SwitchedOutPCs, PCs
<1> QED
  BY <1>1, WakeInv DEF WakeThread, Running
=============================================================================
