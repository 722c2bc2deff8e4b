---------------------------- MODULE DeviceLemmas ----------------------------
(***************************************************************************)
(* What the pending list of the interrupt simulation does, and that the    *)
(* steps of the disk and of the console keep their invariants, for any     *)
(* delays, any geometry, any number of threads and requests and any input. *)
(***************************************************************************)
EXTENDS Devices, WellFoundedInduction, TLAPS

(***************************************************************************)
(* What passes from one list to the next.                                  *)
(***************************************************************************)
\* One list behind another.
LEMMA ConcatIs ==
    ASSUME NEW S, NEW s \in Seq(S), NEW t \in Seq(S)
    PROVE  /\ s \o t \in Seq(S) /\ Len(s \o t) = Len(s) + Len(t)
           /\ \A i \in 1 .. Len(s) + Len(t) :
                 (s \o t)[i] = IF i <= Len(s) THEN s[i] ELSE t[i - Len(s)]
  OBVIOUS

\* A list and the empty list.
LEMMA ConcatEmpty ==
    ASSUME NEW S, NEW s \in Seq(S)
    PROVE  s \o <<>> = s /\ <<>> \o s = s
  OBVIOUS

\* A list and one element more.
LEMMA AppendIs ==
    ASSUME NEW S, NEW s \in Seq(S), NEW x \in S
    PROVE  Append(s, x) = s \o <<x>>
  OBVIOUS

\* new is a list over S: front, then e, then back.
IsJoined(S, front, e, back, new) ==
    /\ new \in Seq(S) /\ Len(new) = Len(front) + 1 + Len(back)
    /\ \A i \in 1 .. Len(front) + 1 + Len(back) :
          new[i] = IF i <= Len(front) THEN front[i]
                   ELSE IF i = Len(front) + 1 THEN e
                   ELSE back[i - (Len(front) + 1)]

\* An entry between the two parts of a list.
LEMMA Between ==
    ASSUME NEW S, NEW front \in Seq(S), NEW e \in S, NEW back \in Seq(S)
    PROVE  IsJoined(S, front, e, back, front \o <<e>> \o back)
<1> DEFINE fore == front \o <<e>>
<1>1. <<e>> \in Seq(S) /\ Len(<<e>>) = 1 /\ <<e>>[1] = e
  OBVIOUS
<1>2. /\ fore \in Seq(S) /\ Len(fore) = Len(front) + 1
      /\ \A i \in 1 .. Len(front) + 1 :
            fore[i] = IF i <= Len(front) THEN front[i] ELSE e
  BY <1>1, ConcatIs
<1> HIDE DEF fore
<1>3. /\ fore \o back \in Seq(S) /\ Len(fore \o back) = Len(fore) + Len(back)
      /\ \A i \in 1 .. Len(fore) + Len(back) :
            (fore \o back)[i] = IF i <= Len(fore) THEN fore[i] ELSE back[i - Len(fore)]
  BY <1>2, ConcatIs
<1>4. Len(front) \in Nat /\ Len(back) \in Nat
  OBVIOUS
<1>5. \A i \in 1 .. Len(front) + 1 + Len(back) :
         (fore \o back)[i] = IF i <= Len(front) THEN front[i]
                             ELSE IF i = Len(front) + 1 THEN e
                             ELSE back[i - (Len(front) + 1)]
  BY <1>2, <1>3, <1>4
<1>6. IsJoined(S, front, e, back, fore \o back)
  BY <1>2, <1>3, <1>4, <1>5 DEF IsJoined
<1> QED
  BY <1>6 DEF fore

(***************************************************************************)
(* What passes from one queue to the next.                                 *)
(***************************************************************************)
\* The last element of a sequence stays last.
LEMMA AppendLast ==
    ASSUME NEW S, NEW s \in Seq(S), NEW t \in Seq(S), NEW x \in S
    PROVE  s \o Append(t, x) = Append(s \o t, x)
<1>1. s \o t \in Seq(S) /\ <<x>> \in Seq(S)
  BY ConcatIs
<1>2. Append(t, x) = t \o <<x>> /\ Append(s \o t, x) = (s \o t) \o <<x>>
  BY <1>1, AppendIs
<1>3. (s \o t) \o <<x>> = s \o (t \o <<x>>)
  BY <1>1
<1> QED
  BY <1>2, <1>3

\* A sequence is its first element and the others.
LEMMA FirstAndRest ==
    ASSUME NEW S, NEW t \in Seq(S), t # <<>>
    PROVE  /\ <<Head(t)>> \o Tail(t) = t
           /\ Head(t) \in S /\ Tail(t) \in Seq(S) /\ <<Head(t)>> \in Seq(S)
<1> DEFINE h == <<Head(t)>>
           r == Tail(t)
           u == h \o r
<1>1. /\ Head(t) \in S /\ r \in Seq(S) /\ Len(r) = Len(t) - 1
      /\ \A i \in 1 .. Len(r) : r[i] = t[i + 1]
  OBVIOUS
<1>2. h \in Seq(S) /\ Len(h) = 1 /\ h[1] = Head(t) /\ Head(t) = t[1]
  BY <1>1
<1>3. Len(t) \in Nat /\ Len(t) # 0
  OBVIOUS
<1> HIDE DEF h, r
<1>4. /\ u \in Seq(S) /\ Len(u) = 1 + Len(r)
      /\ \A i \in 1 .. 1 + Len(r) : u[i] = IF i <= 1 THEN h[i] ELSE r[i - 1]
  <2>0. h \in Seq(S) /\ r \in Seq(S)
    BY <1>1, <1>2
  <2>1. /\ u \in Seq(S) /\ Len(u) = Len(h) + Len(r)
        /\ \A i \in 1 .. Len(h) + Len(r) :
              u[i] = IF i <= Len(h) THEN h[i] ELSE r[i - Len(h)]
    BY <2>0, ConcatIs
  <2> QED
    BY <1>2, <2>1
<1> HIDE DEF u
<1>5. ASSUME NEW i \in 1 .. Len(t) PROVE u[i] = t[i]
  <2>1. CASE i = 1
    BY <1>1, <1>2, <1>3, <1>4, <2>1
  <2>2. CASE i > 1
    <3>1. i - 1 \in 1 .. Len(r) /\ (i - 1) + 1 = i /\ i \in 1 .. 1 + Len(r)
      BY <1>1, <1>3, <2>2
    <3> QED
      BY <1>1, <1>4, <2>2, <3>1
  <2> QED
    BY <2>1, <2>2
<1>6. u = t
  BY <1>1, <1>3, <1>4, <1>5
<1> QED
  BY <1>1, <1>2, <1>6 DEF h, r, u

\* The first element of t moves to the end of s.
LEMMA MoveFirst ==
    ASSUME NEW S, NEW s \in Seq(S), NEW t \in Seq(S), t # <<>>
    PROVE  s \o <<Head(t)>> \o Tail(t) = s \o t
<1>1. <<Head(t)>> \in Seq(S) /\ Tail(t) \in Seq(S) /\ <<Head(t)>> \o Tail(t) = t
  BY FirstAndRest
<1>2. (s \o <<Head(t)>>) \o Tail(t) = s \o (<<Head(t)>> \o Tail(t))
  BY <1>1
<1> QED
  BY <1>1, <1>2

(***************************************************************************)
(* The pending list of the interrupt simulation: SortedList::Insert keeps  *)
(* it in the order of the times and adds one entry, so that CheckIfDue and *)
(* Idle, which look at its front alone, miss nothing.                      *)
(***************************************************************************)
Types == {"TimerInt", "DiskInt", "ConsoleReadInt", "ConsoleWriteInt",
          "NetworkRecvInt", "NetworkSendInt"}
Entries == [type : Types, due : Int]

Sorted(list) == \A i, j \in 1 .. Len(list) : i < j => list[i].due <= list[j].due

\* The fields of an entry.
LEMMA EntryFields ==
    ASSUME NEW e \in Entries
    PROVE  e.due \in Int /\ e.type \in Types
  BY DEF Entries

\* A set of natural numbers that is not empty has a least element.
LEMMA LeastNumber ==
    ASSUME NEW S \in SUBSET Nat, S # {}
    PROVE  \E m \in S : \A n \in S : m <= n
<1> DEFINE R == OpToRel(<, Nat)
<1>1. PICK m \in S : \A n \in S : ~(<<n, m>> \in R)
  BY NatLessThanWellFounded, WFMin, Zenon
<1>2. ASSUME NEW n \in S PROVE m <= n
  <2>1. n < m => <<n, m>> \in R
    BY DEF OpToRel
  <2> HIDE DEF R
  <2> QED
    BY <1>1, <2>1
<1> QED
  BY <1>2

\* SortedList::Insert stops within the list, behind entries that are due no later.
LEMMA WalkStops ==
    ASSUME NEW list \in Seq(Entries), NEW d \in Int
    PROVE  /\ Walk(list, d) \in 0 .. Len(list)
           /\ \A i \in 1 .. Walk(list, d) : list[i].due <= d
           /\ Walk(list, d) < Len(list) => list[Walk(list, d) + 1].due > d
<1> DEFINE Stop(n) == n < Len(list) => list[n + 1].due > d
           Place(k) == (\A i \in 1 .. k : list[i].due <= d) /\ Stop(k)
           S == {n \in 0 .. Len(list) : Stop(n)}
<1>0. Len(list) \in Nat /\ \A i \in 1 .. Len(list) : list[i] \in Entries
  OBVIOUS
<1>1. S \in SUBSET Nat /\ Len(list) \in S
  BY <1>0
<1>2. PICK m \in S : \A n \in S : m <= n
  BY <1>1, LeastNumber, Zenon
<1>3. m \in 0 .. Len(list) /\ Stop(m)
  BY <1>2
<1>4. ASSUME NEW i \in 1 .. m PROVE list[i].due <= d
  <2>1. i - 1 \in 0 .. Len(list) /\ i - 1 < Len(list) /\ (i - 1) + 1 = i /\ ~(m <= i - 1)
    BY <1>0, <1>3
  <2>2. ~Stop(i - 1)
    BY <1>2, <2>1
  <2>3. list[i].due \in Int
    BY <1>0, <1>3, EntryFields
  <2> QED
    BY <2>1, <2>2, <2>3
<1>5. Place(m)
  BY <1>3, <1>4
<1> HIDE DEF Place, S, Stop
<1>6. \E k \in 0 .. Len(list) : Place(k)
  BY <1>3, <1>5
<1>7. Walk(list, d) = CHOOSE k \in 0 .. Len(list) : Place(k)
  BY Zenon DEF Walk, Place, Stop
<1>8. Walk(list, d) \in 0 .. Len(list) /\ Place(Walk(list, d))
  BY <1>6, <1>7, Zenon
<1> QED
  BY <1>8 DEF Place, Stop

\* In a sorted list the entries that are due no later are the first ones.
LEMMA WalkIsSorted ==
    ASSUME NEW list \in Seq(Entries), Sorted(list), NEW d \in Int,
           NEW i \in 1 .. Len(list)
    PROVE  list[i].due <= d <=> i <= Walk(list, d)
<1> DEFINE k == Walk(list, d)
<1>0. /\ Len(list) \in Nat
      /\ \A j \in 1 .. Len(list) : list[j].due \in Int
  <2>1. \A j \in 1 .. Len(list) : list[j] \in Entries
    OBVIOUS
  <2> QED
    BY <2>1, EntryFields
<1>1. /\ k \in 0 .. Len(list)
      /\ \A j \in 1 .. k : list[j].due <= d
      /\ k < Len(list) => list[k + 1].due > d
  BY WalkStops
<1> HIDE DEF k
<1>2. ASSUME i > k PROVE list[i].due > d
  <2>1. k + 1 \in 1 .. Len(list) /\ list[k + 1].due > d
    BY <1>0, <1>1, <1>2
  <2>2. i = k + 1 \/ list[k + 1].due <= list[i].due
    BY <1>0, <1>1, <1>2, <2>1 DEF Sorted
  <2> QED
    BY <1>0, <2>1, <2>2
<1>3. i <= k => list[i].due <= d
  BY <1>1
<1>4. list[i].due <= d <=> i <= k
  BY <1>0, <1>1, <1>2, <1>3
<1> QED
  BY <1>4 DEF k

\* new is the list with the entry behind its first k.
PutAt(list, entry, k, new) ==
    /\ k \in 0 .. Len(list)
    /\ new \in Seq(Entries) /\ Len(new) = Len(list) + 1
    /\ \A i \in 1 .. Len(new) :
          new[i] = IF i <= k THEN list[i]
                   ELSE IF i = k + 1 THEN entry ELSE list[i - 1]

\* What Insert returns.
LEMMA InsertShape ==
    ASSUME NEW list \in Seq(Entries), NEW entry \in Entries
    PROVE  PutAt(list, entry, Walk(list, entry.due), Insert(list, entry))
<1> DEFINE k == Walk(list, entry.due)
           new == Insert(list, entry)
<1> DEFINE front == SubSeq(list, 1, k)
           back == SubSeq(list, k + 1, Len(list))
<1>1. k \in 0 .. Len(list) /\ Len(list) \in Nat
  BY EntryFields, WalkStops
<1>2. new = front \o <<entry>> \o back
  BY DEF Insert
<1>3. /\ front \in Seq(Entries) /\ Len(front) = k
      /\ \A i \in 1 .. k : front[i] = list[i]
  <2>1. \A i \in 1 .. k : list[i] \in Entries
    BY <1>1
  <2> QED
    BY <1>1, <2>1
<1>4. /\ back \in Seq(Entries) /\ Len(back) = Len(list) - k
      /\ \A i \in 1 .. Len(list) - k : back[i] = list[k + i]
  <2>1. \A i \in k + 1 .. Len(list) : list[i] \in Entries
    BY <1>1
  <2> QED
    BY <1>1, <2>1
<1> HIDE DEF front, back, k, new
<1>5. IsJoined(Entries, front, entry, back, new)
  BY <1>2, <1>3, <1>4, Between
<1>6. Len(new) = Len(list) + 1
  BY <1>1, <1>3, <1>4, <1>5 DEF IsJoined
<1>7. ASSUME NEW i \in 1 .. Len(new)
      PROVE  new[i] = IF i <= k THEN list[i]
                      ELSE IF i = k + 1 THEN entry ELSE list[i - 1]
  <2>1. new[i] = IF i <= k THEN front[i]
                 ELSE IF i = k + 1 THEN entry ELSE back[i - (k + 1)]
    BY <1>1, <1>3, <1>4, <1>5, <1>6 DEF IsJoined
  <2>2. i <= k => front[i] = list[i]
    BY <1>3
  <2>0. i \in 1 .. Len(list) + 1 /\ Len(list) \in Int /\ k \in Int
    BY <1>1, <1>6
  <2>3. i > k + 1 => /\ i - (k + 1) \in 1 .. Len(list) - k
                     /\ k + (i - (k + 1)) = i - 1
    BY ONLY <2>0
  <2>4. i > k + 1 => back[i - (k + 1)] = list[i - 1]
    BY <1>4, <2>3
  <2> QED
    BY <1>1, <1>6, <2>1, <2>2, <2>4
<1>8. PutAt(list, entry, k, new)
  BY <1>1, <1>5, <1>6, <1>7 DEF IsJoined, PutAt
<1> QED
  BY <1>8 DEF k, new

\* Insert keeps the list sorted.
LEMMA InsertSorted ==
    ASSUME NEW list \in Seq(Entries), Sorted(list), NEW entry \in Entries
    PROVE  Insert(list, entry) \in Seq(Entries) /\ Sorted(Insert(list, entry))
<1> DEFINE k == Walk(list, entry.due)
           new == Insert(list, entry)
<1>k. k = Walk(list, entry.due) /\ new = Insert(list, entry)
  OBVIOUS
<1> HIDE DEF k, new
<1>1. /\ k \in 0 .. Len(list)
      /\ new \in Seq(Entries) /\ Len(new) = Len(list) + 1
      /\ \A i \in 1 .. Len(new) :
            new[i] = IF i <= k THEN list[i]
                     ELSE IF i = k + 1 THEN entry ELSE list[i - 1]
  BY <1>k, InsertShape, Zenon DEF PutAt
<1>2. \A i \in 1 .. Len(list) : list[i].due \in Int /\ (list[i].due <= entry.due <=> i <= k)
  <2>1. \A i \in 1 .. Len(list) : list[i] \in Entries
    OBVIOUS
  <2> QED
    BY <1>k, <2>1, EntryFields, WalkIsSorted
<1>3. entry.due \in Int /\ Len(list) \in Nat
  BY EntryFields
<1>4. ASSUME NEW i \in 1 .. Len(new), NEW j \in 1 .. Len(new), i < j
      PROVE  new[i].due <= new[j].due
  <2>1. CASE j <= k
    <3>1. i \in 1 .. Len(list) /\ j \in 1 .. Len(list)
      BY <1>1, <1>3, <1>4, <2>1
    <3>2. new[i] = list[i] /\ new[j] = list[j]
      BY <1>1, <1>3, <1>4, <2>1
    <3> QED
      BY <1>4, <3>1, <3>2 DEF Sorted
  <2>2. CASE j = k + 1
    <3>1. i \in 1 .. Len(list) /\ i <= k
      BY <1>1, <1>3, <1>4, <2>2
    <3>2. new[i] = list[i] /\ new[j] = entry
      BY <1>1, <1>3, <1>4, <2>2
    <3>3. list[i].due <= entry.due
      BY <1>2, <3>1
    <3> QED
      BY <3>2, <3>3
  <2>3. CASE j > k + 1 /\ i = k + 1
    <3>1. j - 1 \in 1 .. Len(list) /\ ~(j - 1 <= k)
      BY <1>1, <1>3, <2>3
    <3>2. new[i] = entry /\ new[j] = list[j - 1]
      BY <1>1, <1>3, <2>3
    <3>3. list[j - 1].due \in Int /\ ~(list[j - 1].due <= entry.due)
      BY <1>2, <3>1
    <3> QED
      BY <1>3, <3>2, <3>3
  <2>4. CASE j > k + 1 /\ i # k + 1
    <3> DEFINE p == IF i <= k THEN i ELSE i - 1
    <3>1. p \in 1 .. Len(list) /\ j - 1 \in 1 .. Len(list) /\ p < j - 1
      BY <1>1, <1>3, <1>4, <2>4
    <3>2. new[i] = list[p] /\ new[j] = list[j - 1]
      BY <1>1, <1>3, <1>4, <2>4
    <3> QED
      BY <3>1, <3>2 DEF Sorted
  <2> QED
    BY <1>1, <1>3, <2>1, <2>2, <2>3, <2>4
<1>5. new \in Seq(Entries) /\ Sorted(new)
  BY <1>1, <1>4 DEF Sorted
<1> QED
  BY <1>5 DEF new

\* Insert puts nothing that is due among entries that are not.
LEMMA InsertFuture ==
    ASSUME NEW list \in Seq(Entries), NEW entry \in Entries, entry.due > 0,
           \A i \in 1 .. Len(list) : list[i].due > 0
    PROVE  \A i \in 1 .. Len(Insert(list, entry)) : Insert(list, entry)[i].due > 0
<1> DEFINE k == Walk(list, entry.due)
           new == Insert(list, entry)
<1>0. Len(list) \in Nat
  OBVIOUS
<1>k. k = Walk(list, entry.due) /\ new = Insert(list, entry)
  OBVIOUS
<1> HIDE DEF k, new
<1>1. /\ k \in 0 .. Len(list)
      /\ new \in Seq(Entries) /\ Len(new) = Len(list) + 1
      /\ \A i \in 1 .. Len(new) :
            new[i] = IF i <= k THEN list[i]
                     ELSE IF i = k + 1 THEN entry ELSE list[i - 1]
  BY <1>k, InsertShape, Zenon DEF PutAt
<1>2. ASSUME NEW i \in 1 .. Len(new) PROVE new[i].due > 0
  <2>1. CASE i = k + 1
    BY <1>0, <1>1, <2>1
  <2>2. CASE i # k + 1
    <3> DEFINE p == IF i <= k THEN i ELSE i - 1
    <3>1. p \in 1 .. Len(list) /\ new[i] = list[p]
      BY <1>0, <1>1, <2>2
    <3> QED
      BY <3>1
  <2> QED
    BY <2>1, <2>2
<1> QED
  BY <1>2 DEF new

Has(list, type) == \E i \in 1 .. Len(list) : list[i].type = type

\* At most one interrupt of a type is pending.
AtMostOne(list, type) ==
    \A i, j \in 1 .. Len(list) : list[i].type = type /\ list[j].type = type => i = j

\* Insert adds one entry and drops none.
LEMMA InsertTypes ==
    ASSUME NEW list \in Seq(Entries), NEW entry \in Entries, NEW type
    PROVE  /\ Has(Insert(list, entry), type) <=> Has(list, type) \/ entry.type = type
           /\ AtMostOne(list, type) /\ ~(entry.type = type /\ Has(list, type))
                 => AtMostOne(Insert(list, entry), type)
<1> DEFINE k == Walk(list, entry.due)
           new == Insert(list, entry)
<1>k. k = Walk(list, entry.due) /\ new = Insert(list, entry)
  OBVIOUS
<1> HIDE DEF k, new
<1>1. /\ k \in 0 .. Len(list)
      /\ new \in Seq(Entries) /\ Len(new) = Len(list) + 1
      /\ \A i \in 1 .. Len(new) :
            new[i] = IF i <= k THEN list[i]
                     ELSE IF i = k + 1 THEN entry ELSE list[i - 1]
  BY <1>k, InsertShape, Zenon DEF PutAt
<1>2. Len(list) \in Nat
  OBVIOUS
<1>3. new[k + 1] = entry /\ k + 1 \in 1 .. Len(new)
  BY <1>1, <1>2
<1>4. ASSUME NEW i \in 1 .. Len(list)
      PROVE  \E j \in 1 .. Len(new) : new[j] = list[i]
  <2>1. CASE i <= k
    <3>1. i \in 1 .. Len(new) /\ new[i] = list[i]
      BY <1>1, <1>2, <2>1
    <3> QED
      BY <3>1
  <2>2. CASE i > k
    <3>1. i + 1 \in 1 .. Len(new) /\ ~(i + 1 <= k) /\ i + 1 # k + 1 /\ (i + 1) - 1 = i
      BY <1>1, <1>2, <2>2
    <3>2. new[i + 1] = list[i]
      BY <1>1, <3>1
    <3> QED
      BY <3>1, <3>2
  <2> QED
    BY <1>1, <1>2, <2>1, <2>2, SMTT(30)
<1> DEFINE p(j) == IF j <= k THEN j ELSE j - 1
<1>5. \A j \in 1 .. Len(new) : j # k + 1 => p(j) \in 1 .. Len(list) /\ new[j] = list[p(j)]
  BY <1>1, <1>2
<1>6. \A i, j \in 1 .. Len(new) : i # k + 1 /\ j # k + 1 /\ p(i) = p(j) => i = j
  BY <1>1, <1>2
<1> HIDE DEF p
<1>7. Has(new, type) <=> Has(list, type) \/ entry.type = type
  BY <1>3, <1>4, <1>5, Zenon DEF Has
<1>8. ASSUME AtMostOne(list, type), ~(entry.type = type /\ Has(list, type))
      PROVE  AtMostOne(new, type)
  <2> SUFFICES ASSUME NEW i \in 1 .. Len(new), NEW j \in 1 .. Len(new),
                      new[i].type = type, new[j].type = type
               PROVE  i = j
    BY DEF AtMostOne
  <2>1. CASE i # k + 1 /\ j # k + 1
    BY <1>5, <1>6, <1>8, <2>1 DEF AtMostOne
  <2>2. CASE i = k + 1 \/ j = k + 1
    BY <1>3, <1>5, <1>8, <2>2 DEF Has
  <2> QED
    BY <2>1, <2>2
<1> QED
  BY <1>7, <1>8 DEF new

\* RemoveFront takes the first entry off.
LEMMA TailTypes ==
    ASSUME NEW list \in Seq(Entries), list # <<>>, NEW type
    PROVE  /\ Tail(list) \in Seq(Entries)
           /\ Sorted(list) => Sorted(Tail(list))
           /\ AtMostOne(list, type) => AtMostOne(Tail(list), type)
           /\ Has(Tail(list), type) => Has(list, type)
           /\ list[1].type # type /\ Has(list, type) => Has(Tail(list), type)
           /\ list[1].type = type /\ AtMostOne(list, type) => ~Has(Tail(list), type)
<1> DEFINE r == Tail(list)
<1>1. /\ r \in Seq(Entries) /\ Len(r) = Len(list) - 1 /\ Len(list) \in Nat \ {0}
      /\ \A i \in 1 .. Len(r) : r[i] = list[i + 1]
  OBVIOUS
<1> HIDE DEF r
<1>2. \A i \in 1 .. Len(r) : i + 1 \in 1 .. Len(list) /\ r[i] = list[i + 1]
  BY <1>1
<1>3. 1 \in 1 .. Len(list)
  BY <1>1
<1>4. \A i \in 1 .. Len(list) : i # 1 => i - 1 \in 1 .. Len(r) /\ r[i - 1] = list[i]
  BY <1>1
<1>5. Sorted(list) => Sorted(r)
  <2> SUFFICES ASSUME Sorted(list), NEW i \in 1 .. Len(r), NEW j \in 1 .. Len(r), i < j
               PROVE  r[i].due <= r[j].due
    BY DEF Sorted
  <2>1. i + 1 < j + 1 /\ i + 1 \in 1 .. Len(list) /\ j + 1 \in 1 .. Len(list)
    BY <1>1
  <2> QED
    BY <1>2, <2>1 DEF Sorted
<1>6. AtMostOne(list, type) => AtMostOne(r, type)
  <2> SUFFICES ASSUME AtMostOne(list, type), NEW i \in 1 .. Len(r), NEW j \in 1 .. Len(r),
                      r[i].type = type, r[j].type = type
               PROVE  i = j
    BY DEF AtMostOne
  <2>1. i + 1 = j + 1
    BY <1>2, Zenon DEF AtMostOne
  <2> QED
    BY <2>1
<1>7. Has(r, type) => Has(list, type)
  BY <1>2 DEF Has
<1>8. list[1].type # type /\ Has(list, type) => Has(r, type)
  BY <1>4 DEF Has
<1>9. list[1].type = type /\ AtMostOne(list, type) => ~Has(r, type)
  <2> SUFFICES ASSUME list[1].type = type, AtMostOne(list, type), NEW i \in 1 .. Len(r),
                      r[i].type = type
               PROVE  FALSE
    BY DEF Has
  <2>1. i + 1 = 1
    BY <1>2, <1>3 DEF AtMostOne
  <2> QED
    BY <2>1
<1> QED
  BY <1>1, <1>5, <1>6, <1>7, <1>8, <1>9 DEF r

\* The list when n ticks have passed.
Later(list, n) == [i \in DOMAIN list |-> [list[i] EXCEPT !.due = @ - n]]

\* It has the same interrupts in the same order.
LEMMA LaterTypes ==
    ASSUME NEW list \in Seq(Entries), NEW n \in Int, NEW type
    PROVE  /\ Later(list, n) \in Seq(Entries)
           /\ Sorted(list) => Sorted(Later(list, n))
           /\ AtMostOne(list, type) => AtMostOne(Later(list, n), type)
           /\ Has(Later(list, n), type) <=> Has(list, type)
<1> DEFINE r == Later(list, n)
<1>1. /\ DOMAIN list = 1 .. Len(list) /\ Len(list) \in Nat
      /\ \A i \in 1 .. Len(list) : list[i] \in Entries
  OBVIOUS
<1>2. \A i \in 1 .. Len(list) :
         /\ r[i] \in Entries /\ r[i].type = list[i].type
         /\ list[i].due \in Int /\ r[i].due = list[i].due - n
  BY <1>1 DEF Later, Entries
<1>3. r \in Seq(Entries) /\ Len(r) = Len(list)
  <2>1. r \in [1 .. Len(list) -> Entries]
    BY <1>1, <1>2, Zenon DEF Later
  <2> QED
    BY <1>1, <2>1
<1> HIDE DEF r
<1>4. Sorted(list) => Sorted(r)
  BY <1>2, <1>3 DEF Sorted
<1>5. AtMostOne(list, type) => AtMostOne(r, type)
  BY <1>2, <1>3 DEF AtMostOne
<1>6. Has(r, type) <=> Has(list, type)
  BY <1>2, <1>3 DEF Has
<1> QED
  BY <1>3, <1>4, <1>5, <1>6 DEF r

\* A sorted list whose first entry is not due has none that is.
LEMMA FrontIsEnough ==
    ASSUME NEW list \in Seq(Entries), Sorted(list), ~IsDue(list)
    PROVE  \A i \in 1 .. Len(list) : list[i].due > 0
<1> SUFFICES ASSUME NEW i \in 1 .. Len(list) PROVE list[i].due > 0
  OBVIOUS
<1>1. 1 \in 1 .. Len(list) /\ list # <<>>
  OBVIOUS
<1>2. list[1] \in Entries /\ list[i] \in Entries
  BY <1>1
<1>3. list[1].due \in Int /\ list[i].due \in Int
  BY <1>2, EntryFields
<1>4. list[1].due > 0
  BY <1>1, <1>3 DEF IsDue
<1>5. i = 1 \/ 1 < i
  OBVIOUS
<1> QED
  BY <1>1, <1>3, <1>4, <1>5 DEF Sorted

(***************************************************************************)
(* The list of one machine is as it should be: sorted, its front due in    *)
(* CheckIfDue's loop, nothing due outside of it, and at most one interrupt *)
(* of each of the given types.                                             *)
(***************************************************************************)
ListOK(list, handling, types) ==
    /\ list \in Seq(Entries)
    /\ Sorted(list)
    /\ handling => IsDue(list)
    /\ ~handling => \A i \in 1 .. Len(list) : list[i].due > 0
    /\ \A type \in types : AtMostOne(list, type)

\* A new interrupt.
LEMMA NewEntry ==
    ASSUME NEW type \in Types, NEW due \in Nat \ {0}
    PROVE  /\ PendingInterrupt(type, due) \in Entries
           /\ PendingInterrupt(type, due).type = type
           /\ PendingInterrupt(type, due).due > 0
  BY DEF PendingInterrupt, Entries

\* The list with one interrupt.
LEMMA FirstOK ==
    ASSUME NEW e \in Entries, e.due > 0, NEW types
    PROVE  /\ ListOK(<<e>>, FALSE, types)
           /\ \A type : Has(<<e>>, type) <=> e.type = type
<1>1. <<e>> \in Seq(Entries) /\ Len(<<e>>) = 1 /\ <<e>>[1] = e
  OBVIOUS
<1> QED
  BY <1>1 DEF ListOK, Sorted, AtMostOne, Has

\* Outside of a handler, an interrupt is scheduled.
LEMMA ScheduleOK ==
    ASSUME NEW list, NEW types, ListOK(list, FALSE, types), NEW e \in Entries, e.due > 0,
           e.type \in types => ~Has(list, e.type)
    PROVE  /\ ListOK(Insert(list, e), FALSE, types)
           /\ \A type : Has(Insert(list, e), type) <=> Has(list, type) \/ e.type = type
<1>1. list \in Seq(Entries) /\ Sorted(list) /\ \A i \in 1 .. Len(list) : list[i].due > 0
  BY DEF ListOK
<1>2. Insert(list, e) \in Seq(Entries) /\ Sorted(Insert(list, e))
  BY <1>1, InsertSorted
<1>3. \A i \in 1 .. Len(Insert(list, e)) : Insert(list, e)[i].due > 0
  BY <1>1, InsertFuture
<1>4. \A type : Has(Insert(list, e), type) <=> Has(list, type) \/ e.type = type
  BY <1>1, InsertTypes
<1>5. ASSUME NEW type \in types PROVE AtMostOne(Insert(list, e), type)
  BY <1>1, InsertTypes DEF ListOK
<1> QED
  BY <1>2, <1>3, <1>4, <1>5 DEF ListOK

\* CheckIfDue takes the first interrupt off and calls its handler.
LEMMA RemoveFrontOK ==
    ASSUME NEW list, NEW types, ListOK(list, TRUE, types)
    PROVE  /\ ListOK(Tail(list), IsDue(Tail(list)), types)
           /\ Has(list, list[1].type)
           /\ \A type : type # list[1].type => (Has(Tail(list), type) <=> Has(list, type))
           /\ list[1].type \in types => ~Has(Tail(list), list[1].type)
<1>1. list \in Seq(Entries) /\ Sorted(list) /\ list # <<>> /\ 1 \in 1 .. Len(list)
  BY DEF ListOK, IsDue
<1>2. Tail(list) \in Seq(Entries) /\ Sorted(Tail(list))
  BY <1>1, TailTypes
<1>3. \A type \in types : AtMostOne(Tail(list), type)
  BY <1>1, TailTypes DEF ListOK
<1>4. ~IsDue(Tail(list)) => \A i \in 1 .. Len(Tail(list)) : Tail(list)[i].due > 0
  BY <1>2, FrontIsEnough, Zenon
<1>5. ListOK(Tail(list), IsDue(Tail(list)), types)
  BY <1>2, <1>3, <1>4 DEF ListOK
<1>6. Has(list, list[1].type)
  BY <1>1 DEF Has
<1>7. \A type : type # list[1].type => (Has(Tail(list), type) <=> Has(list, type))
  BY <1>1, TailTypes
<1>8. list[1].type \in types => ~Has(Tail(list), list[1].type)
  BY <1>1, TailTypes DEF ListOK
<1> QED
  BY <1>5, <1>6, <1>7, <1>8

\* The handler schedules an interrupt.
LEMMA HandlerScheduleOK ==
    ASSUME NEW list, NEW types, NEW handling, ListOK(list, handling, types),
           NEW e \in Entries, e.type \in types => ~Has(list, e.type)
    PROVE  /\ ListOK(Insert(list, e), IsDue(Insert(list, e)), types)
           /\ \A type : Has(Insert(list, e), type) <=> Has(list, type) \/ e.type = type
<1>1. list \in Seq(Entries) /\ Sorted(list)
  BY DEF ListOK
<1>2. Insert(list, e) \in Seq(Entries) /\ Sorted(Insert(list, e))
  BY <1>1, InsertSorted
<1>3. ~IsDue(Insert(list, e))
         => \A i \in 1 .. Len(Insert(list, e)) : Insert(list, e)[i].due > 0
  BY <1>2, FrontIsEnough
<1>4. \A type : Has(Insert(list, e), type) <=> Has(list, type) \/ e.type = type
  BY <1>1, InsertTypes
<1>5. ASSUME NEW type \in types PROVE AtMostOne(Insert(list, e), type)
  BY <1>1, InsertTypes DEF ListOK
<1> QED
  BY <1>2, <1>3, <1>4, <1>5 DEF ListOK

\* The clock moves on.
LEMMA LaterOK ==
    ASSUME NEW list, NEW types, NEW handling, ListOK(list, handling, types), NEW n \in Int
    PROVE  /\ ListOK(Later(list, n), IsDue(Later(list, n)), types)
           /\ \A type : Has(Later(list, n), type) <=> Has(list, type)
<1>1. list \in Seq(Entries) /\ Sorted(list)
  BY DEF ListOK
<1>2. Later(list, n) \in Seq(Entries) /\ Sorted(Later(list, n))
  BY <1>1, LaterTypes
<1>3. ~IsDue(Later(list, n))
         => \A i \in 1 .. Len(Later(list, n)) : Later(list, n)[i].due > 0
  BY <1>2, FrontIsEnough
<1>4. \A type : Has(Later(list, n), type) <=> Has(list, type)
  BY <1>1, LaterTypes
<1>5. ASSUME NEW type \in types PROVE AtMostOne(Later(list, n), type)
  BY <1>1, LaterTypes DEF ListOK
<1> QED
  BY <1>2, <1>3, <1>4, <1>5 DEF ListOK

\* Idle moves it to the first interrupt.
LEMMA FirstDue ==
    ASSUME NEW list \in Seq(Entries), list # <<>>
    PROVE  list[1].due \in Int
<1>1. list[1] \in Entries
  OBVIOUS
<1> QED
  BY <1>1, EntryFields

\* What NeverLate says of one machine.
LEMMA ListOnTime ==
    ASSUME NEW list, NEW types, NEW handling, ListOK(list, handling, types)
    PROVE  /\ ~handling => \A i \in DOMAIN list : list[i].due > 0
           /\ \A i, j \in DOMAIN list : i < j => list[i].due <= list[j].due
<1>1. list \in Seq(Entries) /\ DOMAIN list = 1 .. Len(list)
  BY DEF ListOK
<1> QED
  BY <1>1 DEF ListOK, Sorted
-----------------------------------------------------------------------------
(***************************************************************************)
(* The interrupts of several machines: what Schedule, CheckIfDue and       *)
(* Advance keep.                                                           *)
(***************************************************************************)
MachinesOK(hosts, types) ==
    /\ pending \in [hosts -> Seq(Entries)]
    /\ inHandler \in [hosts -> BOOLEAN]
    /\ \A h \in hosts : ListOK(pending[h], inHandler[h], types)

\* The machines as constructed, with one interrupt pending on each.
LEMMA Started ==
    ASSUME NEW hosts, NEW types, NEW e \in Entries, e.due > 0, Interrupt(hosts, <<e>>)
    PROVE  /\ MachinesOK(hosts, types) /\ ~aborted
           /\ \A h \in hosts : \A type : Has(pending[h], type) <=> e.type = type
<1>1. /\ ListOK(<<e>>, FALSE, types)
      /\ \A type : Has(<<e>>, type) <=> e.type = type
  BY FirstOK, Zenon
<1>2. /\ pending = [h \in hosts |-> <<e>>] /\ inHandler = [h \in hosts |-> FALSE]
      /\ <<e>> \in Seq(Entries) /\ ~aborted
  BY DEF Interrupt
<1>3. pending \in [hosts -> Seq(Entries)] /\ inHandler \in [hosts -> BOOLEAN]
  BY <1>2
<1>4. \A h \in hosts : pending[h] = <<e>> /\ inHandler[h] = FALSE
  BY <1>2
<1> QED
  BY <1>1, <1>2, <1>3, <1>4, Zenon DEF MachinesOK

\* The list of one machine changes.
LEMMA OneMachine ==
    ASSUME NEW hosts, NEW types, MachinesOK(hosts, types), NEW h \in hosts,
           NEW list, NEW handling \in BOOLEAN, ListOK(list, handling, types),
           pending' = [pending EXCEPT ![h] = list],
           inHandler' = [inHandler EXCEPT ![h] = handling]
    PROVE  MachinesOK(hosts, types)' /\ pending'[h] = list
<1>1. list \in Seq(Entries)
  BY DEF ListOK
<1>2. pending' \in [hosts -> Seq(Entries)] /\ inHandler' \in [hosts -> BOOLEAN]
  BY <1>1 DEF MachinesOK
<1>3. pending'[h] = list /\ inHandler'[h] = handling
  BY DEF MachinesOK
<1>4. \A g \in hosts : g # h => pending'[g] = pending[g] /\ inHandler'[g] = inHandler[g]
  BY DEF MachinesOK
<1>5. \A g \in hosts : ListOK(pending'[g], inHandler'[g], types)
  BY <1>3, <1>4 DEF MachinesOK
<1> QED
  BY <1>2, <1>3, <1>5 DEF MachinesOK

\* CheckIfDue looks at its front.
LEMMA OneMachineDue ==
    ASSUME NEW hosts, NEW types, MachinesOK(hosts, types), NEW h \in hosts,
           NEW list, ListOK(list, IsDue(list), types),
           pending' = [pending EXCEPT ![h] = list],
           inHandler' = [inHandler EXCEPT ![h] = IsDue(list)]
    PROVE  MachinesOK(hosts, types)' /\ pending'[h] = list
<1>1. list \in Seq(Entries) /\ IsDue(list) \in BOOLEAN
  BY DEF ListOK, IsDue
<1>2. pending' \in [hosts -> Seq(Entries)] /\ inHandler' \in [hosts -> BOOLEAN]
  BY <1>1 DEF MachinesOK
<1>3. pending'[h] = list /\ inHandler'[h] = IsDue(list)
  BY DEF MachinesOK
<1>4. \A g \in hosts : g # h => pending'[g] = pending[g] /\ inHandler'[g] = inHandler[g]
  BY DEF MachinesOK
<1>5. \A g \in hosts : ListOK(pending'[g], inHandler'[g], types)
  BY <1>3, <1>4 DEF MachinesOK
<1> QED
  BY <1>2, <1>3, <1>5 DEF MachinesOK

\* A thread schedules an interrupt.
LEMMA Scheduled ==
    ASSUME NEW hosts, NEW types, MachinesOK(hosts, types), NEW h \in hosts, ~inHandler[h],
           NEW e \in Entries, e.due > 0, e.type \in types => ~Has(pending[h], e.type),
           pending' = [pending EXCEPT ![h] = Insert(pending[h], e)], inHandler' = inHandler
    PROVE  /\ MachinesOK(hosts, types)'
           /\ \A type : Has(pending'[h], type) <=> Has(pending[h], type) \/ e.type = type
<1> DEFINE list == Insert(pending[h], e)
<1>1. ListOK(pending[h], FALSE, types)
  BY DEF MachinesOK, ListOK
<1>2. /\ ListOK(list, FALSE, types)
      /\ \A type : Has(list, type) <=> Has(pending[h], type) \/ e.type = type
  BY <1>1, ScheduleOK, Zenon
<1> HIDE DEF list
<1>3. inHandler' = [inHandler EXCEPT ![h] = FALSE]
  BY DEF MachinesOK
<1>4. MachinesOK(hosts, types)' /\ pending'[h] = list
  BY <1>2, <1>3, OneMachine, Zenon DEF list
<1> QED
  BY <1>2, <1>4

\* A handler has run.
LEMMA Handled ==
    ASSUME NEW hosts, NEW types, MachinesOK(hosts, types), NEW h \in hosts, inHandler[h],
           pending' = [pending EXCEPT ![h] = Tail(pending[h])],
           inHandler' = [inHandler EXCEPT ![h] = IsDue(Tail(pending[h]))]
    PROVE  /\ MachinesOK(hosts, types)'
           /\ Has(pending[h], pending[h][1].type)
           /\ \A type : type # pending[h][1].type
                           => (Has(pending'[h], type) <=> Has(pending[h], type))
           /\ pending[h][1].type \in types => ~Has(pending'[h], pending[h][1].type)
<1> DEFINE list == Tail(pending[h])
<1>1. ListOK(pending[h], TRUE, types)
  BY DEF MachinesOK, ListOK
<1>2. /\ ListOK(list, IsDue(list), types)
      /\ Has(pending[h], pending[h][1].type)
      /\ \A type : type # pending[h][1].type => (Has(list, type) <=> Has(pending[h], type))
      /\ pending[h][1].type \in types => ~Has(list, pending[h][1].type)
  BY <1>1, RemoveFrontOK, Zenon
<1> HIDE DEF list
<1>3. MachinesOK(hosts, types)' /\ pending'[h] = list
  BY <1>2, OneMachineDue, Zenon DEF list
<1> QED
  BY <1>2, <1>3, Zenon

\* A handler has run and has scheduled the next interrupt of its device.
LEMMA HandledAgain ==
    ASSUME NEW hosts, NEW types, MachinesOK(hosts, types), NEW h \in hosts, inHandler[h],
           NEW e \in Entries, e.type = pending[h][1].type,
           NEW list, list = Insert(Tail(pending[h]), e),
           pending' = [pending EXCEPT ![h] = list],
           inHandler' = [inHandler EXCEPT ![h] = IsDue(list)]
    PROVE  /\ MachinesOK(hosts, types)'
           /\ \A type : Has(pending'[h], type) <=> Has(pending[h], type)
<1> DEFINE rest == Tail(pending[h])
<1>1. ListOK(pending[h], TRUE, types)
  BY DEF MachinesOK, ListOK
<1>2. /\ ListOK(rest, IsDue(rest), types)
      /\ Has(pending[h], pending[h][1].type)
      /\ \A type : type # pending[h][1].type => (Has(rest, type) <=> Has(pending[h], type))
      /\ pending[h][1].type \in types => ~Has(rest, pending[h][1].type)
  BY <1>1, RemoveFrontOK, Zenon
<1> HIDE DEF rest
<1>4. /\ ListOK(list, IsDue(list), types)
      /\ \A type : Has(list, type) <=> Has(rest, type) \/ e.type = type
  BY <1>2, HandlerScheduleOK DEF rest
<1>5. MachinesOK(hosts, types)' /\ pending'[h] = list
  BY <1>4, OneMachineDue, Zenon
<1> QED
  BY <1>2, <1>4, <1>5

\* Time passes on one machine.
LEMMA Advanced ==
    ASSUME NEW hosts, NEW types, MachinesOK(hosts, types), NEW h \in hosts, NEW n \in Int,
           Advance(h, n)
    PROVE  /\ MachinesOK(hosts, types)'
           /\ \A type : Has(pending'[h], type) <=> Has(pending[h], type)
<1> DEFINE list == Later(pending[h], n)
<1>1. ListOK(pending[h], inHandler[h], types)
  BY DEF MachinesOK
<1>2. /\ ListOK(list, IsDue(list), types)
      /\ \A type : Has(list, type) <=> Has(pending[h], type)
  BY <1>1, LaterOK
<1>3. /\ pending' = [pending EXCEPT ![h] = list]
      /\ inHandler' = [inHandler EXCEPT ![h] = IsDue(list)]
  BY DEF Advance, Later
<1> HIDE DEF list
<1>4. MachinesOK(hosts, types)' /\ pending'[h] = list
  BY <1>2, <1>3, OneMachineDue, Zenon
<1> QED
  BY <1>2, <1>4

\* OneTick or Idle.
LEMMA IdleAmount ==
    ASSUME NEW hosts, NEW types, MachinesOK(hosts, types), NEW h \in hosts, pending[h] # <<>>
    PROVE  pending[h][1].due \in Int
  BY FirstDue DEF MachinesOK

\* No interrupt is late.
LEMMA OnTime ==
    ASSUME NEW hosts, NEW types, MachinesOK(hosts, types)
    PROVE  NeverLate
<1>1. DOMAIN pending = hosts
  BY DEF MachinesOK
<1>2. ASSUME NEW h \in hosts
      PROVE  /\ ~inHandler[h] => \A i \in DOMAIN pending[h] : pending[h][i].due > 0
             /\ \A i, j \in DOMAIN pending[h] :
                    i < j => pending[h][i].due <= pending[h][j].due
  BY ListOnTime DEF MachinesOK
<1> QED
  BY <1>1, <1>2 DEF NeverLate
-----------------------------------------------------------------------------
(***************************************************************************)
(* The disk and its clients.                                               *)
(***************************************************************************)
Positive == Nat \ {0}

\* Remainders lie below the divisor.
LEMMA Remainder == ASSUME NEW a \in Int, NEW b \in Positive
                   PROVE  a % b \in 0 .. b - 1 /\ a % b \in Int /\ a \div b \in Int
  BY DEF Positive

\* A product of natural numbers is one.
LEMMA Product == ASSUME NEW a \in Nat, NEW b \in Nat PROVE a * b \in Nat
  OBVIOUS

\* The disk turns.
LEMMA CyclePositive == Cycle \in Positive
<1>1. \A a, b \in Positive : a * b \in Positive
  BY DEF Positive
<1> QED
  BY <1>1, DeviceConstants DEF Cycle, Positive

\* A request takes time.
LEMMA LatencyPositive ==
    ASSUME clock \in Int, lastSector \in Int, bufferInit \in Int,
           NEW s \in Int, NEW w \in BOOLEAN
    PROVE  ComputeLatency(s, w) \in Positive /\ Seek(s) \in Nat /\ Rotation(s) \in Nat
<1>0. /\ SectorsPerTrack \in Positive /\ RotationTime \in Positive /\ SeekTime \in Nat
  BY DeviceConstants DEF Positive
<1> USE <1>0
<1>1. Seek(s) \in Nat
  <2>1. s \div SectorsPerTrack \in Int /\ lastSector \div SectorsPerTrack \in Int
    BY Remainder
  <2>2. Abs(s \div SectorsPerTrack - lastSector \div SectorsPerTrack) \in Nat
    BY <2>1 DEF Abs
  <2> QED
    BY <2>2, Product DEF Seek
<1>2. Rotation(s) \in Nat
  <2>1. (clock + Seek(s)) % RotationTime \in 0 .. RotationTime - 1
    BY <1>1, Remainder
  <2> QED
    BY <2>1 DEF Rotation, Positive
<1>3. \A a, b \in Int : ModuloDiff(a, b) \in Nat
  <2> SUFFICES ASSUME NEW a \in Int, NEW b \in Int PROVE ModuloDiff(a, b) \in Nat
    OBVIOUS
  <2>1. a % SectorsPerTrack \in Int /\ b % SectorsPerTrack \in Int
    BY Remainder
  <2>2. ((a % SectorsPerTrack) - (b % SectorsPerTrack)) % SectorsPerTrack
            \in 0 .. SectorsPerTrack - 1
    BY <2>1, Remainder
  <2> QED
    BY <2>2 DEF ModuloDiff, Positive
<1> DEFINE timeAfter == Seek(s) + Rotation(s)
           wait == ModuloDiff(s, (clock + timeAfter) \div RotationTime)
<1>4. timeAfter \in Nat /\ wait \in Nat
  <2>1. timeAfter \in Nat
    BY <1>1, <1>2
  <2> HIDE DEF timeAfter
  <2>2. (clock + timeAfter) \div RotationTime \in Int
    BY <2>1, Remainder
  <2> QED
    BY <1>3, <2>1, <2>2, Zenon
<1>5. wait * RotationTime \in Nat
  BY <1>4, Product DEF Positive
<1>6. timeAfter + wait * RotationTime + RotationTime \in Positive
  <2> HIDE DEF timeAfter, wait
  <2> DEFINE turn == wait * RotationTime
  <2>1. turn \in Nat
    BY <1>5
  <2> HIDE DEF turn
  <2>2. timeAfter + turn + RotationTime \in Positive
    BY <1>4, <2>1 DEF Positive
  <2> QED
    BY <2>2 DEF turn
<1> QED
  BY <1>1, <1>2, <1>6 DEF ComputeLatency
-----------------------------------------------------------------------------
(***************************************************************************)
(* The inductive invariant of the disk.                                    *)
(***************************************************************************)
Places == {"idle", "request", "P", "release"}

DiskTypes ==
    /\ at \in [Clients -> Places]
    /\ lock \in SUBSET Clients
    /\ semaphore \in Nat
    /\ lastSector \in Int /\ bufferInit \in Int /\ clock \in Int

\* The thread in ReadSector or WriteSector has the lock, and it is one.
Locked ==
    /\ \A t, u \in lock : t = u
    /\ \A t \in Clients : at[t] # "idle" <=> t \in lock

\* A thread that waits has a request in progress or a completion to take.
Handshake ==
    /\ ~aborted
    /\ active => semaphore = 0
    /\ semaphore <= 1
    /\ active \/ semaphore = 1 <=> Waiting # {}

DiskInv ==
    /\ DiskTypes
    /\ MachinesOK({Host}, {"DiskInt"})
    /\ Locked
    /\ Handshake
    /\ active <=> Has(pending[Host], "DiskInt")

\* The state before the first request.
LEMMA DiskStarts == DiskInit => DiskInv
<1> SUFFICES ASSUME DiskInit PROVE DiskInv
  OBVIOUS
<1> DEFINE e == PendingInterrupt("TimerInt", TimerTicks)
<1>1. e \in Entries /\ e.due > 0 /\ e.type = "TimerInt"
  BY DeviceConstants, NewEntry DEF Types
<1>2. Interrupt({Host}, <<e>>)
  BY DEF DiskInit
<1> HIDE DEF e
<1>3. /\ MachinesOK({Host}, {"DiskInt"}) /\ ~aborted
      /\ \A h \in {Host} : \A type : Has(pending[h], type) <=> e.type = type
  BY <1>1, <1>2, Started, Zenon
<1>4. DiskTypes
  BY DEF DiskInit, NewDisk, DiskTypes, Places
<1>5. Locked /\ Handshake
  BY <1>3 DEF Locked, Handshake, Waiting, DiskInit, NewDisk
<1> QED
  BY <1>1, <1>3, <1>4, <1>5 DEF DiskInv, DiskInit, NewDisk
-----------------------------------------------------------------------------
(***************************************************************************)
(* The steps of a thread.                                                  *)
(***************************************************************************)
\* lock->Acquire(): the first thread in ReadSector or WriteSector.
LEMMA AcquireInv ==
    ASSUME DiskInv, NEW t \in Clients, Acquire(t)
    PROVE  DiskInv'
<1> USE DEF DiskInv
<1>1. /\ lock = {} /\ lock' = {t} /\ at[t] = "idle" /\ at' = [at EXCEPT ![t] = "request"]
      /\ UNCHANGED <<pending, inHandler, semaphore, active, lastSector, bufferInit,
                     clock, aborted>>
  BY DEF Acquire, interruptVars
<1>2. DiskTypes'
  BY <1>1 DEF DiskTypes, Places
<1>3. Locked'
  BY <1>1 DEF Locked, DiskTypes
<1>4. Waiting' = Waiting
  BY <1>1 DEF Waiting, DiskTypes
<1>5. Handshake' /\ MachinesOK({Host}, {"DiskInt"})'
  BY <1>1, <1>4 DEF Handshake, MachinesOK
<1> QED
  BY <1>1, <1>2, <1>3, <1>5

\* ReadRequest or WriteRequest: the disk is idle, and one DiskInt is scheduled.
LEMMA RequestInv ==
    ASSUME DiskInv, ~inHandler[Host], NEW t \in Clients,
           NEW s \in Sectors, NEW w \in BOOLEAN, Request(t, s, w)
    PROVE  DiskInv'
<1> USE DEF DiskInv
<1> DEFINE e == PendingInterrupt("DiskInt", ComputeLatency(s, w))
<1>0. clock \in Int /\ lastSector \in Int /\ bufferInit \in Int /\ s \in Int
  BY DEF DiskTypes, Sectors
<1>1. /\ at[t] = "request" /\ at' = [at EXCEPT ![t] = "P"]
      /\ aborted' = (aborted \/ active) /\ active' = TRUE
      /\ pending' = [pending EXCEPT ![Host] = Insert(pending[Host], e)]
      /\ UNCHANGED <<inHandler, clock, lock, semaphore>>
  BY DEF Request, Schedule
<1>2. /\ ComputeLatency(s, w) \in Positive /\ Seek(s) \in Nat /\ Rotation(s) \in Nat
  BY <1>0, LatencyPositive
<1>3. e \in Entries /\ e.type = "DiskInt" /\ e.due > 0
  BY <1>2, NewEntry DEF Types, Positive
<1> HIDE DEF e
<1>4. Waiting = {} /\ Waiting' = {t}
  <2>1. t \in lock /\ \A u \in Clients : at[u] # "idle" => u = t
    BY <1>1 DEF Locked
  <2> QED
    BY <1>1, <2>1 DEF Waiting, DiskTypes
<1>5. ~active /\ ~aborted /\ semaphore = 0 /\ ~Has(pending[Host], "DiskInt")
  BY <1>4 DEF Handshake, DiskTypes
<1>6. /\ MachinesOK({Host}, {"DiskInt"})'
      /\ \A type : Has(pending'[Host], type) <=> Has(pending[Host], type) \/ e.type = type
  BY <1>1, <1>3, <1>5, Scheduled, ZenonT(60)
<1>7. lastSector' \in Int /\ bufferInit' \in Int
  BY <1>0, <1>2 DEF Request, UpdateLast
<1>8. DiskTypes'
  BY <1>1, <1>7 DEF DiskTypes, Places
<1>9. Locked'
  BY <1>1 DEF Locked, DiskTypes
<1>10. Handshake'
  BY <1>1, <1>4, <1>5, Zenon DEF Handshake
<1> QED
  BY <1>1, <1>3, <1>6, <1>8, <1>9, <1>10

\* semaphore->P(): the thread takes the one completion.
LEMMA PInv ==
    ASSUME DiskInv, NEW t \in Clients, P(t)
    PROVE  DiskInv'
<1> USE DEF DiskInv
<1>1. /\ at[t] = "P" /\ at' = [at EXCEPT ![t] = "release"]
      /\ semaphore > 0 /\ semaphore' = semaphore - 1
      /\ UNCHANGED <<pending, inHandler, clock, lock, active, lastSector, bufferInit, aborted>>
  BY DEF P, interruptVars
<1>2. semaphore = 1 /\ semaphore' = 0 /\ ~active
  BY <1>1 DEF Handshake, DiskTypes
<1>3. DiskTypes'
  BY <1>1, <1>2 DEF DiskTypes, Places
<1>4. Locked'
  BY <1>1 DEF Locked, DiskTypes
<1>5. Waiting' = {}
  <2>1. \A u \in Clients : at[u] # "idle" => u = t
    BY <1>1 DEF Locked
  <2> QED
    BY <1>1, <2>1 DEF Waiting, DiskTypes
<1>6. Handshake' /\ MachinesOK({Host}, {"DiskInt"})'
  BY <1>1, <1>2, <1>5 DEF Handshake, MachinesOK
<1> QED
  BY <1>1, <1>3, <1>4, <1>6

\* lock->Release(), with no request left behind.
LEMMA ReleaseInv ==
    ASSUME DiskInv, NEW t \in Clients, Release(t)
    PROVE  DiskInv'
<1> USE DEF DiskInv
<1>1. /\ at[t] = "release" /\ at' = [at EXCEPT ![t] = "idle"] /\ lock' = {}
      /\ UNCHANGED <<pending, inHandler, clock, semaphore, active, lastSector,
                     bufferInit, aborted>>
  BY DEF Release, interruptVars
<1>2. DiskTypes'
  BY <1>1 DEF DiskTypes, Places
<1>3. Locked'
  <2>1. \A u \in Clients : at[u] # "idle" => u = t
    BY <1>1 DEF Locked
  <2> QED
    BY <1>1, <2>1 DEF Locked, DiskTypes
<1>4. Waiting' = Waiting
  BY <1>1 DEF Waiting, DiskTypes
<1>5. Handshake' /\ MachinesOK({Host}, {"DiskInt"})'
  BY <1>1, <1>4 DEF Handshake, MachinesOK
<1> QED
  BY <1>1, <1>2, <1>3, <1>5
-----------------------------------------------------------------------------
(***************************************************************************)
(* The handlers and the clock.                                             *)
(***************************************************************************)
\* Disk::CallBack: the one DiskInt becomes the one completion.
LEMMA DiskCallBackInv ==
    ASSUME DiskInv, DiskCallBack
    PROVE  DiskInv'
<1> USE DEF DiskInv
<1>1. /\ inHandler[Host] /\ pending[Host][1].type = "DiskInt"
      /\ active' = FALSE /\ semaphore' = semaphore + 1
      /\ pending' = [pending EXCEPT ![Host] = Tail(pending[Host])]
      /\ inHandler' = [inHandler EXCEPT ![Host] = IsDue(Tail(pending[Host]))]
      /\ UNCHANGED <<clock, at, lock, lastSector, bufferInit, aborted>>
  BY DEF DiskCallBack, Calls, CallBack, CheckIfDue, Rest
<1>2. /\ MachinesOK({Host}, {"DiskInt"})'
      /\ Has(pending[Host], pending[Host][1].type)
      /\ pending[Host][1].type \in {"DiskInt"} => ~Has(pending'[Host], pending[Host][1].type)
  BY <1>1, Handled, Zenon
<1>3. Has(pending[Host], "DiskInt") /\ ~Has(pending'[Host], "DiskInt")
  BY <1>1, <1>2
<1>4. active /\ semaphore = 0 /\ Waiting # {}
  BY <1>3 DEF Handshake
<1>5. DiskTypes'
  BY <1>1, <1>4 DEF DiskTypes
<1>6. Locked' /\ Waiting' = Waiting
  BY <1>1 DEF Locked, Waiting
<1>7. Handshake'
  BY <1>1, <1>4, <1>6 DEF Handshake
<1> QED
  BY <1>1, <1>2, <1>3, <1>5, <1>6, <1>7

\* Timer::CallBack: a TimerInt takes the place of another.
LEMMA TimerInv ==
    ASSUME DiskInv, DiskTimer
    PROVE  DiskInv'
<1> USE DEF DiskInv
<1>1. PICK delay \in 1 .. 2 * TimerTicks :
         /\ inHandler[Host] /\ pending[Host][1].type = "TimerInt"
         /\ CheckIfDue(Host, Insert(Tail(pending[Host]), PendingInterrupt("TimerInt", delay)))
         /\ UNCHANGED <<diskVars, aborted>>
  BY DEF DiskTimer, TimerCallBack, Calls, SetInterrupt, Rest, Schedule
<1> DEFINE e == PendingInterrupt("TimerInt", delay)
           new == Insert(Tail(pending[Host]), e)
<1>2. e \in Entries /\ e.type = "TimerInt"
  BY NewEntry, DeviceConstants DEF Types
<1>3. /\ pending' = [pending EXCEPT ![Host] = new]
      /\ inHandler' = [inHandler EXCEPT ![Host] = IsDue(new)]
      /\ UNCHANGED <<clock, at, lock, semaphore, active, lastSector, bufferInit, aborted>>
  BY <1>1 DEF CheckIfDue, diskVars
<1> HIDE DEF e
<1>4. /\ MachinesOK({Host}, {"DiskInt"})'
      /\ \A type : Has(pending'[Host], type) <=> Has(pending[Host], type)
  <2>1. new = Insert(Tail(pending[Host]), e)
    OBVIOUS
  <2> HIDE DEF new
  <2> QED
    BY <1>1, <1>2, <1>3, <2>1, HandledAgain, Zenon
<1>5. DiskTypes' /\ Locked' /\ Handshake'
  BY <1>3 DEF DiskTypes, Locked, Handshake, Waiting
<1> QED
  BY <1>3, <1>4, <1>5

\* The clock moves on by n ticks.
LEMMA AdvanceInv ==
    ASSUME DiskInv, NEW n \in Int, Advance(Host, n), Elapsed(n),
           UNCHANGED <<at, left, lock, semaphore, active, lastSector, aborted>>
    PROVE  DiskInv'
<1> USE DEF DiskInv
<1>0. clock \in Int /\ bufferInit \in Int /\ Cycle \in Positive
  BY CyclePositive DEF DiskTypes
<1>1. /\ MachinesOK({Host}, {"DiskInt"})'
      /\ \A type : Has(pending'[Host], type) <=> Has(pending[Host], type)
  BY Advanced
<1>2. clock' \in Int
  <2>1. clock + n \in Int
    BY <1>0
  <2>2. (clock + n) % Cycle \in Int
    BY <1>0, <2>1, Remainder
  <2> QED
    BY <2>2 DEF Elapsed
<1>3. bufferInit' \in Int
  <2> DEFINE start == bufferInit - n
  <2>0. start \in Int /\ -start \in Int
    BY <1>0
  <2>1. start \in Int /\ (-start) % Cycle \in Int
    BY <1>0, <2>0, Remainder
  <2> QED
    BY <1>0, <2>1 DEF Elapsed, Positive
<1>4. DiskTypes'
  BY <1>2, <1>3 DEF DiskTypes
<1>5. Locked' /\ Handshake'
  BY DEF Locked, Handshake, Waiting
<1> QED
  BY <1>1, <1>4, <1>5

\* OneTick and Idle.
LEMMA DiskTickInv ==
    ASSUME DiskInv, DiskTick
    PROVE  DiskInv'
<1>1. CASE OneTick(Host) /\ Elapsed(SystemTick)
  <2>1. SystemTick \in Int
    BY DeviceConstants
  <2> QED
    BY <1>1, <2>1, AdvanceInv DEF OneTick, DiskTick
<1>2. CASE Idle(Host) /\ Elapsed(IdleTicks(Host))
  <2>1. IdleTicks(Host) \in Int
    BY <1>2, IdleAmount DEF DiskInv, IdleTicks, Idle
  <2> QED
    BY <1>2, <2>1, AdvanceInv DEF Idle, DiskTick
<1> QED
  BY <1>1, <1>2 DEF DiskTick

\* What OneCompletionEach says follows.
LEMMA DiskAnswers == DiskInv => OneCompletionEach
<1> SUFFICES ASSUME DiskInv PROVE OneCompletionEach
  OBVIOUS
<1>1. DOMAIN pending[Host] = 1 .. Len(pending[Host])
  <2>1. pending[Host] \in Seq(Entries)
    BY DEF DiskInv, MachinesOK
  <2> QED
    BY <2>1
<1>2. \A t, u \in Waiting : t = u
  BY DEF DiskInv, Waiting, Locked
<1>3. semaphore + (IF active THEN 1 ELSE 0) = (IF Waiting = {} THEN 0 ELSE 1)
  BY DEF DiskInv, Handshake, DiskTypes
<1>4. active <=> \E i \in DOMAIN pending[Host] : pending[Host][i].type = "DiskInt"
  BY <1>1 DEF DiskInv, Has
<1> QED
  BY <1>2, <1>3, <1>4 DEF OneCompletionEach, DiskInv, Handshake
-----------------------------------------------------------------------------
(***************************************************************************)
(* The console test.  The inductive invariant follows the one turn of each *)
(* device: a read is pending, or its character waits, or GetChar takes it; *)
(* a write is pending exactly while the display is busy.                   *)
(***************************************************************************)
Reads == "ConsoleReadInt"
Writes == "ConsoleWriteInt"
Shown == Chars \cup {EOF}

ConsoleRecords ==
    [script : Seq(Chars), typed : Seq(Chars), incoming : Shown, inWait : Nat,
     putBusy : BOOLEAN, outWait : Nat, pc : {"GetChar", "take", "PutChar", "P", "done"},
     ch : Shown, shown : Seq(Shown)]

InTurn ==
    /\ Has(pending[Host], Reads) =>
          console.incoming = EOF /\ console.inWait = 0 /\ console.pc \notin {"take", "done"}
    /\ console.inWait <= 1 /\ (console.pc = "take" => console.inWait = 0)
    /\ Has(pending[Host], Writes) <=> console.putBusy
    /\ console.putBusy => console.outWait = 0 /\ console.pc = "P"
    /\ console.outWait <= 1 /\ (console.outWait = 1 => console.pc = "P")

ConsoleInv ==
    /\ console \in ConsoleRecords
    /\ MachinesOK({Host}, {Reads, Writes})
    /\ ~aborted
    /\ InTurn
    /\ EchoedInOrder

\* The state before the first character.
LEMMA ConsoleStarts == ConsoleInit => ConsoleInv
<1> SUFFICES ASSUME ConsoleInit PROVE ConsoleInv
  OBVIOUS
<1> DEFINE e == PendingInterrupt(Reads, ConsoleTime)
<1>1. e \in Entries /\ e.due > 0 /\ e.type = Reads
  BY DeviceConstants, NewEntry DEF Types, Reads
<1>2. Interrupt({Host}, <<e>>)
  BY DEF ConsoleInit, ConsoleInput, Reads
<1> HIDE DEF e
<1>4. /\ MachinesOK({Host}, {Reads, Writes}) /\ ~aborted
      /\ \A h \in {Host} : \A type : Has(pending[h], type) <=> e.type = type
  BY <1>1, <1>2, Started, Zenon
<1>5. console = [script |-> Input, typed |-> <<>>, incoming |-> EOF, inWait |-> 0,
                 putBusy |-> FALSE, outWait |-> 0, pc |-> "GetChar", ch |-> EOF,
                 shown |-> <<>>]
  BY DEF ConsoleInit
<1>6. console \in ConsoleRecords
  BY <1>5, DeviceConstants DEF ConsoleRecords, Shown
<1>7. InTurn
  BY <1>1, <1>4, <1>5 DEF InTurn, Reads, Writes
<1>8. EchoedInOrder
  <2>1. Input \in Seq(Chars) /\ <<>> \in Seq(Chars)
    BY DeviceConstants
  <2>2. <<>> \o <<>> = <<>> /\ <<>> \o Input = Input
    BY <2>1, ConcatEmpty
  <2> QED
    BY <1>5, <2>2, Zenon DEF EchoedInOrder, Held
<1> QED
  BY <1>4, <1>5, <1>6, <1>7, <1>8 DEF ConsoleInv

\* A sequence of characters is one of what may be shown.
LEMMA CharsAreShown == ASSUME NEW s \in Seq(Chars) PROVE s \in Seq(Shown)
  BY DEF Shown

\* The parts that the characters go through, from the last to the first.
Echoing(c) == IF c.pc = "PutChar" THEN <<c.ch>> ELSE <<>>
Before(c) == c.shown \o Echoing(c)
Arrived(c) == Before(c) \o Held(c.incoming)

LEMMA PartsAreShown ==
    ASSUME ConsoleInv
    PROVE  /\ console.shown \in Seq(Shown) /\ Echoing(console) \in Seq(Shown)
           /\ Before(console) \in Seq(Shown) /\ Held(console.incoming) \in Seq(Shown)
           /\ Arrived(console) \in Seq(Shown)
           /\ console.typed \in Seq(Shown) /\ console.script \in Seq(Shown)
           /\ Arrived(console) \o console.typed \in Seq(Shown)
<1>1. /\ console.shown \in Seq(Shown) /\ console.ch \in Shown /\ console.incoming \in Shown
      /\ console.typed \in Seq(Chars) /\ console.script \in Seq(Chars)
  BY DEF ConsoleInv, ConsoleRecords
<1>2. Echoing(console) \in Seq(Shown) /\ Held(console.incoming) \in Seq(Shown)
  BY <1>1 DEF Echoing, Held
<1>3. console.typed \in Seq(Shown) /\ console.script \in Seq(Shown)
  BY <1>1, CharsAreShown
<1>4. Before(console) \in Seq(Shown)
  BY <1>1, <1>2, ConcatIs DEF Before
<1>5. Arrived(console) \in Seq(Shown)
  BY <1>2, <1>4, ConcatIs DEF Arrived
<1>6. Arrived(console) \o console.typed \in Seq(Shown)
  BY <1>3, <1>5, ConcatIs
<1> QED
  BY <1>1, <1>2, <1>3, <1>4, <1>5, <1>6

LEMMA EchoIs ==
    EchoedInOrder <=> Input = Arrived(console) \o console.typed \o console.script
  BY DEF EchoedInOrder, Arrived, Before, Echoing

\* The user types a character.
LEMMA TypeInv ==
    ASSUME ConsoleInv, Type
    PROVE  ConsoleInv'
<1> DEFINE c == console
           new == [c EXCEPT !.script = Tail(@), !.typed = Append(@, Head(c.script))]
<1>1. /\ c.script # <<>> /\ console' = new
      /\ UNCHANGED <<pending, inHandler, aborted>>
  BY DEF Type, interruptVars
<1>2. c \in ConsoleRecords /\ c.script \in Seq(Chars) /\ c.typed \in Seq(Chars)
  BY DEF ConsoleInv, ConsoleRecords
<1>3. /\ Head(c.script) \in Chars /\ Tail(c.script) \in Seq(Chars)
      /\ Append(c.typed, Head(c.script)) \in Seq(Chars)
  BY <1>1, <1>2, FirstAndRest
<1>4. console' \in ConsoleRecords
  BY <1>1, <1>2, <1>3, Zenon DEF ConsoleRecords
<1> DEFINE d == console'
<1>5. /\ d.script = Tail(c.script) /\ d.typed = Append(c.typed, Head(c.script))
      /\ d.incoming = c.incoming /\ d.inWait = c.inWait /\ d.putBusy = c.putBusy
      /\ d.outWait = c.outWait /\ d.pc = c.pc /\ d.ch = c.ch /\ d.shown = c.shown
  BY <1>1, <1>2 DEF ConsoleRecords
<1>6. InTurn'
  <2>1. UNCHANGED pending
    BY <1>1
  <2> QED
    BY <1>5, <2>1 DEF ConsoleInv, InTurn
<1>7. MachinesOK({Host}, {Reads, Writes})' /\ ~aborted'
  BY <1>1 DEF ConsoleInv, MachinesOK
<1>8. EchoedInOrder'
  <2> DEFINE b == Arrived(c)
  <2>1. Arrived(d) = b
    BY <1>5 DEF Arrived, Before, Echoing
  <2>2. /\ b \in Seq(Shown) /\ c.typed \in Seq(Shown) /\ c.script \in Seq(Shown)
        /\ b \o c.typed \in Seq(Shown) /\ Head(c.script) \in Shown
    BY <1>3, PartsAreShown DEF Shown
  <2>3. Input = b \o c.typed \o c.script
    BY EchoIs, Zenon DEF ConsoleInv
  <2>4. d.typed = Append(c.typed, Head(c.script)) /\ d.script = Tail(c.script)
    BY <1>5
  <2> HIDE DEF b, c
  <2>5. b \o Append(c.typed, Head(c.script)) = (b \o c.typed) \o <<Head(c.script)>>
    <3>1. b \o Append(c.typed, Head(c.script)) = Append(b \o c.typed, Head(c.script))
      BY <2>2, AppendLast
    <3>2. Append(b \o c.typed, Head(c.script)) = (b \o c.typed) \o <<Head(c.script)>>
      BY <2>2, AppendIs
    <3> QED
      BY <3>1, <3>2
  <2>6. (b \o c.typed) \o <<Head(c.script)>> \o Tail(c.script) = (b \o c.typed) \o c.script
    BY <1>1, <2>2, MoveFirst, Zenon
  <2>7. Input = Arrived(d) \o d.typed \o d.script
    BY <2>1, <2>3, <2>4, <2>5, <2>6, Zenon
  <2> QED
    BY <2>7 DEF EchoedInOrder, Arrived, Before, Echoing
<1> QED
  BY <1>4, <1>6, <1>7, <1>8 DEF ConsoleInv

\* What happens on the devices, in terms of the lists.
LEMMA ConsoleCheckIfDue ==
    ASSUME NEW list, CheckIfDue(Host, list)
    PROVE  /\ pending' = [pending EXCEPT ![Host] = list]
           /\ inHandler' = [inHandler EXCEPT ![Host] = IsDue(list)]
  BY DEF CheckIfDue

LEMMA ConsoleSchedule ==
    ASSUME NEW list, NEW type \in {Reads, Writes}, NEW new,
           new = Schedule(list, type, ConsoleTime)
    PROVE  \E e \in Entries : e.type = type /\ e.due > 0 /\ new = Insert(list, e)
<1>1. new = Insert(list, PendingInterrupt(type, ConsoleTime))
  BY DEF Schedule
<1> QED
  BY <1>1, NewEntry, DeviceConstants DEF Types, Reads, Writes

\* The characters stay where they are.
LEMMA EchoKept ==
    ASSUME ConsoleInv, Arrived(console') = Arrived(console),
           (console').typed = console.typed, (console').script = console.script
    PROVE  EchoedInOrder'
<1>1. Input = Arrived(console) \o console.typed \o console.script
  BY EchoIs, Zenon DEF ConsoleInv
<1>2. Input = Arrived(console') \o (console').typed \o (console').script
  BY <1>1
<1> QED
  BY <1>2 DEF EchoedInOrder, Arrived, Before, Echoing

\* ConsoleInput::CallBack polls again, or takes a character or the end of the file.
LEMMA InputCallBackInv ==
    ASSUME ConsoleInv, InputCallBack
    PROVE  ConsoleInv'
<1> DEFINE c == console
           d == console'
           list == pending[Host]
<1>1. inHandler[Host] /\ list[1].type = Reads /\ MachinesOK({Host}, {Reads, Writes})
  BY DEF InputCallBack, Calls, Reads, ConsoleInv
<1>2. c \in ConsoleRecords /\ InTurn /\ ~aborted
  BY DEF ConsoleInv
<1>3. Has(list, list[1].type)
  <2>1. ListOK(list, TRUE, {Reads, Writes})
    BY <1>1 DEF MachinesOK, ListOK
  <2> QED
    BY <2>1, RemoveFrontOK, Zenon
<1>4. c.incoming = EOF /\ c.inWait = 0 /\ c.pc \notin {"take", "done"} /\ ~aborted'
  BY <1>1, <1>2, <1>3, Zenon DEF InTurn, InputCallBack
<1>5. CASE ~PollFile
  <2>1. /\ CheckIfDue(Host, Schedule(Rest(Host), Reads, ConsoleTime))
        /\ Rest(Host) = Tail(list) /\ d = c
    BY <1>5 DEF InputCallBack, Rest, Reads
  <2> DEFINE new == Schedule(Tail(list), Reads, ConsoleTime)
  <2>2. PICK e \in Entries : e.type = Reads /\ new = Insert(Tail(list), e)
    BY ConsoleSchedule
  <2>3. /\ pending' = [pending EXCEPT ![Host] = new]
        /\ inHandler' = [inHandler EXCEPT ![Host] = IsDue(new)]
    BY <2>1, ConsoleCheckIfDue
  <2> HIDE DEF new
  <2>4. /\ MachinesOK({Host}, {Reads, Writes})'
        /\ \A type : Has(pending'[Host], type) <=> Has(pending[Host], type)
    BY <1>1, <2>2, <2>3, HandledAgain, Zenon
  <2>5. InTurn'
    BY <1>2, <2>1, <2>4 DEF InTurn
  <2>6. EchoedInOrder' /\ d \in ConsoleRecords
    BY <1>2, <2>1, EchoKept
  <2> QED
    BY <1>4, <2>4, <2>5, <2>6 DEF ConsoleInv
<1>6. CASE PollFile
  <2>1. /\ CheckIfDue(Host, Tail(list))
        /\ d = IF c.typed = <<>> THEN [c EXCEPT !.inWait = @ + 1]
               ELSE [[c EXCEPT !.incoming = Head(c.typed), !.typed = Tail(@)]
                        EXCEPT !.inWait = @ + 1]
    BY <1>6 DEF InputCallBack, Rest, InputAvailable
  <2>2. /\ pending' = [pending EXCEPT ![Host] = Tail(list)]
        /\ inHandler' = [inHandler EXCEPT ![Host] = IsDue(Tail(list))]
    BY <2>1, ConsoleCheckIfDue, Zenon
  <2>3. /\ MachinesOK({Host}, {Reads, Writes})'
        /\ \A type : type # Reads => (Has(pending'[Host], type) <=> Has(list, type))
        /\ ~Has(pending'[Host], Reads)
    <3>1. /\ MachinesOK({Host}, {Reads, Writes})'
          /\ \A type : type # list[1].type => (Has(pending'[Host], type) <=> Has(list, type))
          /\ list[1].type \in {Reads, Writes} => ~Has(pending'[Host], list[1].type)
      BY <1>1, <2>2, Handled, Zenon
    <3> QED
      BY <1>1, <3>1
  <2>4. /\ d.inWait = 1 /\ d.pc = c.pc /\ d.putBusy = c.putBusy /\ d.outWait = c.outWait
        /\ d.shown = c.shown /\ d.ch = c.ch /\ d.script = c.script
    BY <1>2, <1>4, <2>1 DEF ConsoleRecords
  <2>5. InTurn'
    <3>1. Reads # Writes
      BY DEF Reads, Writes
    <3> QED
      BY <1>2, <1>4, <2>3, <2>4, <3>1 DEF InTurn
  <2>6. CASE c.typed = <<>>
    <3>0. d = [c EXCEPT !.inWait = 1]
      BY <1>2, <1>4, <2>1, <2>6
    <3>1. d.typed = c.typed /\ d.incoming = c.incoming /\ d \in ConsoleRecords
      BY <1>2, <3>0, Zenon DEF ConsoleRecords
    <3>2. Arrived(d) = Arrived(c)
      BY <2>4, <3>1 DEF Arrived, Before, Echoing
    <3>3. EchoedInOrder'
      BY <2>4, <3>1, <3>2, EchoKept
    <3> QED
      BY <1>4, <2>3, <2>5, <3>1, <3>3 DEF ConsoleInv
  <2>7. CASE c.typed # <<>>
    <3>1. /\ c.typed \in Seq(Chars) /\ Head(c.typed) \in Chars /\ Tail(c.typed) \in Seq(Chars)
          /\ Head(c.typed) # EOF
      <4>1. c.typed \in Seq(Chars)
        BY <1>2 DEF ConsoleRecords
      <4> QED
        BY <2>7, <4>1, FirstAndRest, DeviceConstants
    <3>2. d.typed = Tail(c.typed) /\ d.incoming = Head(c.typed) /\ d \in ConsoleRecords
      <4> DEFINE x == [c EXCEPT !.incoming = Head(c.typed), !.typed = Tail(@)]
      <4>1. /\ x \in ConsoleRecords /\ x.typed = Tail(c.typed) /\ x.incoming = Head(c.typed)
            /\ x.inWait = 0
        BY <1>2, <1>4, <3>1, Zenon DEF ConsoleRecords, Shown
      <4>2. d = [x EXCEPT !.inWait = @ + 1]
        BY <2>1, <2>7
      <4> HIDE DEF x
      <4>3. d = [x EXCEPT !.inWait = 1]
        BY <4>1, <4>2
      <4> QED
        BY <4>1, <4>3, Zenon DEF ConsoleRecords
    <3> DEFINE b == Before(c)
    <3>3. Before(d) = b
      BY <2>4 DEF Before, Echoing
    <3>4. /\ b \in Seq(Shown) /\ c.typed \in Seq(Shown)
          /\ Input = Arrived(c) \o c.typed \o c.script
      BY PartsAreShown, EchoIs, Zenon DEF ConsoleInv
    <3>5. Arrived(c) = b \o <<>> /\ Arrived(d) = b \o <<Head(c.typed)>>
      BY <1>4, <3>1, <3>2, <3>3 DEF Arrived, Held
    <3> HIDE DEF b
    <3>6. b \o <<>> = b /\ b \o <<Head(c.typed)>> \o Tail(c.typed) = b \o c.typed
      BY <2>7, <3>4, ConcatEmpty, MoveFirst, Zenon
    <3>7. Input = Arrived(d) \o d.typed \o d.script
      BY <2>4, <3>2, <3>4, <3>5, <3>6, Zenon
    <3>8. EchoedInOrder'
      BY <3>7 DEF EchoedInOrder, Arrived, Before, Echoing
    <3> QED
      BY <1>4, <2>3, <2>5, <3>2, <3>8 DEF ConsoleInv
  <2> QED
    BY <2>6, <2>7
<1> QED
  BY <1>5, <1>6

\* ConsoleOutput::CallBack: the display is no longer busy, and PutChar goes on.
LEMMA OutputCallBackInv ==
    ASSUME ConsoleInv, OutputCallBack
    PROVE  ConsoleInv'
<1> DEFINE c == console
           d == console'
           list == pending[Host]
<1>1. /\ inHandler[Host] /\ list[1].type = Writes /\ MachinesOK({Host}, {Reads, Writes})
      /\ c \in ConsoleRecords /\ InTurn /\ ~aborted /\ ~aborted'
  BY DEF OutputCallBack, Calls, Writes, ConsoleInv
<1>2. /\ pending' = [pending EXCEPT ![Host] = Tail(list)]
      /\ inHandler' = [inHandler EXCEPT ![Host] = IsDue(Tail(list))]
  BY DEF OutputCallBack, CheckIfDue, Rest
<1>3. /\ MachinesOK({Host}, {Reads, Writes})'
      /\ Has(list, Writes) /\ ~Has(pending'[Host], Writes)
      /\ Has(pending'[Host], Reads) <=> Has(list, Reads)
  <2>1. /\ MachinesOK({Host}, {Reads, Writes})'
        /\ Has(list, list[1].type)
        /\ \A type : type # list[1].type => (Has(pending'[Host], type) <=> Has(list, type))
        /\ list[1].type \in {Reads, Writes} => ~Has(pending'[Host], list[1].type)
    BY <1>1, <1>2, Handled, Zenon
  <2>2. Reads # Writes
    BY DEF Reads, Writes
  <2> QED
    BY <1>1, <2>1, <2>2
<1>4. c.putBusy /\ c.outWait = 0 /\ c.pc = "P"
  BY <1>1, <1>3 DEF InTurn
<1>5. d = [[c EXCEPT !.putBusy = FALSE] EXCEPT !.outWait = @ + 1]
  BY DEF OutputCallBack, OutputDone
<1> DEFINE x == [c EXCEPT !.putBusy = FALSE]
<1>6. /\ x \in ConsoleRecords /\ ~x.putBusy /\ x.outWait = 0 /\ x.pc = c.pc /\ x.ch = c.ch
      /\ x.incoming = c.incoming /\ x.inWait = c.inWait /\ x.shown = c.shown
      /\ x.typed = c.typed /\ x.script = c.script
  BY <1>1, <1>4, Zenon DEF ConsoleRecords
<1>x. d = [x EXCEPT !.outWait = 1]
  <2>1. d = [x EXCEPT !.outWait = @ + 1]
    BY <1>5
  <2> HIDE DEF x
  <2> QED
    BY <1>6, <2>1
<1> HIDE DEF x
<1>7. /\ d \in ConsoleRecords /\ ~d.putBusy /\ d.outWait = 1 /\ d.pc = c.pc /\ d.ch = c.ch
      /\ d.incoming = c.incoming /\ d.inWait = c.inWait /\ d.shown = c.shown
      /\ d.typed = c.typed /\ d.script = c.script
  BY <1>6, <1>x DEF ConsoleRecords
<1> HIDE DEF d
<1>8. InTurn'
  <2>1. /\ d.inWait <= 1 /\ (d.pc = "take" => d.inWait = 0)
        /\ Has(list, Reads) => d.incoming = EOF /\ d.inWait = 0 /\ d.pc \notin {"take", "done"}
    BY <1>1, <1>7 DEF InTurn
  <2>2. ~d.putBusy /\ d.outWait <= 1 /\ d.pc = "P"
    BY <1>4, <1>7
  <2> QED
    BY <1>3, <2>1, <2>2, Zenon DEF InTurn, d
<1>9. Arrived(d) = Arrived(c)
  BY <1>7 DEF Arrived, Before, Echoing
<1>10. EchoedInOrder'
  BY <1>7, <1>9, EchoKept DEF d
<1> QED
  BY <1>1, <1>3, <1>7, <1>8, <1>10 DEF ConsoleInv, d

\* SynchConsoleInput::GetChar returns from P: no read is pending.
LEMMA GetCharInv ==
    ASSUME ConsoleInv, GetChar
    PROVE  ConsoleInv'
<1> DEFINE c == console
           d == console'
<1>1. /\ c \in ConsoleRecords /\ InTurn /\ c.pc = "GetChar" /\ c.inWait > 0
      /\ UNCHANGED <<pending, inHandler, aborted>>
  BY DEF GetChar, ConsoleInv, interruptVars
<1>2. c.inWait = 1 /\ ~Has(pending[Host], Reads)
  BY <1>1 DEF InTurn, ConsoleRecords
<1>3. d = [c EXCEPT !.inWait = 0, !.pc = "take"]
  BY <1>2 DEF GetChar
<1>4. /\ d \in ConsoleRecords /\ d.inWait = 0 /\ d.pc = "take" /\ d.ch = c.ch
      /\ d.incoming = c.incoming /\ d.putBusy = c.putBusy /\ d.outWait = c.outWait
      /\ d.shown = c.shown /\ d.typed = c.typed /\ d.script = c.script
  BY <1>1, <1>3, Zenon DEF ConsoleRecords
<1> HIDE DEF d
<1>5. InTurn'
  <2>1. ~c.putBusy /\ c.outWait # 1
    BY <1>1 DEF InTurn
  <2> QED
    BY <1>1, <1>2, <1>4, <2>1 DEF InTurn, d
<1>6. Arrived(d) = Arrived(c)
  BY <1>1, <1>4 DEF Arrived, Before, Echoing
<1>7. EchoedInOrder'
  BY <1>4, <1>6, EchoKept DEF d
<1> QED
  BY <1>1, <1>4, <1>5, <1>7 DEF ConsoleInv, MachinesOK, d

\* SynchConsoleOutput::PutChar returns from P.
LEMMA PutCharWaitInv ==
    ASSUME ConsoleInv, PutCharWait
    PROVE  ConsoleInv'
<1> DEFINE c == console
           d == console'
<1>1. /\ c \in ConsoleRecords /\ InTurn /\ c.pc = "P" /\ c.outWait > 0
      /\ UNCHANGED <<pending, inHandler, aborted>>
  BY DEF PutCharWait, ConsoleInv, interruptVars
<1>2. c.outWait = 1 /\ ~c.putBusy
  BY <1>1 DEF InTurn, ConsoleRecords
<1>3. d = [c EXCEPT !.outWait = 0, !.pc = "GetChar"]
  BY <1>2 DEF PutCharWait
<1>4. /\ d \in ConsoleRecords /\ d.outWait = 0 /\ d.pc = "GetChar" /\ d.ch = c.ch
      /\ d.incoming = c.incoming /\ d.putBusy = c.putBusy /\ d.inWait = c.inWait
      /\ d.shown = c.shown /\ d.typed = c.typed /\ d.script = c.script
  BY <1>1, <1>3, Zenon DEF ConsoleRecords
<1> HIDE DEF d
<1>5. InTurn'
  BY <1>1, <1>2, <1>4 DEF InTurn, d
<1>6. Arrived(d) = Arrived(c)
  BY <1>1, <1>4 DEF Arrived, Before, Echoing
<1>7. EchoedInOrder'
  BY <1>4, <1>6, EchoKept DEF d
<1> QED
  BY <1>1, <1>4, <1>5, <1>7 DEF ConsoleInv, MachinesOK, d

\* ConsoleInput::GetChar takes the character out of the buffer, or sees the end of the file.
LEMMA TakeInv ==
    ASSUME ConsoleInv, Take, ~inHandler[Host]
    PROVE  ConsoleInv'
<1> DEFINE c == console
           d == console'
<1>1. /\ c \in ConsoleRecords /\ InTurn /\ c.pc = "take" /\ ~aborted /\ ~aborted'
      /\ MachinesOK({Host}, {Reads, Writes}) /\ inHandler' = inHandler
  BY DEF Take, ConsoleInv
<1>2. /\ ~Has(pending[Host], Reads) /\ c.inWait = 0 /\ ~c.putBusy /\ c.outWait # 1
  BY <1>1 DEF InTurn
<1>3. CASE c.incoming = EOF
  <2>1. d = [c EXCEPT !.ch = EOF, !.incoming = EOF, !.pc = "done"] /\ pending' = pending
    BY <1>3 DEF Take
  <2>2. /\ d \in ConsoleRecords /\ d.pc = "done" /\ d.incoming = c.incoming
        /\ d.inWait = c.inWait /\ d.putBusy = c.putBusy /\ d.outWait = c.outWait
        /\ d.shown = c.shown /\ d.typed = c.typed /\ d.script = c.script
    BY <1>1, <1>3, <2>1, Zenon DEF ConsoleRecords, Shown
  <2> HIDE DEF d
  <2>3. InTurn'
    BY <1>1, <1>2, <2>1, <2>2 DEF InTurn, d
  <2>4. Arrived(d) = Arrived(c)
    BY <1>1, <2>2 DEF Arrived, Before, Echoing
  <2>5. EchoedInOrder'
    BY <2>2, <2>4, EchoKept DEF d
  <2> QED
    BY <1>1, <2>1, <2>2, <2>3, <2>5 DEF ConsoleInv, MachinesOK, d
<1>4. CASE c.incoming # EOF
  <2> DEFINE new == Schedule(pending[Host], Reads, ConsoleTime)
  <2>1. /\ d = [c EXCEPT !.ch = c.incoming, !.incoming = EOF, !.pc = "PutChar"]
        /\ pending' = [pending EXCEPT ![Host] = new]
    BY <1>4 DEF Take, Reads
  <2>2. PICK e \in Entries : e.type = Reads /\ e.due > 0 /\ new = Insert(pending[Host], e)
    BY ConsoleSchedule
  <2>3. /\ MachinesOK({Host}, {Reads, Writes})'
        /\ \A type : Has(pending'[Host], type) <=> Has(pending[Host], type) \/ e.type = type
    <3>1. pending' = [pending EXCEPT ![Host] = Insert(pending[Host], e)]
      BY <2>1, <2>2
    <3> QED
      BY <1>1, <1>2, <2>2, <3>1, Scheduled, Zenon
  <2>4. /\ d \in ConsoleRecords /\ d.pc = "PutChar" /\ d.incoming = EOF
        /\ d.inWait = c.inWait /\ d.putBusy = c.putBusy /\ d.outWait = c.outWait
        /\ d.shown = c.shown /\ d.typed = c.typed /\ d.script = c.script
        /\ d.ch = c.incoming
    BY <1>1, <2>1, Zenon DEF ConsoleRecords, Shown
  <2> HIDE DEF d
  <2>5. InTurn'
    <3>1. Has(pending'[Host], Writes) <=> Has(pending[Host], Writes)
      BY <2>2, <2>3 DEF Reads, Writes
    <3> QED
      BY <1>1, <1>2, <2>4, <3>1 DEF InTurn, d
  <2>6. Arrived(d) = Arrived(c)
    <3>1. c.shown \in Seq(Shown) /\ c.shown \o <<c.incoming>> \in Seq(Shown)
      <4>1. c.shown \in Seq(Shown) /\ <<c.incoming>> \in Seq(Shown)
        BY <1>1 DEF ConsoleRecords
      <4> QED
        BY <4>1, ConcatIs
    <3>2. c.shown \o <<>> = c.shown
          /\ c.shown \o <<c.incoming>> \o <<>> = c.shown \o <<c.incoming>>
      BY <3>1, ConcatEmpty
    <3>3. Arrived(c) = c.shown \o <<>> \o <<c.incoming>>
      BY <1>1, <1>4 DEF Arrived, Before, Echoing, Held
    <3>4. Arrived(d) = c.shown \o <<c.incoming>> \o <<>>
      BY <2>4 DEF Arrived, Before, Echoing, Held
    <3> QED
      BY <3>2, <3>3, <3>4
  <2>7. EchoedInOrder'
    BY <2>4, <2>6, EchoKept DEF d
  <2> QED
    BY <1>1, <2>3, <2>4, <2>5, <2>7 DEF ConsoleInv, d
<1> QED
  BY <1>3, <1>4

\* ConsoleOutput::PutChar: the display is not busy, and its interrupt is scheduled.
LEMMA PutCharInv ==
    ASSUME ConsoleInv, PutChar, ~inHandler[Host]
    PROVE  ConsoleInv'
<1> DEFINE c == console
           d == console'
           new == Schedule(pending[Host], Writes, ConsoleTime)
<1>1. /\ c \in ConsoleRecords /\ InTurn /\ c.pc = "PutChar" /\ ~aborted
      /\ MachinesOK({Host}, {Reads, Writes}) /\ inHandler' = inHandler
      /\ aborted' = (aborted \/ c.putBusy)
      /\ d = [c EXCEPT !.shown = Append(@, c.ch), !.putBusy = TRUE, !.pc = "P"]
      /\ pending' = [pending EXCEPT ![Host] = new]
  BY DEF PutChar, ConsoleInv, Writes
<1>2. ~c.putBusy /\ ~Has(pending[Host], Writes) /\ c.outWait = 0 /\ ~aborted'
  <2>1. c.outWait \in Nat /\ c.putBusy \in BOOLEAN
    BY <1>1 DEF ConsoleRecords
  <2>2. InTurn /\ c.pc = "PutChar"
    BY <1>1
  <2>3. ~c.putBusy /\ ~Has(pending[Host], Writes) /\ c.outWait = 0
    BY <2>1, <2>2 DEF InTurn
  <2>4. ~aborted /\ aborted' = (aborted \/ c.putBusy)
    BY <1>1
  <2> QED
    BY <2>3, <2>4, Zenon
<1>3. PICK e \in Entries : e.type = Writes /\ e.due > 0 /\ new = Insert(pending[Host], e)
  BY ConsoleSchedule
<1>4. /\ MachinesOK({Host}, {Reads, Writes})'
      /\ \A type : Has(pending'[Host], type) <=> Has(pending[Host], type) \/ e.type = type
  <2>1. pending' = [pending EXCEPT ![Host] = Insert(pending[Host], e)]
    BY <1>1, <1>3
  <2> QED
    BY <1>1, <1>2, <1>3, <2>1, Scheduled, Zenon
<1>5. c.shown \in Seq(Shown) /\ c.ch \in Shown /\ Append(c.shown, c.ch) \in Seq(Shown)
  BY <1>1 DEF ConsoleRecords
<1>6. /\ d \in ConsoleRecords /\ d.pc = "P" /\ d.putBusy /\ d.shown = Append(c.shown, c.ch)
      /\ d.inWait = c.inWait /\ d.outWait = c.outWait /\ d.incoming = c.incoming
      /\ d.typed = c.typed /\ d.script = c.script
  BY <1>1, <1>5, Zenon DEF ConsoleRecords
<1> HIDE DEF d
<1>7. InTurn'
  <2>1. Has(pending'[Host], Reads) <=> Has(pending[Host], Reads)
    BY <1>3, <1>4 DEF Reads, Writes
  <2>2. Has(pending'[Host], Writes)
    BY <1>3, <1>4
  <2> QED
    BY <1>1, <1>2, <1>6, <2>1, <2>2 DEF InTurn, d
<1>8. Arrived(d) = Arrived(c)
  <2>1. Before(d) = Append(c.shown, c.ch) \o <<>> /\ Before(c) = c.shown \o <<c.ch>>
    BY <1>1, <1>6 DEF Before, Echoing
  <2>2. Append(c.shown, c.ch) \o <<>> = Append(c.shown, c.ch)
    BY <1>5, ConcatEmpty
  <2>3. Append(c.shown, c.ch) = c.shown \o <<c.ch>>
    BY <1>5, AppendIs
  <2> QED
    BY <1>6, <2>1, <2>2, <2>3 DEF Arrived
<1>9. EchoedInOrder'
  BY <1>6, <1>8, EchoKept DEF d
<1> QED
  BY <1>2, <1>4, <1>6, <1>7, <1>9 DEF ConsoleInv, d

\* OneTick and Idle.
LEMMA ConsoleTickInv ==
    ASSUME ConsoleInv, ConsoleTick
    PROVE  ConsoleInv'
<1>1. \E n \in Int : Advance(Host, n)
  <2>1. OneTick(Host) => Advance(Host, SystemTick) /\ SystemTick \in Int
    BY DeviceConstants DEF OneTick
  <2>2. Idle(Host) => Advance(Host, IdleTicks(Host)) /\ IdleTicks(Host) \in Int
    BY IdleAmount DEF ConsoleInv, IdleTicks, Idle
  <2> QED
    BY <2>1, <2>2 DEF ConsoleTick
<1>2. /\ MachinesOK({Host}, {Reads, Writes})'
      /\ \A type : Has(pending'[Host], type) <=> Has(pending[Host], type)
  BY <1>1, Advanced DEF ConsoleInv
<1>3. UNCHANGED <<console, aborted>>
  BY DEF ConsoleTick
<1>4. InTurn' /\ EchoedInOrder'
  BY <1>2, <1>3, Zenon DEF ConsoleInv, InTurn, EchoedInOrder
<1> QED
  BY <1>2, <1>3, <1>4 DEF ConsoleInv
=============================================================================
