----------------------------- MODULE TestProofs -----------------------------
(***************************************************************************)
(* The producers and consumers of Kernel::SyncTest, and its readers and    *)
(* writers, keep their promises for any number of threads and of rounds.   *)
(* The proofs use of a semaphore its value and who sleeps in its P, not    *)
(* its queue: they hold in whatever order threads are woken and run.       *)
(***************************************************************************)
EXTENDS TestThreads, FiniteSetTheorems, TLAPS

(***************************************************************************)
(* Counting.                                                               *)
(***************************************************************************)
\* Two groups of threads, forked in an order.
LEMMA TwoGroups ==
    ASSUME NEW S, NEW a \in Seq(S), NEW b \in Seq(S), IsInjective(a \o b)
    PROVE  /\ Range(a) \subseteq S /\ Range(b) \subseteq S /\ Range(a) \cap Range(b) = {}
           /\ IsFiniteSet(Range(a)) /\ IsFiniteSet(Range(b))
           /\ Cardinality(Range(a)) = Len(a)
<1> DEFINE n == Len(a)
           m == Len(b)
           r == a \o b
<1>1. /\ DOMAIN a = 1 .. n /\ DOMAIN b = 1 .. m /\ n \in Nat /\ m \in Nat
      /\ Len(r) = n + m /\ DOMAIN r = 1 .. n + m
      /\ \A k \in 1 .. n : r[k] = a[k]
      /\ \A k \in 1 .. m : r[n + k] = b[k]
  OBVIOUS
<1>2. \A j, k \in DOMAIN r : r[j] = r[k] => j = k
  BY DEF IsInjective
<1> HIDE DEF r
<1>3. ASSUME NEW j \in 1 .. n, NEW k \in 1 .. m PROVE a[j] # b[k]
  <2>1. j \in 1 .. n + m /\ n + k \in 1 .. n + m /\ j # n + k
    BY <1>1
  <2> QED
    BY <1>1, <1>2, <2>1
<1>4. \A j, k \in 1 .. n : a[j] = a[k] => j = k
  BY <1>1, <1>2
<1>5. a \in Surjection(1 .. n, Range(a)) /\ b \in Surjection(1 .. m, Range(b))
  BY <1>1 DEF Surjection, Range
<1>6. a \in Injection(1 .. n, Range(a))
  BY <1>1, <1>4, <1>5 DEF Injection, Surjection, IsInjective
<1>7. IsFiniteSet(1 .. n) /\ IsFiniteSet(1 .. m) /\ Cardinality(1 .. n) = n
  <2>1. 1 \in Int /\ n \in Int /\ m \in Int
    BY <1>1
  <2> HIDE DEF n, m
  <2>2. IsFiniteSet(1 .. n) /\ IsFiniteSet(1 .. m)
    BY <2>1, FS_Interval
  <2>3. Cardinality(1 .. n) = IF 1 > n THEN 0 ELSE n - 1 + 1
    BY <2>1, FS_Interval
  <2> QED
    BY <1>1, <2>2, <2>3
<1>8. /\ IsFiniteSet(Range(a)) /\ IsFiniteSet(Range(b)) /\ Cardinality(Range(a)) = Len(a)
  BY <1>5, <1>6, <1>7, FS_Surjection
<1>9. Range(a) \subseteq S /\ Range(b) \subseteq S /\ Range(a) \cap Range(b) = {}
  BY <1>1, <1>3 DEF Range
<1> QED
  BY <1>8, <1>9

\* The threads of two groups.
LEMMA BothGroups ==
    ASSUME NEW S, NEW a \in Seq(S), NEW b \in Seq(S)
    PROVE  Range(a \o b) = Range(a) \cup Range(b)
<1>1. /\ DOMAIN a = 1 .. Len(a) /\ DOMAIN b = 1 .. Len(b) /\ Len(a) \in Nat /\ Len(b) \in Nat
      /\ DOMAIN (a \o b) = 1 .. Len(a) + Len(b)
      /\ \A k \in 1 .. Len(a) : (a \o b)[k] = a[k]
      /\ \A k \in 1 .. Len(b) : (a \o b)[Len(a) + k] = b[k]
  OBVIOUS
<1>2. ASSUME NEW k \in 1 .. Len(a) + Len(b) PROVE (a \o b)[k] \in Range(a) \cup Range(b)
  <2>1. CASE k \in 1 .. Len(a)
    BY <1>1, <2>1 DEF Range
  <2>2. CASE k \notin 1 .. Len(a)
    <3>1. k - Len(a) \in 1 .. Len(b) /\ k = Len(a) + (k - Len(a))
      BY <1>1, <2>2
    <3> QED
      BY <1>1, <3>1 DEF Range
  <2> QED
    BY <2>1, <2>2
<1>3. ASSUME NEW k \in 1 .. Len(b) PROVE b[k] \in Range(a \o b)
  <2>1. Len(a) + k \in 1 .. Len(a) + Len(b)
    BY <1>1
  <2> QED
    BY <1>1, <2>1 DEF Range
<1>4. ASSUME NEW k \in 1 .. Len(a) PROVE a[k] \in Range(a \o b)
  <2>1. k \in 1 .. Len(a) + Len(b)
    BY <1>1
  <2> QED
    BY <1>1, <2>1 DEF Range
<1>5. Range(a \o b) \subseteq Range(a) \cup Range(b)
  BY <1>1, <1>2 DEF Range
<1>6. Range(a) \subseteq Range(a \o b) /\ Range(b) \subseteq Range(a \o b)
  BY <1>1, <1>3, <1>4 DEF Range
<1> QED
  BY <1>5, <1>6

\* A set that grows or shrinks by one element.
LEMMA CountChange ==
    ASSUME NEW S, IsFiniteSet(S), NEW t
    PROVE  /\ Cardinality(S) \in Nat
           /\ t \notin S => Cardinality(S \cup {t}) = Cardinality(S) + 1
           /\ t \in S => Cardinality(S \ {t}) = Cardinality(S) - 1
           /\ Cardinality(S) = 0 <=> S = {}
           /\ t \in S => (Cardinality(S) = 1 <=> S = {t})
<1>1. t \in S => (Cardinality(S) = 1 <=> S = {t})
  BY FS_Singleton
<1> QED
  BY <1>1, FS_CardinalityType, FS_AddElement, FS_RemoveElement, FS_EmptySet

(***************************************************************************)
(* Type 0, producers and consumers.                                        *)
(***************************************************************************)
\* Which P a thread sleeps in.
PCPlaces ==
    \A t \in PC1!Workers :
        inP[t] # NoSem =>
            \/ at[t] = "Acquire" /\ inP[t] = IF t \in PC1!Producers THEN isEmpty ELSE isFull
            \/ at[t] = "access" /\ inP[t] = produceArrayLock

PCTypes ==
    /\ value \in [PC1!Sems -> Nat]
    /\ inP \in [Threads -> PC1!Sems \cup {NoSem}]
    /\ at \in [PC1!Workers -> {"P", "Acquire", "access", "V"}]
    /\ i \in [PC1!Workers -> Nat]
    /\ high \in Nat /\ low \in Int
    /\ PCPlaces
    /\ \A t \in PC1!Workers : at[t] # "P" => i[t] < PC1!Limit(t)

\* The rounds in which a producer has written its number.
Produced == {r \in PC1!Producers \X (0 .. PRODUCE_TIMES - 1) :
                r[2] < i[r[1]] \/ (r[2] = i[r[1]] /\ at[r[1]] = "V")}

\* The producers that have not told of it yet, and the consumers that have
\* taken a unit of isFull and no number.
Untold == {t \in PC1!Producers : at[t] = "V"}
Entitled == {t \in PC1!Consumers : at[t] \in {"Acquire", "access"} /\ inP[t] # isFull}

\* Each number of produceArray has been consumed, or belongs to a consumer, or
\* is a unit of isFull, or will be one.
Balance ==
    /\ high = Cardinality(Produced)
    /\ value[isFull] + Cardinality(Entitled) + low + 1 + Cardinality(Untold) = high

PCInv == PCTypes /\ Balance

\* The threads are there, and no producer consumes.
LEMMA PCThreads ==
    /\ PC1!Workers = PC1!Producers \cup PC1!Consumers
    /\ PC1!Workers \subseteq Threads /\ PC1!Producers \cap PC1!Consumers = {}
    /\ IsFiniteSet(PC1!Producers) /\ IsFiniteSet(PC1!Consumers)
    /\ Cardinality(PC1!Producers) = Len(producers)
    /\ PC1!Sems = {isFull, isEmpty, produceArrayLock} /\ NoSem \notin PC1!Sems
    /\ isFull # isEmpty /\ produceArrayLock \notin {isFull, isEmpty}
<1>1. producers \in Seq(Threads) /\ consumers \in Seq(Threads)
  BY TestAssumption
<1>2. IsInjective(producers \o consumers)
  BY TestAssumption
<1>3. /\ Range(producers) \subseteq Threads /\ Range(consumers) \subseteq Threads
      /\ Range(producers) \cap Range(consumers) = {}
      /\ IsFiniteSet(Range(producers)) /\ IsFiniteSet(Range(consumers))
      /\ Cardinality(Range(producers)) = Len(producers)
  BY <1>1, <1>2, TwoGroups
<1> QED
  BY <1>3, TestAssumption DEF PC1!Workers, PC1!Producers, PC1!Consumers, PC1!Sems, Range

\* The sets that are counted are finite.
LEMMA PCFinite ==
    /\ IsFiniteSet(Produced) /\ IsFiniteSet(Untold) /\ IsFiniteSet(Entitled)
    /\ Produced \subseteq PC1!Producers \X (0 .. PRODUCE_TIMES - 1)
    /\ IsFiniteSet(PC1!Producers \X (0 .. PRODUCE_TIMES - 1))
    /\ Cardinality(PC1!Producers \X (0 .. PRODUCE_TIMES - 1)) = MAX_PRODUCE_ARRAY_NUM
<1>1. PRODUCE_TIMES \in Nat /\ MAX_PRODUCE_ARRAY_NUM = PRODUCE_TIMES * Len(producers)
      /\ Len(producers) \in Nat
  BY TestAssumption
<1>2. IsFiniteSet(0 .. PRODUCE_TIMES - 1) /\ Cardinality(0 .. PRODUCE_TIMES - 1) = PRODUCE_TIMES
  <2>1. 0 \in Int /\ PRODUCE_TIMES - 1 \in Int
    BY <1>1
  <2>2. IsFiniteSet(0 .. PRODUCE_TIMES - 1)
    BY <2>1, FS_Interval
  <2>3. Cardinality(0 .. PRODUCE_TIMES - 1) =
            IF 0 > PRODUCE_TIMES - 1 THEN 0 ELSE PRODUCE_TIMES - 1 - 0 + 1
    BY <2>1, FS_Interval
  <2> QED
    BY <1>1, <2>2, <2>3
<1>3. /\ IsFiniteSet(PC1!Producers \X (0 .. PRODUCE_TIMES - 1))
      /\ Cardinality(PC1!Producers \X (0 .. PRODUCE_TIMES - 1)) = Len(producers) * PRODUCE_TIMES
  <2> DEFINE K == 0 .. PRODUCE_TIMES - 1
  <2> HIDE DEF K
  <2>1. IsFiniteSet(K) /\ Cardinality(K) = PRODUCE_TIMES
    BY <1>2 DEF K
  <2>2. /\ IsFiniteSet(PC1!Producers \X K)
        /\ Cardinality(PC1!Producers \X K) = Cardinality(PC1!Producers) * Cardinality(K)
    BY <2>1, PCThreads, FS_Product
  <2> QED
    BY <2>1, <2>2, PCThreads DEF K
<1>4. Produced \subseteq PC1!Producers \X (0 .. PRODUCE_TIMES - 1)
  BY DEF Produced
<1>5. Untold \subseteq PC1!Producers /\ Entitled \subseteq PC1!Consumers
  BY DEF Untold, Entitled
<1> QED
  BY <1>1, <1>3, <1>4, <1>5, PCThreads, FS_Subset

\* What is counted, and by how much.
LEMMA PCCounts ==
    /\ Cardinality(Produced) \in Nat /\ Cardinality(Untold) \in Nat /\ Cardinality(Entitled) \in Nat
    /\ \A r : r \notin Produced => Cardinality(Produced \cup {r}) = Cardinality(Produced) + 1
    /\ \A t : t \notin Untold => Cardinality(Untold \cup {t}) = Cardinality(Untold) + 1
    /\ \A t : t \in Untold => Cardinality(Untold \ {t}) = Cardinality(Untold) - 1
    /\ \A t : t \notin Entitled => Cardinality(Entitled \cup {t}) = Cardinality(Entitled) + 1
    /\ \A t : t \in Entitled => /\ Cardinality(Entitled \ {t}) = Cardinality(Entitled) - 1
                              /\ Cardinality(Entitled) > 0
<1>1. /\ Cardinality(Produced) \in Nat
      /\ \A r : r \notin Produced => Cardinality(Produced \cup {r}) = Cardinality(Produced) + 1
  BY PCFinite, FS_CardinalityType, FS_AddElement
<1>2. /\ Cardinality(Untold) \in Nat
      /\ \A t : t \notin Untold => Cardinality(Untold \cup {t}) = Cardinality(Untold) + 1
      /\ \A t : t \in Untold => Cardinality(Untold \ {t}) = Cardinality(Untold) - 1
  BY PCFinite, FS_CardinalityType, FS_AddElement, FS_RemoveElement
<1>3. /\ Cardinality(Entitled) \in Nat
      /\ \A t : t \notin Entitled => Cardinality(Entitled \cup {t}) = Cardinality(Entitled) + 1
      /\ \A t : t \in Entitled => Cardinality(Entitled \ {t}) = Cardinality(Entitled) - 1
  BY PCFinite, FS_CardinalityType, FS_AddElement, FS_RemoveElement
<1>4. \A t : t \in Entitled => Cardinality(Entitled) > 0
  BY <1>3, PCFinite, FS_EmptySet
<1> QED
  BY <1>1, <1>2, <1>3, <1>4

\* The numbers that Balance adds.
LEMMA PCNumbers ==
    PCInv => /\ value[isFull] \in Nat /\ low \in Int /\ high \in Nat
             /\ Cardinality(Produced) \in Nat /\ Cardinality(Untold) \in Nat
             /\ Cardinality(Entitled) \in Nat
  BY PCCounts, PCThreads DEF PCInv, PCTypes

\* A step that changes none of the variables of the invariant.
LEMMA PCQuiet == PCInv /\ UNCHANGED <<value, inP, at, i, high, low>> => PCInv'
  BY DEF PCInv, PCTypes, PCPlaces, Balance, Produced, Untold, Entitled

\* isEmpty->P(), isFull->P() or produceArrayLock->Acquire(), at the first test
\* and after each wake-up: a consumer that takes a unit of isFull has it instead.
LEMMA PCTest ==
    ASSUME PCInv, NEW t \in PC1!Workers, NEW s \in PC1!Sems, NEW x,
           PC1!Sem!TestValue(t, s), at' = [at EXCEPT ![t] = x],
           at[t] # "V", i[t] < PC1!Limit(t), UNCHANGED <<high, low, i>>,
           \/ x = "Acquire" /\ s = IF t \in PC1!Producers THEN isEmpty ELSE isFull
           \/ x = "access" /\ s = produceArrayLock,
           t \in PC1!Consumers => (t \in Entitled <=> s = produceArrayLock)
    PROVE  PCInv'
<1> USE PCThreads
<1>0. /\ \A u \in PC1!Workers : u # t => at'[u] = at[u] /\ inP'[u] = inP[u]
      /\ at'[t] = x /\ value' \in [PC1!Sems -> Nat]
      /\ at' \in [PC1!Workers -> {"P", "Acquire", "access", "V"}]
      /\ inP' \in [Threads -> PC1!Sems \cup {NoSem}]
      /\ \/ value[s] > 0 /\ value'[s] = value[s] - 1 /\ inP'[t] = NoSem
         \/ value[s] = 0 /\ value'[s] = 0 /\ inP'[t] = s
      /\ s # isFull => value'[isFull] = value[isFull]
  BY DEF PC1!Sem!TestValue, PCInv, PCTypes
<1>1. PCTypes'
  BY <1>0 DEF PCInv, PCTypes, PCPlaces, PC1!Limit
<1>2. Produced' = Produced /\ Untold' = Untold
  BY <1>0 DEF Produced, Untold
<1>3. \A u \in PC1!Workers : u # t => (u \in Entitled' <=> u \in Entitled)
  BY <1>0 DEF Entitled
<1>4. CASE t \in PC1!Consumers /\ s = isFull
  <2>1. Entitled' = IF inP'[t] = NoSem THEN Entitled \cup {t} ELSE Entitled
    BY <1>0, <1>3, <1>4, SMTT(30) DEF Entitled
  <2>2. value'[isFull] + Cardinality(Entitled') = value[isFull] + Cardinality(Entitled)
    <3>1. CASE inP'[t] = NoSem
      <4>1. value'[isFull] = value[isFull] - 1 /\ Entitled' = Entitled \cup {t}
        BY <1>0, <1>4, <2>1, <3>1
      <4>2. Cardinality(Entitled') = Cardinality(Entitled) + 1
        BY <1>4, <4>1, PCCounts
      <4>3. value[isFull] \in Int /\ Cardinality(Entitled) \in Int
        BY PCNumbers
      <4> HIDE PCThreads
      <4> QED
        BY <4>1, <4>2, <4>3
    <3>2. CASE inP'[t] # NoSem
      BY <1>0, <1>4, <2>1, <3>2
    <3> QED
      BY <3>1, <3>2
  <2> QED
    <3>1. value'[isFull] \in Nat /\ Cardinality(Entitled') \in Nat
      <4>1. t \notin Entitled => Cardinality(Entitled \cup {t}) \in Nat
        BY PCCounts
      <4> QED
        BY <1>0, <1>4, <2>1, <4>1, PCNumbers
    <3>2. Balance'
      BY <1>0, <1>2, <2>2, <3>1, PCNumbers DEF PCInv, Balance
    <3> QED
      BY <1>1, <3>2 DEF PCInv
<1>5. CASE ~(t \in PC1!Consumers /\ s = isFull)
  <2>1. s # isFull
    BY <1>5
  <2>2. t \in Entitled' <=> t \in Entitled
    BY <1>0, <2>1 DEF Entitled
  <2>3. Entitled' = Entitled
    BY <1>3, <2>2 DEF Entitled
  <2> QED
    BY <1>0, <1>1, <1>2, <2>1, <2>3 DEF PCInv, Balance
<1> QED
  BY <1>4, <1>5

\* A producer writes: there is one round more in which it has, which it has
\* not told of yet.
LEMMA ProduceInv ==
    ASSUME PCInv, NEW t \in PC1!Workers, PC1!Produce(t)
    PROVE  PCInv'
<1> USE PCThreads
<1>0. /\ \A u \in PC1!Workers : u # t => at'[u] = at[u]
      /\ t \in PC1!Producers /\ at[t] = "access" /\ at'[t] = "V" /\ inP[t] = NoSem
      /\ value' \in [PC1!Sems -> Nat] /\ value'[isFull] = value[isFull]
      /\ at' \in [PC1!Workers -> {"P", "Acquire", "access", "V"}]
      /\ high' = high + 1 /\ UNCHANGED <<inP, i, low>>
  BY DEF PC1!Produce, PC1!Goto, PC1!Sem!V, PC1!Sem!Running, PCInv, PCTypes
<1>1. PCTypes'
  BY <1>0 DEF PCInv, PCTypes, PCPlaces, PC1!Limit
<1>2. i[t] \in 0 .. PRODUCE_TIMES - 1
  <2>1. i[t] \in Nat /\ i[t] < PRODUCE_TIMES /\ PRODUCE_TIMES \in Nat
    BY <1>0, TestAssumption DEF PCInv, PCTypes, PC1!Limit
  <2> QED
    BY <2>1
<1>3. <<t, i[t]>> \notin Produced /\ Produced' = Produced \cup {<<t, i[t]>>}
  BY <1>0, <1>2 DEF Produced
<1>4. t \notin Untold /\ Untold' = Untold \cup {t}
  BY <1>0 DEF Untold
<1>5. Entitled' = Entitled
  BY <1>0 DEF Entitled
<1>6. /\ Cardinality(Produced') = Cardinality(Produced) + 1
      /\ Cardinality(Untold') = Cardinality(Untold) + 1
  BY <1>3, <1>4, PCCounts
<1>7. Balance'
  <2>1. /\ high = Cardinality(Produced)
        /\ value[isFull] + Cardinality(Entitled) + low + 1 + Cardinality(Untold) = high
    BY DEF PCInv, Balance
  <2>2. \A a, b, c, d, h \in Int : a + b + c + 1 + d = h => a + b + c + 1 + (d + 1) = h + 1
    OBVIOUS
  <2>3. value[isFull] + Cardinality(Entitled) + low + 1 + (Cardinality(Untold) + 1) = high + 1
    <3> HIDE PCThreads
    <3>1. /\ value[isFull] \in Int /\ low \in Int /\ high \in Int
          /\ Cardinality(Untold) \in Int /\ Cardinality(Entitled) \in Int
      BY PCNumbers
    <3> QED
      BY <2>1, <2>2, <3>1
  <2> QED
    BY <1>0, <1>5, <1>6, <2>1, <2>3 DEF Balance
<1> QED
  BY <1>1, <1>7 DEF PCInv

\* A consumer takes the number it is entitled to.
LEMMA ConsumeInv ==
    ASSUME PCInv, NEW t \in PC1!Workers, PC1!Consume(t)
    PROVE  PCInv'
<1> USE PCThreads
<1>0. /\ \A u \in PC1!Workers : u # t => at'[u] = at[u]
      /\ t \in PC1!Consumers /\ at[t] = "access" /\ at'[t] = "V" /\ inP[t] = NoSem
      /\ value' \in [PC1!Sems -> Nat] /\ value'[isFull] = value[isFull]
      /\ at' \in [PC1!Workers -> {"P", "Acquire", "access", "V"}]
      /\ low' = low + 1 /\ UNCHANGED <<inP, i, high>>
  BY DEF PC1!Consume, PC1!Goto, PC1!Sem!V, PC1!Sem!Running, PCInv, PCTypes
<1>1. PCTypes'
  BY <1>0 DEF PCInv, PCTypes, PCPlaces, PC1!Limit
<1>2. Produced' = Produced /\ Untold' = Untold
  BY <1>0 DEF Produced, Untold
<1>3. t \in Entitled /\ Entitled' = Entitled \ {t}
  BY <1>0 DEF Entitled
<1>4. Cardinality(Entitled') = Cardinality(Entitled) - 1
  BY <1>3, PCCounts
<1>5. Balance'
  <2>1. /\ high = Cardinality(Produced)
        /\ value[isFull] + Cardinality(Entitled) + low + 1 + Cardinality(Untold) = high
    BY DEF PCInv, Balance
  <2>2. value[isFull] + (Cardinality(Entitled) - 1) + (low + 1) + 1 + Cardinality(Untold) = high
    <3> HIDE PCThreads
    <3>1. /\ value[isFull] \in Int /\ low \in Int /\ high \in Int
          /\ Cardinality(Untold) \in Int /\ Cardinality(Entitled) \in Int
      BY PCNumbers
    <3>2. \A m, n, k, j, h \in Int : m + n + k + 1 + j = h => m + (n - 1) + (k + 1) + 1 + j = h
      OBVIOUS
    <3> QED
      BY <2>1, <3>1, <3>2
  <2> QED
    BY <1>0, <1>2, <1>4, <2>1, <2>2 DEF Balance
<1> QED
  BY <1>1, <1>5 DEF PCInv

\* The end of a round: a producer turns its number into a unit of isFull.
LEMMA PassTurnInv ==
    ASSUME PCInv, NEW t \in PC1!Workers, PC1!PassTurn(t)
    PROVE  PCInv'
<1> USE PCThreads
<1>0. /\ \A u \in PC1!Workers : u # t => at'[u] = at[u] /\ i'[u] = i[u]
      /\ at[t] = "V" /\ at'[t] = "P" /\ inP[t] = NoSem /\ i'[t] = i[t] + 1
      /\ value' \in [PC1!Sems -> Nat]
      /\ value'[isFull] = IF t \in PC1!Producers THEN value[isFull] + 1 ELSE value[isFull]
      /\ at' \in [PC1!Workers -> {"P", "Acquire", "access", "V"}]
      /\ i' \in [PC1!Workers -> Nat] /\ UNCHANGED <<inP, low, high>>
  BY DEF PC1!PassTurn, PC1!Goto, PC1!Sem!V, PC1!Sem!Running, PCInv, PCTypes
<1>1. PCTypes'
  BY <1>0 DEF PCInv, PCTypes, PCPlaces, PC1!Limit
<1>2. Produced' = Produced
  BY <1>0, SMTT(30) DEF Produced, PCInv, PCTypes
<1>3. Entitled' = Entitled
  BY <1>0 DEF Entitled
<1>4. CASE t \in PC1!Producers
  <2>1. t \in Untold /\ Untold' = Untold \ {t}
    BY <1>0, <1>4 DEF Untold
  <2>2. Cardinality(Untold') = Cardinality(Untold) - 1
    BY <2>1, PCCounts
  <2>3. Balance'
    <3>1. /\ high = Cardinality(Produced)
          /\ value[isFull] + Cardinality(Entitled) + low + 1 + Cardinality(Untold) = high
      BY DEF PCInv, Balance
    <3>2. PICK v, e, u \in Nat :
              v = value[isFull] /\ e = Cardinality(Entitled) /\ u = Cardinality(Untold)
      BY PCNumbers
    <3>3. v + e + low + 1 + u = high /\ low \in Int /\ high \in Int
      BY <3>1, <3>2, PCNumbers
    <3>4. (v + 1) + e + low + 1 + (u - 1) = high
      BY <3>3
    <3> QED
      BY <1>0, <1>2, <1>3, <1>4, <2>2, <3>1, <3>2, <3>4 DEF Balance
  <2> QED
    BY <1>1, <2>3 DEF PCInv
<1>5. CASE t \notin PC1!Producers
  <2>1. Untold' = Untold
    BY <1>0, <1>5 DEF Untold
  <2> QED
    BY <1>0, <1>1, <1>2, <1>3, <1>5, <2>1 DEF PCInv, Balance
<1> QED
  BY <1>4, <1>5

\* A section of a producer or a consumer keeps the invariant.
LEMMA PCStep == \A t \in PC1!Workers : PCInv /\ PC1!Step(t) => PCInv'
<1> SUFFICES ASSUME NEW t \in PC1!Workers, PCInv, PC1!Step(t) PROVE PCInv'
  OBVIOUS
<1> USE PCThreads
<1>0. /\ at \in [PC1!Workers -> {"P", "Acquire", "access", "V"}] /\ inP[t] \in PC1!Sems \cup {NoSem}
      /\ at[t] # "P" => i[t] < PC1!Limit(t)
      /\ inP[t] # NoSem =>
            \/ at[t] = "Acquire" /\ inP[t] = IF t \in PC1!Producers THEN isEmpty ELSE isFull
            \/ at[t] = "access" /\ inP[t] = produceArrayLock
  BY DEF PCInv, PCTypes, PCPlaces
<1>1. CASE PC1!WaitTurn(t)
  BY <1>0, <1>1, PCTest DEF PC1!WaitTurn, PC1!Goto, PC1!Sem!P, Entitled
<1>2. CASE PC1!Acquire(t)
  BY <1>0, <1>2, PCTest DEF PC1!Acquire, PC1!Goto, PC1!Sem!P, Entitled
<1>3. CASE PC1!PAgain(t)
  <2>1. /\ inP[t] # NoSem /\ PC1!Sem!TestValue(t, inP[t]) /\ at' = [at EXCEPT ![t] = at[t]]
        /\ UNCHANGED <<high, low, i>>
    BY <1>0, <1>3 DEF PC1!PAgain, PC1!Sem!PAgain, PC1!testVars
  <2>2. t \in PC1!Consumers => (t \in Entitled <=> inP[t] = produceArrayLock)
    BY <1>0, <2>1 DEF Entitled
  <2> QED
    BY <1>0, <2>1, <2>2, PCTest
<1>4. CASE PC1!Finish(t)
  BY <1>4, PCQuiet DEF PC1!Finish, PC1!Sem!FinishThread, PC1!Sem!semaphoreVars, PC1!testVars
<1> QED
  BY <1>1, <1>2, <1>3, <1>4, ProduceInv, ConsumeInv, PassTurnInv DEF PC1!Step

\* produceArray is neither overrun nor read ahead.
LEMMA PCInBounds == PCInv => PC1!InBounds
<1> SUFFICES ASSUME PCInv PROVE PC1!InBounds
  OBVIOUS
<1> USE PCThreads
<1>1. ASSUME NEW t \in PC1!Producers, PC1!Accesses(t) PROVE high < MAX_PRODUCE_ARRAY_NUM
  <2>1. <<t, i[t]>> \in PC1!Producers \X (0 .. PRODUCE_TIMES - 1) /\ <<t, i[t]>> \notin Produced
    <3>1. /\ at[t] = "access" /\ i[t] \in Nat /\ PRODUCE_TIMES \in Nat
          /\ i[t] < PRODUCE_TIMES
      BY <1>1, TestAssumption DEF PC1!Accesses, PCInv, PCTypes, PC1!Limit
    <3> QED
      BY <3>1 DEF Produced
  <2> DEFINE Rounds == PC1!Producers \X (0 .. PRODUCE_TIMES - 1)
  <2>2. Produced # Rounds /\ Produced \subseteq Rounds /\ IsFiniteSet(Rounds)
    BY <2>1, PCFinite
  <2>3. Cardinality(Produced) < Cardinality(Rounds)
    BY <2>2, FS_Subset, FS_CardinalityType
  <2> QED
    BY <2>3, PCFinite DEF PCInv, Balance
<1>2. ASSUME NEW t \in PC1!Consumers, PC1!Accesses(t) PROVE low + 1 < high
  <2>1. t \in Entitled
    BY <1>2 DEF PC1!Accesses, Entitled
  <2>2. Cardinality(Entitled) \in Nat \ {0} /\ Cardinality(Untold) \in Nat
    <3>1. Cardinality(Entitled) > 0
      BY <2>1, PCCounts
    <3> QED
      BY <3>1, PCNumbers
  <2> QED
    BY <2>2, PCNumbers DEF PCInv, Balance
<1> QED
  BY <1>1, <1>2 DEF PC1!InBounds

\* The threads start, nothing is produced.
LEMMA PCInit == PC1!Init => PCInv
<1> SUFFICES ASSUME PC1!Init PROVE PCInv
  OBVIOUS
<1> USE PCThreads
<1>0. /\ value = PC1!InitialValue /\ inP = [t \in Threads |-> NoSem]
      /\ high = 0 /\ low = -1
      /\ i = [t \in PC1!Workers |-> 0] /\ at = [t \in PC1!Workers |-> "P"]
  BY DEF PC1!Init, PC1!Sem!Init
<1>1. PC1!InitialValue \in [PC1!Sems -> Nat] /\ PC1!InitialValue[isFull] = 0
  BY TestAssumption DEF PC1!InitialValue
<1>2. PCTypes
  BY <1>0, <1>1 DEF PCTypes, PCPlaces
<1>3. Produced = {} /\ Untold = {} /\ Entitled = {}
  BY <1>0 DEF Produced, Untold, Entitled
<1>4. Balance
  BY <1>0, <1>1, <1>3, FS_EmptySet DEF Balance
<1> QED
  BY <1>2, <1>4 DEF PCInv

(***************************************************************************)
(* Type 3, readers and writers.                                            *)
(***************************************************************************)
ReaderLabels == {"begin", "count", "first", "read", "uncount", "last"}
WriterLabels == {"begin", "write"}

\* t is between Acquire and Release of rwMutex.
InMutex(t) ==
    t \in RW!Readers /\ inP[t] # rwMutex /\ at[t] \in {"count", "first", "uncount", "last"}

\* wLock is taken by t, or by the readers of which t is one.
HasWLock(t) ==
    \/ t \in RW!Writers /\ at[t] = "write" /\ inP[t] # wLock
    \/ t \in RW!Readers /\ (at[t] \in {"read", "uncount"} \/ (at[t] = "first" /\ inP[t] # wLock))

Counted == {t \in RW!Readers : at[t] \in {"first", "read", "uncount"}}

RWTypes ==
    /\ value \in [RW!Locks -> Nat]
    /\ inP \in [Threads -> RW!Locks \cup {NoSem}]
    /\ at \in [RW!Workers -> ReaderLabels \cup WriterLabels]
    /\ \A t \in RW!Readers : at[t] \in ReaderLabels
    /\ \A t \in RW!Writers : at[t] \in WriterLabels
    /\ \A t \in RW!Workers :
          inP[t] # NoSem => \/ at[t] \in {"count", "uncount"} /\ inP[t] = rwMutex
                            \/ at[t] \in {"first", "write"} /\ inP[t] = wLock

Mutex ==
    /\ \A t, u \in RW!Workers : InMutex(t) /\ InMutex(u) => t = u
    /\ value[rwMutex] = IF \E t \in RW!Workers : InMutex(t) THEN 0 ELSE 1

\* A writer has wLock alone, the first reader takes it for the others.
WLock ==
    /\ \A t \in RW!Writers, u \in RW!Workers : HasWLock(t) /\ HasWLock(u) => t = u
    /\ value[wLock] = IF \E t \in RW!Workers : HasWLock(t) THEN 0 ELSE 1
    /\ \A t \in RW!Readers : at[t] = "first" => Counted = {t}

CountOK == ~aborted => readerCount = Cardinality(Counted)

RWInv == RWTypes /\ Mutex /\ WLock /\ CountOK

\* The threads are there, and no reader writes.
LEMMA RWThreads ==
    /\ RW!Workers \subseteq Threads /\ RW!Readers \cap RW!Writers = {}
    /\ RW!Workers = RW!Readers \cup RW!Writers
    /\ IsFiniteSet(RW!Readers)
    /\ wLock # rwMutex /\ NoSem \notin {wLock, rwMutex} /\ RW!Locks = {wLock, rwMutex}
<1>1. readers \in Seq(Threads) /\ writers \in Seq(Threads)
  BY TestAssumption
<1>2. IsInjective(readers \o writers)
  BY TestAssumption
<1>3. /\ Range(readers) \subseteq Threads /\ Range(writers) \subseteq Threads
      /\ Range(readers) \cap Range(writers) = {} /\ IsFiniteSet(Range(readers))
  BY <1>1, <1>2, TwoGroups
<1> QED
  BY <1>3, TestAssumption DEF RW!Workers, RW!Readers, RW!Writers, RW!Locks, Range

\* rwMutex->Acquire(), at its first test and after each wake-up: t waits or
\* is the only one inside.
LEMMA MutexTest ==
    ASSUME RWInv, NEW t \in RW!Readers, NEW x \in {"count", "uncount"},
           inP[t] \in {NoSem, rwMutex}, ~InMutex(t), RW!Sem!TestValue(t, rwMutex),
           at' = [at EXCEPT ![t] = x],
           x = "count" => at[t] \in {"begin", "count"},
           x = "uncount" => at[t] \in {"read", "uncount"},
           UNCHANGED <<readerCount, aborted>>
    PROVE  RWInv'
<1> USE RWThreads
<1>0. /\ \A u \in RW!Workers : u # t => at'[u] = at[u] /\ inP'[u] = inP[u]
      /\ at'[t] = x /\ at' \in [RW!Workers -> ReaderLabels \cup WriterLabels] /\ value'[wLock] = value[wLock]
      /\ value' \in [RW!Locks -> Nat]
      /\ inP' \in [Threads -> RW!Locks \cup {NoSem}]
      /\ \/ value[rwMutex] > 0 /\ value'[rwMutex] = value[rwMutex] - 1 /\ inP'[t] = NoSem
         \/ value[rwMutex] = 0 /\ value'[rwMutex] = 0 /\ inP'[t] = rwMutex
  BY SMTT(30) DEF RW!Sem!TestValue, RWInv, RWTypes, ReaderLabels, WriterLabels
<1>1. RWTypes'
  BY <1>0 DEF RWInv, RWTypes, ReaderLabels, WriterLabels
<1>2. Mutex'
  BY <1>0, SMTT(30) DEF RWInv, Mutex, InMutex, RWTypes
<1>3. Counted' = Counted
  BY <1>0 DEF Counted, RWInv
<1>4. \A u \in RW!Workers : HasWLock(u)' <=> HasWLock(u)
  BY <1>0 DEF HasWLock, RWInv, RWTypes
<1>5. WLock'
  BY <1>0, <1>3, <1>4 DEF RWInv, WLock
<1> QED
  BY <1>1, <1>2, <1>3, <1>5 DEF RWInv, CountOK

\* rwMutex->Release(): t leaves, and nobody is inside.
LEMMA MutexLeft ==
    ASSUME RWInv, NEW t \in RW!Readers, NEW x \in {"read", "begin"},
           InMutex(t), inP[t] = NoSem, RW!Sem!V(rwMutex), at' = [at EXCEPT ![t] = x]
    PROVE  /\ RWTypes' /\ Mutex'
           /\ inP' = inP /\ value'[wLock] = value[wLock] /\ at'[t] = x
           /\ \A u \in RW!Workers : u # t => at'[u] = at[u] /\ (HasWLock(u)' <=> HasWLock(u))
<1> USE RWThreads
<1>0. /\ \A u \in RW!Workers : u # t => at'[u] = at[u]
      /\ at'[t] = x /\ at' \in [RW!Workers -> ReaderLabels \cup WriterLabels] /\ value'[wLock] = value[wLock]
      /\ value' \in [RW!Locks -> Nat] /\ inP' = inP /\ value'[rwMutex] = value[rwMutex] + 1
  BY SMTT(30) DEF RW!Sem!V, RWInv, RWTypes, ReaderLabels, WriterLabels
<1>1. RWTypes'
  BY <1>0, SMTT(30) DEF RWInv, RWTypes, ReaderLabels, WriterLabels
<1>2. Mutex'
  BY <1>0, SMTT(30) DEF RWInv, Mutex, InMutex, RWTypes
<1> QED
  BY <1>0, <1>1, <1>2 DEF HasWLock

\* wLock->Acquire() of a writer or of the first reader, at its first test and
\* after each wake-up.
LEMMA WLockTest ==
    ASSUME RWInv, NEW t \in RW!Workers, NEW x \in {"write", "first"},
           ~HasWLock(t), inP[t] \in {NoSem, wLock}, RW!Sem!TestValue(t, wLock),
           at' = [at EXCEPT ![t] = x],
           x = "write" => t \in RW!Writers,
           x = "first" => t \in RW!Readers /\ InMutex(t) /\ Counted \subseteq {t}
    PROVE  /\ RWTypes' /\ Mutex' /\ WLock'
           /\ Counted' = IF x = "first" THEN {t} ELSE Counted
<1> USE RWThreads
<1>0. /\ \A u \in RW!Workers : u # t => at'[u] = at[u] /\ inP'[u] = inP[u]
      /\ at'[t] = x /\ at' \in [RW!Workers -> ReaderLabels \cup WriterLabels] /\ value'[rwMutex] = value[rwMutex]
      /\ value' \in [RW!Locks -> Nat]
      /\ inP' \in [Threads -> RW!Locks \cup {NoSem}]
      /\ \/ value[wLock] > 0 /\ value'[wLock] = value[wLock] - 1 /\ inP'[t] = NoSem
         \/ value[wLock] = 0 /\ value'[wLock] = 0 /\ inP'[t] = wLock
  BY DEF RW!Sem!TestValue, RWInv, RWTypes, ReaderLabels, WriterLabels
<1>1. RWTypes'
  BY <1>0, SMTT(30) DEF RWInv, RWTypes, ReaderLabels, WriterLabels
<1>2. Mutex'
  <2>0. \A u \in RW!Workers : u # t => (InMutex(u)' <=> InMutex(u))
    BY <1>0, Zenon DEF InMutex
  <2>1. \A u \in RW!Workers : InMutex(u)' <=> InMutex(u)
    <3>1. InMutex(t)' <=> InMutex(t)
      BY <1>0 DEF InMutex
    <3> QED
      BY <2>0, <3>1, Zenon
  <2>2. Mutex
    BY DEF RWInv
  <2> HIDE DEF InMutex
  <2> QED
    BY <1>0, <2>1, <2>2 DEF Mutex
<1>3. Counted' = IF x = "first" THEN {t} ELSE Counted
  BY <1>0, SMTT(30) DEF Counted, RWInv
<1>4. \A u \in RW!Workers : u # t => (HasWLock(u)' <=> HasWLock(u))
  BY <1>0 DEF HasWLock
<1>5. HasWLock(t)' <=> inP'[t] = NoSem
  BY <1>0 DEF HasWLock
<1>6. \A u \in RW!Readers : at'[u] = "first" => Counted' = {u}
  BY <1>0, <1>3 DEF RWInv, WLock, Counted
<1>a. WLock
  BY DEF RWInv
<1>7. CASE inP'[t] = NoSem
  <2>1. value[wLock] # 0 /\ value'[wLock] = value[wLock] - 1
    BY <1>0, <1>7
  <2>2. value[wLock] = 1 /\ \A u \in RW!Workers : ~HasWLock(u)
    BY <1>a, <2>1, Zenon DEF WLock
  <2>3. value'[wLock] = 0
    BY <2>1, <2>2
  <2>4. \A u \in RW!Workers : HasWLock(u)' <=> u = t
    BY <1>4, <1>5, <1>7, <2>2, Zenon
  <2> QED
    BY <1>1, <1>2, <1>3, <1>6, <2>3, <2>4, Zenon DEF WLock
<1>8. CASE inP'[t] = wLock
  <2>1. value[wLock] = 0 /\ value'[wLock] = 0
    BY <1>0, <1>8
  <2>2. \A u \in RW!Workers : HasWLock(u)' <=> HasWLock(u)
    BY <1>4, <1>5, <1>8
  <2> QED
    BY <1>1, <1>2, <1>3, <1>6, <1>a, <2>1, <2>2 DEF WLock
<1> QED
  BY <1>0, <1>7, <1>8

\* wLock->Release() of a writer or of the last reader.
LEMMA WLockLeft ==
    ASSUME RWInv, NEW t \in RW!Workers, NEW x \in {"begin", "last"},
           HasWLock(t), inP[t] = NoSem, RW!Sem!V(wLock), at' = [at EXCEPT ![t] = x],
           x = "begin" => t \in RW!Writers,
           x = "last" => InMutex(t) /\ Counted = {t}
    PROVE  /\ RWTypes' /\ Mutex' /\ WLock'
           /\ Counted' = Counted \ {t}
<1> USE RWThreads
<1>0. /\ \A u \in RW!Workers : u # t => at'[u] = at[u]
      /\ at'[t] = x /\ at' \in [RW!Workers -> ReaderLabels \cup WriterLabels] /\ value'[rwMutex] = value[rwMutex]
      /\ value' \in [RW!Locks -> Nat] /\ inP' = inP /\ value'[wLock] = value[wLock] + 1
  BY DEF RW!Sem!V, RWInv, RWTypes, ReaderLabels, WriterLabels
<1>1. RWTypes'
  BY <1>0 DEF RWInv, RWTypes, ReaderLabels, WriterLabels, InMutex
<1>2. Mutex'
  <2>0. \A u \in RW!Workers : u # t => (InMutex(u)' <=> InMutex(u))
    BY <1>0, Zenon DEF InMutex
  <2>1. \A u \in RW!Workers : InMutex(u)' <=> InMutex(u)
    <3>1. InMutex(t)' <=> InMutex(t)
      BY <1>0 DEF InMutex
    <3> QED
      BY <2>0, <3>1, Zenon
  <2>2. Mutex
    BY DEF RWInv
  <2> HIDE DEF InMutex
  <2> QED
    BY <1>0, <2>1, <2>2 DEF Mutex
<1>3. Counted' = Counted \ {t}
  BY <1>0 DEF Counted, RWInv
<1>4. \A u \in RW!Workers : u # t => ~HasWLock(u)
  BY DEF RWInv, WLock, HasWLock, Counted, InMutex
<1>5. \A u \in RW!Workers : ~HasWLock(u)'
  BY <1>0, <1>4 DEF HasWLock
<1>a. WLock
  BY DEF RWInv
<1>6. \A u \in RW!Readers : at'[u] = "first" => Counted' = {u}
  <2> SUFFICES ASSUME NEW u \in RW!Readers, at'[u] = "first" PROVE Counted' = {u}
    OBVIOUS
  <2>1. u # t /\ at[u] = "first"
    BY <1>0
  <2>2. Counted = {u}
    BY <1>a, <2>1 DEF WLock
  <2>3. t \notin Counted
    BY <2>1, <2>2
  <2> QED
    BY <1>3, <2>2, <2>3
<1>7. value[wLock] = 0
  BY <1>a DEF WLock
<1>8. value'[wLock] = 1
  BY <1>0, <1>7
<1>9. WLock'
  BY <1>5, <1>6, <1>8 DEF WLock
<1> QED
  BY <1>1, <1>2, <1>3, <1>9

\* The abort in Lock::Release leaves the locks as they are.
LEMMA RWQuiet ==
    ASSUME RWInv, UNCHANGED <<value, inP, at>>,
           UNCHANGED <<readerCount, aborted>> \/ aborted'
    PROVE  RWInv'
<1>1. value' = value /\ inP' = inP /\ at' = at /\ RWTypes /\ Mutex /\ WLock /\ CountOK
  BY DEF RWInv
<1>2. RWTypes'
  BY <1>1, Zenon DEF RWTypes
<1>3. \A u : InMutex(u)' <=> InMutex(u)
  BY <1>1, Zenon DEF InMutex
<1>4. \A u : HasWLock(u)' <=> HasWLock(u)
  BY <1>1, Zenon DEF HasWLock
<1>5. Counted' = Counted
  BY <1>1, Zenon DEF Counted
<1>6. Mutex'
  BY <1>1, <1>3, Zenon DEF Mutex
<1>7. WLock'
  BY <1>1, <1>4, <1>5, Zenon DEF WLock
<1>8. CountOK'
  BY <1>1, <1>5, Zenon DEF CountOK
<1> QED
  BY <1>2, <1>6, <1>7, <1>8 DEF RWInv

\* A section of a reader or a writer keeps the invariant.
LEMMA RWStep == \A t \in RW!Workers : RWInv /\ ~aborted /\ RW!Step(t) => RWInv'
<1> SUFFICES ASSUME NEW t \in RW!Workers, RWInv, ~aborted, RW!Step(t) PROVE RWInv'
  OBVIOUS
<1> USE RWThreads
<1>0. /\ readerCount = Cardinality(Counted) /\ IsFiniteSet(Counted)
      /\ t \in Threads /\ at \in [RW!Workers -> ReaderLabels \cup WriterLabels]
  BY FS_Subset DEF RWInv, CountOK, Counted, RWTypes
<1>a. /\ Cardinality(Counted) \in Nat
      /\ t \notin Counted => Cardinality(Counted \cup {t}) = Cardinality(Counted) + 1
      /\ t \in Counted => Cardinality(Counted \ {t}) = Cardinality(Counted) - 1
      /\ Cardinality(Counted) = 0 <=> Counted = {}
      /\ t \in Counted => (Cardinality(Counted) = 1 <=> Counted = {t})
  BY <1>0, CountChange
<1>1. CASE RW!Begin(t)
  <2>1. at[t] = "begin" /\ inP[t] = NoSem /\ UNCHANGED <<readerCount, aborted>>
    BY <1>1 DEF RW!Begin, RW!At, RW!Sem!Running
  <2>2. ~InMutex(t) /\ ~HasWLock(t)
    BY <2>1 DEF InMutex, HasWLock
  <2>3. CASE t \in RW!Readers
    <3>1. RW!Sem!TestValue(t, rwMutex) /\ at' = [at EXCEPT ![t] = "count"]
      BY <1>1, <2>3 DEF RW!Begin, RW!Goto, RW!Sem!P
    <3> QED
      BY <2>1, <2>2, <2>3, <3>1, MutexTest
  <2>4. CASE t \in RW!Writers
    <3>1. RW!Sem!TestValue(t, wLock) /\ at' = [at EXCEPT ![t] = "write"]
      BY <1>1, <2>4 DEF RW!Begin, RW!Goto, RW!Sem!P
    <3>2. RWTypes' /\ Mutex' /\ WLock' /\ Counted' = Counted
      BY <2>1, <2>2, <2>4, <3>1, WLockTest
    <3> QED
      BY <2>1, <3>2 DEF RWInv, CountOK
  <2> QED
    BY <2>3, <2>4
<1>2. CASE RW!Count(t)
  <2>1. /\ at[t] = "count" /\ inP[t] = NoSem /\ t \in RW!Readers /\ t \notin Counted
        /\ readerCount' = readerCount + 1
    BY <1>2 DEF RW!Count, RW!At, RW!Sem!Running, RWInv, RWTypes, WriterLabels, Counted
  <2>2. InMutex(t) /\ ~HasWLock(t)
    BY <2>1 DEF InMutex, HasWLock
  <2>3. CASE readerCount' = 1
    <3>1. /\ RW!Sem!TestValue(t, wLock) /\ at' = [at EXCEPT ![t] = "first"]
          /\ UNCHANGED aborted
      BY <1>2, <2>3 DEF RW!Count, RW!Goto, RW!Sem!P
    <3>2. Counted = {}
      BY <1>0, <1>a, <2>1, <2>3
    <3>3. RWTypes' /\ Mutex' /\ WLock' /\ Counted' = {t}
      BY <2>1, <2>2, <3>1, <3>2, WLockTest
    <3> QED
      BY <2>3, <3>1, <3>3, FS_Singleton DEF RWInv, CountOK
  <2>4. CASE aborted'
    BY <1>2, <2>4, RWQuiet DEF RW!Count, RW!Release
  <2>5. CASE readerCount' # 1 /\ ~aborted'
    <3>1. RW!Sem!V(rwMutex) /\ at' = [at EXCEPT ![t] = "read"]
      BY <1>2, <2>5 DEF RW!Count, RW!Release, RW!Goto
    <3>2. /\ RWTypes' /\ Mutex'
          /\ inP' = inP /\ value'[wLock] = value[wLock] /\ at'[t] = "read"
          /\ \A u \in RW!Workers : u # t => at'[u] = at[u] /\ (HasWLock(u)' <=> HasWLock(u))
      BY <2>1, <2>2, <3>1, MutexLeft
    <3>3. Counted' = Counted \cup {t}
      BY <2>1, <3>2 DEF Counted
    <3>4. PICK u \in Counted : TRUE
      BY <1>0, <1>a, <2>1, <2>5
    <3>5. HasWLock(u) /\ \A v \in RW!Readers : at[v] # "first"
      BY <2>1, <2>2 DEF RWInv, Mutex, InMutex, HasWLock, Counted, RWTypes
    <3>6. HasWLock(t)' /\ \A v \in RW!Readers : at'[v] # "first"
      BY <2>1, <3>2, <3>5 DEF HasWLock
    <3>7. WLock'
      <4>1. WLock /\ u \in RW!Readers /\ u \in RW!Workers
        BY <3>4 DEF RWInv, Counted
      <4>2. value[wLock] = 0 /\ \A v \in RW!Writers : ~HasWLock(v)
        BY <3>5, <4>1 DEF WLock
      <4>3. \A v \in RW!Writers : ~HasWLock(v)'
        BY <2>1, <3>2, <4>2
      <4> QED
        BY <2>1, <3>2, <3>6, <4>2, <4>3 DEF WLock
    <3> QED
      BY <1>0, <2>1, <3>2, <3>3, <3>7, <1>a DEF RWInv, CountOK
  <2> QED
    BY <2>3, <2>4, <2>5
<1>3. CASE RW!FirstReader(t)
  <2>1. /\ at[t] = "first" /\ inP[t] = NoSem /\ t \in RW!Readers
        /\ readerCount' = readerCount
    BY <1>3 DEF RW!FirstReader, RW!At, RW!Sem!Running, RWInv, RWTypes, WriterLabels
  <2>2. CASE aborted'
    BY <1>3, <2>2, RWQuiet DEF RW!FirstReader, RW!Release
  <2>3. CASE ~aborted'
    <3>1. RW!Sem!V(rwMutex) /\ at' = [at EXCEPT ![t] = "read"]
      BY <1>3, <2>3 DEF RW!FirstReader, RW!Release, RW!Goto
    <3>2. InMutex(t) /\ HasWLock(t) /\ Counted = {t}
      BY <2>1 DEF InMutex, HasWLock, RWInv, WLock
    <3>3. /\ RWTypes' /\ Mutex'
          /\ inP' = inP /\ value'[wLock] = value[wLock] /\ at'[t] = "read"
          /\ \A u \in RW!Workers : u # t => at'[u] = at[u] /\ (HasWLock(u)' <=> HasWLock(u))
      BY <2>1, <3>1, <3>2, MutexLeft
    <3>4. Counted' = Counted /\ HasWLock(t)'
      BY <2>1, <3>3 DEF Counted, HasWLock
    <3>5. \A v \in RW!Readers : at'[v] # "first"
      BY <3>2, <3>3 DEF Counted
    <3>6. WLock'
      BY <2>1, <3>2, <3>3, <3>4, <3>5 DEF RWInv, WLock
    <3> QED
      BY <1>0, <2>1, <3>3, <3>4, <3>6 DEF RWInv, CountOK
  <2> QED
    BY <2>2, <2>3
<1>4. CASE RW!Read(t)
  <2>1. /\ at[t] = "read" /\ inP[t] = NoSem /\ t \in RW!Readers
        /\ UNCHANGED <<readerCount, aborted>>
        /\ RW!Sem!TestValue(t, rwMutex) /\ at' = [at EXCEPT ![t] = "uncount"]
    BY <1>4 DEF RW!Read, RW!At, RW!Goto, RW!Sem!Running, RW!Sem!P, RWInv, RWTypes, WriterLabels
  <2> QED
    BY <2>1, MutexTest DEF InMutex
<1>5. CASE RW!Uncount(t)
  <2>1. /\ at[t] = "uncount" /\ inP[t] = NoSem /\ t \in RW!Readers /\ t \in Counted
        /\ readerCount' = readerCount - 1
    BY <1>5 DEF RW!Uncount, RW!At, RW!Sem!Running, RWInv, RWTypes, WriterLabels, Counted
  <2>2. InMutex(t) /\ HasWLock(t)
    BY <2>1 DEF InMutex, HasWLock
  <2>3. CASE aborted'
    BY <1>5, <2>3, RWQuiet DEF RW!Uncount, RW!Release
  <2>4. CASE readerCount' = 0 /\ ~aborted'
    <3>1. RW!Sem!V(wLock) /\ at' = [at EXCEPT ![t] = "last"]
      BY <1>5, <2>4 DEF RW!Uncount, RW!Release, RW!Goto
    <3>2. Counted = {t}
      BY <1>0, <1>a, <2>1, <2>4
    <3>3. RWTypes' /\ Mutex' /\ WLock' /\ Counted' = Counted \ {t}
      BY <2>1, <2>2, <3>1, <3>2, WLockLeft
    <3> QED
      BY <1>0, <2>1, <3>3, <1>a DEF RWInv, CountOK
  <2>5. CASE readerCount' # 0 /\ ~aborted'
    <3>1. RW!Sem!V(rwMutex) /\ at' = [at EXCEPT ![t] = "begin"]
      BY <1>5, <2>5 DEF RW!Uncount, RW!Release, RW!EndRound, RW!Goto
    <3>2. /\ RWTypes' /\ Mutex'
          /\ inP' = inP /\ value'[wLock] = value[wLock] /\ at'[t] = "begin"
          /\ \A u \in RW!Workers : u # t => at'[u] = at[u] /\ (HasWLock(u)' <=> HasWLock(u))
      BY <2>1, <2>2, <3>1, MutexLeft
    <3>c. Counted' = Counted \ {t}
      <4>1. \A u : u \in Counted' <=> u \in Counted /\ u # t
        BY <2>1, <3>2 DEF Counted
      <4> QED
        BY <4>1
    <3>f. \A v \in RW!Readers : at[v] # "first"
      BY <2>1, <2>2, SMTT(30) DEF RWInv, Mutex, InMutex, RWTypes
    <3>3. Counted' = Counted \ {t} /\ \A v \in RW!Readers : at[v] # "first"
      BY <3>c, <3>f
    <3>4. PICK u \in Counted : u # t
      BY <1>0, <1>a, <2>1, <2>5
    <3>5. HasWLock(u) /\ HasWLock(u)'
      BY <3>2, <3>3, <3>4 DEF HasWLock, Counted
    <3>6. \A v \in RW!Readers : at'[v] # "first"
      BY <3>2, <3>3
    <3>7. ~HasWLock(t)'
      BY <2>1, <3>2 DEF HasWLock
    <3>8. WLock'
      BY <2>1, <2>2, <3>2, <3>5, <3>6, <3>7 DEF RWInv, WLock, Counted
    <3> QED
      BY <1>0, <2>1, <3>2, <3>3, <3>8, <1>a DEF RWInv, CountOK
  <2> QED
    BY <2>3, <2>4, <2>5
<1>6. CASE RW!LastReader(t)
  <2>1. /\ at[t] = "last" /\ inP[t] = NoSem /\ t \in RW!Readers
        /\ readerCount' = readerCount
    BY <1>6 DEF RW!LastReader, RW!At, RW!Sem!Running, RWInv, RWTypes, WriterLabels
  <2>2. CASE aborted'
    BY <1>6, <2>2, RWQuiet DEF RW!LastReader, RW!Release
  <2>3. CASE ~aborted'
    <3>1. RW!Sem!V(rwMutex) /\ at' = [at EXCEPT ![t] = "begin"]
      BY <1>6, <2>3 DEF RW!LastReader, RW!Release, RW!EndRound, RW!Goto
    <3>2. InMutex(t) /\ ~HasWLock(t)
      BY <2>1 DEF InMutex, HasWLock
    <3>3. /\ RWTypes' /\ Mutex'
          /\ inP' = inP /\ value'[wLock] = value[wLock] /\ at'[t] = "begin"
          /\ \A u \in RW!Workers : u # t => at'[u] = at[u] /\ (HasWLock(u)' <=> HasWLock(u))
      BY <2>1, <3>1, <3>2, MutexLeft
    <3>4. Counted' = Counted /\ ~HasWLock(t)'
      BY <2>1, <3>3 DEF Counted, HasWLock
    <3>5. \A v \in RW!Readers : at'[v] = "first" => at[v] = "first"
      BY <3>3
    <3>6. WLock'
      BY <2>1, <3>2, <3>3, <3>4, <3>5 DEF RWInv, WLock
    <3> QED
      BY <1>0, <2>1, <3>3, <3>4, <3>6 DEF RWInv, CountOK
  <2> QED
    BY <2>2, <2>3
<1>7. CASE RW!Write(t)
  <2>1. /\ at[t] = "write" /\ inP[t] = NoSem /\ t \in RW!Writers
        /\ readerCount' = readerCount
    BY <1>7 DEF RW!Write, RW!At, RW!Sem!Running, RWInv, RWTypes, ReaderLabels
  <2>2. CASE aborted'
    BY <1>7, <2>2, RWQuiet DEF RW!Write, RW!Release
  <2>3. CASE ~aborted'
    <3>1. RW!Sem!V(wLock) /\ at' = [at EXCEPT ![t] = "begin"]
      BY <1>7, <2>3 DEF RW!Write, RW!Release, RW!EndRound, RW!Goto
    <3>2. HasWLock(t) /\ t \notin Counted
      BY <2>1 DEF HasWLock, Counted
    <3>3. RWTypes' /\ Mutex' /\ WLock' /\ Counted' = Counted \ {t}
      BY <2>1, <3>1, <3>2, WLockLeft
    <3> QED
      BY <1>0, <2>1, <3>2, <3>3 DEF RWInv, CountOK
  <2> QED
    BY <2>2, <2>3
<1>8. CASE RW!PAgain(t)
  <2>1. /\ inP[t] # NoSem /\ RW!Sem!TestValue(t, inP[t])
        /\ UNCHANGED <<readerCount, aborted, at>>
    BY <1>8 DEF RW!PAgain, RW!Sem!PAgain, RW!testVars
  <2>a. at' = [at EXCEPT ![t] = at[t]]
    BY <1>0, <2>1
  <2>2. CASE at[t] \in {"count", "uncount"}
    <3>1. inP[t] = rwMutex /\ t \in RW!Readers /\ ~InMutex(t)
      BY <2>1, <2>2 DEF RWInv, RWTypes, WriterLabels, InMutex
    <3> QED
      BY <2>1, <2>a, <2>2, <3>1, MutexTest
  <2>3. CASE at[t] = "write"
    <3>1. inP[t] = wLock /\ t \in RW!Writers /\ ~HasWLock(t)
      BY <2>1, <2>3 DEF RWInv, RWTypes, ReaderLabels, HasWLock
    <3>2. RWTypes' /\ Mutex' /\ WLock' /\ Counted' = Counted
      BY <2>1, <2>a, <2>3, <3>1, WLockTest
    <3> QED
      BY <1>0, <2>1, <3>2 DEF RWInv, CountOK
  <2>4. CASE at[t] = "first"
    <3>1. inP[t] = wLock /\ t \in RW!Readers /\ ~HasWLock(t) /\ InMutex(t) /\ Counted = {t}
      BY <2>1, <2>4 DEF RWInv, RWTypes, WriterLabels, HasWLock, InMutex, WLock
    <3>2. RWTypes' /\ Mutex' /\ WLock' /\ Counted' = {t}
      BY <2>1, <2>a, <2>4, <3>1, WLockTest
    <3> QED
      BY <1>0, <2>1, <3>1, <3>2 DEF RWInv, CountOK
  <2> QED
    BY <2>1, <2>2, <2>3, <2>4 DEF RWInv, RWTypes
<1>9. CASE RW!Finish(t)
  BY <1>9, RWQuiet DEF RW!Finish, RW!Sem!FinishThread, RW!Sem!semaphoreVars, RW!testVars
<1> QED
  BY <1>1, <1>2, <1>3, <1>4, <1>5, <1>6, <1>7, <1>8, <1>9 DEF RW!Step

\* Nobody reads or writes, and both locks are free.
LEMMA RWInit == RW!Init => RWInv
<1> SUFFICES ASSUME RW!Init PROVE RWInv
  OBVIOUS
<1> USE RWThreads
<1>0. /\ value = RW!InitialValue /\ inP = [t \in Threads |-> NoSem]
      /\ at = [t \in RW!Workers |-> "begin"] /\ readerCount = 0
  BY DEF RW!Init, RW!Sem!Init
<1>1. /\ RW!InitialValue \in [RW!Locks -> Nat]
      /\ RW!InitialValue[wLock] = 1 /\ RW!InitialValue[rwMutex] = 1
  BY DEF RW!InitialValue
<1>2. RWTypes
  BY <1>0, <1>1 DEF RWTypes, ReaderLabels, WriterLabels
<1>3. \A t \in RW!Workers : ~InMutex(t) /\ ~HasWLock(t)
  BY <1>0 DEF InMutex, HasWLock
<1>4. Counted = {} /\ Mutex /\ WLock
  BY <1>0, <1>1, <1>3 DEF Counted, Mutex, WLock
<1> QED
  BY <1>0, <1>2, <1>4, FS_EmptySet DEF RWInv, CountOK

\* A writer writes alone, and readerCount counts.
LEMMA RWAlone == RWInv => RW!WritersAlone /\ RW!CountIsExact
<1> SUFFICES ASSUME RWInv PROVE RW!WritersAlone /\ RW!CountIsExact
  OBVIOUS
<1> USE RWThreads
<1>1. \A t \in RW!Workers : RW!Writes(t) \/ RW!Reads(t) => HasWLock(t)
  BY DEF RW!Writes, RW!Reads, HasWLock
<1>2. RW!WritersAlone
  BY <1>1 DEF RW!WritersAlone, RW!Writes, RWInv, WLock
<1>3. (\E t \in RW!Readers : RW!Reads(t)) => value[wLock] = 0
  BY <1>1 DEF RWInv, WLock
<1>4. CASE aborted
  BY <1>2, <1>4 DEF RW!CountIsExact
<1>5. CASE ~aborted
  <2>1. readerCount = Cardinality(Counted)
    BY <1>5 DEF RWInv, CountOK
  <2>2. Counted = {t \in RW!Readers : at[t] \in {"first", "read", "uncount"}}
    BY DEF Counted
  <2> QED
    BY <1>2, <1>3, <2>1, <2>2 DEF RW!CountIsExact, RW!Cardinality, Cardinality
<1> QED
  BY <1>4, <1>5
=============================================================================
