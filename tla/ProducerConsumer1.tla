------------------------- MODULE ProducerConsumer1 -------------------------
(***************************************************************************)
(* The first producer/consumer test, MyProducerConsumer1 with Produce and  *)
(* Consume (threads/kernel.cc:278-302, 322-349): two counting semaphores   *)
(* and a lock around an array that is filled once, never as a ring.        *)
(*                                                                         *)
(* at[t] is the call t makes next; see Monitor.tla for sections that end   *)
(* in a P or a V.                                                          *)
(***************************************************************************)
EXTENDS Integers, Sequences, FiniteSets

CONSTANTS Threads, Main, NoThread, NoSem,
          isFull, isEmpty, produceArrayLock,
          MAX_PRODUCE_ARRAY_NUM,
          producers, consumers,     \* the threads, in the order of forking
          PRODUCE_TIMES, CONSUME_TIMES

Sems == {isFull, isEmpty, produceArrayLock}

InitialValue == [s \in Sems |-> CASE s = isFull -> 0
                                  [] s = isEmpty -> MAX_PRODUCE_ARRAY_NUM
                                  [] OTHER -> 1]

ForkOrder == producers \o consumers
Producers == {producers[k] : k \in DOMAIN producers}
Consumers == {consumers[k] : k \in DOMAIN consumers}

VARIABLES cur, ready, blocked, value, queue, inP,
          high, low, produceArray,
          i,            \* i[t]: the loop variable
          consumed,     \* what was consumed, in order
          at

Sem == INSTANCE Semaphore

testVars == <<high, low, produceArray, i, consumed, at>>

Workers == Producers \cup Consumers
Limit(t) == IF t \in Producers THEN PRODUCE_TIMES ELSE CONSUME_TIMES
Indices == 0..MAX_PRODUCE_ARRAY_NUM - 1

TypeOK ==
    /\ Sem!TypeOK
    /\ high \in Nat /\ low \in Nat \cup {-1}
    /\ produceArray \in [Indices -> Int]
    /\ \A t \in Workers : i[t] \in 0..Limit(t)
    /\ consumed \in Seq(Int)
    /\ at \in [Workers -> {"P", "Acquire", "access", "V"}]

Init ==
    /\ Sem!Init
    /\ high = 0 /\ low = -1
    /\ produceArray = [k \in Indices |-> -1]
    /\ i = [t \in Workers |-> 0]
    /\ consumed = <<>>
    /\ at = [t \in Workers |-> "P"]
-----------------------------------------------------------------------------
Goto(t, label) == at' = [at EXCEPT ![t] = label]

\* Mutant: the two semaphores are swapped.
WaitTurnSwapped(t) ==
    /\ at[t] = "P" /\ i[t] < Limit(t)
    /\ Sem!P(t, IF t \in Producers THEN isFull ELSE isEmpty)
    /\ Goto(t, "Acquire")
    /\ UNCHANGED <<high, low, produceArray, i, consumed>>

\* isEmpty->P() of a producer, isFull->P() of a consumer.
WaitTurn(t) ==
    /\ at[t] = "P" /\ i[t] < Limit(t)
    /\ Sem!P(t, IF t \in Producers THEN isEmpty ELSE isFull)
    /\ Goto(t, "Acquire")
    /\ UNCHANGED <<high, low, produceArray, i, consumed>>

\* produceArrayLock->Acquire().
Acquire(t) ==
    /\ at[t] = "Acquire"
    /\ Sem!P(t, produceArrayLock)
    /\ Goto(t, "access")
    /\ UNCHANGED <<high, low, produceArray, i, consumed>>

\* The code under the lock, to the end of Release.  lockHolder is assigned,
\* asserted and cleared within this one section, so it is left out.
Produce(t) ==
    /\ t \in Producers /\ at[t] = "access" /\ Sem!Running(t)
    /\ produceArray' = [produceArray EXCEPT ![high] = i[t]]
    /\ high' = high + 1
    /\ Sem!V(produceArrayLock)
    /\ Goto(t, "V")
    /\ UNCHANGED <<low, i, consumed>>

Consume(t) ==
    /\ t \in Consumers /\ at[t] = "access" /\ Sem!Running(t)
    /\ low' = low + 1
    /\ consumed' = Append(consumed, produceArray[low + 1])
    /\ Sem!V(produceArrayLock)
    /\ Goto(t, "V")
    /\ UNCHANGED <<high, produceArray, i>>

\* isFull->V() of a producer, isEmpty->V() of a consumer; the next round.
PassTurn(t) ==
    /\ at[t] = "V" /\ Sem!Running(t)
    /\ Sem!V(IF t \in Producers THEN isFull ELSE isEmpty)
    /\ i' = [i EXCEPT ![t] = @ + 1]
    /\ Goto(t, "P")
    /\ UNCHANGED <<high, low, produceArray, consumed>>

PAgain(t) == Sem!PAgain(t) /\ UNCHANGED testVars

Finish(t) ==
    /\ at[t] = "P" /\ i[t] = Limit(t) /\ Sem!Running(t)
    /\ Sem!FinishThread
    /\ UNCHANGED testVars

Step(t) ==
    \/ WaitTurn(t) \/ Acquire(t) \/ Produce(t) \/ Consume(t) \/ PassTurn(t)
    \/ PAgain(t) \/ Finish(t)
-----------------------------------------------------------------------------
(***************************************************************************)
(* Properties.                                                             *)
(***************************************************************************)
Accesses(t) == at[t] = "access" /\ inP[t] = NoSem

\* produceArray is not a ring: nothing brings high back to 0.  A producer
\* never writes past its end and a consumer never reads an element that was
\* not produced, whichever threads the semaphores let in first.
InBounds ==
    /\ \A t \in Producers : Accesses(t) => high < MAX_PRODUCE_ARRAY_NUM
    /\ \A t \in Consumers : Accesses(t) => low + 1 < high

\* Everything was produced and consumed, in order.
AllConsumed ==
    /\ consumed = [k \in 1..MAX_PRODUCE_ARRAY_NUM |-> produceArray[k - 1]]
    /\ \A k \in Indices : produceArray[k] # -1
=============================================================================
