------------------------- MODULE ProducerConsumer2 -------------------------
(***************************************************************************)
(* The second producer/consumer test, MyProducerConsumer2 with Produce1    *)
(* and Consume1 (threads/kernel.cc:304-320, 351-373), on a SynchList.      *)
(***************************************************************************)
EXTENDS Naturals, Sequences, FiniteSets

CONSTANTS Threads, Main, NoThread, NoSem, TheLock,
          producers, consumers,     \* the threads, in the order of forking
          PRODUCE_TIMES, CONSUME_TIMES

Items == 0..PRODUCE_TIMES - 1
NoItem == PRODUCE_TIMES
ForkOrder == producers \o consumers
Producers == {producers[k] : k \in DOMAIN producers}
Consumers == {consumers[k] : k \in DOMAIN consumers}
Workers == Producers \cup Consumers
Limit(t) == IF t \in Producers THEN PRODUCE_TIMES ELSE CONSUME_TIMES

VARIABLES cur, ready, blocked, value, queue, inP, lockHolder, waitQueue, at,
          list, op, item, aborted,
          i,            \* i[t]: calls of Append or RemoveFront t has made
          consumed      \* what RemoveFront returned, in order

\* The semaphores of the list's lock and of its waiters (see Monitor.tla).
Sems == Threads \cup {TheLock}
InitialValue == [s \in Sems |-> IF s = TheLock THEN 1 ELSE 0]

SL == INSTANCE SynchList

TypeOK ==
    /\ SL!SynchListTypeOK
    /\ \A t \in Workers : i[t] \in 0..Limit(t)
    /\ consumed \in Seq(Items)

Init ==
    /\ SL!SynchListInit
    /\ i = [t \in Workers |-> 0]
    /\ consumed = <<>>
-----------------------------------------------------------------------------
\* produceList->Append(i).
Produce1(t) ==
    /\ t \in Producers /\ i[t] < Limit(t)
    /\ SL!Call(t, "Append", i[t])
    /\ i' = [i EXCEPT ![t] = @ + 1]
    /\ UNCHANGED consumed

\* produceList->RemoveFront().
Consume1(t) ==
    /\ t \in Consumers /\ i[t] < Limit(t)
    /\ SL!Call(t, "RemoveFront", NoItem)
    /\ i' = [i EXCEPT ![t] = @ + 1]
    /\ UNCHANGED consumed

\* The rest of the call.
Continue(t) ==
    /\ SL!Step(t)
    /\ consumed' = IF op[t] = "RemoveFront" /\ op'[t] = "none"
                   THEN Append(consumed, Head(list)) ELSE consumed
    /\ UNCHANGED i

Finish(t) ==
    /\ op[t] = "none" /\ i[t] = Limit(t)
    /\ SL!FinishCaller(t)
    /\ UNCHANGED <<list, op, item, aborted, i, consumed>>

Step(t) == Produce1(t) \/ Consume1(t) \/ Continue(t) \/ Finish(t)
-----------------------------------------------------------------------------
\* Everything was produced and consumed, in order.
AllConsumed == consumed = [k \in 1..PRODUCE_TIMES |-> k - 1]
=============================================================================
