----------------------------- MODULE Components -----------------------------
(***************************************************************************)
(* The building blocks of the kernel, each driven by callers that call     *)
(* its operations in any order: "switch" is ContextSwitch.tla, "monitor"   *)
(* Lock and Condition (Monitor.tla), "synchlist" class SynchList on top of *)
(* them, "list" LinkedList.tla, "hash" HashTable.tla, "bitmap" Bitmap.tla. *)
(* part says which one a behaviour is about.  The variables of the others  *)
(* are absent, or stay as they are in the initial state of the component.  *)
(* The caller of a list, a hash table or a bitmap may be its SelfTest.     *)
(***************************************************************************)
EXTENDS ContextSwitch, SynchList

CONSTANTS ListItems, ListKey, Elements, NULL, listTestVector,
          HashItems, KeyOf, Hash, InitialBuckets, ResizeRatio, IncreaseSizeBy,
          hashTestVector,
          NumBits, BitsInWord

ASSUME ComponentsAssumption ==
    /\ NoItem \notin Items
    /\ NULL \notin Elements \cup HashItems
    /\ ListKey \in [ListItems -> Int]
    /\ {InitialBuckets, ResizeRatio, NumBits, BitsInWord} \subseteq Nat \ {0}

VARIABLES part, step,
          sorted, first, last, numInList, next, element, allocated, result,
          buckets, numItems, iter, map, file, answer

LL == INSTANCE LinkedList WITH Items <- ListItems, Key <- ListKey, item <- element
HT == INSTANCE HashTable WITH Items <- HashItems, Nil <- NULL
BM == INSTANCE Bitmap

linkedListVars == <<sorted, first, last, numInList, next, element, allocated, result>>
hashVars == <<buckets, numItems, iter>>
bitmapVars == <<map, file>>
libVars == <<linkedListVars, hashVars, bitmapVars, answer>>
componentVars == <<part, step, switchVars, synchListVars, libVars>>

-----------------------------------------------------------------------------
(***************************************************************************)
(* LibSelfTest of lib/libtest.cc: the SelfTests of List, SortedList,       *)
(* HashTable and Bitmap, as sequences of the operations that they call.    *)
(* step is the number of calls made.  What the SelfTests assert after a    *)
(* call is a predicate on the state that the call leaves.                  *)
(***************************************************************************)
Calling(name, arg) == [op |-> name, arg |-> arg]
ForAll(name, vector) == [k \in DOMAIN vector |-> Calling(name, vector[k])]

\* Call number step + 1 of a test is of name, for an argument it is called with.
Calls(test, name, arg) ==
    /\ step < Len(test)
    /\ test[step + 1] = Calling(name, arg)
    /\ step' = step + 1
-----------------------------------------------------------------------------
\* List::SelfTest, and what SortedList::SelfTest adds to it
ListTest ==
    ForAll("Append", listTestVector) \o ForAll("Remove", listTestVector)
    \o IF sorted THEN ForAll("Append", listTestVector) \o ForAll("RemoveFront", listTestVector)
                 ELSE <<>>

ListStep ==
    /\ \E x \in ListItems :
          \/ /\ Calls(ListTest, "Append", x)
             /\ \E e \in Elements : IF sorted THEN LL!Insert(e, x) ELSE LL!AppendItem(e, x)
          \/ Calls(ListTest, "Remove", x) /\ LL!RemoveItem(x)
          \/ Calls(ListTest, "RemoveFront", x) /\ LL!RemoveFront
    /\ UNCHANGED sorted

ListAsserts ==
    LET done == ListTest[step]
    IN  CASE step = 0 -> numInList = 0 /\ first = NULL
          [] step > 0 /\ done.op = "Append" -> LL!IsInList(done.arg) /\ numInList # 0
          [] step > 0 /\ done.op = "Remove" -> ~LL!IsInList(done.arg)
          [] step > 0 /\ done.op = "RemoveFront" ->
                /\ ~LL!IsInList(result)
                /\ \A k \in DOMAIN LL!Contents : ListKey[result] <= ListKey[LL!Contents[k]]
-----------------------------------------------------------------------------
\* HashTable::SelfTest
HashTest ==
    <<Calling("Iterate", NULL), Calling("EndIteration", NULL)>>
    \o ForAll("Insert", hashTestVector) \o ForAll("Remove", hashTestVector)

HashStep ==
    \/ Calls(HashTest, "Iterate", NULL) /\ HT!Iterate
    \/ Calls(HashTest, "EndIteration", NULL) /\ HT!EndIteration
    \/ \E x \in HashItems :
          \/ Calls(HashTest, "Insert", x) /\ HT!Insert(x)
          \/ Calls(HashTest, "Remove", x) /\ HT!RemoveKey(KeyOf[x])

HashAsserts ==
    LET done == HashTest[step]
    IN  CASE step = 0 -> numItems = 0
          [] step > 0 /\ done.op = "Iterate" -> HT!IsDone
          [] step > 0 /\ done.op = "EndIteration" -> TRUE
          [] step > 0 /\ done.op = "Insert" -> HT!Found(KeyOf[done.arg]) # NULL /\ numItems # 0
          [] step > 0 /\ done.op = "Remove" -> answer = done.arg
-----------------------------------------------------------------------------
\* Bitmap::SelfTest, where 31 is the last bit of the first word.  The argument
\* of FindAndSet and NumClear is the result that is expected.
AllBits == [k \in 1 .. NumBits |-> k - 1]
BitmapTest ==
    <<Calling("NumClear", NumBits), Calling("FindAndSet", 0), Calling("Mark", BitsInWord - 1),
      Calling("Test", 0), Calling("Test", BitsInWord - 1), Calling("FindAndSet", 1),
      Calling("Clear", 0), Calling("Clear", 1), Calling("Clear", BitsInWord - 1)>>
    \o ForAll("Mark", AllBits) \o <<Calling("FindAndSet", -1)>> \o ForAll("Clear", AllBits)

BitmapStep ==
    \/ \E i \in -1 .. NumBits : Calls(BitmapTest, "NumClear", i) /\ BM!NumClear
    \/ \E i \in -1 .. NumBits : Calls(BitmapTest, "FindAndSet", i) /\ BM!FindAndSet
    \/ \E i \in BM!Bits :
          \/ Calls(BitmapTest, "Mark", i) /\ BM!Mark(i)
          \/ Calls(BitmapTest, "Clear", i) /\ BM!Clear(i)
          \/ Calls(BitmapTest, "Test", i) /\ BM!Ask(i)

BitmapAsserts ==
    step > 0 /\ BitmapTest[step].op \in {"NumClear", "FindAndSet", "Test"}
        => answer = BitmapTest[step].arg
-----------------------------------------------------------------------------
\* The assertions of the SelfTests, and those that Append, Remove, Insert and
\* RemoveFront make of their caller: a test that is not over has a next call.
ListTestPasses ==
    /\ ListAsserts
    /\ IF step = Len(ListTest) THEN numInList = 0 ELSE ENABLED ListStep
HashTestPasses ==
    /\ HashAsserts
    /\ IF step = Len(HashTest) THEN numItems = 0 ELSE ENABLED HashStep
BitmapTestPasses == BitmapAsserts
-----------------------------------------------------------------------------
Absent(x) == x = <<>>

NoList ==
    /\ Absent(sorted) /\ Absent(first) /\ Absent(last) /\ Absent(numInList)
    /\ Absent(next) /\ Absent(element) /\ Absent(allocated) /\ Absent(result)
NoHash == Absent(buckets) /\ Absent(numItems) /\ Absent(iter)
NoBitmap == Absent(map) /\ Absent(file)

\* step is the number of calls that a SelfTest has made.
AnyCaller == -1
IsSelfTest == step # AnyCaller

Start(name, callers) == part = name /\ step \in callers

ComponentsInit ==
    /\ SwitchInit /\ SynchListInit
    /\ \/ /\ \E name \in {"switch", "monitor", "synchlist"} : Start(name, {AnyCaller})
          /\ NoList /\ NoHash /\ NoBitmap /\ Absent(answer)
       \/ /\ Start("list", {AnyCaller, 0}) /\ LL!Init
          /\ NoHash /\ NoBitmap /\ Absent(answer)
       \/ /\ Start("hash", {AnyCaller, 0}) /\ HT!Init
          /\ NoList /\ NoBitmap
       \/ /\ Start("bitmap", {AnyCaller, 0}) /\ BM!Init
          /\ NoList /\ NoHash

UseSwitch ==
    /\ part = "switch" /\ SwitchNext
    /\ UNCHANGED <<part, step, synchListVars, libVars>>
UseMonitor ==
    /\ part = "monitor" /\ MonitorNext
    /\ UNCHANGED <<part, step, switchVars, listVars, libVars>>
UseSynchList ==
    /\ part = "synchlist" /\ SynchListNext
    /\ UNCHANGED <<part, step, switchVars, libVars>>
UseList ==
    /\ part = "list"
    /\ \/ ~IsSelfTest /\ LL!Next /\ UNCHANGED step
       \/ IsSelfTest /\ ListStep
    /\ UNCHANGED <<part, switchVars, synchListVars, hashVars, bitmapVars, answer>>
UseHash ==
    /\ part = "hash"
    /\ \/ ~IsSelfTest /\ HT!Next /\ UNCHANGED step
       \/ IsSelfTest /\ HashStep
    /\ UNCHANGED <<part, switchVars, synchListVars, linkedListVars, bitmapVars>>
UseBitmap ==
    /\ part = "bitmap"
    /\ \/ ~IsSelfTest /\ BM!Next /\ UNCHANGED step
       \/ IsSelfTest /\ BitmapStep
    /\ UNCHANGED <<part, switchVars, synchListVars, linkedListVars, hashVars>>

ComponentsNext ==
    UseSwitch \/ UseMonitor \/ UseSynchList \/ UseList \/ UseHash \/ UseBitmap

ComponentsSpec == ComponentsInit /\ [][ComponentsNext]_componentVars
-----------------------------------------------------------------------------
(***************************************************************************)
(* Properties.  Those of the first three parts are in their modules:       *)
(* ContextIsKept, MutualExclusion, WaiterSemaphores, ImplementsMesaMonitor *)
(* and NoItemStranded hold in all of them.                                 *)
(***************************************************************************)
\* The SanityChecks of List and HashTable hold after every operation: no
\* element is lost, cut off or counted twice, no item is in a bucket in
\* which Find would not look for it.  No assertion of the SelfTests fails,
\* and none of their calls fails one of the operation's own.
SanityCheck ==
    /\ part = "list" => LL!SanityCheck /\ (IsSelfTest => ListTestPasses)
    /\ part = "hash" => HT!SanityCheck /\ (IsSelfTest => HashTestPasses)
    /\ part = "bitmap" /\ IsSelfTest => BitmapTestPasses

\* Read along the pointers, every operation does to the list what its
\* comment says, whatever was inserted and removed before.  A SortedList
\* stays sorted, and items that compare equal stay in the order in which
\* they were inserted (the scheduler relies on it for threads of the same
\* priority, CheckIfDue for interrupts due at the same time).
L == INSTANCE ItemList WITH
        Items <- ListItems, Key <- ListKey,
        sorted <- part = "list" /\ sorted,
        items <- IF part = "list" THEN LL!Contents ELSE <<>>,
        result <- IF part = "list" THEN result ELSE CHOOSE x \in ListItems : TRUE

ImplementsItemList == L!ListSpec

\* A HashTable and a Bitmap are sets: Find, Test and NumClear answer for what
\* was put in and not taken out since, across ReHash and across WriteBack
\* and FetchFrom; an iterator shows every item once; FindAndSet gives out
\* the lowest free bit, and never one past the end of the bitmap.
H == INSTANCE ItemTable WITH
        Items <- HashItems, None <- NULL,
        contents <- IF part = "hash" THEN HT!AllItems ELSE {},
        saved <- {},
        unvisited <- IF part = "hash" THEN HT!Ahead ELSE {},
        answer <- IF part = "hash" THEN answer ELSE NULL
B == INSTANCE ItemTable WITH
        Items <- BM!Bits, KeyOf <- [i \in BM!Bits |-> i], None <- 0 - 1,
        contents <- IF part = "bitmap" THEN BM!BitsOf(map) ELSE {},
        saved <- IF part = "bitmap" THEN BM!BitsOf(file) ELSE {},
        unvisited <- {},
        answer <- IF part = "bitmap" THEN answer ELSE 0 - 1

ImplementsItemTable == H!TableSpec /\ B!TableSpec
=============================================================================
