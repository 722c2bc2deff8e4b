--------------------------- MODULE ContextSwitch ---------------------------
(***************************************************************************)
(* How a thread keeps its processor state: SWITCH and ThreadRoot of        *)
(* threads/switch.s for the x86, the machine that the makefile builds for, *)
(* and Thread::StackAllocate.                                              *)
(*                                                                         *)
(* A stack is an array of StackSize words, an address <<t, i>> the word i  *)
(* of the stack of thread t.  A value that C++ code computes names the     *)
(* register it is in and the thread, and is one of two.  C++ code keeps    *)
(* ebx, esi, edi and ebp for its caller, and may change eax, ecx and edx.  *)
(***************************************************************************)
EXTENDS Integers, Sequences

CONSTANTS
    Contexts,           \* the Thread objects, each with a stack of its own
    MainContext,        \* the one that Kernel::Initialize makes of the caller
    StackSize

ASSUME ContextAssumption ==
    /\ MainContext \in Contexts
    /\ StackSize \in Nat /\ StackSize >= 16

VARIABLES
    running, pc, reg,   \* the thread that runs, and the processor
    machineState,       \* stackTop and machineState of each Thread
    stack,              \* the stack of each thread
    calls,              \* what ThreadRoot has called, for each thread
    left                \* the registers with which each thread called SWITCH

switchVars == <<running, pc, reg, machineState, stack, calls, left>>

Preserved == {"ebx", "esi", "edi", "ebp"}
Scratch == {"eax", "ecx", "edx"}
Registers == Preserved \cup Scratch \cup {"esp"}

\* Values: what C++ code leaves in register r, and the argument of Fork.
Computed(r, t, v) == <<r, t, v>>
Arg(t) == <<"arg", t>>
Fencepost == <<"STACK_FENCEPOST">>
Garbage == <<"garbage">>

At(address, i) == stack[address[1]][address[2] + i]
Above(address, n) == <<address[1], address[2] + n>>

\* The stack and its pointer after the words have been pushed, the first one first
Push(s, address, words) ==
    LET n == Len(words)
    IN  [s EXCEPT ![address[1]] =
            [i \in DOMAIN @ |-> IF i \in address[2] - n .. address[2] - 1
                                THEN words[address[2] - i] ELSE @[i]]]
-----------------------------------------------------------------------------
\* Where StackAllocate leaves stackTop
StackTop == StackSize - 4 - 1

\* Thread::StackAllocate, the words that it writes and the saved registers
NewStack(t) ==
    [[i \in 0 .. StackSize - 1 |-> Garbage] EXCEPT ![StackTop] = "ThreadRoot",
                                                   ![0] = Fencepost]

\* The registers in which ThreadRoot expects what StackAllocate has saved
InitialState(t) ==
    [[r \in Registers \cup {"pc"} |-> Garbage] EXCEPT
        !["esp"] = <<t, StackTop>>, !["pc"] = "ThreadRoot", !["ecx"] = "ThreadBegin",
        !["esi"] = "func", !["edx"] = Arg(t), !["edi"] = "ThreadFinish"]

\* Every thread but main, which runs on the stack of the process, has been forked.
SwitchInit ==
    /\ running = MainContext
    /\ pc = "func"
    /\ reg = [r \in Registers |-> IF r = "esp" THEN <<MainContext, StackSize - 1>> ELSE Garbage]
    /\ machineState = [t \in Contexts |-> InitialState(t)]
    /\ stack = [t \in Contexts |-> NewStack(t)]
    /\ calls = [t \in Contexts |-> IF t = MainContext THEN <<"func">> ELSE <<>>]
    /\ left = [t \in Contexts |-> <<>>]

(***************************************************************************)
(* SWITCH(t1, t2): save the registers and the return address in t1, load   *)
(* those of t2, write the return address at 4(%esp) and return to the one  *)
(* at 0(%esp).  called is the stack on entry.                              *)
(***************************************************************************)
\* Mutant: edi is saved in the place of ebp too.
SavedRegistersMutated(t1, esp, own, called) ==
    [r \in Registers \cup {"pc"} |->
        IF r = "pc" THEN called[esp[1]][esp[2]]
        ELSE IF r = "esp" THEN esp ELSE IF r = "ebp" THEN own.edi ELSE own[r]]

SavedRegisters(t1, esp, own, called) ==
    [r \in Registers \cup {"pc"} |->
        IF r = "pc" THEN called[esp[1]][esp[2]] ELSE IF r = "esp" THEN esp ELSE own[r]]

SWITCH(t1, t2, esp, own, called) ==
    LET state == [machineState EXCEPT ![t1] = SavedRegisters(t1, esp, own, called)]
        new == state[t2]
    IN  /\ machineState' = state
        /\ reg' = [r \in Registers |-> IF r = "esp" THEN Above(new.esp, 1) ELSE new[r]]
        /\ stack' = [called EXCEPT ![new.esp[1]][new.esp[2] + 1] = new.pc]
        /\ pc' = called[new.esp[1]][new.esp[2]]
        /\ running' = t2

(***************************************************************************)
(* C++ code calls Scheduler::Run, which saves its caller's registers,      *)
(* computes and calls SWITCH.  A thread that finishes does not come back.  *)
(***************************************************************************)
InCode == pc \in {"ThreadBegin", "func", "ThreadFinish"}
Finished(t) == "ThreadFinish" \in {calls[t][i] : i \in DOMAIN calls[t]}

Run(t2, v) ==
    /\ InCode
    /\ ~Finished(t2)
    /\ LET own == [r \in Registers \ {"esp"} |-> Computed(r, running, v)]
           esp == Above(reg.esp, -8)
           called == Push(stack, reg.esp, <<pc, reg.ebx, reg.esi, reg.edi, reg.ebp,
                                            t2, running, "Run">>)
       IN  /\ SWITCH(running, t2, esp, own, called)
           /\ left' = [left EXCEPT ![running] = [r \in Preserved |-> own[r]]]
    /\ UNCHANGED calls

\* SWITCH has returned, and Run returns to its caller with the caller's registers.
RunReturns ==
    /\ pc = "Run"
    /\ pc' = At(reg.esp, 6)
    /\ reg' = [reg EXCEPT !.ebp = At(reg.esp, 2), !.edi = At(reg.esp, 3),
                          !.esi = At(reg.esp, 4), !.ebx = At(reg.esp, 5),
                          !.esp = Above(@, 7)]
    /\ UNCHANGED <<running, machineState, stack, calls, left>>

(***************************************************************************)
(* ThreadRoot: push ebp and the argument, call StartupPC, InitialPC and    *)
(* WhenDonePC.                                                             *)
(***************************************************************************)
CallNext(function, esp, pushed, next) ==
    /\ stack' = Push(stack, reg.esp, Append(pushed, next))
    /\ pc' = function
    /\ reg' = [reg EXCEPT !.esp = Above(@, -1 - Len(pushed)), !.ebp = esp]
    /\ calls' = [calls EXCEPT ![running] = Append(@, function)]
    /\ UNCHANGED <<running, machineState, left>>

ThreadRoot ==
    \/ /\ pc = "ThreadRoot"
       /\ CallNext(reg.ecx, Above(reg.esp, -1), <<reg.ebp, reg.edx>>, "begun")
    \/ /\ pc = "begun"
       /\ CallNext(reg.esi, reg.ebp, <<>>, "done")
    \/ /\ pc = "done"
       /\ CallNext(reg.edi, reg.ebp, <<>>, "unreached")

\* ThreadBegin or the thread's function returns to ThreadRoot.
Return ==
    /\ pc \in {"ThreadBegin", "func"} /\ running # MainContext
    /\ pc' = At(reg.esp, 0)
    /\ reg' = [[r \in Registers |-> IF r \in Scratch THEN Garbage ELSE reg[r]] EXCEPT
                   !["esp"] = Above(@, 1)]
    /\ UNCHANGED <<running, machineState, stack, calls, left>>

SwitchNext ==
    \/ \E t2 \in Contexts, v \in {0, 1} : Run(t2, v)
    \/ RunReturns \/ ThreadRoot \/ Return

SwitchSpec == SwitchInit /\ [][SwitchNext]_switchVars
-----------------------------------------------------------------------------
(***************************************************************************)
(* A thread that runs again finds the processor as it left it: the         *)
(* registers that its code relies on, and its own stack at the same        *)
(* depth.  A new thread begins, calls its function with its argument and   *)
(* finishes, in this order, however often it is switched out in between.   *)
(* No switch writes outside a stack or over its fencepost.                 *)
(***************************************************************************)
ContextIsKept ==
    /\ reg.esp[1] = running
    /\ pc = "Run" => \A r \in Preserved : reg[r] = left[running][r]
    /\ pc = "func" /\ running # MainContext => At(reg.esp, 1) = Arg(running)
    /\ InCode => pc = calls[running][Len(calls[running])]
    /\ \A t \in Contexts :
          /\ machineState[t].esp[1] = t
          /\ machineState[t].esp[2] \in 1 .. StackSize - 2
          /\ stack[t][0] = Fencepost
          /\ t # MainContext => \E n \in 0 .. 3 :
                            calls[t] = SubSeq(<<"ThreadBegin", "func", "ThreadFinish">>, 1, n)
=============================================================================
