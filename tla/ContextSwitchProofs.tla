------------------------ MODULE ContextSwitchProofs ------------------------
(***************************************************************************)
(* SWITCH and ThreadRoot keep the context of every thread, for any number  *)
(* of threads and any stack of at least 16 words.                          *)
(***************************************************************************)
EXTENDS ContextSwitch, TLAPS

(***************************************************************************)
(* The inductive invariant: the layout of every stack.                     *)
(***************************************************************************)
IsFcn(f, D) == f = [x \in D |-> f[x]]

Cells == 0 .. StackSize - 1

\* The stack pointer of t while its C++ code runs.
Base(t) == IF t = MainContext THEN StackSize - 1 ELSE StackTop - 2

\* What ThreadRoot may have called for t.
Histories(t) ==
    IF t = MainContext THEN {<<"func">>}
    ELSE {<<>>, <<"ThreadBegin">>, <<"ThreadBegin", "func">>,
          <<"ThreadBegin", "func", "ThreadFinish">>}

\* The words below which the code of t runs: ThreadRoot's return address and
\* the argument.  s is the stack of t, c the calls.
Held(t, s, c) ==
    t # MainContext =>
        /\ s[Base(t) + 1] = Arg(t)
        /\ Len(c) = 1 => s[Base(t)] = "begun"
        /\ Len(c) = 2 => s[Base(t)] = "done"

\* The registers that ThreadRoot relies on for its next calls.
Keeps(t, c, esi, edi) ==
    t # MainContext => /\ Len(c) = 1 => esi = "func"
                       /\ Len(c) < 3 => edi = "ThreadFinish"

\* The words in which Run keeps the registers and the code of its caller.
Frame(t, s, c) ==
    /\ c # <<>>
    /\ s[Base(t) - 1] = c[Len(c)]
    /\ Held(t, s, c)
    /\ Keeps(t, c, s[Base(t) - 3], s[Base(t) - 4])

\* t has not run yet.
New(t, m, s, c) ==
    /\ t # MainContext /\ c = <<>>
    /\ m = InitialState(t)
    /\ s[StackTop] = "ThreadRoot"

\* t is in SWITCH, with its machineState m and the registers l that it left.
Out(t, m, s, l, c) ==
    /\ m["esp"] = <<t, Base(t) - 8>> /\ m["pc"] = "Run"
    /\ s[Base(t) - 8] = "Run"
    /\ \A r \in Preserved : m[r] = l[r]
    /\ Frame(t, s, c)

Away(t, m, s, l, c) == New(t, m, s, c) \/ Out(t, m, s, l, c)

\* The processor, with t on it.
Fresh(t) ==
    /\ pc = "ThreadRoot" /\ t # MainContext /\ calls[t] = <<>>
    /\ reg["esp"] = <<t, StackTop + 1>>
    /\ reg["ecx"] = "ThreadBegin" /\ reg["esi"] = "func"
    /\ reg["edx"] = Arg(t) /\ reg["edi"] = "ThreadFinish"

Switched(t) ==
    /\ pc = "Run"
    /\ reg["esp"] = <<t, Base(t) - 7>>
    /\ Frame(t, stack[t], calls[t])
    /\ \A r \in Preserved : reg[r] = left[t][r]

Executes(t) ==
    /\ InCode
    /\ reg["esp"] = <<t, Base(t)>>
    /\ calls[t] # <<>> /\ pc = calls[t][Len(calls[t])]
    /\ Held(t, stack[t], calls[t])
    /\ Keeps(t, calls[t], reg["esi"], reg["edi"])

Between(t) ==
    /\ t # MainContext
    /\ \/ pc = "begun" /\ calls[t] = <<"ThreadBegin">>
       \/ pc = "done" /\ calls[t] = <<"ThreadBegin", "func">>
    /\ reg["esp"] = <<t, Base(t) + 1>>
    /\ stack[t][Base(t) + 1] = Arg(t)
    /\ Keeps(t, calls[t], reg["esi"], reg["edi"])

OnProcessor(t) == Fresh(t) \/ Switched(t) \/ Executes(t) \/ Between(t)

Shapes ==
    /\ running \in Contexts
    /\ IsFcn(reg, Registers) /\ IsFcn(machineState, Contexts)
    /\ IsFcn(stack, Contexts) /\ IsFcn(calls, Contexts) /\ IsFcn(left, Contexts)
    /\ \A t \in Contexts :
          /\ IsFcn(stack[t], Cells)
          /\ stack[t][0] = Fencepost
          /\ machineState[t]["esp"] \in {<<t, StackTop>>, <<t, Base(t) - 8>>}
          /\ calls[t] \in Histories(t)

ContextInv ==
    /\ Shapes
    /\ OnProcessor(running)
    /\ \A t \in Contexts \ {running} : Away(t, machineState[t], stack[t], left[t], calls[t])
-----------------------------------------------------------------------------
\* Where the words of a stack are.
LEMMA Places ==
    /\ StackSize \in Nat /\ StackTop \in Nat /\ StackTop = StackSize - 5
    /\ \A t : Base(t) \in Nat /\ Base(t) >= 9 /\ Base(t) <= StackSize - 1
    /\ \A t : t # MainContext => Base(t) = StackTop - 2
  BY ContextAssumption DEF StackTop, Base

\* The words that are pushed on a stack, the first one at b - 1.
Pushed(row, b, words) ==
    [i \in Cells |-> IF i \in b - Len(words) .. b - 1 THEN words[b - i] ELSE row[i]]

LEMMA PushIs ==
    ASSUME NEW s, IsFcn(s, Contexts), NEW t \in Contexts, IsFcn(s[t], Cells),
           NEW b \in Nat, NEW a, a[1] = t, a[2] = b,
           NEW words, Len(words) \in Nat, NEW n, n = Push(s, a, words)
    PROVE  /\ IsFcn(n, Contexts) /\ IsFcn(n[t], Cells)
           /\ \A u \in Contexts \ {t} : n[u] = s[u]
           /\ n[t] = Pushed(s[t], b, words)
<1>1. DOMAIN s = Contexts /\ DOMAIN s[t] = Cells
  BY DEF IsFcn
<1>2. n = [s EXCEPT ![t] = Pushed(s[t], b, words)]
  BY <1>1 DEF Push, Pushed
<1>3. IsFcn(Pushed(s[t], b, words), Cells)
  BY DEF Pushed, IsFcn
<1>4. n[t] = Pushed(s[t], b, words) /\ \A u \in Contexts \ {t} : n[u] = s[u]
  BY <1>1, <1>2
<1>5. IsFcn(n, Contexts)
  BY <1>1, <1>2 DEF IsFcn
<1> QED
  BY <1>3, <1>4, <1>5

\* The words that Run pushes.
LEMMA RunPushes ==
    ASSUME NEW s, IsFcn(s, Contexts), NEW t \in Contexts, IsFcn(s[t], Cells),
           NEW b \in Nat, b >= 9, b <= StackSize - 1, StackSize \in Nat,
           NEW a, a[1] = t, a[2] = b,
           NEW words, Len(words) = 8, NEW n, n = Push(s, a, words)
    PROVE  /\ IsFcn(n, Contexts) /\ IsFcn(n[t], Cells)
           /\ \A u \in Contexts \ {t} : n[u] = s[u]
           /\ n[t][0] = s[t][0]
           /\ \A j \in b .. StackSize - 1 : n[t][j] = s[t][j]
           /\ n[t][b - 1] = words[1] /\ n[t][b - 3] = words[3]
           /\ n[t][b - 4] = words[4] /\ n[t][b - 8] = words[8]
<1>1. /\ IsFcn(n, Contexts) /\ IsFcn(n[t], Cells)
      /\ n[t] = Pushed(s[t], b, words)
      /\ \A u \in Contexts \ {t} : n[u] = s[u]
  BY PushIs
<1>2. \A j \in 0 .. StackSize - 1 :
         n[t][j] = IF j \in b - 8 .. b - 1 THEN words[b - j] ELSE s[t][j]
  BY <1>1 DEF Cells, Pushed
<1>3. n[t][0] = s[t][0] /\ \A j \in b .. StackSize - 1 : n[t][j] = s[t][j]
  BY <1>2
<1>4. /\ n[t][b - 1] = words[1] /\ n[t][b - 3] = words[3]
      /\ n[t][b - 4] = words[4] /\ n[t][b - 8] = words[8]
  <2>1. \A k \in 1 .. 8 : /\ b - k \in 0 .. StackSize - 1 /\ b - k \in b - 8 .. b - 1
                          /\ b - (b - k) = k
    OBVIOUS
  <2>2. \A k \in 1 .. 8 : n[t][b - k] = words[k]
    BY <1>2, <2>1
  <2> QED
    BY <2>2
<1> QED
  BY <1>1, <1>3, <1>4

\* The initial states.
LEMMA ContextInit == SwitchInit => ContextInv
<1> SUFFICES ASSUME SwitchInit PROVE ContextInv
  OBVIOUS
<1> USE DEF SwitchInit
<1>1. MainContext \in Contexts
  BY ContextAssumption
<1>2. ASSUME NEW t \in Contexts
      PROVE  /\ IsFcn(stack[t], Cells)
             /\ stack[t][0] = Fencepost /\ stack[t][StackTop] = "ThreadRoot"
             /\ machineState[t]["esp"] = <<t, StackTop>>
  <2>1. stack[t] = NewStack(t) /\ machineState[t] = InitialState(t)
    OBVIOUS
  <2>2. 0 \in 0 .. StackSize - 1 /\ StackTop \in 0 .. StackSize - 1 /\ StackTop # 0
    BY ContextAssumption DEF StackTop
  <2>3. NewStack(t)[0] = Fencepost /\ NewStack(t)[StackTop] = "ThreadRoot"
    BY <2>2 DEF NewStack
  <2>4. IsFcn(NewStack(t), Cells)
    BY DEF NewStack, IsFcn, Cells
  <2>5. InitialState(t)["esp"] = <<t, StackTop>>
    BY DEF InitialState, Registers
  <2> QED
    BY <2>1, <2>3, <2>4, <2>5
<1>3. \A t \in Contexts : calls[t] \in Histories(t)
  BY DEF Histories
<1>4. IsFcn(reg, Registers) /\ IsFcn(machineState, Contexts)
  BY DEF IsFcn
<1>5. IsFcn(stack, Contexts) /\ IsFcn(calls, Contexts) /\ IsFcn(left, Contexts)
  BY DEF IsFcn
<1>6. Shapes
  BY <1>1, <1>2, <1>3, <1>4, <1>5 DEF Shapes
<1>7. Executes(MainContext)
  <2>1. reg["esp"] = <<MainContext, Base(MainContext)>>
    BY DEF Registers, Base
  <2>2. calls[MainContext] = <<"func">>
    BY <1>1
  <2>3. <<"func">> # <<>> /\ Len(<<"func">>) = 1 /\ <<"func">>[1] = "func"
    OBVIOUS
  <2>4. Held(MainContext, stack[MainContext], <<"func">>)
    BY DEF Held
  <2>5. Keeps(MainContext, <<"func">>, reg["esi"], reg["edi"])
    BY DEF Keeps
  <2> QED
    BY <2>1, <2>2, <2>3, <2>4, <2>5 DEF Executes, InCode
<1>8. \A t \in Contexts \ {MainContext} : New(t, machineState[t], stack[t], calls[t])
  BY <1>2 DEF New
<1> QED
  BY <1>6, <1>7, <1>8 DEF ContextInv, OnProcessor, Away

\* pc says which of the four the running thread is in.
LEMMA PcDecides ==
    ASSUME ContextInv
    PROVE  /\ InCode => Executes(running)
           /\ pc = "Run" => Switched(running)
           /\ pc = "ThreadRoot" => Fresh(running)
           /\ pc \in {"begun", "done"} => Between(running)
  BY DEF ContextInv, OnProcessor, Executes, Switched, Fresh, Between, InCode

\* Scheduler::Run up to SWITCH: the running thread is as SWITCH saves it.
LEMMA RunSaves ==
    ASSUME ContextInv, InCode, NEW t2 \in Contexts, NEW own, NEW called, NEW m, NEW l,
           called = Push(stack, reg["esp"], <<pc, reg["ebx"], reg["esi"], reg["edi"],
                                              reg["ebp"], t2, running, "Run">>),
           m = SavedRegisters(running, Above(reg["esp"], -8), own, called),
           \A r \in Preserved : own[r] = l[r]
    PROVE  /\ IsFcn(called, Contexts) /\ IsFcn(called[running], Cells)
           /\ called[running][0] = Fencepost
           /\ \A u \in Contexts \ {running} : called[u] = stack[u]
           /\ Out(running, m, called[running], l, calls[running])
<1> DEFINE c == running
           b == Base(running)
<1>0. /\ c \in Contexts /\ IsFcn(stack, Contexts) /\ IsFcn(stack[c], Cells)
      /\ stack[c][0] = Fencepost
  BY DEF ContextInv, Shapes
<1>1. Executes(c)
  BY PcDecides
<1>2. reg["esp"] = <<c, b>>
  BY <1>1 DEF Executes
<1>3. b \in Nat /\ b >= 9 /\ b <= StackSize - 1 /\ StackSize \in Nat
  BY Places
<1>5. /\ IsFcn(called, Contexts) /\ IsFcn(called[c], Cells)
      /\ \A u \in Contexts \ {c} : called[u] = stack[u]
      /\ called[c][0] = stack[c][0]
      /\ \A j \in b .. StackSize - 1 : called[c][j] = stack[c][j]
      /\ called[c][b - 1] = pc /\ called[c][b - 3] = reg["esi"]
      /\ called[c][b - 4] = reg["edi"] /\ called[c][b - 8] = "Run"
  <2> DEFINE words == <<pc, reg["ebx"], reg["esi"], reg["edi"], reg["ebp"], t2, c, "Run">>
  <2>1. called = Push(stack, reg["esp"], words) /\ reg["esp"][1] = c /\ reg["esp"][2] = b
    BY <1>2
  <2>2. /\ Len(words) = 8 /\ words[1] = pc /\ words[3] = reg["esi"]
        /\ words[4] = reg["edi"] /\ words[8] = "Run"
    OBVIOUS
  <2> HIDE DEF b, c, words
  <2>3. /\ IsFcn(called, Contexts) /\ IsFcn(called[c], Cells)
        /\ \A u \in Contexts \ {c} : called[u] = stack[u]
        /\ called[c][0] = stack[c][0]
        /\ \A j \in b .. StackSize - 1 : called[c][j] = stack[c][j]
        /\ called[c][b - 1] = words[1] /\ called[c][b - 3] = words[3]
        /\ called[c][b - 4] = words[4] /\ called[c][b - 8] = words[8]
    BY <1>0, <1>3, <2>1, <2>2, RunPushes
  <2> QED
    BY <2>2, <2>3
<1>6. /\ called[c][0] = Fencepost
      /\ b + 1 <= StackSize - 1 => called[c][b + 1] = stack[c][b + 1]
      /\ called[c][b] = stack[c][b]
  <2> HIDE DEF b, c
  <2>1. called[c][0] = Fencepost
    BY <1>0, <1>5
  <2>2. b \in b .. StackSize - 1
    BY <1>3
  <2>3. b + 1 <= StackSize - 1 => b + 1 \in b .. StackSize - 1
    BY <1>3
  <2> QED
    BY <1>5, <2>1, <2>2, <2>3
<1>8. Frame(c, called[c], calls[c])
  <2>1. Held(c, called[c], calls[c])
    <3>1. c # MainContext => b + 1 <= StackSize - 1
      BY Places
    <3> QED
      BY <1>1, <1>6, <3>1 DEF Held, Executes
  <2>2. Keeps(c, calls[c], called[c][b - 3], called[c][b - 4])
    BY <1>1, <1>5 DEF Executes
  <2> QED
    BY <1>1, <1>5, <2>1, <2>2 DEF Frame, Executes
<1>9. Above(reg["esp"], -8) = <<c, b - 8>>
  BY <1>2, <1>3 DEF Above
<1>10. m["esp"] = <<c, b - 8>> /\ m["pc"] = "Run" /\ \A r \in Preserved : m[r] = l[r]
  <2>1. m["esp"] = <<c, b - 8>>
    BY <1>9 DEF SavedRegisters, Registers
  <2>2. m["pc"] = "Run"
    BY <1>5, <1>9 DEF SavedRegisters
  <2>3. \A r \in Preserved : m[r] = l[r]
    BY DEF SavedRegisters, Registers, Preserved
  <2> QED
    BY <2>1, <2>2, <2>3
<1> QED
  BY <1>5, <1>6, <1>5, <1>8, <1>10 DEF Out

\* Run: SWITCH saves the running thread and finds t2 as it was saved or made.
LEMMA RunInv ==
    ASSUME ContextInv, NEW t2 \in Contexts, NEW v, Run(t2, v)
    PROVE  ContextInv'
<1> DEFINE c == running
           own == [r \in Registers \ {"esp"} |-> Computed(r, c, v)]
           esp == Above(reg["esp"], -8)
           called == Push(stack, reg["esp"], <<pc, reg["ebx"], reg["esi"], reg["edi"],
                                               reg["ebp"], t2, c, "Run">>)
           state == [machineState EXCEPT ![c] = SavedRegisters(c, esp, own, called)]
           new == state[t2]
<1>0. /\ c \in Contexts /\ IsFcn(machineState, Contexts) /\ IsFcn(left, Contexts)
      /\ \A t \in Contexts :
            /\ IsFcn(stack[t], Cells) /\ stack[t][0] = Fencepost
            /\ machineState[t]["esp"] \in {<<t, StackTop>>, <<t, Base(t) - 8>>}
            /\ calls[t] \in Histories(t)
      /\ IsFcn(calls, Contexts)
  BY DEF ContextInv, Shapes
<1>1. InCode /\ calls' = calls /\ SWITCH(c, t2, esp, own, called)
      /\ left' = [left EXCEPT ![c] = [r \in Preserved |-> own[r]]]
  BY DEF Run
<1>2. /\ machineState' = state
      /\ reg' = [r \in Registers |-> IF r = "esp" THEN Above(new["esp"], 1) ELSE new[r]]
      /\ stack' = [called EXCEPT ![new["esp"][1]][new["esp"][2] + 1] = new["pc"]]
      /\ pc' = called[new["esp"][1]][new["esp"][2]]
      /\ running' = t2
  BY <1>1 DEF SWITCH
<1>3. \A r \in Preserved : own[r] = left'[c][r]
  BY <1>0, <1>1 DEF IsFcn
<1>4. state[c] = SavedRegisters(c, esp, own, called)
      /\ IsFcn(state, Contexts) /\ \A t \in Contexts \ {c} : state[t] = machineState[t]
  BY <1>0 DEF IsFcn
<1> HIDE DEF own
<1>5. /\ IsFcn(called, Contexts) /\ IsFcn(called[c], Cells) /\ called[c][0] = Fencepost
      /\ \A u \in Contexts \ {c} : called[u] = stack[u]
      /\ Out(c, state[c], called[c], left'[c], calls[c])
  BY <1>1, <1>3, <1>4, RunSaves
<1> HIDE DEF called, state, esp
<1>6. ASSUME NEW t \in Contexts PROVE Away(t, state[t], called[t], left'[t], calls[t])
  <2>1. CASE t = c
    BY <1>5, <2>1 DEF Away
  <2>2. CASE t # c
    <3>1. Away(t, machineState[t], stack[t], left[t], calls[t])
      BY <2>2 DEF ContextInv
    <3>2. left'[t] = left[t]
      BY <1>0, <1>1, <2>2 DEF IsFcn
    <3> QED
      BY <1>4, <1>5, <2>2, <3>1, <3>2
  <2> QED
    BY <2>1, <2>2
<1>7. \A t \in Contexts : /\ IsFcn(called[t], Cells) /\ called[t][0] = Fencepost
                          /\ state[t]["esp"] \in {<<t, StackTop>>, <<t, Base(t) - 8>>}
  <2>1. state[c]["esp"] = <<c, Base(c) - 8>>
    BY <1>5 DEF Out
  <2> QED
    BY <1>0, <1>4, <1>5, <2>1
<1>8. IsFcn(left', Contexts) /\ IsFcn(reg', Registers)
  BY <1>0, <1>1, <1>2 DEF IsFcn
<1>9. ASSUME NEW k \in Cells, k # 0, new["esp"] = <<t2, k - 1>>
      PROVE  /\ Shapes'
             /\ stack'[t2][k] = new["pc"]
             /\ \A j \in Cells \ {k} : stack'[t2][j] = called[t2][j]
             /\ \A t \in Contexts \ {t2} : stack'[t] = called[t]
             /\ reg'["esp"] = <<t2, k>>
             /\ pc' = called[t2][k - 1]
  <2>1. StackSize \in Nat /\ k \in Nat /\ k - 1 + 1 = k /\ 0 \in Cells
    BY <1>9, ContextAssumption DEF Cells
  <2>2. stack' = [called EXCEPT ![t2][k] = new["pc"]]
    <3>1. new["esp"][1] = t2 /\ new["esp"][2] + 1 = k
      BY <1>9, <2>1
    <3> HIDE DEF new
    <3> QED
      BY <1>2, <3>1
  <2>3. /\ IsFcn(stack', Contexts) /\ IsFcn(stack'[t2], Cells)
        /\ stack'[t2][k] = new["pc"]
        /\ \A j \in Cells \ {k} : stack'[t2][j] = called[t2][j]
        /\ \A t \in Contexts \ {t2} : stack'[t] = called[t]
    <3> HIDE DEF new
    <3> QED
      BY <1>5, <1>7, <1>9, <2>2 DEF IsFcn
  <2>4. \A t \in Contexts : IsFcn(stack'[t], Cells) /\ stack'[t][0] = Fencepost
    BY <1>7, <1>9, <2>1, <2>3
  <2>5. Shapes'
    BY <1>0, <1>1, <1>2, <1>4, <1>7, <1>8, <2>3, <2>4 DEF Shapes
  <2>6. reg'["esp"] = <<t2, k>>
    BY <1>2, <1>9, <2>1 DEF Above, Registers
  <2>7. pc' = called[t2][k - 1]
    BY <1>2, <1>9
  <2> QED
    BY <2>3, <2>5, <2>6, <2>7
<1>10. ASSUME \A t \in Contexts \ {t2} : stack'[t] = called[t]
       PROVE  \A t \in Contexts \ {running'} :
                 Away(t, machineState'[t], stack'[t], left'[t], calls'[t])
  BY <1>1, <1>2, <1>6, <1>10
<1>11. CASE New(t2, new, called[t2], calls[t2])
  <2>1. new = InitialState(t2)
    BY <1>11 DEF New
  <2>2. /\ new["esp"] = <<t2, StackTop>> /\ new["pc"] = "ThreadRoot"
        /\ new["ecx"] = "ThreadBegin" /\ new["esi"] = "func"
        /\ new["edx"] = Arg(t2) /\ new["edi"] = "ThreadFinish"
    BY <2>1 DEF InitialState, Registers, Preserved, Scratch
  <2>3. StackTop + 1 \in Cells /\ StackTop + 1 # 0 /\ (StackTop + 1) - 1 = StackTop
    BY Places DEF Cells
  <2>4. /\ Shapes' /\ \A t \in Contexts \ {t2} : stack'[t] = called[t]
        /\ reg'["esp"] = <<t2, StackTop + 1>> /\ pc' = called[t2][StackTop]
    BY <1>9, <2>2, <2>3
  <2>5. /\ reg'["ecx"] = "ThreadBegin" /\ reg'["esi"] = "func"
        /\ reg'["edx"] = Arg(t2) /\ reg'["edi"] = "ThreadFinish"
    BY <1>2, <2>2 DEF Registers, Preserved, Scratch
  <2>6. Fresh(t2)'
    BY <1>1, <1>11, <2>4, <2>5 DEF Fresh, New, Arg
  <2> QED
    BY <1>2, <1>10, <2>4, <2>6 DEF ContextInv, OnProcessor
<1>12. CASE Out(t2, new, called[t2], left'[t2], calls[t2])
  <2> DEFINE b == Base(t2)
  <2>1. b \in Nat /\ b >= 9 /\ b <= StackSize - 1 /\ StackSize \in Nat
    BY Places
  <2>2. /\ new["esp"] = <<t2, b - 8>> /\ new["pc"] = "Run"
        /\ called[t2][b - 8] = "Run" /\ Frame(t2, called[t2], calls[t2])
        /\ \A r \in Preserved : new[r] = left'[t2][r]
    BY <1>12 DEF Out
  <2>3. b - 7 \in Cells /\ b - 7 # 0 /\ (b - 7) - 1 = b - 8
    BY <2>1 DEF Cells
  <2>4. /\ Shapes' /\ \A t \in Contexts \ {t2} : stack'[t] = called[t]
        /\ \A j \in Cells \ {b - 7} : stack'[t2][j] = called[t2][j]
        /\ reg'["esp"] = <<t2, b - 7>> /\ pc' = called[t2][b - 8]
    <3> HIDE DEF b
    <3>1. new["esp"] = <<t2, (b - 7) - 1>>
      BY <2>2, <2>3
    <3> HIDE DEF new
    <3> QED
      BY <1>9, <2>3, <3>1, ZenonT(40)
  <2>5. \A r \in Preserved : reg'[r] = left'[t2][r]
    BY <1>2, <2>2 DEF Registers, Preserved
  <2>6. Frame(t2, stack'[t2], calls[t2])
    <3>1. /\ stack'[t2][b - 1] = called[t2][b - 1] /\ stack'[t2][b - 3] = called[t2][b - 3]
          /\ stack'[t2][b - 4] = called[t2][b - 4] /\ stack'[t2][b] = called[t2][b]
          /\ b + 1 \in Cells => stack'[t2][b + 1] = called[t2][b + 1]
      <4> HIDE DEF b
      <4>1. b - 1 \in Cells /\ b - 3 \in Cells /\ b - 4 \in Cells /\ b \in Cells
        BY <2>1 DEF Cells
      <4>2. b - 1 # b - 7 /\ b - 3 # b - 7 /\ b - 4 # b - 7 /\ b # b - 7 /\ b + 1 # b - 7
        BY <2>1
      <4> QED
        BY <2>4, <4>1, <4>2
    <3>2. t2 # MainContext => b + 1 \in Cells
      BY Places DEF Cells
    <3> QED
      BY <2>2, <3>1, <3>2 DEF Frame, Held
  <2>7. Switched(t2)'
    BY <1>1, <2>2, <2>4, <2>5, <2>6 DEF Switched, Base
  <2> QED
    BY <1>2, <1>10, <2>4, <2>7 DEF ContextInv, OnProcessor
<1> QED
  BY <1>6, <1>11, <1>12 DEF Away

\* Steps of the running thread that write only its own stack.
LEMMA OthersKeep ==
    ASSUME ContextInv, Shapes', OnProcessor(running)',
           UNCHANGED <<running, machineState, left>>,
           \A t \in Contexts \ {running} : stack'[t] = stack[t] /\ calls'[t] = calls[t]
    PROVE  ContextInv'
  BY DEF ContextInv

\* Run returns to the code that called it.
LEMMA RunReturnsInv ==
    ASSUME ContextInv, RunReturns
    PROVE  ContextInv'
<1> DEFINE c == running
           b == Base(running)
<1>1. Switched(c) /\ c \in Contexts /\ IsFcn(reg, Registers) /\ calls[c] \in Histories(c)
  BY PcDecides DEF RunReturns, ContextInv, Shapes
<1>2. b \in Nat /\ b >= 9
  BY Places
<1>3. reg["esp"] = <<c, b - 7>> /\ Frame(c, stack[c], calls[c])
  BY <1>1 DEF Switched
<1>4. /\ At(reg["esp"], 6) = stack[c][b - 1] /\ At(reg["esp"], 4) = stack[c][b - 3]
      /\ At(reg["esp"], 3) = stack[c][b - 4] /\ Above(reg["esp"], 7) = <<c, b>>
  <2>1. (b - 7) + 6 = b - 1 /\ (b - 7) + 4 = b - 3 /\ (b - 7) + 3 = b - 4 /\ (b - 7) + 7 = b
    BY <1>2
  <2> QED
    BY <1>3, <2>1 DEF At, Above
<1>5. /\ pc' = stack[c][b - 1] /\ reg'["esp"] = <<c, b>>
      /\ reg'["esi"] = stack[c][b - 3] /\ reg'["edi"] = stack[c][b - 4]
      /\ IsFcn(reg', Registers)
      /\ UNCHANGED <<running, machineState, stack, calls, left>>
  <2>1. reg' = [reg EXCEPT !.ebp = At(reg.esp, 2), !.edi = stack[c][b - 4],
                           !.esi = stack[c][b - 3], !.ebx = At(reg.esp, 5), !.esp = <<c, b>>]
    BY <1>4 DEF RunReturns
  <2> HIDE DEF b, c
  <2>2. /\ reg'["esp"] = <<c, b>> /\ IsFcn(reg', Registers)
        /\ reg'["esi"] = stack[c][b - 3] /\ reg'["edi"] = stack[c][b - 4]
    BY <1>1, <2>1 DEF IsFcn, Registers, Preserved
  <2> QED
    BY <1>4, <2>2 DEF RunReturns, c
<1>6. InCode'
  <2>1. pc' = calls[c][Len(calls[c])] /\ calls[c] # <<>>
    BY <1>3, <1>5 DEF Frame
  <2> QED
    BY <1>1, <2>1 DEF InCode, Histories
<1>7. Executes(c)'
  BY <1>3, <1>5, <1>6 DEF Executes, Frame, Base
<1>8. Shapes'
  BY <1>5 DEF ContextInv, Shapes
<1> QED
  BY <1>5, <1>7, <1>8, OthersKeep DEF OnProcessor

\* A function returns to ThreadRoot.
LEMMA ReturnInv ==
    ASSUME ContextInv, Return
    PROVE  ContextInv'
<1> DEFINE c == running
           b == Base(running)
<1>1. Executes(c) /\ c \in Contexts /\ IsFcn(reg, Registers) /\ calls[c] \in Histories(c)
      /\ c # MainContext /\ pc \in {"ThreadBegin", "func"}
  BY PcDecides DEF Return, ContextInv, Shapes, InCode
<1>2. b \in Nat /\ b >= 9
  BY Places
<1>3. reg["esp"] = <<c, b>> /\ calls[c] # <<>> /\ pc = calls[c][Len(calls[c])]
      /\ stack[c][b + 1] = Arg(c) /\ Keeps(c, calls[c], reg["esi"], reg["edi"])
  BY <1>1 DEF Executes, Held
<1>4. At(reg["esp"], 0) = stack[c][b] /\ Above(reg["esp"], 1) = <<c, b + 1>>
  BY <1>2, <1>3 DEF At, Above
<1>5. /\ pc' = stack[c][b] /\ reg'["esp"] = <<c, b + 1>>
      /\ reg'["esi"] = reg["esi"] /\ reg'["edi"] = reg["edi"]
      /\ IsFcn(reg', Registers)
      /\ UNCHANGED <<running, machineState, stack, calls, left>>
  <2>1. reg' = [[r \in Registers |-> IF r \in Scratch THEN Garbage ELSE reg[r]] EXCEPT
                   !["esp"] = Above(@, 1)]
    BY DEF Return
  <2>2. reg' = [r \in Registers |-> IF r = "esp" THEN <<c, b + 1>>
                                    ELSE IF r \in Scratch THEN Garbage ELSE reg[r]]
    BY <1>4, <2>1 DEF Registers, Scratch
  <2> HIDE DEF b, c
  <2>3. /\ reg'["esp"] = <<c, b + 1>> /\ IsFcn(reg', Registers)
        /\ reg'["esi"] = reg["esi"] /\ reg'["edi"] = reg["edi"]
    BY <2>2 DEF IsFcn, Registers, Preserved, Scratch
  <2> QED
    BY <1>4, <2>3 DEF Return, c
<1>6. \/ calls[c] = <<"ThreadBegin">> /\ pc' = "begun"
      \/ calls[c] = <<"ThreadBegin", "func">> /\ pc' = "done"
  <2> DEFINE all == <<"ThreadBegin", "func", "ThreadFinish">>
  <2>0. all[Len(all)] = "ThreadFinish"
    OBVIOUS
  <2> HIDE DEF all
  <2>1. calls[c] \in {<<"ThreadBegin">>, <<"ThreadBegin", "func">>}
    <3>1. calls[c] # all
      BY <1>1, <1>3, <2>0
    <3> QED
      BY <1>1, <1>3, <3>1 DEF Histories, all
  <2>2. Len(calls[c]) = 1 => stack[c][b] = "begun"
    BY <1>1 DEF Executes, Held
  <2>3. Len(calls[c]) = 2 => stack[c][b] = "done"
    BY <1>1 DEF Executes, Held
  <2> QED
    BY <1>5, <2>1, <2>2, <2>3
<1>7. Between(c)'
  BY <1>1, <1>3, <1>5, <1>6 DEF Between, Base, Arg
<1>8. Shapes'
  BY <1>5 DEF ContextInv, Shapes
<1> QED
  BY <1>5, <1>7, <1>8, OthersKeep DEF OnProcessor

\* What a call of ThreadRoot leaves: the callee f runs at Base, with its return
\* address there and the argument above it.
AfterCall(t, f, next) ==
    /\ IsFcn(stack', Contexts) /\ IsFcn(reg', Registers) /\ IsFcn(calls', Contexts)
    /\ \A u \in Contexts : IsFcn(stack'[u], Cells) /\ stack'[u][0] = Fencepost
    /\ \A u \in Contexts \ {t} : stack'[u] = stack[u] /\ calls'[u] = calls[u]
    /\ calls'[t] = Append(calls[t], f)
    /\ stack'[t][Base(t)] = next /\ stack'[t][Base(t) + 1] = Arg(t)
    /\ pc' = f /\ reg'["esp"] = <<t, Base(t)>>
    /\ reg'["esi"] = reg["esi"] /\ reg'["edi"] = reg["edi"]
    /\ UNCHANGED <<running, machineState, left>>

LEMMA CallNextIs ==
    ASSUME ContextInv, running # MainContext, NEW f, NEW e, NEW pushed, NEW next,
           CallNext(f, e, pushed, next), Len(pushed) \in {0, 2},
           Len(Append(pushed, next)) = Len(pushed) + 1,
           Append(pushed, next)[Len(pushed) + 1] = next,
           reg["esp"] = <<running, Base(running) + 1 + Len(pushed)>>,
           Len(pushed) = 2 => Append(pushed, next)[2] = Arg(running),
           Len(pushed) = 0 => stack[running][Base(running) + 1] = Arg(running)
    PROVE  AfterCall(running, f, next)
<1> DEFINE k == Len(pushed)
           words == Append(pushed, next)
<1>a. /\ k \in {0, 2} /\ Len(words) = k + 1 /\ words[k + 1] = next
      /\ k = 2 => words[2] = Arg(running)
      /\ k = 0 => stack[running][Base(running) + 1] = Arg(running)
      /\ reg["esp"] = <<running, Base(running) + 1 + k>>
  OBVIOUS
<1>b. stack' = Push(stack, reg["esp"], words)
  BY DEF CallNext
<1> HIDE DEF k, words
<1> DEFINE c == running
           b == Base(running)
           d == Base(running) + 1 + k
<1>0. /\ c \in Contexts /\ IsFcn(stack, Contexts) /\ IsFcn(reg, Registers)
      /\ IsFcn(calls, Contexts)
      /\ \A t \in Contexts : IsFcn(stack[t], Cells) /\ stack[t][0] = Fencepost
  BY DEF ContextInv, Shapes
<1>1. b \in Nat /\ b >= 9 /\ d \in Nat /\ d = b + 1 + k /\ b + 2 <= StackSize - 1
      /\ k \in Nat /\ StackSize \in Nat
  BY <1>a, Places
<1>2. stack' = Push(stack, reg["esp"], words) /\ reg["esp"][1] = c /\ reg["esp"][2] = d
  BY <1>a, <1>b
<1> HIDE DEF c, b, d
<1>3. /\ IsFcn(stack', Contexts) /\ IsFcn(stack'[c], Cells)
      /\ \A u \in Contexts \ {c} : stack'[u] = stack[u]
      /\ \A j \in Cells : stack'[c][j] = IF j \in d - Len(words) .. d - 1
                                         THEN words[d - j] ELSE stack[c][j]
  <2>0. Len(words) \in Nat
    BY <1>a, <1>1
  <2>1. /\ IsFcn(stack', Contexts) /\ IsFcn(stack'[c], Cells)
        /\ \A u \in Contexts \ {c} : stack'[u] = stack[u]
        /\ stack'[c] = Pushed(stack[c], d, words)
    BY <1>0, <1>1, <1>2, <2>0, PushIs
  <2> QED
    BY <2>1 DEF Pushed
<1>4. /\ 0 \in Cells /\ b \in Cells /\ b + 1 \in Cells
      /\ 0 \notin d - Len(words) .. d - 1 /\ b \in d - Len(words) .. d - 1
      /\ d - b = k + 1
  BY <1>a, <1>1 DEF Cells
<1>5. stack'[c][0] = stack[c][0] /\ stack'[c][b] = next
  BY <1>a, <1>3, <1>4
<1>6. stack'[c][b + 1] = Arg(c)
  <2>1. CASE k = 0
    <3>1. b + 1 \notin d - Len(words) .. d - 1
      BY <1>a, <1>1, <2>1
    <3> QED
      BY <1>a, <1>3, <1>4, <2>1, <3>1 DEF b, c
  <2>2. CASE k = 2
    <3>1. b + 1 \in d - Len(words) .. d - 1 /\ d - (b + 1) = 2
      BY <1>a, <1>1, <2>2
    <3> QED
      BY <1>a, <1>3, <1>4, <2>2, <3>1 DEF c
  <2> QED
    BY <1>a, <2>1, <2>2
<1>7. pc' = f /\ UNCHANGED <<running, machineState, left>>
  BY DEF CallNext
<1>8. /\ reg'["esp"] = <<c, b>> /\ IsFcn(reg', Registers)
      /\ reg'["esi"] = reg["esi"] /\ reg'["edi"] = reg["edi"]
  <2>1. Above(reg["esp"], -1 - Len(pushed)) = <<c, b>>
    <3>1. d + (-1 - Len(pushed)) = b
      BY <1>a, <1>1 DEF k
    <3> QED
      BY <1>2, <3>1 DEF Above
  <2>2. reg' = [reg EXCEPT !.esp = <<c, b>>, !.ebp = e]
    BY <2>1 DEF CallNext
  <2> QED
    BY <1>0, <2>2 DEF IsFcn, Registers, Preserved
<1>9. /\ IsFcn(calls', Contexts) /\ calls'[c] = Append(calls[c], f)
      /\ \A t \in Contexts \ {c} : calls'[t] = calls[t]
  <2>1. calls' = [calls EXCEPT ![c] = Append(@, f)]
    BY DEF CallNext, c
  <2> QED
    BY <1>0, <2>1 DEF IsFcn
<1>10. \A t \in Contexts : IsFcn(stack'[t], Cells) /\ stack'[t][0] = Fencepost
  BY <1>0, <1>3, <1>5
<1> QED
  BY <1>3, <1>5, <1>6, <1>7, <1>8, <1>9, <1>10 DEF b, c, AfterCall

\* The callee runs as the layout says.
LEMMA CallInv ==
    ASSUME ContextInv, running # MainContext, NEW f, NEW next, AfterCall(running, f, next),
           f \in {"ThreadBegin", "func", "ThreadFinish"},
           NEW h \in Histories(running), calls'[running] = h, h # <<>>, h[Len(h)] = f,
           Keeps(running, h, reg["esi"], reg["edi"]),
           Len(h) = 1 => next = "begun", Len(h) = 2 => next = "done"
    PROVE  ContextInv'
<1> DEFINE c == running
<1>1. Shapes'
  <2>1. \A t \in Contexts : calls'[t] \in Histories(t)
    BY DEF AfterCall, ContextInv, Shapes
  <2> QED
    BY <2>1 DEF AfterCall, ContextInv, Shapes
<1>2. Held(c, stack'[c], h)
  BY DEF AfterCall, Held
<1>3. Executes(c)'
  BY <1>2 DEF AfterCall, Executes, InCode, Base
<1>4. \A t \in Contexts \ {c} : stack'[t] = stack[t] /\ calls'[t] = calls[t]
  BY DEF AfterCall
<1>5. UNCHANGED <<running, machineState, left>>
  BY DEF AfterCall
<1> QED
  BY <1>1, <1>3, <1>4, <1>5, OthersKeep DEF OnProcessor

\* What ThreadRoot calls.
Code == {"ThreadBegin", "func", "ThreadFinish"}

\* ThreadRoot's calls, one by one.
LEMMA CallsInOrder ==
    /\ Append(<<"ThreadBegin">>, "func") = <<"ThreadBegin", "func">>
    /\ Append(<<"ThreadBegin", "func">>, "ThreadFinish")
         = <<"ThreadBegin", "func", "ThreadFinish">>
<1>1. Append(<<"ThreadBegin">>, "func") = <<"ThreadBegin", "func">>
  <2> DEFINE s == Append(<<"ThreadBegin">>, "func")
             t == <<"ThreadBegin", "func">>
  <2>1. /\ s \in Seq(Code) /\ t \in Seq(Code) /\ Len(s) = 2 /\ Len(t) = 2
        /\ s[1] = t[1] /\ s[2] = t[2]
    BY DEF Code
  <2> HIDE DEF s, t
  <2>2. s = t
    BY <2>1
  <2> QED
    BY <2>2 DEF s, t
<1>2. Append(<<"ThreadBegin", "func">>, "ThreadFinish")
         = <<"ThreadBegin", "func", "ThreadFinish">>
  <2> DEFINE s == Append(<<"ThreadBegin", "func">>, "ThreadFinish")
             t == <<"ThreadBegin", "func", "ThreadFinish">>
  <2>1. /\ s \in Seq(Code) /\ t \in Seq(Code) /\ Len(s) = 3 /\ Len(t) = 3
        /\ s[1] = t[1] /\ s[2] = t[2] /\ s[3] = t[3]
    BY DEF Code
  <2> HIDE DEF s, t
  <2>2. s = t
    BY <2>1
  <2> QED
    BY <2>2 DEF s, t
<1> QED
  BY <1>1, <1>2

\* A sequence is the part of it from 1 to its length.
LEMMA WholeSubSeq ==
    ASSUME NEW S, NEW q \in Seq(S)
    PROVE  SubSeq(q, 1, Len(q)) = q
<1> DEFINE s == SubSeq(q, 1, Len(q))
<1>1. s \in Seq(S) /\ Len(s) = Len(q) /\ \A i \in 1 .. Len(q) : s[i] = q[i]
  OBVIOUS
<1> QED
  BY <1>1

\* ThreadRoot calls the next of its three functions.
LEMMA ThreadRootInv ==
    ASSUME ContextInv, ThreadRoot
    PROVE  ContextInv'
<1> DEFINE c == running
<1>0. /\ calls[c] \in Histories(c)
      /\ Base(c) \in Nat /\ (c # MainContext => StackTop + 1 = Base(c) + 1 + 2)
  BY Places DEF ContextInv, Shapes
<1>1. CASE pc = "ThreadRoot"
  <2>1. Fresh(c)
    BY <1>1, PcDecides
  <2>2. /\ c # MainContext /\ calls[c] = <<>> /\ reg["esp"] = <<c, Base(c) + 1 + 2>>
        /\ reg["ecx"] = "ThreadBegin" /\ reg["esi"] = "func"
        /\ reg["edx"] = Arg(c) /\ reg["edi"] = "ThreadFinish"
    BY <1>0, <2>1 DEF Fresh
  <2> DEFINE pushed == <<reg.ebp, reg.edx>>
             h == <<"ThreadBegin">>
  <2>3. CallNext("ThreadBegin", Above(reg.esp, -1), pushed, "begun")
    BY <1>1, <2>2 DEF ThreadRoot
  <2>4. /\ Len(pushed) = 2 /\ Len(Append(pushed, "begun")) = 2 + 1
        /\ Append(pushed, "begun")[2 + 1] = "begun" /\ Append(pushed, "begun")[2] = Arg(c)
    BY <2>2
  <2>5. Append(calls[c], "ThreadBegin") = h /\ h # <<>> /\ Len(h) = 1 /\ h[1] = "ThreadBegin"
    BY <2>2
  <2>6. h \in Histories(c)
    BY <2>2 DEF Histories
  <2> HIDE DEF pushed, h
  <2>7. AfterCall(c, "ThreadBegin", "begun")
    BY <2>2, <2>3, <2>4, CallNextIs
  <2>8. Keeps(c, h, reg["esi"], reg["edi"]) /\ calls'[c] = h
    BY <2>2, <2>5, <2>7 DEF Keeps, AfterCall
  <2> QED
    BY <2>2, <2>5, <2>6, <2>7, <2>8, CallInv
<1>2. CASE pc = "begun"
  <2>1. Between(c)
    BY <1>2, PcDecides
  <2>2. /\ c # MainContext /\ calls[c] = <<"ThreadBegin">> /\ reg["esp"] = <<c, Base(c) + 1>>
        /\ stack[c][Base(c) + 1] = Arg(c) /\ Keeps(c, calls[c], reg["esi"], reg["edi"])
    BY <1>2, <2>1 DEF Between
  <2> DEFINE h == <<"ThreadBegin", "func">>
  <2>3. reg["esi"] = "func" /\ (Len(h) < 3 => reg["edi"] = "ThreadFinish")
    BY <2>2 DEF Keeps
  <2>4. CallNext("func", reg.ebp, <<>>, "done")
    BY <1>2, <2>3 DEF ThreadRoot
  <2>5. /\ Len(<<>>) = 0 /\ Len(Append(<<>>, "done")) = 0 + 1
        /\ Append(<<>>, "done")[0 + 1] = "done" /\ Base(c) + 1 + 0 = Base(c) + 1
    BY <1>0
  <2>6. Append(calls[c], "func") = h /\ h # <<>> /\ Len(h) = 2 /\ h[2] = "func"
    BY <2>2, CallsInOrder
  <2>7. h \in Histories(c)
    BY <2>2 DEF Histories
  <2> HIDE DEF h
  <2>8. AfterCall(c, "func", "done")
    <3> DEFINE pushed == <<>>
    <3>1. /\ c # MainContext /\ reg["esp"] = <<c, Base(c) + 1 + Len(pushed)>>
          /\ stack[c][Base(c) + 1] = Arg(c)
      BY <2>2, <2>5
    <3>2. /\ Len(pushed) = 0 /\ Len(Append(pushed, "done")) = Len(pushed) + 1
          /\ Append(pushed, "done")[Len(pushed) + 1] = "done"
      BY <2>5
    <3>3. CallNext("func", reg.ebp, pushed, "done")
      BY <2>4
    <3> HIDE DEF pushed
    <3> QED
      BY <3>1, <3>2, <3>3, CallNextIs, SMTT(30)
  <2>9. Keeps(c, h, reg["esi"], reg["edi"]) /\ calls'[c] = h
    BY <2>3, <2>6, <2>8 DEF Keeps, AfterCall
  <2> QED
    BY <2>2, <2>6, <2>7, <2>8, <2>9, CallInv
<1>3. CASE pc = "done"
  <2>1. Between(c)
    BY <1>3, PcDecides
  <2>2. /\ c # MainContext /\ calls[c] = <<"ThreadBegin", "func">> /\ reg["esp"] = <<c, Base(c) + 1>>
        /\ stack[c][Base(c) + 1] = Arg(c) /\ Keeps(c, calls[c], reg["esi"], reg["edi"])
    BY <1>3, <2>1 DEF Between
  <2> DEFINE h == <<"ThreadBegin", "func", "ThreadFinish">>
  <2>3. reg["edi"] = "ThreadFinish" /\ (Len(h) < 3 => reg["edi"] = "ThreadFinish")
    BY <2>2 DEF Keeps
  <2>4. CallNext("ThreadFinish", reg.ebp, <<>>, "unreached")
    BY <1>3, <2>3 DEF ThreadRoot
  <2>5. /\ Len(<<>>) = 0 /\ Len(Append(<<>>, "unreached")) = 0 + 1
        /\ Append(<<>>, "unreached")[0 + 1] = "unreached" /\ Base(c) + 1 + 0 = Base(c) + 1
    BY <1>0
  <2>6. Append(calls[c], "ThreadFinish") = h /\ h # <<>> /\ Len(h) = 3 /\ h[3] = "ThreadFinish"
    BY <2>2, CallsInOrder
  <2>7. h \in Histories(c)
    BY <2>2 DEF Histories
  <2> HIDE DEF h
  <2>8. AfterCall(c, "ThreadFinish", "unreached")
    <3> DEFINE pushed == <<>>
    <3>1. /\ c # MainContext /\ reg["esp"] = <<c, Base(c) + 1 + Len(pushed)>>
          /\ stack[c][Base(c) + 1] = Arg(c)
      BY <2>2, <2>5
    <3>2. /\ Len(pushed) = 0 /\ Len(Append(pushed, "unreached")) = Len(pushed) + 1
          /\ Append(pushed, "unreached")[Len(pushed) + 1] = "unreached"
      BY <2>5
    <3>3. CallNext("ThreadFinish", reg.ebp, pushed, "unreached")
      BY <2>4
    <3> HIDE DEF pushed
    <3> QED
      BY <3>1, <3>2, <3>3, CallNextIs
  <2>9. Keeps(c, h, reg["esi"], reg["edi"]) /\ calls'[c] = h
    BY <2>3, <2>6, <2>8 DEF Keeps, AfterCall
  <2> QED
    BY <2>2, <2>6, <2>7, <2>8, <2>9, CallInv
<1> QED
  BY <1>1, <1>2, <1>3 DEF ThreadRoot
-----------------------------------------------------------------------------
(***************************************************************************)
(* The theorem.                                                            *)
(***************************************************************************)
\* ContextIsKept follows from the layout.
LEMMA LayoutImplies == ContextInv => ContextIsKept
<1> SUFFICES ASSUME ContextInv PROVE ContextIsKept
  OBVIOUS
<1> DEFINE c == running
<1>1. reg["esp"][1] = c
  BY DEF ContextInv, OnProcessor, Fresh, Switched, Executes, Between
<1>2. pc = "Run" => \A r \in Preserved : reg[r] = left[c][r]
  BY PcDecides DEF Switched
<1>3. InCode => pc = calls[c][Len(calls[c])]
  BY PcDecides DEF Executes
<1>4. ASSUME pc = "func", c # MainContext PROVE At(reg["esp"], 1) = Arg(c)
  <2>1. Executes(c) /\ Base(c) \in Nat
    BY <1>4, PcDecides, Places DEF InCode
  <2> QED
    BY <1>4, <2>1 DEF Executes, Held, At
<1>5. ASSUME NEW t \in Contexts
      PROVE  /\ machineState[t]["esp"][1] = t
             /\ machineState[t]["esp"][2] \in 1 .. StackSize - 2
             /\ stack[t][0] = Fencepost
             /\ t # MainContext => \E n \in 0 .. 3 :
                   calls[t] = SubSeq(<<"ThreadBegin", "func", "ThreadFinish">>, 1, n)
  <2>1. /\ machineState[t]["esp"] \in {<<t, StackTop>>, <<t, Base(t) - 8>>}
        /\ stack[t][0] = Fencepost /\ calls[t] \in Histories(t)
    BY DEF ContextInv, Shapes
  <2>2. StackTop \in 1 .. StackSize - 2 /\ Base(t) - 8 \in 1 .. StackSize - 2
    BY Places
  <2>3. /\ machineState[t]["esp"][1] = t
        /\ machineState[t]["esp"][2] \in 1 .. StackSize - 2
    BY <2>1, <2>2
  <2>4. ASSUME t # MainContext
        PROVE  \E n \in 0 .. 3 :
                  calls[t] = SubSeq(<<"ThreadBegin", "func", "ThreadFinish">>, 1, n)
    <3> DEFINE all == <<"ThreadBegin", "func", "ThreadFinish">>
    <3>0. all \in Seq(Code) /\ Len(all) = 3
      BY DEF Code
    <3>1. /\ SubSeq(all, 1, 0) = <<>> /\ SubSeq(all, 1, 1) = <<"ThreadBegin">>
          /\ SubSeq(all, 1, 2) = <<"ThreadBegin", "func">> /\ SubSeq(all, 1, 3) = all
      <4>1. SubSeq(all, 1, 0) = <<>>
        OBVIOUS
      <4>2. SubSeq(all, 1, 3) = all
        <5> HIDE DEF all
        <5>1. SubSeq(all, 1, Len(all)) = all
          BY <3>0, WholeSubSeq
        <5> QED
          BY <3>0, <5>1
      <4>3. SubSeq(all, 1, 1) = <<"ThreadBegin">>
        <5> DEFINE s == SubSeq(all, 1, 1)
                   u == <<"ThreadBegin">>
        <5>1. /\ s \in Seq(Code) /\ u \in Seq(Code) /\ Len(s) = 1 /\ Len(u) = 1
              /\ s[1] = u[1]
          BY DEF Code
        <5> HIDE DEF s, u
        <5>2. s = u
          BY <5>1
        <5> QED
          BY <5>2 DEF s, u
      <4>4. SubSeq(all, 1, 2) = <<"ThreadBegin", "func">>
        <5> DEFINE s == SubSeq(all, 1, 2)
                   u == <<"ThreadBegin", "func">>
        <5>1. /\ s \in Seq(Code) /\ u \in Seq(Code) /\ Len(s) = 2 /\ Len(u) = 2
              /\ s[1] = u[1] /\ s[2] = u[2]
          BY DEF Code
        <5> HIDE DEF s, u
        <5>2. s = u
          BY <5>1
        <5> QED
          BY <5>2 DEF s, u
      <4> QED
        BY <4>1, <4>2, <4>3, <4>4
    <3>2. 0 \in 0 .. 3 /\ 1 \in 0 .. 3 /\ 2 \in 0 .. 3 /\ 3 \in 0 .. 3
      OBVIOUS
    <3>3. calls[t] \in {<<>>, <<"ThreadBegin">>, <<"ThreadBegin", "func">>, all}
      BY <2>1, <2>4 DEF Histories
    <3> HIDE DEF all
    <3>4. \E n \in 0 .. 3 : calls[t] = SubSeq(all, 1, n)
      BY <3>1, <3>2, <3>3
    <3> QED
      BY <3>4 DEF all
  <2> QED
    BY <2>1, <2>3, <2>4
<1> QED
  BY <1>1, <1>2, <1>3, <1>4, <1>5 DEF ContextIsKept

\* One step.
LEMMA ContextStep == ContextInv /\ [SwitchNext]_switchVars => ContextInv'
<1> SUFFICES ASSUME ContextInv, [SwitchNext]_switchVars PROVE ContextInv'
  OBVIOUS
<1>1. CASE UNCHANGED switchVars
  BY <1>1 DEF switchVars, ContextInv, Shapes, OnProcessor, Fresh, Switched, Executes,
              Between, InCode
<1> QED
  BY <1>1, RunInv, RunReturnsInv, ThreadRootInv, ReturnInv DEF SwitchNext

\* A thread that runs again finds its registers and its stack as it left
\* them, and ThreadRoot calls its three functions in order, for any number of
\* threads and any stack of at least 16 words.
THEOREM ContextsAreKept == SwitchSpec => []ContextIsKept
  BY ContextInit, ContextStep, LayoutImplies, PTL DEF SwitchSpec
=============================================================================
