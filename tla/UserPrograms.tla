---------------------------- MODULE UserPrograms ----------------------------
(***************************************************************************)
(* The machine that runs user programs, at two levels of detail: "paging"  *)
(* is VirtualMemory.tla, three threads of which an instruction is a fetch  *)
(* and an access; "cpu" is MIPS.tla, one thread of which a page is there   *)
(* or not.                                                                 *)
(***************************************************************************)
EXTENDS Integers, Sequences

CONSTANTS Parts,
          NumThreads, NumPages, NumPhysPages, TLBSize, Programs, Builds, Pauses,
          MinSlice, MaxEarly,
          ByteBits, R31, Data, PageSize, Loads

VARIABLES part,
          build, program, pause, m, cur, ready, blockList, suspendList, at, count,
          slice, early, file, halted, aborted, own,
          code, cpu, mem, resident, evictions, stopped, ref

VM == INSTANCE VirtualMemory
CPU == INSTANCE MIPS

vmVars == <<build, program, pause, m, cur, ready, blockList, suspendList, at, count,
            slice, early, file, halted, aborted, own>>
cpuVars == <<code, cpu, mem, resident, evictions, stopped, ref>>
vars == <<part, vmVars, cpuVars>>

Absent(x) == x = <<>>

NoPaging ==
    /\ Absent(build) /\ Absent(program) /\ Absent(pause) /\ Absent(m) /\ Absent(cur)
    /\ Absent(ready) /\ Absent(blockList) /\ Absent(suspendList) /\ Absent(at)
    /\ Absent(count) /\ Absent(slice) /\ Absent(early) /\ Absent(file)
    /\ Absent(halted) /\ Absent(aborted) /\ Absent(own)

NoCPU ==
    /\ Absent(code) /\ Absent(cpu) /\ Absent(mem) /\ Absent(resident)
    /\ Absent(evictions) /\ Absent(stopped) /\ Absent(ref)

Init ==
    /\ part \in Parts
    /\ \/ part = "paging" /\ VM!Init /\ NoCPU
       \/ part = "cpu" /\ CPU!Init /\ NoPaging

Paging == part = "paging" /\ VM!Next /\ UNCHANGED <<part, cpuVars>>
Processor == part = "cpu" /\ CPU!Next /\ UNCHANGED <<part, vmVars>>

Next == Paging \/ Processor

\* The machine goes on while it is not halted.
Fairness == WF_vars(part = "paging" /\ VM!Step /\ UNCHANGED <<part, cpuVars>>)

Spec == Init /\ [][Next]_vars /\ Fairness
-----------------------------------------------------------------------------
\* See VirtualMemory.tla: each thread has a memory of its own, through page
\* faults, switches, suspension and the Exit of others.
ReadsSeeWrites == part = "paging" => VM!ReadsSeeWrites

\* See VirtualMemory.tla: uninitialized data is zero until it is written.
UninitDataIsZero == part = "paging" => VM!UninitDataIsZero

\* See VirtualMemory.tla: mmBitmap marks the frames in use, none is used twice.
FramesExact == part = "paging" => VM!FramesExact

\* See VirtualMemory.tla: the TLB agrees with the page table of the running thread.
TLBCoherent == part = "paging" => VM!TLBCoherent

\* See MIPS.tla: whatever faults interrupt it, OneInstruction does what the
\* manual says, once.
MatchesReference == part = "cpu" => CPU!MatchesReference

\* See VirtualMemory.tla: every program comes to its Exit, and main halts
\* after all of them; no instruction is started again for ever.
ProgramsExit == <>(part = "paging" => VM!AllExited)
=============================================================================
