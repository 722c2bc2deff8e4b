-------------------------------- MODULE MIPS --------------------------------
(***************************************************************************)
(* The simulated processor (machine/mipssim.cc): Decode, OneInstruction    *)
(* with its branch and load delays, the exceptions that interrupt an       *)
(* instruction, and Run, which starts it again.  A word has four bytes of  *)
(* ByteBits bits; SIM_FIX is defined, as in build.linux/Makefile, and the  *)
(* host is little endian.                                                  *)
(*                                                                         *)
(* Translate is modelled by the pages that are resident: VirtualMemory.tla *)
(* has the rest.  A page may go away between any two instructions.         *)
(***************************************************************************)
EXTENDS MIPSManual, Sequences, Bitwise

CONSTANTS PageSize,
          Loads                 \* what a run starts from: [code, r, hi, lo, mem, evictions]

BitAnd(a, b) == Word(U(a, W) & U(b, W))
BitOr(a, b) == Word(U(a, W) | U(b, W))
BitXor(a, b) == Word(U(a, W) ^^ U(b, W))
Shl(x, n) == Word(x * 2^n)
Shr(x, n) == x \div 2^n             \* >> of an int
Low(bytes) == 2^(bytes * ByteBits) - 1      \* the mask of the low bytes
High(bytes) == Word(-(2^(bytes * ByteBits)))    \* the mask of all but the low bytes

VARIABLES code,         \* the program, as the fields of its instructions
          cpu,          \* the registers; r are the general ones
          mem,          \* the data, byte by byte
          resident,     \* the pages that are in memory
          evictions,    \* how many pages may still go away
          stopped,      \* "no", "halt", "exit" or the exception that aborts
          ref           \* what a processor without delays and faults would have

vars == <<code, cpu, mem, resident, evictions, stopped, ref>>
-----------------------------------------------------------------------------
(***************************************************************************)
(* Instruction::Decode.  opTable and specialTable, by rows of eight; the   *)
(* rows are those of mipssim.h, which are all of one kind where one name   *)
(* stands for the row.                                                     *)
(***************************************************************************)
All(op) == [i \in 1 .. 8 |-> op]

opTable ==
    <<"SPECIAL", "BCOND", "J", "JAL", "BEQ", "BNE", "BLEZ", "BGTZ",
      "ADDI", "ADDIU", "SLTI", "SLTIU", "ANDI", "ORI", "XORI", "LUI",
      "UNIMP", "UNIMP", "UNIMP", "UNIMP", "RES", "RES", "RES", "RES">>
    \o All("RES")
    \o <<"LB", "LH", "LWL", "LW", "LBU", "LHU", "LWR", "RES",
         "SB", "SH", "SWL", "SW", "RES", "RES", "SWR", "RES",
         "UNIMP", "UNIMP", "UNIMP", "UNIMP", "RES", "RES", "RES", "RES",
         "UNIMP", "UNIMP", "UNIMP", "UNIMP", "RES", "RES", "RES", "RES">>

specialTable ==
    <<"SLL", "RES", "SRL", "SRA", "SLLV", "RES", "SRLV", "SRAV",
      "JR", "JALR", "RES", "RES", "SYSCALL", "UNIMP", "RES", "RES",
      "MFHI", "MTHI", "MFLO", "MTLO", "RES", "RES", "RES", "RES",
      "MULT", "MULTU", "DIV", "DIVU", "RES", "RES", "RES", "RES",
      "ADD", "ADDU", "SUB", "SUBU", "AND", "OR", "XOR", "NOR",
      "RES", "RES", "SLT", "SLTU", "RES", "RES", "RES", "RES">>
    \o All("RES") \o All("RES")

\* The rt field tells the branches of BCOND apart.
Bcond(rt) == CASE rt = 0 -> "BLTZ" [] rt = 1 -> "BGEZ" [] rt = 16 -> "BLTZAL"
               [] rt = 17 -> "BGEZAL" [] OTHER -> "UNIMP"

Decode(raw) ==
    LET major == opTable[raw.op + 1]
    IN  [rs |-> raw.rs, rt |-> raw.rt, rd |-> raw.rd,
         opCode |-> CASE major = "SPECIAL" -> specialTable[raw.funct + 1]
                      [] major = "BCOND" -> Bcond(raw.rt)
                      [] OTHER -> major,
         extra |-> CASE major = "SPECIAL" -> raw.shamt
                     [] major \in {"J", "JAL"} -> raw.index
                     [] OTHER -> Signed(raw.imm, 2 * ByteBits)]
-----------------------------------------------------------------------------
(***************************************************************************)
(* Memory.  A read or a write is of 1, 2 or 4 bytes; exc says what stops   *)
(* it, if anything does.                                                   *)
(***************************************************************************)
Page(addr) == addr \div PageSize

Translate(addr, size) ==
    CASE addr % size # 0 -> "AddressError"
      [] Page(addr) \notin resident -> "PageFault"
      [] OTHER -> "none"

\* A byte is a (signed) char, a half word is unsigned, a word is an int.
ReadMem(addr, size) ==
    CASE size = 1 -> Signed(mem[addr], ByteBits)
      [] size = 2 -> Bytes(mem, addr, 2)
      [] size = 4 -> Word(Bytes(mem, addr, 4))

WriteMem(addr, size, value) ==
    [a \in Data |-> IF a \in addr .. addr + size - 1
                    THEN (U(value, W) \div 2^((a - addr) * ByteBits)) % 2^ByteBits
                    ELSE mem[a]]

DelayedLoad(c, nextReg, nextValue) ==
    [c EXCEPT !.r = [[@ EXCEPT ![c.LoadReg] = c.LoadValueReg] EXCEPT ![0] = 0],
              !.LoadReg = nextReg, !.LoadValueReg = nextValue]
-----------------------------------------------------------------------------
(***************************************************************************)
(* The cases of OneInstruction, in the order of the code.  Each gives what *)
(* the instruction i does when the registers are c.                        *)
(***************************************************************************)
Done(c) == [c |-> c, pcAfter |-> c.NextPCReg + 4, nextLoadReg |-> 0, nextLoadValue |-> 0,
            mem |-> mem, exc |-> "none", bad |-> 0]
Raise(c, exc, bad) == [Done(c) EXCEPT !.exc = exc, !.bad = bad]
Sets(c, reg, value) == Done([c EXCEPT !.r[reg] = value])
Jumps(c, pc) == [Done(c) EXCEPT !.pcAfter = pc]

Negative(x) == x < 0
IndexToAddr(x) == 4 * x

AddAnd(c, i) ==
    LET rs == c.r[i.rs]
        b == IF i.opCode \in {"ADD", "ADDU", "AND"} THEN c.r[i.rt] ELSE i.extra
        dest == IF i.opCode \in {"ADD", "ADDU", "AND"} THEN i.rd ELSE i.rt
        sum == Word(rs + b)
    IN  CASE i.opCode \in {"ADD", "ADDI"} ->
               IF Negative(rs) = Negative(b) /\ Negative(b) # Negative(sum)
               THEN Raise(c, "Overflow", 0) ELSE Sets(c, dest, sum)
          [] i.opCode \in {"ADDU", "ADDIU"} -> Sets(c, dest, sum)
          [] i.opCode = "AND" -> Sets(c, dest, BitAnd(rs, b))
          [] i.opCode = "ANDI" -> Sets(c, dest, BitAnd(rs, BitAnd(b, Low(2))))

\* The link is written first; a branch on it sees the new value.
Branch(c, i) ==
    LET linked == IF i.opCode \in {"BGEZAL", "BLTZAL"}
                  THEN [c EXCEPT !.r[R31] = c.NextPCReg + 4] ELSE c
        rs == linked.r[i.rs]
        taken == CASE i.opCode = "BEQ" -> rs = c.r[i.rt]
                   [] i.opCode = "BNE" -> rs # c.r[i.rt]
                   [] i.opCode \in {"BGEZ", "BGEZAL"} -> ~Negative(rs)
                   [] i.opCode \in {"BLTZ", "BLTZAL"} -> Negative(rs)
                   [] i.opCode = "BGTZ" -> rs > 0
                   [] i.opCode = "BLEZ" -> rs <= 0
    IN  IF taken THEN Jumps(linked, c.NextPCReg + IndexToAddr(i.extra)) ELSE Done(linked)

\* Division of C: towards zero.  The host traps when the quotient is no int.
Quotient(a, b) == LET q == (IF a < 0 THEN -a ELSE a) \div (IF b < 0 THEN -b ELSE b)
                  IN  IF (a < 0) = (b < 0) THEN q ELSE -q

Divide(c, i) ==
    LET a == IF i.opCode = "DIV" THEN c.r[i.rs] ELSE U(c.r[i.rs], W)
        b == IF i.opCode = "DIV" THEN c.r[i.rt] ELSE U(c.r[i.rt], W)
    IN  CASE b = 0 -> Done([c EXCEPT !.LoReg = 0, !.HiReg = 0])
          [] i.opCode = "DIV" /\ b = -1 /\ a = -(2^(W - 1)) -> Raise(c, "HostTrap", 0)
          [] OTHER -> Done([c EXCEPT !.LoReg = Word(Quotient(a, b)),
                                     !.HiReg = Word(a - b * Quotient(a, b))])

\* A jump stays in the region of its delay slot's successor.
Region == 2^(W - 2)
Jump(c, i) ==
    LET after == c.NextPCReg + 4
        link == CASE i.opCode = "JAL" -> [c EXCEPT !.r[R31] = after]
                  [] i.opCode = "JALR" -> [c EXCEPT !.r[i.rd] = after]
                  [] OTHER -> c
    IN  Jumps(link, IF i.opCode \in {"J", "JAL"}
                    THEN (after \div Region) * Region + IndexToAddr(i.extra)
                    ELSE link.r[i.rs])

Address(c, i) == Word(c.r[i.rs] + i.extra)
LoadsInto(c, i, value) == [Done(c) EXCEPT !.nextLoadReg = i.rt, !.nextLoadValue = value]

Load(c, i) ==
    LET size == CASE i.opCode \in {"LB", "LBU"} -> 1 [] i.opCode \in {"LH", "LHU"} -> 2
                  [] OTHER -> 4
        addr == Address(c, i)
    IN  CASE i.opCode = "LUI" -> Sets(c, i.rt, Shl(i.extra, 2 * ByteBits))
          [] i.opCode # "LUI" /\ Translate(addr, size) # "none" ->
               Raise(c, Translate(addr, size), addr)
          [] OTHER -> LoadsInto(c, i,
               IF i.opCode \in {"LB", "LH", "LW"} THEN Signed(ReadMem(addr, size), size * ByteBits)
               ELSE U(ReadMem(addr, size), size * ByteBits))

\* The register that LWL and LWR merge with, a load in progress included
Merged(c, i) == IF c.LoadReg = i.rt THEN c.LoadValueReg ELSE c.r[i.rt]

LWL(c, i) ==
    LET addr == Address(c, i)
        byte == addr % 4
        n == 3 - byte
    IN  IF Translate(addr - byte, 4) # "none"
        THEN Raise(c, Translate(addr - byte, 4), addr - byte)
        ELSE LoadsInto(c, i, BitOr(BitAnd(Merged(c, i), Low(n)),
                                Shl(ReadMem(addr - byte, 4), n * ByteBits)))

LWR(c, i) ==
    LET addr == Address(c, i)
        byte == addr % 4
    IN  IF Translate(addr - byte, 4) # "none"
        THEN Raise(c, Translate(addr - byte, 4), addr - byte)
        ELSE LoadsInto(c, i, BitOr(BitAnd(Merged(c, i), IF byte = 0 THEN 0 ELSE High(4 - byte)),
                                BitAnd(Shr(ReadMem(addr - byte, 4), byte * ByteBits),
                                    Low(4 - byte))))

(***************************************************************************)
(* Mult: shift and add, in two words.                                      *)
(***************************************************************************)
\* Mutant: the carry out of the low word is lost.
AddShiftedMutated(s) ==
    [s EXCEPT !.lo = (s.lo + s.bLo) % 2^W, !.hi = (s.hi + s.bHi) % 2^W]

AddShifted(s) ==
    LET lo == (s.lo + s.bLo) % 2^W
    IN  [s EXCEPT !.lo = lo,
                  !.hi = (s.hi + s.bHi + IF lo < s.bLo THEN 1 ELSE 0) % 2^W]

\* One round of the loop: a's bits one at a time, until none is left.
Round(s) ==
    LET added == IF s.a % 2 = 1 THEN AddShifted(s) ELSE s
    IN  IF s.a % 2 = 1 /\ s.a \in {0, 1} THEN [added EXCEPT !.over = TRUE]
        ELSE [added EXCEPT !.bHi = (2 * s.bHi + (s.bLo \div 2^(W - 1))) % 2^W,
                           !.bLo = (2 * s.bLo) % 2^W,
                           !.a = Shr(s.a, 1)]

Mult(x, y, signedArith) ==
    LET Positive(v) == IF signedArith /\ v < 0 THEN Word(-v) ELSE v
        negative == signedArith /\ (x < 0) # (y < 0)
        start == [a |-> Positive(x), bLo |-> U(Positive(y), W), bHi |-> 0, lo |-> 0,
                  hi |-> 0, over |-> FALSE]
        loop[n \in 0 .. W] ==
            IF n = 0 THEN start ELSE IF loop[n - 1].over THEN loop[n - 1]
            ELSE Round(loop[n - 1])
        end == loop[W]
        lo == IF negative THEN (-end.lo) % 2^W ELSE end.lo
        hi == IF ~negative THEN end.hi
              ELSE (2^W - 1 - end.hi + IF lo = 0 THEN 1 ELSE 0) % 2^W
    IN  IF x = 0 \/ y = 0 THEN [hi |-> 0, lo |-> 0] ELSE [hi |-> Word(hi), lo |-> Word(lo)]

HiLo(c, i) ==
    LET product == Mult(c.r[i.rs], c.r[i.rt], i.opCode = "MULT")
    IN  CASE i.opCode = "MFHI" -> Sets(c, i.rd, c.HiReg)
          [] i.opCode = "MFLO" -> Sets(c, i.rd, c.LoReg)
          [] i.opCode = "MTHI" -> Done([c EXCEPT !.HiReg = c.r[i.rs]])
          [] i.opCode = "MTLO" -> Done([c EXCEPT !.LoReg = c.r[i.rs]])
          [] OTHER -> Done([c EXCEPT !.HiReg = product.hi, !.LoReg = product.lo])

NorOr(c, i) ==
    CASE i.opCode = "NOR" -> Sets(c, i.rd, -1 - BitOr(c.r[i.rs], c.r[i.rt]))
      [] i.opCode = "OR" -> Sets(c, i.rd, BitOr(c.r[i.rs], c.r[i.rt]))
      [] i.opCode = "ORI" -> Sets(c, i.rt, BitOr(c.r[i.rs], BitAnd(i.extra, Low(2))))

\* SB, SH and SW
Store(c, i) ==
    LET size == CASE i.opCode = "SB" -> 1 [] i.opCode = "SH" -> 2 [] OTHER -> 4
        addr == Address(c, i)
    IN  IF Translate(addr, size) # "none" THEN Raise(c, Translate(addr, size), addr)
        ELSE [Done(c) EXCEPT !.mem = WriteMem(addr, size, c.r[i.rt])]

ShiftLeft(c, i) ==
    Sets(c, i.rd, Shl(c.r[i.rt], IF i.opCode = "SLL" THEN i.extra ELSE c.r[i.rs] % W))

SetLess(c, i) ==
    LET b == IF i.opCode \in {"SLT", "SLTU"} THEN c.r[i.rt] ELSE i.extra
        dest == IF i.opCode \in {"SLT", "SLTU"} THEN i.rd ELSE i.rt
        less == IF i.opCode \in {"SLT", "SLTI"} THEN c.r[i.rs] < b
                ELSE U(c.r[i.rs], W) < U(b, W)
    IN  Sets(c, dest, IF less THEN 1 ELSE 0)

\* tmp is an int for SRL and SRLV too.
ShiftRight(c, i) ==
    Sets(c, i.rd, Shr(c.r[i.rt], IF i.opCode \in {"SRA", "SRL"} THEN i.extra
                                 ELSE c.r[i.rs] % W))

Subtract(c, i) ==
    LET rs == c.r[i.rs]
        rt == c.r[i.rt]
        diff == Word(rs - rt)
    IN  IF i.opCode = "SUB" /\ Negative(rs) # Negative(rt) /\ Negative(rs) # Negative(diff)
        THEN Raise(c, "Overflow", 0) ELSE Sets(c, i.rd, diff)

SWL(c, i) ==
    LET addr == Address(c, i)
        byte == addr % 4
        value == BitOr(BitAnd(ReadMem(addr - byte, 4), IF byte = 3 THEN 0 ELSE High(byte + 1)),
                    BitAnd(Shr(c.r[i.rt], (3 - byte) * ByteBits), Low(byte + 1)))
    IN  IF Translate(addr - byte, 4) # "none"
        THEN Raise(c, Translate(addr - byte, 4), addr - byte)
        ELSE [Done(c) EXCEPT !.mem = WriteMem(addr - byte, 4, value)]

SWR(c, i) ==
    LET addr == Address(c, i)
        byte == addr % 4
        value == BitOr(BitAnd(ReadMem(addr - byte, 4), Low(byte)),
                    Shl(c.r[i.rt], byte * ByteBits))
    IN  IF Translate(addr - byte, 4) # "none"
        THEN Raise(c, Translate(addr - byte, 4), addr - byte)
        ELSE [Done(c) EXCEPT !.mem = WriteMem(addr - byte, 4, value)]

Rest(c, i) ==
    CASE i.opCode = "SYSCALL" -> Raise(c, "Syscall", 0)
      [] i.opCode = "XOR" -> Sets(c, i.rd, BitXor(c.r[i.rs], c.r[i.rt]))
      [] i.opCode = "XORI" -> Sets(c, i.rt, BitXor(c.r[i.rs], BitAnd(i.extra, Low(2))))
      [] OTHER -> Raise(c, "IllegalInstr", 0)

Effect(c, i) ==
    LET op == i.opCode
    IN  CASE op \in {"ADD", "ADDI", "ADDIU", "ADDU", "AND", "ANDI"} -> AddAnd(c, i)
          [] op \in {"BEQ", "BGEZAL", "BGEZ", "BGTZ", "BLEZ", "BLTZAL", "BLTZ", "BNE"} ->
               Branch(c, i)
          [] op \in {"DIV", "DIVU"} -> Divide(c, i)
          [] op \in {"J", "JAL", "JR", "JALR"} -> Jump(c, i)
          [] op \in {"LB", "LBU", "LH", "LHU", "LUI", "LW"} -> Load(c, i)
          [] op = "LWL" -> LWL(c, i)
          [] op = "LWR" -> LWR(c, i)
          [] op \in {"MFHI", "MFLO", "MTHI", "MTLO", "MULT", "MULTU"} -> HiLo(c, i)
          [] op \in {"NOR", "OR", "ORI"} -> NorOr(c, i)
          [] op \in {"SB", "SH", "SW"} -> Store(c, i)
          [] op \in {"SLL", "SLLV"} -> ShiftLeft(c, i)
          [] op \in {"SLT", "SLTI", "SLTIU", "SLTU"} -> SetLess(c, i)
          [] op \in {"SRA", "SRAV", "SRL", "SRLV"} -> ShiftRight(c, i)
          [] op \in {"SUB", "SUBU"} -> Subtract(c, i)
          [] op = "SWL" -> SWL(c, i)
          [] op = "SWR" -> SWR(c, i)
          [] OTHER -> Rest(c, i)
-----------------------------------------------------------------------------
(***************************************************************************)
(* RaiseException and ExceptionHandler: finish a load in progress, then    *)
(* fetch the page, serve the system call, or abort.                        *)
(***************************************************************************)
SystemCall(c) ==
    CASE c.r[2] = SC.Halt -> stopped' = "halt" /\ cpu' = c
      [] c.r[2] = SC.Exit -> stopped' = "exit" /\ cpu' = c
      [] c.r[2] = SC.Add ->
           /\ cpu' = [c EXCEPT !.r[2] = Word(c.r[4] + c.r[5]), !.PrevPCReg = c.PCReg,
                               !.PCReg = c.PCReg + 4, !.NextPCReg = c.PCReg + 8]
           /\ UNCHANGED stopped
      [] OTHER -> stopped' = "Unexpected" /\ cpu' = c

\* Mutant: RaiseException drops the load in progress.
FinishLoadMutated(c) == [c EXCEPT !.LoadReg = 0, !.LoadValueReg = 0]

FinishLoad(c) == DelayedLoad(c, 0, 0)

RaiseException(which, badVAddr) ==
    LET c == [FinishLoad(cpu) EXCEPT !.BadVAddrReg = badVAddr]
    IN  CASE which = "PageFault" ->
               /\ cpu' = c /\ resident' = resident \cup {Page(badVAddr)}
               /\ UNCHANGED <<stopped, ref>>
          [] which = "Syscall" -> SystemCall(c) /\ ref' = After(ref, code) /\ UNCHANGED resident
          [] OTHER -> /\ stopped' = which /\ cpu' = c /\ ref' = After(ref, code)
                      /\ UNCHANGED resident

OneInstruction ==
    LET pc == cpu.PCReg
        e == Effect(cpu, Decode(code[pc \div 4 + 1].raw))
    IN  /\ stopped = "no"
        /\ CASE Translate(pc, 4) # "none" ->
                  RaiseException(Translate(pc, 4), pc) /\ UNCHANGED mem
             [] Translate(pc, 4) = "none" /\ e.exc # "none" ->
                  RaiseException(e.exc, e.bad) /\ UNCHANGED mem
             [] OTHER ->
                  /\ cpu' = [DelayedLoad(e.c, e.nextLoadReg, e.nextLoadValue) EXCEPT
                                !.PrevPCReg = pc, !.PCReg = e.c.NextPCReg,
                                !.NextPCReg = e.pcAfter]
                  /\ mem' = e.mem
                  /\ ref' = After(ref, code)
                  /\ UNCHANGED <<resident, stopped>>
        /\ UNCHANGED <<code, evictions>>

\* Another thread's page fault takes the frame of a page.
Evict(p) ==
    /\ stopped = "no" /\ evictions > 0
    /\ p \in resident
    /\ resident' = resident \ {p}
    /\ evictions' = evictions - 1
    /\ UNCHANGED <<code, cpu, mem, stopped, ref>>

\* AddrSpace::InitRegisters; a run may start with other values in r, hi and lo.
InitRegisters(load) ==
    [r |-> load.r, HiReg |-> load.hi, LoReg |-> load.lo, PCReg |-> 0, NextPCReg |-> 4,
     PrevPCReg |-> 0, LoadReg |-> 0, LoadValueReg |-> 0, BadVAddrReg |-> 0]

Init ==
    \E load \in Loads :
        /\ code = load.code
        /\ cpu = InitRegisters(load)
        /\ mem = load.mem
        /\ resident = {} /\ evictions = load.evictions /\ stopped = "no"
        /\ ref = [r |-> load.r, hi |-> load.hi, lo |-> load.lo, pc |-> 0, npc |-> 4,
                  mem |-> load.mem, exc |-> "no"]

Stopped == stopped # "no" /\ UNCHANGED vars

Next == OneInstruction \/ (\E p \in resident : Evict(p)) \/ Stopped

Spec == Init /\ [][Next]_vars
-----------------------------------------------------------------------------
(***************************************************************************)
(* A program sees the processor of the manual: whatever pages are missing, *)
(* in whichever instruction, branch delay slots and unaligned accesses     *)
(* included, each instruction takes effect once, and leaves in registers   *)
(* and memory what MIPSManual.tla says.  The program keeps the rule      *)
(* of the delayed load: the instruction after a load does not use its      *)
(* register, unless it is LWL or LWR.                                      *)
(***************************************************************************)
MatchesReference ==
    LET c == DelayedLoad(cpu, 0, 0)
    IN  /\ c.r = ref.r /\ c.HiReg = ref.hi /\ c.LoReg = ref.lo
        /\ mem = ref.mem
        /\ stopped = ref.exc
        /\ stopped = "no" => c.PCReg = ref.pc /\ c.NextPCReg = ref.npc
=============================================================================
