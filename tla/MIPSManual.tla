---------------------------- MODULE MIPSManual ----------------------------
(***************************************************************************)
(* What the instructions of the simulated processor mean, in integers,     *)
(* sets of bits and single bytes: the manual that machine/mipssim.cc is    *)
(* written from.  A word has four bytes of ByteBits bits; a load takes     *)
(* effect at once, and nothing faults.                                     *)
(***************************************************************************)
EXTENDS Integers, Sequences, FiniteSetsExt

CONSTANTS ByteBits,
          R31,                  \* the register of the return address
          Data                  \* the addresses of the program's data

\* The numbers of the system calls (that of Add is 42, more than fits in an
\* immediate operand here)
SC == [Halt |-> 0, Exit |-> 1, Exec |-> 2, Join |-> 3, Create |-> 4, Remove |-> 5,
       Open |-> 6, Read |-> 7, Write |-> 8, Seek |-> 9, Close |-> 10, Delete |-> 11,
       ThreadFork |-> 12, ThreadYield |-> 13, ExecV |-> 14, ThreadExit |-> 15,
       ThreadJoin |-> 16, getSpaceID |-> 17, getThreadID |-> 18, Ipc |-> 19,
       Clock |-> 20, Add |-> 21]

W == 4 * ByteBits
U(x, bits) == x % 2^bits
Signed(x, bits) == IF U(x, bits) >= 2^(bits - 1) THEN U(x, bits) - 2^bits ELSE U(x, bits)
Word(x) == Signed(x, W)

Bytes(m, addr, size) ==
    LET sum[k \in 0 .. size] ==
            IF k = 0 THEN 0 ELSE sum[k - 1] + m[addr + k - 1] * 2^((k - 1) * ByteBits)
    IN  sum[size]

InRange(x) == x \in -(2^(W - 1)) .. 2^(W - 1) - 1
BitsOf(x) == {k \in 0 .. W - 1 : (U(x, W) \div 2^k) % 2 = 1}
OfBits(bits) == Word(MapThenSumSet(LAMBDA k : 2^k, bits))
ByteOf(x, k) == (U(x, W) \div 2^(k * ByteBits)) % 2^ByteBits
OfBytes(b) == Word(Bytes(b, 0, 4))

\* The result of an instruction that computes one, from its operands a and b;
\* for shifts, b is the amount.
Computed(op, a, b) ==
    CASE op \in {"ADD", "ADDI", "ADDU", "ADDIU"} -> a + b
      [] op \in {"SUB", "SUBU"} -> a - b
      [] op \in {"AND", "ANDI"} -> OfBits(BitsOf(a) \cap BitsOf(b))
      [] op \in {"OR", "ORI"} -> OfBits(BitsOf(a) \cup BitsOf(b))
      [] op \in {"XOR", "XORI"} -> OfBits((BitsOf(a) \cup BitsOf(b)) \ (BitsOf(a) \cap BitsOf(b)))
      [] op = "NOR" -> OfBits((0 .. W - 1) \ (BitsOf(a) \cup BitsOf(b)))
      [] op \in {"SLT", "SLTI"} -> IF a < b THEN 1 ELSE 0
      [] op \in {"SLTU", "SLTIU"} -> IF U(a, W) < U(b, W) THEN 1 ELSE 0
      [] op \in {"SLL", "SLLV"} -> OfBits({k + b : k \in BitsOf(a)} \cap (0 .. W - 1))
      [] op \in {"SRL", "SRLV"} -> OfBits({k - b : k \in BitsOf(a)} \cap (0 .. W - 1))
      [] op \in {"SRA", "SRAV"} ->
           OfBits({k \in 0 .. W - 1 : (IF k + b > W - 1 THEN W - 1 ELSE k + b) \in BitsOf(a)})
      [] op = "LUI" -> b * 2^(2 * ByteBits)

\* What HI and LO hold after a multiplication or a division
HiLoOf(op, a, b) ==
    LET x == IF op \in {"MULT", "DIV"} THEN a ELSE U(a, W)
        y == IF op \in {"MULT", "DIV"} THEN b ELSE U(b, W)
        Sign(v) == IF v < 0 THEN -1 ELSE 1
        size == (x * Sign(x)) \div (y * Sign(y))
        q == CHOOSE n \in {size, -size} :
                 LET left == x - n * y
                 IN  left * Sign(x) >= 0 /\ left * Sign(x) < y * Sign(y)
    IN  CASE op \in {"MULT", "MULTU"} -> [hi |-> Word((x * y) \div 2^W), lo |-> Word(x * y)]
          [] op \in {"DIV", "DIVU"} /\ y = 0 -> [hi |-> 0, lo |-> 0]
          [] OTHER -> [hi |-> Word(x - q * y), lo |-> Word(q)]

\* What a load leaves in a register that held old, and a store of v in memory
Loaded(op, m, a, old) ==
    LET Size == CASE op \in {"LB", "LBU"} -> 1 [] op \in {"LH", "LHU"} -> 2 [] OTHER -> 4
    IN  CASE op \in {"LB", "LH", "LW"} -> Signed(Bytes(m, a, Size), Size * ByteBits)
          [] op \in {"LBU", "LHU"} -> Bytes(m, a, Size)
          [] op = "LWL" -> OfBytes([k \in 0 .. 3 |-> IF k >= 3 - (a % 4) THEN m[a - (3 - k)]
                                                     ELSE ByteOf(old, k)])
          [] op = "LWR" -> OfBytes([k \in 0 .. 3 |-> IF k <= 3 - (a % 4) THEN m[a + k]
                                                     ELSE ByteOf(old, k)])

Stored(op, m, a, v) ==
    LET base == a - (a % 4)
        Byte(x) == IF op = "SWL" THEN ByteOf(v, 3 - (a - x)) ELSE ByteOf(v, x - a)
        bytes == CASE op = "SB" -> {a} [] op = "SH" -> {a, a + 1} [] op = "SW" -> a .. a + 3
                   [] op = "SWL" -> base .. a [] op = "SWR" -> a .. base + 3
    IN  [x \in Data |-> IF x \in bytes THEN Byte(x) ELSE m[x]]

Taken(op, a, b) ==
    CASE op = "BEQ" -> a = b [] op = "BNE" -> a # b [] op = "BGTZ" -> a > 0
      [] op = "BLEZ" -> a <= 0 [] op \in {"BGEZ", "BGEZAL"} -> a >= 0
      [] op \in {"BLTZ", "BLTZAL"} -> a < 0 [] OTHER -> TRUE

\* The state after the next instruction, which is code[...].asm = [op, s, t, d, imm].
After(x, code) ==
    LET i == code[x.pc \div 4 + 1].asm
        op == i.op
        a == x.r[i.s]
        b == x.r[i.t]
        addr == Word(a + i.imm)
        next == [x EXCEPT !.pc = x.npc, !.npc = @ + 4]
        Into(reg, v) == [next EXCEPT !.r = [@ EXCEPT ![reg] = IF reg = 0 THEN 0 ELSE Word(v)]]
        Stop(why) == [x EXCEPT !.exc = why]
        Unaligned(n) == addr % n # 0
        zeroExtended == U(i.imm, 2 * ByteBits)
    IN  CASE op \in {"ADD", "SUB"} /\ ~InRange(Computed(op, a, b)) -> Stop("Overflow")
          [] op = "ADDI" /\ ~InRange(Computed(op, a, i.imm)) -> Stop("Overflow")
          [] op \in {"LH", "LHU", "SH"} /\ Unaligned(2) -> Stop("AddressError")
          [] op \in {"LW", "SW"} /\ Unaligned(4) -> Stop("AddressError")
          [] op \in {"SLL", "SRL", "SRA"} -> Into(i.d, Computed(op, b, i.imm))
          [] op \in {"SLLV", "SRLV", "SRAV"} -> Into(i.d, Computed(op, b, a % W))
          [] op \in {"ADD", "ADDU", "SUB", "SUBU", "AND", "OR", "XOR", "NOR", "SLT", "SLTU"} ->
               Into(i.d, Computed(op, a, b))
          [] op \in {"ADDI", "ADDIU", "SLTI", "SLTIU", "LUI"} -> Into(i.t, Computed(op, a, i.imm))
          [] op \in {"ANDI", "ORI", "XORI"} -> Into(i.t, Computed(op, a, zeroExtended))
          [] op \in {"MULT", "MULTU", "DIV", "DIVU"} ->
               [next EXCEPT !.hi = HiLoOf(op, a, b).hi, !.lo = HiLoOf(op, a, b).lo]
          [] op = "MFHI" -> Into(i.d, x.hi)
          [] op = "MFLO" -> Into(i.d, x.lo)
          [] op = "MTHI" -> [next EXCEPT !.hi = a]
          [] op = "MTLO" -> [next EXCEPT !.lo = a]
          [] op \in {"LB", "LBU", "LH", "LHU", "LW", "LWL", "LWR"} ->
               Into(i.t, Loaded(op, x.mem, addr, b))
          [] op \in {"SB", "SH", "SW", "SWL", "SWR"} ->
               [next EXCEPT !.mem = Stored(op, x.mem, addr, b)]
          [] op \in {"BEQ", "BNE", "BGTZ", "BLEZ", "BGEZ", "BLTZ"} ->
               [next EXCEPT !.npc = IF Taken(op, a, b) THEN x.npc + 4 * i.imm ELSE @]
          [] op \in {"BGEZAL", "BLTZAL"} ->
               [Into(R31, x.npc + 4) EXCEPT !.npc = IF Taken(op, a, b) THEN x.npc + 4 * i.imm ELSE @]
          [] op = "J" -> [next EXCEPT !.npc = 4 * i.imm]
          [] op = "JAL" -> [Into(R31, x.npc + 4) EXCEPT !.npc = 4 * i.imm]
          [] op = "JR" -> [next EXCEPT !.npc = a]
          [] op = "JALR" -> [Into(i.d, x.npc + 4) EXCEPT !.npc = a]
          [] op = "SYSCALL" /\ x.r[2] = SC.Add -> Into(2, x.r[4] + x.r[5])
          [] op = "SYSCALL" /\ x.r[2] = SC.Halt -> Stop("halt")
          [] op = "SYSCALL" /\ x.r[2] = SC.Exit -> Stop("exit")
          [] op = "SYSCALL" -> Stop("Unexpected")
          [] OTHER -> Stop("IllegalInstr")
-----------------------------------------------------------------------------
(***************************************************************************)
(* Programs for MIPS.tla with words of 12 bits: every instruction by       *)
(* itself, on operands at the edges of the range, programs in which loads, *)
(* branches, jumps and unaligned accesses meet page faults, and programs   *)
(* that make each system call through the stubs of test/start.s.           *)
(* Instructions are written as in assembly language and encoded with the   *)
(* numbers of the manual.                                                  *)
(***************************************************************************)
GPRegs == 0 .. 6

Major == [J |-> 2, JAL |-> 3, BEQ |-> 4, BNE |-> 5, BLEZ |-> 6, BGTZ |-> 7, ADDI |-> 8,
          ADDIU |-> 9, SLTI |-> 10, SLTIU |-> 11, ANDI |-> 12, ORI |-> 13, XORI |-> 14,
          LUI |-> 15, LB |-> 32, LH |-> 33, LWL |-> 34, LW |-> 35, LBU |-> 36, LHU |-> 37,
          LWR |-> 38, SB |-> 40, SH |-> 41, SWL |-> 42, SW |-> 43, SWR |-> 46, LL |-> 48]
Funct == [SLL |-> 0, SRL |-> 2, SRA |-> 3, SLLV |-> 4, SRLV |-> 6, SRAV |-> 7, JR |-> 8,
          JALR |-> 9, SYSCALL |-> 12, MFHI |-> 16, MTHI |-> 17, MFLO |-> 18, MTLO |-> 19,
          MULT |-> 24, MULTU |-> 25, DIV |-> 26, DIVU |-> 27, ADD |-> 32, ADDU |-> 33,
          SUB |-> 34, SUBU |-> 35, AND |-> 36, OR |-> 37, XOR |-> 38, NOR |-> 39,
          SLT |-> 42, SLTU |-> 43]
Bconds == [BLTZ |-> 0, BGEZ |-> 1, BLTZAL |-> 16, BGEZAL |-> 17]

Shifts == {"SLL", "SRL", "SRA"}

\* op with the fields s, t, d and the immediate value, shift or target
I(op, s, t, d, imm) ==
    [asm |-> [op |-> op, s |-> s, t |-> t, d |-> d, imm |-> imm],
     raw |-> [op |-> IF op \in DOMAIN Major THEN Major[op]
                     ELSE IF op \in DOMAIN Bconds THEN 1 ELSE 0,
              rs |-> s, rd |-> d, shamt |-> imm, index |-> imm,
              rt |-> IF op \in DOMAIN Bconds THEN Bconds[op] ELSE t,
              funct |-> IF op \in DOMAIN Funct THEN Funct[op] ELSE 0,
              imm |-> U(imm, 2 * ByteBits)]]

Nop == I("SLL", 0, 0, 0, 0)
Syscall == I("SYSCALL", 0, 0, 0, 0)
-----------------------------------------------------------------------------
\* Up to MaxEvictions pages go away while a program runs.
MaxEvictions == 2

Run(instrs, r1, r3) ==
    [code |-> instrs, evictions |-> MaxEvictions,
     r |-> [k \in GPRegs |-> IF k = 1 THEN r1 ELSE IF k = 3 THEN r3 ELSE 0],
     hi |-> 5, lo |-> -6, mem |-> [a \in Data |-> (a * a + 3 * (a \div 4) + 2) % 2^ByteBits]]

Top == 2^(W - 1)
Edges == {-Top, 1 - Top, -77, -2, -1, 0, 1, 3, Top \div 2, Top - 2, Top - 1}
ShiftBy == {0, 1, 3, W - 1}
Base == 140         \* near the end of the first page of data
Immediates == {-8, -1, 0, 1, 7}

\* The host traps on the first; the second is the subject of a note in the README.
Excluded(op, a, b) ==
    \/ op = "DIV" /\ a = -Top /\ b = -1
    \/ op \in {"SRL", "SRLV"} /\ b < 0

\* One instruction, which may have to be started again if it uses memory
Accesses == {"LB", "LBU", "LH", "LHU", "LW", "LWL", "LWR", "SB", "SH", "SW", "SWL", "SWR"}

Single(i, a, b) ==
    [Run(<<i, Nop, Syscall>>, a, b) EXCEPT !.evictions = IF i.asm.op \in Accesses THEN @ ELSE 0]

Singles ==
    {Single(I(op, 1, 3, 4, 0), a, b) :
        op \in DOMAIN Funct \ (Shifts \cup {"JR", "JALR", "SYSCALL", "DIV", "SRLV"}),
        a \in Edges, b \in Edges}
    \cup {Single(I(op, 1, 3, 4, 0), x[1], x[2]) :
        op \in {"DIV", "SRLV"},
        x \in {y \in Edges \X Edges : ~Excluded("DIV", y[1], y[2]) /\ ~Excluded("SRL", y[1], y[2])}}
    \cup {Single(I(op, 0, 3, 4, k), 0, b) : op \in {"SLL", "SRA"}, k \in ShiftBy, b \in Edges}
    \cup {Single(I("SRL", 0, 3, 4, k), 0, b) : k \in ShiftBy, b \in Edges \cap Nat}
    \cup {Single(I(op, 1, 3, 0, k), a, 9) : k \in Immediates, a \in Edges,
        op \in {"ADDI", "ADDIU", "SLTI", "SLTIU", "ANDI", "ORI", "XORI", "LUI"}}
    \cup {Single(I(op, 1, 3, 0, k), Base, b) : k \in 0 .. 6, b \in {-77, 27},
        op \in Accesses}
    \cup {Run(<<I(op, 1, 3, 0, 2), Nop, Syscall, Syscall>>, a, b) : a, b \in {-1, 0, 1},
        op \in {"BEQ", "BNE", "BLEZ", "BGTZ", "BLTZ", "BGEZ", "BLTZAL", "BGEZAL"}}
    \cup {Single(I("LL", 1, 3, 0, 0), Base, 0)}

\* Unaligned words across two pages, loaded and stored
Unaligned(k) ==
    Run(<<I("LWL", 1, 3, 0, k + 3), I("LWR", 1, 3, 0, k), I("LW", 1, 4, 0, -4),
          I("SWR", 1, 3, 0, k - 4), I("SWL", 1, 3, 0, k - 1), I("LW", 1, 5, 0, 4), Syscall>>,
        Base, -1)

\* A load in the delay slot of a branch, and a store in that of a jump back
Loop == Run(<<I("ADDIU", 0, 3, 0, 2), I("ADDIU", 3, 3, 0, -1), I("BGTZ", 3, 0, 0, -2),
              I("LW", 1, 4, 0, 4), I("J", 0, 0, 0, 7), I("SW", 1, 4, 0, 0), Syscall, Syscall>>,
            Base, 0)

\* A call whose delay slots access memory, and a system call with a result
Call == Run(<<I("JAL", 0, 0, 0, 6), I("LB", 1, 4, 0, 3), I("ADDIU", 0, 2, 0, SC.Add), Syscall,
              I("SUBU", 2, 2, 2, 0), Syscall,
              I("ADDIU", 6, 3, 0, 0), I("JR", 3, 0, 0, 0), I("LH", 1, 5, 0, 6)>>, Base, 0)

\* An address in a register, and results of HI and LO
CallRegister == Run(<<I("ADDIU", 0, 4, 0, 5), I("SLL", 0, 4, 4, 2), I("JALR", 4, 0, 5, 0),
                      I("MULT", 1, 3, 0, 0), Syscall, I("MFHI", 0, 0, 3, 0),
                      I("JR", 5, 0, 0, 0), I("MFLO", 0, 0, 4, 0)>>, Base, -77)

\* A system call that does not exist
Unknown == Run(<<I("ADDIU", 0, 2, 0, 22), Syscall>>, 0, 0)
-----------------------------------------------------------------------------
(***************************************************************************)
(* test/start.s, with the delay slots that the assembler fills.  $31 is    *)
(* R31, and the stack pointer $29 is register 1.                           *)
(***************************************************************************)
\* __start, with main and Exit at these instructions
Start(main, exit) ==
    <<I("JAL", 0, 0, 0, main), Nop, I("ADDU", 0, 0, 4, 0), I("JAL", 0, 0, 0, exit), Nop>>

\* The stub of a system call; all of them are alike.
Stub(call) == <<I("ADDIU", 0, 2, 0, SC[call]), Syscall, I("JR", R31, 0, 0, 0), Nop>>

\* main of test/add.c, or the same with another call at instruction stub
AddMain(stub) ==
    <<I("ADDIU", 1, 1, 0, -4), I("SW", 1, R31, 0, 0), I("ADDIU", 0, 4, 0, 21),
      I("JAL", 0, 0, 0, stub), I("ADDIU", 0, 5, 0, 23), I("LW", 1, R31, 0, 0),
      I("ADDU", 0, 0, 2, 0), I("JR", R31, 0, 0, 0), I("ADDIU", 1, 1, 0, 4)>>

UserProgram(call) == Run(Start(5, 14) \o AddMain(18) \o Stub("Exit") \o Stub(call), Base, 0)

ProgramTexts == Singles \cup {Unaligned(k) : k \in 0 .. 3} \cup {Loop, Call, CallRegister, Unknown}
         \cup {UserProgram(call) : call \in DOMAIN SC}
=============================================================================
