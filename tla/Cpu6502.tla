------------------------------- MODULE Cpu6502 -------------------------------
(***************************************************************************)
(* The processor, src/common/cpu6502.c.                                    *)
(*                                                                         *)
(* An instruction is a record: its operation, its addressing mode and its  *)
(* operand (arg, a signed distance for a branch).  The flags are a set of  *)
(* letters, a byte only on the stack.  Programs run from ROM, where the    *)
(* fetch and the bus agree on what an address holds.                       *)
(***************************************************************************)
EXTENDS Bus

VectorNmi == 65530
VectorReset == 65532
VectorIrq == 65534

FlagOrder == <<"C", "Z", "I", "D", "B", "U", "V", "N">>
Flags == {FlagOrder[n] : n \in 1 .. 8}

If01(b) == IF b THEN 1 ELSE 0
Bitwise8(Op(_, _), a, b) ==
  LET sum[n \in 0 .. 8] ==
        IF n = 0 THEN 0 ELSE sum[n - 1] + 2^(n - 1) * Op(Bit(a, n - 1), Bit(b, n - 1))
  IN  sum[8]
And8(a, b) == LET Both(x, y) == x * y IN Bitwise8(Both, a, b)
Or8(a, b) == LET Either(x, y) == If01(x + y > 0) IN Bitwise8(Either, a, b)
Xor8(a, b) == LET One(x, y) == If01(x # y) IN Bitwise8(One, a, b)

PackFlags(p) ==
  LET sum[n \in 0 .. 8] ==
        IF n = 0 THEN 0 ELSE sum[n - 1] + If01(FlagOrder[n] \in p) * 2^(n - 1)
  IN  sum[8]
UnpackFlags(v) == {f \in Flags : \E n \in 1 .. 8 : FlagOrder[n] = f /\ Bit(v, n - 1) = 1}

SetIf(p, f, holds) == IF holds THEN p \union {f} ELSE p \ {f}
SetZN(p, v) == SetIf(SetIf(p, "Z", v = 0), "N", v > 127)

-----------------------------------------------------------------------------
(* Arithmetic, on the registers c and a value v. *)

Cmp(c, reg, v) == [c EXCEPT !.p = SetZN(SetIf(@, "C", reg >= v), (reg - v) % 256)]

Adc(c, v) ==
  LET sum == c.a + v + If01("C" \in c.p)
      Overflows(r) == (c.a > 127) # (r > 127) /\ (v > 127) # (r > 127)
      Summed(r) == [c EXCEPT !.a = r,
                       !.p = SetZN(SetIf(SetIf(@, "C", sum > 255), "V", Overflows(r)), r)]
  IN  Summed(sum % 256)

Sbc(c, v) == Adc(c, 255 - v)

\* Shifts: the value, and the flags it leaves.
Shift(op, p, v) ==
  LET right == op \in {"LSR", "ROR"}
      old == If01("C" \in p /\ op \in {"ROL", "ROR"})
      r == IF right THEN (v \div 2) + (128 * old) ELSE ((2 * v) % 256) + old
      carry == IF right THEN v % 2 = 1 ELSE v > 127
  IN  [v |-> r, p |-> SetZN(SetIf(p, "C", carry), r)]

LoadA(c, v) == [c EXCEPT !.a = v, !.p = SetZN(@, v)]
LoadX(c, v) == [c EXCEPT !.x = v, !.p = SetZN(@, v)]
LoadY(c, v) == [c EXCEPT !.y = v, !.p = SetZN(@, v)]

Shifted(c, s) == [c EXCEPT !.a = s.v, !.p = s.p]
Arr(c, s) ==
  [c EXCEPT !.a = s.v,
     !.p = SetIf(SetIf(s.p, "C", Bit(s.v, 6) = 1), "V", Bit(s.v, 6) # Bit(s.v, 5))]
CarryIsN(c) == [c EXCEPT !.p = SetIf(@, "C", "N" \in @)]

\* Operations that use a value from memory or from the instruction.
Loads(c, op, v) ==
  CASE op = "LDA" -> LoadA(c, v)
    [] op = "LDX" -> LoadX(c, v)
    [] op = "LDY" -> LoadY(c, v)
    [] op = "LAX" -> LoadX(LoadA(c, v), v)
    [] op = "ORA" -> LoadA(c, Or8(c.a, v))
    [] op = "AND" -> LoadA(c, And8(c.a, v))
    [] op = "EOR" -> LoadA(c, Xor8(c.a, v))
    [] op = "ADC" -> Adc(c, v)
    [] op = "SBC" -> Sbc(c, v)
    [] op = "CMP" -> Cmp(c, c.a, v)
    [] op = "CPX" -> Cmp(c, c.x, v)
    [] op = "CPY" -> Cmp(c, c.y, v)
    [] op = "BIT" -> [c EXCEPT !.p = SetIf(SetIf(SetIf(@, "Z", And8(c.a, v) = 0),
                                                 "N", v > 127), "V", Bit(v, 6) = 1)]
    [] op = "ANC" -> CarryIsN(LoadA(c, And8(c.a, v)))
    [] op = "ALR" -> Shifted(c, Shift("LSR", c.p, And8(c.a, v)))
    [] op = "ARR" -> Arr(c, Shift("ROR", c.p, And8(c.a, v)))
    [] op = "AXS" -> [Cmp(c, And8(c.a, c.x), v) EXCEPT !.x = (And8(c.a, c.x) - v) % 256]
    [] op = "NOP" -> c

\* Operations that change a byte of memory: its value and the registers
\* after.  What an operation does to the byte, and then with it.
Changed(op, p, v) ==
  CASE op \in {"INC", "ISB"} -> [v |-> (v + 1) % 256, p |-> p]
    [] op \in {"DEC", "DCP"} -> [v |-> (v - 1) % 256, p |-> p]
    [] op \in {"ASL", "SLO"} -> Shift("ASL", p, v)
    [] op \in {"ROL", "RLA"} -> Shift("ROL", p, v)
    [] op \in {"LSR", "SRE"} -> Shift("LSR", p, v)
    [] op \in {"ROR", "RRA"} -> Shift("ROR", p, v)

Combined(c, op, v) ==
  CASE op \in {"ASL", "LSR", "ROL", "ROR"} -> c
    [] op \in {"INC", "DEC"} -> [c EXCEPT !.p = SetZN(@, v)]
    [] op = "SLO" -> LoadA(c, Or8(c.a, v))
    [] op = "RLA" -> LoadA(c, And8(c.a, v))
    [] op = "SRE" -> LoadA(c, Xor8(c.a, v))
    [] op = "RRA" -> Adc(c, v)
    [] op = "DCP" -> Cmp(c, c.a, v)
    [] op = "ISB" -> Sbc(c, v)

Changes(c, op, v) ==
  LET After(byte) == [v |-> byte.v, c |-> Combined([c EXCEPT !.p = byte.p], op, byte.v)]
  IN  After(Changed(op, c.p, v))

Stored(c, op) ==
  CASE op = "STA" -> c.a [] op = "STX" -> c.x [] op = "STY" -> c.y
    [] op = "SAX" -> And8(c.a, c.x)

SetsFlag == [SEC |-> "C", SEI |-> "I", SED |-> "D"]
ClearsFlag == [CLC |-> "C", CLI |-> "I", CLD |-> "D", CLV |-> "V"]

\* Operations on registers alone.
Implied(c, op) ==
  CASE op = "TAX" -> LoadX(c, c.a)
    [] op = "TAY" -> LoadY(c, c.a)
    [] op = "TXA" -> LoadA(c, c.x)
    [] op = "TYA" -> LoadA(c, c.y)
    [] op = "TSX" -> LoadX(c, c.sp)
    [] op = "TXS" -> [c EXCEPT !.sp = c.x]
    [] op = "INX" -> LoadX(c, (c.x + 1) % 256)
    [] op = "INY" -> LoadY(c, (c.y + 1) % 256)
    [] op = "DEX" -> LoadX(c, (c.x - 1) % 256)
    [] op = "DEY" -> LoadY(c, (c.y - 1) % 256)
    [] op \in DOMAIN SetsFlag -> [c EXCEPT !.p = @ \union {SetsFlag[op]}]
    [] op \in DOMAIN ClearsFlag -> [c EXCEPT !.p = @ \ {ClearsFlag[op]}]
    [] op = "NOP" -> c
-----------------------------------------------------------------------------
(* Addresses and the cycles they take. *)

Indexed == {"absx", "absy", "indy"}
Memory == {"zp", "zpx", "zpy", "abs", "indx"} \union Indexed

Length(mode) ==
  CASE mode \in {"imp", "acc"} -> 1
    [] mode \in {"imm", "zp", "zpx", "zpy", "indx", "indy", "rel"} -> 2
    [] mode \in {"abs", "absx", "absy", "ind"} -> 3

\* A pointer in the zero page, which it does not leave.
ZeroWord(m, z) == At(m.ram, z) + 256 * At(m.ram, (z + 1) % 256)

Base(m, i) == IF i.mode = "indy" THEN ZeroWord(m, i.arg) ELSE i.arg
Index(c, mode) == IF mode = "absx" THEN c.x ELSE c.y

Address(m, i) ==
  CASE i.mode \in {"zp", "abs"} -> i.arg
    [] i.mode = "zpx" -> (i.arg + m.cpu.x) % 256
    [] i.mode = "zpy" -> (i.arg + m.cpu.y) % 256
    [] i.mode = "indx" -> ZeroWord(m, (i.arg + m.cpu.x) % 256)
    [] i.mode \in Indexed -> (Base(m, i) + Index(m.cpu, i.mode)) % 65536

StoreCycles(mode) ==
  CASE mode \in {"imm", "acc"} -> 2
    [] mode = "zp" -> 3
    [] mode \in {"zpx", "zpy", "abs"} -> 4
    [] mode \in {"absx", "absy"} -> 5
    [] mode \in {"indx", "indy"} -> 6

LoadCycles(m, i) ==
  IF i.mode \in Indexed /\ Base(m, i) \div 256 = Address(m, i) \div 256
  THEN StoreCycles(i.mode) - 1 ELSE StoreCycles(i.mode)

ChangeCycles(mode) == StoreCycles(mode) + (IF mode = "acc" THEN 0 ELSE 2)

-----------------------------------------------------------------------------
(* The stack, in page 1. *)

Push(m, v) == [m EXCEPT !.ram = Put(@, 256 + m.cpu.sp, v), !.cpu.sp = (@ - 1) % 256]
PushWord(m, v) == Push(Push(m, v \div 256), v % 256)
Top(m, n) == At(m.ram, 256 + ((m.cpu.sp + n) % 256))
Drop(m, n) == [m EXCEPT !.cpu.sp = (@ + n) % 256]
TopWord(m, n) == Top(m, n) + 256 * Top(m, n + 1)
PulledFlags(v) == (UnpackFlags(v) \ {"B"}) \union {"U"}

ReadWord(m, lo, hi) ==
  LET Word(first, second) == Result(second.m, first.v + 256 * second.v)
      High(first) == Word(first, BusRead(first.m, hi))
  IN  High(BusRead(m, lo))
JumpTo(to) == [to.m EXCEPT !.cpu.pc = to.v]

-----------------------------------------------------------------------------
(* Instructions.  Each gives the console after it and the cycles it took;  *)
(* the program counter already points past it.                             *)

Took(m, cycles) == [m |-> m, cycles |-> cycles]

DoLoad(m, i) ==
  LET Loaded(r) == [r.m EXCEPT !.cpu = Loads(@, i.op, r.v)]
  IN  Took(Loaded(CASE i.mode = "imm" -> Result(m, i.arg)
                    [] i.mode # "imm" /\ i.op = "NOP" -> Result(m, 0)   \* reads nothing
                    [] OTHER -> BusRead(m, Address(m, i))),
           LoadCycles(m, i))

DoStore(m, i) == Took(BusWrite(m, Address(m, i), Stored(m.cpu, i.op)), StoreCycles(i.mode))

DoChange(m, i) ==
  LET InA(done) == [m EXCEPT !.cpu = [done.c EXCEPT !.a = done.v]]
      InMemory(at, done) == BusWrite([at EXCEPT !.cpu = done.c], Address(m, i), done.v)
      Back(r) == InMemory(r.m, Changes(r.m.cpu, i.op, r.v))
  IN  Took(IF i.mode = "acc" THEN InA(Changes(m.cpu, i.op, m.cpu.a))
           ELSE Back(BusRead(m, Address(m, i))),
           ChangeCycles(i.mode))

Holds(p, op) ==
  CASE op = "BPL" -> "N" \notin p [] op = "BMI" -> "N" \in p
    [] op = "BVC" -> "V" \notin p [] op = "BVS" -> "V" \in p
    [] op = "BCC" -> "C" \notin p [] op = "BCS" -> "C" \in p
    [] op = "BNE" -> "Z" \notin p [] op = "BEQ" -> "Z" \in p

DoBranch(m, i) ==
  LET to == (m.cpu.pc + i.arg) % 65536
  IN  IF ~Holds(m.cpu.p, i.op) THEN Took(m, 2)
      ELSE Took([m EXCEPT !.cpu.pc = to], IF to \div 256 = m.cpu.pc \div 256 THEN 3 ELSE 4)

DoJump(m, i) ==
  LET next == IF i.arg % 256 = 255 THEN i.arg - 255 ELSE i.arg + 1   \* stays in the page
  IN  IF i.mode = "abs" THEN Took([m EXCEPT !.cpu.pc = i.arg], 3)
      ELSE Took(JumpTo(ReadWord(m, i.arg, next)), 5)

(* Mutant: the handler's flags are kept.                                   *)
ReturnedKeepingFlags(m) == [Drop(m, 3) EXCEPT !.cpu.pc = TopWord(m, 2)]

Returned(m) ==
  [Drop(m, 3) EXCEPT !.cpu.pc = TopWord(m, 2), !.cpu.p = PulledFlags(Top(m, 1))]

DoStack(m, i) ==
  CASE i.op = "JSR" -> Took([PushWord(m, (m.cpu.pc - 1) % 65536) EXCEPT !.cpu.pc = i.arg], 6)
    [] i.op = "RTS" -> Took([Drop(m, 2) EXCEPT !.cpu.pc = (TopWord(m, 1) + 1) % 65536], 6)
    [] i.op = "RTI" -> Took(Returned(m), 6)
    [] i.op = "PHA" -> Took(Push(m, m.cpu.a), 3)
    [] i.op = "PHP" -> Took(Push(m, PackFlags(m.cpu.p \union {"B", "U"})), 3)
    [] i.op = "PLA" -> Took([Drop(m, 1) EXCEPT !.cpu = LoadA(@, Top(m, 1))], 4)
    [] i.op = "PLP" -> Took([Drop(m, 1) EXCEPT !.cpu.p = PulledFlags(Top(m, 1))], 4)

Branches == {"BPL", "BMI", "BVC", "BVS", "BCC", "BCS", "BNE", "BEQ"}
Registers == {"TAX", "TAY", "TXA", "TYA", "TSX", "TXS", "INX", "INY", "DEX", "DEY"}
             \union DOMAIN SetsFlag \union DOMAIN ClearsFlag
StackOps == {"JSR", "RTS", "RTI", "PHA", "PHP", "PLA", "PLP"}
StoreOps == {"STA", "STX", "STY", "SAX"}
ChangeOps == {"ASL", "LSR", "ROL", "ROR", "INC", "DEC", "SLO", "RLA", "SRE", "RRA", "DCP", "ISB"}
LoadOps == {"LDA", "LDX", "LDY", "LAX", "ORA", "AND", "EOR", "ADC", "SBC", "CMP", "CPX", "CPY",
            "BIT", "ANC", "ALR", "ARR", "AXS", "NOP"}
Operations == LoadOps \union StoreOps \union ChangeOps \union Branches \union Registers
              \union StackOps \union {"JMP", "BRK", "JAM"}

\* The addressing modes that the switch has a case for.
AllLoads == {"imm", "zp", "zpx", "abs", "absx", "absy", "indx", "indy"}
ModesOf(op) ==
  CASE op \in {"ORA", "AND", "EOR", "ADC", "SBC", "LDA", "CMP"} -> AllLoads
    [] op \in {"SLO", "RLA", "SRE", "RRA", "DCP", "ISB", "STA"} -> AllLoads \ {"imm"}
    [] op \in {"ASL", "LSR", "ROL", "ROR"} -> {"acc", "zp", "zpx", "abs", "absx"}
    [] op \in {"INC", "DEC"} -> {"zp", "zpx", "abs", "absx"}
    [] op = "LAX" -> {"imm", "zp", "zpy", "abs", "absy", "indx", "indy"}
    [] op = "LDX" -> {"imm", "zp", "zpy", "abs", "absy"}
    [] op = "LDY" -> {"imm", "zp", "zpx", "abs", "absx"}
    [] op \in {"CPX", "CPY"} -> {"imm", "zp", "abs"}
    [] op = "BIT" -> {"zp", "abs"}
    [] op \in {"ANC", "ALR", "ARR", "AXS"} -> {"imm"}
    [] op = "NOP" -> {"imp", "imm", "zp", "zpx", "abs", "absx"}
    [] op = "STX" -> {"zp", "zpy", "abs"}
    [] op = "STY" -> {"zp", "zpx", "abs"}
    [] op = "SAX" -> {"zp", "zpy", "abs", "indx"}
    [] op = "JMP" -> {"abs", "ind"}
    [] op = "JSR" -> {"abs"}
    [] op \in Branches -> {"rel"}
    [] op \in Registers \union {"RTS", "RTI", "PHA", "PHP", "PLA", "PLP", "BRK", "JAM"} -> {"imp"}

\* ROMs that the cartridge takes; whatever their bytes are, each is the code of
\* an operation in one of its modes, JAM where the switch has no case.
ASSUME RomsAssumption ==
  \A rom \in DOMAIN Roms :
    /\ Roms[rom].mapper \in {0, 1, 2, 3, 4, 7, 9, 11, 40, 66}
    /\ \A place \in DOMAIN Roms[rom].code : \A i \in Roms[rom].code[place] :
         i.op \in Operations /\ i.mode \in ModesOf(i.op)

Execute(m, i) ==
  CASE i.op \in StackOps -> DoStack(m, i)
    [] i.op = "JMP" -> DoJump(m, i)
    [] i.op \in Branches -> DoBranch(m, i)
    [] i.op \in StoreOps -> DoStore(m, i)
    [] i.op \in ChangeOps -> DoChange(m, i)
    [] i.mode = "imp" /\ i.op \notin StackOps -> Took([m EXCEPT !.cpu = Implied(@, i.op)], 2)
    [] OTHER -> DoLoad(m, i)

-----------------------------------------------------------------------------
(* One call of cpu6502_step. *)

\* The interrupts and BRK always step the picture the slow way.
Interrupt(m, vector, break, hit) ==
  LET flags == IF break THEN m.cpu.p \union {"B", "U"} ELSE (m.cpu.p \union {"U"}) \ {"B"}
      pushed == Push(PushWord(m, m.cpu.pc), PackFlags(flags))
      masked == [pushed EXCEPT !.cpu.p = @ \union {"I"}, !.pending = @ + 7]
  IN  SlowSteps(JumpTo(ReadWord(masked, vector, vector + 1)), 21, hit)

NmiDue(m) == m.ppu.nmi
IrqDue(m) == m.cart.irq /\ "I" \notin m.cpu.p /\ ~m.ppu.nmi

Past(m, i) == [m EXCEPT !.cpu.pc = (@ + Length(i.mode)) % 65536]

\* The default of the switch: the processor stops for good, at no cost in cycles.
Jam(m) == [m EXCEPT !.cpu.jammed = TRUE, !.cpu.pc = (@ + 1) % 65536]

\* One step without an interrupt, at instruction i.
Instruction(m, i, hit) ==
  LET Clocked(done) == Steps([done.m EXCEPT !.pending = @ + done.cycles], 3 * done.cycles, hit)
  IN  CASE i.op = "JAM" -> Jam(m)
        [] i.op = "BRK" -> Interrupt([m EXCEPT !.cpu.pc = (@ + 2) % 65536], VectorIrq, TRUE, hit)
        [] OTHER -> Clocked(Execute(Past(m, i), i))

\* The instructions that may stand where the program counter points.
Fetched(m) ==
  LET place == Locate(m, m.cpu.pc)
      code == Roms[m.rom].code
  IN  IF m.cpu.pc >= 32768 /\ place \in DOMAIN code THEN code[place] ELSE {}

Reset6502(m) ==
  JumpTo(ReadWord([m EXCEPT !.cpu = [a |-> 0, x |-> 0, y |-> 0, sp |-> 253, p |-> {"I", "U"},
                                     pc |-> 0, jammed |-> FALSE]],
                  VectorReset, VectorReset + 1))
=============================================================================
