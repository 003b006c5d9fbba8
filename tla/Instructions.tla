---------------------------- MODULE Instructions ----------------------------
(***************************************************************************)
(* What one instruction does: the addressing modes of                      *)
(* Processor6502::calculate_instruction_address and the handlers of        *)
(* processor/instructions.cpp, as functions of the registers and memory.   *)
(*                                                                         *)
(* The status register is the set of its bits that are one.  Memory is a   *)
(* function on the addresses that have been given a value; every other     *)
(* byte reads as 0.  Devices (0x0800 - 0x7FFF here) are not part of it.    *)
(***************************************************************************)
EXTENDS Bytes, InstructionTable, Sequences

NEGATIVE_FLAG == 7
OVERFLOW_FLAG == 6
UNUSED_BIT == 5
BREAK_FLAG == 4
DECIMAL_FLAG == 3
INTERRUPT_DISABLE_FLAG == 2
ZERO_FLAG == 1
CARRY_FLAG == 0

NMI_low_addr == 65530
RESET_low_addr == 65532
BRK_low_addr == 65534

InternalMemorySize == 2048

Registers == [PC : Word, A : Byte, X : Byte, Y : Byte, SP : Byte, SR : SUBSET (0 .. 7)]

-----------------------------------------------------------------------------
Read(memory, a) == IF a \in DOMAIN memory THEN memory[a] ELSE 0

\* The cartridge's program memory ignores writes.
Write(memory, a, value) ==
  IF a < InternalMemorySize
    THEN [x \in DOMAIN memory \cup {a} |-> IF x = a THEN value ELSE memory[x]]
    ELSE memory

Vector(memory, low) == Address(Read(memory, low), Read(memory, low + 1))

\* What a handler leaves behind, and the extra cycles it returns.
Effect(r, memory, extra) == [r |-> r, memory |-> memory, extra |-> extra]

set_status_register_flag(sr, flag, enable) ==
  IF enable THEN sr \cup {flag} ELSE sr \ {flag}

ZeroNegative(sr, byte) ==
  set_status_register_flag(
    set_status_register_flag(sr, ZERO_FLAG, byte = 0), NEGATIVE_FLAG, byte >= 128)

Carry(r) == IF CARRY_FLAG \in r.SR THEN 1 ELSE 0

\* The status register as the program sees it on the stack.
SR(r) == FromBits(r.SR \cup {BREAK_FLAG, UNUSED_BIT})

\* stack_push and the byte that the n-th stack_pop from here returns; the stack
\* pointer wraps within page 1.
Push(effect, byte) ==
  Effect([effect.r EXCEPT !.SP = Byte8(@ - 1)],
         Write(effect.memory, 256 + effect.r.SP, byte), effect.extra)

Popped(r, memory, n) == Read(memory, 256 + Byte8(r.SP + n))

-----------------------------------------------------------------------------
(***************************************************************************)
(* Addressing.  An instruction carries its address, whether computing it   *)
(* crossed a page, and its data: the operand byte, or the byte addressed.  *)
(***************************************************************************)

ZeroPage(low, index) == Byte8(low + index)

Indexed(base, index) ==
  [address |-> Word16(base + index), crossed |-> High(Word16(base + index)) # High(base)]

Direct(address) == [address |-> address, crossed |-> FALSE]

\* A pointer whose second byte comes from the start of the same page when the
\* first one is the last byte of the page.
PointerInPage(memory, a) ==
  Address(Read(memory, a), Read(memory, Address(Byte8(Low(a) + 1), High(a))))

calculate_instruction_address(values, r, memory) ==
  LET mode == Details[values[1]].mode
      low == values[2]
      operand == Address(low, values[3])
  IN CASE mode = "ABSOLUTE" -> Direct(operand)
       [] mode = "ABSOLUTE_X" -> Indexed(operand, r.X)
       [] mode = "ABSOLUTE_Y" -> Indexed(operand, r.Y)
       [] mode = "INDIRECT" -> Direct(PointerInPage(memory, operand))
       [] mode = "INDIRECT_X" -> Direct(PointerInPage(memory, ZeroPage(low, r.X)))
       [] mode = "INDIRECT_Y" -> Indexed(PointerInPage(memory, low), r.Y)
       [] mode = "ZERO_PAGE" -> Direct(low)
       [] mode = "ZERO_PAGE_X" -> Direct(ZeroPage(low, r.X))
       [] mode = "ZERO_PAGE_Y" -> Direct(ZeroPage(low, r.Y))
       [] OTHER -> Direct(0)

Decoded(values, nmi, r, memory) ==
  LET row == Details[values[1]]
      where == calculate_instruction_address(values, r, memory)
  IN [operation |-> row.operation, mode |-> row.mode, nmi |-> nmi,
      address |-> where.address, crossed |-> where.crossed,
      data |-> CASE row.mode \in {"IMMEDIATE", "RELATIVE"} -> values[2]
                 [] row.mode = "ACCUMULATOR" -> r.A
                 [] OTHER -> Read(memory, where.address)]

PageCycle(i) == IF i.crossed THEN 1 ELSE 0

-----------------------------------------------------------------------------
(* Arithmetic and logic on the accumulator. *)

\* Defect: the overflow flag is the carry.
ADCOverflowIsCarry(i, r, memory) ==
  LET result == r.A + i.data + Carry(r)
      carried == set_status_register_flag(r.SR, CARRY_FLAG, result > 255)
  IN Effect([r EXCEPT !.A = Byte8(result),
                      !.SR = ZeroNegative(
                               set_status_register_flag(carried, OVERFLOW_FLAG, result > 255),
                               Byte8(result))],
            memory, PageCycle(i))

ADC(i, r, memory) ==
  LET result == r.A + i.data + Carry(r)
      matching_signedness == (r.A >= 128) = (i.data >= 128)
      overflow == matching_signedness /\ (Byte8(result) >= 128) # (r.A >= 128)
      carried == set_status_register_flag(r.SR, CARRY_FLAG, result > 255)
  IN Effect([r EXCEPT !.A = Byte8(result),
                      !.SR = ZeroNegative(
                               set_status_register_flag(carried, OVERFLOW_FLAG, overflow),
                               Byte8(result))],
            memory, PageCycle(i))

SBC(i, r, memory) ==
  LET borrow == 1 - Carry(r)
      result == Byte8(r.A - i.data - borrow)
      overflow_check == Signed(r.A) - Signed(i.data) - borrow
      carried == set_status_register_flag(r.SR, CARRY_FLAG, i.data + borrow <= r.A)
      flags == set_status_register_flag(carried, OVERFLOW_FLAG, Signed(result) # overflow_check)
  IN Effect([r EXCEPT !.A = result, !.SR = ZeroNegative(flags, result)],
            memory, PageCycle(i))

\* A register takes a value, and the zero and negative flags describe it.
Loaded(r, register, byte) == [r EXCEPT ![register] = byte, !.SR = ZeroNegative(@, byte)]

AND(i, r, memory) == Effect(Loaded(r, "A", And(r.A, i.data)), memory, PageCycle(i))
ORA(i, r, memory) == Effect(Loaded(r, "A", Or(r.A, i.data)), memory, PageCycle(i))
EOR(i, r, memory) == Effect(Loaded(r, "A", Xor(r.A, i.data)), memory, PageCycle(i))

Compared(r, register, data) ==
  [r EXCEPT !.SR = ZeroNegative(
                     set_status_register_flag(@, CARRY_FLAG, r[register] >= data),
                     Byte8(r[register] - data))]

CMP(i, r, memory) == Effect(Compared(r, "A", i.data), memory, PageCycle(i))
CPX(i, r, memory) == Effect(Compared(r, "X", i.data), memory, 0)
CPY(i, r, memory) == Effect(Compared(r, "Y", i.data), memory, 0)

BIT(i, r, memory) ==
  LET zero == set_status_register_flag(r.SR, ZERO_FLAG, And(r.A, i.data) = 0)
      negative == set_status_register_flag(zero, NEGATIVE_FLAG, i.data >= 128)
  IN Effect([r EXCEPT !.SR = set_status_register_flag(
                               negative, OVERFLOW_FLAG, (i.data \div 64) % 2 = 1)],
            memory, 0)

-----------------------------------------------------------------------------
(* Shifts, increments and decrements, of the accumulator or in memory. *)

\* The shifted byte goes back to where it came from.
Shifted(i, r, memory, data, carry) ==
  LET flags == set_status_register_flag(ZeroNegative(r.SR, data), CARRY_FLAG, carry)
  IN IF i.mode = "ACCUMULATOR"
       THEN Effect([r EXCEPT !.A = data, !.SR = flags], memory, 0)
       ELSE Effect([r EXCEPT !.SR = flags], Write(memory, i.address, data), 0)

ASL(i, r, memory) == Shifted(i, r, memory, Byte8(2 * i.data), i.data >= 128)
LSR(i, r, memory) == Shifted(i, r, memory, i.data \div 2, i.data % 2 = 1)
ROL(i, r, memory) == Shifted(i, r, memory, Byte8(2 * i.data) + Carry(r), i.data >= 128)

ROR(i, r, memory) ==
  Shifted(i, r, memory, i.data \div 2 + 128 * Carry(r), i.data % 2 = 1)

\* The byte is read back after it was written: an address that ignores the
\* write keeps its old value, and that is the one the flags describe.
Stepped(i, r, memory, byte) ==
  LET written == Write(memory, i.address, byte)
  IN Effect([r EXCEPT !.SR = ZeroNegative(@, Read(written, i.address))], written, 0)

INC(i, r, memory) == Stepped(i, r, memory, Byte8(i.data + 1))
DEC(i, r, memory) == Stepped(i, r, memory, Byte8(i.data - 1))

DCP(i, r, memory) ==
  LET written == Write(memory, i.address, Byte8(i.data - 1))
  IN Effect(Compared(r, "A", Read(written, i.address)), written, PageCycle(i))

-----------------------------------------------------------------------------
(* Loads, stores and transfers. *)

Load(i, r, memory) ==
  LET register == CASE i.operation = "LDA" -> "A"
                    [] i.operation = "LDX" -> "X"
                    [] i.operation = "LDY" -> "Y"
  IN Effect(Loaded(r, register, i.data), memory, 0)

Store(i, r, memory) ==
  LET register == CASE i.operation = "STA" -> "A"
                    [] i.operation = "STX" -> "X"
                    [] i.operation = "STY" -> "Y"
  IN Effect(r, Write(memory, i.address, r[register]), 0)

\* Register to register; a transfer to the stack pointer leaves the flags alone.
Transfer(i, r, memory) ==
  Effect(CASE i.operation = "TAX" -> Loaded(r, "X", r.A)
           [] i.operation = "TAY" -> Loaded(r, "Y", r.A)
           [] i.operation = "TXA" -> Loaded(r, "A", r.X)
           [] i.operation = "TYA" -> Loaded(r, "A", r.Y)
           [] i.operation = "TSX" -> Loaded(r, "X", r.SP)
           [] i.operation = "TXS" -> [r EXCEPT !.SP = r.X]
           [] i.operation = "INX" -> Loaded(r, "X", Byte8(r.X + 1))
           [] i.operation = "INY" -> Loaded(r, "Y", Byte8(r.Y + 1))
           [] i.operation = "DEX" -> Loaded(r, "X", Byte8(r.X - 1))
           [] i.operation = "DEY" -> Loaded(r, "Y", Byte8(r.Y - 1)),
         memory, 0)

FlagOperation(i, r, memory) ==
  LET flag == CASE i.operation \in {"CLC", "SEC"} -> CARRY_FLAG
                [] i.operation \in {"CLD", "SED"} -> DECIMAL_FLAG
                [] i.operation \in {"CLI", "SEI"} -> INTERRUPT_DISABLE_FLAG
                [] i.operation = "CLV" -> OVERFLOW_FLAG
  IN Effect([r EXCEPT !.SR = set_status_register_flag(
                               @, flag, i.operation \in {"SEC", "SED", "SEI"})],
            memory, 0)

-----------------------------------------------------------------------------
(* Control transfer and the stack. *)

Taken(operation, sr) ==
  CASE operation = "BPL" -> NEGATIVE_FLAG \notin sr
    [] operation = "BMI" -> NEGATIVE_FLAG \in sr
    [] operation = "BVC" -> OVERFLOW_FLAG \notin sr
    [] operation = "BVS" -> OVERFLOW_FLAG \in sr
    [] operation = "BCC" -> CARRY_FLAG \notin sr
    [] operation = "BCS" -> CARRY_FLAG \in sr
    [] operation = "BNE" -> ZERO_FLAG \notin sr
    [] operation = "BEQ" -> ZERO_FLAG \in sr

\* The page test adds the offset as an unsigned byte; that of BNE compares the
\* page of the PC with that of the offset alone, which is page 0.
PageBranch(i, r) ==
  IF i.operation = "BNE" THEN High(r.PC) # 0 ELSE High(r.PC) # High(r.PC + i.data)

Branch(i, r, memory) ==
  IF Taken(i.operation, r.SR)
    THEN Effect([r EXCEPT !.PC = Word16(@ + Signed(i.data))],
                memory, IF PageBranch(i, r) THEN 2 ELSE 1)
    ELSE Effect(r, memory, 0)

JMP(i, r, memory) == Effect([r EXCEPT !.PC = i.address], memory, 0)

\* The stacked address is that of the last byte of the JSR.
JSR(i, r, memory) ==
  LET last == Word16(r.PC - 1)
      pushed == Push(Push(Effect(r, memory, 0), High(last)), Low(last))
  IN Effect([pushed.r EXCEPT !.PC = i.address], pushed.memory, 0)

RTS(i, r, memory) ==
  Effect([r EXCEPT !.SP = Byte8(@ + 2),
                   !.PC = Word16(Address(Popped(r, memory, 1), Popped(r, memory, 2)) + 1)],
         memory, 0)

\* BRK, and what an NMI puts in the place of an instruction.
BRKFrom(i, r, memory, save_pc) ==
  LET pushed == Push(Push(Push(Effect(r, memory, 0), High(save_pc)), Low(save_pc)), SR(r))
  IN Effect([pushed.r EXCEPT
               !.SR = @ \cup {BREAK_FLAG, INTERRUPT_DISABLE_FLAG},
               !.PC = Vector(pushed.memory, IF i.nmi THEN NMI_low_addr ELSE BRK_low_addr)],
            pushed.memory, 0)

\* Defect: an interrupt skips a byte of the program, as BRK does.
BRKSkipsAlways(i, r, memory) == BRKFrom(i, r, memory, Word16(r.PC + 1))

BRK(i, r, memory) == BRKFrom(i, r, memory, IF i.nmi THEN r.PC ELSE Word16(r.PC + 1))

RTI(i, r, memory) ==
  Effect([r EXCEPT !.SP = Byte8(@ + 3), !.SR = Bits(Popped(r, memory, 1)),
                   !.PC = Address(Popped(r, memory, 2), Popped(r, memory, 3))],
         memory, 0)

PHA(i, r, memory) == Push(Effect(r, memory, 0), r.A)
PHP(i, r, memory) == Push(Effect(r, memory, 0), SR(r))

PLA(i, r, memory) ==
  Effect([Loaded(r, "A", Popped(r, memory, 1)) EXCEPT !.SP = Byte8(@ + 1)], memory, 0)

PLP(i, r, memory) ==
  Effect([r EXCEPT !.SP = Byte8(@ + 1), !.SR = Bits(Popped(r, memory, 1)) \ {BREAK_FLAG}],
         memory, 0)

-----------------------------------------------------------------------------
Loads == {"LDA", "LDX", "LDY"}
Stores == {"STA", "STX", "STY"}
RegisterOperations == {"TAX", "TAY", "TXA", "TYA", "TSX", "TXS", "INX", "INY", "DEX", "DEY"}
FlagOperations == {"CLC", "SEC", "CLD", "SED", "CLI", "SEI", "CLV"}

\* The handler of the instruction's row.
Handled(i, r, memory) ==
  CASE i.operation = "ADC" -> ADC(i, r, memory)
    [] i.operation = "SBC" -> SBC(i, r, memory)
    [] i.operation = "AND" -> AND(i, r, memory)
    [] i.operation = "ORA" -> ORA(i, r, memory)
    [] i.operation = "EOR" -> EOR(i, r, memory)
    [] i.operation = "CMP" -> CMP(i, r, memory)
    [] i.operation = "CPX" -> CPX(i, r, memory)
    [] i.operation = "CPY" -> CPY(i, r, memory)
    [] i.operation = "BIT" -> BIT(i, r, memory)
    [] i.operation = "ASL" -> ASL(i, r, memory)
    [] i.operation = "LSR" -> LSR(i, r, memory)
    [] i.operation = "ROL" -> ROL(i, r, memory)
    [] i.operation = "ROR" -> ROR(i, r, memory)
    [] i.operation = "INC" -> INC(i, r, memory)
    [] i.operation = "DEC" -> DEC(i, r, memory)
    [] i.operation = "DCP" -> DCP(i, r, memory)
    [] i.operation = "JMP" -> JMP(i, r, memory)
    [] i.operation = "JSR" -> JSR(i, r, memory)
    [] i.operation = "RTS" -> RTS(i, r, memory)
    [] i.operation = "BRK" -> BRK(i, r, memory)
    [] i.operation = "RTI" -> RTI(i, r, memory)
    [] i.operation = "PHA" -> PHA(i, r, memory)
    [] i.operation = "PHP" -> PHP(i, r, memory)
    [] i.operation = "PLA" -> PLA(i, r, memory)
    [] i.operation = "PLP" -> PLP(i, r, memory)
    [] i.operation = "NOP" -> Effect(r, memory, 0)
    [] i.operation \in Loads -> Load(i, r, memory)
    [] i.operation \in Stores -> Store(i, r, memory)
    [] i.operation \in RegisterOperations -> Transfer(i, r, memory)
    [] i.operation \in FlagOperations -> FlagOperation(i, r, memory)
    [] OTHER -> Branch(i, r, memory)

\* The complete instruction values (or the BRK of an NMI), with r.PC past it.
Executed(values, nmi, r, memory) == Handled(Decoded(values, nmi, r, memory), r, memory)
=============================================================================
