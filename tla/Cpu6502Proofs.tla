--------------------------- MODULE Cpu6502Proofs ---------------------------
(***************************************************************************)
(* Proofs about Cpu6502, for any programs, breakpoints, watchpoints and    *)
(* numbers of interrupts and resets: registers and memory keep their       *)
(* widths, every instruction takes the cycles of its row, an instruction   *)
(* is atomic however its cycles are interrupted, sums and shifts are exact *)
(* and every breakpoint stops every time.                                  *)
(***************************************************************************)
EXTENDS Cpu6502, TLAPS

-----------------------------------------------------------------------------
(***************************************************************************)
(* The instruction table                                                   *)
(***************************************************************************)

Modes ==
  {"IMPLIED", "ACCUMULATOR", "IMMEDIATE", "RELATIVE", "ABSOLUTE", "ABSOLUTE_X", "ABSOLUTE_Y",
   "INDIRECT", "INDIRECT_X", "INDIRECT_Y", "ZERO_PAGE", "ZERO_PAGE_X", "ZERO_PAGE_Y"}

LEMMA Lengths == \A mode : BytesOf(mode) \in {1, 2, 3}
BY DEF BytesOf

\* No instruction is done before its bytes are fetched.
ModesFit(modes) ==
  \A m \in modes : m[1] \in Nat /\ m[2] \in Modes /\ m[3] \in Nat /\ m[3] >= BytesOf(m[2])

RowFits(row) ==
  /\ row.opcode \in Nat /\ row.mode \in Modes
  /\ row.cycles \in Nat /\ row.cycles >= BytesOf(row.mode)
  /\ row.opcode = 0 => row.mode = "IMPLIED"

LEMMA FamilyFits ==
  ASSUME NEW operation, NEW base \in Nat, NEW modes, ModesFit(modes),
         base > 0 \/ \A m \in modes : m[1] > 0
  PROVE  \A row \in Family(operation, base, modes) : RowFits(row)
BY DEF Family, Row, RowFits, ModesFit

LEMMA ModeTables ==
  /\ ModesFit(ReadModes) /\ \A m \in ReadModes : m[1] > 0
  /\ ModesFit(StoreModes)
  /\ ModesFit(ModifyModes)
  /\ ModesFit(ShiftModes) /\ \A m \in ShiftModes : m[1] > 0
  /\ ModesFit(CompareModes)
<1> USE DEF ModesFit, Modes, BytesOf
<1>1. ModesFit(ReadModes) /\ \A m \in ReadModes : m[1] > 0
  BY DEF ReadModes
<1>2. ModesFit(StoreModes)
  BY DEF StoreModes
<1>3. ModesFit(ModifyModes)
  BY DEF ModifyModes
<1>4. ModesFit(ShiftModes) /\ \A m \in ShiftModes : m[1] > 0
  BY DEF ShiftModes, ModifyModes
<1>5. ModesFit(CompareModes)
  BY DEF CompareModes
<1>6. QED
  BY <1>1, <1>2, <1>3, <1>4, <1>5

LEMMA RowsFit == \A row \in Rows : RowFits(row)
<1> DEFINE
      LDXModes == {<<2, "IMMEDIATE", 2>>, <<6, "ZERO_PAGE", 3>>, <<14, "ABSOLUTE", 4>>,
                   <<22, "ZERO_PAGE_Y", 4>>, <<30, "ABSOLUTE_Y", 4>>}
      LDYModes == CompareModes \cup {<<20, "ZERO_PAGE_X", 4>>, <<28, "ABSOLUTE_X", 4>>}
      STXModes == {<<6, "ZERO_PAGE", 3>>, <<14, "ABSOLUTE", 4>>, <<22, "ZERO_PAGE_Y", 4>>}
      STYModes == {<<4, "ZERO_PAGE", 3>>, <<12, "ABSOLUTE", 4>>, <<20, "ZERO_PAGE_X", 4>>}
      BITModes == {<<4, "ZERO_PAGE", 3>>, <<12, "ABSOLUTE", 4>>}
      Reads == UNION {Family("ORA", 0, ReadModes), Family("AND", 32, ReadModes),
                      Family("EOR", 64, ReadModes), Family("ADC", 96, ReadModes),
                      Family("LDA", 160, ReadModes), Family("CMP", 192, ReadModes),
                      Family("SBC", 224, ReadModes)}
      Writes == UNION {Family("STA", 128, StoreModes), Family("ASL", 0, ShiftModes),
                       Family("ROL", 32, ShiftModes), Family("LSR", 64, ShiftModes),
                       Family("ROR", 96, ShiftModes), Family("DEC", 192, ModifyModes),
                       Family("INC", 224, ModifyModes)}
      Indices == UNION {Family("LDX", 160, LDXModes), Family("LDY", 160, LDYModes),
                        Family("STX", 128, STXModes), Family("STY", 128, STYModes),
                        Family("CPX", 224, CompareModes), Family("CPY", 192, CompareModes),
                        Family("BIT", 32, BITModes)}
      Singles == {Row("DCP", 215, "ZERO_PAGE_X", 6), Row("JMP", 76, "ABSOLUTE", 3),
                  Row("JMP", 108, "INDIRECT", 5), Row("JSR", 32, "ABSOLUTE", 6)}
      Jumps == {Row(b[1], b[2], "RELATIVE", 2) : b \in Branches}
      Shorts == {Row(o[1], o[2], "IMPLIED", 2) : o \in TwoCycles}
      Stacks == {Row(o[1], o[2], "IMPLIED", o[3]) : o \in StackAndInterrupt}
<1>1. \A row \in Rows :
        \/ row \in Reads \/ row \in Writes \/ row \in Indices \/ row \in Singles
        \/ row \in Jumps \/ row \in Shorts \/ row \in Stacks
  BY DEF Rows
<1>2. \A row \in Reads : RowFits(row)
  BY ModeTables, FamilyFits
<1>3. \A row \in Writes : RowFits(row)
  BY ModeTables, FamilyFits
<1>4. \A row \in Indices : RowFits(row)
  <2>1. ModesFit(LDXModes) /\ ModesFit(STXModes)
    BY DEF ModesFit, Modes, BytesOf
  <2>2. ModesFit(STYModes) /\ ModesFit(BITModes)
    BY DEF ModesFit, Modes, BytesOf
  <2>3. ModesFit(LDYModes)
    BY ModeTables DEF ModesFit, Modes, BytesOf
  <2> HIDE DEF LDXModes, LDYModes, STXModes, STYModes, BITModes
  <2>4. QED
    BY <2>1, <2>2, <2>3, ModeTables, FamilyFits
<1>5. \A row \in Singles : RowFits(row)
  BY DEF RowFits, Row, Modes, BytesOf
<1>6. \A row \in Jumps : RowFits(row)
  BY DEF RowFits, Row, Modes, BytesOf, Branches
<1>7. \A row \in Shorts : RowFits(row)
  BY DEF RowFits, Row, Modes, BytesOf, TwoCycles
<1>8. \A row \in Stacks : RowFits(row)
  BY DEF RowFits, Row, Modes, BytesOf, StackAndInterrupt
<1> HIDE DEF Reads, Writes, Indices, Singles, Jumps, Shorts, Stacks
<1>9. QED
  BY <1>1, <1>2, <1>3, <1>4, <1>5, <1>6, <1>7, <1>8

LEMMA DetailsFit ==
  /\ \A opcode \in Opcodes :
       /\ Details[opcode].mode \in Modes
       /\ Details[opcode].cycles \in Nat
       /\ Details[opcode].cycles >= BytesOf(Details[opcode].mode)
  /\ 0 \in Opcodes /\ Details[0].mode = "IMPLIED"
<1>1. \A opcode \in Opcodes : Details[opcode] \in Rows /\ Details[opcode].opcode = opcode
  BY DEF Details, Opcodes
<1>2. 0 \in Opcodes
  <2>1. Row("BRK", 0, "IMPLIED", 7) \in Rows
    BY DEF Rows, StackAndInterrupt
  <2>2. Row("BRK", 0, "IMPLIED", 7).opcode = 0
    BY DEF Row
  <2>3. QED
    BY <2>1, <2>2 DEF Opcodes
<1>3. QED
  BY <1>1, <1>2, RowsFit DEF RowFits

-----------------------------------------------------------------------------
(***************************************************************************)
(* Types: registers, memory and instructions keep their widths             *)
(***************************************************************************)

\* A memory of bytes; addresses without one read as 0.
IsMemory(memory) == \A a \in DOMAIN memory : memory[a] \in Byte

IsEffect(effect) == effect.r \in Registers /\ IsMemory(effect.memory)

IsInstruction(i) == i.address \in Word /\ i.data \in Byte

LEMMA ByteRange == ASSUME NEW n PROVE n \in Byte <=> n \in Int /\ 0 <= n /\ n <= 255
<1>1. \A count \in Int : \A m : m \in Unsigned(count) <=> m \in Int /\ 0 <= m /\ m <= count - 1
  BY DEF Unsigned
<1>2. QED
  BY <1>1 DEF Byte

LEMMA WordRange == ASSUME NEW n PROVE n \in Word <=> n \in Int /\ 0 <= n /\ n <= 65535
<1>1. \A count \in Int : \A m : m \in Unsigned(count) <=> m \in Int /\ 0 <= m /\ m <= count - 1
  BY DEF Unsigned
<1>2. QED
  BY <1>1 DEF Word

LEMMA ByteOfBits == ASSUME NEW bits PROVE FromBits(bits) \in Byte
<1>1. /\ BitValues[0 + 1] = 1 /\ BitValues[1 + 1] = 2 /\ BitValues[2 + 1] = 4
      /\ BitValues[3 + 1] = 8 /\ BitValues[4 + 1] = 16 /\ BitValues[5 + 1] = 32
      /\ BitValues[6 + 1] = 64 /\ BitValues[7 + 1] = 128
  BY DEF BitValues
<1>2. QED
  BY <1>1, ByteRange DEF FromBits

LEMMA BitsOfByte == ASSUME NEW byte PROVE Bits(byte) \in SUBSET (0 .. 7)
BY DEF Bits

LEMMA BytesWrap == ASSUME NEW n \in Int PROVE Byte8(n) \in Byte /\ Word16(n) \in Word
BY ByteRange, WordRange DEF Byte8, Word16

LEMMA AddressOfBytes ==
  ASSUME NEW low \in Byte, NEW high \in Byte PROVE Address(low, high) \in Word
BY ByteRange, WordRange DEF Address

LEMMA ReadIsByte == ASSUME NEW memory, IsMemory(memory), NEW a PROVE Read(memory, a) \in Byte
BY ByteRange DEF IsMemory, Read

LEMMA WriteIsMemory ==
  ASSUME NEW memory, IsMemory(memory), NEW a, NEW value \in Byte
  PROVE  IsMemory(Write(memory, a, value))
BY DEF IsMemory, Write

LEMMA ReadAfterWrite ==
  ASSUME NEW memory, NEW a, a < InternalMemorySize, NEW value
  PROVE  Read(Write(memory, a, value), a) = value
BY DEF Read, Write

LEMMA FlagIsBit ==
  ASSUME NEW sr \in SUBSET (0 .. 7), NEW flag \in 0 .. 7, NEW enable
  PROVE  set_status_register_flag(sr, flag, enable) \in SUBSET (0 .. 7)
BY DEF set_status_register_flag

LEMMA ZeroNegativeAreBits ==
  ASSUME NEW sr \in SUBSET (0 .. 7), NEW byte
  PROVE  ZeroNegative(sr, byte) \in SUBSET (0 .. 7)
<1>1. ZERO_FLAG \in 0 .. 7 /\ NEGATIVE_FLAG \in 0 .. 7
  BY DEF ZERO_FLAG, NEGATIVE_FLAG
<1>2. QED
  BY <1>1, FlagIsBit DEF ZeroNegative

LEMMA EffectIsEffect ==
  ASSUME NEW r \in Registers, NEW memory, IsMemory(memory), NEW extra
  PROVE  IsEffect(Effect(r, memory, extra))
BY DEF IsEffect, Effect

LEMMA PushIsEffect ==
  ASSUME NEW effect, IsEffect(effect), NEW byte \in Byte
  PROVE  IsEffect(Push(effect, byte))
<1>1. [effect.r EXCEPT !.SP = Byte8(@ - 1)] \in Registers
  BY BytesWrap, ByteRange DEF IsEffect, Registers
<1>2. IsMemory(Write(effect.memory, 256 + effect.r.SP, byte))
  BY WriteIsMemory DEF IsEffect
<1>3. QED
  BY <1>1, <1>2, EffectIsEffect DEF Push

LEMMA LoadedTyped ==
  ASSUME NEW r \in Registers, NEW register \in {"A", "X", "Y"}, NEW byte \in Byte
  PROVE  Loaded(r, register, byte) \in Registers
BY ZeroNegativeAreBits DEF Loaded, Registers

LEMMA ComparedTyped ==
  ASSUME NEW r \in Registers, NEW register, NEW data
  PROVE  Compared(r, register, data) \in Registers
BY FlagIsBit, ZeroNegativeAreBits DEF Compared, Registers, CARRY_FLAG

LEMMA PoppedIsByte ==
  ASSUME NEW r, NEW memory, IsMemory(memory), NEW n
  PROVE  Popped(r, memory, n) \in Byte
BY ReadIsByte DEF Popped

LEMMA VectorIsWord ==
  ASSUME NEW memory, IsMemory(memory), NEW low PROVE Vector(memory, low) \in Word
BY ReadIsByte, AddressOfBytes DEF Vector

\* A handler is given an instruction, registers and a memory of the widths
\* declared, and leaves such registers and such a memory.
LEMMA ArithmeticTyped ==
  ASSUME NEW i, IsInstruction(i), NEW r \in Registers, NEW memory, IsMemory(memory)
  PROVE  /\ IsEffect(ADC(i, r, memory)) /\ IsEffect(SBC(i, r, memory))
         /\ IsEffect(AND(i, r, memory)) /\ IsEffect(ORA(i, r, memory))
         /\ IsEffect(EOR(i, r, memory)) /\ IsEffect(BIT(i, r, memory))
         /\ IsEffect(CMP(i, r, memory)) /\ IsEffect(CPX(i, r, memory))
         /\ IsEffect(CPY(i, r, memory))
<1>1. Carry(r) \in Int /\ r.A \in Int /\ i.data \in Int
  BY ByteRange DEF Carry, Registers, IsInstruction
<1>2. IsEffect(ADC(i, r, memory))
  <2> DEFINE result == r.A + i.data + Carry(r)
  <2>1. Byte8(result) \in Byte
    <3>1. result \in Int
      BY <1>1
    <3>2. QED
      BY <3>1, BytesWrap
  <2> HIDE DEF result
  <2>2. \A c, v : ZeroNegative(set_status_register_flag(
            set_status_register_flag(r.SR, CARRY_FLAG, c), OVERFLOW_FLAG, v), Byte8(result))
              \in SUBSET (0 .. 7)
    BY FlagIsBit, ZeroNegativeAreBits DEF Registers, CARRY_FLAG, OVERFLOW_FLAG
  <2>3. \A sr \in SUBSET (0 .. 7) :
          IsEffect(Effect([r EXCEPT !.A = Byte8(result), !.SR = sr], memory, PageCycle(i)))
    BY <2>1, EffectIsEffect DEF Registers
  <2>4. QED
    BY ZenonT(40), <2>2, <2>3 DEF ADC, result
<1>3. IsEffect(SBC(i, r, memory))
  <2> DEFINE result == Byte8(r.A - i.data - (1 - Carry(r)))
  <2>1. result \in Byte
    BY <1>1, BytesWrap
  <2> HIDE DEF result
  <2>2. \A c, v : ZeroNegative(set_status_register_flag(
            set_status_register_flag(r.SR, CARRY_FLAG, c), OVERFLOW_FLAG, v), result)
              \in SUBSET (0 .. 7)
    BY FlagIsBit, ZeroNegativeAreBits DEF Registers, CARRY_FLAG, OVERFLOW_FLAG
  <2>3. \A sr \in SUBSET (0 .. 7) :
          IsEffect(Effect([r EXCEPT !.A = result, !.SR = sr], memory, PageCycle(i)))
    BY <2>1, EffectIsEffect DEF Registers
  <2>4. QED
    BY <2>2, <2>3 DEF SBC, result
<1>4. IsEffect(AND(i, r, memory)) /\ IsEffect(ORA(i, r, memory)) /\ IsEffect(EOR(i, r, memory))
  BY ByteOfBits, LoadedTyped, EffectIsEffect DEF AND, ORA, EOR, And, Or, Xor
<1>5. IsEffect(BIT(i, r, memory))
  <2>1. \A z, n, v : set_status_register_flag(set_status_register_flag(
            set_status_register_flag(r.SR, ZERO_FLAG, z), NEGATIVE_FLAG, n), OVERFLOW_FLAG, v)
              \in SUBSET (0 .. 7)
    <3>1. ZERO_FLAG \in 0 .. 7 /\ NEGATIVE_FLAG \in 0 .. 7 /\ OVERFLOW_FLAG \in 0 .. 7
      BY DEF ZERO_FLAG, NEGATIVE_FLAG, OVERFLOW_FLAG
    <3>2. r.SR \in SUBSET (0 .. 7)
      BY DEF Registers
    <3>3. QED
      BY <3>1, <3>2, FlagIsBit
  <2>2. \A sr \in SUBSET (0 .. 7) : IsEffect(Effect([r EXCEPT !.SR = sr], memory, 0))
    BY EffectIsEffect DEF Registers
  <2>3. QED
    BY ZenonT(40), <2>1, <2>2 DEF BIT
<1>6. IsEffect(CMP(i, r, memory)) /\ IsEffect(CPX(i, r, memory)) /\ IsEffect(CPY(i, r, memory))
  <2>1. IsEffect(CMP(i, r, memory))
    BY ComparedTyped, EffectIsEffect DEF CMP
  <2>2. IsEffect(CPX(i, r, memory))
    BY ComparedTyped, EffectIsEffect DEF CPX
  <2>3. IsEffect(CPY(i, r, memory))
    BY ComparedTyped, EffectIsEffect DEF CPY
  <2>4. QED
    BY <2>1, <2>2, <2>3
<1>7. QED
  BY <1>2, <1>3, <1>4, <1>5, <1>6

LEMMA ShiftedTyped ==
  ASSUME NEW i, NEW r \in Registers, NEW memory, IsMemory(memory), NEW data \in Byte, NEW carry
  PROVE  IsEffect(Shifted(i, r, memory, data, carry))
<1> DEFINE flags == set_status_register_flag(ZeroNegative(r.SR, data), CARRY_FLAG, carry)
<1>1. flags \in SUBSET (0 .. 7)
  BY FlagIsBit, ZeroNegativeAreBits DEF Registers, CARRY_FLAG
<1> HIDE DEF flags
<1>2. [r EXCEPT !.A = data, !.SR = flags] \in Registers /\ [r EXCEPT !.SR = flags] \in Registers
  BY <1>1 DEF Registers
<1>3. QED
  BY <1>2, WriteIsMemory, EffectIsEffect DEF Shifted, flags

LEMMA ModifyTyped ==
  ASSUME NEW i, IsInstruction(i), NEW r \in Registers, NEW memory, IsMemory(memory)
  PROVE  /\ IsEffect(ASL(i, r, memory)) /\ IsEffect(LSR(i, r, memory))
         /\ IsEffect(ROL(i, r, memory)) /\ IsEffect(ROR(i, r, memory))
         /\ IsEffect(INC(i, r, memory)) /\ IsEffect(DEC(i, r, memory))
         /\ IsEffect(DCP(i, r, memory))
<1>1. i.data \in Int /\ 0 <= i.data /\ i.data <= 255
  BY ByteRange DEF IsInstruction
<1>2. Carry(r) \in {0, 1}
  BY DEF Carry
<1>3. /\ Byte8(2 * i.data) \in Byte /\ i.data \div 2 \in Byte
      /\ Byte8(2 * i.data) + Carry(r) \in Byte /\ i.data \div 2 + 128 * Carry(r) \in Byte
  BY <1>1, <1>2, ByteRange DEF Byte8
<1>4. Byte8(i.data + 1) \in Byte /\ Byte8(i.data - 1) \in Byte
  BY <1>1, BytesWrap
<1>5. ASSUME NEW byte \in Byte PROVE IsEffect(Stepped(i, r, memory, byte))
  <2> DEFINE written == Write(memory, i.address, byte)
             sr == ZeroNegative(r.SR, Read(written, i.address))
  <2>1. IsMemory(written) /\ sr \in SUBSET (0 .. 7)
    BY WriteIsMemory, ZeroNegativeAreBits DEF Registers
  <2>2. Stepped(i, r, memory, byte) = Effect([r EXCEPT !.SR = sr], written, 0)
    BY DEF Stepped
  <2> HIDE DEF sr, written
  <2>3. [r EXCEPT !.SR = sr] \in Registers
    BY <2>1 DEF Registers
  <2>4. QED
    BY <2>1, <2>2, <2>3, EffectIsEffect
<1>6. IsEffect(DCP(i, r, memory))
  BY <1>4, WriteIsMemory, ComparedTyped, EffectIsEffect DEF DCP
<1>7. QED
  BY <1>3, <1>4, <1>5, <1>6, ShiftedTyped DEF ASL, LSR, ROL, ROR, INC, DEC

LEMMA MoveTyped ==
  ASSUME NEW i, IsInstruction(i), NEW r \in Registers, NEW memory, IsMemory(memory)
  PROVE  /\ i.operation \in Loads => IsEffect(Load(i, r, memory))
         /\ i.operation \in Stores => IsEffect(Store(i, r, memory))
         /\ i.operation \in RegisterOperations => IsEffect(Transfer(i, r, memory))
         /\ i.operation \in FlagOperations => IsEffect(FlagOperation(i, r, memory))
<1>1. /\ r.A \in Byte /\ r.X \in Byte /\ r.Y \in Byte /\ r.SP \in Byte
      /\ r.X \in Int /\ r.Y \in Int /\ i.data \in Byte
  BY ByteRange DEF Registers, IsInstruction
<1>2. i.operation \in Loads => IsEffect(Load(i, r, memory))
  BY <1>1, LoadedTyped, EffectIsEffect DEF Load, Loads
<1>3. i.operation \in Stores => IsEffect(Store(i, r, memory))
  BY <1>1, WriteIsMemory, EffectIsEffect DEF Store, Stores
<1>4. i.operation \in RegisterOperations => IsEffect(Transfer(i, r, memory))
  <2>1. /\ Byte8(r.X + 1) \in Byte /\ Byte8(r.Y + 1) \in Byte
        /\ Byte8(r.X - 1) \in Byte /\ Byte8(r.Y - 1) \in Byte
    BY <1>1, BytesWrap
  <2>2. [r EXCEPT !.SP = r.X] \in Registers
    BY <1>1 DEF Registers
  <2>3. QED
    BY <1>1, <2>1, <2>2, LoadedTyped, EffectIsEffect DEF Transfer, RegisterOperations
<1>5. i.operation \in FlagOperations => IsEffect(FlagOperation(i, r, memory))
  <2>1. \A flag \in 0 .. 7 : \A enable :
          [r EXCEPT !.SR = set_status_register_flag(@, flag, enable)] \in Registers
    BY FlagIsBit DEF Registers
  <2>2. QED
    BY <2>1, EffectIsEffect
       DEF FlagOperation, FlagOperations, CARRY_FLAG, DECIMAL_FLAG, INTERRUPT_DISABLE_FLAG,
           OVERFLOW_FLAG
<1>6. QED
  BY <1>2, <1>3, <1>4, <1>5

LEMMA StatusIsByte == ASSUME NEW r PROVE SR(r) \in Byte
BY ByteOfBits DEF SR

LEMMA BRKTyped ==
  ASSUME NEW i, NEW r \in Registers, NEW memory, IsMemory(memory), NEW save_pc \in Word
  PROVE  IsEffect(BRKFrom(i, r, memory, save_pc))
<1> DEFINE pushed == Push(Push(Push(Effect(r, memory, 0), High(save_pc)), Low(save_pc)), SR(r))
           pc == Vector(pushed.memory, IF i.nmi THEN NMI_low_addr ELSE BRK_low_addr)
           sr == pushed.r.SR \cup {BREAK_FLAG, INTERRUPT_DISABLE_FLAG}
<1>1. High(save_pc) \in Byte /\ Low(save_pc) \in Byte
  BY ByteRange, WordRange DEF High, Low
<1>2. IsEffect(pushed)
  BY <1>1, StatusIsByte, EffectIsEffect, PushIsEffect
<1> HIDE DEF pushed
<1>3. pc \in Word /\ sr \in SUBSET (0 .. 7)
  BY <1>2, VectorIsWord DEF IsEffect, Registers, BREAK_FLAG, INTERRUPT_DISABLE_FLAG
<1>4. BRKFrom(i, r, memory, save_pc) =
        Effect([pushed.r EXCEPT !.SR = sr, !.PC = pc], pushed.memory, 0)
  BY DEF BRKFrom, pushed
<1> HIDE DEF pc, sr
<1>5. [pushed.r EXCEPT !.SR = sr, !.PC = pc] \in Registers
  BY <1>2, <1>3 DEF IsEffect, Registers
<1>6. QED
  BY <1>2, <1>4, <1>5, EffectIsEffect DEF IsEffect

LEMMA StackTyped ==
  ASSUME NEW i, IsInstruction(i), NEW r \in Registers, NEW memory, IsMemory(memory)
  PROVE  /\ IsEffect(JMP(i, r, memory)) /\ IsEffect(JSR(i, r, memory))
         /\ IsEffect(RTS(i, r, memory)) /\ IsEffect(BRK(i, r, memory))
         /\ IsEffect(RTI(i, r, memory)) /\ IsEffect(PHA(i, r, memory))
         /\ IsEffect(PHP(i, r, memory)) /\ IsEffect(PLA(i, r, memory))
         /\ IsEffect(PLP(i, r, memory))
<1>1. /\ r.PC \in Word /\ r.PC \in Int /\ r.A \in Byte /\ r.SP \in Byte /\ r.SP \in Int
      /\ i.address \in Word
  BY ByteRange, WordRange DEF Registers, IsInstruction
<1>2. /\ \A n \in {1, 2, 3} : Popped(r, memory, n) \in Byte
      /\ \A n \in {1, 2, 3} : Byte8(r.SP + n) \in Byte
  BY <1>1, BytesWrap, PoppedIsByte
<1>3. IsEffect(JMP(i, r, memory))
  <2>1. [r EXCEPT !.PC = i.address] \in Registers
    BY <1>1 DEF Registers
  <2>2. QED
    BY <2>1, EffectIsEffect DEF JMP
<1>4. IsEffect(JSR(i, r, memory))
  <2> DEFINE last == Word16(r.PC - 1)
             pushed == Push(Push(Effect(r, memory, 0), High(last)), Low(last))
  <2>1. last \in Word
    BY <1>1, BytesWrap
  <2>2. High(last) \in Byte /\ Low(last) \in Byte
    <3> HIDE DEF last
    <3>1. QED
      BY <2>1, ByteRange, WordRange DEF High, Low
  <2>3. IsEffect(pushed)
    <3> HIDE DEF last
    <3>1. QED
      BY <2>2, EffectIsEffect, PushIsEffect
  <2>4. JSR(i, r, memory) = Effect([pushed.r EXCEPT !.PC = i.address], pushed.memory, 0)
    BY DEF JSR
  <2> HIDE DEF pushed
  <2>5. [pushed.r EXCEPT !.PC = i.address] \in Registers
    BY <1>1, <2>3 DEF IsEffect, Registers
  <2>6. QED
    BY <2>3, <2>4, <2>5, EffectIsEffect DEF IsEffect
<1>5. IsEffect(RTS(i, r, memory))
  <2> DEFINE pc == Word16(Address(Popped(r, memory, 1), Popped(r, memory, 2)) + 1)
             sp == Byte8(r.SP + 2)
  <2>1. pc \in Word /\ sp \in Byte
    BY <1>2, AddressOfBytes, WordRange, BytesWrap
  <2>2. RTS(i, r, memory) = Effect([r EXCEPT !.SP = sp, !.PC = pc], memory, 0)
    BY DEF RTS
  <2> HIDE DEF pc, sp
  <2>3. [r EXCEPT !.SP = sp, !.PC = pc] \in Registers
    BY <2>1 DEF Registers
  <2>4. QED
    BY <2>2, <2>3, EffectIsEffect
<1>6. IsEffect(BRK(i, r, memory))
  <2>1. Word16(r.PC + 1) \in Word
    BY <1>1, BytesWrap
  <2>2. QED
    BY <1>1, <2>1, BRKTyped DEF BRK
<1>7. IsEffect(RTI(i, r, memory))
  <2> DEFINE pc == Address(Popped(r, memory, 2), Popped(r, memory, 3))
             sp == Byte8(r.SP + 3)
             sr == Bits(Popped(r, memory, 1))
  <2>1. pc \in Word /\ sp \in Byte /\ sr \in SUBSET (0 .. 7)
    BY <1>2, AddressOfBytes, BitsOfByte
  <2>2. RTI(i, r, memory) = Effect([r EXCEPT !.SP = sp, !.SR = sr, !.PC = pc], memory, 0)
    BY DEF RTI
  <2> HIDE DEF pc, sp, sr
  <2>3. [r EXCEPT !.SP = sp, !.SR = sr, !.PC = pc] \in Registers
    BY <2>1 DEF Registers
  <2>4. QED
    BY <2>2, <2>3, EffectIsEffect
<1>8. IsEffect(PHA(i, r, memory)) /\ IsEffect(PHP(i, r, memory))
  BY <1>1, StatusIsByte, EffectIsEffect, PushIsEffect DEF PHA, PHP
<1>9. IsEffect(PLA(i, r, memory))
  <2> DEFINE loaded == Loaded(r, "A", Popped(r, memory, 1))
             sp == Byte8(loaded.SP + 1)
  <2>1. loaded \in Registers
    BY <1>2, LoadedTyped
  <2> HIDE DEF loaded
  <2>2. sp \in Byte
    BY <2>1, ByteRange, BytesWrap DEF Registers
  <2>3. PLA(i, r, memory) = Effect([loaded EXCEPT !.SP = sp], memory, 0)
    BY DEF PLA, loaded
  <2> HIDE DEF sp
  <2>4. [loaded EXCEPT !.SP = sp] \in Registers
    BY <2>1, <2>2 DEF Registers
  <2>5. QED
    BY <2>3, <2>4, EffectIsEffect
<1>10. IsEffect(PLP(i, r, memory))
  <2> DEFINE sp == Byte8(r.SP + 1)
             sr == Bits(Popped(r, memory, 1)) \ {BREAK_FLAG}
  <2>1. sp \in Byte /\ sr \in SUBSET (0 .. 7)
    BY <1>2, BitsOfByte
  <2>2. PLP(i, r, memory) = Effect([r EXCEPT !.SP = sp, !.SR = sr], memory, 0)
    BY DEF PLP
  <2> HIDE DEF sp, sr
  <2>3. [r EXCEPT !.SP = sp, !.SR = sr] \in Registers
    BY <2>1 DEF Registers
  <2>4. QED
    BY <2>2, <2>3, EffectIsEffect
<1>11. QED
  BY <1>3, <1>4, <1>5, <1>6, <1>7, <1>8, <1>9, <1>10

LEMMA BranchTyped ==
  ASSUME NEW i, IsInstruction(i), NEW r \in Registers, NEW memory, IsMemory(memory)
  PROVE  IsEffect(Branch(i, r, memory))
<1>1. r.PC + Signed(i.data) \in Int
  BY ByteRange, WordRange DEF Registers, IsInstruction, Signed
<1>2. [r EXCEPT !.PC = Word16(@ + Signed(i.data))] \in Registers
  BY <1>1, BytesWrap DEF Registers
<1>3. QED
  BY <1>2, EffectIsEffect DEF Branch

\* An instruction of any operation, the handler's names included that no row
\* of the table has.
LEMMA HandledTyped ==
  ASSUME NEW i, IsInstruction(i), NEW r \in Registers, NEW memory, IsMemory(memory)
  PROVE  IsEffect(Handled(i, r, memory))
BY ArithmeticTyped, ModifyTyped, MoveTyped, StackTyped, BranchTyped, EffectIsEffect DEF Handled

\* The extra cycles a handler returns.
LEMMA HandledCharges ==
  ASSUME NEW i, NEW r, NEW memory PROVE Handled(i, r, memory).extra \in {0, 1, 2}
<1> DEFINE Charges(effect) == effect.extra \in {0, 1, 2}
<1>1. \A s, m : \A n \in {0, 1, 2} : Charges(Effect(s, m, n))
  BY DEF Effect
<1>2. \A effect, byte : Charges(effect) => Charges(Push(effect, byte))
  BY DEF Effect, Push
<1>3. PageCycle(i) \in {0, 1, 2}
  BY DEF PageCycle
<1>4. \A s, m : Charges(Effect(s, m, PageCycle(i)))
  BY <1>1, <1>3
<1>5. \A s, m : Charges(Effect(s, m, 0))
  BY <1>1
<1> HIDE DEF Charges
<1>6. /\ Charges(ADC(i, r, memory)) /\ Charges(SBC(i, r, memory))
      /\ Charges(AND(i, r, memory)) /\ Charges(ORA(i, r, memory))
      /\ Charges(EOR(i, r, memory)) /\ Charges(BIT(i, r, memory))
      /\ Charges(CMP(i, r, memory)) /\ Charges(CPX(i, r, memory))
      /\ Charges(CPY(i, r, memory))
  <2>1. Charges(ADC(i, r, memory))
    BY Zenon, <1>4 DEF ADC
  <2>2. Charges(SBC(i, r, memory))
    BY Zenon, <1>4 DEF SBC
  <2>3. Charges(AND(i, r, memory))
    BY Zenon, <1>4 DEF AND
  <2>4. Charges(ORA(i, r, memory))
    BY Zenon, <1>4 DEF ORA
  <2>5. Charges(EOR(i, r, memory))
    BY Zenon, <1>4 DEF EOR
  <2>6. Charges(BIT(i, r, memory))
    BY Zenon, <1>5 DEF BIT
  <2>7. Charges(CMP(i, r, memory))
    BY Zenon, <1>4 DEF CMP
  <2>8. Charges(CPX(i, r, memory))
    BY Zenon, <1>5 DEF CPX
  <2>9. Charges(CPY(i, r, memory))
    BY Zenon, <1>5 DEF CPY
  <2>10. QED
    BY <2>1, <2>2, <2>3, <2>4, <2>5, <2>6, <2>7, <2>8, <2>9
<1>7. /\ Charges(ASL(i, r, memory)) /\ Charges(LSR(i, r, memory))
      /\ Charges(ROL(i, r, memory)) /\ Charges(ROR(i, r, memory))
      /\ Charges(INC(i, r, memory)) /\ Charges(DEC(i, r, memory))
      /\ Charges(DCP(i, r, memory))
  <2>1. \A data, carry : Charges(Shifted(i, r, memory, data, carry))
    BY Zenon, <1>5 DEF Shifted
  <2>2. \A byte : Charges(Stepped(i, r, memory, byte))
    BY Zenon, <1>5 DEF Stepped
  <2>3. Charges(DCP(i, r, memory))
    BY Zenon, <1>4 DEF DCP
  <2>4. QED
    BY Zenon, <2>1, <2>2, <2>3 DEF ASL, LSR, ROL, ROR, INC, DEC
<1>8. /\ Charges(Load(i, r, memory)) /\ Charges(Store(i, r, memory))
      /\ Charges(Transfer(i, r, memory)) /\ Charges(FlagOperation(i, r, memory))
  BY Zenon, <1>5 DEF Load, Store, Transfer, FlagOperation
<1>9. Charges(Branch(i, r, memory))
  BY <1>1 DEF Branch
<1>10. /\ Charges(JMP(i, r, memory)) /\ Charges(JSR(i, r, memory))
       /\ Charges(RTS(i, r, memory)) /\ Charges(BRK(i, r, memory))
       /\ Charges(RTI(i, r, memory)) /\ Charges(PHA(i, r, memory))
       /\ Charges(PHP(i, r, memory)) /\ Charges(PLA(i, r, memory))
       /\ Charges(PLP(i, r, memory)) /\ Charges(Effect(r, memory, 0))
  BY Zenon, <1>2, <1>5 DEF JMP, JSR, RTS, BRK, BRKFrom, RTI, PHA, PHP, PLA, PLP
<1>11. Charges(Handled(i, r, memory))
  BY <1>6, <1>7, <1>8, <1>9, <1>10 DEF Handled
<1>12. QED
  BY <1>11 DEF Charges

\* The bytes of one whole instruction.
IsFetched(values) ==
  /\ values \in Seq(Byte)
  /\ values[1] \in Opcodes
  /\ Len(values) = BytesOf(Details[values[1]].mode)

LEMMA DecodedTyped ==
  ASSUME NEW values, IsFetched(values), NEW nmi, NEW r \in Registers,
         NEW memory, IsMemory(memory)
  PROVE  IsInstruction(Decoded(values, nmi, r, memory))
<1> DEFINE mode == Details[values[1]].mode
           where == calculate_instruction_address(values, r, memory)
<1>1. mode \in Modes /\ Len(values) = BytesOf(mode)
  BY DetailsFit DEF IsFetched
<1>2. /\ mode \in {"ABSOLUTE", "ABSOLUTE_X", "ABSOLUTE_Y", "INDIRECT"} => values[3] \in Byte
      /\ mode \notin {"IMPLIED", "ACCUMULATOR"} => values[2] \in Byte
  <2> HIDE DEF mode
  <2>1. /\ mode \in {"ABSOLUTE", "ABSOLUTE_X", "ABSOLUTE_Y", "INDIRECT"} => Len(values) = 3
        /\ mode \notin {"IMPLIED", "ACCUMULATOR"} => Len(values) >= 2
    BY <1>1 DEF BytesOf
  <2>2. values \in Seq(Byte)
    BY DEF IsFetched
  <2>3. QED
    BY <2>1, <2>2
<1>3. /\ r.A \in Byte /\ r.X \in Byte /\ r.Y \in Byte /\ r.X \in Int /\ r.Y \in Int
  BY ByteRange DEF Registers
<1>4. ASSUME NEW low \in Byte, NEW high \in Byte
      PROVE  /\ Direct(low).address \in Word
             /\ Direct(Address(low, high)).address \in Word
             /\ Direct(PointerInPage(memory, Address(low, high))).address \in Word
             /\ Direct(ZeroPage(low, r.X)).address \in Word
             /\ Direct(ZeroPage(low, r.Y)).address \in Word
  <2>1. ASSUME NEW a PROVE PointerInPage(memory, a) \in Word
    BY ReadIsByte, AddressOfBytes DEF PointerInPage
  <2>2. low \in Word /\ low \in Int
    BY ByteRange, WordRange
  <2>3. ZeroPage(low, r.X) \in Word /\ ZeroPage(low, r.Y) \in Word
    BY <1>3, <2>2, BytesWrap, ByteRange, WordRange DEF ZeroPage
  <2>4. QED
    BY <2>1, <2>2, <2>3, AddressOfBytes DEF Direct
<1>5. ASSUME NEW base \in Word, NEW index \in Int PROVE Indexed(base, index).address \in Word
  BY WordRange, BytesWrap DEF Indexed
<1>6. ASSUME NEW low \in Byte, NEW high \in Byte
      PROVE  /\ Indexed(Address(low, high), r.X).address \in Word
             /\ Indexed(Address(low, high), r.Y).address \in Word
             /\ Indexed(PointerInPage(memory, low), r.Y).address \in Word
             /\ Direct(PointerInPage(memory, ZeroPage(low, r.X))).address \in Word
  <2>1. ASSUME NEW a PROVE PointerInPage(memory, a) \in Word
    BY ReadIsByte, AddressOfBytes DEF PointerInPage
  <2>2. QED
    BY <1>3, <1>5, <2>1, AddressOfBytes DEF Direct
<1>7. Direct(0).address \in Word
  BY WordRange DEF Direct
<1>8. where.address \in Word
  <2>1. 0 \in Byte
    BY ByteRange
  <2> HIDE DEF mode
  <2>2. calculate_instruction_address(values, r, memory) =
          LET low == values[2]
              operand == Address(low, values[3])
          IN CASE mode = "ABSOLUTE" -> Direct(operand)
               [] mode = "ABSOLUTE_X" -> Indexed(operand, r.X)
               [] mode = "ABSOLUTE_Y" -> Indexed(operand, r.Y)
               [] mode = "INDIRECT" -> Direct(PointerInPage(memory, operand))
               [] mode = "INDIRECT_X" -> Direct(PointerInPage(memory, ZeroPage(low, r.X)))
               [] mode = "INDIRECT_Y" -> Indexed(PointerInPage(memory, low), r.Y)
               [] mode = "ZERO_PAGE" -> Direct(low)
               [] mode = "ZERO_PAGE_X" -> Direct(ZeroPage(low, r.X))
               [] mode = "ZERO_PAGE_Y" -> Direct(ZeroPage(low, r.Y))
               [] OTHER -> Direct(0)
    BY DEF calculate_instruction_address, mode
  <2>3. QED
    BY <1>1, <1>2, <1>4, <1>6, <1>7, <2>1, <2>2 DEF Modes
<1>9. Decoded(values, nmi, r, memory).data \in Byte
  <2>1. Read(memory, where.address) \in Byte
    BY ReadIsByte
  <2> HIDE DEF where
  <2>2. QED
    BY <1>2, <1>3, <2>1 DEF Decoded, where
<1>10. QED
  BY <1>8, <1>9 DEF IsInstruction, Decoded

-----------------------------------------------------------------------------
(***************************************************************************)
(* The inductive invariant                                                 *)
(***************************************************************************)

TypeInv ==
  /\ registers_ \in Registers
  /\ IsMemory(memory_)
  /\ pending_operation_ \in Seq(Byte)
  /\ cycles_to_wait_ \in Nat
  /\ cycle_count_ \in Nat
  /\ due \in [cycles : Nat, extra : Nat]
  /\ non_maskable_interrupt_ \in BOOLEAN
  /\ should_continue \in BOOLEAN
  /\ crashed \in BOOLEAN
  /\ breakpoints_ \in [Breakpoints -> BOOLEAN]
  /\ interrupts \in Nat
  /\ resets \in Nat

\* While an instruction is fetched, every cycle fetches one of its bytes, and
\* they are those in front of the program counter.
FetchInv ==
  pending_operation_ # <<>> /\ ~crashed =>
    LET fetched == Len(pending_operation_)
    IN /\ pending_operation_[1] \in Opcodes
       /\ fetched < BytesOf(Details[pending_operation_[1]].mode)
       /\ cycles_to_wait_ = 0
       /\ cycle_count_ = fetched
       /\ \A k \in 1 .. fetched :
            pending_operation_[k] = Read(memory_, Word16(registers_.PC - fetched + k - 1))

\* The cycles that are charged: what the handler returned is narrowed to one.
Charged == due.cycles + (IF due.extra > 0 THEN 1 ELSE 0)

\* Once it was executed, the cycles it took and those still to wait are those
\* charged.
CycleInv ==
  pending_operation_ = <<>> /\ ~crashed => cycle_count_ + cycles_to_wait_ = Charged

\* A breakpoint that is not armed is the one the program is stopped at.
BreakpointInv ==
  resets = 0 =>
    \A a \in Breakpoints : ~breakpoints_[a] =>
      registers_.PC = a /\ ~should_continue /\ cycles_to_wait_ = 0

Inv == TypeInv /\ FetchInv /\ CycleInv /\ BreakpointInv

\* What an execution does to the state, the instruction's own effect apart.
LEMMA Executing ==
  ASSUME TypeInv, NEW values, IsFetched(values), NEW nmi, NEW r \in Registers,
         execute_instruction(values, nmi, r)
  PROVE  /\ registers_' \in Registers /\ IsMemory(memory_')
         /\ pending_operation_' = <<>>
         /\ \E cycles \in Nat :
              /\ cycles >= Len(values)
              /\ Charged' = cycles
              /\ cycles_to_wait_' = cycles - Len(values)
         /\ due' \in [cycles : Nat, extra : Nat]
         /\ cycle_count_' = IF pending_operation_ = <<>> /\ cycles_to_wait_ = 0
                              THEN 1 ELSE cycle_count_ + 1
         /\ should_continue' \in BOOLEAN
         /\ UNCHANGED <<crashed, interrupts, resets>>
<1>1. PICK i, effect :
        /\ i = Decoded(values, nmi, r, memory_)
        /\ effect = Handled(i, r, memory_)
        /\ registers_' = effect.r
        /\ memory_' = effect.memory
        /\ pending_operation_' = <<>>
        /\ wait_for_cycle_count(1 + CyclesLeft(values, effect))
        /\ due' = [cycles |-> Details[values[1]].cycles, extra |-> effect.extra]
        /\ check_watchpoints(i)
        /\ UNCHANGED <<crashed, interrupts, resets>>
  BY DEF execute_instruction
<1>2. IsEffect(effect)
  <2>1. IsInstruction(i)
    BY <1>1, DecodedTyped DEF TypeInv
  <2>2. QED
    BY <1>1, <2>1, HandledTyped DEF TypeInv
<1>3. \E cycles \in Nat :
        cycles >= Len(values) /\ Charged' = cycles /\ cycles_to_wait_' = cycles - Len(values)
  <2> DEFINE row == Details[values[1]]
             cycles == row.cycles + ExtraCycles(effect)
  <2>1. row.cycles \in Nat /\ row.cycles >= BytesOf(row.mode) /\ Len(values) = BytesOf(row.mode)
    BY DetailsFit DEF IsFetched
  <2>2. BytesOf(row.mode) \in {1, 2, 3} /\ ExtraCycles(effect) \in {0, 1}
    BY Lengths DEF ExtraCycles
  <2>3. Charged' = row.cycles + ExtraCycles(effect)
    BY <1>1 DEF Charged, ExtraCycles
  <2>4. cycles_to_wait_' = (1 + CyclesLeft(values, effect)) - 1
    BY <1>1 DEF wait_for_cycle_count
  <2> HIDE DEF row
  <2>5. cycles \in Nat /\ cycles >= Len(values) /\ cycles_to_wait_' = cycles - Len(values)
    BY <2>1, <2>2, <2>4 DEF CyclesLeft, row
  <2>6. QED
    BY <2>3, <2>5
<1>4. should_continue' \in BOOLEAN
  BY <1>1 DEF check_watchpoints
<1>5. due' \in [cycles : Nat, extra : Nat]
  BY <1>1, HandledCharges, DetailsFit DEF IsFetched
<1>6. QED
  BY <1>1, <1>2, <1>3, <1>4, <1>5 DEF wait_for_cycle_count, IsEffect

LEMMA InitInv == Init => Inv
<1> SUFFICES ASSUME Init PROVE Inv
  OBVIOUS
<1>1. PICK program \in Programs :
        /\ registers_ = program.registers /\ memory_ = program.memory
        /\ interrupts = program.interrupts /\ resets = program.resets
  BY DEF Init
<1>2. registers_ \in Registers /\ IsMemory(memory_) /\ interrupts \in Nat /\ resets \in Nat
  BY <1>1, ProgramsAssumption DEF IsMemory
<1>3. TypeInv
  <2>1. pending_operation_ \in Seq(Byte) /\ breakpoints_ \in [Breakpoints -> BOOLEAN]
    BY DEF Init
  <2>2. QED
    BY <1>2, <2>1 DEF Init, TypeInv
<1>4. FetchInv /\ CycleInv /\ BreakpointInv
  BY DEF Init, FetchInv, CycleInv, Charged, BreakpointInv
<1>5. QED
  BY <1>3, <1>4 DEF Inv

\* A step that goes on leaves every breakpoint armed.
LEMMA Rearmed ==
  ASSUME TypeInv, BreakpointInv, resets = 0, PassBreakpoint
  PROVE  \A a \in Breakpoints : breakpoints_'[a]
BY DEF TypeInv, BreakpointInv, PassBreakpoint, AtArmedBreakpoint

LEMMA PassTyped ==
  ASSUME TypeInv, PassBreakpoint PROVE breakpoints_' \in [Breakpoints -> BOOLEAN]
BY DEF TypeInv, PassBreakpoint

LEMMA WaitInv == ASSUME Inv, Wait PROVE Inv'
<1>1. /\ cycles_to_wait_ \in Nat /\ cycle_count_ \in Nat /\ cycles_to_wait_ > 0
      /\ pending_operation_ = <<>> /\ pending_operation_' = pending_operation_
  BY DEF Inv, TypeInv, FetchInv, Wait
<1>2. cycles_to_wait_' = cycles_to_wait_ - 1 /\ cycle_count_' = cycle_count_ + 1
  BY <1>1 DEF Wait, wait_for_cycle_count
<1>3. TypeInv'
  BY <1>1, <1>2 DEF Inv, TypeInv, Wait, history, IsMemory
<1>4. FetchInv' /\ CycleInv'
  BY <1>1, <1>2 DEF Inv, FetchInv, CycleInv, Charged, Wait, history
<1>5. BreakpointInv'
  BY <1>1 DEF Inv, TypeInv, BreakpointInv, Wait, history
<1>6. QED
  BY <1>3, <1>4, <1>5 DEF Inv

LEMMA StopInv == ASSUME Inv, HitBreakpoint \/ AbortAtStopAddress PROVE Inv'
<1>1. /\ UNCHANGED <<registers_, memory_, pending_operation_, cycles_to_wait_, cycle_count_,
                     non_maskable_interrupt_, crashed, due, interrupts, resets>>
      /\ should_continue' = FALSE /\ cycles_to_wait_ = 0
  BY DEF HitBreakpoint, AbortAtStopAddress, Active, history
<1>2. breakpoints_' \in [Breakpoints -> BOOLEAN]
  BY PassTyped DEF HitBreakpoint, AbortAtStopAddress, Inv, TypeInv
<1>3. TypeInv'
  BY <1>1, <1>2 DEF Inv, TypeInv, IsMemory
<1>4. FetchInv' /\ CycleInv'
  BY <1>1 DEF Inv, FetchInv, CycleInv, Charged
<1>5. BreakpointInv'
  <2>1. CASE HitBreakpoint
    BY <1>1, <2>1 DEF HitBreakpoint, AtArmedBreakpoint, Inv, TypeInv, BreakpointInv
  <2>2. CASE AbortAtStopAddress
    BY <1>1, <2>2, Rearmed DEF AbortAtStopAddress, Inv, BreakpointInv
  <2>3. QED
    BY <2>1, <2>2
<1>6. QED
  BY <1>3, <1>4, <1>5 DEF Inv

\* The BRK that stands for an interrupt is a whole instruction of one byte.
LEMMA NmiIsFetched == IsFetched(<<0>>)
<1>1. 0 \in Byte /\ <<0>> \in Seq(Byte)
  <2>1. 0 \in Byte
    BY ByteRange
  <2>2. QED
    BY <2>1
<1>2. QED
  BY <1>1, DetailsFit DEF IsFetched, BytesOf

LEMMA TakeNmiInv == ASSUME Inv, TakeNmi PROVE Inv'
<1>1. Running /\ pending_operation_ = <<>> /\ cycles_to_wait_ = 0
  BY DEF TakeNmi, check_nmi, Running, Active
<1>2. PassBreakpoint /\ non_maskable_interrupt_' = FALSE
  BY <1>1 DEF TakeNmi, Running
<1>3. /\ registers_' \in Registers /\ IsMemory(memory_')
      /\ pending_operation_' = <<>>
      /\ \E cycles \in Nat :
           cycles >= 1 /\ Charged' = cycles /\ cycles_to_wait_' = cycles - 1
      /\ due' \in [cycles : Nat, extra : Nat]
      /\ cycle_count_' = 1
      /\ should_continue' \in BOOLEAN
      /\ UNCHANGED <<crashed, interrupts, resets>>
  <2>1. execute_instruction(<<0>>, TRUE, registers_) /\ registers_ \in Registers /\ TypeInv
    BY DEF TakeNmi, Inv, TypeInv
  <2>2. Len(<<0>>) = 1
    OBVIOUS
  <2>3. QED
    BY <1>1, <2>1, <2>2, NmiIsFetched, Executing
<1>4. TypeInv'
  <2>1. pending_operation_' \in Seq(Byte)
    BY <1>3
  <2>2. cycles_to_wait_' \in Nat
    BY <1>3
  <2>3. QED
    BY <1>2, <1>3, <2>1, <2>2, PassTyped DEF Inv, TypeInv, IsMemory
<1>5. FetchInv' /\ CycleInv'
  BY <1>3 DEF FetchInv, CycleInv
<1>6. BreakpointInv'
  BY <1>2, <1>3, Rearmed DEF Inv, BreakpointInv
<1>7. QED
  BY <1>4, <1>5, <1>6 DEF Inv

\* The byte that a step fetches, and what it makes of the bytes before.
LEMMA Fetching ==
  ASSUME Inv, Running
  PROVE  /\ Fetched \in Seq(Byte) /\ Len(Fetched) = Len(pending_operation_) + 1
         /\ Fetched[1] = IF pending_operation_ = <<>> THEN Read(memory_, registers_.PC)
                           ELSE pending_operation_[1]
         /\ Advanced \in Registers
         /\ cycles_to_wait_ = 0
         /\ pending_operation_ = <<>> \/ cycle_count_ = Len(pending_operation_)
         /\ Len(pending_operation_) \in Nat
         /\ pending_operation_ = <<>> <=> Len(pending_operation_) = 0
<1>1. Read(memory_, registers_.PC) \in Byte /\ pending_operation_ \in Seq(Byte)
  BY ReadIsByte DEF Inv, TypeInv
<1>2. Advanced \in Registers
  <2>1. registers_ \in Registers /\ registers_.PC \in Int
    BY WordRange DEF Inv, TypeInv, Registers
  <2>2. Word16(registers_.PC + 1) \in Word
    BY <2>1, BytesWrap
  <2>3. QED
    BY <2>1, <2>2 DEF Advanced, Registers
<1>3. cycles_to_wait_ = 0 /\ ~crashed
  BY DEF Running, Active
<1>4. QED
  BY <1>1, <1>2, <1>3 DEF Fetched, Inv, FetchInv

\* The bytes fetched are those in front of the program counter, this one included.
LEMMA FetchedBytes ==
  ASSUME Inv, Running, ~crashed
  PROVE  \A k \in 1 .. Len(Fetched) :
           Fetched[k] = Read(memory_, Word16(registers_.PC - Len(pending_operation_) + k - 1))
<1> DEFINE fetched == Len(pending_operation_)
<1>1. fetched \in Nat /\ pending_operation_ \in Seq(Byte) /\ Len(Fetched) = fetched + 1
  BY Fetching DEF Inv, TypeInv
<1>2. ASSUME NEW k \in 1 .. fetched
      PROVE  Fetched[k] = Read(memory_, Word16(registers_.PC - fetched + k - 1))
  <2>1. Fetched[k] = pending_operation_[k] /\ pending_operation_ # <<>>
    BY <1>1 DEF Fetched
  <2>2. QED
    BY <2>1 DEF Inv, FetchInv
<1>3. Fetched[fetched + 1] = Read(memory_, Word16(registers_.PC - fetched + (fetched + 1) - 1))
  <2>1. Fetched[fetched + 1] = Read(memory_, registers_.PC)
    BY <1>1 DEF Fetched
  <2>2. registers_.PC \in Int /\ 0 <= registers_.PC /\ registers_.PC <= 65535
    BY WordRange DEF Inv, TypeInv, Registers
  <2>3. Word16(registers_.PC - fetched + (fetched + 1) - 1) = registers_.PC
    <3>1. registers_.PC - fetched + (fetched + 1) - 1 = registers_.PC
      BY <1>1, <2>2
    <3>2. Word16(registers_.PC) = registers_.PC
      BY <2>2 DEF Word16
    <3> HIDE DEF fetched
    <3>3. QED
      BY <3>1, <3>2
  <2>4. QED
    BY <2>1, <2>3
<1> HIDE DEF fetched
<1>4. \A k \in 1 .. fetched + 1 : k \in 1 .. fetched \/ k = fetched + 1
  BY <1>1
<1>5. \A k \in 1 .. fetched + 1 :
        Fetched[k] = Read(memory_, Word16(registers_.PC - fetched + k - 1))
  BY <1>2, <1>3, <1>4
<1>6. QED
  BY <1>1, <1>5 DEF fetched

\* Arithmetic modulo 2^16 of a program counter that advances.
LEMMA Advancing ==
  ASSUME NEW pc \in Word, NEW m \in Int
  PROVE  Word16(Word16(pc + 1) + m) = Word16(pc + 1 + m)
<1>1. pc \in Int /\ 0 <= pc /\ pc <= 65535
  BY WordRange
<1>2. Word16(pc + 1) = pc + 1 \/ (Word16(pc + 1) = 0 /\ pc = 65535)
  BY <1>1 DEF Word16
<1>3. pc = 65535 => Word16(pc + 1 + m) = Word16(m)
  BY <1>1 DEF Word16
<1>4. QED
  BY <1>1, <1>2, <1>3

LEMMA FetchByteInv == ASSUME Inv, FetchByte PROVE Inv'
<1>1. Running /\ PassBreakpoint /\ ~crashed /\ cycles_to_wait_ = 0
  BY DEF FetchByte, Running, Active
<1>2. /\ registers_' = Advanced /\ pending_operation_' = Fetched
      /\ UNCHANGED <<memory_, non_maskable_interrupt_, crashed, due, interrupts, resets>>
      /\ should_continue' = TRUE
      /\ Fetched[1] \in Opcodes /\ Len(Fetched) # BytesOf(Details[Fetched[1]].mode)
  BY DEF FetchByte, Complete, history
<1>3. /\ Fetched \in Seq(Byte) /\ Len(Fetched) = Len(pending_operation_) + 1
      /\ Len(pending_operation_) \in Nat /\ Advanced \in Registers
      /\ pending_operation_ = <<>> <=> Len(pending_operation_) = 0
  BY <1>1, Fetching
<1>4. cycles_to_wait_' = 0 /\ cycle_count_' = Len(Fetched)
  BY <1>1, <1>3, Fetching DEF FetchByte, wait_for_cycle_count
<1>5. TypeInv'
  BY <1>1, <1>2, <1>3, <1>4, PassTyped DEF Inv, TypeInv, IsMemory
<1>6. Fetched # <<>> /\ Len(Fetched) < BytesOf(Details[Fetched[1]].mode)
  <2>1. Len(pending_operation_) = 0 => 1 <= BytesOf(Details[Fetched[1]].mode)
    BY Lengths
  <2>2. Len(pending_operation_) # 0 =>
          Len(pending_operation_) < BytesOf(Details[Fetched[1]].mode)
    BY <1>1, <1>3, Fetching DEF Inv, FetchInv
  <2>3. BytesOf(Details[Fetched[1]].mode) \in Int
    BY Lengths
  <2>4. QED
    BY <1>2, <1>3, <2>1, <2>2, <2>3
<1>7. \A n \in 1 .. Len(Fetched) :
        Fetched[n] = Read(memory_', Word16(Advanced.PC - Len(Fetched) + n - 1))
  <2>1. Advanced.PC = Word16(registers_.PC + 1) /\ registers_.PC \in Word /\ registers_.PC \in Int
    BY WordRange DEF Advanced, Inv, TypeInv, Registers
  <2>2. TAKE n \in 1 .. Len(Fetched)
  <2>3. Word16(Word16(registers_.PC + 1) + (n - 1 - Len(Fetched))) =
          Word16(registers_.PC + 1 + (n - 1 - Len(Fetched)))
    BY <1>3, <2>1, Advancing
  <2>4. /\ registers_.PC + 1 + (n - 1 - Len(Fetched))
             = registers_.PC - Len(pending_operation_) + n - 1
        /\ Word16(registers_.PC + 1) + (n - 1 - Len(Fetched))
             = Word16(registers_.PC + 1) - Len(Fetched) + n - 1
    <3>1. /\ registers_.PC \in Int /\ Word16(registers_.PC + 1) \in Int
          /\ Len(Fetched) \in Int /\ Len(pending_operation_) \in Int
      <4>1. registers_.PC + 1 \in Int
        BY <2>1
      <4>2. Word16(registers_.PC + 1) \in Int
        BY SMTT(30), <4>1, BytesWrap, WordRange
      <4>3. QED
        BY <1>3, <2>1, <4>2
    <3>2. n \in Int
      OBVIOUS
    <3>3. \A pc, next, f, p \in Int : f = p + 1 =>
            /\ pc + 1 + (n - 1 - f) = pc - p + n - 1
            /\ next + (n - 1 - f) = next - f + n - 1
      BY <3>2
    <3>4. QED
      BY <1>3, <3>1, <3>3
  <2>5. QED
    BY <1>1, <1>2, <2>1, <2>3, <2>4, FetchedBytes
<1>8. FetchInv' /\ CycleInv'
  BY <1>2, <1>4, <1>6, <1>7 DEF FetchInv, CycleInv, Charged
<1>9. BreakpointInv'
  BY <1>1, <1>2, Rearmed DEF Inv, BreakpointInv
<1>10. QED
  BY <1>5, <1>8, <1>9 DEF Inv

LEMMA FetchAndExecuteInv == ASSUME Inv, FetchAndExecute PROVE Inv'
<1>1. Running /\ PassBreakpoint /\ ~crashed /\ cycles_to_wait_ = 0
  BY DEF FetchAndExecute, Running, Active
<1>2. IsFetched(Fetched) /\ Len(Fetched) = Len(pending_operation_) + 1 /\ Advanced \in Registers
  BY <1>1, Fetching DEF FetchAndExecute, Complete, IsFetched
<1>3. /\ registers_' \in Registers /\ IsMemory(memory_')
      /\ pending_operation_' = <<>>
      /\ \E cycles \in Nat :
           cycles >= Len(Fetched) /\ Charged' = cycles
             /\ cycles_to_wait_' = cycles - Len(Fetched)
      /\ due' \in [cycles : Nat, extra : Nat]
      /\ cycle_count_' = IF pending_operation_ = <<>> /\ cycles_to_wait_ = 0
                           THEN 1 ELSE cycle_count_ + 1
      /\ should_continue' \in BOOLEAN
      /\ UNCHANGED <<crashed, interrupts, resets>>
  <2>1. execute_instruction(Fetched, FALSE, Advanced) /\ TypeInv
    BY DEF FetchAndExecute, Inv
  <2>2. QED
    BY <1>2, <2>1, Executing
<1>4. cycle_count_' = Len(Fetched) /\ Len(Fetched) \in Nat
  BY <1>1, <1>2, <1>3, Fetching
<1>5. UNCHANGED non_maskable_interrupt_
  BY DEF FetchAndExecute
<1>6. TypeInv'
  <2>1. pending_operation_' \in Seq(Byte)
    BY <1>3
  <2>2. cycles_to_wait_' \in Nat
    BY <1>3, <1>4
  <2>3. QED
    BY <1>1, <1>3, <1>4, <1>5, <2>1, <2>2, PassTyped DEF Inv, TypeInv, IsMemory
<1>7. FetchInv' /\ CycleInv'
  BY <1>3, <1>4 DEF FetchInv, CycleInv
<1>8. BreakpointInv'
  BY <1>1, <1>3, Rearmed DEF Inv, BreakpointInv
<1>9. QED
  BY <1>6, <1>7, <1>8 DEF Inv

LEMMA FetchInvalidInv == ASSUME Inv, FetchInvalid PROVE Inv'
<1>1. Running /\ PassBreakpoint
  BY DEF FetchInvalid, Running
<1>2. /\ crashed' = TRUE /\ registers_' = Advanced /\ pending_operation_' = Fetched
      /\ cycles_to_wait_' = 1
      /\ UNCHANGED <<memory_, cycle_count_, non_maskable_interrupt_, should_continue, due,
                     interrupts, resets>>
  BY DEF FetchInvalid, history
<1>3. TypeInv'
  BY <1>1, <1>2, Fetching, PassTyped DEF Inv, TypeInv, IsMemory
<1>4. FetchInv' /\ CycleInv'
  BY <1>2 DEF FetchInv, CycleInv, Charged
<1>5. BreakpointInv'
  BY <1>1, <1>2, Rearmed DEF Inv, BreakpointInv
<1>6. QED
  BY <1>3, <1>4, <1>5 DEF Inv

LEMMA RaiseNmiInv == ASSUME Inv, RaiseNmi PROVE Inv'
<1>1. TypeInv'
  BY DEF Inv, TypeInv, RaiseNmi, debugger, IsMemory
<1>2. FetchInv' /\ CycleInv' /\ BreakpointInv'
  BY DEF Inv, FetchInv, CycleInv, Charged, BreakpointInv, RaiseNmi, debugger
<1>3. QED
  BY <1>1, <1>2 DEF Inv

LEMMA ResetInv == ASSUME Inv, reset PROVE Inv'
<1>1. Vector(memory_, RESET_low_addr) \in Word
  BY VectorIsWord DEF Inv, TypeInv
<1>2. registers_' \in Registers
  <2>1. 0 \in Byte /\ 255 \in Byte
    BY ByteRange
  <2>2. QED
    BY <1>1, <2>1 DEF reset, Registers
<1>3. pending_operation_' = <<>> /\ pending_operation_' \in Seq(Byte)
  BY DEF reset
<1>4. TypeInv'
  BY <1>2, <1>3 DEF Inv, TypeInv, reset, debugger, IsMemory
<1>5. FetchInv' /\ CycleInv'
  BY <1>3 DEF Inv, TypeInv, FetchInv, CycleInv, Charged, reset
<1>6. BreakpointInv'
  BY DEF Inv, TypeInv, BreakpointInv, reset
<1>7. QED
  BY <1>4, <1>5, <1>6 DEF Inv

LEMMA NextInv == Inv /\ [Next]_vars => Inv'
<1> SUFFICES ASSUME Inv, [Next]_vars PROVE Inv'
  OBVIOUS
<1>1. CASE UNCHANGED vars
  BY <1>1 DEF vars, Inv, TypeInv, FetchInv, CycleInv, Charged, BreakpointInv, IsMemory
<1>2. CASE step
  BY <1>2, WaitInv, StopInv, TakeNmiInv, FetchByteInv, FetchAndExecuteInv, FetchInvalidInv
     DEF step
<1>3. QED
  BY <1>1, <1>2, RaiseNmiInv, ResetInv DEF Next

LEMMA Invariance == Spec => []Inv
BY InitInv, NextInv, PTL DEF Spec

\* Every instruction takes the cycles of its row, plus the one its handler adds
\* for a crossed page or a taken branch (a branch that adds two is left out),
\* whatever interrupts, breakpoints and resets come between
\* its cycles, and none is spent twice or forgotten.
THEOREM CyclesExact == Spec => []CycleExact
<1>1. Inv => CycleExact
  BY DEF Inv, TypeInv, CycleInv, Charged, CycleExact, Idle
<1>2. QED
  BY <1>1, Invariance, PTL

\* A program that nobody resets cannot leave an address with a breakpoint
\* before a step has stopped there, and the breakpoint is armed for the next
\* visit, for any set of breakpoints and with an interrupt or not.
THEOREM BreakpointsStop == Spec => BreakpointsStopEveryTime
<1>1. ASSUME Inv, [Next]_vars
      PROVE  [\A a \in Breakpoints :
                registers_.PC = a /\ registers_'.PC # a /\ resets' = 0 =>
                  ~should_continue /\ breakpoints_'[a]]_vars
  <2> SUFFICES ASSUME NEW a \in Breakpoints,
                      registers_.PC = a, registers_'.PC # a, resets' = 0
               PROVE  ~should_continue /\ breakpoints_'[a]
    OBVIOUS
  <2>1. Next /\ registers_' # registers_
    BY <1>1 DEF vars
  <2>2. ~reset
    BY <1>1 DEF reset, Inv, TypeInv
  <2>3. Running
    BY <2>1, <2>2
       DEF Next, step, Wait, HitBreakpoint, AbortAtStopAddress, RaiseNmi, TakeNmi, FetchByte,
           FetchAndExecute, FetchInvalid
  <2>4. resets = 0
    BY <1>1, <2>1, <2>2
       DEF Next, step, Wait, HitBreakpoint, AbortAtStopAddress, RaiseNmi, TakeNmi, FetchByte,
           FetchAndExecute, FetchInvalid, execute_instruction, history
  <2>5. ~breakpoints_[a] /\ breakpoints_'[a]
    BY <2>3 DEF Running, PassBreakpoint, AtArmedBreakpoint
  <2>6. QED
    BY <1>1, <2>4, <2>5 DEF Inv, BreakpointInv
<1>2. QED
  BY <1>1, Invariance, PTL DEF Spec, BreakpointsStopEveryTime

-----------------------------------------------------------------------------
(***************************************************************************)
(* The instance of Instructions that AtomicCpu is written with             *)
(***************************************************************************)

LEMMA SameTable ==
  /\ Atomic!Opcodes = Opcodes
  /\ Atomic!Details = Details
  /\ \A mode : Atomic!BytesOf(mode) = BytesOf(mode)
<1>1. Atomic!Rows = Rows
  BY DEF Atomic!Rows, Rows, Atomic!Family, Family, Atomic!Row, Row, Atomic!ReadModes, ReadModes,
         Atomic!StoreModes, StoreModes, Atomic!ModifyModes, ModifyModes, Atomic!ShiftModes,
         ShiftModes, Atomic!CompareModes, CompareModes, Atomic!Branches, Branches,
         Atomic!TwoCycles, TwoCycles, Atomic!StackAndInterrupt, StackAndInterrupt
<1>2. QED
  BY <1>1 DEF Atomic!Opcodes, Opcodes, Atomic!Details, Details, Atomic!BytesOf, BytesOf

LEMMA SameMemory ==
  ASSUME NEW r, NEW memory, NEW a, NEW value
  PROVE  /\ Atomic!Read(memory, a) = Read(memory, a)
         /\ Atomic!Write(memory, a, value) = Write(memory, a, value)
         /\ Atomic!Vector(memory, a) = Vector(memory, a)
         /\ Atomic!Popped(r, memory, a) = Popped(r, memory, a)
         /\ Atomic!PointerInPage(memory, a) = PointerInPage(memory, a)
BY DEF Atomic!Read, Read, Atomic!Write, Write, Atomic!InternalMemorySize, InternalMemorySize,
         Atomic!Vector, Vector, Atomic!Address, Address, Atomic!Popped, Popped, Atomic!Byte8,
         Byte8, Atomic!PointerInPage, PointerInPage, Atomic!Low, Low, Atomic!High, High

LEMMA SameDecoding ==
  ASSUME NEW values, NEW nmi, NEW r, NEW memory
  PROVE  Atomic!Decoded(values, nmi, r, memory) = Decoded(values, nmi, r, memory)
<1>1. Atomic!calculate_instruction_address(values, r, memory)
        = calculate_instruction_address(values, r, memory)
  BY SameTable, SameMemory
     DEF Atomic!calculate_instruction_address, calculate_instruction_address, Atomic!Direct,
         Direct, Atomic!Indexed, Indexed, Atomic!ZeroPage, ZeroPage, Atomic!Address, Address,
         Atomic!Byte8, Byte8, Atomic!Word16, Word16, Atomic!High, High
<1>2. QED
  BY <1>1, SameTable, SameMemory DEF Atomic!Decoded, Decoded

LEMMA SameRegisters ==
  ASSUME NEW r, NEW register, NEW byte, NEW memory, NEW effect
  PROVE  /\ Atomic!Loaded(r, register, byte) = Loaded(r, register, byte)
         /\ Atomic!Compared(r, register, byte) = Compared(r, register, byte)
         /\ Atomic!Push(effect, byte) = Push(effect, byte)
         /\ Atomic!SR(r) = SR(r)
BY SameMemory
   DEF Atomic!Loaded, Loaded, Atomic!Compared, Compared, Atomic!ZeroNegative, ZeroNegative,
         Atomic!set_status_register_flag, set_status_register_flag, Atomic!Byte8, Byte8,
         Atomic!ZERO_FLAG, ZERO_FLAG, Atomic!NEGATIVE_FLAG, NEGATIVE_FLAG, Atomic!CARRY_FLAG,
         CARRY_FLAG, Atomic!Push, Push, Atomic!Effect, Effect, Atomic!Write, Write,
         Atomic!InternalMemorySize, InternalMemorySize, Atomic!SR, SR, Atomic!FromBits, FromBits,
         Atomic!BitValues, BitValues, Atomic!BREAK_FLAG, BREAK_FLAG, Atomic!UNUSED_BIT, UNUSED_BIT

LEMMA SameSums ==
  ASSUME NEW i, NEW r, NEW memory
  PROVE  /\ Atomic!ADC(i, r, memory) = ADC(i, r, memory)
         /\ Atomic!SBC(i, r, memory) = SBC(i, r, memory)
BY DEF Atomic!ADC, ADC, Atomic!SBC, SBC, Atomic!Effect, Effect, Atomic!set_status_register_flag,
         set_status_register_flag, Atomic!ZeroNegative, ZeroNegative, Atomic!Carry, Carry,
         Atomic!PageCycle, PageCycle, Atomic!Byte8, Byte8, Atomic!ZERO_FLAG, ZERO_FLAG,
         Atomic!NEGATIVE_FLAG, NEGATIVE_FLAG, Atomic!CARRY_FLAG, CARRY_FLAG, Atomic!OVERFLOW_FLAG,
         OVERFLOW_FLAG, Atomic!Signed, Signed

LEMMA SameLogic ==
  ASSUME NEW i, NEW r, NEW memory
  PROVE  /\ Atomic!AND(i, r, memory) = AND(i, r, memory)
         /\ Atomic!ORA(i, r, memory) = ORA(i, r, memory)
         /\ Atomic!EOR(i, r, memory) = EOR(i, r, memory)
         /\ Atomic!BIT(i, r, memory) = BIT(i, r, memory)
         /\ Atomic!CMP(i, r, memory) = CMP(i, r, memory)
         /\ Atomic!CPX(i, r, memory) = CPX(i, r, memory)
         /\ Atomic!CPY(i, r, memory) = CPY(i, r, memory)
BY DEF Atomic!AND, AND, Atomic!ORA, ORA, Atomic!EOR, EOR, Atomic!BIT, BIT, Atomic!CMP, CMP,
         Atomic!CPX, CPX, Atomic!CPY, CPY, Atomic!Loaded, Loaded, Atomic!Compared, Compared,
         Atomic!And, And, Atomic!Or, Or, Atomic!Xor, Xor, Atomic!Bits, Bits, Atomic!FromBits,
         FromBits, Atomic!BitValues, BitValues, Atomic!OVERFLOW_FLAG, OVERFLOW_FLAG,
         Atomic!Effect, Effect,
         Atomic!set_status_register_flag, set_status_register_flag, Atomic!ZeroNegative,
         ZeroNegative, Atomic!Carry, Carry, Atomic!PageCycle, PageCycle, Atomic!Byte8, Byte8,
         Atomic!ZERO_FLAG, ZERO_FLAG, Atomic!NEGATIVE_FLAG, NEGATIVE_FLAG, Atomic!CARRY_FLAG,
         CARRY_FLAG

LEMMA SameShifts ==
  ASSUME NEW i, NEW r, NEW memory
  PROVE  /\ Atomic!ASL(i, r, memory) = ASL(i, r, memory)
         /\ Atomic!LSR(i, r, memory) = LSR(i, r, memory)
         /\ Atomic!ROL(i, r, memory) = ROL(i, r, memory)
         /\ Atomic!ROR(i, r, memory) = ROR(i, r, memory)
BY DEF Atomic!ASL, ASL, Atomic!LSR, LSR, Atomic!ROL, ROL, Atomic!ROR, ROR, Atomic!Shifted,
         Shifted, Atomic!Effect, Effect, Atomic!set_status_register_flag, set_status_register_flag,
         Atomic!ZeroNegative, ZeroNegative, Atomic!Carry, Carry, Atomic!PageCycle, PageCycle,
         Atomic!Byte8, Byte8, Atomic!ZERO_FLAG, ZERO_FLAG, Atomic!NEGATIVE_FLAG, NEGATIVE_FLAG,
         Atomic!CARRY_FLAG, CARRY_FLAG, Atomic!Read, Read, Atomic!Write, Write,
         Atomic!InternalMemorySize, InternalMemorySize

LEMMA SameSteps ==
  ASSUME NEW i, NEW r, NEW memory
  PROVE  /\ Atomic!INC(i, r, memory) = INC(i, r, memory)
         /\ Atomic!DEC(i, r, memory) = DEC(i, r, memory)
         /\ Atomic!DCP(i, r, memory) = DCP(i, r, memory)
BY DEF Atomic!INC, INC, Atomic!DEC, DEC, Atomic!DCP, DCP, Atomic!Stepped, Stepped,
         Atomic!Compared, Compared, Atomic!Effect, Effect, Atomic!set_status_register_flag,
         set_status_register_flag, Atomic!ZeroNegative, ZeroNegative, Atomic!Carry, Carry,
         Atomic!PageCycle, PageCycle, Atomic!Byte8, Byte8, Atomic!ZERO_FLAG, ZERO_FLAG,
         Atomic!NEGATIVE_FLAG, NEGATIVE_FLAG, Atomic!CARRY_FLAG, CARRY_FLAG, Atomic!Read, Read,
         Atomic!Write, Write, Atomic!InternalMemorySize, InternalMemorySize

LEMMA SameMoves ==
  ASSUME NEW i, NEW r, NEW memory
  PROVE  /\ Atomic!Load(i, r, memory) = Load(i, r, memory)
         /\ Atomic!Store(i, r, memory) = Store(i, r, memory)
         /\ Atomic!Transfer(i, r, memory) = Transfer(i, r, memory)
         /\ Atomic!FlagOperation(i, r, memory) = FlagOperation(i, r, memory)
BY DEF Atomic!Load, Load, Atomic!Store, Store, Atomic!Transfer, Transfer, Atomic!FlagOperation,
         FlagOperation, Atomic!Loaded, Loaded, Atomic!DECIMAL_FLAG, DECIMAL_FLAG,
         Atomic!INTERRUPT_DISABLE_FLAG, INTERRUPT_DISABLE_FLAG, Atomic!OVERFLOW_FLAG,
         OVERFLOW_FLAG, Atomic!ZeroNegative, ZeroNegative, Atomic!ZERO_FLAG, ZERO_FLAG,
         Atomic!NEGATIVE_FLAG, NEGATIVE_FLAG, Atomic!set_status_register_flag,
         set_status_register_flag, Atomic!CARRY_FLAG, CARRY_FLAG, Atomic!Effect, Effect,
         Atomic!Byte8, Byte8, Atomic!Read, Read, Atomic!Write, Write, Atomic!InternalMemorySize,
         InternalMemorySize

LEMMA SameBranches ==
  ASSUME NEW i, NEW r, NEW memory
  PROVE  /\ Atomic!JMP(i, r, memory) = JMP(i, r, memory)
         /\ Atomic!Branch(i, r, memory) = Branch(i, r, memory)
BY DEF Atomic!JMP, JMP, Atomic!Branch, Branch, Atomic!Effect, Effect, Atomic!Word16, Word16,
         Atomic!High, High, Atomic!Signed, Signed, Atomic!Taken, Taken, Atomic!PageBranch,
         PageBranch, Atomic!NEGATIVE_FLAG, NEGATIVE_FLAG, Atomic!OVERFLOW_FLAG, OVERFLOW_FLAG,
         Atomic!CARRY_FLAG, CARRY_FLAG, Atomic!ZERO_FLAG, ZERO_FLAG

LEMMA SameCalls ==
  ASSUME NEW i, NEW r, NEW memory
  PROVE  /\ Atomic!JSR(i, r, memory) = JSR(i, r, memory)
         /\ Atomic!RTS(i, r, memory) = RTS(i, r, memory)
BY DEF Atomic!JSR, JSR, Atomic!RTS, RTS, Atomic!Push, Push, Atomic!Popped, Popped, Atomic!SR, SR,
         Atomic!FromBits, FromBits, Atomic!Bits, Bits, Atomic!BitValues, BitValues,
         Atomic!BREAK_FLAG, BREAK_FLAG, Atomic!UNUSED_BIT, UNUSED_BIT, Atomic!Read, Read,
         Atomic!Write, Write,
         Atomic!InternalMemorySize, InternalMemorySize, Atomic!Effect, Effect, Atomic!Byte8, Byte8,
         Atomic!Word16, Word16, Atomic!High, High, Atomic!Low, Low, Atomic!Address, Address

LEMMA SameInterrupts ==
  ASSUME NEW i, NEW r, NEW memory
  PROVE  /\ Atomic!BRK(i, r, memory) = BRK(i, r, memory)
         /\ Atomic!RTI(i, r, memory) = RTI(i, r, memory)
<1>1. ASSUME NEW pc PROVE Atomic!BRKFrom(i, r, memory, pc) = BRKFrom(i, r, memory, pc)
  <2> DEFINE pushed == Push(Push(Push(Effect(r, memory, 0), High(pc)), Low(pc)), SR(r))
             atomic == Atomic!Push(Atomic!Push(Atomic!Push(
                         Atomic!Effect(r, memory, 0), Atomic!High(pc)), Atomic!Low(pc)),
                         Atomic!SR(r))
             low == IF i.nmi THEN NMI_low_addr ELSE BRK_low_addr
  <2>1. atomic = pushed
    <3>1. /\ Atomic!Effect(r, memory, 0) = Effect(r, memory, 0)
          /\ Atomic!High(pc) = High(pc) /\ Atomic!Low(pc) = Low(pc)
      BY DEF Atomic!Effect, Effect, Atomic!High, High, Atomic!Low, Low
    <3>2. QED
      BY <3>1, SameRegisters
  <2>2. Atomic!Vector(atomic.memory, low) = Vector(pushed.memory, low)
    BY <2>1, SameMemory
  <2>3. BRKFrom(i, r, memory, pc) =
          Effect([pushed.r EXCEPT !.SR = @ \cup {BREAK_FLAG, INTERRUPT_DISABLE_FLAG},
                                  !.PC = Vector(pushed.memory, low)],
                 pushed.memory, 0)
    BY DEF BRKFrom
  <2>4. Atomic!BRKFrom(i, r, memory, pc) =
          Effect([atomic.r EXCEPT !.SR = @ \cup {BREAK_FLAG, INTERRUPT_DISABLE_FLAG},
                                  !.PC = Atomic!Vector(atomic.memory, low)],
                 atomic.memory, 0)
    BY DEF Atomic!BRKFrom, BRKFrom, Atomic!Effect, Effect, Atomic!BREAK_FLAG, BREAK_FLAG,
         Atomic!INTERRUPT_DISABLE_FLAG, INTERRUPT_DISABLE_FLAG, Atomic!NMI_low_addr, NMI_low_addr,
         Atomic!BRK_low_addr, BRK_low_addr
  <2> HIDE DEF pushed, atomic, low
  <2>5. QED
    BY <2>1, <2>2, <2>3, <2>4
<1>2. Atomic!BRK(i, r, memory) = BRK(i, r, memory)
  BY <1>1 DEF Atomic!BRK, BRK, Atomic!Word16, Word16
<1>3. Atomic!RTI(i, r, memory) = RTI(i, r, memory)
  BY DEF Atomic!RTI, RTI, Atomic!Effect, Effect, Atomic!Byte8, Byte8, Atomic!Bits, Bits,
         Atomic!BitValues, BitValues, Atomic!Popped, Popped, Atomic!Read, Read,
         Atomic!Address, Address
<1>4. QED
  BY <1>2, <1>3

LEMMA SamePushes ==
  ASSUME NEW i, NEW r, NEW memory
  PROVE  /\ Atomic!PHA(i, r, memory) = PHA(i, r, memory)
         /\ Atomic!PHP(i, r, memory) = PHP(i, r, memory)
         /\ Atomic!PLA(i, r, memory) = PLA(i, r, memory)
         /\ Atomic!PLP(i, r, memory) = PLP(i, r, memory)
BY DEF Atomic!PHA, PHA, Atomic!PHP, PHP, Atomic!PLA, PLA, Atomic!PLP, PLP, Atomic!Loaded, Loaded,
         Atomic!ZeroNegative, ZeroNegative, Atomic!ZERO_FLAG, ZERO_FLAG, Atomic!NEGATIVE_FLAG,
         NEGATIVE_FLAG, Atomic!set_status_register_flag, set_status_register_flag, Atomic!Push,
         Push, Atomic!Popped, Popped, Atomic!SR, SR, Atomic!FromBits, FromBits, Atomic!Bits, Bits,
         Atomic!BitValues, BitValues, Atomic!BREAK_FLAG, BREAK_FLAG, Atomic!UNUSED_BIT, UNUSED_BIT,
         Atomic!Read, Read,
         Atomic!Write, Write, Atomic!InternalMemorySize, InternalMemorySize, Atomic!Effect, Effect,
         Atomic!Byte8, Byte8

LEMMA SameExecution ==
  ASSUME NEW values, NEW nmi, NEW r, NEW memory
  PROVE  Atomic!Executed(values, nmi, r, memory) = Executed(values, nmi, r, memory)
<1>1. ASSUME NEW i PROVE Atomic!Handled(i, r, memory) = Handled(i, r, memory)
  BY SameSums, SameLogic, SameShifts, SameSteps, SameMoves, SameBranches, SameCalls,
     SameInterrupts, SamePushes
     DEF Atomic!Handled, Handled, Atomic!Effect, Effect, Atomic!Loads, Loads, Atomic!Stores,
         Stores, Atomic!RegisterOperations, RegisterOperations, Atomic!FlagOperations,
         FlagOperations
<1>2. QED
  BY <1>1, SameDecoding DEF Atomic!Executed, Executed

-----------------------------------------------------------------------------
(***************************************************************************)
(* Refinement: an instruction is one step                                  *)
(***************************************************************************)

\* The registers as the program sees them: at the start of the instruction.
Seen == [registers_ EXCEPT !.PC = Word16(@ - Len(pending_operation_))]

LEMMA WordSum ==
  ASSUME NEW m \in Int, NEW n \in Int PROVE Word16(Word16(m) + n) = Word16(m + n)
BY DEF Word16

\* Between two instructions the program sees the registers themselves.
LEMMA SeenIdle ==
  ASSUME NEW r \in Registers PROVE [r EXCEPT !.PC = Word16(@ - 0)] = r
<1>1. Word16(r.PC - 0) = r.PC
  <2>1. r.PC \in Int /\ 0 <= r.PC /\ r.PC <= 65535
    BY WordRange DEF Registers
  <2>2. QED
    BY <2>1 DEF Word16
<1>2. [r EXCEPT !.PC = r.PC] = r
  BY DEF Registers
<1>3. QED
  BY <1>1, <1>2

LEMMA CounterSetTwice ==
  ASSUME NEW r \in Registers, NEW m, NEW n
  PROVE  /\ [[r EXCEPT !.PC = m] EXCEPT !.PC = n] = [r EXCEPT !.PC = n]
         /\ [r EXCEPT !.PC = m].PC = m
BY DEF Registers

\* A step that fetches a byte, of the next instruction or of none, shows the
\* program nothing.
LEMMA FetchingUnseen ==
  ASSUME Inv, Running
  PROVE  [Advanced EXCEPT !.PC = Word16(@ - Len(Fetched))] = Seen
<1> DEFINE fetched == Len(pending_operation_)
<1>1. /\ registers_ \in Registers /\ registers_.PC \in Int /\ fetched \in Int
      /\ Len(Fetched) = fetched + 1
  BY Fetching, WordRange DEF Inv, TypeInv, Registers
<1> HIDE DEF fetched
<1>2. Advanced.PC = Word16(registers_.PC + 1)
  BY <1>1, CounterSetTwice DEF Advanced
<1>3. Word16(Word16(registers_.PC + 1) + (0 - (fetched + 1))) = Word16(registers_.PC - fetched)
  <2>1. registers_.PC + 1 + (0 - (fetched + 1)) = registers_.PC - fetched
    BY <1>1
  <2>2. registers_.PC + 1 \in Int /\ 0 - (fetched + 1) \in Int
    BY <1>1
  <2>3. QED
    BY <2>1, <2>2, WordSum
<1>4. Word16(Advanced.PC - Len(Fetched)) = Word16(registers_.PC - fetched)
  <2>1. Advanced.PC \in Int
    BY <1>1, <1>2, BytesWrap, WordRange
  <2>2. Advanced.PC - Len(Fetched) = Advanced.PC + (0 - (fetched + 1))
    BY <1>1, <2>1
  <2>3. QED
    BY <1>2, <1>3, <2>2
<1>5. QED
  BY <1>1, <1>4, CounterSetTwice DEF Seen, Advanced, fetched

\* The bytes and the registers that an execution works on are those that the
\* program sees at the program counter.
LEMMA ExecutingSeen ==
  ASSUME Inv, Running, Fetched[1] \in Opcodes, Complete
  PROVE  /\ Read(memory_, Seen.PC) = Fetched[1]
         /\ Len(Fetched) = BytesOf(Details[Fetched[1]].mode)
         /\ [k \in 1 .. Len(Fetched) |-> Read(memory_, Word16(Seen.PC + k - 1))] = Fetched
         /\ [Seen EXCEPT !.PC = Word16(@ + Len(Fetched))] = Advanced
<1> DEFINE fetched == Len(pending_operation_)
           start == Word16(registers_.PC - fetched)
<1>1. /\ registers_ \in Registers /\ registers_.PC \in Int /\ fetched \in Nat
      /\ Fetched \in Seq(Byte) /\ Len(Fetched) = fetched + 1
  BY Fetching, WordRange DEF Inv, TypeInv, Registers
<1>2. \A k \in 1 .. Len(Fetched) :
        Fetched[k] = Read(memory_, Word16(registers_.PC - fetched + k - 1))
  BY FetchedBytes DEF Running, Active
<1> HIDE DEF fetched
<1>3. start \in Word /\ start \in Int
  BY <1>1, BytesWrap, WordRange
<1>4. Seen.PC = start
  BY <1>1, CounterSetTwice DEF Seen, fetched
<1>5. \A m \in Int : Word16(start + m) = Word16(registers_.PC - fetched + m)
  <2>1. registers_.PC - fetched \in Int
    BY <1>1
  <2>2. QED
    BY <2>1, WordSum
<1> HIDE DEF start
<1>6. \A k \in 1 .. Len(Fetched) : Fetched[k] = Read(memory_, Word16(Seen.PC + k - 1))
  <2>1. TAKE k \in 1 .. Len(Fetched)
  <2>2. k - 1 \in Int /\ start + (k - 1) = start + k - 1
        /\ registers_.PC - fetched + (k - 1) = registers_.PC - fetched + k - 1
    BY <1>1, <1>3
  <2>3. Word16(start + k - 1) = Word16(registers_.PC - fetched + k - 1)
    BY <1>5, <2>2
  <2>4. QED
    BY <1>2, <1>4, <2>3
<1>7. Read(memory_, Seen.PC) = Fetched[1]
  <2>1. Word16(Seen.PC + 1 - 1) = Seen.PC
    BY <1>3, <1>4, WordRange DEF Word16
  <2>2. 1 \in 1 .. Len(Fetched)
    BY <1>1
  <2>3. QED
    BY <1>6, <2>1, <2>2
<1>8. Len(Fetched) = BytesOf(Details[Fetched[1]].mode)
  BY DEF Complete
<1>9. [k \in 1 .. Len(Fetched) |-> Read(memory_, Word16(Seen.PC + k - 1))] = Fetched
  <2>1. Fetched = [k \in 1 .. Len(Fetched) |-> Fetched[k]]
    BY <1>1
  <2>2. QED
    BY <1>6, <2>1
<1>10. [Seen EXCEPT !.PC = Word16(@ + Len(Fetched))] = Advanced
  <2>1. Word16(start + Len(Fetched)) = Word16(registers_.PC + 1)
    <3>1. registers_.PC - fetched + Len(Fetched) = registers_.PC + 1 /\ Len(Fetched) \in Int
      BY <1>1
    <3>2. QED
      BY <1>5, <3>1
  <2>2. QED
    BY <1>1, <1>4, <2>1, CounterSetTwice DEF Seen, Advanced
<1>11. QED
  BY <1>7, <1>8, <1>9, <1>10

LEMMA ExecutionIsAtomic ==
  ASSUME NEW values, NEW nmi, NEW r, execute_instruction(values, nmi, r)
  PROVE  /\ registers_' = Executed(values, nmi, r, memory_).r
         /\ memory_' = Executed(values, nmi, r, memory_).memory
BY DEF execute_instruction, Executed

LEMMA SeenNext ==
  ASSUME Inv', pending_operation_' = <<>> PROVE Seen' = registers_'
<1>1. registers_' \in Registers /\ Len(pending_operation_') = 0
  BY DEF Inv, TypeInv
<1>2. QED
  BY <1>1, SeenIdle DEF Seen

LEMMA ExecuteRefines ==
  ASSUME Inv, Inv', FetchAndExecute PROVE Atomic!Instruction
<1>1. /\ Running /\ Fetched[1] \in Opcodes /\ Complete
      /\ execute_instruction(Fetched, FALSE, Advanced)
      /\ UNCHANGED non_maskable_interrupt_
  BY DEF FetchAndExecute
<1>2. pending_operation_' = <<>>
  BY <1>1 DEF execute_instruction
<1> DEFINE bytes == Len(Fetched)
           executed == Executed(Fetched, FALSE, Advanced, memory_)
<1>3. registers_' = executed.r /\ memory_' = executed.memory
  BY <1>1, ExecutionIsAtomic
<1>4. Seen' = executed.r
  BY <1>2, <1>3, SeenNext
<1>5. Atomic!Read(memory_, Seen.PC) = Fetched[1] /\ Fetched[1] \in Atomic!Opcodes
  BY <1>1, ExecutingSeen, SameMemory, SameTable
<1>6. Atomic!BytesOf(Atomic!Details[Fetched[1]].mode) = bytes
  BY <1>1, ExecutingSeen, SameTable
<1>7. [k \in 1 .. bytes |-> Atomic!Read(memory_, Atomic!Word16(Seen.PC + k - 1))] = Fetched
  <2>1. \A a : Atomic!Read(memory_, a) = Read(memory_, a) /\ Atomic!Word16(a) = Word16(a)
    BY SameMemory DEF Atomic!Word16, Word16
  <2>2. QED
    BY <1>1, <2>1, ExecutingSeen
<1>8. [Seen EXCEPT !.PC = Atomic!Word16(@ + bytes)] = Advanced
  <2>1. \A a : Atomic!Word16(a) = Word16(a)
    BY DEF Atomic!Word16, Word16
  <2>2. QED
    BY <1>1, <2>1, ExecutingSeen
<1>9. Atomic!Executed(Fetched, FALSE, Advanced, memory_) = executed
  BY SameExecution
<1> HIDE DEF bytes, executed
<1>10. Atomic!Executed(Atomic!Fetched(bytes), FALSE,
                       [Seen EXCEPT !.PC = Atomic!Word16(@ + bytes)], memory_) = executed
  <2>1. Atomic!Fetched(bytes) = Fetched
    BY <1>7 DEF Atomic!Fetched, Seen
  <2>2. QED
    BY <1>8, <1>9, <2>1
<1>11. Atomic!Instruction <=>
         /\ Atomic!Read(memory_, Seen.PC) \in Atomic!Opcodes
         /\ LET n == Atomic!BytesOf(Atomic!Details[Atomic!Read(memory_, Seen.PC)].mode)
                effect == Atomic!Executed(Atomic!Fetched(n), FALSE,
                            [Seen EXCEPT !.PC = Atomic!Word16(@ + n)], memory_)
            IN Seen' = effect.r /\ memory_' = effect.memory
         /\ UNCHANGED non_maskable_interrupt_
  BY DEF Atomic!Instruction, Atomic!Becomes, Seen
<1>12. QED
  BY <1>1, <1>3, <1>4, <1>5, <1>6, <1>10, <1>11

LEMMA InterruptRefines ==
  ASSUME Inv, Inv', TakeNmi PROVE Atomic!Interrupt
<1>1. /\ non_maskable_interrupt_ /\ non_maskable_interrupt_' = FALSE
      /\ pending_operation_ = <<>>
      /\ execute_instruction(<<0>>, TRUE, registers_)
  BY DEF TakeNmi, check_nmi
<1>2. pending_operation_' = <<>>
  BY <1>1 DEF execute_instruction
<1>3. Seen = registers_
  <2>1. registers_ \in Registers /\ Len(pending_operation_) = 0
    BY <1>1 DEF Inv, TypeInv
  <2>2. QED
    BY <2>1, SeenIdle DEF Seen
<1> DEFINE executed == Executed(<<0>>, TRUE, registers_, memory_)
<1>4. registers_' = executed.r /\ memory_' = executed.memory
  BY <1>1, ExecutionIsAtomic
<1>5. Seen' = executed.r
  BY <1>2, <1>4, SeenNext
<1>6. Atomic!Executed(<<0>>, TRUE, Seen, memory_) = executed
  BY <1>3, SameExecution
<1>7. Atomic!Interrupt <=>
         /\ non_maskable_interrupt_
         /\ LET effect == Atomic!Executed(<<0>>, TRUE, Seen, memory_)
            IN Seen' = effect.r /\ memory_' = effect.memory
         /\ non_maskable_interrupt_' = FALSE
  BY DEF Atomic!Interrupt, Atomic!Becomes, Seen
<1> HIDE DEF executed
<1>8. QED
  BY <1>1, <1>4, <1>5, <1>6, <1>7

LEMMA ResetRefines ==
  ASSUME Inv, Inv', reset PROVE Atomic!Reset
<1>1. Seen' = registers_'
  BY SeenNext DEF reset
<1>2. Atomic!Vector(memory_, Atomic!RESET_low_addr) = Vector(memory_, RESET_low_addr)
  BY SameMemory DEF Atomic!RESET_low_addr, RESET_low_addr
<1>3. Atomic!Reset <=>
        /\ Seen' = [PC |-> Atomic!Vector(memory_, Atomic!RESET_low_addr), A |-> 0, X |-> 0,
                    Y |-> 0, SP |-> 255, SR |-> {}]
        /\ UNCHANGED <<memory_, non_maskable_interrupt_>>
  BY DEF Atomic!Reset, Seen
<1>4. QED
  BY <1>1, <1>2, <1>3 DEF reset

LEMMA StepRefines ==
  ASSUME Inv, Inv', [Next]_vars
  PROVE  Atomic!Next \/ (Seen' = Seen /\ UNCHANGED <<memory_, non_maskable_interrupt_>>)
<1>1. CASE \/ UNCHANGED vars \/ Wait \/ HitBreakpoint \/ AbortAtStopAddress
  BY <1>1 DEF vars, Wait, HitBreakpoint, AbortAtStopAddress, Seen
<1>2. CASE FetchByte \/ FetchInvalid
  <2>1. /\ Running /\ registers_' = Advanced /\ pending_operation_' = Fetched
        /\ UNCHANGED <<memory_, non_maskable_interrupt_>>
    BY <1>2 DEF FetchByte, FetchInvalid
  <2>2. Seen' = [Advanced EXCEPT !.PC = Word16(@ - Len(Fetched))]
    BY <2>1 DEF Seen
  <2>3. QED
    BY <2>1, <2>2, FetchingUnseen
<1>3. CASE FetchAndExecute
  BY <1>3, ExecuteRefines DEF Atomic!Next
<1>4. CASE TakeNmi
  BY <1>4, InterruptRefines DEF Atomic!Next
<1>5. CASE RaiseNmi
  <2>1. Seen' = Seen /\ memory_' = memory_ /\ non_maskable_interrupt_' = TRUE
    BY <1>5 DEF RaiseNmi, Seen
  <2>2. Atomic!Raise
    BY <2>1 DEF Atomic!Raise, Seen
  <2>3. QED
    BY <2>2 DEF Atomic!Next
<1>6. CASE reset
  BY <1>6, ResetRefines DEF Atomic!Next
<1>7. QED
  BY <1>1, <1>2, <1>3, <1>4, <1>5, <1>6 DEF Next, step

\* A program cannot tell that its instructions are fetched byte by byte and
\* waited for cycle by cycle: whatever program, breakpoints and watchpoints,
\* and wherever the interrupts, stops and resets fall, what step() does is one
\* whole instruction, one interrupt between two of them, or nothing.
THEOREM InstructionsAreAtomic == Spec => ImplementsAtomic
<1>1. Init => Atomic!Init
  <2> SUFFICES ASSUME Init PROVE Atomic!Init
    OBVIOUS
  <2>1. PICK program \in Programs :
          registers_ = program.registers /\ memory_ = program.memory
    BY DEF Init
  <2>2. registers_ \in Registers /\ Len(pending_operation_) = 0
    BY <2>1, ProgramsAssumption DEF Init
  <2>3. Seen = registers_
    BY <2>2, SeenIdle DEF Seen
  <2>4. Atomic!Init <=>
          /\ \E p \in Programs : Seen = p.registers /\ memory_ = p.memory
          /\ non_maskable_interrupt_ = FALSE
    BY DEF Atomic!Init, Seen
  <2>5. QED
    BY <2>1, <2>3, <2>4 DEF Init
<1>2. Inv /\ Inv' /\ [Next]_vars => [Atomic!Next]_(Atomic!vars)
  <2>1. UNCHANGED Atomic!vars <=> Seen' = Seen /\ UNCHANGED <<memory_, non_maskable_interrupt_>>
    BY DEF Atomic!vars, Seen
  <2>2. QED
    BY <2>1, StepRefines
<1>3. QED
  BY <1>1, <1>2, Invariance, PTL DEF Spec, ImplementsAtomic, Atomic!Spec

-----------------------------------------------------------------------------
(***************************************************************************)
(* Arithmetic: sums, comparisons and shifts are those of the integers      *)
(***************************************************************************)

\* Setting one flag leaves the others.
LEMMA FlagsSet ==
  ASSUME NEW sr, NEW flag, NEW enable \in BOOLEAN, NEW other
  PROVE  other \in set_status_register_flag(sr, flag, enable)
           <=> IF other = flag THEN enable ELSE other \in sr
BY DEF set_status_register_flag

LEMMA ZeroNegativeFlags ==
  ASSUME NEW sr, NEW byte \in Byte
  PROVE  /\ CARRY_FLAG \in ZeroNegative(sr, byte) <=> CARRY_FLAG \in sr
         /\ OVERFLOW_FLAG \in ZeroNegative(sr, byte) <=> OVERFLOW_FLAG \in sr
         /\ ZERO_FLAG \in ZeroNegative(sr, byte) <=> byte = 0
<1>1. (byte = 0) \in BOOLEAN /\ (byte >= 128) \in BOOLEAN
  OBVIOUS
<1> DEFINE zero == set_status_register_flag(sr, ZERO_FLAG, byte = 0)
<1>2. /\ CARRY_FLAG \in zero <=> CARRY_FLAG \in sr
      /\ OVERFLOW_FLAG \in zero <=> OVERFLOW_FLAG \in sr
      /\ ZERO_FLAG \in zero <=> byte = 0
  BY DEF set_status_register_flag, CARRY_FLAG, OVERFLOW_FLAG, ZERO_FLAG
<1> HIDE DEF zero
<1>3. /\ CARRY_FLAG \in ZeroNegative(sr, byte) <=> CARRY_FLAG \in zero
      /\ OVERFLOW_FLAG \in ZeroNegative(sr, byte) <=> OVERFLOW_FLAG \in zero
      /\ ZERO_FLAG \in ZeroNegative(sr, byte) <=> ZERO_FLAG \in zero
  <2>1. ZeroNegative(sr, byte) = set_status_register_flag(zero, NEGATIVE_FLAG, byte >= 128)
    BY DEF ZeroNegative, zero
  <2>2. QED
    BY <2>1
       DEF set_status_register_flag, CARRY_FLAG, OVERFLOW_FLAG, ZERO_FLAG, NEGATIVE_FLAG
<1>4. QED
  BY <1>2, <1>3

LEMMA CarriedFlags ==
  ASSUME NEW sr, NEW carry \in BOOLEAN, NEW overflow \in BOOLEAN, NEW byte \in Byte,
         NEW flags,
         flags = ZeroNegative(set_status_register_flag(
                   set_status_register_flag(sr, CARRY_FLAG, carry), OVERFLOW_FLAG, overflow), byte)
  PROVE  /\ CARRY_FLAG \in flags <=> carry
         /\ OVERFLOW_FLAG \in flags <=> overflow
<1> DEFINE carried == set_status_register_flag(sr, CARRY_FLAG, carry)
           set == set_status_register_flag(carried, OVERFLOW_FLAG, overflow)
<1>1. CARRY_FLAG \in carried <=> carry
  BY FlagsSet
<1> HIDE DEF carried
<1>2. /\ CARRY_FLAG \in set <=> CARRY_FLAG \in carried
      /\ OVERFLOW_FLAG \in set <=> overflow
  BY FlagsSet DEF CARRY_FLAG, OVERFLOW_FLAG
<1> HIDE DEF set
<1>3. QED
  BY <1>1, <1>2, ZeroNegativeFlags DEF set, carried

LEMMA SignedRange == ASSUME NEW n \in Int PROVE FitsSigned(n) <=> -128 <= n /\ n <= 127
BY DEF FitsSigned

LEMMA ExactDifference ==
  ASSUME NEW a \in Int, 0 <= a, a <= 255, NEW d \in Int, 0 <= d, d <= 255, NEW b \in {0, 1}
  PROVE  /\ Byte8(a - d - b) - 256 * (1 - (IF d + b <= a THEN 1 ELSE 0)) = a - d - b
         /\ Signed(Byte8(a - d - b)) # Signed(a) - Signed(d) - b
              <=> ~FitsSigned(Signed(a) - Signed(d) - b)
<1> DEFINE result == Byte8(a - d - b)
           difference == Signed(a) - Signed(d) - b
<1>1. result = IF d + b <= a THEN a - d - b ELSE a - d - b + 256
  BY DEF Byte8
<1>2. difference \in Int
        /\ (FitsSigned(difference) <=> -128 <= difference /\ difference <= 127)
  <2>1. difference \in Int
    BY DEF Signed
  <2>2. QED
    BY <2>1, SignedRange
<1>3. Signed(result) # difference <=> ~(-128 <= difference /\ difference <= 127)
  BY <1>1 DEF Signed
<1>4. QED
  BY <1>1, <1>2, <1>3

LEMMA ADCExact ==
  ASSUME NEW i, IsInstruction(i), NEW r \in Registers, NEW memory,
         NEW after, after = ADC(i, r, memory).r
  PROVE  /\ after.A + 256 * Carry(after) = r.A + i.data + Carry(r)
         /\ OVERFLOW_FLAG \in after.SR <=> ~FitsSigned(Signed(r.A) + Signed(i.data) + Carry(r))
<1> DEFINE a == r.A
           d == i.data
           c == Carry(r)
           result == a + d + c
           carry == result > 255
           overflow == (a >= 128) = (d >= 128) /\ (Byte8(result) >= 128) # (a >= 128)
           flags == ZeroNegative(set_status_register_flag(
                      set_status_register_flag(r.SR, CARRY_FLAG, carry), OVERFLOW_FLAG, overflow),
                      Byte8(result))
<1>1. after = [r EXCEPT !.A = Byte8(result), !.SR = flags]
  BY DEF ADC, Effect
<1>2. /\ a \in Int /\ 0 <= a /\ a <= 255 /\ d \in Int /\ 0 <= d /\ d <= 255
      /\ c \in {0, 1}
  BY ByteRange DEF Registers, IsInstruction, Carry
<1> HIDE DEF a, d, c
<1>3. /\ Byte8(result) + 256 * (IF carry THEN 1 ELSE 0) = result
      /\ overflow <=> ~FitsSigned(Signed(a) + Signed(d) + c)
  <2> DEFINE sum == Signed(a) + Signed(d) + c
  <2>1. Byte8(result) = IF carry THEN result - 256 ELSE result
    BY <1>2 DEF Byte8
  <2>2. sum \in Int
    BY <1>2 DEF Signed
  <2>3. FitsSigned(sum) <=> -128 <= sum /\ sum <= 127
    BY <2>2, SignedRange
  <2>4. overflow <=> ~(-128 <= sum /\ sum <= 127)
    BY <1>2, <2>1 DEF Signed
  <2>5. QED
    BY <1>2, <2>1, <2>3, <2>4
<1>4. Byte8(result) \in Byte
  BY <1>2, BytesWrap
<1>5. carry \in BOOLEAN /\ overflow \in BOOLEAN
  OBVIOUS
<1> HIDE DEF carry, overflow, result
<1>6. (CARRY_FLAG \in flags <=> carry) /\ (OVERFLOW_FLAG \in flags <=> overflow)
  BY <1>4, <1>5, CarriedFlags
<1> HIDE DEF flags
<1>7. after.A = Byte8(result) /\ after.SR = flags
  BY <1>1 DEF Registers
<1>8. Carry(after) = IF carry THEN 1 ELSE 0
  BY <1>6, <1>7 DEF Carry
<1>9. after.A + 256 * Carry(after) = result
  BY <1>3, <1>7, <1>8
<1>10. OVERFLOW_FLAG \in after.SR <=> ~FitsSigned(Signed(a) + Signed(d) + c)
  BY <1>3, <1>6, <1>7
<1>11. QED
  BY <1>9, <1>10 DEF result, a, d, c

LEMMA SBCExact ==
  ASSUME NEW i, IsInstruction(i), NEW r \in Registers, NEW memory,
         NEW after, after = SBC(i, r, memory).r
  PROVE  /\ after.A - 256 * (1 - Carry(after)) = r.A - i.data - (1 - Carry(r))
         /\ OVERFLOW_FLAG \in after.SR
              <=> ~FitsSigned(Signed(r.A) - Signed(i.data) - (1 - Carry(r)))
<1> DEFINE a == r.A
           d == i.data
           b == 1 - Carry(r)
           result == Byte8(a - d - b)
           carry == d + b <= a
           overflow == Signed(result) # Signed(a) - Signed(d) - b
           flags == ZeroNegative(set_status_register_flag(
                      set_status_register_flag(r.SR, CARRY_FLAG, carry), OVERFLOW_FLAG, overflow),
                      result)
<1>1. after = [r EXCEPT !.A = result, !.SR = flags]
  BY DEF SBC, Effect
<1>2. /\ a \in Int /\ 0 <= a /\ a <= 255 /\ d \in Int /\ 0 <= d /\ d <= 255
      /\ b \in {0, 1}
  BY ByteRange DEF Registers, IsInstruction, Carry
<1> HIDE DEF a, d, b
<1>3. /\ result - 256 * (1 - (IF carry THEN 1 ELSE 0)) = a - d - b
      /\ overflow <=> ~FitsSigned(Signed(a) - Signed(d) - b)
  <2>1. Byte8(a - d - b) - 256 * (1 - (IF d + b <= a THEN 1 ELSE 0)) = a - d - b
    BY <1>2, ExactDifference
  <2>2. Signed(Byte8(a - d - b)) # Signed(a) - Signed(d) - b
          <=> ~FitsSigned(Signed(a) - Signed(d) - b)
    BY <1>2, ExactDifference
  <2>3. QED
    BY <2>1, <2>2
<1>4. result \in Byte
  BY <1>2, BytesWrap
<1>5. carry \in BOOLEAN /\ overflow \in BOOLEAN
  OBVIOUS
<1> HIDE DEF carry, overflow, result
<1>6. (CARRY_FLAG \in flags <=> carry) /\ (OVERFLOW_FLAG \in flags <=> overflow)
  BY <1>4, <1>5, CarriedFlags
<1> HIDE DEF flags
<1>7. after.A = result /\ after.SR = flags
  BY <1>1 DEF Registers
<1>8. Carry(after) = IF carry THEN 1 ELSE 0
  BY <1>6, <1>7 DEF Carry
<1>9. after.A - 256 * (1 - Carry(after)) = a - d - b
  BY <1>3, <1>7, <1>8
<1>10. OVERFLOW_FLAG \in after.SR <=> ~FitsSigned(Signed(a) - Signed(d) - b)
  BY <1>3, <1>6, <1>7
<1>11. QED
  BY <1>9, <1>10 DEF a, d, b

LEMMA CompareExact ==
  ASSUME NEW r \in Registers, NEW register \in {"A", "X", "Y"}, NEW data \in Byte
  PROVE  LET after == Compared(r, register, data)
         IN /\ CARRY_FLAG \in after.SR <=> r[register] >= data
            /\ ZERO_FLAG \in after.SR <=> r[register] = data
<1> DEFINE value == r[register]
           carried == set_status_register_flag(r.SR, CARRY_FLAG, value >= data)
           flags == ZeroNegative(carried, Byte8(value - data))
<1>1. Compared(r, register, data).SR = flags
  <2>1. Compared(r, register, data) = [r EXCEPT !.SR = flags]
    BY DEF Compared
  <2> HIDE DEF flags
  <2>2. QED
    BY <2>1 DEF Registers
<1>2. /\ value \in Int /\ 0 <= value /\ value <= 255
      /\ data \in Int /\ 0 <= data /\ data <= 255
  BY ByteRange DEF Registers
<1> HIDE DEF value
<1>3. CARRY_FLAG \in carried <=> value >= data
  <2>1. (value >= data) \in BOOLEAN
    OBVIOUS
  <2>2. QED
    BY <2>1, FlagsSet
<1>4. Byte8(value - data) \in Byte /\ (Byte8(value - data) = 0 <=> value = data)
  <2>1. Byte8(value - data) \in Byte
    BY <1>2, BytesWrap
  <2>2. Byte8(value - data) = 0 <=> value = data
    BY <1>2 DEF Byte8
  <2>3. QED
    BY <2>1, <2>2
<1> HIDE DEF carried
<1>5. /\ CARRY_FLAG \in flags <=> value >= data
      /\ ZERO_FLAG \in flags <=> value = data
  BY <1>3, <1>4, ZeroNegativeFlags
<1>6. QED
  BY <1>1, <1>5 DEF value

\* The handlers of the sums, comparisons and shifts.
LEMMA ArithmeticHandlers ==
  ASSUME NEW i, NEW r, NEW memory
  PROVE  /\ i.operation = "ADC" => Handled(i, r, memory) = ADC(i, r, memory)
         /\ i.operation = "SBC" => Handled(i, r, memory) = SBC(i, r, memory)
         /\ i.operation = "CMP" => Handled(i, r, memory) = CMP(i, r, memory)
         /\ i.operation = "CPX" => Handled(i, r, memory) = CPX(i, r, memory)
         /\ i.operation = "CPY" => Handled(i, r, memory) = CPY(i, r, memory)
         /\ i.operation = "ASL" => Handled(i, r, memory) = ASL(i, r, memory)
         /\ i.operation = "ROL" => Handled(i, r, memory) = ROL(i, r, memory)
         /\ i.operation = "LSR" => Handled(i, r, memory) = LSR(i, r, memory)
         /\ i.operation = "ROR" => Handled(i, r, memory) = ROR(i, r, memory)
BY DEF Handled, Loads, Stores, RegisterOperations, FlagOperations

\* A shifted byte and the bit that fell out of it are where the program finds them.
LEMMA ShiftedExact ==
  ASSUME NEW i, i.mode = "ACCUMULATOR" \/ i.address < InternalMemorySize,
         NEW r \in Registers, NEW memory, NEW data \in Byte, NEW carry \in BOOLEAN,
         NEW effect, effect = Shifted(i, r, memory, data, carry)
  PROVE  /\ IF i.mode = "ACCUMULATOR" THEN effect.r.A = data
            ELSE Read(effect.memory, i.address) = data
         /\ Carry(effect.r) = IF carry THEN 1 ELSE 0
<1> DEFINE flags == set_status_register_flag(ZeroNegative(r.SR, data), CARRY_FLAG, carry)
<1>1. CARRY_FLAG \in flags <=> carry
  BY FlagsSet
<1> HIDE DEF flags
<1>2. CASE i.mode = "ACCUMULATOR"
  <2>1. effect.r = [r EXCEPT !.A = data, !.SR = flags]
    BY <1>2 DEF Shifted, Effect, flags
  <2>2. effect.r.A = data /\ effect.r.SR = flags
    BY <2>1 DEF Registers
  <2>3. QED
    BY <1>1, <1>2, <2>2 DEF Carry
<1>3. CASE i.mode # "ACCUMULATOR"
  <2>1. effect.r = [r EXCEPT !.SR = flags] /\ effect.memory = Write(memory, i.address, data)
    BY <1>3 DEF Shifted, Effect, flags
  <2>2. effect.r.SR = flags
    BY <2>1 DEF Registers
  <2>3. Read(effect.memory, i.address) = data
    BY <1>3, <2>1, ReadAfterWrite
  <2>4. QED
    BY <1>1, <1>3, <2>2, <2>3 DEF Carry
<1>4. QED
  BY <1>2, <1>3

LEMMA ShiftsExact ==
  ASSUME NEW i, IsInstruction(i), i.mode = "ACCUMULATOR" \/ i.address < InternalMemorySize,
         NEW r \in Registers, NEW memory, NEW effect, effect = Handled(i, r, memory),
         NEW byte,
         byte = IF i.mode = "ACCUMULATOR" THEN effect.r.A ELSE Read(effect.memory, i.address)
  PROVE  /\ i.operation = "ASL" => 256 * Carry(effect.r) + byte = 2 * i.data
         /\ i.operation = "ROL" => 256 * Carry(effect.r) + byte = 2 * i.data + Carry(r)
         /\ i.operation = "LSR" => 2 * byte + Carry(effect.r) = i.data
         /\ i.operation = "ROR" => 2 * byte + Carry(effect.r) = i.data + 256 * Carry(r)
<1> DEFINE d == i.data
           c == Carry(r)
           carry_out == Carry(effect.r)
<1>1. /\ d \in Int /\ 0 <= d /\ d <= 255
      /\ c \in {0, 1}
  BY ByteRange DEF IsInstruction, Carry
<1>2. ASSUME NEW data \in Byte, NEW carry \in BOOLEAN,
             effect = Shifted(i, r, memory, data, carry)
      PROVE  byte = data /\ carry_out = IF carry THEN 1 ELSE 0
  BY <1>2, ShiftedExact
<1> HIDE DEF d, c, carry_out
<1>3. CASE i.operation = "ASL"
  <2> DEFINE data == Byte8(2 * d)
             carry == d >= 128
  <2>1. effect = Shifted(i, r, memory, data, carry)
    BY <1>3, ArithmeticHandlers DEF ASL, d
  <2>2. data \in Byte /\ carry \in BOOLEAN
    BY <1>1, BytesWrap
  <2>3. data = IF carry THEN 2 * d - 256 ELSE 2 * d
    BY <1>1 DEF Byte8
  <2> HIDE DEF data, carry
  <2>4. byte = data /\ carry_out = IF carry THEN 1 ELSE 0
    BY <1>2, <2>1, <2>2
  <2>5. 256 * carry_out + byte = 2 * d
    BY <1>1, <2>3, <2>4
  <2>6. QED
    BY <1>3, <2>5 DEF d, c, carry_out
<1>4. CASE i.operation = "ROL"
  <2> DEFINE data == Byte8(2 * d) + c
             carry == d >= 128
  <2>1. effect = Shifted(i, r, memory, data, carry)
    BY <1>4, ArithmeticHandlers DEF ROL, d, c
  <2>2. data = IF carry THEN 2 * d - 256 + c ELSE 2 * d + c
    BY <1>1 DEF Byte8
  <2>3. data \in Byte /\ carry \in BOOLEAN
    <3>1. data \in Int /\ 0 <= data /\ data <= 255
      BY <1>1, <2>2
    <3>2. QED
      BY <3>1, ByteRange
  <2> HIDE DEF data
  <2>4. byte = data /\ carry_out = IF carry THEN 1 ELSE 0
    <3> HIDE DEF carry
    <3>1. QED
      BY <1>2, <2>1, <2>3
  <2>5. 256 * carry_out + byte = 2 * d + c
    BY <1>1, <2>2, <2>4
  <2>6. QED
    BY <1>4, <2>5 DEF d, c, carry_out
<1>5. CASE i.operation = "LSR"
  <2> DEFINE data == d \div 2
             carry == d % 2 = 1
  <2>1. effect = Shifted(i, r, memory, data, carry)
    BY <1>5, ArithmeticHandlers DEF LSR, d
  <2>2. data \in Int /\ 0 <= data /\ data <= 127 /\ d = 2 * data + (IF carry THEN 1 ELSE 0)
    BY <1>1
  <2>3. data \in Byte /\ carry \in BOOLEAN
    BY <2>2, ByteRange
  <2> HIDE DEF data, carry
  <2>4. byte = data /\ carry_out = IF carry THEN 1 ELSE 0
    BY <1>2, <2>1, <2>3
  <2>5. 2 * byte + carry_out = d
    BY <1>1, <2>2, <2>4
  <2>6. QED
    BY <1>5, <2>5 DEF d, c, carry_out
<1>6. CASE i.operation = "ROR"
  <2> DEFINE data == d \div 2 + 128 * c
             carry == d % 2 = 1
  <2>1. effect = Shifted(i, r, memory, data, carry)
    BY <1>6, ArithmeticHandlers DEF ROR, d, c
  <2>2. /\ data \in Int /\ 0 <= data /\ data <= 255
        /\ 2 * data + (IF carry THEN 1 ELSE 0) = d + 256 * c
    BY <1>1
  <2>3. data \in Byte /\ carry \in BOOLEAN
    BY <2>2, ByteRange
  <2> HIDE DEF data, carry
  <2>4. byte = data /\ carry_out = IF carry THEN 1 ELSE 0
    BY <1>2, <2>1, <2>3
  <2>5. 2 * byte + carry_out = d + 256 * c
    BY <1>1, <2>2, <2>4
  <2>6. QED
    BY <1>6, <2>5 DEF d, c, carry_out
<1>7. QED
  BY <1>3, <1>4, <1>5, <1>6

\* What a FetchAndExecute step is to the handlers.
LEMMA CurrentInstruction ==
  ASSUME Inv, FetchAndExecute
  PROVE  /\ IsInstruction(Current) /\ Advanced \in Registers
         /\ registers_' = Handled(Current, Advanced, memory_).r
         /\ memory_' = Handled(Current, Advanced, memory_).memory
         /\ Advanced.A = registers_.A /\ Advanced.X = registers_.X /\ Advanced.Y = registers_.Y
         /\ Carry(Advanced) = Carry(registers_)
<1>1. /\ Running /\ Fetched[1] \in Opcodes /\ Complete
      /\ execute_instruction(Fetched, FALSE, Advanced)
  BY DEF FetchAndExecute
<1>2. IsFetched(Fetched)
  BY <1>1, Fetching DEF IsFetched, Complete
<1>3. Advanced \in Registers /\ IsMemory(memory_) /\ registers_ \in Registers
  BY <1>1, Fetching DEF Inv, TypeInv
<1>4. IsInstruction(Current)
  BY <1>2, <1>3, DecodedTyped DEF Current
<1>5. /\ registers_' = Executed(Fetched, FALSE, Advanced, memory_).r
      /\ memory_' = Executed(Fetched, FALSE, Advanced, memory_).memory
  BY <1>1, ExecutionIsAtomic
<1>6. /\ registers_' = Handled(Current, Advanced, memory_).r
      /\ memory_' = Handled(Current, Advanced, memory_).memory
  BY <1>5 DEF Executed, Current
<1>7. /\ Advanced.A = registers_.A /\ Advanced.X = registers_.X /\ Advanced.Y = registers_.Y
      /\ Advanced.SR = registers_.SR
  BY <1>3 DEF Advanced, Registers
<1>8. QED
  BY <1>3, <1>4, <1>6, <1>7 DEF Carry

LEMMA SumsExact == ASSUME Inv, FetchAndExecute PROVE SumsAreExact
<1> DEFINE i == Current
           after == registers_'
<1>1. /\ IsInstruction(i) /\ Advanced \in Registers
      /\ after = Handled(i, Advanced, memory_).r
      /\ Advanced.A = registers_.A /\ Advanced.X = registers_.X /\ Advanced.Y = registers_.Y
      /\ Carry(Advanced) = Carry(registers_)
      /\ i.data \in Byte
  BY CurrentInstruction DEF IsInstruction
<1> HIDE DEF i, after
<1>2. CASE i.operation = "ADC"
  <2>1. after = ADC(i, Advanced, memory_).r
    BY <1>1, <1>2, ArithmeticHandlers
  <2>2. /\ after.A + 256 * Carry(after) = Advanced.A + i.data + Carry(Advanced)
        /\ OVERFLOW_FLAG \in after.SR
             <=> ~FitsSigned(Signed(Advanced.A) + Signed(i.data) + Carry(Advanced))
    BY <1>1, <2>1, ADCExact
  <2>3. QED
    BY <1>1, <1>2, <2>2 DEF SumsAreExact, i, after
<1>3. CASE i.operation = "SBC"
  <2>1. after = SBC(i, Advanced, memory_).r
    BY <1>1, <1>3, ArithmeticHandlers
  <2>2. /\ after.A - 256 * (1 - Carry(after)) = Advanced.A - i.data - (1 - Carry(Advanced))
        /\ OVERFLOW_FLAG \in after.SR
             <=> ~FitsSigned(Signed(Advanced.A) - Signed(i.data) - (1 - Carry(Advanced)))
    BY <1>1, <2>1, SBCExact
  <2>3. QED
    BY <1>1, <1>3, <2>2 DEF SumsAreExact, i, after
<1>4. CASE i.operation = "CMP"
  <2>1. after = Compared(Advanced, "A", i.data)
    BY <1>1, <1>4, ArithmeticHandlers DEF CMP, Effect
  <2>2. /\ CARRY_FLAG \in after.SR <=> Advanced.A >= i.data
        /\ ZERO_FLAG \in after.SR <=> Advanced.A = i.data
    BY <1>1, <2>1, CompareExact
  <2>3. QED
    BY <1>1, <1>4, <2>2 DEF SumsAreExact, i, after
<1>5. CASE i.operation = "CPX"
  <2>1. after = Compared(Advanced, "X", i.data)
    BY <1>1, <1>5, ArithmeticHandlers DEF CPX, Effect
  <2>2. /\ CARRY_FLAG \in after.SR <=> Advanced.X >= i.data
        /\ ZERO_FLAG \in after.SR <=> Advanced.X = i.data
    BY <1>1, <2>1, CompareExact
  <2>3. QED
    BY <1>1, <1>5, <2>2 DEF SumsAreExact, i, after
<1>6. CASE i.operation = "CPY"
  <2>1. after = Compared(Advanced, "Y", i.data)
    BY <1>1, <1>6, ArithmeticHandlers DEF CPY, Effect
  <2>2. /\ CARRY_FLAG \in after.SR <=> Advanced.Y >= i.data
        /\ ZERO_FLAG \in after.SR <=> Advanced.Y = i.data
    BY <1>1, <2>1, CompareExact
  <2>3. QED
    BY <1>1, <1>6, <2>2 DEF SumsAreExact, i, after
<1>7. CASE i.operation \notin {"ADC", "SBC", "CMP", "CPX", "CPY"}
  BY <1>7 DEF SumsAreExact, i
<1>8. QED
  BY <1>2, <1>3, <1>4, <1>5, <1>6, <1>7

LEMMA ShiftsLossless == ASSUME Inv, FetchAndExecute PROVE ShiftsKeepEveryBit
<1> DEFINE i == Current
           effect == Handled(i, Advanced, memory_)
           byte == IF i.mode = "ACCUMULATOR" THEN effect.r.A ELSE Read(effect.memory, i.address)
<1>1. /\ IsInstruction(i) /\ Advanced \in Registers
      /\ registers_' = effect.r /\ memory_' = effect.memory
      /\ Carry(Advanced) = Carry(registers_)
  BY CurrentInstruction
<1> HIDE DEF i, effect
<1>2. ASSUME i.mode = "ACCUMULATOR" \/ i.address < InternalMemorySize
      PROVE  /\ i.operation = "ASL" => 256 * Carry(registers_') + byte = 2 * i.data
             /\ i.operation = "ROL"
                  => 256 * Carry(registers_') + byte = 2 * i.data + Carry(registers_)
             /\ i.operation = "LSR" => 2 * byte + Carry(registers_') = i.data
             /\ i.operation = "ROR"
                  => 2 * byte + Carry(registers_') = i.data + 256 * Carry(registers_)
  <2> HIDE DEF byte
  <2>1. /\ i.operation = "ASL" => 256 * Carry(effect.r) + byte = 2 * i.data
        /\ i.operation = "ROL" => 256 * Carry(effect.r) + byte = 2 * i.data + Carry(Advanced)
        /\ i.operation = "LSR" => 2 * byte + Carry(effect.r) = i.data
        /\ i.operation = "ROR" => 2 * byte + Carry(effect.r) = i.data + 256 * Carry(Advanced)
    BY <1>1, <1>2, ShiftsExact DEF effect, byte
  <2>2. QED
    BY <1>1, <2>1
<1>3. byte = IF i.mode = "ACCUMULATOR" THEN registers_'.A ELSE Read(memory_', i.address)
  BY <1>1
<1> HIDE DEF byte
<1>4. QED
  BY <1>2, <1>3 DEF ShiftsKeepEveryBit, i

\* Whatever the program, the operands and the flags, the decimal flag of ADC and
\* SBC excepted: these two and the comparisons compute the sums and differences
\* of the integers, and the shifts and rotations lose no bit, for all their
\* narrowing conversions.
THEOREM ArithmeticIsExact == Spec => ExactArithmetic
<1>1. Inv /\ [Next]_vars => [FetchAndExecute => SumsAreExact /\ ShiftsKeepEveryBit]_vars
  BY SumsExact, ShiftsLossless
<1>2. QED
  BY <1>1, Invariance, PTL DEF Spec, ExactArithmetic

=============================================================================
