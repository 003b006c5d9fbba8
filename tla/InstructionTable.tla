-------------------------- MODULE InstructionTable --------------------------
(***************************************************************************)
(* INSTRUCTION_DETAILS of processor/instructions.cpp: which opcode is which*)
(* operation in which addressing mode, and its minimum number of cycles.   *)
(* The opcodes of a family differ by an offset per addressing mode.        *)
(***************************************************************************)
EXTENDS Integers

Row(operation, opcode, mode, cycles) ==
  [operation |-> operation, opcode |-> opcode, mode |-> mode, cycles |-> cycles]

Family(operation, base, modes) ==
  {Row(operation, base + m[1], m[2], m[3]) : m \in modes}

ReadModes ==
  {<<1, "INDIRECT_X", 6>>, <<5, "ZERO_PAGE", 3>>, <<9, "IMMEDIATE", 2>>,
   <<13, "ABSOLUTE", 4>>, <<17, "INDIRECT_Y", 5>>, <<21, "ZERO_PAGE_X", 4>>,
   <<25, "ABSOLUTE_Y", 4>>, <<29, "ABSOLUTE_X", 4>>}

StoreModes ==
  {<<1, "INDIRECT_X", 6>>, <<5, "ZERO_PAGE", 3>>, <<13, "ABSOLUTE", 4>>,
   <<17, "INDIRECT_Y", 6>>, <<21, "ZERO_PAGE_X", 4>>, <<25, "ABSOLUTE_Y", 5>>,
   <<29, "ABSOLUTE_X", 5>>}

ModifyModes ==
  {<<6, "ZERO_PAGE", 5>>, <<14, "ABSOLUTE", 6>>, <<22, "ZERO_PAGE_X", 6>>,
   <<30, "ABSOLUTE_X", 7>>}

ShiftModes == ModifyModes \cup {<<10, "ACCUMULATOR", 2>>}

CompareModes == {<<0, "IMMEDIATE", 2>>, <<4, "ZERO_PAGE", 3>>, <<12, "ABSOLUTE", 4>>}

Branches ==
  {<<"BPL", 16>>, <<"BMI", 48>>, <<"BVC", 80>>, <<"BVS", 112>>,
   <<"BCC", 144>>, <<"BCS", 176>>, <<"BNE", 208>>, <<"BEQ", 240>>}

TwoCycles ==
  {<<"CLC", 24>>, <<"SEC", 56>>, <<"CLI", 88>>, <<"SEI", 120>>, <<"CLV", 184>>,
   <<"CLD", 216>>, <<"SED", 248>>, <<"TAX", 170>>, <<"TAY", 168>>, <<"TSX", 186>>,
   <<"TXA", 138>>, <<"TXS", 154>>, <<"TYA", 152>>, <<"NOP", 234>>, <<"DEX", 202>>,
   <<"DEY", 136>>, <<"INX", 232>>, <<"INY", 200>>}

StackAndInterrupt ==
  {<<"PHA", 72, 3>>, <<"PHP", 8, 3>>, <<"PLA", 104, 4>>, <<"PLP", 40, 4>>,
   <<"BRK", 0, 7>>, <<"RTI", 64, 6>>, <<"RTS", 96, 6>>}

Rows ==
  UNION {
    Family("ORA", 0, ReadModes), Family("AND", 32, ReadModes),
    Family("EOR", 64, ReadModes), Family("ADC", 96, ReadModes),
    Family("LDA", 160, ReadModes), Family("CMP", 192, ReadModes),
    Family("SBC", 224, ReadModes), Family("STA", 128, StoreModes),
    Family("ASL", 0, ShiftModes), Family("ROL", 32, ShiftModes),
    Family("LSR", 64, ShiftModes), Family("ROR", 96, ShiftModes),
    Family("DEC", 192, ModifyModes), Family("INC", 224, ModifyModes),
    {Row("DCP", 215, "ZERO_PAGE_X", 6)},
    Family("LDX", 160, {<<2, "IMMEDIATE", 2>>, <<6, "ZERO_PAGE", 3>>, <<14, "ABSOLUTE", 4>>,
                        <<22, "ZERO_PAGE_Y", 4>>, <<30, "ABSOLUTE_Y", 4>>}),
    Family("LDY", 160, CompareModes \cup {<<20, "ZERO_PAGE_X", 4>>, <<28, "ABSOLUTE_X", 4>>}),
    Family("STX", 128, {<<6, "ZERO_PAGE", 3>>, <<14, "ABSOLUTE", 4>>, <<22, "ZERO_PAGE_Y", 4>>}),
    Family("STY", 128, {<<4, "ZERO_PAGE", 3>>, <<12, "ABSOLUTE", 4>>, <<20, "ZERO_PAGE_X", 4>>}),
    Family("CPX", 224, CompareModes), Family("CPY", 192, CompareModes),
    Family("BIT", 32, {<<4, "ZERO_PAGE", 3>>, <<12, "ABSOLUTE", 4>>}),
    {Row("JMP", 76, "ABSOLUTE", 3), Row("JMP", 108, "INDIRECT", 5),
     Row("JSR", 32, "ABSOLUTE", 6)},
    {Row(b[1], b[2], "RELATIVE", 2) : b \in Branches},
    {Row(o[1], o[2], "IMPLIED", 2) : o \in TwoCycles},
    {Row(o[1], o[2], "IMPLIED", o[3]) : o \in StackAndInterrupt}}

Opcodes == {row.opcode : row \in Rows}

\* instr_table_: the opcodes it knows, each with its row.
Details == [opcode \in Opcodes |-> CHOOSE row \in Rows : row.opcode = opcode]

\* The length of an instruction follows from its addressing mode.
BytesOf(mode) ==
  CASE mode \in {"IMPLIED", "ACCUMULATOR"} -> 1
    [] mode \in {"ABSOLUTE", "ABSOLUTE_X", "ABSOLUTE_Y", "INDIRECT"} -> 3
    [] OTHER -> 2
=============================================================================
