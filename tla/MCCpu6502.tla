----------------------------- MODULE MCCpu6502 -----------------------------
(***************************************************************************)
(* The programs Cpu6502 is checked on.  One of them loops over a           *)
(* subroutine that uses the stack, with an interrupt handler that does so  *)
(* too, and stops at a breakpoint and a watchpoint.  One waits for its     *)
(* interrupt handler and never stops.  The others are a single instruction *)
(* each: every opcode, on operands at the boundaries of a byte and of a    *)
(* page, placed so that 0xFFF0, where step() gives up, comes after it.     *)
(***************************************************************************)
EXTENDS Cpu6502

MCPlaced(first, bytes) ==
  [a \in first .. first + Len(bytes) - 1 |-> bytes[a - first + 1]]

MCTogether(parts) ==
  [a \in UNION {DOMAIN part : part \in parts} |->
     (CHOOSE part \in parts : a \in DOMAIN part)[a]]

MCRegisters(pc, a, index, sr) ==
  [PC |-> pc, A |-> a, X |-> index, Y |-> index, SP |-> 253, SR |-> sr]

\* Main loop at 0x8000, subroutine at 0x8020, interrupt handler at 0x9000.
MCLoop ==
  [registers |-> [MCRegisters(32768, 0, 0, {}) EXCEPT !.SP = 255],
   memory |-> MCTogether({
     MCPlaced(32768, <<120,              \* 8000 SEI
                       32, 32, 128,      \* 8001 JSR 8020
                       73, 128,          \* 8004 EOR #80
                       76, 1, 128>>),    \* 8006 JMP 8001
     MCPlaced(32800, <<72,               \* 8020 PHA
                       162, 2,           \* 8021 LDX #2
                       202, 208, 253,    \* 8023 DEX, BNE 8023
                       104, 96>>),       \* 8026 PLA, RTS
     MCPlaced(36864, <<72,               \* 9000 PHA
                       56, 106,          \* 9001 SEC, ROR A
                       230, 16,          \* 9003 INC 10
                       104, 64>>),       \* 9005 PLA, RTI
     MCPlaced(NMI_low_addr, <<0, 144, 0, 128, 240, 255>>)}),
   interrupts |-> 0, resets |-> 0]

\* Waits at 0xA000 for the interrupt handler at 0x9100.
MCWaiting ==
  [registers |-> MCRegisters(40960, 0, 0, {}),
   memory |-> MCTogether({
     MCPlaced(40960, <<120,              \* A000 SEI
                       165, 32,          \* A001 LDA 20
                       240, 252,         \* A003 BEQ A001
                       198, 32,          \* A005 DEC 20
                       76, 1, 160>>),    \* A007 JMP A001
     MCPlaced(37120, <<230, 32,          \* 9100 INC 20
                       64>>),            \* 9102 RTI
     MCPlaced(NMI_low_addr, <<0, 145, 0, 160, 240, 255>>)}),
   interrupts |-> 0, resets |-> 1]

MCBreakpoints == {32804}     \* DEX
MCWatchpoints == {16}

\* Pointers, data and a stack whose top returns to 0xFFF0.
MCData ==
  MCTogether({
    MCPlaced(0, <<127, 1>>),
    MCPlaced(15, <<128, 255, 1, 0>>),
    MCPlaced(254, <<3, 128, 85>>),
    MCPlaced(510, <<239, 255, 66>>),
    MCPlaced(NMI_low_addr, <<240, 255, 240, 255, 240, 255>>)})

MCOperands(mode) ==
  CASE BytesOf(mode) = 1 -> {<<>>}
    [] mode = "IMMEDIATE" -> {<<0>>, <<1>>, <<127>>, <<128>>, <<255>>}
    [] mode = "RELATIVE" -> {<<2>>, <<127>>, <<128>>}
    [] BytesOf(mode) = 2 -> {<<16>>, <<255>>}
    [] OTHER -> {<<16, 0>>, <<255, 0>>}

MCSingle(opcode, operand, a, index, sr, spared) ==
  [registers |-> MCRegisters(65520 - 1 - Len(operand), a, index, sr),
   memory |-> MCTogether({MCData, MCPlaced(65520 - 1 - Len(operand), <<opcode>> \o operand)}),
   interrupts |-> spared, resets |-> 1]

MCSingles ==
  UNION {
    {MCSingle(opcode, operand, a, index, sr, 2) :
       operand \in MCOperands(Details[opcode].mode), a \in {1, 127, 128}, index \in {1, 255},
       sr \in {{}, {CARRY_FLAG, ZERO_FLAG, OVERFLOW_FLAG, NEGATIVE_FLAG}}} :
    opcode \in Opcodes}

MCPrograms == {MCLoop, MCWaiting} \cup MCSingles
=============================================================================
