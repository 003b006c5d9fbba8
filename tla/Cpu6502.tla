------------------------------ MODULE Cpu6502 ------------------------------
(***************************************************************************)
(* Processor6502: one call of step() per cycle.  A step waits, stops at a  *)
(* breakpoint, takes the interrupt the PPU asked for, or fetches one byte; *)
(* the step that fetches the last byte of an instruction executes it and   *)
(* leaves the rest of its cycles to be waited for.                         *)
(***************************************************************************)
EXTENDS Instructions

CONSTANTS
  Programs,      \* the registers and memory the processor may start from, and how
                 \* many of the bounded interrupts and resets this program is spared
  Breakpoints,   \* the addresses with a breakpoint
  Watchpoints,   \* the addresses with a watchpoint
  MaxInterrupts, \* bound: how often the PPU raises the NMI
  MaxResets      \* bound: how often the processor is reset

\* Registers and memory have the widths of the 6502's.
ASSUME ProgramsAssumption ==
  \A program \in Programs :
    /\ program.registers \in Registers
    /\ \A a \in DOMAIN program.memory : program.memory[a] \in Byte
    /\ program.interrupts \in Nat
    /\ program.resets \in Nat

VARIABLES
  registers_,
  memory_,
  pending_operation_,   \* the bytes of the instruction fetched so far
  cycles_to_wait_,
  cycle_count_,         \* cycles since the instruction began
  non_maskable_interrupt_,
  breakpoints_,         \* armed breakpoints
  should_continue,      \* what the latest step() returned
  crashed,              \* step() threw
  due,                  \* history: the cycles the instruction executed last should take,
                        \* those of its table row and those its handler returned
  frames,               \* history: who was called or interrupted, innermost first
  interrupts, resets    \* history: how many there were, or were spared

vars == <<registers_, memory_, pending_operation_, cycles_to_wait_, cycle_count_,
          non_maskable_interrupt_, breakpoints_, should_continue, crashed, due, frames,
          interrupts, resets>>

debugger == <<breakpoints_, should_continue>>
history == <<due, frames, interrupts, resets>>

StopAddress == 65520     \* 0xFFF0

Init ==
  /\ \E program \in Programs :
       /\ registers_ = program.registers
       /\ memory_ = program.memory
       /\ interrupts = program.interrupts
       /\ resets = program.resets
  /\ pending_operation_ = <<>>
  /\ cycles_to_wait_ = 0
  /\ cycle_count_ = 0
  /\ non_maskable_interrupt_ = FALSE
  /\ breakpoints_ = [a \in Breakpoints |-> TRUE]
  /\ should_continue = TRUE
  /\ crashed = FALSE
  /\ due = [cycles |-> 0, extra |-> 0]
  /\ frames = <<>>

-----------------------------------------------------------------------------
(* The parts of step(), in the order in which it tries them. *)

\* wait_for_cycle_count(1), after the step made the wait what it is given.
wait_for_cycle_count(wait) ==
  /\ cycles_to_wait_' = wait - 1
  /\ cycle_count_' = IF pending_operation_ = <<>> /\ cycles_to_wait_ = 0
                       THEN 1 ELSE cycle_count_ + 1

Wait ==
  /\ ~crashed
  /\ cycles_to_wait_ > 0
  /\ wait_for_cycle_count(cycles_to_wait_)
  /\ should_continue' = TRUE
  /\ UNCHANGED <<registers_, memory_, pending_operation_, non_maskable_interrupt_,
                 breakpoints_, crashed, history>>

\* The processor is not busy, so this step looks at the program.
Active == ~crashed /\ cycles_to_wait_ = 0

AtArmedBreakpoint ==
  registers_.PC \in Breakpoints /\ breakpoints_[registers_.PC]

HitBreakpoint ==
  /\ Active
  /\ AtArmedBreakpoint
  /\ breakpoints_' = [breakpoints_ EXCEPT ![registers_.PC] = FALSE]
  /\ should_continue' = FALSE
  /\ UNCHANGED <<registers_, memory_, pending_operation_, cycles_to_wait_, cycle_count_,
                 non_maskable_interrupt_, crashed, history>>

\* Defect: a breakpoint stops the program once and for all.
PassBreakpointDisarmed ==
  /\ ~AtArmedBreakpoint
  /\ UNCHANGED breakpoints_

\* check_breakpoints lets the step go on, and arms the breakpoint it stood at.
PassBreakpoint ==
  /\ ~AtArmedBreakpoint
  /\ breakpoints_' = [a \in Breakpoints |-> breakpoints_[a] \/ a = registers_.PC]

AbortAtStopAddress ==
  /\ Active
  /\ PassBreakpoint
  /\ registers_.PC = StopAddress
  /\ should_continue' = FALSE
  /\ UNCHANGED <<registers_, memory_, pending_operation_, cycles_to_wait_, cycle_count_,
                 non_maskable_interrupt_, crashed, history>>

Running == Active /\ PassBreakpoint /\ registers_.PC # StopAddress

\* Defect: an interrupt does not wait for the instruction to be complete.
check_nmiAtOnce == non_maskable_interrupt_

\* Defect: the flag that disables IRQs disables the NMI too.
check_nmiMaskable ==
  /\ non_maskable_interrupt_
  /\ pending_operation_ = <<>>
  /\ INTERRUPT_DISABLE_FLAG \notin registers_.SR

check_nmi == non_maskable_interrupt_ /\ pending_operation_ = <<>>

-----------------------------------------------------------------------------
(* Executing. *)

\* The address an instruction is watched at.  An accumulator instruction has
\* none, and looks at what the bytes of earlier instructions left behind.
WatchedModes ==
  {"ABSOLUTE", "ABSOLUTE_X", "ABSOLUTE_Y", "ACCUMULATOR", "INDIRECT", "INDIRECT_X",
   "INDIRECT_Y", "ZERO_PAGE", "ZERO_PAGE_X", "ZERO_PAGE_Y"}

check_watchpoints(i) ==
  CASE i.mode \notin WatchedModes \/ Watchpoints = {} -> should_continue' = TRUE
    [] i.mode = "ACCUMULATOR" /\ Watchpoints # {} -> should_continue' \in BOOLEAN
    [] OTHER -> should_continue' = (i.address \notin Watchpoints)

\* execute_instruction keeps the handler's answer in a bool.
ExtraCycles(effect) == IF effect.extra > 0 THEN 1 ELSE 0

\* Defect: the cycles of fetching the instruction are waited for again.
CyclesLeftOfAll(values, effect) == ExtraCycles(effect) + Details[values[1]].cycles

CyclesLeft(values, effect) ==
  ExtraCycles(effect) + Details[values[1]].cycles - BytesOf(Details[values[1]].mode)

\* The frames that wait for a return, once i was executed from r.
Framed(i, r) ==
  CASE i.operation = "JSR" -> <<[by |-> "JSR", registers |-> r]>> \o frames
    [] i.nmi -> <<[by |-> "NMI", registers |-> r]>> \o frames
    [] i.operation \in {"RTS", "RTI"} /\ frames # <<>> -> Tail(frames)
    [] OTHER -> frames

execute_instruction(values, nmi, r) ==
  \E i \in {Decoded(values, nmi, r, memory_)} :
    \E effect \in {Handled(i, r, memory_)} :
      /\ registers_' = effect.r
      /\ memory_' = effect.memory
      /\ pending_operation_' = <<>>
      /\ wait_for_cycle_count(1 + CyclesLeft(values, effect))
      /\ due' = [cycles |-> Details[values[1]].cycles, extra |-> effect.extra]
      /\ frames' = Framed(i, r)
      /\ check_watchpoints(i)
      /\ UNCHANGED <<crashed, interrupts, resets>>

TakeNmi ==
  /\ Running
  /\ check_nmi
  /\ non_maskable_interrupt_' = FALSE
  /\ execute_instruction(<<0>>, TRUE, registers_)

\* The bytes fetched once this step fetches one more.
Fetched == Append(pending_operation_, Read(memory_, registers_.PC))

Advanced == [registers_ EXCEPT !.PC = Word16(@ + 1)]

Complete == Len(Fetched) = BytesOf(Details[Fetched[1]].mode)

FetchByte ==
  /\ Running
  /\ ~check_nmi
  /\ Fetched[1] \in Opcodes
  /\ ~Complete
  /\ registers_' = Advanced
  /\ pending_operation_' = Fetched
  /\ wait_for_cycle_count(1)
  /\ should_continue' = TRUE
  /\ UNCHANGED <<memory_, non_maskable_interrupt_, crashed, history>>

FetchAndExecute ==
  /\ Running
  /\ ~check_nmi
  /\ Fetched[1] \in Opcodes
  /\ Complete
  /\ execute_instruction(Fetched, FALSE, Advanced)
  /\ UNCHANGED non_maskable_interrupt_

\* ready_to_execute throws; nobody catches it.
FetchInvalid ==
  /\ Running
  /\ ~check_nmi
  /\ Fetched[1] \notin Opcodes
  /\ crashed' = TRUE
  /\ registers_' = Advanced
  /\ pending_operation_' = Fetched
  /\ cycles_to_wait_' = 1
  /\ UNCHANGED <<memory_, cycle_count_, non_maskable_interrupt_, should_continue, history>>

step ==
  Wait \/ HitBreakpoint \/ AbortAtStopAddress \/ TakeNmi
    \/ FetchByte \/ FetchAndExecute \/ FetchInvalid

-----------------------------------------------------------------------------
(* What the rest of the console does to the processor. *)

\* The PPU enters the vertical blank.
RaiseNmi ==
  /\ ~crashed
  /\ interrupts < MaxInterrupts
  /\ interrupts' = interrupts + 1
  /\ non_maskable_interrupt_' = TRUE
  /\ UNCHANGED <<registers_, memory_, pending_operation_, cycles_to_wait_, cycle_count_,
                 debugger, crashed, due, frames, resets>>

reset ==
  /\ ~crashed
  /\ resets < MaxResets
  /\ resets' = resets + 1
  /\ registers_' = [PC |-> Vector(memory_, RESET_low_addr), A |-> 0, X |-> 0, Y |-> 0,
                    SP |-> 255, SR |-> {}]
  /\ pending_operation_' = <<>>
  /\ cycles_to_wait_' = 0
  /\ due' = [cycles |-> cycle_count_, extra |-> 0]
  /\ frames' = <<>>
  /\ UNCHANGED <<memory_, cycle_count_, non_maskable_interrupt_, debugger, crashed, interrupts>>

Next == step \/ RaiseNmi \/ reset

Spec == Init /\ [][Next]_vars

\* The loop of Nes::run() is at work: it ends where step() returned false, at a
\* breakpoint, a watchpoint or the stop address, and only the user goes on.
CanStep == ~crashed /\ should_continue

\* Nes::run() keeps calling step() until it stops: weak fairness of step while
\* CanStep, which is when step() changes something.
FairSpec == Spec /\ ([]<>~CanStep \/ []<><<step>>_vars)

-----------------------------------------------------------------------------
(* Properties. *)

\* The program cannot tell that its instructions are fetched byte by byte and
\* that interrupts, stops and resets arrive between any two cycles: every
\* step of step() is one whole instruction, one interrupt between two
\* instructions, or nothing at all.
Atomic ==
  INSTANCE AtomicCpu WITH
    registers <- [registers_ EXCEPT !.PC = Word16(@ - Len(pending_operation_))],
    memory <- memory_,
    nmi <- non_maskable_interrupt_

ImplementsAtomic == Atomic!Spec

\* Between two instructions.
Idle == pending_operation_ = <<>> /\ cycles_to_wait_ = 0 /\ ~crashed

\* The cycles of an instruction are spent partly by the steps that fetch its
\* bytes and partly by waiting; together they are what the table says and the
\* handler adds for a crossed page or a taken branch, stops at breakpoints not
\* counted.  A branch for which the handler adds two, one taken into another
\* page, is left out: execute_instruction() keeps them in a bool and charges one
\* (processor_6502.cpp:254).
CycleExact == Idle /\ due.extra <= 1 => cycle_count_ = due.cycles + due.extra

\* The instruction that a FetchAndExecute step executes.
Current == Decoded(Fetched, FALSE, Advanced, memory_)

FitsSigned(n) == n \in -128 .. 127

\* An addition or a subtraction leaves its exact unsigned result in carry and
\* accumulator, and the overflow flag says whether the signed one fits a byte.
\* Not with the decimal flag set: the handlers add and subtract binary numbers
\* all the same, and the tests assert decimal results (instruction_tests.cpp:143).
SumsAreExact ==
  LET i == Current
      before == registers_
      after == registers_'
      overflow == OVERFLOW_FLAG \in after.SR
      borrow == 1 - Carry(before)
      Orders(register, data) ==
        /\ (CARRY_FLAG \in after.SR) = (register >= data)
        /\ (ZERO_FLAG \in after.SR) = (register = data)
  IN CASE i.operation \in {"ADC", "SBC"} /\ DECIMAL_FLAG \in before.SR -> TRUE
       [] i.operation = "ADC" ->
            /\ after.A + 256 * Carry(after) = before.A + i.data + Carry(before)
            /\ overflow = ~FitsSigned(Signed(before.A) + Signed(i.data) + Carry(before))
       [] i.operation = "SBC" ->
            /\ after.A - 256 * (1 - Carry(after)) = before.A - i.data - borrow
            /\ overflow = ~FitsSigned(Signed(before.A) - Signed(i.data) - borrow)
       [] i.operation = "CMP" -> Orders(before.A, i.data)
       [] i.operation = "CPX" -> Orders(before.X, i.data)
       [] i.operation = "CPY" -> Orders(before.Y, i.data)
       [] OTHER -> TRUE

\* A shift or a rotation moves nine bits, the byte and the carry, by one place
\* and loses none of them but the one that a shift replaces by zero.
ShiftsKeepEveryBit ==
  LET i == Current
      carry == Carry(registers_)
      carry_out == Carry(registers_')
      byte == IF i.mode = "ACCUMULATOR" THEN registers_'.A ELSE Read(memory_', i.address)
  IN (i.mode = "ACCUMULATOR" \/ i.address < InternalMemorySize) =>
       CASE i.operation = "ASL" -> 256 * carry_out + byte = 2 * i.data
         [] i.operation = "ROL" -> 256 * carry_out + byte = 2 * i.data + carry
         [] i.operation = "LSR" -> 2 * byte + carry_out = i.data
         [] i.operation = "ROR" -> 2 * byte + carry_out = i.data + 256 * carry
         [] OTHER -> TRUE

\* What the handlers work out bit by bit and through narrowing conversions is
\* the arithmetic of integers: sums, comparisons and shifts lose nothing.
ExactArithmetic == [][FetchAndExecute => SumsAreExact /\ ShiftsKeepEveryBit]_vars

\* In a program that keeps its stack, a subroutine returns to the instruction
\* after its call and an interrupt handler to the registers it interrupted (the
\* break flag and the unused bit aside), however interrupts, calls and further
\* interrupts nest.
CallsAndInterruptsReturn ==
  [][FetchAndExecute /\ frames # <<>> =>
       LET frame == Head(frames)
           Visible(r) == [r EXCEPT !.SR = @ \cup {BREAK_FLAG, UNUSED_BIT}]
       IN CASE Current.operation = "RTS" ->
                 /\ frame.by = "JSR"
                 /\ registers_'.PC = frame.registers.PC
                 /\ registers_'.SP = frame.registers.SP
            [] Current.operation = "RTI" ->
                 /\ frame.by = "NMI"
                 /\ Visible(registers_') = Visible(frame.registers)
            [] OTHER -> TRUE]_vars

\* The program leaves an address with a breakpoint only in the step after one
\* that stopped there, and finds the breakpoint armed when it comes back.  (A
\* reset between the stop and the next step leaves it disarmed, and the next
\* visit is then not stopped.)
BreakpointsStopEveryTime ==
  [][\A a \in Breakpoints :
       registers_.PC = a /\ registers_'.PC # a /\ resets' = 0 =>
         ~should_continue /\ breakpoints_'[a]]_vars

\* The interrupt that the PPU asks for is taken, whatever the interrupt disable
\* flag says, unless the run stops before or the process ends.
NmiTaken ==
  non_maskable_interrupt_ ~> (~non_maskable_interrupt_ \/ crashed \/ ~should_continue)
=============================================================================
