----------------------------- MODULE AtomicCpu -----------------------------
(***************************************************************************)
(* What a 6502 program may rely on: an instruction is one step, whatever   *)
(* happens between its cycles, and an interrupt comes between two of them. *)
(***************************************************************************)
EXTENDS Instructions

CONSTANT Programs    \* the registers and memory the processor may start from

VARIABLES registers, memory, nmi

vars == <<registers, memory, nmi>>

Init ==
  /\ \E program \in Programs :
       /\ registers = program.registers
       /\ memory = program.memory
  /\ nmi = FALSE

\* The n bytes at the program counter.
Fetched(n) == [k \in 1 .. n |-> Read(memory, Word16(registers.PC + k - 1))]

Becomes(effect) ==
  /\ registers' = effect.r
  /\ memory' = effect.memory

Instruction ==
  LET opcode == Read(memory, registers.PC)
      bytes == BytesOf(Details[opcode].mode)
  IN /\ opcode \in Opcodes
     /\ Becomes(Executed(Fetched(bytes), FALSE,
                         [registers EXCEPT !.PC = Word16(@ + bytes)], memory))
     /\ UNCHANGED nmi

Interrupt ==
  /\ nmi
  /\ Becomes(Executed(<<0>>, TRUE, registers, memory))
  /\ nmi' = FALSE

Raise ==
  /\ nmi' = TRUE
  /\ UNCHANGED <<registers, memory>>

Reset ==
  /\ registers' = [PC |-> Vector(memory, RESET_low_addr), A |-> 0, X |-> 0, Y |-> 0,
                   SP |-> 255, SR |-> {}]
  /\ UNCHANGED <<memory, nmi>>

Next == Instruction \/ Interrupt \/ Raise \/ Reset

Spec == Init /\ [][Next]_vars
=============================================================================
