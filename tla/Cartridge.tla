------------------------------ MODULE Cartridge ------------------------------
(***************************************************************************)
(* The two kinds of cartridges: NROM, which maps its memories once and for *)
(* all, and MMC1, whose registers a program loads bit by bit to choose the *)
(* banks it wants to see.  A byte of a cartridge is known by its place; a  *)
(* bank is a span of places.                                               *)
(***************************************************************************)
EXTENDS Integers, Sequences

CONSTANTS
  Roms           \* the cartridges: [mapper, prg (16 kB banks), chr (8 kB banks), vertical]

K == 1024

Register == {"control", "chr0", "chr1", "prg"}
Value == 0 .. 31

ASSUME RomsAssumption ==
  Roms \subseteq [mapper : {0, 1}, prg : Nat \ {0}, chr : Nat, vertical : BOOLEAN]

VARIABLES
  cartridge_,          \* the cartridge that was loaded
  load_write_count_, load_register_,
  register_,           \* control_register_, chr_bank0_register_, chr_bank1_register_
                       \* and pgr_bank_register_
  bank_,               \* prg_bank0_, prg_bank1_, chr_bank0_ and chr_bank1_, with NROM
                       \* cpu_mapping_ and ppu_mapping_ in their place
  mapped_in            \* history: the mode when the program bank was last selected

cartridge_vars ==
  <<cartridge_, load_write_count_, load_register_, register_, bank_, mapped_in>>

Span(first, size) == [first |-> first, size |-> size]
Empty == Span(0, 0)

prg_rom(offset, size) == Span(offset, size)
chr_rom(offset, size) == Span(offset, size)

has_chr_ram == cartridge_.chr = 0

\* The mode of the program banks and, in kB, the size of a pattern bank.
PrgMode == (register_["control"] \div 4) % 4
ChrSize == IF register_["control"] >= 16 THEN 4 * K ELSE 8 * K

-----------------------------------------------------------------------------
(***************************************************************************)
(* Reading: the place of the byte at an address, or that there is none     *)
(***************************************************************************)

None == -1

\* Cartridge_NROM::read() from 0x8000 on: a ROM of 16 kB is seen twice.
read_NROM(a) ==
  IF a >= 48 * K /\ bank_.prg0.size = 16 * K THEN a - 48 * K ELSE a - 32 * K

\* Cartridge_MMC1::read() from 0x8000 on: the first window hides the second
\* where they overlap, and between the windows there is nothing.
read_MMC1(a) ==
  IF a < 32 * K + bank_.prg0.size THEN bank_.prg0.first + a - 32 * K
  ELSE IF a >= 48 * K THEN bank_.prg1.first + a - 48 * K
  ELSE None

\* The byte of the program ROM at an address from 0x8000 on.
read(a) == IF cartridge_.mapper = 0 THEN read_NROM(a) ELSE read_MMC1(a)

\* The byte of the pattern memory, ROM or RAM, at an address below 0x2000.
ppu_read(a) ==
  IF a < bank_.chr0.size THEN bank_.chr0.first + a
  ELSE IF a - 4 * K \in 0 .. bank_.chr1.size - 1 THEN bank_.chr1.first + a - 4 * K
  ELSE None

-----------------------------------------------------------------------------
(***************************************************************************)
(* Writing                                                                 *)
(***************************************************************************)

RegisterAt(a) ==
  IF a < 40 * K THEN "control"
  ELSE IF a < 48 * K THEN "chr0"
  ELSE IF a < 56 * K THEN "chr1"
  ELSE "prg"

\* The first pattern bank of a cartridge with RAM cannot be selected.
Missing == IF has_chr_ram THEN {"chr0"} ELSE {}

\* Defect: a window of 32 kB is kept when one of 16 kB is selected.
MappedKeepsWindow(r, value) ==
  CASE r = "chr0" /\ ~has_chr_ram ->
         [bank_ EXCEPT !.chr0 = chr_rom(value * ChrSize, ChrSize)]
    [] r = "chr1" ->
         [bank_ EXCEPT !.chr1 = IF ChrSize = 4 * K THEN chr_rom(value * ChrSize, ChrSize)
                                ELSE Empty]
    [] r = "prg" /\ PrgMode # 2 ->
         [bank_ EXCEPT !.prg0 = prg_rom((value % 16) * 16 * K, bank_.prg0.size)]
    [] OTHER -> bank_

\* The control register selects no bank: the other registers do, in the mode
\* that is set at the time, and mode 2 is not handled.
Mapped(r, value) ==
  CASE r = "chr0" /\ ~has_chr_ram ->
         [bank_ EXCEPT !.chr0 = chr_rom(value * ChrSize, ChrSize)]
    [] r = "chr1" ->
         [bank_ EXCEPT !.chr1 = IF ChrSize = 4 * K THEN chr_rom(value * ChrSize, ChrSize)
                                ELSE Empty]
    [] r = "prg" /\ PrgMode \in {0, 1} ->
         [bank_ EXCEPT !.prg0 = prg_rom((value % 16) * 16 * K, 32 * K)]
    [] r = "prg" /\ PrgMode = 3 ->
         [bank_ EXCEPT !.prg0 = prg_rom((value % 16) * 16 * K, 16 * K)]
    [] OTHER -> bank_

\* chr_rom(...).value() of a cartridge without pattern ROM throws.
Throws(a, v) ==
  /\ v < 128
  /\ load_write_count_ = 4
  /\ RegisterAt(a) = "chr1" /\ ChrSize = 4 * K /\ has_chr_ram

Shifted(v) == load_register_ \div 2 + 16 * (v % 2)

ClearLoad ==
  /\ load_register_' = 0
  /\ load_write_count_' = 0

\* Defect: the bits are cleared, their count is not.
ClearsBitsOnly(v) ==
  /\ v >= 128
  /\ load_register_' = 0
  /\ UNCHANGED <<load_write_count_, register_, bank_, mapped_in>>

ClearWrite(v) ==
  /\ v >= 128
  /\ ClearLoad
  /\ UNCHANGED <<register_, bank_, mapped_in>>

ShiftWrite(v) ==
  /\ v < 128
  /\ load_write_count_ < 4
  /\ load_register_' = Shifted(v)
  /\ load_write_count_' = load_write_count_ + 1
  /\ UNCHANGED <<register_, bank_, mapped_in>>

CommitWrite(r, v) ==
  /\ v < 128
  /\ load_write_count_ = 4
  /\ ClearLoad
  /\ register_' = IF r \in Missing THEN register_ ELSE [register_ EXCEPT ![r] = Shifted(v)]
  /\ bank_' = Mapped(r, Shifted(v))
  /\ mapped_in' = IF r = "prg" THEN PrgMode ELSE mapped_in

\* Cartridge_MMC1::write() from 0x8000 on.
write(a, v) ==
  /\ \/ ClearWrite(v)
     \/ ShiftWrite(v)
     \/ CommitWrite(RegisterAt(a), v)
  /\ UNCHANGED cartridge_

-----------------------------------------------------------------------------
reset_NROM(rom) ==
  [prg0 |-> prg_rom(0, rom.prg * 16 * K), prg1 |-> Empty,
   chr0 |-> chr_rom(0, rom.chr * 8 * K), chr1 |-> Empty]

\* MMC1 shows the first and the last program bank, although its control register
\* stands at a mode with one large bank.
reset_MMC1(rom) ==
  [prg0 |-> Span(0, 16 * K), prg1 |-> Span((rom.prg - 1) * 16 * K, 16 * K),
   chr0 |-> Span(0, 8 * K), chr1 |-> Empty]

\* reset() of a cartridge that is loaded.
reset(rom) == IF rom.mapper = 0 THEN reset_NROM(rom) ELSE reset_MMC1(rom)

CartridgeInit ==
  /\ cartridge_ \in Roms
  /\ load_write_count_ = 0
  /\ load_register_ = 0
  /\ register_ = [r \in Register |-> 0]
  /\ bank_ = reset(cartridge_)
  /\ mapped_in = None

-----------------------------------------------------------------------------
(***************************************************************************)
(* Properties                                                              *)
(***************************************************************************)

\* The bits of an unfinished value stand at the top of the load register.
Weight == <<1, 2, 4, 8, 16>>
LoadedBits ==
  [i \in 1 .. load_write_count_ |->
     (load_register_ \div Weight[5 - load_write_count_ + i]) % 2]

Serial == INSTANCE SerialPort
  WITH bits <- LoadedBits, register <- register_, missing <- Missing

\* Shift register and count are a serial port: a register changes by five bits
\* that were all written since the last value or clear, and only the register
\* that the address of the fifth selects (cartridge.cpp:154-232).
ImplementsSerialPort == Serial!Spec

\* A program has finished a switch of its banks when it selected them in the mode
\* that is set.
ProgramSettled == mapped_in = PrgMode /\ PrgMode # 2
PatternsSettled ==
  bank_.chr0.size = ChrSize /\ (ChrSize = 4 * K => bank_.chr1.size = 4 * K)

\* The places that the registers alone give for an address.
ProgramPlace(a) ==
  LET selected == (register_["prg"] % 16) * 16 * K + a - 32 * K
      last == (cartridge_.prg - 1) * 16 * K + a - 48 * K
  IN IF PrgMode = 3 /\ a >= 48 * K THEN last ELSE selected

PatternPlace(a) ==
  IF ChrSize = 8 * K THEN register_["chr0"] * 8 * K + a
  ELSE register_[IF a < 4 * K THEN "chr0" ELSE "chr1"] * 4 * K + (a % (4 * K))

\* After any sequence of loads the spans show what the registers say, once the
\* program has selected its banks in the mode it set: no window of another size or
\* of an earlier bank is left over, and all of them lie in the memories
\* (cartridge.cpp:164-228).  The ends of the windows stand for their addresses.
BanksFollowRegisters ==
  cartridge_.mapper = 1 =>
    /\ ProgramSettled =>
         \A a \in {32 * K, 48 * K - 1, 48 * K, 64 * K - 1} :
           /\ read(a) = ProgramPlace(a)
           /\ read(a) \in 0 .. cartridge_.prg * 16 * K - 1
    /\ PatternsSettled =>
         \A a \in {0, 4 * K - 1, 4 * K, 8 * K - 1} :
           /\ ppu_read(a) = PatternPlace(a)
           /\ ~has_chr_ram => ppu_read(a) \in 0 .. cartridge_.chr * 8 * K - 1
=============================================================================
