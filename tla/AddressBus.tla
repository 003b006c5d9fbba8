----------------------------- MODULE AddressBus -----------------------------
(***************************************************************************)
(* What the processor and the PPU reach over their buses: the joypad port, *)
(* the cartridge, the nametables and the palette.  Nes::step() steps the   *)
(* joypads, then the processor, whose instruction reads first and writes   *)
(* last; the PPU stores in between.                                        *)
(***************************************************************************)
EXTENDS Cartridge, Joypads

CONSTANT
  Programs,      \* by name: [rom, reads, writes, stores, values], the cartridge, the
                 \* addresses read and, with the value, written by the processor and
                 \* stored to by the PPU, and the values it loads into each register
  Cells          \* the addresses of the PPU that are looked at

Byte == 0 .. 255

ProgramSet == {Programs[name] : name \in DOMAIN Programs}

ASSUME ProgramsAssumption ==
  \A p \in ProgramSet :
    /\ p.rom \in Roms
    /\ p.reads \subseteq Nat
    /\ p.writes \subseteq Nat \X Byte
    /\ p.stores \subseteq (0 .. 16 * K - 1) \X Byte
    /\ p.values \in [Register -> SUBSET Value]

ASSUME CellsAssumption == Cells \subseteq 0 .. 16 * K - 1

VARIABLES
  program,       \* the program that runs
  turn,          \* "joypads" or "processor"
  video_,        \* vram_, palette_ram_ and chr_ram_: [place -> value]
  fault          \* what ended the process, or "none"

bus_vars == <<program, turn, video_, fault>>
vars == <<cartridge_vars, joypad_vars, bus_vars>>

-----------------------------------------------------------------------------
(***************************************************************************)
(* The memories of the PPU                                                 *)
(***************************************************************************)

\* Defect: the tables of the two arrangements are swapped.
MirroringSwapped(a, vertical) ==
  LET unmirrored == IF a >= 12 * K THEN a - 4 * K ELSE a
      nametable == (unmirrored - 8 * K) \div K
      table == IF vertical THEN <<0, K, 0, K>> ELSE <<0, 0, K, K>>
  IN table[nametable + 1] + (unmirrored % K)

handle_nametable_mirroring(a, vertical) ==
  LET unmirrored == IF a >= 12 * K THEN a - 4 * K ELSE a
      nametable == (unmirrored - 8 * K) \div K
      table == IF vertical THEN <<0, 0, K, K>> ELSE <<0, K, 0, K>>
  IN table[nametable + 1] + (unmirrored % K)

Palette == 16 * K - 256

\* The cell behind an address of the PPU bus.
Place(a) ==
  IF a < 8 * K THEN <<"pattern", a>>
  ELSE IF a < Palette THEN <<"vram", handle_nametable_mirroring(a, cartridge_.vertical)>>
  ELSE <<"palette", (a - Palette) % 32>>

ReadVideo(a) == video_[Place(a)]

\* PPUAddressBus::write() on behalf of PPUDATA.  MMC1 asserts that it has pattern
\* RAM, NROM that nothing below the nametables is written.
StoreVideo(a, v) ==
  /\ IF a < 8 * K /\ ~(cartridge_.mapper = 1 /\ has_chr_ram)
     THEN fault' = "assertion" /\ UNCHANGED video_
     ELSE video_' = [video_ EXCEPT ![Place(a)] = v] /\ UNCHANGED fault
  /\ UNCHANGED <<cartridge_vars, joypad_vars, program, turn>>

-----------------------------------------------------------------------------
(***************************************************************************)
(* The processor                                                           *)
(***************************************************************************)

joypads_step ==
  /\ turn = "joypads"
  /\ turn' = "processor"
  /\ step
  /\ UNCHANGED <<cartridge_vars, program, video_, fault>>

\* prg_ram_ has 4 kB; MMC1 indexes it with the whole address.
OverrunsRam(a) == cartridge_.mapper = 1 /\ a \in 24 * K .. 32 * K - 1

\* AddressBus::read(), also on behalf of a peek.
Read(a) ==
  /\ IF a = 16406
     THEN read_joypad_1_callback /\ UNCHANGED fault
     ELSE /\ fault' = IF OverrunsRam(a) THEN "overrun" ELSE fault
          /\ UNCHANGED joypad_vars
  /\ UNCHANGED <<cartridge_vars, program, turn, video_>>

\* The bank that a value selects in the mode that is set is one of the cartridge.
Has(r, value) ==
  LET prg == value % 16
  IN /\ r = "prg" /\ PrgMode \in {0, 1} => prg + 2 <= cartridge_.prg
     /\ r = "prg" /\ PrgMode = 3 => prg + 1 <= cartridge_.prg
     /\ r = "chr0" \/ (r = "chr1" /\ ChrSize = 4 * K) =>
          has_chr_ram \/ (value + 1) * ChrSize <= cartridge_.chr * 8 * K

\* A program loads its registers with the values given, as far as they select banks
\* that its cartridge has, and stops short of others.
Intended(a, v) ==
  cartridge_.mapper = 1 /\ load_write_count_ = 4 /\ v < 128 =>
    /\ Shifted(v) \in Programs[program].values[RegisterAt(a)]
    /\ Has(RegisterAt(a), Shifted(v))

WriteCartridge(a, v) ==
  IF cartridge_.mapper = 0
  THEN /\ fault' = IF a \in 24 * K .. 32 * K - 1 THEN fault ELSE "assertion"
       /\ UNCHANGED cartridge_vars
  ELSE IF a < 32 * K
  THEN /\ fault' = IF OverrunsRam(a) THEN "overrun" ELSE fault
       /\ UNCHANGED cartridge_vars
  ELSE IF Throws(a, v)
  THEN fault' = "exception" /\ UNCHANGED cartridge_vars
  ELSE Intended(a, v) /\ write(a, v) /\ UNCHANGED fault

\* AddressBus::write().  It ends an instruction.
Write(a, v) ==
  /\ turn' = "joypads"
  /\ \/ a = 16406 /\ write_joypad(v) /\ UNCHANGED <<cartridge_vars, fault>>
     \/ a \in 16 * K + 24 .. 16 * K + 31 /\ fault' = "assertion"
          /\ UNCHANGED <<cartridge_vars, joypad_vars>>
     \/ a >= 16 * K + 32 /\ WriteCartridge(a, v) /\ UNCHANGED joypad_vars
  /\ UNCHANGED <<program, video_>>

\* An instruction that writes nothing that is looked at here.
Compute ==
  /\ turn' = "joypads"
  /\ UNCHANGED <<cartridge_vars, joypad_vars, program, video_, fault>>

processor_step ==
  /\ turn = "processor"
  /\ \/ Compute
     \/ \E a \in Programs[program].reads : Read(a)
     \/ \E w \in Programs[program].writes : Write(w[1], w[2])

-----------------------------------------------------------------------------
Init ==
  /\ program \in DOMAIN Programs
  /\ CartridgeInit
  /\ cartridge_ = Programs[program].rom
  /\ JoypadsInit
  /\ turn = "joypads"
  /\ video_ = [place \in {Place(a) : a \in Cells} |-> 0]
  /\ fault = "none"

Next ==
  /\ fault = "none"
  /\ \/ joypads_step
     \/ processor_step
     \/ Press /\ UNCHANGED <<cartridge_vars, bus_vars>>
     \/ \E s \in Programs[program].stores : StoreVideo(s[1], s[2])

Spec == Init /\ [][Next]_vars

-----------------------------------------------------------------------------
(***************************************************************************)
(* Properties                                                              *)
(***************************************************************************)

\* What PPU address lines select the page of the nametables: A11 for one
\* arrangement of the cartridge, A10 for the other; A12 is not connected.
SamePage(a, b) ==
  LET line == IF cartridge_.vertical THEN 2 * K ELSE K
  IN (a \div line) % 2 = (b \div line) % 2

Mirrors(a, b) ==
  \/ a = b
  \/ a \in 8 * K .. Palette - 1 /\ b \in 8 * K .. Palette - 1
       /\ a % K = b % K /\ SamePage(a, b)
  \/ a >= Palette /\ b >= Palette /\ a % 32 = b % 32

\* A store to the memory of the PPU is seen at the addresses that mirror its own and
\* at no other, across nametables, patterns and palette.
StoresReachMirrors ==
  [][\A s \in Programs[program].stores :
       StoreVideo(s[1], s[2]) /\ fault' = "none" =>
         \A b \in Cells : ReadVideo(b)' = IF Mirrors(s[1], b) THEN s[2] ELSE ReadVideo(b)]_vars
=============================================================================
