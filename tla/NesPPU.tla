------------------------------- MODULE NesPPU -------------------------------
(***************************************************************************)
(* NesPPU as Nes::step() drives it: three steps of the PPU, one of its     *)
(* cycles each, for one of the processor.  The PPU walks the picture and   *)
(* keeps a pointer into the nametables up to date as it goes; it notices   *)
(* the writes to its ports, flagged by the processor, at its next step.    *)
(***************************************************************************)
EXTENDS Bytes

CONSTANTS
  TileSize,      \* NAMETABLE_TILE_SIZE, 8
  TilesWide,     \* NAMETABLE_WIDTH, 32
  TilesHigh,     \* NAMETABLE_HEIGHT, 30
  NametableSize, \* 0x0400: the tiles and their attributes
  LastCycle,     \* 340
  VblankLine,    \* 241
  LastLine,      \* 261
  OamSize,       \* 256
  Garbage,       \* what the members no constructor sets may hold
  Games          \* by the name of a program: the registers and the scroll position
                 \* the PPU starts with, the accesses the program makes, and two
                 \* bounds, how many it makes and how often a cartridge is loaded

Width == TilesWide * TileSize     \* NesDisplay::WIDTH, 256
Height == TilesHigh * TileSize    \* NesDisplay::HEIGHT, 240

ASSUME SizesAssumption ==
  /\ {TileSize, TilesWide, TilesHigh} \subseteq Nat \ {0}
  /\ TilesHigh <= TilesWide
  /\ NametableSize \in Nat /\ TilesWide * TilesHigh < NametableSize
  /\ {LastCycle, VblankLine, LastLine} \subseteq Nat
  /\ Width < LastCycle /\ Height < VblankLine /\ VblankLine < LastLine - 1
  /\ OamSize \in Nat \ {0}
  /\ Garbage \subseteq Word

\* The ports whose writes wait for the PPU's next step.
DeferredPorts == {"OAMADDR", "OAMDATA", "OAMDMA", "PPUADDR", "PPUDATA", "PPUSCROLL"}

ASSUME ProgramsAssumption ==
  \A g \in DOMAIN Games :
    /\ Games[g].ctrl.down \in BOOLEAN
    /\ Games[g].scroll \in Byte \X Byte
    /\ \A a \in Games[g].accesses :
         a.port \in DeferredPorts \cup {"PPUCTRL", "PPUMASK", "PPUSTATUS"}

\* The nametables and the lines are counted in sixteen bits, and no byte scrolls
\* further than a nametable is wide.
ASSUME ScrollAssumption ==
  /\ 12 * NametableSize <= 65536 /\ Height + 256 <= 65536
  /\ \A g \in DOMAIN Games :
       /\ Games[g].ctrl.nametable \in 0 .. 3
       /\ Games[g].scroll[1] <= Width
       /\ \A a \in Games[g].accesses :
            /\ a.port = "PPUCTRL" => a.value.nametable \in 0 .. 3
            /\ a.port = "PPUSCROLL" => a.value \in Byte /\ a.value <= Width

VARIABLES
  cycle_, scanline_,
  odd_frame,     \* frame_ % 2 = 1
  offsets_,      \* nametable_ptr, and the pixel and tile it stands for
  scroll_,       \* the scroll position of this frame
  cached_nametable_address_,
  ctrl, mask, status,   \* registers_[PPUCTRL], [PPUMASK] and [PPUSTATUS]
  ports_,        \* the other registers, and what the writes to them act on
  sprites_read,  \* sprites_ is not empty
  nmi_signal_,
  turn,          \* PPU steps since the last one of the processor
  line_base,     \* history: the nametable base address when the line began
  game,          \* the name of the program
  accesses,      \* history: how many accesses it made
  resets         \* history: how often a cartridge was loaded

vars == <<cycle_, scanline_, odd_frame, offsets_, scroll_, cached_nametable_address_,
          ctrl, mask, status, ports_, sprites_read, nmi_signal_, turn, line_base, game,
          accesses, resets>>

raster == <<cycle_, scanline_, odd_frame, offsets_, scroll_, cached_nametable_address_,
            sprites_read, line_base>>

-----------------------------------------------------------------------------
(***************************************************************************)
(* The position in the picture                                             *)
(***************************************************************************)

nametable_base_address(nametable) == (8 + nametable) * NametableSize

\* ptr ^= 0x0400 and ptr ^= 0x0800: the nametable beside and the one below.
Toggled(ptr, size) == IF (ptr \div size) % 2 = 0 THEN ptr + size ELSE ptr - size
Beside(ptr) == Toggled(ptr, NametableSize)
Below(ptr) == Toggled(ptr, 2 * NametableSize)

is_rendering_enabled == mask.background \/ mask.sprites
is_rendering_scanline == scanline_ \in 0 .. Height - 1
check_rendering_falling_edge == scanline_ = Height - 1 /\ cycle_ = LastCycle
check_vblank_raising_edge == scanline_ = VblankLine /\ cycle_ = 1
check_vblank_falling_edge == scanline_ = LastLine /\ cycle_ = 1

\* Defect: at the right edge the pointer stays a row too low.
increment_nametable_x_offsetsKeepsRow(o) ==
  LET moved == [o EXCEPT !.pixel_x_ = @ + 1]
  IN IF o.tile_x_pixel_ + 1 # TileSize
     THEN [moved EXCEPT !.tile_x_pixel_ = @ + 1]
     ELSE IF o.tile_x_ + 1 # TilesWide
     THEN [moved EXCEPT !.tile_x_pixel_ = 0, !.tile_x_ = @ + 1, !.nametable_ptr = @ + 1]
     ELSE [moved EXCEPT !.tile_x_pixel_ = 0, !.tile_x_ = 0, !.nametable_ptr = Beside(@ + 1)]

increment_nametable_x_offsets(o) ==
  LET moved == [o EXCEPT !.pixel_x_ = @ + 1]
  IN IF o.tile_x_pixel_ + 1 # TileSize
     THEN [moved EXCEPT !.tile_x_pixel_ = @ + 1]
     ELSE IF o.tile_x_ + 1 # TilesWide
     THEN [moved EXCEPT !.tile_x_pixel_ = 0, !.tile_x_ = @ + 1, !.nametable_ptr = @ + 1]
     ELSE [moved EXCEPT !.tile_x_pixel_ = 0, !.tile_x_ = 0,
                        !.nametable_ptr = Beside(@ + 1) - TilesWide]

\* The row of the next line; the first line begins at the scroll position.
NextRow(o, line) ==
  IF line = 0
  THEN [o EXCEPT !.pixel_y_ = scroll_[2],
                 !.tile_y_ = (scroll_[2] % Height) \div TileSize,
                 !.tile_y_pixel_ = (scroll_[2] % Height) % TileSize]
  ELSE LET moved == [o EXCEPT !.pixel_y_ = Word16(@ + 1)]
       IN IF Word16(o.tile_y_pixel_ + 1) # TileSize
          THEN [moved EXCEPT !.tile_y_pixel_ = Word16(@ + 1)]
          ELSE [moved EXCEPT !.tile_y_pixel_ = 0,
                             !.tile_y_ = IF Word16(@ + 1) = TilesHigh THEN 0
                                         ELSE Word16(@ + 1)]

increment_nametable_y_offsets(o, line) ==
  LET row == NextRow(o, line)
      tile_x == (scroll_[1] % Width) \div TileSize
      first == Word16(nametable_base_address(ctrl.nametable) + tile_x
                        + row.tile_y_ * TilesWide)
      beside == IF scroll_[1] >= Width THEN Beside(first) ELSE first
  IN [row EXCEPT !.pixel_x_ = scroll_[1],
                 !.tile_x_ = tile_x,
                 !.tile_x_pixel_ = (scroll_[1] % Width) % TileSize,
                 !.nametable_ptr =
                   IF row.pixel_y_ >= Height THEN Below(beside) ELSE beside]

\* Defect: every frame is treated like an odd one.
EndsLineEarly(cycle) ==
  \/ cycle > LastCycle
  \/ is_rendering_enabled /\ cycle >= LastCycle

\* The line is over after LastCycle, and in an odd frame, if anything is drawn,
\* one cycle earlier.
EndsLine(cycle) ==
  \/ cycle > LastCycle
  \/ is_rendering_enabled /\ odd_frame /\ cycle >= LastCycle

WithinLine(cycle) ==
  /\ cycle_' = cycle
  /\ offsets_' = IF cycle < Width THEN increment_nametable_x_offsets(offsets_)
                 ELSE offsets_
  /\ UNCHANGED <<scanline_, odd_frame, line_base>>

NextLine(line) ==
  /\ cycle_' = 0
  /\ scanline_' = line
  /\ odd_frame' = (odd_frame # (line = 0))
  /\ offsets_' = increment_nametable_y_offsets(offsets_, line)
  /\ line_base' = nametable_base_address(ctrl.nametable)

\* Defect: the frame ends with the picture.
increment_cycleOfPicture ==
  IF EndsLine(cycle_ + 1)
  THEN NextLine(IF scanline_ \in {Height, LastLine} THEN 0 ELSE scanline_ + 1)
  ELSE WithinLine(cycle_ + 1)

increment_cycle ==
  IF EndsLine(cycle_ + 1)
  THEN NextLine(IF scanline_ = LastLine THEN 0 ELSE scanline_ + 1)
  ELSE WithinLine(cycle_ + 1)

-----------------------------------------------------------------------------
(***************************************************************************)
(* The ports.  had_write_ holds the flagged writes; the value of a         *)
(* register is never used without its flag.                                *)
(***************************************************************************)

\* The effect of the flagged write to a port on s, once the flag is cleared.
Handling(s, port, Effect(_, _)) ==
  IF \E w \in s.had_write_ : w.port = port
  THEN LET w == CHOOSE w \in s.had_write_ : w.port = port
       IN Effect([s EXCEPT !.had_write_ = @ \ {w}], w.value)
  ELSE s

handle_oam_data_register(s) ==
  LET Addressed(t, v) == [t EXCEPT !.oam_data_addr_ = v]
      Stored(t, v) == [t EXCEPT !.store = <<"oam", t.oam_data_addr_, v>>,
                                !.oam_data_addr_ = @ + 1]
  IN Handling(Handling(s, "OAMADDR", Addressed), "OAMDATA", Stored)

ppu_addr_increment_amount == IF ctrl.down THEN 32 ELSE 1

handle_ppu_data_register(s) ==
  LET Addressed(t, v) ==
        [t EXCEPT !.ppu_data_addr_ =
                    IF t.write_latch_ = 0 THEN 256 * v
                    ELSE 256 * High(@) + Or(Low(@), v),
                  !.write_latch_ = 1 - @]
      Stored(t, v) ==
        [t EXCEPT !.store = <<"video", t.ppu_data_addr_, v>>,
                  !.ppu_data_addr_ = Word16(@ + ppu_addr_increment_amount)]
  IN Handling(Handling(s, "PPUADDR", Addressed), "PPUDATA", Stored)

handle_oam_dma_register(s) ==
  LET Copied(t, page) == [t EXCEPT !.store = <<"page", page>>]
  IN Handling(s, "OAMDMA", Copied)

\* Defect: the latch is left to PPUADDR alone.
handle_scroll_registerKeepsLatch(s) ==
  LET Scrolled(t, v) ==
        [t EXCEPT !.pending_scroll_[IF t.write_latch_ = 0 THEN 1 ELSE 2] = v]
  IN Handling(s, "PPUSCROLL", Scrolled)

handle_scroll_register(s) ==
  LET Scrolled(t, v) ==
        [t EXCEPT !.pending_scroll_[IF t.write_latch_ = 0 THEN 1 ELSE 2] = v,
                  !.write_latch_ = 1 - @]
  IN Handling(s, "PPUSCROLL", Scrolled)

Handled(s) ==
  handle_scroll_register(handle_oam_dma_register(handle_ppu_data_register(
    handle_oam_data_register(s))))

\* A flagged store outside the memory it is for: an assertion of PPUAddressBus
\* fails, or oam_memory_ is overrun.  The program is not followed any further.
OutOfBounds ==
  \E w \in ports_.had_write_ :
    \/ w.port = "PPUDATA" /\ ports_.ppu_data_addr_ > 16383
    \/ w.port = "OAMDATA" /\ ports_.oam_data_addr_ >= OamSize

-----------------------------------------------------------------------------
\* reset() leaves the registers and the ports as the last program left them: a
\* program starts with those of a new PPU or with any others.
Init ==
  /\ game \in DOMAIN Games
  /\ ctrl = Games[game].ctrl
  /\ mask = Games[game].mask
  /\ cycle_ = LastCycle + 1
  /\ scanline_ = LastLine - 1
  /\ odd_frame = FALSE
  /\ \E pixel, tile, row \in Garbage :
       offsets_ = [nametable_ptr |-> nametable_base_address(ctrl.nametable),
                   pixel_x_ |-> 0, tile_x_ |-> 0, tile_x_pixel_ |-> 0,
                   pixel_y_ |-> pixel, tile_y_ |-> tile, tile_y_pixel_ |-> row]
  /\ scroll_ = <<0, 0>>
  /\ cached_nametable_address_ = nametable_base_address(ctrl.nametable)
  /\ status = [vblank |-> FALSE, sprite0_hit |-> FALSE]
  /\ ports_ = [had_write_ |-> {}, write_latch_ |-> 0, ppu_data_addr_ |-> 0,
               oam_data_addr_ |-> 0, pending_scroll_ |-> Games[game].scroll, store |-> <<>>]
  /\ sprites_read = FALSE
  /\ nmi_signal_ = FALSE
  /\ turn = 0
  /\ line_base = nametable_base_address(ctrl.nametable)
  /\ accesses = 0
  /\ resets = 0

\* Defect: only the other flag is cleared when the blank ends.
UpdateStatusKeepsBlank ==
  IF check_vblank_raising_edge'
  THEN status' = [status EXCEPT !.vblank = TRUE]
  ELSE IF check_vblank_falling_edge'
  THEN status' = [status EXCEPT !.sprite0_hit = FALSE]
  ELSE UNCHANGED status

\* The foreground sprites are drawn at once when the picture is over; whether a
\* pixel of sprite 0 is among them is up to the sprite data.
UpdateStatus ==
  IF check_vblank_raising_edge'
  THEN status' = [status EXCEPT !.vblank = TRUE]
  ELSE IF check_vblank_falling_edge'
  THEN status' = [vblank |-> FALSE, sprite0_hit |-> FALSE]
  ELSE \/ UNCHANGED status
       \/ /\ check_rendering_falling_edge'
          /\ mask.sprites /\ sprites_read
          /\ ~status.sprite0_hit
          /\ status' = [status EXCEPT !.vblank = TRUE]

\* One cycle of the PPU.
Step ==
  /\ turn < 3
  /\ ~OutOfBounds
  /\ turn' = turn + 1
  /\ increment_cycle
  /\ ports_' = Handled(ports_)
  /\ UNCHANGED <<ctrl, mask, game, accesses, resets>>
  /\ UpdateStatus
  /\ nmi_signal_' = (nmi_signal_ \/ (check_vblank_raising_edge' /\ ctrl.nmi))
  /\ cached_nametable_address_' =
       IF check_vblank_raising_edge' THEN nametable_base_address(ctrl.nametable)
       ELSE cached_nametable_address_
  /\ sprites_read' = (sprites_read \/ (check_vblank_raising_edge' /\ mask.sprites))
  /\ scroll_' = IF check_vblank_falling_edge' THEN ports_'.pending_scroll_ ELSE scroll_

\* Processor6502::step() between two accesses.  It takes an interrupt when an
\* instruction is over.
Compute ==
  /\ turn = 3
  /\ turn' = 0
  /\ nmi_signal_' \in {nmi_signal_, FALSE}
  /\ UNCHANGED <<raster, ctrl, mask, status, ports_, game, accesses, resets>>

read_register ==
  /\ ports_' = [ports_ EXCEPT !.write_latch_ = 0]
  /\ status' = [status EXCEPT !.vblank = FALSE]
  /\ UNCHANGED <<ctrl, mask>>

write_register(a) ==
  /\ ctrl' = IF a.port = "PPUCTRL" THEN a.value ELSE ctrl
  /\ mask' = IF a.port = "PPUMASK" THEN a.value ELSE mask
  /\ status' = IF a.port = "PPUSTATUS"
               THEN [status EXCEPT !.sprite0_hit = @ \/ a.value.sprite0_hit]
               ELSE status
  /\ ports_' = IF a.port \in {"PPUCTRL", "PPUMASK", "PPUSTATUS"} THEN ports_
               ELSE [ports_ EXCEPT !.had_write_ = {w \in @ : w.port # a.port} \cup {a}]

\* Processor6502::step() executing an instruction that accesses a port.
Access ==
  /\ turn = 3
  /\ turn' = 0
  /\ accesses < Games[game].most
  /\ accesses' = accesses + 1
  /\ \/ read_register
     \/ \E a \in Games[game].accesses : write_register(a)
  /\ UNCHANGED <<raster, nmi_signal_, game, resets>>

\* load_cartridge(): the registers, the ports and the interrupt keep their state.
reset ==
  /\ resets < Games[game].resets
  /\ resets' = resets + 1
  /\ cycle_' = LastCycle + 1
  /\ scanline_' = LastLine - 1
  /\ odd_frame' = FALSE
  /\ cached_nametable_address_' = nametable_base_address(ctrl.nametable)
  /\ offsets_' = [offsets_ EXCEPT !.nametable_ptr = nametable_base_address(ctrl.nametable)]
  /\ scroll_' = <<0, 0>>
  /\ UNCHANGED <<ctrl, mask, status, ports_, sprites_read, nmi_signal_, turn, line_base,
                 game, accesses>>

Next == Step \/ Compute \/ Access \/ reset

Spec == Init /\ [][Next]_vars

\* Nes::run() goes on stepping.
FairSpec == Spec /\ WF_vars(Step) /\ WF_vars(Compute)

-----------------------------------------------------------------------------
(***************************************************************************)
(* Properties                                                              *)
(***************************************************************************)

\* Where the nametable entry of a pixel is, from the base address and the
\* position of the pixel alone.
DirectPointer(base, x, y) ==
  LET beside == IF x >= Width THEN Beside(base) ELSE base
      below == IF y >= Height THEN Below(beside) ELSE beside
  IN below + (x % Width) \div TileSize + ((y % Height) \div TileSize) * TilesWide

\* The pointer that is moved along cycle by cycle and line by line is the one a
\* direct computation from the scroll position gives for every pixel drawn,
\* wherever the picture crosses into other nametables and whatever the program
\* writes meanwhile.
PointerFollowsPixel ==
  is_rendering_scanline /\ cycle_ < Width =>
    LET x == cycle_ + scroll_[1]
        y == scanline_ + scroll_[2]
    IN /\ offsets_.nametable_ptr = DirectPointer(line_base, x, y)
       /\ offsets_.tile_x_pixel_ = x % TileSize
       /\ offsets_.tile_y_pixel_ = (y % Height) % TileSize
       /\ offsets_.pixel_x_ = x
       /\ offsets_.pixel_y_ = y

\* While the picture is drawn no program reads that it is over: the flag of a
\* blank that nobody read is gone before the next picture, loading a cartridge
\* notwithstanding.
VblankOnlyBetweenPictures ==
  status.vblank => ~is_rendering_scanline \/ check_rendering_falling_edge

\* A program cannot tell that its writes wait for the PPU's next step: latch,
\* addresses, scroll position and stores are those of a PPU where a write acts
\* at once and exactly once.
Ports == INSTANCE PpuPorts
  WITH Accesses <- UNION {Games[g].accesses : g \in DOMAIN Games},
       second <- Handled(ports_).write_latch_ = 1,
       address <- Handled(ports_).ppu_data_addr_,
       down <- ctrl.down,
       oam_address <- Handled(ports_).oam_data_addr_,
       scroll <- Handled(ports_).pending_scroll_,
       store <- Handled(ports_).store

ImplementsPorts == Ports!Spec

\* The PPU comes to the blank again and again, whatever the program switches on
\* and off on the way and wherever a cartridge is loaded.
BlankComesAgain == []<>(check_vblank_raising_edge \/ OutOfBounds)

\* A program that leaves drawing on has its picture shown again and again.
PictureIsShown ==
  <>[]is_rendering_enabled => []<>(check_rendering_falling_edge \/ OutOfBounds)

\* "There is one fewer cycle for odd frames when rendering is enabled": every
\* line but the last of a frame has all its cycles.
OneFewerCycle ==
  [][scanline_' # scanline_ /\ resets' = resets =>
       cycle_ >= LastCycle \/ scanline_ = LastLine]_vars
=============================================================================
