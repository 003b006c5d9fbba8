---------------------------- MODULE NesPPUProofs ----------------------------
(***************************************************************************)
(* For pictures of any size and any programs: the blank flag is never up   *)
(* in a picture, ports that act at the next step of the PPU cannot be told *)
(* from ports that act at once, the incremental nametable pointer is at    *)
(* every pixel the one computed directly, and a picture that the program   *)
(* left alone is put together of the right dots.                           *)
(***************************************************************************)
EXTENDS PpuPicture, TLAPS, WellFoundedInduction

-----------------------------------------------------------------------------
(***************************************************************************)
(* The blank flag                                                          *)
(***************************************************************************)

\* Every picture has a line and a pixel, and the blank lies between its last line
\* and the last one.
LEMMA Sizes ==
  /\ Width \in Nat /\ Height \in Nat
  /\ 1 <= Width /\ 1 <= Height
  /\ LastCycle \in Nat /\ VblankLine \in Nat /\ LastLine \in Nat
  /\ Width < LastCycle /\ Height < VblankLine /\ VblankLine < LastLine - 1
<1>1. TilesWide \in Nat /\ TilesHigh \in Nat /\ TileSize \in Nat
      /\ 1 <= TilesWide /\ 1 <= TilesHigh /\ 1 <= TileSize
  BY SizesAssumption
<1>2. /\ TilesWide * TileSize \in Nat /\ 1 <= TilesWide * TileSize
      /\ TilesHigh * TileSize \in Nat /\ 1 <= TilesHigh * TileSize
  <2>1. \A m, n \in Nat : 1 <= m /\ 1 <= n => m * n \in Nat /\ 1 <= m * n
    OBVIOUS
  <2>2. QED
    BY <1>1, <2>1
<1>3. QED
  BY <1>2, SizesAssumption DEF Width, Height

\* The flag is up from the last dot of the picture to the first of the last line.
InBlank ==
  \/ scanline_ = Height - 1 /\ cycle_ = LastCycle
  \/ scanline_ \in Height .. LastLine - 1
  \/ scanline_ = LastLine /\ cycle_ = 0

BlankInv ==
  /\ cycle_ \in Nat
  /\ scanline_ \in 0 .. LastLine
  /\ status = [vblank |-> status.vblank, sprite0_hit |-> status.sprite0_hit]
  /\ status.vblank \in BOOLEAN
  /\ status.vblank => InBlank

\* Where a step leads.
LEMMA Steps ==
  ASSUME BlankInv, increment_cycle
  PROVE  /\ cycle_' \in Nat /\ scanline_' \in 0 .. LastLine
         /\ \/ scanline_' = scanline_ /\ cycle_' = cycle_ + 1 /\ cycle_ + 1 <= LastCycle
            \/ /\ scanline_' = IF scanline_ = LastLine THEN 0 ELSE scanline_ + 1
               /\ cycle_' = 0
               /\ cycle_ + 1 >= LastCycle
<1>1. CASE EndsLine(cycle_ + 1)
  <2>1. NextLine(IF scanline_ = LastLine THEN 0 ELSE scanline_ + 1)
    BY <1>1 DEF increment_cycle
  <2>2. cycle_' = 0 /\ scanline_' = IF scanline_ = LastLine THEN 0 ELSE scanline_ + 1
    BY <2>1 DEF NextLine
  <2>3. cycle_ + 1 >= LastCycle
    BY <1>1, Sizes DEF EndsLine, BlankInv
  <2>4. QED
    BY <2>2, <2>3, Sizes DEF BlankInv
<1>2. CASE ~EndsLine(cycle_ + 1)
  <2>1. WithinLine(cycle_ + 1)
    BY <1>2 DEF increment_cycle
  <2>2. cycle_' = cycle_ + 1 /\ scanline_' = scanline_
    BY <2>1 DEF WithinLine
  <2>3. cycle_ + 1 <= LastCycle
    BY <1>2, Sizes DEF EndsLine, BlankInv
  <2>4. QED
    BY <2>2, <2>3 DEF BlankInv
<1>3. QED
  BY <1>1, <1>2

\* A flag that is up and not cleared stays within the blank.
LEMMA BlankMoves ==
  ASSUME BlankInv, increment_cycle, InBlank, ~check_vblank_falling_edge'
  PROVE  InBlank'
<1>1. CASE scanline_ = Height - 1 /\ cycle_ = LastCycle
  BY <1>1, Steps, Sizes DEF InBlank, BlankInv
<1>2. CASE scanline_ \in Height .. LastLine - 1
  BY <1>2, Steps, Sizes DEF InBlank, BlankInv
<1>3. CASE scanline_ = LastLine /\ cycle_ = 0
  <2>1. scanline_' = LastLine /\ cycle_' = 1
    BY <1>3, Steps, Sizes DEF BlankInv
  <2>2. QED
    BY <2>1 DEF check_vblank_falling_edge
<1>4. QED
  BY <1>1, <1>2, <1>3 DEF InBlank

LEMMA BlankStep == BlankInv /\ [Next]_vars => BlankInv'
<1> SUFFICES ASSUME BlankInv, [Next]_vars
             PROVE  BlankInv'
  OBVIOUS
<1>1. CASE Step
  <2>1. increment_cycle /\ UpdateStatus
    BY <1>1 DEF Step
  <2>2. cycle_' \in Nat /\ scanline_' \in 0 .. LastLine
    BY <2>1, Steps
  <2>3. CASE check_vblank_raising_edge'
    <3>1. status' = [status EXCEPT !.vblank = TRUE]
      BY <2>1, <2>3 DEF UpdateStatus
    <3>2. InBlank'
      BY <2>3, Sizes DEF check_vblank_raising_edge, InBlank
    <3>3. QED
      BY <2>2, <3>1, <3>2 DEF BlankInv
  <2>4. CASE ~check_vblank_raising_edge' /\ check_vblank_falling_edge'
    <3>1. status' = [vblank |-> FALSE, sprite0_hit |-> FALSE]
      BY <2>1, <2>4 DEF UpdateStatus
    <3>2. QED
      BY <2>2, <3>1 DEF BlankInv
  <2>5. CASE ~check_vblank_raising_edge' /\ ~check_vblank_falling_edge'
    <3>1. CASE status' = status
      BY <2>1, <2>2, <2>5, <3>1, BlankMoves DEF BlankInv
    <3>2. CASE check_rendering_falling_edge' /\ status' = [status EXCEPT !.vblank = TRUE]
      <4>1. InBlank'
        BY <3>2 DEF check_rendering_falling_edge, InBlank
      <4>2. QED
        BY <2>2, <3>2, <4>1 DEF BlankInv
    <3>3. QED
      BY <2>1, <2>5, <3>1, <3>2 DEF UpdateStatus
  <2>6. QED
    BY <2>3, <2>4, <2>5
<1>2. CASE Access
  <2>1. cycle_' = cycle_ /\ scanline_' = scanline_
    BY <1>2 DEF Access, raster
  <2>2. CASE read_register
    <3>1. status' = [status EXCEPT !.vblank = FALSE]
      BY <2>2 DEF read_register
    <3>2. QED
      BY <2>1, <3>1 DEF BlankInv
  <2>3. ASSUME NEW a \in Games[game].accesses, write_register(a)
        PROVE  BlankInv'
    <3>1. \/ status' = status
          \/ status' = [status EXCEPT !.sprite0_hit = @ \/ a.value.sprite0_hit]
      BY <2>3 DEF write_register
    <3>2. /\ status' = [vblank |-> status'.vblank, sprite0_hit |-> status'.sprite0_hit]
          /\ status'.vblank = status.vblank
      BY <3>1 DEF BlankInv
    <3>3. QED
      BY <2>1, <3>2 DEF BlankInv, InBlank
  <2>4. QED
    BY <1>2, <2>2, <2>3 DEF Access
<1>3. CASE reset
  <2>1. scanline_' = LastLine - 1 /\ cycle_' = LastCycle + 1 /\ status' = status
    BY <1>3 DEF reset
  <2>2. LastLine - 1 \in Height .. LastLine - 1
    BY Sizes
  <2>3. QED
    BY <2>1, <2>2, Sizes DEF BlankInv, InBlank
<1>4. CASE Compute
  BY <1>4 DEF Compute, raster, BlankInv, InBlank
<1>5. CASE UNCHANGED vars
  BY <1>5 DEF vars, BlankInv, InBlank
<1>6. QED
  BY <1>1, <1>2, <1>3, <1>4, <1>5 DEF Next

LEMMA BlankStarts == Init => BlankInv
<1> SUFFICES ASSUME Init
             PROVE  BlankInv
  OBVIOUS
<1>1. /\ cycle_ = LastCycle + 1 /\ scanline_ = LastLine - 1
      /\ status = [vblank |-> FALSE, sprite0_hit |-> FALSE]
  BY DEF Init
<1>2. QED
  BY <1>1, Sizes DEF BlankInv

\* The blank flag is never up where a pixel is drawn, but for the last position of a
\* picture, where sprite 0 may raise it: for pictures of any size and any programs.
THEOREM BlankCorrect == Spec => []VblankOnlyBetweenPictures
<1>1. Init => BlankInv
  BY BlankStarts
<1>2. BlankInv => VblankOnlyBetweenPictures
  BY Sizes DEF BlankInv, InBlank, VblankOnlyBetweenPictures, is_rendering_scanline,
               check_rendering_falling_edge
<1>3. QED
  BY <1>1, <1>2, BlankStep, PTL DEF Spec

-----------------------------------------------------------------------------
(***************************************************************************)
(* The ports                                                               *)
(***************************************************************************)

\* ports_ is a record with the fields it is given in Init.
Shaped(s) ==
  /\ s = [had_write_ |-> s.had_write_, write_latch_ |-> s.write_latch_,
          ppu_data_addr_ |-> s.ppu_data_addr_, oam_data_addr_ |-> s.oam_data_addr_,
          pending_scroll_ |-> s.pending_scroll_, store |-> s.store]
  /\ s.write_latch_ \in 0 .. 1

\* What a write makes of ports with no flag.
Written(s, a) ==
  CASE a.port = "OAMADDR" -> [s EXCEPT !.oam_data_addr_ = a.value]
    [] a.port = "OAMDATA" -> [s EXCEPT !.store = <<"oam", s.oam_data_addr_, a.value>>,
                                       !.oam_data_addr_ = @ + 1]
    [] a.port = "PPUADDR" -> [s EXCEPT !.ppu_data_addr_ =
                                IF s.write_latch_ = 0 THEN 256 * a.value
                                ELSE 256 * High(@) + Or(Low(@), a.value),
                              !.write_latch_ = 1 - @]
    [] a.port = "PPUDATA" -> [s EXCEPT !.store = <<"video", s.ppu_data_addr_, a.value>>,
                                !.ppu_data_addr_ = Word16(@ + ppu_addr_increment_amount)]
    [] a.port = "OAMDMA" -> [s EXCEPT !.store = <<"page", a.value>>]
    [] a.port = "PPUSCROLL" -> [s EXCEPT !.pending_scroll_[IF s.write_latch_ = 0 THEN 1 ELSE 2]
                                           = a.value,
                                         !.write_latch_ = 1 - @]

Unflagged(s) == [s EXCEPT !.had_write_ = {}]

\* A handler without a flag for it does nothing.
LEMMA Passed ==
  ASSUME NEW s
  PROVE  /\ (\A w \in s.had_write_ : w.port \notin {"OAMADDR", "OAMDATA"})
              => handle_oam_data_register(s) = s
         /\ (\A w \in s.had_write_ : w.port \notin {"PPUADDR", "PPUDATA"})
              => handle_ppu_data_register(s) = s
         /\ (\A w \in s.had_write_ : w.port # "OAMDMA") => handle_oam_dma_register(s) = s
         /\ (\A w \in s.had_write_ : w.port # "PPUSCROLL") => handle_scroll_register(s) = s
<1>1. (\A w \in s.had_write_ : w.port \notin {"OAMADDR", "OAMDATA"})
        => handle_oam_data_register(s) = s
  BY DEF handle_oam_data_register, Handling
<1>2. (\A w \in s.had_write_ : w.port \notin {"PPUADDR", "PPUDATA"})
        => handle_ppu_data_register(s) = s
  BY DEF handle_ppu_data_register, Handling
<1>3. (\A w \in s.had_write_ : w.port # "OAMDMA") => handle_oam_dma_register(s) = s
  BY DEF handle_oam_dma_register, Handling
<1>4. (\A w \in s.had_write_ : w.port # "PPUSCROLL") => handle_scroll_register(s) = s
  BY DEF handle_scroll_register, Handling
<1>5. QED
  BY <1>1, <1>2, <1>3, <1>4

\* Without a flag nothing is done.
LEMMA NothingHandled ==
  ASSUME NEW s, s.had_write_ = {}
  PROVE  Handled(s) = s
<1>1. /\ handle_oam_data_register(s) = s /\ handle_ppu_data_register(s) = s
      /\ handle_oam_dma_register(s) = s /\ handle_scroll_register(s) = s
  BY Passed
<1>2. QED
  BY <1>1 DEF Handled

\* A write leaves the flags alone.
LEMMA WrittenUnflagged ==
  ASSUME NEW s, NEW a, Shaped(s), a.port \in DeferredPorts
  PROVE  Shaped(Written(Unflagged(s), a)) /\ Written(Unflagged(s), a).had_write_ = {}
<1>1. Shaped(Unflagged(s)) /\ Unflagged(s).had_write_ = {}
  BY DEF Shaped, Unflagged
<1> DEFINE t == Unflagged(s)
<1> HIDE DEF t
<1>2. CASE a.port = "OAMADDR"
  BY <1>1, <1>2 DEF Written, Shaped, t
<1>3. CASE a.port = "OAMDATA"
  BY <1>1, <1>3 DEF Written, Shaped, t
<1>4. CASE a.port = "PPUADDR"
  <2> DEFINE address == IF t.write_latch_ = 0 THEN 256 * a.value
                        ELSE 256 * High(t.ppu_data_addr_) + Or(Low(t.ppu_data_addr_), a.value)
  <2>1. Written(t, a) = [t EXCEPT !.ppu_data_addr_ = address, !.write_latch_ = 1 - @]
    BY <1>4 DEF Written
  <2>2. 1 - t.write_latch_ \in 0 .. 1
    BY <1>1 DEF Shaped, t
  <2> HIDE DEF address
  <2>3. Written(t, a) = [had_write_ |-> {}, write_latch_ |-> 1 - t.write_latch_,
                         ppu_data_addr_ |-> address, oam_data_addr_ |-> t.oam_data_addr_,
                         pending_scroll_ |-> t.pending_scroll_, store |-> t.store]
    BY <1>1, <2>1 DEF Shaped, t
  <2>4. QED
    BY <2>2, <2>3 DEF Shaped, t
<1>5. CASE a.port = "PPUDATA"
  BY <1>1, <1>5 DEF Written, Shaped, t
<1>6. CASE a.port = "OAMDMA"
  BY <1>1, <1>6 DEF Written, Shaped, t
<1>7. CASE a.port = "PPUSCROLL"
  <2> DEFINE scroll == [t.pending_scroll_ EXCEPT ![IF t.write_latch_ = 0 THEN 1 ELSE 2] = a.value]
  <2>1. Written(t, a) = [t EXCEPT !.pending_scroll_ = scroll, !.write_latch_ = 1 - @]
    BY <1>1, <1>7 DEF Written, Shaped
  <2>2. 1 - t.write_latch_ \in 0 .. 1
    BY <1>1 DEF Shaped, t
  <2> HIDE DEF scroll
  <2>3. Written(t, a) = [had_write_ |-> {}, write_latch_ |-> 1 - t.write_latch_,
                         ppu_data_addr_ |-> t.ppu_data_addr_, oam_data_addr_ |-> t.oam_data_addr_,
                         pending_scroll_ |-> scroll, store |-> t.store]
    BY <1>1, <2>1 DEF Shaped, t
  <2>4. QED
    BY <2>2, <2>3 DEF Shaped, t
<1>8. QED
  BY <1>2, <1>3, <1>4, <1>5, <1>6, <1>7 DEF DeferredPorts

\* One flagged write is handled once, in whichever handler's turn it is.
LEMMA OneHandled ==
  ASSUME NEW s, NEW a, Shaped(s), s.had_write_ = {a}, a.port \in DeferredPorts
  PROVE  Handled(s) = Written(Unflagged(s), a)
<1> DEFINE t == Written(Unflagged(s), a)
<1>1. t.had_write_ = {}
  BY WrittenUnflagged
<1>2. /\ handle_ppu_data_register(t) = t /\ handle_oam_dma_register(t) = t
      /\ handle_scroll_register(t) = t
  <2> HIDE DEF t
  <2>1. QED
    BY <1>1, Passed
<1>3. CASE a.port = "OAMADDR"
  <2>1. handle_oam_data_register(s) = t
    BY <1>3 DEF handle_oam_data_register, Handling, Written, Unflagged, Shaped
  <2>2. QED
    BY <1>2, <2>1 DEF Handled
<1>4. CASE a.port = "OAMDATA"
  <2>1. handle_oam_data_register(s) = t
    BY <1>4 DEF handle_oam_data_register, Handling, Written, Unflagged, Shaped
  <2>2. QED
    BY <1>2, <2>1 DEF Handled
<1>5. CASE a.port = "PPUADDR"
  <2>1. handle_oam_data_register(s) = s
    BY <1>5, Passed
  <2>2. handle_ppu_data_register(s) = t
    <3> DEFINE cleared == [s EXCEPT !.had_write_ = @ \ {a}]
               u == [cleared EXCEPT
                       !.ppu_data_addr_ = IF cleared.write_latch_ = 0 THEN 256 * a.value
                                          ELSE 256 * High(@) + Or(Low(@), a.value),
                       !.write_latch_ = 1 - @]
    <3>1. cleared = Unflagged(s)
      BY DEF Unflagged
    <3>2. t = u
      BY <1>5, <3>1 DEF Written
    <3>3. \E w \in s.had_write_ : w.port = "PPUADDR"
      BY <1>5
    <3>4. (CHOOSE w \in s.had_write_ : w.port = "PPUADDR") = a
      BY <1>5
    <3>5. ~ \E w \in u.had_write_ : w.port = "PPUDATA"
      BY <1>1, <3>2
    <3>6. handle_ppu_data_register(s) = u
      <4> DEFINE Addressed(x, v) ==
                   [x EXCEPT !.ppu_data_addr_ = IF x.write_latch_ = 0 THEN 256 * v
                                                ELSE 256 * High(@) + Or(Low(@), v),
                             !.write_latch_ = 1 - @]
                 Stored(x, v) ==
                   [x EXCEPT !.store = <<"video", x.ppu_data_addr_, v>>,
                             !.ppu_data_addr_ = Word16(@ + ppu_addr_increment_amount)]
      <4>1. handle_ppu_data_register(s)
              = Handling(Handling(s, "PPUADDR", Addressed), "PPUDATA", Stored)
        BY DEF handle_ppu_data_register
      <4>2. Handling(u, "PPUDATA", Stored) = u
        BY <3>5 DEF Handling
      <4>3. Addressed(cleared, a.value) = u
        OBVIOUS
      <4> HIDE DEF Addressed
      <4>4. Handling(s, "PPUADDR", Addressed) = Addressed(cleared, a.value)
        BY <3>3, <3>4 DEF Handling
      <4>5. QED
        BY <4>1, <4>2, <4>3, <4>4
    <3>7. QED
      BY <3>2, <3>6
  <2>3. QED
    BY <1>2, <2>1, <2>2 DEF Handled
<1>6. CASE a.port = "PPUDATA"
  <2>1. handle_oam_data_register(s) = s
    BY <1>6, Passed
  <2>2. handle_ppu_data_register(s) = t
    BY ZenonT(40), <1>6 DEF handle_ppu_data_register, Handling, Written, Unflagged, Shaped
  <2>3. QED
    BY <1>2, <2>1, <2>2 DEF Handled
<1>7. CASE a.port = "OAMDMA"
  <2>1. handle_oam_data_register(s) = s /\ handle_ppu_data_register(s) = s
    BY <1>7, Passed
  <2>2. handle_oam_dma_register(s) = t
    BY <1>7 DEF handle_oam_dma_register, Handling, Written, Unflagged, Shaped
  <2>3. QED
    BY <1>2, <2>1, <2>2 DEF Handled
<1>8. CASE a.port = "PPUSCROLL"
  <2>1. /\ handle_oam_data_register(s) = s /\ handle_ppu_data_register(s) = s
        /\ handle_oam_dma_register(s) = s
    BY <1>8, Passed
  <2>2. handle_scroll_register(s) = t
    BY <1>8 DEF handle_scroll_register, Handling, Written, Unflagged, Shaped
  <2>3. QED
    BY <2>1, <2>2 DEF Handled
<1>9. QED
  BY <1>3, <1>4, <1>5, <1>6, <1>7, <1>8 DEF DeferredPorts

\* The arithmetic of the abstract ports is that of the PPU's.
LEMMA SameArithmetic ==
  ASSUME NEW x, NEW y
  PROVE  /\ Ports!Or(x, y) = Or(x, y) /\ Ports!High(x) = High(x)
         /\ Ports!Low(x) = Low(x) /\ Ports!Word16(x) = Word16(x)
<1>1. Ports!Or(x, y) = Or(x, y)
  BY DEF Ports!Or, Or, Ports!Bits, Bits, Ports!FromBits, FromBits, Ports!BitValues, BitValues
<1>2. Ports!High(x) = High(x) /\ Ports!Low(x) = Low(x) /\ Ports!Word16(x) = Word16(x)
  BY DEF Ports!High, High, Ports!Low, Low, Ports!Word16, Word16
<1>3. QED
  BY <1>1, <1>2

\* Between two accesses the PPU makes steps, so that a program has one flagged
\* write at most, and none when it makes the next.
PortsInv ==
  /\ game \in DOMAIN Games
  /\ turn \in 0 .. 3
  /\ Shaped(ports_)
  /\ \/ ports_.had_write_ = {}
     \/ /\ turn = 0
        /\ \E a \in Games[game].accesses :
             a.port \in DeferredPorts /\ ports_.had_write_ = {a}

\* Ports as the program sees them.
Seen ==
  /\ ports_.had_write_ = {} => Handled(ports_) = ports_
  /\ \A a : a.port \in DeferredPorts /\ ports_.had_write_ = {a}
              => Handled(ports_) = Written(Unflagged(ports_), a)

LEMMA PortsSeen == PortsInv => Seen
BY NothingHandled, OneHandled DEF PortsInv, Seen

\* A step of the PPU clears the flag and changes nothing that a program sees.
LEMMA StepHidden ==
  ASSUME PortsInv, Step
  PROVE  PortsInv' /\ ports_'.had_write_ = {} /\ ports_' = Handled(ports_)
<1>1. /\ ports_' = Handled(ports_) /\ turn < 3 /\ turn' = turn + 1
      /\ game' = game
  BY DEF Step
<1>2. CASE ports_.had_write_ = {}
  <2>1. ports_' = ports_
    BY <1>1, <1>2, NothingHandled
  <2>2. QED
    BY <1>1, <1>2, <2>1 DEF PortsInv
<1>3. CASE ports_.had_write_ # {}
  <2>1. PICK a : a.port \in DeferredPorts /\ ports_.had_write_ = {a}
    BY <1>3 DEF PortsInv
  <2>2. Shaped(ports_)
    BY DEF PortsInv
  <2>3. ports_' = Written(Unflagged(ports_), a)
    BY <1>1, <2>1, <2>2, OneHandled
  <2>4. Shaped(ports_') /\ ports_'.had_write_ = {}
    BY <2>1, <2>2, <2>3, WrittenUnflagged
  <2>5. QED
    BY <1>1, <2>4 DEF PortsInv
<1>4. QED
  BY <1>2, <1>3

\* An access leaves a flag for the PPU's next step, or none.
LEMMA AccessFlags ==
  ASSUME PortsInv, Access
  PROVE  /\ ports_.had_write_ = {}
         /\ \/ read_register
            \/ \E a \in Games[game].accesses :
                 /\ a.port \in DeferredPorts \cup {"PPUCTRL", "PPUMASK", "PPUSTATUS"}
                 /\ write_register(a)
                 /\ IF a.port \in DeferredPorts
                    THEN ports_' = [ports_ EXCEPT !.had_write_ = {a}]
                    ELSE ports_' = ports_
         /\ PortsInv'
<1>1. /\ turn = 3 /\ turn' = 0 /\ game' = game
      /\ read_register \/ \E a \in Games[game].accesses : write_register(a)
  BY DEF Access
<1>2. ports_.had_write_ = {} /\ Shaped(ports_) /\ game \in DOMAIN Games
  BY <1>1 DEF PortsInv
<1>3. CASE read_register
  <2>1. ports_' = [ports_ EXCEPT !.write_latch_ = 0]
    BY <1>3 DEF read_register
  <2>2. Shaped(ports_') /\ ports_'.had_write_ = {}
    BY <1>2, <2>1 DEF Shaped
  <2>3. QED
    BY <1>1, <1>2, <1>3, <2>2 DEF PortsInv
<1>4. ASSUME NEW a \in Games[game].accesses, write_register(a)
      PROVE  /\ a.port \in DeferredPorts \cup {"PPUCTRL", "PPUMASK", "PPUSTATUS"}
             /\ IF a.port \in DeferredPorts
                THEN ports_' = [ports_ EXCEPT !.had_write_ = {a}]
                ELSE ports_' = ports_
             /\ PortsInv'
  <2>1. a.port \in DeferredPorts \cup {"PPUCTRL", "PPUMASK", "PPUSTATUS"}
    BY <1>2, <1>4, ProgramsAssumption
  <2>2. CASE a.port \in DeferredPorts
    <3>1. a.port \notin {"PPUCTRL", "PPUMASK", "PPUSTATUS"}
      BY <2>2 DEF DeferredPorts
    <3>2. ports_' = [ports_ EXCEPT !.had_write_ = {w \in @ : w.port # a.port} \cup {a}]
      BY <1>4, <3>1 DEF write_register
    <3>3. {w \in ports_.had_write_ : w.port # a.port} \cup {a} = {a}
      BY <1>2
    <3>4. ports_' = [ports_ EXCEPT !.had_write_ = {a}]
      BY <3>2, <3>3
    <3>5. Shaped(ports_') /\ ports_'.had_write_ = {a}
      BY <1>2, <3>4 DEF Shaped
    <3>6. QED
      BY <1>1, <1>2, <2>1, <2>2, <3>4, <3>5 DEF PortsInv
  <2>3. CASE a.port \notin DeferredPorts
    <3>1. ports_' = ports_
      BY <1>4, <2>1, <2>3 DEF write_register
    <3>2. QED
      BY <1>1, <1>2, <2>1, <2>3, <3>1 DEF PortsInv
  <2>4. QED
    BY <2>2, <2>3
<1>5. QED
  BY <1>1, <1>2, <1>3, <1>4

LEMMA PortsStart == Init => PortsInv
BY DEF Init, PortsInv, Shaped

LEMMA PortsKept == PortsInv /\ [Next]_vars => PortsInv'
<1> SUFFICES ASSUME PortsInv, [Next]_vars
             PROVE  PortsInv'
  OBVIOUS
<1>1. CASE Step
  BY <1>1, StepHidden
<1>2. CASE Access
  BY <1>2, AccessFlags
<1>3. CASE Compute
  BY <1>3 DEF Compute, PortsInv
<1>4. CASE reset
  BY <1>4 DEF reset, PortsInv
<1>5. CASE UNCHANGED vars
  BY <1>5 DEF vars, PortsInv
<1>6. QED
  BY <1>1, <1>2, <1>3, <1>4, <1>5 DEF Next

\* A deferred write is a step of the abstract ports.
LEMMA WriteAtOnce ==
  ASSUME NEW a, a.port \in DeferredPorts,
         a \in UNION {Games[g].accesses : g \in DOMAIN Games},
         Shaped(ports_), ctrl' = ctrl,
         Handled(ports_) = ports_, Handled(ports_)' = Written(ports_, a)
  PROVE  Ports!Next
<1> DEFINE next == Handled(ports_)'
<1>0. ports_.write_latch_ \in 0 .. 1
  BY DEF Shaped
<1>1. CASE a.port = "PPUSCROLL"
  <2>1. /\ next.pending_scroll_
             = [ports_.pending_scroll_ EXCEPT ![IF ports_.write_latch_ = 0 THEN 1 ELSE 2] = a.value]
        /\ next.write_latch_ = 1 - ports_.write_latch_
        /\ next.ppu_data_addr_ = ports_.ppu_data_addr_
        /\ next.oam_data_addr_ = ports_.oam_data_addr_ /\ next.store = ports_.store
    BY <1>1 DEF Written, Shaped
  <2> HIDE DEF next
  <2>2. (next.write_latch_ = 1) = ~(ports_.write_latch_ = 1)
    BY <1>0, <2>1
  <2>3. (IF ports_.write_latch_ = 0 THEN 1 ELSE 2) = (IF ports_.write_latch_ = 1 THEN 2 ELSE 1)
    BY <1>0
  <2>4. Ports!Scroll(a.value)
    BY <2>1, <2>2, <2>3 DEF Ports!Scroll, next
  <2>5. QED
    BY <1>1, <2>4 DEF Ports!Next
<1>2. CASE a.port = "PPUADDR"
  <2>1. /\ next.ppu_data_addr_
             = IF ports_.write_latch_ = 0 THEN 256 * a.value
               ELSE 256 * High(ports_.ppu_data_addr_) + Or(Low(ports_.ppu_data_addr_), a.value)
        /\ next.write_latch_ = 1 - ports_.write_latch_
        /\ next.pending_scroll_ = ports_.pending_scroll_
        /\ next.oam_data_addr_ = ports_.oam_data_addr_ /\ next.store = ports_.store
    BY ZenonT(40), <1>2 DEF Written, Shaped
  <2> HIDE DEF next
  <2>2. (next.write_latch_ = 1) = ~(ports_.write_latch_ = 1)
    BY <1>0, <2>1
  <2>3. next.ppu_data_addr_
          = IF ports_.write_latch_ = 1
            THEN 256 * Ports!High(ports_.ppu_data_addr_)
                   + Ports!Or(Ports!Low(ports_.ppu_data_addr_), a.value)
            ELSE 256 * a.value
    BY <1>0, <2>1, SameArithmetic
  <2>4. Ports!SetAddress(a.value)
    BY <2>1, <2>2, <2>3 DEF Ports!SetAddress, next
  <2>5. QED
    BY <1>2, <2>4 DEF Ports!Next
<1>3. CASE a.port = "PPUDATA"
  <2>1. /\ next.store = <<"video", ports_.ppu_data_addr_, a.value>>
        /\ next.ppu_data_addr_ = Word16(ports_.ppu_data_addr_ + ppu_addr_increment_amount)
        /\ next.write_latch_ = ports_.write_latch_
        /\ next.pending_scroll_ = ports_.pending_scroll_
        /\ next.oam_data_addr_ = ports_.oam_data_addr_
    BY <1>3 DEF Written, Shaped
  <2> HIDE DEF next
  <2>2. next.ppu_data_addr_
          = Ports!Word16(ports_.ppu_data_addr_ + IF ctrl.down THEN 32 ELSE 1)
    BY <2>1, SameArithmetic DEF ppu_addr_increment_amount
  <2>3. Ports!StoreVideo(a.value)
    BY <2>1, <2>2 DEF Ports!StoreVideo, next
  <2>4. QED
    BY <1>3, <2>3 DEF Ports!Next
<1>4. CASE a.port = "OAMADDR"
  <2>1. Ports!SetOamAddress(a.value)
    BY <1>4 DEF Ports!SetOamAddress, Written, Shaped
  <2>2. QED
    BY <1>4, <2>1 DEF Ports!Next
<1>5. CASE a.port = "OAMDATA"
  <2>1. /\ next.store = <<"oam", ports_.oam_data_addr_, a.value>>
        /\ next.oam_data_addr_ = ports_.oam_data_addr_ + 1
        /\ next.write_latch_ = ports_.write_latch_
        /\ next.pending_scroll_ = ports_.pending_scroll_
        /\ next.ppu_data_addr_ = ports_.ppu_data_addr_
    BY <1>5 DEF Written, Shaped
  <2> HIDE DEF next
  <2>2. Ports!StoreOam(a.value)
    BY <2>1 DEF Ports!StoreOam, next
  <2>3. QED
    BY <1>5, <2>2 DEF Ports!Next
<1>6. CASE a.port = "OAMDMA"
  <2>1. Ports!CopyPage(a.value)
    BY <1>6 DEF Ports!CopyPage, Written, Shaped
  <2>2. QED
    BY <1>6, <2>1 DEF Ports!Next
<1>7. QED
  BY <1>1, <1>2, <1>3, <1>4, <1>5, <1>6 DEF DeferredPorts

\* Every step of the PPU and of the program is one of the abstract ports or none.
LEMMA PortsStep ==
  PortsInv /\ PortsInv' /\ Seen /\ Seen' /\ [Next]_vars => [Ports!Next]_(Ports!vars)
<1> SUFFICES ASSUME PortsInv, PortsInv', Seen, Seen', [Next]_vars
             PROVE  [Ports!Next]_(Ports!vars)
  OBVIOUS
<1>1. CASE Step
  <2>1. ports_'.had_write_ = {} /\ ports_' = Handled(ports_) /\ ctrl' = ctrl
    BY <1>1, StepHidden DEF Step
  <2>2. Handled(ports_)' = Handled(ports_)
    BY <2>1 DEF Seen
  <2>3. QED
    BY <2>1, <2>2 DEF Ports!vars
<1>2. CASE Access
  <2>1. ports_.had_write_ = {} /\ Handled(ports_) = ports_ /\ Shaped(ports_)
    BY <1>2, AccessFlags DEF Seen, PortsInv
  <2>2. CASE read_register
    <3>1. ports_' = [ports_ EXCEPT !.write_latch_ = 0] /\ ctrl' = ctrl
      BY <2>2 DEF read_register
    <3>2. ports_'.had_write_ = {}
      BY <2>1, <3>1 DEF Shaped
    <3>3. Handled(ports_)' = ports_'
      BY <3>2 DEF Seen
    <3>4. Ports!ReadStatus
      BY <2>1, <3>1, <3>3 DEF Ports!ReadStatus, Shaped
    <3>5. QED
      BY <3>4 DEF Ports!Next
  <2>3. ASSUME NEW a \in Games[game].accesses, write_register(a), a.port \in DeferredPorts,
               ports_' = [ports_ EXCEPT !.had_write_ = {a}]
        PROVE  Ports!Next
    <3>1. ctrl' = ctrl
      BY <2>3 DEF write_register, DeferredPorts
    <3>2. ports_'.had_write_ = {a} /\ Unflagged(ports_') = ports_
      BY <2>1, <2>3 DEF Shaped, Unflagged
    <3>3. Handled(ports_)' = Written(ports_, a)
      BY ZenonT(40), <2>3, <3>1, <3>2 DEF Seen, Written, ppu_addr_increment_amount
    <3>4. a \in UNION {Games[g].accesses : g \in DOMAIN Games}
      BY DEF PortsInv
    <3>5. QED
      BY <2>1, <2>3, <3>1, <3>3, <3>4, WriteAtOnce
  <2>4. ASSUME NEW a \in Games[game].accesses, write_register(a),
               a.port \in {"PPUCTRL", "PPUMASK", "PPUSTATUS"}, ports_' = ports_
        PROVE  [Ports!Next]_(Ports!vars)
    <3>1. Handled(ports_)' = Handled(ports_)
      BY <2>1, <2>4 DEF Seen
    <3>2. a \in UNION {Games[g].accesses : g \in DOMAIN Games}
      BY DEF PortsInv
    <3>3. CASE a.port = "PPUCTRL"
      <4>1. ctrl' = a.value
        BY <2>4, <3>3 DEF write_register
      <4>2. Ports!Control(a.value)
        BY <3>1, <4>1 DEF Ports!Control
      <4>3. QED
        BY <3>2, <3>3, <4>2 DEF Ports!Next
    <3>4. CASE a.port # "PPUCTRL"
      <4>1. ctrl' = ctrl
        BY <2>4, <3>4 DEF write_register
      <4>2. QED
        BY <3>1, <4>1 DEF Ports!vars
    <3>5. QED
      BY <3>3, <3>4
  <2>5. QED
    BY <1>2, <2>2, <2>3, <2>4, AccessFlags
<1>3. CASE UNCHANGED <<ports_, ctrl>>
  <2>1. Handled(ports_)' = Handled(ports_)
    <3>1. CASE ports_.had_write_ = {}
      BY <1>3, <3>1 DEF Seen
    <3>2. CASE ports_.had_write_ # {}
      <4>1. PICK a : a.port \in DeferredPorts /\ ports_.had_write_ = {a}
        BY <3>2 DEF PortsInv
      <4>2. Handled(ports_) = Written(Unflagged(ports_), a)
        BY <4>1 DEF Seen
      <4>3. Handled(ports_)' = Written(Unflagged(ports_), a)'
        BY <1>3, <4>1 DEF Seen
      <4>4. QED
        BY <1>3, <4>2, <4>3 DEF Written, Unflagged, ppu_addr_increment_amount
    <3>3. QED
      BY <3>1, <3>2
  <2>2. QED
    BY <1>3, <2>1 DEF Ports!vars
<1>4. QED
  BY <1>1, <1>2, <1>3 DEF Next, Compute, reset, vars

\* For every set of programs: a write that waits for the PPU's next step cannot be
\* told from one that acts at once, and once.
THEOREM PortsImplemented == Spec => ImplementsPorts
<1>1. Init => PortsInv
  BY PortsStart
<1>2. Init => Ports!Init
  <2> SUFFICES ASSUME Init
               PROVE  Ports!Init
    OBVIOUS
  <2>1. /\ game \in DOMAIN Games /\ ctrl = Games[game].ctrl
        /\ ports_ = [had_write_ |-> {}, write_latch_ |-> 0, ppu_data_addr_ |-> 0,
                     oam_data_addr_ |-> 0, pending_scroll_ |-> Games[game].scroll,
                     store |-> <<>>]
    BY DEF Init
  <2>2. Handled(ports_) = ports_
    BY <2>1, NothingHandled
  <2>3. Games[game].ctrl.down \in BOOLEAN /\ Games[game].scroll \in Byte \X Byte
    BY <2>1, ProgramsAssumption
  <2>4. /\ ports_.write_latch_ = 0 /\ ports_.ppu_data_addr_ = 0 /\ ports_.oam_data_addr_ = 0
        /\ ports_.store = <<>> /\ ports_.pending_scroll_ = Games[game].scroll
        /\ ctrl.down = Games[game].ctrl.down
    BY <2>1
  <2>5. QED
    BY SMTT(30), <2>2, <2>3, <2>4 DEF Ports!Init, Ports!Byte, Byte, Ports!Unsigned, Unsigned
<1>3. Spec => []PortsInv
  BY <1>1, PortsKept, PTL DEF Spec
<1>4. QED
  BY <1>2, <1>3, PortsSeen, PortsStep, PTL DEF Spec, ImplementsPorts, Ports!Spec

\* What draws is the PPU of these theorems, whatever it draws.
THEOREM PictureIsPpu == PictureSpec => Spec
<1>1. PictureInit => Init
  BY DEF PictureInit
<1>2. [PictureNext]_<<vars, picture>> => [Next]_vars
  BY DEF PictureNext, StepDraws, ComputeDraws, AccessDraws, ResetDraws, Next
<1>3. QED
  BY <1>1, <1>2, PTL DEF PictureSpec, Spec

-----------------------------------------------------------------------------
(***************************************************************************)
(* The nametable pointer                                                   *)
(***************************************************************************)

\* Division by a positive number.
LEMMA Divides ==
  ASSUME NEW n \in Int, NEW b \in Int, b > 0
  PROVE  n \div b \in Int /\ n % b \in Int
         /\ n = b * (n \div b) + (n % b) /\ 0 <= n % b /\ n % b < b
OBVIOUS

LEMMA Divided ==
  ASSUME NEW b \in Int, b > 0, NEW q \in Int, NEW r \in Int, 0 <= r, r < b,
         NEW n \in Int, n = b * q + r
  PROVE  n \div b = q /\ n % b = r
<1> DEFINE q1 == n \div b
           r1 == n % b
<1>1. q1 \in Int /\ r1 \in Int /\ n = b * q1 + r1 /\ 0 <= r1 /\ r1 < b
  BY Divides
<1> HIDE DEF q1, r1
<1>2. q1 = q
  <2>1. ASSUME NEW d \in Int, d >= 1 PROVE b * d \in Int /\ b * d >= b
    BY <2>1
  <2>2. b * (q1 - q) = r - r1 /\ b * (q - q1) = r1 - r
    BY <1>1
  <2>3. ~(q1 - q >= 1)
    BY <1>1, <2>1, <2>2
  <2>4. ~(q - q1 >= 1)
    BY <1>1, <2>1, <2>2
  <2>5. QED
    BY <1>1, <2>3, <2>4
<1>3. r1 = r
  BY <1>1, <1>2
<1>4. QED
  BY <1>2, <1>3 DEF q1, r1

\* Where a position lies in a row or column of so many tiles, which comes again
\* and again: the tile, and the dot of it.
TileOf(n, tiles) == (n % (tiles * TileSize)) \div TileSize
DotOf(n, tiles) == (n % (tiles * TileSize)) % TileSize

LEMMA TileSizes ==
  /\ TileSize \in Int /\ TileSize >= 1
  /\ \A tiles \in Int : tiles >= 1 => tiles * TileSize \in Int /\ tiles * TileSize >= 1
<1>1. TileSize \in Int /\ TileSize >= 1
  BY SizesAssumption
<1>2. \A m, n \in Int : m >= 1 /\ n >= 1 => m * n \in Int /\ m * n >= 1
  OBVIOUS
<1>3. QED
  BY <1>1, <1>2

LEMMA TileAt ==
  ASSUME NEW tiles \in Int, tiles >= 1, NEW q \in Int,
         NEW tile \in Int, 0 <= tile, tile < tiles,
         NEW dot \in Int, 0 <= dot, dot < TileSize,
         NEW n \in Int, n = (tiles * TileSize) * q + (TileSize * tile + dot)
  PROVE  /\ n \div (tiles * TileSize) = q /\ TileOf(n, tiles) = tile /\ DotOf(n, tiles) = dot
         /\ n % TileSize = dot
<1> DEFINE size == tiles * TileSize
           rest == TileSize * tile + dot
<1>1. TileSize \in Int /\ TileSize >= 1 /\ size \in Int /\ size >= 1
  BY TileSizes
<1>2. rest \in Int /\ 0 <= rest /\ rest < size
  <2>1. TileSize * tile \in Int /\ TileSize * tile >= 0
    BY <1>1
  <2>2. TileSize * tile + TileSize <= TileSize * tiles
    <3>1. TileSize * (tiles - tile) >= TileSize
      BY <1>1
    <3>2. QED
      BY <1>1, <3>1
  <2>3. QED
    BY <1>1, <2>1, <2>2
<1>3. n = TileSize * (tiles * q + tile) + dot
  BY <1>1
<1> HIDE DEF size
<1>4. n \div size = q /\ n % size = rest
  <2> HIDE DEF rest
  <2>1. n = size * q + rest
    BY DEF size, rest
  <2>2. QED
    BY <1>1, <1>2, <2>1, Divided
<1>5. rest \div TileSize = tile /\ rest % TileSize = dot
  BY <1>1, Divided
<1>6. n % TileSize = dot
  <2> DEFINE whole == tiles * q + tile
  <2>1. whole \in Int /\ n = TileSize * whole + dot
    BY <1>3
  <2> HIDE DEF whole
  <2>2. n \div TileSize = whole /\ n % TileSize = dot
    BY <1>1, <2>1, Divided
  <2>3. QED
    BY <2>2
<1>7. QED
  BY <1>4, <1>5, <1>6 DEF TileOf, DotOf, size

LEMMA TileSplit ==
  ASSUME NEW tiles \in Int, tiles >= 1, NEW n \in Int
  PROVE  /\ TileOf(n, tiles) \in Int /\ 0 <= TileOf(n, tiles) /\ TileOf(n, tiles) < tiles
         /\ DotOf(n, tiles) \in Int /\ 0 <= DotOf(n, tiles) /\ DotOf(n, tiles) < TileSize
         /\ n \div (tiles * TileSize) \in Int
         /\ n = (tiles * TileSize) * (n \div (tiles * TileSize))
                  + (TileSize * TileOf(n, tiles) + DotOf(n, tiles))
<1> DEFINE size == tiles * TileSize
           rest == n % size
           tile == rest \div TileSize
           dot == rest % TileSize
<1>1. TileSize \in Int /\ TileSize >= 1 /\ size \in Int /\ size >= 1
  BY TileSizes
<1> HIDE DEF size
<1>2. n \div size \in Int /\ rest \in Int /\ n = size * (n \div size) + rest
      /\ 0 <= rest /\ rest < size
  BY <1>1, Divides
<1> HIDE DEF rest
<1>3. tile \in Int /\ dot \in Int /\ rest = TileSize * tile + dot /\ 0 <= dot /\ dot < TileSize
  BY <1>1, <1>2, Divides
<1> HIDE DEF tile, dot
<1>4. 0 <= tile
  <2>1. ASSUME tile <= -1 PROVE TileSize * tile <= 0 - TileSize
    BY <1>1, <1>3, <2>1
  <2>2. QED
    BY <1>1, <1>2, <1>3, <2>1
<1>5. tile < tiles
  <2>1. ASSUME tile >= tiles PROVE TileSize * tile >= size
    <3>1. TileSize * (tile - tiles) >= 0
      BY <1>1, <1>3, <2>1
    <3>2. QED
      BY <1>1, <1>3, <3>1 DEF size
  <2>2. QED
    BY <1>1, <1>2, <1>3, <2>1
<1>6. QED
  BY <1>1, <1>2, <1>3, <1>4, <1>5 DEF TileOf, DotOf, tile, dot, rest, size

Splits(n, tiles, q, tile, dot) ==
  /\ tiles \in Int /\ tiles >= 1 /\ q \in Int
  /\ tile \in Int /\ 0 <= tile /\ tile < tiles
  /\ dot \in Int /\ 0 <= dot /\ dot < TileSize
  /\ n \in Int /\ n = (tiles * TileSize) * q + (TileSize * tile + dot)

LEMMA TileOfSplit ==
  ASSUME NEW n, NEW tiles, NEW q, NEW tile, NEW dot, Splits(n, tiles, q, tile, dot)
  PROVE  /\ n \div (tiles * TileSize) = q /\ TileOf(n, tiles) = tile /\ DotOf(n, tiles) = dot
         /\ n % TileSize = dot
BY TileAt DEF Splits

\* One position further.
LEMMA TileNext ==
  ASSUME NEW tiles \in Int, tiles >= 1, NEW n \in Int
  PROVE  /\ DotOf(n, tiles) + 1 # TileSize
              => /\ TileOf(n + 1, tiles) = TileOf(n, tiles)
                 /\ DotOf(n + 1, tiles) = DotOf(n, tiles) + 1
                 /\ (n + 1) \div (tiles * TileSize) = n \div (tiles * TileSize)
         /\ DotOf(n, tiles) + 1 = TileSize /\ TileOf(n, tiles) + 1 # tiles
              => /\ TileOf(n + 1, tiles) = TileOf(n, tiles) + 1
                 /\ DotOf(n + 1, tiles) = 0
                 /\ (n + 1) \div (tiles * TileSize) = n \div (tiles * TileSize)
         /\ DotOf(n, tiles) + 1 = TileSize /\ TileOf(n, tiles) + 1 = tiles
              => /\ TileOf(n + 1, tiles) = 0
                 /\ DotOf(n + 1, tiles) = 0
                 /\ (n + 1) \div (tiles * TileSize) = n \div (tiles * TileSize) + 1
<1> DEFINE size == tiles * TileSize
           q == n \div size
           tile == TileOf(n, tiles)
           dot == DotOf(n, tiles)
<1>1. /\ tile \in Int /\ 0 <= tile /\ tile < tiles
      /\ dot \in Int /\ 0 <= dot /\ dot < TileSize
      /\ q \in Int /\ n = size * q + (TileSize * tile + dot)
      /\ TileSize \in Int /\ TileSize >= 1 /\ size \in Int /\ size = tiles * TileSize
  BY TileSplit, TileSizes
<1> HIDE DEF size, q, tile, dot
<1>2. CASE dot + 1 # TileSize
  <2>1. n + 1 = size * q + (TileSize * tile + (dot + 1))
    BY <1>1
  <2>2. Splits(n + 1, tiles, q, tile, dot + 1)
    BY <1>1, <1>2, <2>1 DEF Splits
  <2>3. QED
    BY <1>2, <2>2, TileOfSplit DEF size, q, tile, dot
<1>3. CASE dot + 1 = TileSize /\ tile + 1 # tiles
  <2>1. n + 1 = size * q + (TileSize * (tile + 1) + 0)
    BY <1>1, <1>3
  <2>2. Splits(n + 1, tiles, q, tile + 1, 0)
    BY <1>1, <1>3, <2>1 DEF Splits
  <2>3. QED
    BY <1>3, <2>2, TileOfSplit DEF size, q, tile, dot
<1>4. CASE dot + 1 = TileSize /\ tile + 1 = tiles
  <2>1. n + 1 = size * (q + 1) + (TileSize * 0 + 0)
    BY <1>1, <1>4
  <2>2. Splits(n + 1, tiles, q + 1, 0, 0)
    BY <1>1, <2>1 DEF Splits
  <2>3. QED
    BY <1>4, <2>2, TileOfSplit DEF size, q, tile, dot
<1>5. QED
  BY <1>2, <1>3, <1>4 DEF tile, dot

\* The four nametables, and where toggling a bit of the pointer leads.
TableBeside(n) == IF n \in {0, 2} THEN n + 1 ELSE n - 1
TableBelow(n) == IF n \in {0, 1} THEN n + 2 ELSE n - 2

LEMMA Tables ==
  /\ NametableSize \in Int /\ NametableSize >= 1
  /\ TilesWide \in Int /\ TilesWide >= 1 /\ TilesHigh \in Int /\ TilesHigh >= 1
  /\ TilesWide * TilesHigh \in Int /\ TilesWide * TilesHigh < NametableSize
  /\ Width = TilesWide * TileSize /\ Height = TilesHigh * TileSize
<1>1. /\ NametableSize \in Int /\ TilesWide * TilesHigh < NametableSize
      /\ TilesWide \in Int /\ TilesWide >= 1 /\ TilesHigh \in Int /\ TilesHigh >= 1
  BY SizesAssumption
<1>2. \A m, n \in Int : m >= 1 /\ n >= 1 => m * n \in Int /\ m * n >= 1
  OBVIOUS
<1>3. TilesWide * TilesHigh \in Int /\ TilesWide * TilesHigh >= 1
  BY <1>1, <1>2
<1>4. QED
  BY <1>1, <1>3 DEF Width, Height

LEMMA ToggledTable ==
  ASSUME NEW n \in 0 .. 3, NEW place \in Int, 0 <= place, place < NametableSize
  PROVE  /\ Beside(nametable_base_address(n) + place)
              = nametable_base_address(TableBeside(n)) + place
         /\ Below(nametable_base_address(n) + place)
              = nametable_base_address(TableBelow(n)) + place
<1> DEFINE size == NametableSize
           ptr == nametable_base_address(n) + place
<1>1. size \in Int /\ size >= 1 /\ place < size
  BY Tables
<1>2. ptr = (8 + n) * size + place
  BY DEF nametable_base_address
<1>3. Beside(ptr) = Toggled(ptr, size) /\ Below(ptr) = Toggled(ptr, 2 * size)
  BY DEF Beside, Below
<1>4. /\ nametable_base_address(TableBeside(n)) = (8 + TableBeside(n)) * size
      /\ nametable_base_address(TableBelow(n)) = (8 + TableBelow(n)) * size
  BY DEF nametable_base_address
<1> HIDE DEF size, ptr
<1>5. ptr \in Int /\ ptr = size * (8 + n) + place
  BY <1>1, <1>2
<1>6. ptr \div size = 8 + n /\ ptr % size = place
  <2> DEFINE q == 8 + n
  <2>1. q \in Int /\ ptr = size * q + place
    BY <1>5
  <2> HIDE DEF q
  <2>2. ptr \div size = q /\ ptr % size = place
    BY <1>1, <1>5, <2>1, Divided
  <2>3. QED
    BY <2>2 DEF q
<1>7. ptr \div (2 * size) = IF n \in {0, 1} THEN 4 ELSE 5
  <2> DEFINE double == 2 * size
             q == IF n \in {0, 1} THEN 4 ELSE 5
             r == IF n \in {0, 2} THEN place ELSE size + place
  <2>1. /\ double \in Int /\ double > 0 /\ q \in Int /\ ptr \in Int
        /\ r \in Int /\ 0 <= r /\ r < double
    BY <1>1, <1>5
  <2>2. ptr = double * q + r
    BY <1>1, <1>5
  <2> HIDE DEF double, q, r
  <2>3. ptr \div double = q /\ ptr % double = r
    BY <2>1, <2>2, Divided
  <2>4. QED
    BY <2>3 DEF double, q
<1>8. Toggled(ptr, size) = (8 + TableBeside(n)) * size + place
  <2>1. (8 + n) % 2 = 0 <=> n \in {0, 2}
    OBVIOUS
  <2>2. CASE n \in {0, 2}
    BY <1>1, <1>5, <1>6, <2>1, <2>2 DEF Toggled, TableBeside
  <2>3. CASE n \in {1, 3}
    BY <1>1, <1>5, <1>6, <2>1, <2>3 DEF Toggled, TableBeside
  <2>4. QED
    BY <2>2, <2>3
<1>9. Toggled(ptr, 2 * size) = (8 + TableBelow(n)) * size + place
  <2>1. CASE n \in {0, 1}
    <3>1. Toggled(ptr, 2 * size) = ptr + 2 * size
      BY <1>7, <2>1 DEF Toggled
    <3>2. QED
      BY <1>1, <1>5, <2>1, <3>1 DEF TableBelow
  <2>2. CASE n \in {2, 3}
    <3>1. Toggled(ptr, 2 * size) = ptr - 2 * size
      BY <1>7, <2>2 DEF Toggled
    <3>2. QED
      BY <1>1, <1>5, <2>2, <3>1 DEF TableBelow
  <2>3. QED
    BY <2>1, <2>2
<1>10. QED
  BY <1>3, <1>4, <1>8, <1>9 DEF ptr

LEMMA TableNumbers ==
  ASSUME NEW n \in 0 .. 3
  PROVE  TableBeside(n) \in 0 .. 3 /\ TableBelow(n) \in 0 .. 3
BY DEF TableBeside, TableBelow

\* A tile's place in its nametable.
LEMMA PlaceInTable ==
  ASSUME NEW tile_x \in Int, 0 <= tile_x, tile_x < TilesWide,
         NEW tile_y \in Int, 0 <= tile_y, tile_y < TilesHigh
  PROVE  /\ tile_x + tile_y * TilesWide \in Int /\ 0 <= tile_x + tile_y * TilesWide
         /\ tile_x + tile_y * TilesWide + 1 < NametableSize
<1>1. tile_y * TilesWide \in Int /\ 0 <= tile_y * TilesWide
  BY Tables
<1>2. tile_y * TilesWide + TilesWide <= TilesWide * TilesHigh
  <2>1. TilesWide * (TilesHigh - 1 - tile_y) >= 0
    <3>1. \A m, n \in Int : m >= 0 /\ n >= 0 => m * n >= 0
      OBVIOUS
    <3>2. QED
      BY <3>1, Tables
  <2>2. QED
    BY <2>1, Tables
<1>3. QED
  BY <1>1, <1>2, Tables

\* The nametable that a pixel falls into.
TableOf(n, x, y) ==
  LET beside == IF x >= Width THEN TableBeside(n) ELSE n
  IN IF y >= Height THEN TableBelow(beside) ELSE beside

LEMMA DirectTable ==
  ASSUME NEW n \in 0 .. 3, NEW x \in Int, NEW y \in Int
  PROVE  /\ TableOf(n, x, y) \in 0 .. 3
         /\ DirectPointer(nametable_base_address(n), x, y)
              = nametable_base_address(TableOf(n, x, y))
                  + TileOf(x, TilesWide) + TileOf(y, TilesHigh) * TilesWide
<1> DEFINE base == nametable_base_address(n)
           beside == IF x >= Width THEN Beside(base) ELSE base
           below == IF y >= Height THEN Below(beside) ELSE beside
           table == IF x >= Width THEN TableBeside(n) ELSE n
<1>1. \A m \in 0 .. 3 : /\ Beside(nametable_base_address(m))
                             = nametable_base_address(TableBeside(m))
                        /\ Below(nametable_base_address(m))
                             = nametable_base_address(TableBelow(m))
  <2> SUFFICES ASSUME NEW m \in 0 .. 3
               PROVE  /\ Beside(nametable_base_address(m))
                           = nametable_base_address(TableBeside(m))
                      /\ Below(nametable_base_address(m))
                           = nametable_base_address(TableBelow(m))
    OBVIOUS
  <2>1. \A k \in 0 .. 3 : nametable_base_address(k) + 0 = nametable_base_address(k)
    BY Tables DEF nametable_base_address
  <2>2. /\ Beside(nametable_base_address(m) + 0) = nametable_base_address(TableBeside(m)) + 0
        /\ Below(nametable_base_address(m) + 0) = nametable_base_address(TableBelow(m)) + 0
    BY Tables, ToggledTable
  <2>3. QED
    BY <2>1, <2>2, TableNumbers
<1>2. table \in 0 .. 3 /\ beside = nametable_base_address(table)
  BY <1>1, TableNumbers
<1>3. TableOf(n, x, y) = IF y >= Height THEN TableBelow(table) ELSE table
  BY DEF TableOf
<1> HIDE DEF table, beside
<1>4. TableOf(n, x, y) \in 0 .. 3 /\ below = nametable_base_address(TableOf(n, x, y))
  BY <1>1, <1>2, <1>3, TableNumbers
<1>5. DirectPointer(base, x, y)
        = below + TileOf(x, TilesWide) + TileOf(y, TilesHigh) * TilesWide
  BY DEF DirectPointer, TileOf, Width, Height, below, beside
<1>6. QED
  BY <1>4, <1>5

\* The pointer and the counters beside it stand for a pixel of the picture that
\* began in the nametable n: its column, and its row.
OnColumn(o, n, x, y) ==
  /\ o.pixel_x_ = x
  /\ o.tile_x_ = TileOf(x, TilesWide)
  /\ o.tile_x_pixel_ = DotOf(x, TilesWide)
  /\ o.nametable_ptr = nametable_base_address(TableOf(n, x, y))
                         + TileOf(x, TilesWide) + TileOf(y, TilesHigh) * TilesWide

OnRow(o, y) ==
  /\ o.pixel_y_ = y
  /\ o.tile_y_ = TileOf(y, TilesHigh)
  /\ o.tile_y_pixel_ = DotOf(y, TilesHigh)

Offsets ==
  [nametable_ptr : Int, pixel_x_ : Int, tile_x_ : Int, tile_x_pixel_ : Int,
   pixel_y_ : Int, tile_y_ : Int, tile_y_pixel_ : Int]

LEMMA BaseIsInt == ASSUME NEW n \in 0 .. 3 PROVE nametable_base_address(n) \in Int
BY Tables DEF nametable_base_address

LEMMA BesideIsInt == ASSUME NEW ptr \in Int PROVE Beside(ptr) \in Int /\ Below(ptr) \in Int
BY Tables DEF Beside, Below, Toggled

LEMMA WidthsOff ==
  ASSUME NEW x \in Int, 0 <= x, x < 2 * Width
  PROVE  x \div Width \in {0, 1} /\ (x >= Width <=> x \div Width = 1)
<1>1. Width \in Int /\ Width > 0
  BY Sizes
<1>2. CASE x < Width
  <2> DEFINE q == 0
  <2>1. x \div Width = q /\ x % Width = x
    BY <1>1, <1>2, Divided
  <2>2. QED
    BY <1>1, <1>2, <2>1
<1>3. CASE x >= Width
  <2>1. x - Width \in Int /\ 0 <= x - Width /\ x - Width < Width
    BY <1>1, <1>3
  <2>2. x \div Width = 1 /\ x % Width = x - Width
    BY <1>1, <2>1, Divided
  <2>3. QED
    BY <1>3, <2>2
<1>4. QED
  BY <1>1, <1>2, <1>3

\* One pixel to the right, over the edge of a tile and of a nametable.
LEMMA NextPixel ==
  ASSUME NEW o \in Offsets, NEW n \in 0 .. 3, NEW x \in Int, 0 <= x, x + 1 < 2 * Width,
         NEW y \in Int, OnColumn(o, n, x, y), OnRow(o, y)
  PROVE  /\ OnColumn(increment_nametable_x_offsets(o), n, x + 1, y)
         /\ OnRow(increment_nametable_x_offsets(o), y)
<1> DEFINE p == increment_nametable_x_offsets(o)
           base == nametable_base_address(TableOf(n, x, y))
           tile == TileOf(x, TilesWide)
           dot == DotOf(x, TilesWide)
           row == TileOf(y, TilesHigh) * TilesWide
           moved == [o EXCEPT !.pixel_x_ = @ + 1]
<1>1. /\ tile \in Int /\ 0 <= tile /\ tile < TilesWide /\ dot \in Int
      /\ row \in Int /\ tile + row + 1 < NametableSize /\ 0 <= row
      /\ Width \in Int /\ TilesWide \in Int /\ TilesWide >= 1 /\ Width > 0
      /\ x = Width * (x \div Width) + (TileSize * tile + dot)
      /\ x \div Width \in Int
  <2>1. /\ tile \in Int /\ 0 <= tile /\ tile < TilesWide /\ dot \in Int
        /\ x = Width * (x \div Width) + (TileSize * tile + dot)
        /\ x \div Width \in Int
    BY Tables, TileSplit
  <2>2. /\ TileOf(y, TilesHigh) \in Int
        /\ 0 <= TileOf(y, TilesHigh) /\ TileOf(y, TilesHigh) < TilesHigh
    BY Tables, TileSplit
  <2>3. row \in Int /\ tile + row + 1 < NametableSize /\ 0 <= 0 + row
    BY <2>1, <2>2, Tables, PlaceInTable
  <2>4. QED
    BY <2>1, <2>3, Tables, Sizes
<1>2. TableOf(n, x, y) \in 0 .. 3 /\ base \in Int
  BY DirectTable, BaseIsInt
<1>3. /\ o.pixel_x_ = x /\ o.tile_x_ = tile /\ o.tile_x_pixel_ = dot
      /\ o.nametable_ptr = base + tile + row
  BY DEF OnColumn
<1>4. /\ x >= Width <=> x \div Width = 1
      /\ x + 1 >= Width <=> (x + 1) \div Width = 1
      /\ x \div Width \in {0, 1} /\ (x + 1) \div Width \in {0, 1}
  BY <1>1, WidthsOff
<1>5. CASE dot + 1 # TileSize
  <2>1. p = [moved EXCEPT !.tile_x_pixel_ = @ + 1]
    BY <1>3, <1>5 DEF increment_nametable_x_offsets
  <2>2. /\ p.pixel_x_ = x + 1 /\ p.tile_x_ = tile /\ p.tile_x_pixel_ = dot + 1
        /\ p.nametable_ptr = base + tile + row
        /\ p.pixel_y_ = o.pixel_y_ /\ p.tile_y_ = o.tile_y_ /\ p.tile_y_pixel_ = o.tile_y_pixel_
    BY <1>3, <2>1 DEF Offsets
  <2>3. /\ TileOf(x + 1, TilesWide) = tile /\ DotOf(x + 1, TilesWide) = dot + 1
        /\ (x + 1) \div Width = x \div Width
    BY <1>1, <1>5, TileNext, Tables
  <2>4. TableOf(n, x + 1, y) = TableOf(n, x, y)
    BY <1>4, <2>3 DEF TableOf
  <2>5. QED
    BY <2>2, <2>3, <2>4 DEF OnColumn, OnRow
<1>6. CASE dot + 1 = TileSize /\ tile + 1 # TilesWide
  <2>1. p = [moved EXCEPT !.tile_x_pixel_ = 0, !.tile_x_ = @ + 1, !.nametable_ptr = @ + 1]
    BY <1>3, <1>6 DEF increment_nametable_x_offsets
  <2>2. /\ p.pixel_x_ = x + 1 /\ p.tile_x_ = tile + 1 /\ p.tile_x_pixel_ = 0
        /\ p.nametable_ptr = base + tile + row + 1
        /\ p.pixel_y_ = o.pixel_y_ /\ p.tile_y_ = o.tile_y_ /\ p.tile_y_pixel_ = o.tile_y_pixel_
    BY <1>3, <2>1 DEF Offsets
  <2>3. /\ TileOf(x + 1, TilesWide) = tile + 1 /\ DotOf(x + 1, TilesWide) = 0
        /\ (x + 1) \div Width = x \div Width
    BY <1>1, <1>6, TileNext, Tables
  <2>4. TableOf(n, x + 1, y) = TableOf(n, x, y)
    BY <1>4, <2>3 DEF TableOf
  <2>5. base + tile + row + 1 = base + (tile + 1) + row
    BY <1>1, <1>2
  <2>6. QED
    BY <2>2, <2>3, <2>4, <2>5 DEF OnColumn, OnRow
<1>7. CASE dot + 1 = TileSize /\ tile + 1 = TilesWide
  <2>1. p = [moved EXCEPT !.tile_x_pixel_ = 0, !.tile_x_ = 0,
                          !.nametable_ptr = Beside(@ + 1) - TilesWide]
    BY <1>3, <1>7 DEF increment_nametable_x_offsets
  <2>2. /\ p.pixel_x_ = x + 1 /\ p.tile_x_ = 0 /\ p.tile_x_pixel_ = 0
        /\ p.nametable_ptr = Beside(base + tile + row + 1) - TilesWide
        /\ p.pixel_y_ = o.pixel_y_ /\ p.tile_y_ = o.tile_y_ /\ p.tile_y_pixel_ = o.tile_y_pixel_
    BY <1>3, <2>1 DEF Offsets
  <2>3. /\ TileOf(x + 1, TilesWide) = 0 /\ DotOf(x + 1, TilesWide) = 0
        /\ (x + 1) \div Width = x \div Width + 1
    BY <1>1, <1>7, TileNext, Tables
  <2>4. ~(x >= Width) /\ x + 1 >= Width
    BY <1>1, <1>4, <2>3
  <2>5. TableOf(n, x + 1, y) = TableBeside(TableOf(n, x, y))
    <3>1. /\ TableOf(n, x, y) = IF y >= Height THEN TableBelow(n) ELSE n
          /\ TableOf(n, x + 1, y) = IF y >= Height THEN TableBelow(TableBeside(n))
                                   ELSE TableBeside(n)
      BY <2>4 DEF TableOf
    <3>2. TableBelow(TableBeside(n)) = TableBeside(TableBelow(n))
      BY DEF TableBeside, TableBelow
    <3>3. QED
      BY <3>1, <3>2
  <2>6. /\ Beside(base + tile + row + 1)
             = nametable_base_address(TableOf(n, x + 1, y)) + (tile + row + 1)
        /\ nametable_base_address(TableOf(n, x + 1, y)) \in Int
    <3> DEFINE place == tile + row + 1
    <3>1. place \in Int /\ 0 <= place /\ place < NametableSize
      BY <1>1
    <3>2. base + tile + row + 1 = base + place
      BY <1>1, <1>2
    <3> HIDE DEF place
    <3>3. Beside(base + place) = nametable_base_address(TableBeside(TableOf(n, x, y))) + place
      BY <1>2, <3>1, ToggledTable
    <3>4. nametable_base_address(TableBeside(TableOf(n, x, y))) \in Int
      BY <1>2, BaseIsInt, TableNumbers
    <3>5. QED
      BY <2>5, <3>2, <3>3, <3>4 DEF place
  <2>7. p.nametable_ptr = nametable_base_address(TableOf(n, x + 1, y)) + 0 + row
    BY <1>1, <1>7, <2>2, <2>6
  <2>8. QED
    BY <2>2, <2>3, <2>7 DEF OnColumn, OnRow
<1>8. QED
  BY <1>5, <1>6, <1>7

\* The unsigned integers of the machine.
LEMMA ByteRange == ASSUME NEW n PROVE n \in Byte <=> n \in Int /\ 0 <= n /\ n <= 255
<1>1. \A count \in Int : \A m : m \in Unsigned(count) <=> m \in Int /\ 0 <= m /\ m <= count - 1
  BY DEF Unsigned
<1>2. QED
  BY <1>1 DEF Byte

LEMMA WordRange == ASSUME NEW n PROVE n \in Word <=> n \in Int /\ 0 <= n /\ n <= 65535
<1>1. \A count \in Int : \A m : m \in Unsigned(count) <=> m \in Int /\ 0 <= m /\ m <= count - 1
  BY DEF Unsigned
<1>2. QED
  BY <1>1 DEF Word

Scrolls == {s \in Byte \X Byte : s[1] <= Width}

LEMMA ScrollRange ==
  ASSUME NEW s \in Scrolls
  PROVE  /\ s[1] \in Int /\ 0 <= s[1] /\ s[1] <= Width
         /\ s[2] \in Int /\ 0 <= s[2] /\ s[2] <= 255
<1>1. \A b \in Byte : b \in Int /\ 0 <= b /\ b <= 255
  BY ByteRange
<1>2. s[1] \in Byte /\ s[2] \in Byte /\ s[1] <= Width
  BY DEF Scrolls
<1>3. QED
  BY <1>1, <1>2

LEMMA SmallWord == ASSUME NEW n \in Int, 0 <= n, n < 65536 PROVE Word16(n) = n
BY DEF Word16

LEMMA WordIsInt == ASSUME NEW n \in Int PROVE Word16(n) \in Int
BY DEF Word16

\* The counters of a row are set, and one or two of them moved on.
RowAt(o, y, tile, dot) == [o EXCEPT !.pixel_y_ = y, !.tile_y_ = tile, !.tile_y_pixel_ = dot]
DotDown(o, y, dot) == [o EXCEPT !.pixel_y_ = y, !.tile_y_pixel_ = dot]
TileDown(o, y, tile) == [o EXCEPT !.pixel_y_ = y, !.tile_y_pixel_ = 0, !.tile_y_ = tile]

LEMMA RowAtSet ==
  ASSUME NEW o \in Offsets, NEW y \in Int, NEW tile \in Int, NEW dot \in Int
  PROVE  /\ RowAt(o, y, tile, dot) \in Offsets
         /\ RowAt(o, y, tile, dot).pixel_y_ = y /\ RowAt(o, y, tile, dot).tile_y_ = tile
         /\ RowAt(o, y, tile, dot).tile_y_pixel_ = dot
<1>1. RowAt(o, y, tile, dot) \in Offsets
  BY DEF Offsets, RowAt
<1>2. /\ RowAt(o, y, tile, dot).pixel_y_ = y /\ RowAt(o, y, tile, dot).tile_y_ = tile
      /\ RowAt(o, y, tile, dot).tile_y_pixel_ = dot
  BY DEF Offsets, RowAt
<1>3. QED
  BY <1>1, <1>2

LEMMA DotDownSet ==
  ASSUME NEW o \in Offsets, NEW y \in Int, NEW dot \in Int
  PROVE  /\ DotDown(o, y, dot) \in Offsets
         /\ DotDown(o, y, dot).pixel_y_ = y /\ DotDown(o, y, dot).tile_y_ = o.tile_y_
         /\ DotDown(o, y, dot).tile_y_pixel_ = dot
<1>1. DotDown(o, y, dot) \in Offsets
  BY DEF Offsets, DotDown
<1>2. /\ DotDown(o, y, dot).pixel_y_ = y /\ DotDown(o, y, dot).tile_y_ = o.tile_y_
      /\ DotDown(o, y, dot).tile_y_pixel_ = dot
  BY DEF Offsets, DotDown
<1>3. QED
  BY <1>1, <1>2

LEMMA TileDownSet ==
  ASSUME NEW o \in Offsets, NEW y \in Int, NEW tile \in Int
  PROVE  /\ TileDown(o, y, tile) \in Offsets
         /\ TileDown(o, y, tile).pixel_y_ = y /\ TileDown(o, y, tile).tile_y_ = tile
         /\ TileDown(o, y, tile).tile_y_pixel_ = 0
<1>1. TileDown(o, y, tile) \in Offsets
  <2> DEFINE dot == 0
  <2>1. dot \in Int /\ TileDown(o, y, tile) = [o EXCEPT !.pixel_y_ = y, !.tile_y_pixel_ = dot,
                                                     !.tile_y_ = tile]
    BY DEF TileDown
  <2> HIDE DEF dot
  <2>2. QED
    BY <2>1 DEF Offsets
<1>2. /\ TileDown(o, y, tile).pixel_y_ = y /\ TileDown(o, y, tile).tile_y_ = tile
      /\ TileDown(o, y, tile).tile_y_pixel_ = 0
  BY DEF Offsets, TileDown
<1>3. QED
  BY <1>1, <1>2

\* The row of the next line, over the edge of a tile and of a nametable.
LEMMA RowOfLine ==
  ASSUME NEW o \in Offsets, scroll_ \in Scrolls, NEW line \in Int, 0 <= line, line < Height,
         line = 0 \/ OnRow(o, line - 1 + scroll_[2])
  PROVE  OnRow(NextRow(o, line), line + scroll_[2]) /\ NextRow(o, line) \in Offsets
<1> DEFINE s == scroll_[2]
<1>1. /\ s \in Int /\ 0 <= s /\ s <= 255 /\ Height \in Int /\ Height + 256 <= 65536
      /\ TilesHigh \in Int /\ TilesHigh >= 1 /\ Height = TilesHigh * TileSize
      /\ TileSize \in Int /\ TileSize >= 1
  BY ScrollRange, ScrollAssumption, Sizes, Tables, TileSizes
<1> HIDE DEF s
<1>2. CASE line = 0
  <2>1. NextRow(o, line) = RowAt(o, s, TileOf(s, TilesHigh), DotOf(s, TilesHigh))
    BY <1>2 DEF NextRow, RowAt, TileOf, DotOf, Height, s
  <2>2. TileOf(s, TilesHigh) \in Int /\ DotOf(s, TilesHigh) \in Int
    BY <1>1, TileSplit
  <2>3. /\ NextRow(o, line).pixel_y_ = s /\ NextRow(o, line).tile_y_ = TileOf(s, TilesHigh)
        /\ NextRow(o, line).tile_y_pixel_ = DotOf(s, TilesHigh)
        /\ NextRow(o, line) \in Offsets
    BY <1>1, <2>1, <2>2, RowAtSet
  <2>4. QED
    BY <1>1, <1>2, <2>3 DEF OnRow, s
<1>3. CASE line # 0
  <2> DEFINE y == line - 1 + s
             tile == TileOf(y, TilesHigh)
             dot == DotOf(y, TilesHigh)
  <2>1. y \in Int /\ 0 <= y /\ y + 1 < 65536 /\ y + 1 = line + s
    BY <1>1, <1>3
  <2>2. o.pixel_y_ = y /\ o.tile_y_ = tile /\ o.tile_y_pixel_ = dot
    BY <1>3 DEF OnRow, s
  <2> HIDE DEF y
  <2>3. /\ tile \in Int /\ 0 <= tile /\ tile < TilesHigh
        /\ dot \in Int /\ 0 <= dot /\ dot < TileSize
    BY <1>1, <2>1, TileSplit
  <2>4. TileSize <= Height /\ TilesHigh <= Height
    <3>1. TileSize * (TilesHigh - 1) >= 0 /\ TilesHigh * (TileSize - 1) >= 0
      BY <1>1
    <3>2. QED
      BY <1>1, <3>1
  <2>5. /\ Word16(o.pixel_y_ + 1) = y + 1 /\ Word16(o.tile_y_ + 1) = tile + 1
        /\ Word16(o.tile_y_pixel_ + 1) = dot + 1
    BY <1>1, <2>1, <2>2, <2>3, <2>4, SmallWord
  <2>6. /\ NextRow(o, line).pixel_y_ = y + 1
        /\ NextRow(o, line).tile_y_ = IF dot + 1 # TileSize THEN tile
                                      ELSE IF tile + 1 = TilesHigh THEN 0 ELSE tile + 1
        /\ NextRow(o, line).tile_y_pixel_ = IF dot + 1 # TileSize THEN dot + 1 ELSE 0
        /\ NextRow(o, line) \in Offsets
    <3> HIDE DEF tile, dot
    <3>1. CASE dot + 1 # TileSize
      <4>1. NextRow(o, line) = DotDown(o, y + 1, dot + 1)
        BY <1>3, <2>2, <2>5, <3>1 DEF NextRow, DotDown, Offsets
      <4> DEFINE below == y + 1
                 down == dot + 1
      <4>2. below \in Int /\ down \in Int
        BY <2>1, <2>3
      <4>3. NextRow(o, line) = DotDown(o, below, down)
        BY <4>1
      <4> HIDE DEF below, down
      <4>4. /\ NextRow(o, line).pixel_y_ = below /\ NextRow(o, line).tile_y_ = o.tile_y_
            /\ NextRow(o, line).tile_y_pixel_ = down /\ NextRow(o, line) \in Offsets
        BY <4>2, <4>3, DotDownSet
      <4>5. QED
        BY <2>2, <3>1, <4>4 DEF below, down
    <3>2. CASE dot + 1 = TileSize
      <4> DEFINE next == IF tile + 1 = TilesHigh THEN 0 ELSE tile + 1
      <4>1. NextRow(o, line) = TileDown(o, y + 1, next)
        BY <1>3, <2>2, <2>5, <3>2 DEF NextRow, TileDown, Offsets
      <4> DEFINE below == y + 1
      <4>2. next \in Int /\ below \in Int
        BY <2>1, <2>3
      <4>3. NextRow(o, line) = TileDown(o, below, next)
        BY <4>1
      <4> HIDE DEF next, below
      <4>4. /\ NextRow(o, line).pixel_y_ = below /\ NextRow(o, line).tile_y_ = next
            /\ NextRow(o, line).tile_y_pixel_ = 0 /\ NextRow(o, line) \in Offsets
        BY <4>2, <4>3, TileDownSet
      <4>5. QED
        BY <3>2, <4>4 DEF next, below
    <3>3. QED
      BY <3>1, <3>2
  <2>7. /\ TileOf(y + 1, TilesHigh) = IF dot + 1 # TileSize THEN tile
                                      ELSE IF tile + 1 = TilesHigh THEN 0 ELSE tile + 1
        /\ DotOf(y + 1, TilesHigh) = IF dot + 1 # TileSize THEN dot + 1 ELSE 0
    BY <1>1, <2>1, TileNext
  <2>8. OnRow(NextRow(o, line), y + 1)
    BY <2>6, <2>7 DEF OnRow
  <2>9. QED
    BY <2>1, <2>6, <2>8 DEF s
<1>4. QED
  BY <1>2, <1>3

\* The first pixel of the next line.
LEMMA StartOfLine ==
  ASSUME NEW o \in Offsets, scroll_ \in Scrolls, ctrl.nametable \in 0 .. 3,
         NEW line \in Int, 0 <= line, line < Height,
         line = 0 \/ OnRow(o, line - 1 + scroll_[2])
  PROVE  LET p == increment_nametable_y_offsets(o, line)
         IN /\ OnRow(p, line + scroll_[2])
            /\ OnColumn(p, ctrl.nametable, scroll_[1], line + scroll_[2])
<1> DEFINE n == ctrl.nametable
           x == scroll_[1]
           y == line + scroll_[2]
           row == NextRow(o, line)
           tile == TileOf(x, TilesWide)
           dot == DotOf(x, TilesWide)
           place == tile + TileOf(y, TilesHigh) * TilesWide
           first == nametable_base_address(n) + place
           beside == IF x >= Width THEN Beside(first) ELSE first
           ptr == IF y >= Height THEN Below(beside) ELSE beside
           p == increment_nametable_y_offsets(o, line)
<1>1. /\ x \in Int /\ 0 <= x /\ x <= Width /\ y \in Int /\ n \in 0 .. 3
      /\ 0 <= y /\ OnRow(row, y) /\ row \in Offsets
  BY ScrollRange, RowOfLine
<1> HIDE DEF n, x, y, row
<1>2. /\ tile \in Int /\ 0 <= tile /\ tile < TilesWide /\ dot \in Int
      /\ TileOf(y, TilesHigh) \in Int
      /\ 0 <= TileOf(y, TilesHigh) /\ TileOf(y, TilesHigh) < TilesHigh
  BY <1>1, Tables, TileSplit
<1>3. place \in Int /\ 0 <= place /\ place < NametableSize
  <2>1. place \in Int /\ 0 <= place /\ place + 1 < NametableSize
    BY <1>2, PlaceInTable
  <2>2. QED
    BY <2>1, Tables
<1>4. first \in Int /\ Word16(first) = first
  <2> DEFINE base == nametable_base_address(n)
  <2>1. base \in Int /\ base = (8 + n) * NametableSize
    BY <1>1, BaseIsInt DEF nametable_base_address
  <2>2. 0 <= base /\ base + NametableSize <= 12 * NametableSize
    BY <1>1, <2>1, Tables
  <2> HIDE DEF base, place
  <2>3. first \in Int /\ 0 <= first /\ first < 65536
    BY <1>3, <2>1, <2>2, ScrollAssumption, Tables DEF base
  <2>4. QED
    BY <2>3, SmallWord
<1> HIDE DEF place, first
<1>5. first = nametable_base_address(n) + place
  BY DEF first
<1>6. beside = nametable_base_address(IF x >= Width THEN TableBeside(n) ELSE n) + place
  BY <1>1, <1>3, <1>5, ToggledTable
<1>7. ptr = nametable_base_address(TableOf(n, x, y)) + place
  <2>1. CASE x >= Width
    <3>1. TableBeside(n) \in 0 .. 3 /\ beside = nametable_base_address(TableBeside(n)) + place
      BY <1>1, <1>6, <2>1, TableNumbers
    <3> HIDE DEF beside
    <3>2. QED
      BY <1>3, <2>1, <3>1, ToggledTable DEF TableOf
  <2>2. CASE ~(x >= Width)
    <3>1. beside = nametable_base_address(n) + place
      BY <1>6, <2>2
    <3> HIDE DEF beside
    <3>2. QED
      BY <1>1, <1>3, <2>2, <3>1, ToggledTable DEF TableOf
  <2>3. QED
    BY <2>1, <2>2
<1>8. ptr = nametable_base_address(TableOf(n, x, y)) + tile + TileOf(y, TilesHigh) * TilesWide
  <2>1. nametable_base_address(TableOf(n, x, y)) \in Int
    BY <1>1, DirectTable, BaseIsInt
  <2>2. TileOf(y, TilesHigh) * TilesWide \in Int
    BY <1>2, Tables
  <2>3. QED
    BY <1>2, <1>7, <2>1, <2>2 DEF place
<1>9. p = [row EXCEPT !.pixel_x_ = x, !.tile_x_ = tile, !.tile_x_pixel_ = dot,
                      !.nametable_ptr = ptr]
  <2>1. row.pixel_y_ = y /\ row.tile_y_ = TileOf(y, TilesHigh)
    BY <1>1 DEF OnRow
  <2>2. /\ (scroll_[1] % Width) \div TileSize = tile /\ (scroll_[1] % Width) % TileSize = dot
    BY DEF TileOf, DotOf, Width, x
  <2>3. Word16(nametable_base_address(ctrl.nametable) + tile + row.tile_y_ * TilesWide) = first
    <3>1. nametable_base_address(n) + tile + TileOf(y, TilesHigh) * TilesWide = first
      <4>1. nametable_base_address(n) \in Int /\ TileOf(y, TilesHigh) * TilesWide \in Int
        BY <1>1, <1>2, BaseIsInt, Tables
      <4>2. QED
        BY <1>2, <4>1 DEF first, place
    <3>2. QED
      BY <1>4, <2>1, <3>1 DEF n
  <2>4. QED
    BY <2>1, <2>2, <2>3 DEF increment_nametable_y_offsets, row, x
<1> HIDE DEF ptr
<1>10. /\ p.pixel_x_ = x /\ p.tile_x_ = tile /\ p.tile_x_pixel_ = dot /\ p.nametable_ptr = ptr
       /\ p.pixel_y_ = row.pixel_y_ /\ p.tile_y_ = row.tile_y_
       /\ p.tile_y_pixel_ = row.tile_y_pixel_
  <2> HIDE DEF tile, dot
  <2>1. QED
    BY <1>1, <1>9 DEF Offsets
<1>11. QED
  BY <1>1, <1>8, <1>10 DEF OnRow, OnColumn, n, x, y

\* The counters are numbers wherever the beam is.
LEMMA PixelTyped ==
  ASSUME NEW o \in Offsets
  PROVE  increment_nametable_x_offsets(o) \in Offsets
<1> DEFINE moved == [o EXCEPT !.pixel_x_ = @ + 1]
           zero == 0
           next == o.nametable_ptr + 1
           dot == o.tile_x_pixel_ + 1
           tile == o.tile_x_ + 1
           pixel == o.pixel_x_ + 1
           beside == Beside(next) - TilesWide
<1>1. /\ zero \in Int /\ next \in Int /\ dot \in Int /\ tile \in Int /\ pixel \in Int
      /\ o = [nametable_ptr |-> o.nametable_ptr, pixel_x_ |-> o.pixel_x_, tile_x_ |-> o.tile_x_,
              tile_x_pixel_ |-> o.tile_x_pixel_, pixel_y_ |-> o.pixel_y_,
              tile_y_ |-> o.tile_y_, tile_y_pixel_ |-> o.tile_y_pixel_]
  BY DEF Offsets
<1>2. beside \in Int
  BY <1>1, BesideIsInt, Tables
<1>3. \/ increment_nametable_x_offsets(o) = [moved EXCEPT !.tile_x_pixel_ = dot]
      \/ increment_nametable_x_offsets(o)
           = [moved EXCEPT !.tile_x_pixel_ = zero, !.tile_x_ = tile, !.nametable_ptr = next]
      \/ increment_nametable_x_offsets(o)
           = [moved EXCEPT !.tile_x_pixel_ = zero, !.tile_x_ = zero, !.nametable_ptr = beside]
  BY DEF increment_nametable_x_offsets, Offsets
<1>4. moved \in Offsets
  BY DEF Offsets
<1> HIDE DEF moved, zero, next, dot, tile, pixel, beside
<1>5. CASE increment_nametable_x_offsets(o) = [moved EXCEPT !.tile_x_pixel_ = dot]
  BY <1>1, <1>4, <1>5 DEF Offsets
<1>6. CASE increment_nametable_x_offsets(o)
             = [moved EXCEPT !.tile_x_pixel_ = zero, !.tile_x_ = tile, !.nametable_ptr = next]
  BY <1>1, <1>4, <1>6 DEF Offsets
<1>7. CASE increment_nametable_x_offsets(o)
             = [moved EXCEPT !.tile_x_pixel_ = zero, !.tile_x_ = zero, !.nametable_ptr = beside]
  BY <1>1, <1>2, <1>4, <1>7 DEF Offsets
<1>8. QED
  BY <1>3, <1>5, <1>6, <1>7

LEMMA RowTyped ==
  ASSUME NEW o \in Offsets, scroll_ \in Scrolls, NEW line \in Int
  PROVE  NextRow(o, line) \in Offsets
<1> DEFINE s == scroll_[2]
<1>1. /\ s \in Int /\ 0 <= s /\ s <= 255 /\ Height \in Int
      /\ TilesHigh \in Int /\ TilesHigh >= 1 /\ Height = TilesHigh * TileSize
      /\ TileSize \in Int /\ TileSize >= 1
  BY ScrollRange, Sizes, Tables, TileSizes
<1> HIDE DEF s
<1>2. CASE line = 0
  <2>1. NextRow(o, line) = RowAt(o, s, TileOf(s, TilesHigh), DotOf(s, TilesHigh))
    BY <1>2 DEF NextRow, RowAt, TileOf, DotOf, Height, s
  <2>2. TileOf(s, TilesHigh) \in Int /\ DotOf(s, TilesHigh) \in Int
    BY <1>1, TileSplit
  <2>3. QED
    BY <1>1, <2>1, <2>2, RowAtSet
<1>3. CASE line # 0
  <2> DEFINE y == Word16(o.pixel_y_ + 1)
             dot == Word16(o.tile_y_pixel_ + 1)
             next == Word16(o.tile_y_ + 1)
             tile == IF next = TilesHigh THEN 0 ELSE next
  <2>1. NextRow(o, line) = IF dot # TileSize THEN DotDown(o, y, dot) ELSE TileDown(o, y, tile)
    BY <1>3 DEF NextRow, DotDown, TileDown, Offsets
  <2>2. y \in Int /\ dot \in Int /\ next \in Int
    <3>1. o.pixel_y_ + 1 \in Int /\ o.tile_y_pixel_ + 1 \in Int /\ o.tile_y_ + 1 \in Int
      BY DEF Offsets
    <3>2. QED
      BY <3>1, WordIsInt
  <2> HIDE DEF y, dot, next
  <2>3. tile \in Int
    BY <2>2
  <2> HIDE DEF tile
  <2>4. DotDown(o, y, dot) \in Offsets /\ TileDown(o, y, tile) \in Offsets
    BY <2>2, <2>3, DotDownSet, TileDownSet
  <2>5. QED
    BY <2>1, <2>4
<1>4. QED
  BY <1>2, <1>3

LEMMA LineTyped ==
  ASSUME NEW o \in Offsets, scroll_ \in Scrolls, ctrl.nametable \in 0 .. 3, NEW line \in Int
  PROVE  increment_nametable_y_offsets(o, line) \in Offsets
<1> DEFINE x == scroll_[1]
           row == NextRow(o, line)
           tile == TileOf(x, TilesWide)
           dot == DotOf(x, TilesWide)
           first == Word16(nametable_base_address(ctrl.nametable) + tile + row.tile_y_ * TilesWide)
           beside == IF x >= Width THEN Beside(first) ELSE first
           ptr == IF row.pixel_y_ >= Height THEN Below(beside) ELSE beside
<1>1. row \in Offsets
  BY RowTyped
<1>2. increment_nametable_y_offsets(o, line)
        = [row EXCEPT !.pixel_x_ = x, !.tile_x_ = tile, !.tile_x_pixel_ = dot,
                      !.nametable_ptr = ptr]
  BY DEF increment_nametable_y_offsets, TileOf, DotOf, Width
<1>3. x \in Int /\ 0 <= x
  BY ScrollRange
<1> HIDE DEF x, row
<1>4. tile \in Int /\ dot \in Int
  BY <1>3, Tables, TileSplit
<1> HIDE DEF tile, dot
<1>5. first \in Int
  <2>1. row.tile_y_ * TilesWide \in Int
    BY <1>1, Tables DEF Offsets
  <2>2. nametable_base_address(ctrl.nametable) \in Int
    BY BaseIsInt
  <2> DEFINE place == row.tile_y_ * TilesWide
             base == nametable_base_address(ctrl.nametable)
  <2> HIDE DEF place, base
  <2>3. base + tile + place \in Int
    BY <1>4, <2>1, <2>2 DEF place, base
  <2>4. QED
    BY <2>3, WordIsInt DEF place, base
<1> HIDE DEF first
<1>6. beside \in Int
  BY <1>5, BesideIsInt
<1> HIDE DEF beside
<1>7. ptr \in Int
  BY <1>6, BesideIsInt
<1> HIDE DEF ptr
<1>8. QED
  BY <1>1, <1>2, <1>3, <1>4, <1>7 DEF Offsets

\* No write scrolls further than a nametable is wide.
LEMMA ScrollSet ==
  ASSUME NEW s \in Scrolls, NEW v \in Byte, v <= Width, NEW i \in {1, 2}
  PROVE  [s EXCEPT ![i] = v] \in Scrolls
<1>1. s \in Byte \X Byte /\ s[1] <= Width
  BY DEF Scrolls
<1>2. CASE i = 1
  <2>1. [s EXCEPT ![1] = v] = <<v, s[2]>>
    BY <1>1
  <2>2. s[2] \in Byte
    BY <1>1
  <2>3. QED
    BY <1>2, <2>1, <2>2 DEF Scrolls
<1>3. CASE i = 2
  <2>1. [s EXCEPT ![2] = v] = <<s[1], v>>
    BY <1>1
  <2>2. s[1] \in Byte
    BY <1>1
  <2>3. QED
    BY <1>1, <1>3, <2>1, <2>2 DEF Scrolls
<1>4. QED
  BY <1>2, <1>3

LEMMA PendingKept ==
  ASSUME PortsInv, ports_.pending_scroll_ \in Scrolls
  PROVE  Handled(ports_).pending_scroll_ \in Scrolls
<1>1. CASE ports_.had_write_ = {}
  BY <1>1, NothingHandled
<1>2. CASE ports_.had_write_ # {}
  <2>1. PICK a \in Games[game].accesses : a.port \in DeferredPorts /\ ports_.had_write_ = {a}
    BY <1>2 DEF PortsInv
  <2>2. Shaped(ports_)
    BY DEF PortsInv
  <2>3. Handled(ports_) = Written(Unflagged(ports_), a)
    BY <2>1, <2>2, OneHandled
  <2> DEFINE t == Unflagged(ports_)
  <2>4. Shaped(t) /\ t.pending_scroll_ = ports_.pending_scroll_
    BY <2>2 DEF Shaped, Unflagged
  <2> HIDE DEF t
  <2>5. CASE a.port = "PPUSCROLL"
    <3> DEFINE i == IF t.write_latch_ = 0 THEN 1 ELSE 2
               scroll == [t.pending_scroll_ EXCEPT ![i] = a.value]
    <3>1. a.value \in Byte /\ a.value <= Width
      BY <2>5, ScrollAssumption DEF PortsInv
    <3>2. i \in {1, 2}
      OBVIOUS
    <3> HIDE DEF i
    <3>3. scroll \in Scrolls
      BY <2>4, <3>1, <3>2, ScrollSet
    <3> HIDE DEF scroll
    <3>4. Written(t, a) = [t EXCEPT !.pending_scroll_ = scroll, !.write_latch_ = 1 - @]
      BY <2>4, <2>5 DEF Written, Shaped, scroll, i
    <3>5. Written(t, a).pending_scroll_ = scroll
      BY <2>4, <3>4 DEF Shaped
    <3>6. QED
      BY <2>3, <3>3, <3>5 DEF t
  <2>6. CASE a.port # "PPUSCROLL"
    <3>1. Written(t, a).pending_scroll_ = t.pending_scroll_
      BY <2>1, <2>4, <2>6 DEF Written, Shaped, DeferredPorts
    <3>2. QED
      BY <2>3, <2>4, <3>1 DEF t
  <2>7. QED
    BY <2>5, <2>6
<1>3. QED
  BY <1>1, <1>2

\* Where a pixel of a picture line is drawn, pointer and counters stand for it; on
\* the rest of the line the row is still right.
OnPixel(n) ==
  is_rendering_scanline =>
    /\ OnRow(offsets_, scanline_ + scroll_[2])
    /\ cycle_ < Width =>
         OnColumn(offsets_, n, cycle_ + scroll_[1], scanline_ + scroll_[2])

PointerInv ==
  /\ ctrl.nametable \in 0 .. 3
  /\ scroll_ \in Scrolls
  /\ ports_.pending_scroll_ \in Scrolls
  /\ offsets_ \in Offsets
  /\ \E n \in 0 .. 3 : line_base = nametable_base_address(n) /\ OnPixel(n)

LEMMA PointerStarts == Init => PointerInv
<1> SUFFICES ASSUME Init
             PROVE  PointerInv
  OBVIOUS
<1>1. game \in DOMAIN Games /\ ctrl = Games[game].ctrl
  BY DEF Init
<1>2. ctrl.nametable \in 0 .. 3
  BY <1>1, ScrollAssumption
<1>3. 0 \in Byte /\ 0 <= Width
  BY ByteRange, Sizes
<1>4. scroll_ \in Scrolls
  <2>1. scroll_ = <<0, 0>>
    BY DEF Init
  <2>2. QED
    BY <1>3, <2>1 DEF Scrolls
<1>5. ports_.pending_scroll_ \in Scrolls
  <2>1. ports_.pending_scroll_ = Games[game].scroll
    BY DEF Init
  <2>2. QED
    BY <1>1, <2>1, ProgramsAssumption, ScrollAssumption DEF Scrolls
<1>6. offsets_ \in Offsets
  <2>1. PICK pixel, tile, row \in Garbage :
          offsets_ = [nametable_ptr |-> nametable_base_address(ctrl.nametable),
                      pixel_x_ |-> 0, tile_x_ |-> 0, tile_x_pixel_ |-> 0,
                      pixel_y_ |-> pixel, tile_y_ |-> tile, tile_y_pixel_ |-> row]
    BY DEF Init
  <2>2. pixel \in Int /\ tile \in Int /\ row \in Int
    BY SizesAssumption, WordRange
  <2>3. nametable_base_address(ctrl.nametable) \in Int
    BY <1>2, BaseIsInt
  <2> DEFINE zero == 0
  <2>4. zero \in Int /\ offsets_ = [nametable_ptr |-> nametable_base_address(ctrl.nametable),
          pixel_x_ |-> zero, tile_x_ |-> zero, tile_x_pixel_ |-> zero,
          pixel_y_ |-> pixel, tile_y_ |-> tile, tile_y_pixel_ |-> row]
    BY <2>1
  <2> HIDE DEF zero
  <2>5. QED
    BY <2>2, <2>3, <2>4 DEF Offsets
<1>7. ~is_rendering_scanline
  <2>1. scanline_ = LastLine - 1
    BY DEF Init
  <2>2. QED
    BY <2>1, Sizes DEF is_rendering_scanline
<1>8. line_base = nametable_base_address(ctrl.nametable) /\ OnPixel(ctrl.nametable)
  BY <1>7 DEF Init, OnPixel
<1>9. QED
  BY <1>2, <1>4, <1>5, <1>6, <1>8 DEF PointerInv

\* The beam moves on: within a line, or to the start of the next.
LEMMA BeamMoves ==
  ASSUME BlankInv, PointerInv, increment_cycle, scroll_' = scroll_
  PROVE  /\ offsets_' \in Offsets
         /\ \E n \in 0 .. 3 : line_base' = nametable_base_address(n) /\ OnPixel(n)'
<1>1. PICK n \in 0 .. 3 : line_base = nametable_base_address(n) /\ OnPixel(n)
  BY DEF PointerInv
<1>2. /\ offsets_ \in Offsets /\ scroll_ \in Scrolls /\ ctrl.nametable \in 0 .. 3
      /\ cycle_ \in Int /\ 0 <= cycle_ /\ scanline_ \in 0 .. LastLine
      /\ Width \in Int /\ Height \in Int /\ LastLine \in Int /\ Width < LastCycle
      /\ LastCycle \in Int
      /\ scroll_[1] \in Int /\ 0 <= scroll_[1] /\ scroll_[1] <= Width
      /\ scroll_[2] \in Int /\ 0 <= scroll_[2]
  BY Sizes, ScrollRange DEF PointerInv, BlankInv
<1>3. CASE EndsLine(cycle_ + 1)
  <2> DEFINE line == IF scanline_ = LastLine THEN 0 ELSE scanline_ + 1
  <2>1. NextLine(line)
    BY <1>3 DEF increment_cycle
  <2>2. /\ line \in Int /\ 0 <= line
        /\ line < Height /\ line # 0 => is_rendering_scanline /\ scanline_ = line - 1
    BY <1>2 DEF is_rendering_scanline
  <2> HIDE DEF line
  <2>3. /\ cycle_' = 0 /\ scanline_' = line
        /\ offsets_' = increment_nametable_y_offsets(offsets_, line)
        /\ line_base' = nametable_base_address(ctrl.nametable)
    BY <2>1 DEF NextLine
  <2>4. offsets_' \in Offsets
    BY <1>2, <2>2, <2>3, LineTyped
  <2>5. PICK m \in 0 .. 3 : m = ctrl.nametable
    BY <1>2
  <2>6. OnPixel(m)'
    <3> SUFFICES ASSUME line < Height
                 PROVE  /\ OnRow(offsets_', line + scroll_[2])
                        /\ OnColumn(offsets_', m, scroll_[1], line + scroll_[2])
      <4>1. is_rendering_scanline' => line < Height
        BY <1>2, <2>2, <2>3 DEF is_rendering_scanline
      <4>2. cycle_' + scroll_[1] = scroll_[1]
        BY <1>2, <2>3
      <4>3. QED
        BY <2>3, <4>1, <4>2 DEF OnPixel
    <3>1. line = 0 \/ OnRow(offsets_, line - 1 + scroll_[2])
      BY <1>1, <2>2 DEF OnPixel
    <3> DEFINE p == increment_nametable_y_offsets(offsets_, line)
    <3>2. /\ OnRow(p, line + scroll_[2])
          /\ OnColumn(p, ctrl.nametable, scroll_[1], line + scroll_[2])
      BY <1>2, <2>2, <3>1, StartOfLine
    <3>3. QED
      BY <2>3, <2>5, <3>2
  <2>7. QED
    BY <2>3, <2>4, <2>5, <2>6
<1>4. CASE ~EndsLine(cycle_ + 1)
  <2>1. /\ cycle_' = cycle_ + 1 /\ scanline_' = scanline_ /\ line_base' = line_base
        /\ offsets_' = IF cycle_ + 1 < Width THEN increment_nametable_x_offsets(offsets_)
                       ELSE offsets_
    BY <1>4 DEF increment_cycle, WithinLine
  <2>2. offsets_' \in Offsets
    BY <1>2, <2>1, PixelTyped
  <2>3. OnPixel(n)'
    <3> DEFINE x == cycle_ + scroll_[1]
               y == scanline_ + scroll_[2]
    <3> SUFFICES ASSUME is_rendering_scanline
                 PROVE  /\ OnRow(offsets_', y)
                        /\ cycle_ + 1 < Width => OnColumn(offsets_', n, cycle_ + 1 + scroll_[1], y)
      BY <2>1 DEF OnPixel, is_rendering_scanline
    <3>1. OnRow(offsets_, y) /\ (cycle_ < Width => OnColumn(offsets_, n, x, y))
      BY <1>1 DEF OnPixel
    <3>2. CASE cycle_ + 1 < Width
      <4>1. /\ x \in Int /\ 0 <= x /\ x + 1 < 2 * Width /\ y \in Int /\ cycle_ < Width
            /\ cycle_ + 1 + scroll_[1] = x + 1
        BY <1>2, <3>2
      <4>2. OnColumn(offsets_, n, x, y)
        BY <3>1, <4>1
      <4> HIDE DEF x, y
      <4>3. OnColumn(offsets_', n, x + 1, y) /\ OnRow(offsets_', y)
        BY <1>2, <2>1, <3>1, <3>2, <4>1, <4>2, NextPixel
      <4>4. QED
        BY <4>1, <4>3
    <3>3. CASE ~(cycle_ + 1 < Width)
      BY <2>1, <3>1, <3>3
    <3>4. QED
      BY <3>2, <3>3
  <2>4. QED
    BY <1>1, <2>1, <2>2, <2>3
<1>5. QED
  BY <1>3, <1>4

LEMMA PointerStep ==
  ASSUME BlankInv, PortsInv, PointerInv, [Next]_vars
  PROVE  PointerInv'
<1>1. CASE Step
  <2>1. /\ increment_cycle /\ ctrl' = ctrl /\ ports_' = Handled(ports_)
        /\ scroll_' = IF check_vblank_falling_edge' THEN ports_'.pending_scroll_ ELSE scroll_
    BY <1>1 DEF Step
  <2>2. ports_'.pending_scroll_ \in Scrolls
    BY <2>1, PendingKept DEF PointerInv
  <2>3. scroll_' \in Scrolls
    BY <2>1, <2>2 DEF PointerInv
  <2>4. CASE ~check_vblank_falling_edge'
    BY <2>1, <2>2, <2>3, <2>4, BeamMoves DEF PointerInv
  <2>5. CASE check_vblank_falling_edge'
    <3>1. ~is_rendering_scanline'
      BY <2>5, Sizes DEF check_vblank_falling_edge, is_rendering_scanline
    <3>2. offsets_' \in Offsets
      <4>1. /\ offsets_ \in Offsets /\ scroll_ \in Scrolls /\ ctrl.nametable \in 0 .. 3
            /\ scanline_ \in Int
        BY Sizes DEF PointerInv, BlankInv
      <4>2. CASE EndsLine(cycle_ + 1)
        <5> DEFINE line == IF scanline_ = LastLine THEN 0 ELSE scanline_ + 1
        <5>1. offsets_' = increment_nametable_y_offsets(offsets_, line)
          BY <2>1, <4>2 DEF increment_cycle, NextLine
        <5>2. line \in Int
          BY <4>1
        <5> HIDE DEF line
        <5>3. QED
          BY <4>1, <5>1, <5>2, LineTyped
      <4>3. CASE ~EndsLine(cycle_ + 1)
        BY <2>1, <4>1, <4>3, PixelTyped DEF increment_cycle, WithinLine
      <4>4. QED
        BY <4>2, <4>3
    <3>3. \E n \in 0 .. 3 : line_base' = nametable_base_address(n)
      BY <2>1 DEF increment_cycle, NextLine, WithinLine, PointerInv
    <3>4. QED
      BY <2>1, <2>2, <2>3, <3>1, <3>2, <3>3 DEF PointerInv, OnPixel
  <2>6. QED
    BY <2>4, <2>5
<1>2. CASE Access
  <2>1. UNCHANGED <<cycle_, scanline_, offsets_, scroll_, line_base>>
    BY <1>2 DEF Access, raster
  <2>2. PICK n \in 0 .. 3 : line_base = nametable_base_address(n) /\ OnPixel(n)
    BY DEF PointerInv
  <2>3. OnPixel(n)'
    BY <2>1, <2>2 DEF OnPixel, is_rendering_scanline
  <2>4. ctrl'.nametable \in 0 .. 3
    <3>1. CASE read_register
      BY <3>1 DEF read_register, PointerInv
    <3>2. ASSUME NEW a \in Games[game].accesses, write_register(a)
          PROVE  ctrl'.nametable \in 0 .. 3
      <4>1. a.port = "PPUCTRL" => a.value.nametable \in 0 .. 3
        BY ScrollAssumption DEF PortsInv
      <4>2. QED
        BY <3>2, <4>1 DEF write_register, PointerInv
    <3>3. QED
      BY <1>2, <3>1, <3>2 DEF Access
  <2>5. ports_'.pending_scroll_ = ports_.pending_scroll_
    <3>1. Shaped(ports_)
      BY DEF PortsInv
    <3>2. CASE read_register
      BY <3>1, <3>2 DEF read_register, Shaped
    <3>3. ASSUME NEW a, write_register(a)
          PROVE  ports_'.pending_scroll_ = ports_.pending_scroll_
      BY <3>1, <3>3 DEF write_register, Shaped
    <3>4. QED
      BY <1>2, <3>2, <3>3 DEF Access
  <2>6. QED
    BY <2>1, <2>2, <2>3, <2>4, <2>5 DEF PointerInv
<1>3. CASE reset
  <2>1. /\ scanline_' = LastLine - 1 /\ scroll_' = <<0, 0>> /\ ctrl' = ctrl /\ ports_' = ports_
        /\ line_base' = line_base
        /\ offsets_' = [offsets_ EXCEPT !.nametable_ptr = nametable_base_address(ctrl.nametable)]
    BY <1>3 DEF reset
  <2>2. ~is_rendering_scanline'
    BY <2>1, Sizes DEF is_rendering_scanline
  <2>3. scroll_' \in Scrolls
    <3>1. 0 \in Byte /\ 0 <= Width
      BY ByteRange, Sizes
    <3>2. QED
      BY <2>1, <3>1 DEF Scrolls
  <2>4. offsets_' \in Offsets
    <3>1. nametable_base_address(ctrl.nametable) \in Int /\ offsets_ \in Offsets
      BY BaseIsInt DEF PointerInv
    <3>2. QED
      BY <2>1, <3>1 DEF Offsets
  <2>5. QED
    BY <2>1, <2>2, <2>3, <2>4 DEF PointerInv, OnPixel
<1>4. CASE Compute
  BY <1>4 DEF Compute, raster, PointerInv, OnPixel, is_rendering_scanline
<1>5. CASE UNCHANGED vars
  BY <1>5 DEF vars, PointerInv, OnPixel, is_rendering_scanline
<1>6. QED
  BY <1>1, <1>2, <1>3, <1>4, <1>5 DEF Next

\* The pointer that is moved along by one tile, one row or one nametable at a time
\* is at every pixel drawn the one computed from the scroll position and the pixel
\* alone: for pictures and nametables of any size and whatever the programs write.
THEOREM PointerCorrect == Spec => []PointerFollowsPixel
<1>1. Init => BlankInv
  BY BlankStarts
<1>2. Init => PortsInv
  BY PortsStart
<1>3. ASSUME BlankInv, PointerInv
      PROVE  PointerFollowsPixel
  <2> SUFFICES ASSUME is_rendering_scanline, cycle_ < Width
               PROVE  LET x == cycle_ + scroll_[1]
                          y == scanline_ + scroll_[2]
                      IN /\ offsets_.nametable_ptr = DirectPointer(line_base, x, y)
                         /\ offsets_.tile_x_pixel_ = x % TileSize
                         /\ offsets_.tile_y_pixel_ = (y % Height) % TileSize
                         /\ offsets_.pixel_x_ = x
                         /\ offsets_.pixel_y_ = y
    BY DEF PointerFollowsPixel
  <2> DEFINE x == cycle_ + scroll_[1]
             y == scanline_ + scroll_[2]
  <2>1. PICK n \in 0 .. 3 : line_base = nametable_base_address(n) /\ OnPixel(n)
    BY <1>3 DEF PointerInv
  <2>2. OnRow(offsets_, y) /\ OnColumn(offsets_, n, x, y)
    BY <2>1 DEF OnPixel
  <2>3. x \in Int /\ y \in Int
    BY <1>3, ScrollRange, Sizes DEF PointerInv, BlankInv
  <2> HIDE DEF x, y
  <2>4. offsets_.nametable_ptr = DirectPointer(line_base, x, y)
    BY <2>1, <2>2, <2>3, DirectTable DEF OnColumn
  <2>5. offsets_.tile_x_pixel_ = x % TileSize
    <3> DEFINE q == x \div (TilesWide * TileSize)
               tile == TileOf(x, TilesWide)
               dot == DotOf(x, TilesWide)
    <3>1. Splits(x, TilesWide, q, tile, dot)
      BY <2>3, Tables, TileSplit DEF Splits
    <3>2. offsets_.tile_x_pixel_ = dot
      BY <2>2 DEF OnColumn
    <3> HIDE DEF q, tile, dot
    <3>3. QED
      BY <3>1, <3>2, TileOfSplit
  <2>6. offsets_.tile_y_pixel_ = (y % Height) % TileSize
    BY <2>2 DEF OnRow, DotOf, Height
  <2>7. QED
    BY <2>2, <2>4, <2>5, <2>6 DEF OnColumn, OnRow, x, y
<1>4. QED
  BY <1>1, <1>2, <1>3, PointerStarts, BlankStep, PortsKept, PointerStep, PTL DEF Spec

-----------------------------------------------------------------------------
(***************************************************************************)
(* What is known of a picture while it is drawn                            *)
(***************************************************************************)

\* What of a picture is known before it is complete: the colour of a pixel without
\* the background, and without the sprites before it.
Visible(s, pixel, foreground) ==
  /\ s.tile # 0 /\ s.foreground = foreground
  /\ Across(s, pixel) < TileSize /\ Down(s, pixel) < SpriteHeight(ctrl.tall)
  /\ Opaque(SpriteDot(s, pixel))

Showing(sprites, foreground, pixel) ==
  IF mask.sprites THEN {n \in DOMAIN sprites : Visible(sprites[n], pixel, foreground)} ELSE {}

FirstOf(sprites, set, pixel) == SpriteColor(Min(set), SpriteDot(sprites[Min(set)], pixel))

BehindOf(sprites, pixel) ==
  IF Showing(sprites, FALSE, pixel) # {}
  THEN FirstOf(sprites, Showing(sprites, FALSE, pixel), pixel) ELSE Backdrop

Behind(pixel) == BehindOf(sprites_, pixel)

Scanned(pixel) ==
  LET tile == DirectTile(pixel)
  IN IF TransparentTile(ctrl.table, tile.ptr, tile.dot) THEN Behind(pixel)
     ELSE TileColor(ctrl.table, tile.ptr, tile.dot, tile.palette)

\* The pixels the beam has come to.
Reached(pixel) ==
  \/ pixel[2] < scanline_
  \/ pixel[2] = scanline_ /\ pixel[1] <= cycle_

\* From the moment the blank begins to the start of the picture.
BlankBegun ==
  \/ scanline_ > VblankLine
  \/ scanline_ = VblankLine /\ cycle_ >= 1

IsBuffer(buffer) == buffer = [pixel \in Pixels |-> buffer[pixel]]

BuffersInv ==
  /\ draw_buffer_index_ \in 0 .. 1
  /\ offscreen_ = [b \in 0 .. 1 |-> offscreen_[b]]
  /\ IsBuffer(offscreen_[0]) /\ IsBuffer(offscreen_[1])
  /\ sprites_ \in Seq(Sprites)
  /\ game \in DOMAIN Games

\* While the program leaves the PPU alone the tables are those it selected.
TablesInv ==
  steady =>
    /\ cached_nametable_address_ = nametable_base_address(ctrl.nametable)
    /\ cached_patterntable_address = ctrl.table
    /\ is_rendering_scanline => line_base = nametable_base_address(ctrl.nametable)

\* The buffer drawn into holds the sprites behind the picture once the blank begins,
\* and the background over them wherever the beam has come; the one shown holds it all.
CanvasInv ==
  steady /\ mask.background =>
    /\ BlankBegun =>
         \A pixel \in Pixels : Canvas[pixel] = Shaded(pixel, Behind(pixel))
    /\ is_rendering_scanline /\ ~check_rendering_falling_edge =>
         \A pixel \in Pixels :
           Canvas[pixel] = Shaded(pixel, IF Reached(pixel) THEN Scanned(pixel)
                                         ELSE Behind(pixel))
    /\ check_rendering_falling_edge =>
         \A pixel \in Pixels :
           offscreen_[1 - draw_buffer_index_][pixel] = Shaded(pixel, Composed(pixel))

PictureInv == BuffersInv /\ TablesInv /\ CanvasInv

-----------------------------------------------------------------------------
(***************************************************************************)
(* Sprites over each other                                                 *)
(***************************************************************************)

\* Any set of numbers that is not empty has a least one.
LEMMA NatOrder ==
  ASSUME NEW m \in Nat, NEW n \in Nat, m < n PROVE <<m, n>> \in OpToRel(<, Nat)
BY DEF OpToRel

LEMMA LeastNumber ==
  ASSUME NEW S, S \subseteq Nat, S # {} PROVE \E n \in S : \A m \in S : n <= m
<1>1. PICK n \in S : \A m \in S : ~ (<<m, n>> \in OpToRel(<, Nat))
  BY NatLessThanWellFounded, WFMin
<1>2. \A m \in S : ~ (m < n)
  BY <1>1, NatOrder
<1>3. QED
  BY <1>2

LEMMA MinIsLeast ==
  ASSUME NEW S, S \subseteq Nat, S # {} PROVE Min(S) \in S /\ \A m \in S : Min(S) <= m
BY LeastNumber DEF Min

\* A set with zero and the successor of each of its members has every number: what
\* holds of zero and of each number's successor if of the number, as a set.
LEMMA Counted ==
  ASSUME NEW S, 0 \in S, \A n \in Nat : n \in S => n + 1 \in S
  PROVE  Nat \subseteq S
<1> SUFFICES ASSUME Nat \ S # {}
             PROVE  FALSE
  OBVIOUS
<1>1. PICK n \in Nat \ S : \A m \in Nat \ S : n <= m
  BY LeastNumber
<1>2. n - 1 \in Nat /\ n - 1 \in S
  BY <1>1
<1>3. QED
  BY <1>1, <1>2

\* The fold takes the sprite in front away from a set of them and draws it over the
\* others.  There is a function that does so for every set of the last n sprites...
Folded(sprites, foreground, buffer, sets, f) ==
  f = [s \in sets |-> IF s = {} THEN buffer
                      ELSE SpriteOver(sprites, foreground, Min(s), f[s \ {Min(s)}])]

LEMMA FoldExists ==
  ASSUME NEW sprites, NEW foreground, NEW buffer, NEW last \in Nat
  PROVE  \E f : Folded(sprites, foreground, buffer, SUBSET (1 .. last), f)
<1> DEFINE Sets(n) == SUBSET (last - n + 1 .. last)
           Over(i, b) == SpriteOver(sprites, foreground, i, b)
           F(n, f) == f = [s \in Sets(n) |-> IF s = {} THEN buffer
                                             ELSE Over(Min(s), f[s \ {Min(s)}])]
           Done == {n \in Nat : n <= last => \E f : F(n, f)}
<1> HIDE DEF Over, F
<1>1. 0 \in Done
  <2> DEFINE f == [s \in Sets(0) |-> buffer]
  <2>1. Sets(0) = {{}}
    OBVIOUS
  <2>2. f = [s \in Sets(0) |-> IF s = {} THEN buffer ELSE Over(Min(s), f[s \ {Min(s)}])]
    BY <2>1
  <2>3. QED
    BY <2>2 DEF F
<1>2. ASSUME NEW n \in Nat, n \in Done
      PROVE  n + 1 \in Done
  <2> SUFFICES ASSUME n + 1 <= last
               PROVE  \E f : F(n + 1, f)
    OBVIOUS
  <2>1. PICK f : F(n, f)
    BY <1>2
  <2> DEFINE Rest(s) == s \ {Min(s)}
             g == [s \in Sets(n + 1) |-> IF s = {} THEN buffer ELSE Over(Min(s), f[Rest(s)])]
  <2>2. ASSUME NEW s \in Sets(n + 1), s # {}
        PROVE  Rest(s) \in Sets(n) /\ Rest(s) \in Sets(n + 1)
    <3>1. s \subseteq Nat /\ \A i \in s : i \in Nat /\ i >= last - n /\ i <= last
      BY <2>2
    <3>2. Min(s) \in s /\ \A i \in s : Min(s) <= i
      BY <2>2, <3>1, MinIsLeast
    <3>3. \A i \in Rest(s) : i \in last - n + 1 .. last
      <4> TAKE i \in Rest(s)
      <4>1. i \in s /\ i # Min(s)
        OBVIOUS
      <4> DEFINE least == Min(s)
      <4>2. /\ i \in Nat /\ i <= last /\ least \in Nat /\ least >= last - n
            /\ least <= i /\ i # least
        BY <3>1, <3>2, <4>1
      <4> HIDE DEF least
      <4>3. QED
        BY <4>2
    <3>4. QED
      BY <2>2, <3>3
  <2>3. ASSUME NEW s \in Sets(n), s \in Sets(n + 1)
        PROVE  g[s] = f[s]
    BY <2>1, <2>3 DEF F
  <2>4. ASSUME NEW s \in Sets(n + 1)
        PROVE  g[s] = IF s = {} THEN buffer ELSE Over(Min(s), g[Rest(s)])
    <3>1. CASE s = {}
      BY <3>1
    <3>2. CASE s # {}
      <4>1. g[s] = Over(Min(s), f[Rest(s)])
        BY <3>2
      <4>2. g[Rest(s)] = f[Rest(s)]
        BY <2>2, <2>3, <3>2
      <4>3. QED
        BY <3>2, <4>1, <4>2
    <3>3. QED
      BY <3>1, <3>2
  <2>5. g = [s \in Sets(n + 1) |-> g[s]]
    OBVIOUS
  <2> HIDE DEF g
  <2>6. F(n + 1, g)
    BY <2>4, <2>5 DEF F
  <2>7. QED
    BY <2>6
<1>3. \E f : F(last, f)
  <2>1. Nat \subseteq Done
    <3> HIDE DEF Done
    <3>1. QED
      BY <1>1, <1>2, Counted
  <2>2. QED
    BY <2>1
<1>4. last - last + 1 = 1
  OBVIOUS
<1>5. QED
  BY <1>3, <1>4 DEF Folded, Over, F

\* ... and drawing the sprites is what it does for all of them.
LEMMA FoldIsOne ==
  ASSUME NEW sprites, NEW foreground, NEW buffer, NEW last \in Nat, DOMAIN sprites = 1 .. last
  PROVE  \E f : /\ Folded(sprites, foreground, buffer, SUBSET (1 .. last), f)
                /\ render_sprites(sprites, foreground, buffer) = f[1 .. last]
<1> DEFINE index == [i \in DOMAIN sprites |-> i]
           Once(f) == [s \in SUBSET (DOMAIN index) |->
                         IF s = {} THEN buffer
                         ELSE SpriteOver(sprites, foreground, index[Min(s)], f[s \ {Min(s)}])]
           f == CHOOSE f : f = Once(f)
<1>1. render_sprites(sprites, foreground, buffer) = f[DOMAIN index]
  BY DEF render_sprites, FoldRightDomain, FoldRight, MapThenFoldSet
<1>2. DOMAIN index = 1 .. last /\ \A i \in 1 .. last : index[i] = i
  OBVIOUS
<1>3. \A g : Once(g) = [s \in SUBSET (1 .. last) |->
                          IF s = {} THEN buffer
                          ELSE SpriteOver(sprites, foreground, Min(s), g[s \ {Min(s)}])]
  <2>1. \A s \in SUBSET (1 .. last) : s # {} => Min(s) \in 1 .. last
    <3> TAKE s \in SUBSET (1 .. last)
    <3>1. s \subseteq Nat
      OBVIOUS
    <3>2. QED
      BY <3>1, MinIsLeast
  <2> HIDE DEF index
  <2>2. QED
    BY <1>2, <2>1
<1>4. \A g : g = Once(g) <=> Folded(sprites, foreground, buffer, SUBSET (1 .. last), g)
  BY <1>3 DEF Folded
<1> HIDE DEF Once
<1>5. f = Once(f)
  BY <1>4, FoldExists
<1>6. QED
  BY <1>1, <1>2, <1>4, <1>5

\* The buffer once the sprites from the last down to the n-th are drawn.
Layered(sprites, foreground, buffer, last, layer) ==
  /\ layer[last + 1] = buffer
  /\ \A n \in 1 .. last : layer[n] = SpriteOver(sprites, foreground, n, layer[n + 1])
  /\ render_sprites(sprites, foreground, buffer) = layer[1]

\* So the sprites are drawn one over the other.
LEMMA DrawnInLayers ==
  ASSUME NEW sprites, NEW foreground, NEW buffer, NEW last \in Nat, DOMAIN sprites = 1 .. last
  PROVE  \E layer : Layered(sprites, foreground, buffer, last, layer)
<1>1. PICK f : /\ Folded(sprites, foreground, buffer, SUBSET (1 .. last), f)
               /\ render_sprites(sprites, foreground, buffer) = f[1 .. last]
  BY FoldIsOne
<1> DEFINE layer == [n \in 1 .. last + 1 |-> f[n .. last]]
<1>2. \A s \in SUBSET (1 .. last) :
        f[s] = IF s = {} THEN buffer
               ELSE SpriteOver(sprites, foreground, Min(s), f[s \ {Min(s)}])
  BY <1>1 DEF Folded
<1>3. layer[last + 1] = buffer
  <2>1. last + 1 .. last = {} /\ last + 1 \in 1 .. last + 1
    OBVIOUS
  <2>2. QED
    BY <1>2, <2>1
<1>4. ASSUME NEW n \in 1 .. last
      PROVE  layer[n] = SpriteOver(sprites, foreground, n, layer[n + 1])
  <2>1. /\ n .. last \subseteq 1 .. last /\ n .. last # {}
        /\ n .. last \subseteq Nat /\ n \in n .. last
    OBVIOUS
  <2>2. Min(n .. last) = n
    <3>1. Min(n .. last) \in n .. last /\ Min(n .. last) <= n
      BY <2>1, MinIsLeast
    <3>2. QED
      BY <3>1
  <2>3. (n .. last) \ {n} = n + 1 .. last
    OBVIOUS
  <2>4. f[n .. last] = SpriteOver(sprites, foreground, n, f[n + 1 .. last])
    BY <1>2, <2>1, <2>2, <2>3
  <2>5. n \in 1 .. last + 1 /\ n + 1 \in 1 .. last + 1
    OBVIOUS
  <2>6. QED
    BY <2>4, <2>5
<1>5. render_sprites(sprites, foreground, buffer) = layer[1]
  BY <1>1
<1> HIDE DEF layer
<1>6. QED
  BY <1>3, <1>4, <1>5 DEF Layered

\* Of the sprites that cover a pixel the first is seen, whatever the buffer was.
Covers(sprites, foreground, n, pixel) ==
  /\ sprites[n].foreground = foreground /\ sprites[n].tile # 0
  /\ \E d \in SpriteDots(sprites[n]) : Opaque(d) /\ d.pixel = pixel

Covering(sprites, foreground, pixel) ==
  {n \in DOMAIN sprites : Covers(sprites, foreground, n, pixel)}

DotAt(s, pixel) ==
  CHOOSE d \in {e \in SpriteDots(s) : Opaque(e)} : d.pixel = pixel

\* One sprite over a buffer, and all of a layer.
LEMMA OneSpriteOver ==
  ASSUME NEW sprites, NEW foreground, NEW n, NEW buffer, IsBuffer(buffer)
  PROVE  /\ IsBuffer(SpriteOver(sprites, foreground, n, buffer))
         /\ \A pixel \in Pixels :
              SpriteOver(sprites, foreground, n, buffer)[pixel]
                = IF Covers(sprites, foreground, n, pixel)
                  THEN Shaded(pixel, SpriteColor(n, DotAt(sprites[n], pixel)))
                  ELSE buffer[pixel]
<1> DEFINE s == sprites[n]
           drawn == {d \in SpriteDots(s) : Opaque(d)}
           over == [pixel \in Pixels |->
                      IF \E d \in drawn : d.pixel = pixel
                      THEN Shaded(pixel, SpriteColor(n, DotAt(s, pixel)))
                      ELSE buffer[pixel]]
<1>1. render_sprite(s, n, buffer) = over
  BY DEF render_sprite, DotAt
<1>2. \A pixel \in Pixels :
        (\E d \in drawn : d.pixel = pixel)
          <=> \E d \in SpriteDots(s) : Opaque(d) /\ d.pixel = pixel
  OBVIOUS
<1>3. CASE s.foreground = foreground /\ s.tile # 0
  <2>1. SpriteOver(sprites, foreground, n, buffer) = over
    BY <1>1, <1>3 DEF SpriteOver
  <2>2. IsBuffer(over)
    BY DEF IsBuffer
  <2>3. \A pixel \in Pixels :
          over[pixel] = IF \E d \in drawn : d.pixel = pixel
                        THEN Shaded(pixel, SpriteColor(n, DotAt(s, pixel)))
                        ELSE buffer[pixel]
    OBVIOUS
  <2> HIDE DEF drawn, over
  <2>4. QED
    BY <1>2, <1>3, <2>1, <2>2, <2>3 DEF Covers
<1>4. CASE ~(s.foreground = foreground /\ s.tile # 0)
  BY <1>4 DEF SpriteOver, Covers
<1>5. QED
  BY <1>3, <1>4

LEMMA SpritesOver ==
  ASSUME NEW sprites, NEW foreground, NEW buffer, NEW last \in Nat, DOMAIN sprites = 1 .. last,
         IsBuffer(buffer)
  PROVE  /\ IsBuffer(render_sprites(sprites, foreground, buffer))
         /\ \A pixel \in Pixels :
              LET shown == Covering(sprites, foreground, pixel)
              IN render_sprites(sprites, foreground, buffer)[pixel]
                   = IF shown = {} THEN buffer[pixel]
                     ELSE Shaded(pixel, SpriteColor(Min(shown),
                                                    DotAt(sprites[Min(shown)], pixel)))
<1> PICK layer : Layered(sprites, foreground, buffer, last, layer)
  BY DrawnInLayers
<1>1. /\ layer[last + 1] = buffer
      /\ \A n \in 1 .. last : layer[n] = SpriteOver(sprites, foreground, n, layer[n + 1])
      /\ render_sprites(sprites, foreground, buffer) = layer[1]
  BY DEF Layered
<1> DEFINE Shown(n, pixel) == {i \in n .. last : Covers(sprites, foreground, i, pixel)}
           Color(i, pixel) == Shaded(pixel, SpriteColor(i, DotAt(sprites[i], pixel)))
           Painted(n, pixel) == IF Shown(n, pixel) = {} THEN buffer[pixel]
                                ELSE Color(Min(Shown(n, pixel)), pixel)
           Right(n) ==
             IsBuffer(layer[n]) /\ \A pixel \in Pixels : layer[n][pixel] = Painted(n, pixel)
           Done == {k \in Nat : k <= last => Right(last + 1 - k)}
<1> HIDE DEF Color
<1>2. Right(last + 1)
  <2>1. \A pixel \in Pixels : Shown(last + 1, pixel) = {}
    OBVIOUS
  <2> HIDE DEF Shown
  <2>2. QED
    BY <1>1, <2>1
<1>3. ASSUME NEW n \in 1 .. last, Right(n + 1)
      PROVE  Right(n)
  <2>1. /\ IsBuffer(layer[n])
        /\ \A pixel \in Pixels :
             layer[n][pixel] = IF Covers(sprites, foreground, n, pixel) THEN Color(n, pixel)
                               ELSE layer[n + 1][pixel]
    BY <1>1, <1>3, OneSpriteOver DEF Color
  <2>2. ASSUME NEW pixel \in Pixels
        PROVE  layer[n][pixel] = Painted(n, pixel)
    <3>1. layer[n + 1][pixel] = Painted(n + 1, pixel)
      BY <1>3
    <3>2. CASE Covers(sprites, foreground, n, pixel)
      <4>1. /\ n \in Shown(n, pixel)
            /\ Shown(n, pixel) \subseteq Nat /\ Shown(n, pixel) \subseteq n .. last
        BY <3>2
      <4> DEFINE least == Min(Shown(n, pixel))
      <4>2. least \in Shown(n, pixel) /\ least <= n
        <5> HIDE DEF Shown
        <5>1. QED
          BY <4>1, MinIsLeast
      <4>3. least \in n .. last /\ Shown(n, pixel) # {}
        BY <4>1, <4>2
      <4>4. least = n
        <5> HIDE DEF least
        <5>1. QED
          BY <4>2, <4>3
      <4>5. Painted(n, pixel) = Color(n, pixel)
        <5> HIDE DEF Shown
        <5>1. QED
          BY <4>3, <4>4
      <4>6. QED
        BY <2>1, <3>2, <4>5
    <3>3. CASE ~Covers(sprites, foreground, n, pixel)
      <4>1. Shown(n, pixel) = Shown(n + 1, pixel)
        <5>1. \A i : i \in n .. last <=> i = n \/ i \in n + 1 .. last
          OBVIOUS
        <5>2. QED
          BY <3>3, <5>1
      <4> HIDE DEF Shown
      <4>2. QED
        BY <2>1, <3>1, <3>3, <4>1
    <3>4. QED
      BY <3>2, <3>3
  <2> HIDE DEF Painted
  <2>3. QED
    BY <2>1, <2>2
<1> HIDE DEF Right
<1>4. Right(1)
  <2>1. 0 \in Done
    <3>1. last + 1 - 0 = last + 1
      OBVIOUS
    <3>2. QED
      BY <1>2, <3>1
  <2>2. ASSUME NEW k \in Nat, k \in Done
        PROVE  k + 1 \in Done
    <3> SUFFICES ASSUME k + 1 <= last
                 PROVE  Right(last + 1 - (k + 1))
      OBVIOUS
    <3> DEFINE n == last - k
    <3>1. n \in 1 .. last /\ n + 1 = last + 1 - k /\ n = last + 1 - (k + 1) /\ k <= last
      OBVIOUS
    <3> HIDE DEF n
    <3>2. Right(n + 1)
      BY <2>2, <3>1
    <3>3. QED
      BY <1>3, <3>1, <3>2
  <2>3. Nat \subseteq Done
    <3> HIDE DEF Done
    <3>1. QED
      BY <2>1, <2>2, Counted
  <2>4. last + 1 - last = 1
    OBVIOUS
  <2>5. QED
    BY <2>3, <2>4
<1>5. \A pixel \in Pixels : Shown(1, pixel) = Covering(sprites, foreground, pixel)
  BY DEF Covering
<1> HIDE DEF Shown
<1>6. QED
  BY <1>1, <1>4, <1>5 DEF Right, Color

\* Positions wrap around: where a dot so far from the left or upper edge lands.
LEMMA Wraps ==
  ASSUME NEW n \in Int, NEW p \in Int, 0 <= p, p < Width,
         NEW a \in Int, 0 <= a, a < Width
  PROVE  (n + p) % Width = a <=> p = (a - n) % Width
<1> DEFINE w == Width
           m1 == n + p
           m2 == a - n
<1>1. w \in Int /\ w > 0 /\ p < w /\ a < w
  BY Sizes
<1>2. m1 \in Int /\ m2 \in Int /\ m1 = n + p /\ m2 = a - n
  OBVIOUS
<1> HIDE DEF w, m1, m2
<1>3. ASSUME m1 % w = a PROVE m2 % w = p
  <2>1. PICK q \in Int : m1 = w * q + a
    BY <1>1, <1>2, <1>3, Divides
  <2>2. w * (-q) = -(w * q) /\ w * q \in Int
    BY <1>1
  <2>3. PICK r \in Int : r = -q
    OBVIOUS
  <2>4. m2 = w * r + p
    BY <1>1, <1>2, <2>1, <2>2, <2>3
  <2>5. m2 \div w = r /\ m2 % w = p
    BY <1>1, <1>2, <2>4, Divided
  <2>6. QED
    BY <2>5
<1>4. ASSUME m2 % w = p PROVE m1 % w = a
  <2>1. PICK q \in Int : m2 = w * q + p
    BY <1>1, <1>2, <1>4, Divides
  <2>2. w * (-q) = -(w * q) /\ w * q \in Int
    BY <1>1
  <2>3. PICK r \in Int : r = -q
    OBVIOUS
  <2>4. m1 = w * r + a
    BY <1>1, <1>2, <2>1, <2>2, <2>3
  <2>5. m1 \div w = r /\ m1 % w = a
    BY <1>1, <1>2, <2>4, Divided
  <2>6. QED
    BY <2>5
<1>5. QED
  BY <1>3, <1>4 DEF w, m1, m2

\* How far down a sprite its first or second tile begins.
TileLine(s, k) == IF ctrl.tall /\ (k = 0 <=> s.flip_vertical) THEN TileSize ELSE 0

\* A tall sprite is no higher than the range of its position.
LEMMA SpriteSizes ==
  /\ TileSize \in Int /\ TileSize >= 1 /\ Width \in Int
  /\ TileSize <= Width /\ 2 * TileSize <= Width
<1>1. TileSize \in Int /\ TileSize >= 1 /\ TilesWide \in Int /\ TilesWide >= 2
  BY SizesAssumption, PictureAssumption
<1>2. (TilesWide - 2) * TileSize >= 0
  <2>1. \A m, n \in Int : m >= 0 /\ n >= 0 => m * n >= 0
    OBVIOUS
  <2>2. QED
    BY <1>1, <2>1
<1>3. TilesWide * TileSize \in Int /\ TilesWide * TileSize >= 2 * TileSize
  BY <1>1, <1>2
<1>4. QED
  BY <1>1, <1>3 DEF Width

LEMMA TilesOfSprite ==
  ASSUME NEW s \in Sprites, NEW t
  PROVE  t \in SpriteTiles(s) <=>
           \E k \in {0, 1} : /\ k = 0 \/ ctrl.tall
                             /\ t = <<s.tile + k, s.y + TileLine(s, k)>>
<1>1. s.tile \in Int /\ s.y \in Int /\ s.flip_vertical \in BOOLEAN
  BY ByteRange DEF Sprites
<1>2. s.tile + 0 = s.tile /\ s.y + 0 = s.y
  BY <1>1
<1>3. CASE ~ctrl.tall
  <2>1. TileLine(s, 0) = 0 /\ SpriteTiles(s) = {<<s.tile, s.y>>}
    BY <1>3 DEF SpriteTiles, TileLine
  <2>2. QED
    BY <1>2, <1>3, <2>1
<1>4. CASE ctrl.tall /\ s.flip_vertical
  <2>1. /\ TileLine(s, 0) = TileSize /\ TileLine(s, 1) = 0
        /\ SpriteTiles(s) = {<<s.tile, s.y + TileSize>>, <<s.tile + 1, s.y>>}
    BY <1>4 DEF SpriteTiles, TileLine
  <2>2. QED
    BY <1>2, <1>4, <2>1
<1>5. CASE ctrl.tall /\ ~s.flip_vertical
  <2>1. /\ TileLine(s, 0) = 0 /\ TileLine(s, 1) = TileSize
        /\ SpriteTiles(s) = {<<s.tile, s.y>>, <<s.tile + 1, s.y + TileSize>>}
    BY <1>5 DEF SpriteTiles, TileLine
  <2>2. QED
    BY <1>2, <1>5, <2>1
<1>6. QED
  BY <1>3, <1>4, <1>5

\* The rows of a sprite, flipped as a whole, are those of its tiles.
RowOfSprite(s, down) ==
  IF s.flip_vertical THEN SpriteHeight(ctrl.tall) - 1 - down ELSE down

LEMMA FlippedInTile ==
  ASSUME NEW p \in 0 .. TileSize - 1, NEW flip \in BOOLEAN
  PROVE  Flipped(p, flip) \in Int /\ 0 <= Flipped(p, flip) /\ Flipped(p, flip) < TileSize
BY SpriteSizes DEF Flipped

LEMMA RowsOfTile ==
  ASSUME NEW s \in Sprites, NEW k \in {0, 1}, k = 0 \/ ctrl.tall,
         NEW p \in 0 .. TileSize - 1
  PROVE  LET down == TileLine(s, k) + p
         IN /\ down \in Int /\ 0 <= down /\ down < SpriteHeight(ctrl.tall)
            /\ RowOfSprite(s, down) \div TileSize = k
            /\ RowOfSprite(s, down) % TileSize = Flipped(p, s.flip_vertical)
<1> DEFINE down == TileLine(s, k) + p
           row == RowOfSprite(s, down)
           r == Flipped(p, s.flip_vertical)
<1>1. s.flip_vertical \in BOOLEAN
  BY DEF Sprites
<1>2. /\ TileSize \in Int /\ TileSize >= 1 /\ p \in Int /\ 0 <= p /\ p < TileSize
      /\ r \in Int /\ 0 <= r /\ r < TileSize
  BY <1>1, SpriteSizes, FlippedInTile
<1>3. down \in Int /\ 0 <= down /\ down < SpriteHeight(ctrl.tall)
  BY <1>2 DEF TileLine, SpriteHeight
<1>4. row = TileSize * k + r
  <2>1. CASE ~ctrl.tall
    BY <1>1, <1>2, <2>1 DEF TileLine, SpriteHeight, RowOfSprite, Flipped
  <2>2. CASE ctrl.tall /\ k = 0
    BY <1>1, <1>2, <2>2 DEF TileLine, SpriteHeight, RowOfSprite, Flipped
  <2>3. CASE ctrl.tall /\ k = 1
    BY <1>1, <1>2, <2>3 DEF TileLine, SpriteHeight, RowOfSprite, Flipped
  <2>4. QED
    BY <2>1, <2>2, <2>3
<1> HIDE DEF row, r, down
<1>5. row \div TileSize = k /\ row % TileSize = r
  <2>1. row \in Int /\ k \in Int
    BY <1>2, <1>4
  <2>2. QED
    BY <1>2, <1>4, <2>1, Divided
<1>6. QED
  BY <1>3, <1>5 DEF row, r, down

\* Only one dot of a sprite can lie on a pixel, the one counted across and down.
DotOnto(s, p, k) ==
  [pixel |-> <<(s.x + p[1]) % Width, (s.y + TileLine(s, k) + p[2] + 1) % Width>>,
   tile |-> s.tile + k,
   dot |-> <<Flipped(p[1], s.flip_horizontal), Flipped(p[2], s.flip_vertical)>>]

LEMMA DotsOfSprite ==
  ASSUME NEW s \in Sprites, NEW d
  PROVE  d \in SpriteDots(s) <=>
           \E p \in Dots : \E k \in {0, 1} : (k = 0 \/ ctrl.tall) /\ d = DotOnto(s, p, k)
<1> DEFINE Dot(p, t) ==
             [pixel |-> <<(s.x + p[1]) % Width, (t[2] + p[2] + 1) % Width>>,
              tile |-> t[1],
              dot |-> <<Flipped(p[1], s.flip_horizontal), Flipped(p[2], s.flip_vertical)>>]
           Tile(k) == <<s.tile + k, s.y + TileLine(s, k)>>
<1>1. SpriteDots(s) = {Dot(p, t) : p \in Dots, t \in SpriteTiles(s)}
  BY DEF SpriteDots
<1>2. \A p, k : Dot(p, Tile(k)) = DotOnto(s, p, k)
  BY DEF DotOnto
<1> HIDE DEF Dot, Tile
<1>3. d \in SpriteDots(s) <=> \E p \in Dots : \E t \in SpriteTiles(s) : d = Dot(p, t)
  BY <1>1
<1>4. \A t : t \in SpriteTiles(s) <=> \E k \in {0, 1} : (k = 0 \/ ctrl.tall) /\ t = Tile(k)
  BY TilesOfSprite DEF Tile
<1>5. QED
  BY <1>2, <1>3, <1>4

\* The pixel a dot lands on, by column and by line.
LEMMA ColumnOfDot ==
  ASSUME NEW s \in Sprites, NEW pixel \in Pixels, NEW p \in 0 .. TileSize - 1
  PROVE  (s.x + p) % Width = pixel[1] <=> p = Across(s, pixel)
<1>1. /\ s.x \in Int /\ p \in Int /\ 0 <= p /\ p < Width
      /\ pixel[1] \in Int /\ 0 <= pixel[1] /\ pixel[1] < Width
  BY ByteRange, SpriteSizes DEF Sprites, Pixels
<1>2. QED
  BY <1>1, Wraps DEF Across

LEMMA PixelLine ==
  ASSUME NEW pixel \in Pixels PROVE pixel[2] \in Int /\ 0 <= pixel[2] /\ pixel[2] < Width
<1>1. Height <= Width
  <2>1. TileSize * (TilesWide - TilesHigh) >= 0
    <3>1. \A m, n \in Int : m >= 0 /\ n >= 0 => m * n >= 0
      OBVIOUS
    <3>2. TilesWide - TilesHigh >= 0 /\ TilesWide \in Int /\ TilesHigh \in Int
      BY SizesAssumption
    <3>3. QED
      BY <3>1, <3>2, SpriteSizes
  <2>2. TilesWide \in Int /\ TilesHigh \in Int
    BY SizesAssumption
  <2>3. QED
    BY <2>1, <2>2, SpriteSizes DEF Width, Height
<1>2. Height \in Int /\ Width \in Int
  BY Sizes
<1>3. QED
  BY <1>1, <1>2 DEF Pixels

LEMMA LineOfDot ==
  ASSUME NEW s \in Sprites, NEW pixel \in Pixels, NEW down \in Int,
         0 <= down, down < SpriteHeight(ctrl.tall)
  PROVE  (s.y + down + 1) % Width = pixel[2] <=> down = Down(s, pixel)
<1> DEFINE n == s.y + 1
           a == pixel[2]
<1>1. s.y \in Int /\ n \in Int /\ down < Width
  BY ByteRange, SpriteSizes DEF Sprites, SpriteHeight
<1>2. a \in Int /\ 0 <= a /\ a < Width
  BY PixelLine
<1>3. s.y + down + 1 = n + down /\ a - s.y - 1 = a - n
  BY <1>1, <1>2
<1> HIDE DEF n, a
<1>4. (n + down) % Width = a <=> down = (a - n) % Width
  BY <1>1, <1>2, Wraps
<1>5. QED
  BY <1>3, <1>4 DEF Down, a

LEMMA DotLands ==
  ASSUME NEW s \in Sprites, NEW pixel \in Pixels, NEW p \in Dots,
         NEW k \in {0, 1}, k = 0 \/ ctrl.tall
  PROVE  DotOnto(s, p, k).pixel = pixel <=>
           /\ p[1] = Across(s, pixel)
           /\ TileLine(s, k) + p[2] = Down(s, pixel)
<1> DEFINE down == TileLine(s, k) + p[2]
<1>1. p[1] \in 0 .. TileSize - 1 /\ p[2] \in 0 .. TileSize - 1
  BY DEF Dots
<1>2. /\ s.y \in Int /\ TileLine(s, k) \in Int /\ p[2] \in Int
      /\ down \in Int /\ 0 <= down /\ down < SpriteHeight(ctrl.tall)
  BY <1>1, ByteRange, SpriteSizes, RowsOfTile DEF Sprites, TileLine
<1>3. s.y + TileLine(s, k) + p[2] + 1 = s.y + down + 1
  BY <1>2
<1>4. DotOnto(s, p, k).pixel = <<(s.x + p[1]) % Width, (s.y + down + 1) % Width>>
  BY <1>3 DEF DotOnto
<1> HIDE DEF down
<1>5. (s.x + p[1]) % Width = pixel[1] <=> p[1] = Across(s, pixel)
  BY <1>1, ColumnOfDot
<1>6. (s.y + down + 1) % Width = pixel[2] <=> down = Down(s, pixel)
  BY <1>2, LineOfDot
<1>7. pixel = <<pixel[1], pixel[2]>>
  BY DEF Pixels
<1>8. QED
  BY <1>4, <1>5, <1>6, <1>7 DEF down

\* Every line of a sprite is one of its first or of its second tile.
LEMMA RowBounds ==
  ASSUME NEW s \in Sprites, NEW down \in Int, 0 <= down, down < SpriteHeight(ctrl.tall)
  PROVE  \E k \in {0, 1} : \E q \in 0 .. TileSize - 1 :
           (k = 0 \/ ctrl.tall) /\ TileLine(s, k) + q = down
<1>1. TileSize \in Int /\ TileSize >= 1 /\ s.flip_vertical \in BOOLEAN
  BY SpriteSizes DEF Sprites
<1>2. CASE down < TileSize /\ ~(ctrl.tall /\ s.flip_vertical)
  <2>1. TileLine(s, 0) = 0
    BY <1>2 DEF TileLine
  <2>2. down \in 0 .. TileSize - 1 /\ TileLine(s, 0) + down = down
    BY <1>1, <1>2, <2>1
  <2>3. QED
    BY <2>2
<1>3. CASE down < TileSize /\ ctrl.tall /\ s.flip_vertical
  <2>1. TileLine(s, 1) = 0
    BY <1>3 DEF TileLine
  <2>2. down \in 0 .. TileSize - 1 /\ TileLine(s, 1) + down = down
    BY <1>1, <1>3, <2>1
  <2>3. QED
    BY <1>3, <2>2
<1>4. CASE down >= TileSize /\ s.flip_vertical
  <2>1. ctrl.tall /\ down < 2 * TileSize
    BY <1>1, <1>4 DEF SpriteHeight
  <2>2. TileLine(s, 0) = TileSize
    BY <1>4, <2>1 DEF TileLine
  <2> DEFINE q == down - TileSize
  <2>3. q \in 0 .. TileSize - 1 /\ TileLine(s, 0) + q = down
    BY <1>1, <1>4, <2>1, <2>2
  <2>4. QED
    BY <2>3
<1>5. CASE down >= TileSize /\ ~s.flip_vertical
  <2>1. ctrl.tall /\ down < 2 * TileSize
    BY <1>1, <1>5 DEF SpriteHeight
  <2>2. TileLine(s, 1) = TileSize
    BY <1>5, <2>1 DEF TileLine
  <2> DEFINE q == down - TileSize
  <2>3. q \in 0 .. TileSize - 1 /\ TileLine(s, 1) + q = down
    BY <1>1, <1>5, <2>1, <2>2
  <2>4. QED
    BY <2>1, <2>3
<1>6. QED
  BY <1>1, <1>2, <1>3, <1>4, <1>5

LEMMA CountedFrom ==
  ASSUME NEW s \in Sprites, NEW pixel \in Pixels
  PROVE  /\ Across(s, pixel) \in Int /\ 0 <= Across(s, pixel)
         /\ Down(s, pixel) \in Int /\ 0 <= Down(s, pixel)
<1>1. /\ pixel[1] \in Int /\ pixel[2] \in Int /\ s.x \in Int /\ s.y \in Int
      /\ Width \in Int /\ Width >= 1
  BY ByteRange, Sizes, SpriteSizes, PixelLine DEF Sprites, Pixels
<1> DEFINE across == pixel[1] - s.x
           down == pixel[2] - s.y - 1
<1>2. across \in Int /\ down \in Int
  BY <1>1
<1> HIDE DEF across, down
<1>3. across % Width \in Int /\ 0 <= across % Width /\ down % Width \in Int /\ 0 <= down % Width
  BY <1>1, <1>2, Divides
<1>4. QED
  BY <1>3 DEF Across, Down, across, down

\* The sprite lies on the pixel.
LiesOn(s, pixel) == Across(s, pixel) < TileSize /\ Down(s, pixel) < SpriteHeight(ctrl.tall)

\* The dot that lies on a pixel is the one counted across and down.
LEMMA DotCounted ==
  ASSUME NEW s \in Sprites, NEW pixel \in Pixels, NEW p \in Dots,
         NEW k \in {0, 1}, k = 0 \/ ctrl.tall, DotOnto(s, p, k).pixel = pixel
  PROVE  LiesOn(s, pixel) /\ DotOnto(s, p, k) = SpriteDot(s, pixel)
<1>1. p[1] \in 0 .. TileSize - 1 /\ p[2] \in 0 .. TileSize - 1
  BY DEF Dots
<1>2. p[1] = Across(s, pixel) /\ TileLine(s, k) + p[2] = Down(s, pixel)
  BY DotLands
<1> DEFINE down == Down(s, pixel)
           row == RowOfSprite(s, down)
<1>3. /\ down < SpriteHeight(ctrl.tall)
      /\ row \div TileSize = k /\ row % TileSize = Flipped(p[2], s.flip_vertical)
  BY <1>1, <1>2, RowsOfTile
<1>4. LiesOn(s, pixel)
  BY <1>1, <1>2, <1>3, SpriteSizes DEF LiesOn
<1> DEFINE column == IF s.flip_horizontal THEN TileSize - 1 - Across(s, pixel)
                     ELSE Across(s, pixel)
<1>5. column = Flipped(p[1], s.flip_horizontal)
  BY <1>1, <1>2, SpriteSizes DEF Flipped
<1>6. SpriteDot(s, pixel) = [pixel |-> pixel, tile |-> s.tile + row \div TileSize,
                             dot |-> <<column, row % TileSize>>]
  BY DEF SpriteDot, RowOfSprite
<1> HIDE DEF row, column
<1>7. SpriteDot(s, pixel) = DotOnto(s, p, k)
  BY <1>3, <1>5, <1>6 DEF DotOnto
<1>8. QED
  BY <1>4, <1>7

LEMMA DotOnPixel ==
  ASSUME NEW s \in Sprites, NEW pixel \in Pixels, NEW d
  PROVE  d \in SpriteDots(s) /\ d.pixel = pixel <=>
           LiesOn(s, pixel) /\ d = SpriteDot(s, pixel)
<1>1. ASSUME d \in SpriteDots(s), d.pixel = pixel
      PROVE  LiesOn(s, pixel) /\ d = SpriteDot(s, pixel)
  <2>1. PICK p \in Dots : \E k \in {0, 1} : (k = 0 \/ ctrl.tall) /\ d = DotOnto(s, p, k)
    BY <1>1, DotsOfSprite
  <2>2. PICK k \in {0, 1} : (k = 0 \/ ctrl.tall) /\ d = DotOnto(s, p, k)
    BY <2>1
  <2>3. QED
    BY <1>1, <2>2, DotCounted
<1>2. ASSUME LiesOn(s, pixel), d = SpriteDot(s, pixel)
      PROVE  d \in SpriteDots(s) /\ d.pixel = pixel
  <2>1. PICK k \in {0, 1} : \E q \in 0 .. TileSize - 1 :
               (k = 0 \/ ctrl.tall) /\ TileLine(s, k) + q = Down(s, pixel)
    BY <1>2, CountedFrom, RowBounds DEF LiesOn
  <2>2. PICK q \in 0 .. TileSize - 1 :
               (k = 0 \/ ctrl.tall) /\ TileLine(s, k) + q = Down(s, pixel)
    BY <2>1
  <2> DEFINE p == <<Across(s, pixel), q>>
  <2>3. p \in Dots /\ p[1] = Across(s, pixel) /\ p[2] = q
    BY <1>2, CountedFrom, SpriteSizes DEF LiesOn, Dots
  <2> HIDE DEF p
  <2>4. DotOnto(s, p, k).pixel = pixel
    BY <2>2, <2>3, DotLands
  <2>5. d = DotOnto(s, p, k)
    BY <1>2, <2>2, <2>3, <2>4, DotCounted
  <2>6. QED
    BY <2>2, <2>3, <2>4, <2>5, DotsOfSprite
<1>3. QED
  BY <1>1, <1>2

\* So a sprite covers the pixels it shows on, in the colour of that dot.
LEMMA SpriteShows ==
  ASSUME NEW sprites \in Seq(Sprites), NEW foreground, NEW n \in DOMAIN sprites,
         NEW pixel \in Pixels
  PROVE  /\ Covers(sprites, foreground, n, pixel) <=> Visible(sprites[n], pixel, foreground)
         /\ Visible(sprites[n], pixel, foreground) =>
              DotAt(sprites[n], pixel) = SpriteDot(sprites[n], pixel)
<1> DEFINE s == sprites[n]
           dot == SpriteDot(s, pixel)
<1>1. s \in Sprites
  OBVIOUS
<1>2. \A d : d \in SpriteDots(s) /\ d.pixel = pixel <=> LiesOn(s, pixel) /\ d = dot
  BY <1>1, DotOnPixel
<1>3. Visible(s, pixel, foreground) <=>
        /\ s.tile # 0 /\ s.foreground = foreground
        /\ LiesOn(s, pixel) /\ Opaque(dot)
  BY DEF Visible, LiesOn
<1>4. Covers(sprites, foreground, n, pixel) <=>
        /\ s.foreground = foreground /\ s.tile # 0
        /\ \E d \in SpriteDots(s) : Opaque(d) /\ d.pixel = pixel
  BY DEF Covers
<1> HIDE DEF s, dot
<1>5. (\E d \in SpriteDots(s) : Opaque(d) /\ d.pixel = pixel) <=> LiesOn(s, pixel) /\ Opaque(dot)
  BY <1>2
<1>6. ASSUME LiesOn(s, pixel), Opaque(dot) PROVE DotAt(s, pixel) = dot
  BY <1>2, <1>6 DEF DotAt
<1>7. QED
  BY <1>3, <1>4, <1>5, <1>6 DEF s, dot

\* A layer of sprites shows the first of those that lie on a pixel.
LEMMA LayerShown ==
  ASSUME NEW sprites \in Seq(Sprites), NEW foreground, NEW buffer, IsBuffer(buffer),
         mask.sprites
  PROVE  /\ IsBuffer(render_sprites(sprites, foreground, buffer))
         /\ \A pixel \in Pixels :
              render_sprites(sprites, foreground, buffer)[pixel]
                = IF Showing(sprites, foreground, pixel) # {}
                  THEN Shaded(pixel, FirstOf(sprites, Showing(sprites, foreground, pixel), pixel))
                  ELSE buffer[pixel]
<1> DEFINE drawn == render_sprites(sprites, foreground, buffer)
           First(shown, pixel) ==
             Shaded(pixel, SpriteColor(Min(shown), DotAt(sprites[Min(shown)], pixel)))
<1>1. Len(sprites) \in Nat /\ DOMAIN sprites = 1 .. Len(sprites)
  OBVIOUS
<1>2. /\ IsBuffer(drawn)
      /\ \A pixel \in Pixels :
           drawn[pixel] = IF Covering(sprites, foreground, pixel) = {} THEN buffer[pixel]
                          ELSE First(Covering(sprites, foreground, pixel), pixel)
  BY <1>1, SpritesOver
<1> HIDE DEF drawn
<1>3. ASSUME NEW pixel \in Pixels
      PROVE  drawn[pixel] = IF Showing(sprites, foreground, pixel) # {}
               THEN Shaded(pixel, FirstOf(sprites, Showing(sprites, foreground, pixel), pixel))
               ELSE buffer[pixel]
  <2> DEFINE shown == Showing(sprites, foreground, pixel)
  <2>1. shown = {n \in DOMAIN sprites : Visible(sprites[n], pixel, foreground)}
    BY DEF Showing
  <2>2. Covering(sprites, foreground, pixel) = shown
    BY <2>1, SpriteShows DEF Covering
  <2>3. CASE shown # {}
    <3>1. shown \subseteq Nat
      BY <1>1, <2>1
    <3>2. Min(shown) \in shown
      BY <2>3, <3>1, MinIsLeast
    <3>3. DotAt(sprites[Min(shown)], pixel) = SpriteDot(sprites[Min(shown)], pixel)
      BY <2>1, <3>2, SpriteShows
    <3> HIDE DEF shown
    <3>4. First(shown, pixel) = Shaded(pixel, FirstOf(sprites, shown, pixel))
      BY <3>3 DEF FirstOf
    <3> HIDE DEF First
    <3>5. QED
      BY <1>2, <2>2, <2>3, <3>4 DEF shown
  <2>4. CASE shown = {}
    BY <1>2, <2>2, <2>4
  <2>5. QED
    BY <2>3, <2>4
<1>4. QED
  BY <1>2, <1>3 DEF drawn

-----------------------------------------------------------------------------
(***************************************************************************)
(* The background of a pixel                                               *)
(***************************************************************************)

\* Dividing twice is dividing by the product.
LEMMA DividedTwice ==
  ASSUME NEW m \in Int, NEW b \in Int, b > 0, NEW c \in Int, c > 0
  PROVE  (m \div b) \div c = m \div (c * b)
<1> DEFINE q1 == m \div b
           r1 == m % b
           q2 == q1 \div c
           r2 == q1 % c
           product == c * b
           rest == b * r2 + r1
<1>1. q1 \in Int /\ r1 \in Int /\ m = b * q1 + r1 /\ 0 <= r1 /\ r1 < b
  BY Divides
<1> HIDE DEF q1, r1
<1>2. q2 \in Int /\ r2 \in Int /\ q1 = c * q2 + r2 /\ 0 <= r2 /\ r2 < c
  BY <1>1, Divides
<1> HIDE DEF q2, r2
<1>3. product \in Int /\ product > 0
  <2>1. \A i, j \in Int : i > 0 /\ j > 0 => i * j \in Int /\ i * j > 0
    OBVIOUS
  <2>2. QED
    BY <2>1
<1>4. rest \in Int /\ 0 <= rest /\ rest < product
  <2>1. b * r2 \in Int /\ b * r2 >= 0
    BY <1>2
  <2>2. b * (c - 1 - r2) >= 0
    BY <1>2
  <2>3. b * (c - 1 - r2) = product - b - b * r2
    BY <1>2
  <2> HIDE DEF product
  <2>4. QED
    BY <1>1, <1>3, <2>1, <2>2, <2>3
<1>5. m = product * q2 + rest
  <2>1. b * q1 = b * (c * q2) + b * r2
    BY <1>2
  <2>2. b * (c * q2) = product * q2
    BY <1>2
  <2>3. QED
    BY <1>1, <1>2, <2>1, <2>2
<1> HIDE DEF product, rest
<1>6. m \div product = q2 /\ m % product = rest
  BY <1>2, <1>3, <1>4, <1>5, Divided
<1>7. QED
  BY <1>6 DEF product, q2, q1

LEMMA AttributeSizes ==
  \E half \in Int : half >= 1 /\ AttributeTiles = 2 * half /\ AttributeTiles \div 2 = half
<1>1. AttributeTiles \in Int /\ AttributeTiles > 0 /\ AttributeTiles % 2 = 0
  BY PictureAssumption
<1>2. QED
  BY <1>1

\* The second half of the tiles that share an attribute byte.
LEMMA SecondHalf ==
  ASSUME NEW tile \in Int
  PROVE  tile % AttributeTiles >= AttributeTiles \div 2
           <=> (tile \div (AttributeTiles \div 2)) % 2 = 1
<1>1. PICK half \in Int : half >= 1 /\ AttributeTiles = 2 * half /\ AttributeTiles \div 2 = half
  BY AttributeSizes
<1> DEFINE q == tile \div half
           r == tile % half
           q2 == q \div 2
           bit == q % 2
           rest == half * bit + r
           size == 2 * half
<1>2. q \in Int /\ r \in Int /\ tile = half * q + r /\ 0 <= r /\ r < half
  BY <1>1, Divides
<1> HIDE DEF q, r
<1>3. q2 \in Int /\ bit \in {0, 1} /\ q = 2 * q2 + bit
  BY <1>2
<1> HIDE DEF q2, bit
<1>4. rest \in Int /\ 0 <= rest /\ rest < size /\ (rest >= half <=> bit = 1)
  <2>1. CASE bit = 0
    BY <1>1, <1>2, <2>1
  <2>2. CASE bit = 1
    BY <1>1, <1>2, <2>2
  <2>3. QED
    BY <1>3, <2>1, <2>2
<1>5. tile = size * q2 + rest
  <2>1. half * q = half * (2 * q2) + half * bit
    BY <1>1, <1>2, <1>3
  <2>2. half * (2 * q2) = size * q2
    BY <1>1, <1>3
  <2>3. half * bit \in Int
    BY <1>1, <1>3
  <2>4. QED
    BY <1>1, <1>2, <1>3, <2>1, <2>2, <2>3
<1>6. size \in Int /\ size > 0
  BY <1>1
<1> HIDE DEF size, rest
<1>7. tile \div size = q2 /\ tile % size = rest
  BY <1>3, <1>4, <1>5, <1>6, Divided
<1>8. QED
  BY <1>1, <1>4, <1>7 DEF size, bit, q

\* Pointer and counters that stand for a pixel name the tile under it, the dot of it
\* and its palette.
LEMMA TileOfPixel ==
  ASSUME NEW o, NEW pixel \in Pixels, NEW n \in 0 .. 3,
         ctrl.nametable \in 0 .. 3, scroll_ \in Scrolls,
         nametable_base_address(n) = nametable_base_address(ctrl.nametable),
         cached_nametable_address_ = nametable_base_address(ctrl.nametable),
         OnRow(o, pixel[2] + scroll_[2]),
         OnColumn(o, n, pixel[1] + scroll_[1], pixel[2] + scroll_[2])
  PROVE  /\ o.nametable_ptr = DirectTile(pixel).ptr
         /\ <<o.tile_x_pixel_, o.tile_y_pixel_>> = DirectTile(pixel).dot
         /\ get_palette_index_for_pixel(o) = DirectTile(pixel).palette
<1> DEFINE x == pixel[1] + scroll_[1]
           y == pixel[2] + scroll_[2]
           base == nametable_base_address(ctrl.nametable)
           column == TileOf(x, TilesWide)
           row == TileOf(y, TilesHigh)
           half == AttributeTiles \div 2
           ptr == DirectPointer(base, x, y)
           attributes == ptr - column - row * TilesWide + TilesWide * TilesHigh
           palette == <<attributes + column \div AttributeTiles
                          + (row \div AttributeTiles) * AttributesWide,
                        (column \div half) % 2 = 1, (row \div half) % 2 = 1>>
<1>1. /\ DirectTile(pixel).ptr = ptr
      /\ DirectTile(pixel).dot = <<x % TileSize, (y % Height) % TileSize>>
      /\ DirectTile(pixel).palette = palette
  BY DEF DirectTile, TileOf, Width, Height
<1>2. x \in Int /\ y \in Int
  BY ScrollRange, Sizes DEF Pixels
<1>3. /\ o.pixel_x_ = x /\ o.pixel_y_ = y
      /\ o.tile_x_ = column /\ o.tile_y_ = row
      /\ o.tile_x_pixel_ = DotOf(x, TilesWide) /\ o.tile_y_pixel_ = DotOf(y, TilesHigh)
      /\ o.nametable_ptr = nametable_base_address(TableOf(n, x, y)) + column + row * TilesWide
  BY DEF OnRow, OnColumn
<1>4. /\ TilesWide \in Int /\ TilesWide >= 1 /\ TilesHigh \in Int /\ TilesHigh >= 1
      /\ TileSize \in Int /\ TileSize >= 1
      /\ Width \in Int /\ Width >= 1 /\ Height \in Int /\ Height >= 1
  BY Tables, TileSizes, Sizes
<1> HIDE DEF x, y
<1>5. o.nametable_ptr = ptr
  BY <1>2, <1>3, DirectTable
<1>6. o.tile_x_pixel_ = x % TileSize /\ o.tile_y_pixel_ = (y % Height) % TileSize
  <2> DEFINE q == x \div (TilesWide * TileSize)
             dot == DotOf(x, TilesWide)
  <2>1. Splits(x, TilesWide, q, column, dot)
    BY <1>2, <1>4, TileSplit DEF Splits
  <2> HIDE DEF q, dot
  <2>2. x % TileSize = dot
    BY <2>1, TileOfSplit
  <2>3. QED
    BY <1>3, <2>2 DEF dot, DotOf, Height
<1>7. get_palette_index_for_pixel(o) = palette
  <2> DEFINE beside == IF x >= Width THEN Beside(base) ELSE base
             below == IF y >= Height THEN Below(beside) ELSE beside
             block == AttributeTiles * TileSize
             byte == below + TilesWide * TilesHigh + (x % Width) \div block
                       + ((y % Height) \div block) * AttributesWide
             Later(tile) == tile % AttributeTiles >= half
  <2>1. get_palette_index_for_pixel(o) = <<byte, Later(column), Later(row)>>
    BY <1>3 DEF get_palette_index_for_pixel, nametable_base_address_for_pixel
  <2>2. column \in Int /\ row \in Int
    BY <1>2, <1>4, TileSplit
  <2>3. /\ Later(column) = ((column \div half) % 2 = 1)
        /\ Later(row) = ((row \div half) % 2 = 1)
    BY <2>2, SecondHalf
  <2>4. /\ (x % Width) \div block = column \div AttributeTiles
        /\ (y % Height) \div block = row \div AttributeTiles
    <3>1. x % Width \in Int /\ y % Height \in Int
      BY <1>2, <1>4, Divides
    <3>2. AttributeTiles \in Int /\ AttributeTiles > 0
      BY PictureAssumption
    <3>3. \A m \in Int : (m \div TileSize) \div AttributeTiles = m \div block
      BY <1>4, <3>2, DividedTwice
    <3>4. column = (x % Width) \div TileSize /\ row = (y % Height) \div TileSize
      BY DEF TileOf, Width, Height
    <3> HIDE DEF column, row, block
    <3>5. QED
      BY <3>1, <3>3, <3>4
  <2>5. below + TilesWide * TilesHigh = attributes
    <3>1. ptr = below + column + row * TilesWide
      BY DEF DirectPointer, TileOf, Width, Height
    <3>2. below \in Int
      BY BaseIsInt, BesideIsInt
    <3>3. row * TilesWide \in Int /\ TilesWide * TilesHigh \in Int
      BY <1>4, <2>2, Tables
    <3> HIDE DEF below, ptr, column, row
    <3>4. QED
      BY <2>2, <3>1, <3>2, <3>3
  <2> HIDE DEF Later, below, attributes, column, row, half, block
  <2>6. byte = attributes + column \div AttributeTiles
                 + (row \div AttributeTiles) * AttributesWide
    BY <2>4, <2>5
  <2> HIDE DEF byte
  <2>7. QED
    BY <2>1, <2>3, <2>6
<1>8. QED
  BY <1>1, <1>5, <1>6, <1>7

-----------------------------------------------------------------------------
(***************************************************************************)
(* The picture                                                             *)
(***************************************************************************)

\* While the registers and the sprites stay, so do the colours.
LEMMA BehindLater ==
  ASSUME ctrl' = ctrl, mask' = mask, NEW pixel
  PROVE  Behind(pixel)' = BehindOf(sprites_', pixel)
<1>1. Showing(sprites_, FALSE, pixel)' = Showing(sprites_', FALSE, pixel)
  BY DEF Showing, Visible, SpriteDot, SpriteHeight, Opaque, Across, Down
<1>2. FirstOf(sprites_, Showing(sprites_, FALSE, pixel), pixel)'
        = FirstOf(sprites_', Showing(sprites_', FALSE, pixel), pixel)
  BY <1>1 DEF FirstOf, SpriteColor, SpriteDot, SpriteHeight, Across, Down
<1>3. QED
  BY <1>1, <1>2 DEF Behind, BehindOf, Backdrop

LEMMA DirectTileLater ==
  ASSUME ctrl' = ctrl, scroll_' = scroll_, NEW pixel
  PROVE  DirectTile(pixel)' = DirectTile(pixel)
BY DEF DirectTile, nametable_base_address, DirectPointer

LEMMA ScannedLater ==
  ASSUME ctrl' = ctrl, mask' = mask, sprites_' = sprites_, scroll_' = scroll_, NEW pixel
  PROVE  Behind(pixel)' = Behind(pixel) /\ Scanned(pixel)' = Scanned(pixel)
<1>1. Behind(pixel)' = Behind(pixel)
  BY BehindLater DEF Behind
<1>2. DirectTile(pixel)' = DirectTile(pixel)
  BY DirectTileLater
<1>3. QED
  BY <1>1, <1>2 DEF Scanned, TransparentTile, TileColor

\* The sprites before the picture lie over what was scanned.
LEMMA ComposedOf ==
  ASSUME NEW pixel
  PROVE  Composed(pixel) = IF Showing(sprites_, TRUE, pixel) # {}
                           THEN FirstOf(sprites_, Showing(sprites_, TRUE, pixel), pixel)
                           ELSE Scanned(pixel)
<1> DEFINE Shown(foreground) ==
      IF mask.sprites THEN {i \in DOMAIN sprites_ : Shows(i, pixel, foreground)} ELSE {}
<1>1. \A foreground : Shown(foreground) = Showing(sprites_, foreground, pixel)
  BY DEF Showing, Shows, Visible
<1>2. QED
  BY <1>1 DEF Composed, Scanned, Behind, BehindOf, FirstOf

LEMMA ComposedLater ==
  ASSUME ctrl' = ctrl, mask' = mask, sprites_' = sprites_, scroll_' = scroll_, NEW pixel
  PROVE  Composed(pixel)' = Composed(pixel)
<1>1. Scanned(pixel)' = Scanned(pixel)
  BY ScannedLater
<1>2. Showing(sprites_, TRUE, pixel)' = Showing(sprites_, TRUE, pixel)
  BY DEF Showing, Visible, SpriteDot, SpriteHeight, Opaque, Across, Down
<1>3. FirstOf(sprites_, Showing(sprites_, TRUE, pixel), pixel)'
        = FirstOf(sprites_, Showing(sprites_, TRUE, pixel), pixel)
  BY <1>2 DEF FirstOf, SpriteColor, SpriteDot, SpriteHeight, Across, Down
<1>4. (Composed(pixel) = IF Showing(sprites_, TRUE, pixel) # {}
                         THEN FirstOf(sprites_, Showing(sprites_, TRUE, pixel), pixel)
                         ELSE Scanned(pixel))'
  BY ComposedOf, PTL
<1>5. QED
  BY <1>1, <1>2, <1>3, <1>4, ComposedOf

\* The buffer drawn into, and the other one.
LEMMA DrawnInto ==
  ASSUME BuffersInv, NEW buffer, IsBuffer(buffer), Drawn(buffer)
  PROVE  /\ offscreen_' = [b \in 0 .. 1 |-> offscreen_'[b]]
         /\ IsBuffer(offscreen_'[0]) /\ IsBuffer(offscreen_'[1])
         /\ offscreen_'[draw_buffer_index_] = buffer
         /\ offscreen_'[1 - draw_buffer_index_] = offscreen_[1 - draw_buffer_index_]
<1> DEFINE i == draw_buffer_index_
<1>1. i \in 0 .. 1 /\ 1 - i \in 0 .. 1 /\ 1 - i # i
  BY DEF BuffersInv
<1>2. DOMAIN offscreen_ = 0 .. 1
  BY DEF BuffersInv
<1>3. /\ offscreen_' = [b \in 0 .. 1 |-> offscreen_'[b]]
      /\ \A b \in 0 .. 1 : offscreen_'[b] = IF b = i THEN buffer ELSE offscreen_[b]
  BY <1>2 DEF Drawn
<1>4. IsBuffer(offscreen_'[0]) /\ IsBuffer(offscreen_'[1])
  BY <1>1, <1>3 DEF BuffersInv
<1>5. QED
  BY <1>1, <1>3, <1>4

LEMMA CanvasIsBuffer == ASSUME BuffersInv PROVE IsBuffer(Canvas)
BY DEF BuffersInv, Canvas

LEMMA ClearedScreen ==
  ASSUME NEW color
  PROVE  /\ IsBuffer(clear_screen(color))
         /\ \A pixel \in Pixels : clear_screen(color)[pixel] = Shaded(pixel, color)
BY DEF clear_screen, IsBuffer

LEMMA PixelSet ==
  ASSUME NEW buffer, IsBuffer(buffer), NEW pixel \in Pixels, NEW color
  PROVE  /\ IsBuffer(draw_pixel(buffer, pixel, color))
         /\ draw_pixel(buffer, pixel, color)[pixel] = Shaded(pixel, color)
         /\ \A other \in Pixels :
              other # pixel => draw_pixel(buffer, pixel, color)[other] = buffer[other]
<1>1. DOMAIN buffer = Pixels
  BY DEF IsBuffer
<1> DEFINE shade == Shaded(pixel, color)
<1>2. draw_pixel(buffer, pixel, color) = [buffer EXCEPT ![pixel] = shade]
  BY DEF draw_pixel
<1> HIDE DEF shade
<1>3. IsBuffer([buffer EXCEPT ![pixel] = shade])
  BY <1>1 DEF IsBuffer
<1>4. QED
  BY <1>1, <1>2, <1>3 DEF shade

\* A pixel drawn changes no other.
LEMMA PixelRendered ==
  ASSUME BuffersInv, NEW o, NEW pixel \in Pixels
  PROVE  /\ IsBuffer(render_pixel(o, pixel))
         /\ \A other \in Pixels : other # pixel => render_pixel(o, pixel)[other] = Canvas[other]
<1>1. PICK color : render_pixel(o, pixel) \in {Canvas, draw_pixel(Canvas, pixel, color)}
  BY DEF render_pixel
<1>2. QED
  BY <1>1, CanvasIsBuffer, PixelSet

\* A pixel drawn over the sprites behind it is scanned.
LEMMA PixelScanned ==
  ASSUME BuffersInv, NEW o, NEW pixel \in Pixels,
         o.nametable_ptr = DirectTile(pixel).ptr,
         <<o.tile_x_pixel_, o.tile_y_pixel_>> = DirectTile(pixel).dot,
         get_palette_index_for_pixel(o) = DirectTile(pixel).palette,
         cached_patterntable_address = ctrl.table,
         Canvas[pixel] = Shaded(pixel, Behind(pixel))
  PROVE  render_pixel(o, pixel)[pixel] = Shaded(pixel, Scanned(pixel))
<1> DEFINE tile == DirectTile(pixel)
           color == TileColor(ctrl.table, tile.ptr, tile.dot, tile.palette)
<1>1. render_pixel(o, pixel) = IF TransparentTile(ctrl.table, tile.ptr, tile.dot) THEN Canvas
                               ELSE draw_pixel(Canvas, pixel, color)
  BY DEF render_pixel
<1>2. Scanned(pixel) = IF TransparentTile(ctrl.table, tile.ptr, tile.dot) THEN Behind(pixel)
                       ELSE color
  BY DEF Scanned
<1> HIDE DEF color, tile
<1>3. draw_pixel(Canvas, pixel, color)[pixel] = Shaded(pixel, color)
  BY CanvasIsBuffer, PixelSet
<1>4. QED
  BY <1>1, <1>2, <1>3

\* The beam reaches one pixel at a time.
LEMMA BeamReaches ==
  ASSUME BlankInv, increment_cycle, is_rendering_scanline', NEW pixel \in Pixels
  PROVE  /\ ~check_rendering_falling_edge
         /\ is_rendering_scanline =>
              (Reached(pixel)' <=>
                 Reached(pixel) \/ (cycle_' < Width /\ pixel = <<cycle_', scanline_'>>))
         /\ cycle_' < Width /\ pixel = <<cycle_', scanline_'>> =>
              ~Reached(pixel) \/ ~is_rendering_scanline
         /\ ~is_rendering_scanline =>
              BlankBegun /\ cycle_' = 0 /\ (Reached(pixel)' <=> pixel = <<cycle_', scanline_'>>)
<1> DEFINE column == pixel[1]
           line == pixel[2]
<1>1. /\ column \in Int /\ 0 <= column /\ column < Width
      /\ line \in Int /\ 0 <= line /\ line < Height /\ pixel = <<column, line>>
  BY Sizes DEF Pixels
<1>2. /\ Reached(pixel) <=> line < scanline_ \/ (line = scanline_ /\ column <= cycle_)
      /\ Reached(pixel)' <=> line < scanline_' \/ (line = scanline_' /\ column <= cycle_')
  BY DEF Reached
<1>3. pixel = <<cycle_', scanline_'>> <=> column = cycle_' /\ line = scanline_'
  BY <1>1
<1>4. /\ cycle_ \in Nat /\ scanline_ \in 0 .. LastLine
      /\ cycle_' \in Nat /\ scanline_' \in 0 .. LastLine
  BY Steps DEF BlankInv
<1>5. is_rendering_scanline <=> scanline_ <= Height - 1
  BY <1>4, Sizes DEF is_rendering_scanline
<1>6. scanline_' <= Height - 1
  BY DEF is_rendering_scanline
<1> HIDE DEF column, line
<1>7. CASE scanline_' = scanline_ /\ cycle_' = cycle_ + 1 /\ cycle_ + 1 <= LastCycle
  BY <1>1, <1>2, <1>3, <1>4, <1>5, <1>6, <1>7, Sizes DEF check_rendering_falling_edge
<1>8. CASE /\ scanline_' = IF scanline_ = LastLine THEN 0 ELSE scanline_ + 1
           /\ cycle_' = 0
           /\ cycle_ + 1 >= LastCycle
  <2>1. CASE scanline_ = LastLine
    BY <1>1, <1>2, <1>3, <1>4, <1>5, <1>6, <1>8, <2>1, Sizes
    DEF check_rendering_falling_edge, BlankBegun
  <2>2. CASE scanline_ # LastLine
    BY <1>1, <1>2, <1>3, <1>4, <1>5, <1>6, <1>8, <2>2, Sizes
    DEF check_rendering_falling_edge
  <2>3. QED
    BY <2>1, <2>2
<1>9. QED
  BY <1>7, <1>8, Steps

\* Where a pixel is drawn.
LEMMA BeamOnPixel ==
  ASSUME BlankInv, increment_cycle, is_rendering_scanline', cycle_' < Width
  PROVE  <<cycle_', scanline_'>> \in Pixels
<1>1. cycle_' \in 0 .. Width - 1
  BY Steps, Sizes
<1>2. scanline_' \in 0 .. Height - 1
  BY DEF is_rendering_scanline
<1>3. QED
  BY <1>1, <1>2 DEF Pixels

\* The sprites drawn over a buffer, if sprites are shown at all.
Layer(sprites, foreground, buffer) ==
  IF mask.sprites THEN render_sprites(sprites, foreground, buffer) ELSE buffer

LEMMA LayerDrawn ==
  ASSUME NEW sprites \in Seq(Sprites), NEW foreground, NEW buffer, IsBuffer(buffer)
  PROVE  /\ IsBuffer(Layer(sprites, foreground, buffer))
         /\ \A pixel \in Pixels :
              Layer(sprites, foreground, buffer)[pixel]
                = IF Showing(sprites, foreground, pixel) # {}
                  THEN Shaded(pixel, FirstOf(sprites, Showing(sprites, foreground, pixel), pixel))
                  ELSE buffer[pixel]
<1>1. CASE mask.sprites
  BY <1>1, LayerShown DEF Layer
<1>2. CASE ~mask.sprites
  BY <1>2 DEF Layer, Showing
<1>3. QED
  BY <1>1, <1>2

\* The buffers stay whole, and sprites_ holds sprites.
LEMMA BuffersStep ==
  ASSUME BlankInv, BuffersInv, [PictureNext]_<<vars, picture>>
  PROVE  BuffersInv'
<1> DEFINE i == draw_buffer_index_
<1>1. i \in 0 .. 1 /\ 1 - i \in 0 .. 1 /\ sprites_ \in Seq(Sprites) /\ game \in DOMAIN Games
  BY DEF BuffersInv
<1>2. ASSUME NEW buffer, IsBuffer(buffer), Drawn(buffer), draw_buffer_index_' \in {i, 1 - i},
             sprites_' \in Seq(Sprites), game' = game
      PROVE  BuffersInv'
  <2>1. /\ offscreen_' = [b \in 0 .. 1 |-> offscreen_'[b]]
        /\ IsBuffer(offscreen_'[0]) /\ IsBuffer(offscreen_'[1])
    BY <1>2, DrawnInto
  <2>2. draw_buffer_index_' \in 0 .. 1
    BY <1>1, <1>2
  <2>3. QED
    BY <1>1, <1>2, <2>1, <2>2 DEF BuffersInv, IsBuffer
<1>3. CASE StepDraws
  <2>1. increment_cycle /\ game' = game
    BY <1>3 DEF StepDraws, Step
  <2>2. CASE DrawsPixel
    <3>1. <<cycle_', scanline_'>> \in Pixels
      BY <2>1, <2>2, BeamOnPixel DEF DrawsPixel
    <3>2. IsBuffer(render_pixel(offsets_', <<cycle_', scanline_'>>))
      BY <3>1, PixelRendered
    <3>3. QED
      BY <1>1, <1>2, <2>1, <2>2, <3>2 DEF DrawsPixel
  <2>3. CASE EndsPicture
    <3>1. IsBuffer(Layer(sprites_, TRUE, Canvas))
      BY <1>1, CanvasIsBuffer, LayerDrawn
    <3>2. /\ Drawn(Layer(sprites_, TRUE, Canvas))
          /\ sprites_' = sprites_ /\ draw_buffer_index_' = 1 - i
      BY <2>3 DEF EndsPicture, Layer, swap_buffers
    <3>3. QED
      BY <1>1, <1>2, <2>1, <3>1, <3>2
  <2>4. CASE BeginsBlank
    <3> DEFINE cleared == IF mask.background THEN clear_screen(Backdrop) ELSE Canvas
    <3>1. sprites_' \in Seq(Sprites)
      BY <1>1, <2>4, PictureAssumption DEF BeginsBlank, read_sprite_oam
    <3>2. IsBuffer(cleared)
      BY CanvasIsBuffer, ClearedScreen
    <3>3. Drawn(Layer(sprites_', FALSE, cleared)) /\ draw_buffer_index_' = i
      BY <2>4 DEF BeginsBlank, Layer
    <3> HIDE DEF cleared
    <3>4. IsBuffer(Layer(sprites_', FALSE, cleared))
      BY <3>1, <3>2, LayerDrawn
    <3>5. QED
      BY <1>2, <2>1, <3>1, <3>3, <3>4
  <2>5. CASE DrawsNothing
    BY <2>1, <2>5 DEF DrawsNothing, picture, BuffersInv, IsBuffer
  <2>6. QED
    BY <1>3, <2>2, <2>3, <2>4, <2>5 DEF StepDraws
<1>4. CASE ComputeDraws
  BY <1>4 DEF ComputeDraws, Compute, picture, BuffersInv, IsBuffer
<1>5. CASE AccessDraws
  BY <1>5 DEF AccessDraws, Access, BuffersInv, IsBuffer
<1>6. CASE ResetDraws
  <2>1. IsBuffer(clear_screen(Black))
    BY ClearedScreen
  <2>2. /\ Drawn(clear_screen(Black)) /\ draw_buffer_index_' = i
        /\ sprites_' = sprites_ /\ game' = game
    BY <1>6 DEF ResetDraws, reset
  <2>3. QED
    BY <1>1, <1>2, <2>1, <2>2
<1>7. CASE UNCHANGED <<vars, picture>>
  BY <1>7 DEF vars, picture, BuffersInv, IsBuffer
<1>8. QED
  BY <1>3, <1>4, <1>5, <1>6, <1>7 DEF PictureNext

\* What a step of the PPU does to the picture but at the start of the blank.
LEMMA StepInPicture ==
  ASSUME StepDraws, ~check_vblank_raising_edge'
  PROVE  /\ UNCHANGED <<sprites_, cached_patterntable_address, steady, ctrl, mask>>
         /\ cached_nametable_address_' = cached_nametable_address_
         /\ is_rendering_scanline' => scroll_' = scroll_
<1>1. UNCHANGED <<sprites_, cached_patterntable_address, steady>>
  BY DEF StepDraws, DrawsPixel, EndsPicture, BeginsBlank, DrawsNothing, picture
<1>2. is_rendering_scanline' => ~check_vblank_falling_edge'
  BY Sizes DEF is_rendering_scanline, check_vblank_falling_edge
<1>3. QED
  BY <1>1, <1>2 DEF StepDraws, Step

\* The step at which the blank begins.
LEMMA StepAtBlank ==
  ASSUME StepDraws, check_vblank_raising_edge'
  PROVE  /\ BeginsBlank /\ BlankBegun'
         /\ ~is_rendering_scanline' /\ ~check_rendering_falling_edge'
<1>1. scanline_' = VblankLine /\ cycle_' = 1
  BY DEF check_vblank_raising_edge
<1>2. BlankBegun' /\ ~is_rendering_scanline' /\ ~check_rendering_falling_edge'
  BY <1>1, Sizes DEF BlankBegun, is_rendering_scanline, check_rendering_falling_edge
<1>3. QED
  BY <1>2 DEF StepDraws, DrawsPixel, EndsPicture, DrawsNothing

\* The tables stay those selected until the program selects others.
LEMMA TablesStep ==
  ASSUME BlankInv, TablesInv, [PictureNext]_<<vars, picture>>
  PROVE  TablesInv'
<1> SUFFICES ASSUME steady'
             PROVE  /\ cached_nametable_address_' = nametable_base_address(ctrl'.nametable)
                    /\ cached_patterntable_address' = ctrl'.table
                    /\ is_rendering_scanline' =>
                         line_base' = nametable_base_address(ctrl'.nametable)
  BY DEF TablesInv, nametable_base_address
<1>1. CASE StepDraws
  <2>1. /\ increment_cycle /\ ctrl' = ctrl
        /\ cached_nametable_address_' = IF check_vblank_raising_edge'
                                        THEN nametable_base_address(ctrl.nametable)
                                        ELSE cached_nametable_address_
    BY <1>1 DEF StepDraws, Step
  <2>2. CASE check_vblank_raising_edge'
    <3>1. ~is_rendering_scanline' /\ BeginsBlank
      BY <1>1, <2>2, StepAtBlank
    <3>2. QED
      BY <2>1, <2>2, <3>1 DEF BeginsBlank
  <2>3. CASE ~check_vblank_raising_edge'
    <3>1. steady /\ cached_patterntable_address' = cached_patterntable_address
      BY <1>1, <2>3, StepInPicture
    <3>2. is_rendering_scanline' => line_base' = nametable_base_address(ctrl.nametable)
      <4>1. CASE EndsLine(cycle_ + 1)
        BY <2>1, <4>1 DEF increment_cycle, NextLine
      <4>2. CASE ~EndsLine(cycle_ + 1)
        BY <2>1, <3>1, <4>2 DEF increment_cycle, WithinLine, TablesInv, is_rendering_scanline
      <4>3. QED
        BY <4>1, <4>2
    <3>3. QED
      BY <2>1, <2>3, <3>1, <3>2 DEF TablesInv
  <2>4. QED
    BY <2>2, <2>3
<1>2. CASE ComputeDraws
  BY <1>2 DEF ComputeDraws, Compute, raster, picture, TablesInv, is_rendering_scanline
<1>3. CASE AccessDraws
  BY <1>3 DEF AccessDraws, Access, raster, TablesInv, is_rendering_scanline
<1>4. CASE ResetDraws
  BY <1>4 DEF ResetDraws
<1>5. CASE UNCHANGED <<vars, picture>>
  BY <1>5 DEF vars, picture, TablesInv, is_rendering_scanline
<1>6. QED
  BY <1>1, <1>2, <1>3, <1>4, <1>5 DEF PictureNext

\* Until the picture is scanned the sprites behind it stay alone.
LEMMA BlankGoesOn ==
  ASSUME BlankInv, CanvasInv, StepDraws, ~check_vblank_raising_edge',
         steady, mask.background, BlankBegun'
  PROVE  Canvas' = Canvas /\ \A pixel \in Pixels : Canvas[pixel] = Shaded(pixel, Behind(pixel))
<1>1. increment_cycle
  BY DEF StepDraws, Step
<1>2. scanline_' > VblankLine \/ (scanline_' = VblankLine /\ cycle_' >= 1)
  BY DEF BlankBegun
<1>3. ~is_rendering_scanline' /\ ~check_rendering_falling_edge'
  BY <1>2, Sizes DEF is_rendering_scanline, check_rendering_falling_edge
<1>4. DrawsNothing
  BY <1>3 DEF StepDraws, DrawsPixel, EndsPicture, BeginsBlank
<1>5. BlankBegun
  <2>1. cycle_' # 1 \/ scanline_' # VblankLine
    BY DEF check_vblank_raising_edge
  <2>2. QED
    BY <1>1, <1>2, <2>1, Steps, Sizes DEF BlankInv, BlankBegun
<1>6. Canvas' = Canvas
  BY <1>4 DEF DrawsNothing, picture, Canvas
<1>7. QED
  BY <1>5, <1>6 DEF CanvasInv

\* The background goes over the sprites behind it as the beam moves on.
LEMMA ScanGoesOn ==
  ASSUME BlankInv, PointerInv, BuffersInv, TablesInv, CanvasInv, PointerInv', TablesInv',
         StepDraws, ~check_vblank_raising_edge', steady, mask.background,
         is_rendering_scanline', ~check_rendering_falling_edge', NEW pixel \in Pixels
  PROVE  Canvas'[pixel] = Shaded(pixel, IF Reached(pixel)' THEN Scanned(pixel) ELSE Behind(pixel))
<1> DEFINE spot == <<cycle_', scanline_'>>
           here == cycle_' < Width
<1>1. increment_cycle
  BY DEF StepDraws, Step
<1>2. /\ UNCHANGED <<sprites_, cached_patterntable_address, steady, ctrl, mask, scroll_>>
      /\ cached_nametable_address_' = cached_nametable_address_
  BY StepInPicture
<1>3. ASSUME NEW p \in Pixels
      PROVE  /\ ~is_rendering_scanline =>
                  Canvas[p] = Shaded(p, Behind(p)) /\ here /\ (Reached(p)' <=> p = spot)
             /\ is_rendering_scanline =>
                  /\ Canvas[p] = Shaded(p, IF Reached(p) THEN Scanned(p) ELSE Behind(p))
                  /\ Reached(p)' <=> Reached(p) \/ (here /\ p = spot)
                  /\ here /\ p = spot => ~Reached(p)
  BY <1>1, BeamReaches, Sizes DEF CanvasInv
<1>4. CASE here
  <2>1. spot \in Pixels
    BY <1>1, <1>4, BeamOnPixel
  <2>2. DrawsPixel
    BY <1>4 DEF StepDraws, EndsPicture, BeginsBlank, DrawsNothing
  <2>3. Canvas' = render_pixel(offsets_', spot)
    <3>1. IsBuffer(render_pixel(offsets_', spot))
      BY <2>1, PixelRendered
    <3>2. Drawn(render_pixel(offsets_', spot)) /\ draw_buffer_index_' = draw_buffer_index_
      BY <2>2 DEF DrawsPixel
    <3>3. QED
      BY <3>1, <3>2, DrawnInto DEF Canvas
  <2>4. Canvas[spot] = Shaded(spot, Behind(spot))
    BY <1>3, <1>4, <2>1
  <2>5. /\ offsets_'.nametable_ptr = DirectTile(spot).ptr
        /\ <<offsets_'.tile_x_pixel_, offsets_'.tile_y_pixel_>> = DirectTile(spot).dot
        /\ get_palette_index_for_pixel(offsets_') = DirectTile(spot).palette
    <3>1. PICK n \in 0 .. 3 : line_base' = nametable_base_address(n) /\ OnPixel(n)'
      BY DEF PointerInv
    <3>2. /\ OnRow(offsets_', scanline_' + scroll_[2])
          /\ OnColumn(offsets_', n, cycle_' + scroll_[1], scanline_' + scroll_[2])
      BY <1>2, <1>4, <3>1 DEF OnPixel
    <3>3. line_base' = nametable_base_address(ctrl.nametable)
      BY <1>2 DEF TablesInv, nametable_base_address
    <3>4. /\ ctrl.nametable \in 0 .. 3 /\ scroll_ \in Scrolls
          /\ cached_nametable_address_ = nametable_base_address(ctrl.nametable)
      BY DEF PointerInv, TablesInv
    <3>5. spot[1] = cycle_' /\ spot[2] = scanline_'
      OBVIOUS
    <3> HIDE DEF spot
    <3>6. QED
      BY <2>1, <3>1, <3>2, <3>3, <3>4, <3>5, TileOfPixel
  <2>6. cached_patterntable_address = ctrl.table
    BY DEF TablesInv
  <2> HIDE DEF spot
  <2>7. Canvas'[spot] = Shaded(spot, Scanned(spot))
    BY <2>1, <2>3, <2>4, <2>5, <2>6, PixelScanned
  <2>8. \A p \in Pixels : p # spot => Canvas'[p] = Canvas[p]
    BY <2>1, <2>3, PixelRendered
  <2>9. QED
    BY <1>3, <1>4, <2>7, <2>8
<1>5. CASE ~here
  <2>1. DrawsNothing
    BY <1>5 DEF StepDraws, DrawsPixel, EndsPicture, BeginsBlank
  <2>2. Canvas' = Canvas
    BY <2>1 DEF DrawsNothing, picture, Canvas
  <2>3. QED
    BY <1>3, <1>5, <2>2
<1>6. QED
  BY <1>4, <1>5

\* The sprites before the picture complete it.
LEMMA PictureEnds ==
  ASSUME BlankInv, BuffersInv, CanvasInv,
         StepDraws, ~check_vblank_raising_edge', steady, mask.background,
         check_rendering_falling_edge', NEW pixel \in Pixels
  PROVE  offscreen_'[1 - draw_buffer_index_'][pixel] = Shaded(pixel, Composed(pixel))
<1>1. increment_cycle
  BY DEF StepDraws, Step
<1>2. cycle_' = LastCycle /\ scanline_' = Height - 1
  BY DEF check_rendering_falling_edge
<1>3. scanline_ = Height - 1 /\ cycle_ + 1 = LastCycle
  BY <1>1, <1>2, Steps, Sizes
<1>4. is_rendering_scanline /\ ~check_rendering_falling_edge /\ Reached(pixel)
  <2>1. cycle_ \in Nat /\ cycle_ >= Width /\ cycle_ # LastCycle
    BY <1>3, Sizes DEF BlankInv
  <2>2. pixel[1] \in 0 .. Width - 1 /\ pixel[2] \in 0 .. Height - 1
    BY DEF Pixels
  <2>3. Reached(pixel)
    BY <1>3, <2>1, <2>2, Sizes DEF Reached
  <2>4. QED
    BY <1>3, <2>1, <2>3, Sizes DEF is_rendering_scanline, check_rendering_falling_edge
<1>5. Canvas[pixel] = Shaded(pixel, Scanned(pixel))
  BY <1>4 DEF CanvasInv
<1>6. EndsPicture
  <2>1. ~(cycle_' < Width)
    BY <1>2, Sizes
  <2>2. QED
    BY <2>1 DEF StepDraws, DrawsPixel, BeginsBlank, DrawsNothing, is_rendering_enabled
<1>7. offscreen_'[1 - draw_buffer_index_'] = Layer(sprites_, TRUE, Canvas)
  <2>1. sprites_ \in Seq(Sprites) /\ draw_buffer_index_ \in 0 .. 1
    BY DEF BuffersInv
  <2>2. IsBuffer(Layer(sprites_, TRUE, Canvas))
    BY <2>1, CanvasIsBuffer, LayerDrawn
  <2>3. Drawn(Layer(sprites_, TRUE, Canvas)) /\ draw_buffer_index_' = 1 - draw_buffer_index_
    BY <1>6 DEF EndsPicture, Layer, swap_buffers
  <2>4. 1 - draw_buffer_index_' = draw_buffer_index_
    BY <2>1, <2>3
  <2>5. QED
    BY <2>2, <2>3, <2>4, DrawnInto
<1>8. Layer(sprites_, TRUE, Canvas)[pixel]
        = IF Showing(sprites_, TRUE, pixel) # {}
          THEN Shaded(pixel, FirstOf(sprites_, Showing(sprites_, TRUE, pixel), pixel))
          ELSE Canvas[pixel]
  <2>1. sprites_ \in Seq(Sprites) /\ IsBuffer(Canvas)
    BY CanvasIsBuffer DEF BuffersInv
  <2>2. PICK sprites \in Seq(Sprites) : sprites = sprites_
    BY <2>1
  <2>3. PICK buffer : buffer = Canvas
    OBVIOUS
  <2>4. IsBuffer(buffer)
    BY <2>1, <2>3
  <2>5. \A front : Layer(sprites, front, buffer)[pixel]
          = IF Showing(sprites, front, pixel) # {}
            THEN Shaded(pixel, FirstOf(sprites, Showing(sprites, front, pixel), pixel))
            ELSE buffer[pixel]
    BY <2>4, LayerDrawn
  <2>6. QED
    BY <2>2, <2>3, <2>5
<1>9. QED
  BY <1>5, <1>7, <1>8, ComposedOf

\* The blank begins: the screen is cleared and the sprites behind the picture drawn.
LEMMA BlankDrawn ==
  ASSUME BuffersInv, BuffersInv', StepDraws, BeginsBlank, mask.background, NEW pixel \in Pixels
  PROVE  Canvas'[pixel] = Shaded(pixel, Behind(pixel)')
<1> DEFINE cleared == clear_screen(Backdrop)
<1>1. ctrl' = ctrl /\ mask' = mask /\ sprites_' \in Seq(Sprites)
  BY DEF StepDraws, Step, BuffersInv
<1>2. IsBuffer(cleared) /\ cleared[pixel] = Shaded(pixel, Backdrop)
  BY ClearedScreen
<1>3. Drawn(Layer(sprites_', FALSE, cleared)) /\ draw_buffer_index_' = draw_buffer_index_
  BY DEF BeginsBlank, Layer
<1> HIDE DEF cleared
<1>4. /\ IsBuffer(Layer(sprites_', FALSE, cleared))
      /\ Layer(sprites_', FALSE, cleared)[pixel] = Shaded(pixel, BehindOf(sprites_', pixel))
  <2>1. PICK sprites \in Seq(Sprites) : sprites = sprites_'
    BY <1>1
  <2>2. \A back : /\ IsBuffer(Layer(sprites, back, cleared))
                  /\ Layer(sprites, back, cleared)[pixel]
                       = IF Showing(sprites, back, pixel) # {}
                         THEN Shaded(pixel, FirstOf(sprites, Showing(sprites, back, pixel), pixel))
                         ELSE cleared[pixel]
    BY <1>2, LayerDrawn
  <2>3. QED
    BY <1>2, <2>1, <2>2 DEF BehindOf
<1>5. Canvas' = Layer(sprites_', FALSE, cleared)
  BY <1>3, <1>4, DrawnInto DEF Canvas
<1>6. QED
  BY <1>1, <1>4, <1>5, BehindLater

\* Every step keeps what is known of the picture.
LEMMA CanvasStep ==
  ASSUME BlankInv, PointerInv, PointerInv', PictureInv, BuffersInv', TablesInv',
         [PictureNext]_<<vars, picture>>
  PROVE  CanvasInv'
<1> SUFFICES ASSUME steady', mask'.background
             PROVE  /\ BlankBegun' =>
                         \A pixel \in Pixels : Canvas'[pixel] = Shaded(pixel, Behind(pixel)')
                    /\ is_rendering_scanline' /\ ~check_rendering_falling_edge' =>
                         \A pixel \in Pixels :
                           Canvas'[pixel] = Shaded(pixel, IF Reached(pixel)' THEN Scanned(pixel)'
                                                          ELSE Behind(pixel)')
                    /\ check_rendering_falling_edge' =>
                         \A pixel \in Pixels :
                           offscreen_'[1 - draw_buffer_index_'][pixel]
                             = Shaded(pixel, Composed(pixel)')
  BY DEF CanvasInv, Shaded
<1>1. BuffersInv /\ TablesInv /\ CanvasInv
  BY DEF PictureInv
<1>2. CASE StepDraws /\ check_vblank_raising_edge'
  <2>1. mask.background
    BY <1>2 DEF StepDraws, Step
  <2>2. QED
    BY <1>1, <1>2, <2>1, StepAtBlank, BlankDrawn
<1>3. CASE StepDraws /\ ~check_vblank_raising_edge'
  <2>1. UNCHANGED <<sprites_, steady, ctrl, mask>> /\ steady /\ mask.background
    BY <1>3, StepInPicture
  <2>2. ASSUME BlankBegun', NEW pixel \in Pixels
        PROVE  Canvas'[pixel] = Shaded(pixel, Behind(pixel)')
    <3>1. Canvas' = Canvas /\ Canvas[pixel] = Shaded(pixel, Behind(pixel))
      BY <1>1, <1>3, <2>1, <2>2, BlankGoesOn
    <3>2. Behind(pixel)' = Behind(pixel)
      BY <2>1, BehindLater DEF Behind
    <3>3. QED
      BY <3>1, <3>2
  <2>3. ASSUME is_rendering_scanline', ~check_rendering_falling_edge', NEW pixel \in Pixels
        PROVE  Canvas'[pixel] = Shaded(pixel, IF Reached(pixel)' THEN Scanned(pixel)'
                                              ELSE Behind(pixel)')
    <3>1. Canvas'[pixel] = Shaded(pixel, IF Reached(pixel)' THEN Scanned(pixel)
                                         ELSE Behind(pixel))
      BY <1>1, <1>3, <2>1, <2>3, ScanGoesOn
    <3>2. scroll_' = scroll_
      BY <1>3, <2>3, StepInPicture
    <3>3. Behind(pixel)' = Behind(pixel) /\ Scanned(pixel)' = Scanned(pixel)
      BY <2>1, <3>2, ScannedLater
    <3>4. QED
      BY <3>1, <3>3
  <2>4. ASSUME check_rendering_falling_edge', NEW pixel \in Pixels
        PROVE  offscreen_'[1 - draw_buffer_index_'][pixel] = Shaded(pixel, Composed(pixel)')
    <3>1. offscreen_'[1 - draw_buffer_index_'][pixel] = Shaded(pixel, Composed(pixel))
      BY <1>1, <1>3, <2>1, <2>4, PictureEnds
    <3>2. is_rendering_scanline'
      BY <2>4, Sizes DEF check_rendering_falling_edge, is_rendering_scanline
    <3>3. scroll_' = scroll_
      BY <1>3, <3>2, StepInPicture
    <3>4. Composed(pixel)' = Composed(pixel)
      BY <2>1, <3>3, ComposedLater
    <3>5. QED
      BY <3>1, <3>4
  <2>5. QED
    BY <2>2, <2>3, <2>4
<1>4. CASE ComputeDraws \/ AccessDraws \/ UNCHANGED <<vars, picture>>
  <2>1. /\ UNCHANGED <<cycle_, scanline_, scroll_, sprites_, offscreen_, draw_buffer_index_>>
        /\ ctrl' = ctrl /\ mask' = mask /\ steady
    BY <1>4 DEF ComputeDraws, Compute, AccessDraws, Access, raster, picture, vars
  <2>2. /\ Canvas' = Canvas /\ (BlankBegun' <=> BlankBegun)
        /\ (is_rendering_scanline' <=> is_rendering_scanline)
        /\ (check_rendering_falling_edge' <=> check_rendering_falling_edge)
    BY <2>1 DEF Canvas, BlankBegun, is_rendering_scanline, check_rendering_falling_edge
  <2>3. ASSUME NEW pixel
        PROVE  /\ Behind(pixel)' = Behind(pixel) /\ Scanned(pixel)' = Scanned(pixel)
               /\ Composed(pixel)' = Composed(pixel) /\ (Reached(pixel)' <=> Reached(pixel))
    BY <2>1, ScannedLater, ComposedLater DEF Reached
  <2>4. QED
    BY <1>1, <2>1, <2>2, <2>3 DEF CanvasInv
<1>5. CASE ResetDraws
  BY <1>5 DEF ResetDraws
<1>6. QED
  BY <1>2, <1>3, <1>4, <1>5 DEF PictureNext

LEMMA PictureStarts == PictureInit => PictureInv
<1> SUFFICES ASSUME PictureInit
             PROVE  PictureInv
  OBVIOUS
<1> DEFINE uninitialised == [pixel \in Pixels |-> Uninitialised]
           black == clear_screen(Black)
<1>1. /\ game \in DOMAIN Games /\ sprites_ = <<>> /\ draw_buffer_index_ = 0 /\ ~steady
      /\ offscreen_ = [b \in 0 .. 1 |-> IF b = 0 THEN black ELSE uninitialised]
  BY DEF PictureInit, Init
<1>2. IsBuffer(black) /\ IsBuffer(uninitialised)
  BY ClearedScreen DEF IsBuffer
<1> HIDE DEF black, uninitialised
<1>3. BuffersInv
  BY <1>1, <1>2 DEF BuffersInv
<1>4. QED
  BY <1>1, <1>3 DEF PictureInv, TablesInv, CanvasInv

\* A picture through which the program left the PPU alone shows at every pixel the
\* first sprite before the background, else the opaque dot of the background, else the
\* first sprite behind it, else the backdrop: for screens, tiles, patterns and sprites
\* of any number and size, and wherever the picture is scrolled to.
THEOREM PictureCorrect == PictureSpec => []PictureComposed
<1> DEFINE Inv == BlankInv /\ PortsInv /\ PointerInv /\ PictureInv
<1>1. PictureInit => Inv
  <2>1. PictureInit => Init
    BY DEF PictureInit
  <2>2. QED
    BY <2>1, BlankStarts, PortsStart, PointerStarts, PictureStarts
<1>2. ASSUME Inv, [PictureNext]_<<vars, picture>>
      PROVE  Inv'
  <2>1. [Next]_vars
    BY <1>2 DEF PictureNext, StepDraws, ComputeDraws, AccessDraws, ResetDraws, Next
  <2>2. BlankInv' /\ PortsInv' /\ PointerInv'
    BY <1>2, <2>1, BlankStep, PortsKept, PointerStep
  <2>3. BuffersInv' /\ TablesInv'
    BY <1>2, BuffersStep, TablesStep DEF PictureInv
  <2>4. CanvasInv'
    BY <1>2, <2>2, <2>3, CanvasStep
  <2>5. QED
    BY <2>2, <2>3, <2>4 DEF PictureInv
<1>3. Inv => PictureComposed
  BY DEF PictureInv, CanvasInv, PictureComposed
<1> HIDE DEF Inv
<1>4. QED
  BY <1>1, <1>2, <1>3, PTL DEF PictureSpec
=============================================================================
