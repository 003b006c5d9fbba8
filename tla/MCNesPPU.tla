------------------------------ MODULE MCNesPPU ------------------------------
(***************************************************************************)
(* The programs NesPPU is checked with: one that switches and scrolls the  *)
(* picture, two that store to the memories of the PPU while nothing is     *)
(* drawn, and one that is replaced by another cartridge.                   *)
(***************************************************************************)
EXTENDS NesPPU, TLC

Writes(port, values) == [port : {port}, value : values]

MCCtrl(nametable, down, nmi) ==
  [nametable |-> nametable, down |-> down, nmi |-> nmi, table |-> 1, tall |-> FALSE]
MCMask(background, sprites) == [background |-> background, sprites |-> sprites]

MCPicture(scroll, most) ==
  [ctrl |-> MCCtrl(0, FALSE, TRUE), mask |-> MCMask(TRUE, TRUE), scroll |-> scroll,
   most |-> most, resets |-> 0, oam |-> <<>>,
   accesses |->
     Writes("PPUCTRL", {MCCtrl(1, FALSE, TRUE), MCCtrl(2, FALSE, TRUE)})
       \cup Writes("PPUMASK", {MCMask(TRUE, FALSE), MCMask(FALSE, FALSE)})
       \cup Writes("PPUSTATUS", {[sprite0_hit |-> TRUE]})
       \cup Writes("PPUSCROLL", {1})]

MCNothingDrawn ==
  [ctrl |-> MCCtrl(0, TRUE, FALSE), mask |-> MCMask(FALSE, FALSE), scroll |-> <<0, 0>>,
   resets |-> 0, oam |-> <<>>]

MCVideo ==
  MCNothingDrawn @@
  [most |-> 3,
   accesses |->
     Writes("PPUSCROLL", {3})
       \cup Writes("PPUADDR", {63, 255})
       \cup Writes("PPUDATA", {7})]

MCOam ==
  MCNothingDrawn @@
  [most |-> 3,
   accesses |->
     Writes("OAMADDR", {OamSize - 1})
       \cup Writes("OAMDATA", {8})
       \cup Writes("OAMDMA", {2})]

MCReplaced ==
  [ctrl |-> MCCtrl(3, FALSE, TRUE), mask |-> MCMask(TRUE, FALSE), scroll |-> <<1, 1>>,
   most |-> 1, resets |-> 1, oam |-> <<>>,
   accesses |-> Writes("PPUMASK", {MCMask(FALSE, FALSE)})]

MCGames ==
  [far |-> MCPicture(<<Width - 1, Width - 1>>, 2), near |-> MCPicture(<<3, 2>>, 1),
   video |-> MCVideo, oam |-> MCOam, replaced |-> MCReplaced]
MCGarbage == {0, 65535}
=============================================================================
