---------------------------- MODULE MCPpuPicture ----------------------------
(***************************************************************************)
(* Two more programs, which draw: one with small sprites over each other,  *)
(* over the edges of the picture, flipped and empty, one with tall ones.   *)
(* Each changes the PPU once, at any time.                                 *)
(***************************************************************************)
EXTENDS MCNesPPU, PpuPicture

MCSprite(x, y, tile, foreground, flip_horizontal, flip_vertical) ==
  [x |-> x, y |-> y, tile |-> tile, foreground |-> foreground,
   flip_horizontal |-> flip_horizontal, flip_vertical |-> flip_vertical]

MCSmall ==
  <<MCSprite(1, 0, 0, TRUE, FALSE, FALSE), MCSprite(1, 0, 1, TRUE, TRUE, FALSE),
    MCSprite(2, 1, 2, FALSE, FALSE, TRUE), MCSprite(2, 0, 3, TRUE, TRUE, TRUE),
    MCSprite(5, 5, 2, FALSE, FALSE, FALSE), MCSprite(4, 1, 4, FALSE, TRUE, FALSE),
    MCSprite(5, 1, 1, TRUE, FALSE, FALSE), MCSprite(3, 1, 1, FALSE, FALSE, TRUE)>>

MCTall ==
  <<MCSprite(0, 5, 1, FALSE, TRUE, TRUE), MCSprite(1, 5, 2, TRUE, FALSE, TRUE),
    MCSprite(3, 4, 3, TRUE, FALSE, FALSE), MCSprite(4, 5, 1, FALSE, FALSE, FALSE)>>

MCDraws(tall, scroll, oam, made) ==
  [ctrl |-> [MCCtrl(0, FALSE, FALSE) EXCEPT !.table = 0, !.tall = tall],
   mask |-> MCMask(TRUE, TRUE), scroll |-> scroll, oam |-> oam,
   accesses |-> made, most |-> 1, resets |-> 0]

MCPictureGames ==
  [small |-> MCDraws(FALSE, <<3, 2>>, MCSmall,
               Writes("PPUCTRL", {MCCtrl(1, FALSE, FALSE)})
                 \cup Writes("PPUMASK", {MCMask(TRUE, FALSE)})),
   tall |-> MCDraws(TRUE, <<1, 5>>, MCTall,
              Writes("PPUCTRL", {[MCCtrl(3, FALSE, FALSE) EXCEPT !.table = 0,
                                                                 !.tall = TRUE]}))]
    @@ MCGames

MCTile(dots) == [dot \in Dots |-> IF dot \in dots THEN 1 ELSE 0]

\* Nothing of the second table is seen, so that only the programs here draw.
MCPatterns ==
  [table \in 0 .. 1 |-> [tile \in 0 .. 4 |->
     IF table = 1 THEN MCTile({})
     ELSE CASE tile = 0 -> MCTile({<<0, 0>>, <<1, 1>>})
            [] tile = 1 -> MCTile({<<0, 0>>, <<0, 1>>, <<1, 1>>})
            [] tile = 2 -> MCTile({<<1, 0>>})
            [] tile = 3 -> MCTile({<<0, 0>>, <<1, 0>>, <<0, 1>>})
            [] tile = 4 -> MCTile({})]]

MCNametables ==
  [address \in 8 * NametableSize .. 12 * NametableSize - 1 |->
     (address + address \div NametableSize) % 5]
=============================================================================
