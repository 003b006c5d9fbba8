----------------------------- MODULE PpuPicture -----------------------------
(***************************************************************************)
(* What NesPPU draws and NesDisplay shows: the background, pixel by pixel  *)
(* while the picture is scanned, the sprites of each layer all at once     *)
(* before and after it.  A colour is known by where it comes from: the     *)
(* dot of a tile and, for the background, the palette selection.           *)
(***************************************************************************)
EXTENDS NesPPU, SequencesExt

CONSTANTS
  AttributeTiles,  \* TILES_PER_ATTR_BYTE, 4
  Overscan,        \* half of NesDisplay::OVERSCAN, 8
  Patterns,        \* by table and tile, the value of each of its dots
  Nametables       \* the tile at each address of the nametables

VARIABLES
  sprites_,        \* the sprites of the game that were read last
  cached_patterntable_address,
  offscreen_, draw_buffer_index_,
  steady           \* history: ctrl and mask are those of the latest blank

picture == <<sprites_, cached_patterntable_address, offscreen_, draw_buffer_index_, steady>>

Pixels == (0 .. Width - 1) \X (0 .. Height - 1)

Dots == (0 .. TileSize - 1) \X (0 .. TileSize - 1)

SpriteHeight(tall) == IF tall THEN 2 * TileSize ELSE TileSize

\* A program keeps its sprites off the line below the picture: offscreen_ has none.
Lines(g) ==
  LET tall == \/ g.ctrl.tall
              \/ \E a \in g.accesses : a.port = "PPUCTRL" /\ a.value.tall
  IN {(g.oam[i].y + row) % Width : i \in DOMAIN g.oam, row \in 1 .. SpriteHeight(tall)}

\* What OAM holds of a sprite.
Sprites == [x : Byte, y : Byte, tile : Byte,
            foreground : BOOLEAN, flip_horizontal : BOOLEAN, flip_vertical : BOOLEAN]

\* A tall sprite is no higher than the range of its position, 256 lines.
ASSUME PictureAssumption ==
  /\ TilesWide > 1
  /\ AttributeTiles \in {n \in Nat : n > 0 /\ n % 2 = 0}
  /\ Overscan \in 0 .. Height
  /\ Patterns \in [0 .. 1 -> [DOMAIN Patterns[0] -> [Dots -> 0 .. 3]]]
  /\ \A g \in DOMAIN Games :
       Games[g].oam \in Seq(Sprites) /\ Height \notin Lines(Games[g])

-----------------------------------------------------------------------------
(***************************************************************************)
(* The display                                                             *)
(***************************************************************************)

Black == <<"black">>
Backdrop == <<"backdrop">>
Uninitialised == <<"uninitialised">>

\* What draw_pixel() makes of a colour.
Shaded(pixel, color) ==
  IF pixel[2] < Overscan \/ pixel[2] > Height - Overscan THEN Black ELSE color

clear_screen(color) == [pixel \in Pixels |-> Shaded(pixel, color)]

draw_pixel(buffer, pixel, color) == [buffer EXCEPT ![pixel] = Shaded(pixel, color)]

Canvas == offscreen_[draw_buffer_index_]

-----------------------------------------------------------------------------
(***************************************************************************)
(* The background                                                          *)
(***************************************************************************)

\* The colour index of a dot; 0 is transparent.
get_colortable_index_for_tile_and_pixel(table, dot, tile) == Patterns[table][tile][dot]

nametable_base_address_for_pixel(x, y) ==
  LET beside == IF x >= Width THEN Beside(cached_nametable_address_)
                ELSE cached_nametable_address_
  IN IF y >= Height THEN Below(beside) ELSE beside

AttributesWide == (TilesWide + AttributeTiles - 1) \div AttributeTiles

\* The attribute byte of a pixel, and the quarter of it that applies.
get_palette_index_for_pixel(o) ==
  LET block == AttributeTiles * TileSize
      byte == nametable_base_address_for_pixel(o.pixel_x_, o.pixel_y_)
                + TilesWide * TilesHigh
                + (o.pixel_x_ % Width) \div block
                + ((o.pixel_y_ % Height) \div block) * AttributesWide
      Later(tile) == tile % AttributeTiles >= AttributeTiles \div 2
  IN <<byte, Later(o.tile_x_), Later(o.tile_y_)>>

\* Of a dot of the tile at ptr, with the patterns of a table.
TileColor(table, ptr, dot, palette) == <<"tile", table, ptr, dot, palette>>

TransparentTile(table, ptr, dot) ==
  get_colortable_index_for_tile_and_pixel(table, dot, Nametables[ptr]) = 0

render_pixel(o, pixel) ==
  LET dot == <<o.tile_x_pixel_, o.tile_y_pixel_>>
      table == cached_patterntable_address
  IN IF TransparentTile(table, o.nametable_ptr, dot) THEN Canvas
     ELSE draw_pixel(Canvas, pixel,
                     TileColor(table, o.nametable_ptr, dot, get_palette_index_for_pixel(o)))

-----------------------------------------------------------------------------
(***************************************************************************)
(* The sprites                                                             *)
(***************************************************************************)

\* sprite() keeps what sprite_pattern_table_address() returns in a byte: the second
\* table, at 0x1000, becomes the first.
pattern_table_base == 0

\* The tiles of a sprite, and the lines they begin at.
SpriteTiles(s) ==
  IF ~ctrl.tall THEN {<<s.tile, s.y>>}
  ELSE IF s.flip_vertical THEN {<<s.tile, s.y + TileSize>>, <<s.tile + 1, s.y>>}
  ELSE {<<s.tile, s.y>>, <<s.tile + 1, s.y + TileSize>>}

Flipped(n, flip) == IF flip THEN TileSize - n - 1 ELSE n

\* Where a dot of a sprite goes, and which dot of the pattern it is.  Positions are
\* bytes, of which the width of the picture is the range; a sprite is a line late.
SpriteDots(s) ==
  {[pixel |-> <<(s.x + p[1]) % Width, (t[2] + p[2] + 1) % Width>>,
    tile |-> t[1],
    dot |-> <<Flipped(p[1], s.flip_horizontal), Flipped(p[2], s.flip_vertical)>>]
   : p \in Dots, t \in SpriteTiles(s)}

Opaque(d) ==
  get_colortable_index_for_tile_and_pixel(pattern_table_base, d.dot, d.tile) # 0

SpriteColor(i, d) == <<"sprite", i, d.tile, d.dot>>

render_sprite(s, i, buffer) ==
  LET drawn == {d \in SpriteDots(s) : Opaque(d)}
  IN [pixel \in Pixels |->
        IF \E d \in drawn : d.pixel = pixel
        THEN Shaded(pixel, SpriteColor(i, CHOOSE d \in drawn : d.pixel = pixel))
        ELSE buffer[pixel]]

\* What becomes of a buffer at sprite i: those of the other layer and empty ones are
\* passed over.
SpriteOver(sprites, foreground, i, buffer) ==
  IF sprites[i].foreground = foreground /\ sprites[i].tile # 0
  THEN render_sprite(sprites[i], i, buffer) ELSE buffer

\* Defect: the first sprite is drawn first.
render_spritesAscending(sprites, foreground, buffer) ==
  LET Over(b, i) == SpriteOver(sprites, foreground, i, b)
  IN FoldLeftDomain(Over, buffer, sprites)

\* The last sprite is drawn first.
render_sprites(sprites, foreground, buffer) ==
  LET Over(i, b) == SpriteOver(sprites, foreground, i, b)
  IN FoldRightDomain(Over, sprites, buffer)

-----------------------------------------------------------------------------
(***************************************************************************)
(* A picture                                                               *)
(***************************************************************************)

Drawn(buffer) == offscreen_' = [offscreen_ EXCEPT ![draw_buffer_index_] = buffer]

DrawsPixel ==
  /\ is_rendering_scanline' /\ cycle_' < Width
  /\ mask.background
  /\ Drawn(render_pixel(offsets_', <<cycle_', scanline_'>>))
  /\ UNCHANGED <<sprites_, cached_patterntable_address, draw_buffer_index_, steady>>

swap_buffers == draw_buffer_index_' = 1 - draw_buffer_index_

\* The picture is complete and shown.
EndsPicture ==
  /\ check_rendering_falling_edge'
  /\ is_rendering_enabled
  /\ UNCHANGED <<sprites_, cached_patterntable_address, steady>>
  /\ Drawn(IF mask.sprites THEN render_sprites(sprites_, TRUE, Canvas) ELSE Canvas)
  /\ swap_buffers

\* The sprites of the program; empty ones at the end of OAM are left out.
read_sprite_oam == Games[game].oam

\* The blank begins: the next picture starts with the sprites behind it.
BeginsBlank ==
  /\ check_vblank_raising_edge'
  /\ cached_patterntable_address' = ctrl.table
  /\ sprites_' = IF mask.sprites THEN read_sprite_oam ELSE sprites_
  /\ LET cleared == IF mask.background THEN clear_screen(Backdrop) ELSE Canvas
     IN Drawn(IF mask.sprites THEN render_sprites(sprites_', FALSE, cleared) ELSE cleared)
  /\ steady' = TRUE
  /\ UNCHANGED draw_buffer_index_

DrawsNothing ==
  /\ ~(is_rendering_scanline' /\ cycle_' < Width /\ mask.background)
  /\ ~(check_rendering_falling_edge' /\ is_rendering_enabled)
  /\ ~check_vblank_raising_edge'
  /\ UNCHANGED picture

StepDraws == Step /\ (DrawsPixel \/ EndsPicture \/ BeginsBlank \/ DrawsNothing)

ComputeDraws == Compute /\ UNCHANGED picture

AccessDraws ==
  /\ Access
  /\ steady' = (steady /\ UNCHANGED <<ctrl, mask>>)
  /\ UNCHANGED <<sprites_, cached_patterntable_address, offscreen_, draw_buffer_index_>>

ResetDraws ==
  /\ reset
  /\ cached_patterntable_address' = ctrl.table
  /\ Drawn(clear_screen(Black))
  /\ steady' = FALSE
  /\ UNCHANGED <<sprites_, draw_buffer_index_>>

\* Nes::load_cartridge() has reset the PPU, which clears one of the buffers.
PictureInit ==
  /\ Init
  /\ sprites_ = <<>>
  /\ cached_patterntable_address = ctrl.table
  /\ draw_buffer_index_ = 0
  /\ offscreen_ = [b \in 0 .. 1 |-> IF b = 0 THEN clear_screen(Black)
                                   ELSE [pixel \in Pixels |-> Uninitialised]]
  /\ steady = FALSE

PictureNext == StepDraws \/ ComputeDraws \/ AccessDraws \/ ResetDraws

PictureSpec ==
  /\ PictureInit /\ [][PictureNext]_<<vars, picture>>
  /\ WF_<<vars, picture>>(StepDraws) /\ WF_<<vars, picture>>(ComputeDraws)

-----------------------------------------------------------------------------
(***************************************************************************)
(* Properties                                                              *)
(***************************************************************************)

\* The dot of sprite i that lies on a pixel, counted in the whole sprite, flipped
\* as a whole; a sprite lies on a pixel when it is within its height and width.
Across(s, pixel) == (pixel[1] - s.x) % Width
Down(s, pixel) == (pixel[2] - s.y - 1) % Width

SpriteDot(s, pixel) ==
  LET tall == SpriteHeight(ctrl.tall)
      row == IF s.flip_vertical THEN tall - 1 - Down(s, pixel) ELSE Down(s, pixel)
      column == IF s.flip_horizontal THEN TileSize - 1 - Across(s, pixel)
                ELSE Across(s, pixel)
  IN [pixel |-> pixel, tile |-> s.tile + row \div TileSize,
      dot |-> <<column, row % TileSize>>]

Shows(i, pixel, foreground) ==
  LET s == sprites_[i]
  IN /\ s.tile # 0 /\ s.foreground = foreground
     /\ Across(s, pixel) < TileSize /\ Down(s, pixel) < SpriteHeight(ctrl.tall)
     /\ Opaque(SpriteDot(s, pixel))

\* Without sprites: the tile under the pixel if it is opaque there.
DirectTile(pixel) ==
  LET x == pixel[1] + scroll_[1]
      y == pixel[2] + scroll_[2]
      column == (x % Width) \div TileSize
      row == (y % Height) \div TileSize
      ptr == DirectPointer(nametable_base_address(ctrl.nametable), x, y)
      half == AttributeTiles \div 2
      attributes == ptr - column - row * TilesWide + TilesWide * TilesHigh
  IN [ptr |-> ptr, dot |-> <<x % TileSize, (y % Height) % TileSize>>,
      palette |-> <<attributes + column \div AttributeTiles
                      + (row \div AttributeTiles) * AttributesWide,
                    (column \div half) % 2 = 1, (row \div half) % 2 = 1>>]

Composed(pixel) ==
  LET Showing(foreground) ==
        IF mask.sprites THEN {i \in DOMAIN sprites_ : Shows(i, pixel, foreground)} ELSE {}
      First(set) == LET i == Min(set) IN SpriteColor(i, SpriteDot(sprites_[i], pixel))
      tile == DirectTile(pixel)
  IN IF Showing(TRUE) # {} THEN First(Showing(TRUE))
     ELSE IF ~TransparentTile(ctrl.table, tile.ptr, tile.dot)
     THEN TileColor(ctrl.table, tile.ptr, tile.dot, tile.palette)
     ELSE IF Showing(FALSE) # {} THEN First(Showing(FALSE))
     ELSE Backdrop

\* A picture throughout which the program left the PPU alone is put together of the
\* right dots: over each other lie the sprites before the background, it, the sprites
\* behind it and the backdrop, "sprite with lower address wins with overlapping
\* sprites" (nes_ppu.cpp:365), tiles with the palettes of their own place in the
\* nametable.  Nothing is left of an earlier picture in the two buffers.
PictureComposed ==
  check_rendering_falling_edge /\ steady /\ mask.background =>
    \A pixel \in Pixels :
      offscreen_[1 - draw_buffer_index_][pixel] = Shaded(pixel, Composed(pixel))
=============================================================================
