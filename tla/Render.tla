------------------------------- MODULE Render -------------------------------
(***************************************************************************)
(* How ppu.c draws one scanline.  Two renderers are in the file: builds    *)
(* without MICRONES_ENABLE_RUNTIME_DIAGNOSTICS draw the background a tile  *)
(* at a time and the sprites over it, from rows of pixels decoded when the *)
(* cartridge was loaded (the row cache of cart.c, nrom.c and nrom.h); the  *)
(* others take each pixel by itself, the background from the two planes.   *)
(* One row of each name table is modelled; a colour is its palette index.  *)
(*                                                                         *)
(* Cartridges of mapper 9 are not among those modelled.  Their CHR banks   *)
(* are moved by the reading itself (mmc2_latch_update in nrom_ppu_read and *)
(* nrom_ppu_row_pixels), in the middle of a line, and the two renderers    *)
(* read in different orders: they need not draw the same line.  With every *)
(* other mapper reading changes nothing.                                   *)
(***************************************************************************)
EXTENDS Integers, Sequences, FiniteSetsExt

CONSTANTS
  TileWidth, TileHeight, \* 8 and 8
  Columns,               \* tiles in a row of a name table (32)
  TableTiles,            \* tiles in a pattern table (256)
  MaxScanlineSprites,    \* PPU_MAX_SCANLINE_SPRITES (8)
  Height,                \* scanlines that are drawn (240)
  NameTables,            \* [0 .. 1 -> [0 .. Columns - 1 -> tile]]
  Attributes,            \* the same, to palettes: one of every two columns
  Cartridges,            \* what may be in the pattern memory: [tile -> [row -> planes]]
  Oams,                  \* sequences of sprites
  Scenes,                \* records of the registers (see Registers)
  Changes,               \* what a register write may do: records of some of them
  Patterns,              \* [tile, row, plane, byte]: writes to CHR RAM
  MaxChanges, MaxLines   \* bounds: writes and lines in a behaviour

Width == Columns * TileWidth

ASSUME SizeAssumption ==
  /\ {TileWidth, TileHeight, TableTiles, MaxScanlineSprites, Height} \subseteq Nat \ {0}
  /\ TileWidth <= 8        \* a plane of a row is a byte
  /\ Columns \in Nat \ {0, 1, 2}

VARIABLES
  scene,   \* the registers, the scroll latched for the line, and the mapper
  oam,     \* the sprites
  chr,     \* chr_data: the two planes of each row of each tile
  rows,    \* chr_row_pixels, or NoCache when it would have been too large
  line,    \* the scanline drawn last: pixels and sprite 0 hit, and its number
  work     \* history: changes and lines so far

renderVars == <<scene, oam, chr, rows, line, work>>

\* What each of them may hold
Ranges == [show |-> SUBSET {"bg", "bgLeft", "sprites", "spritesLeft"},
           fineX |-> 0 .. TileWidth - 1, coarseX |-> Nat, table |-> 0 .. 3, row |-> 0 .. TileHeight - 1,
           tall |-> BOOLEAN, bgTable |-> {0, 1}, spTable |-> {0, 1},
           mirror |-> {"horizontal", "vertical", "lower", "upper"}, bank |-> Nat]
Registers == DOMAIN Ranges
InRange(c) == DOMAIN c \subseteq Registers /\ \A r \in DOMAIN c : c[r] \in Ranges[r]

OamSprite == [x : Nat, y : Int, tile : Nat, palette : Nat, behind : BOOLEAN, flipH : BOOLEAN, flipV : BOOLEAN]
IsCartridge(data) ==
  /\ Cardinality(DOMAIN data) \in Nat \ {0}
  /\ data \in [0 .. Cardinality(DOMAIN data) - 1 -> [0 .. TileHeight - 1 -> [low : Nat, high : Nat]]]

\* What is given has the types of the program's tables and registers.
ASSUME PictureAssumption ==
  /\ NameTables \in [0 .. 1 -> [0 .. Columns - 1 -> Nat]]
  /\ \A p \in 0 .. 1, column \in 0 .. Columns - 1 : Attributes[p][(column \div 2) * 2] \in Nat
  /\ \A s \in Scenes : DOMAIN s = Registers /\ InRange(s)
  /\ \A c \in Changes : InRange(c)
  /\ \A data \in Cartridges : IsCartridge(data)
  /\ Oams \subseteq Seq(OamSprite)
  /\ Patterns \subseteq [tile : Nat, row : 0 .. TileHeight - 1, plane : {"low", "high"}, byte : Nat]

NoCache == <<>>
Universal == 0
Row == 0 .. Width - 1

-----------------------------------------------------------------------------
(* Patterns.                                                               *)

Bit(byte, px) == (byte \div 2 ^ (TileWidth - 1 - px)) % 2
Decoded(planes) == [px \in 0 .. TileWidth - 1 |-> 2 * Bit(planes.high, px) + Bit(planes.low, px)]

\* cart_build_chr_row_cache, cart_rebuild_chr_row_cache
DecodedAll(data) == [t \in DOMAIN data |-> [r \in DOMAIN data[t] |-> Decoded(data[t][r])]]

\* mapper_chr_addr, but of mapper 9: a bank is both pattern tables, and banks
\* repeat.
Mapped(tile) == (scene.bank * 2 * TableTiles + tile) % Cardinality(DOMAIN chr)

\* nrom_ppu_row_pixels, without the latches of mapper 9
RowPixels(tile, row) ==
  IF rows = NoCache THEN Decoded(chr[Mapped(tile)][row]) ELSE rows[Mapped(tile)][row]

\* nrom_ppu_read, twice, without the latches of mapper 9
PlanePixel(tile, row, px) ==
  LET planes == chr[Mapped(tile)][row] IN 2 * Bit(planes.high, px) + Bit(planes.low, px)

-----------------------------------------------------------------------------
(* Where a tile of the background comes from.                              *)

\* k_nt_phys
NtPhys == [horizontal |-> <<0, 0, 1, 1>>, vertical |-> <<0, 1, 0, 1>>,
           lower |-> <<0, 0, 0, 0>>, upper |-> <<1, 1, 1, 1>>]

\* ppu_nametable_index
NametableIndex(table) ==
  CASE scene.mirror = "vertical" -> table % 2
    [] scene.mirror = "horizontal" -> table \div 2
    [] scene.mirror = "upper" -> 1
    [] OTHER -> 0

\* Past the right edge the table beside it goes on.
EffectiveTable(column) ==
  IF (column \div Columns) % 2 = 1
  THEN IF scene.table % 2 = 0 THEN scene.table + 1 ELSE scene.table - 1
  ELSE scene.table

BgTile(physical, column) == scene.bgTable * TableTiles + NameTables[physical][column % Columns]
BgPalette(physical, column) == Attributes[physical][((column % Columns) \div 2) * 2]
BgColor(palette, bits) == 4 * palette + bits

-----------------------------------------------------------------------------
(* Sprites.                                                                *)

SpriteHeight == IF scene.tall THEN 2 * TileHeight ELSE TileHeight
Intersects(o, y) == y >= o.y + 1 /\ y < o.y + 1 + SpriteHeight

\* ppu_collect_scanline_sprites: the first ones, by their number in OAM.
Collected(y) ==
  LET here == {i \in DOMAIN oam : Intersects(oam[i], y)}
  IN  {i \in here : "sprites" \in scene.show /\ Cardinality({j \in here : j < i}) < MaxScanlineSprites}

SpriteRow(o, y) ==
  LET down == y - (o.y + 1)
      at == IF o.flipV THEN SpriteHeight - 1 - down ELSE down
  IN  IF scene.tall
      THEN [tile |-> (o.tile % 2) * TableTiles + (o.tile - (o.tile % 2)) + at \div TileHeight,
            row |-> at % TileHeight]
      ELSE [tile |-> scene.spTable * TableTiles + o.tile, row |-> at]

SpriteColor(o, bits) == 16 + 4 * o.palette + bits

-----------------------------------------------------------------------------
(* The renderer of the release builds, over a row with its surroundings:   *)
(* what it puts outside Row would be in somebody else's memory.            *)

Canvas == -TileWidth .. Width + TileWidth - 1

(* Mutant: the second tile is not clipped either.                          *)
UnclippedFromFirst(group) == group - 1 \in 0 .. Columns - 2

\* The groups whose pixels are all on the screen, right of the left mask.
Unclipped(group) == group - 2 \in 0 .. Columns - 3

PaintedBackground ==
  LET group(x) == (x + scene.fineX) \div TileWidth
      column(x) == scene.coarseX + group(x)
      physical(x) == NtPhys[scene.mirror][EffectiveTable(column(x)) + 1]
      bits(x) == RowPixels(BgTile(physical(x), column(x)), scene.row)[x + scene.fineX - group(x) * TileWidth]
      drawn(x) == /\ "bg" \in scene.show /\ group(x) \in 0 .. Columns
                  /\ Unclipped(group(x))
                       \/ (x \in Row /\ (x >= TileWidth \/ "bgLeft" \in scene.show))
                  /\ bits(x) # 0
  IN  [x \in Canvas |-> IF drawn(x) THEN BgColor(BgPalette(physical(x), column(x)), bits(x)) ELSE Universal]

\* The pixels where it is the first with a colour are its own, shown or not.
PaintSprite(l, i, y) ==
  LET o == oam[i]
      at == SpriteRow(o, y)
      left == IF "spritesLeft" \notin scene.show /\ o.x < TileWidth THEN TileWidth ELSE o.x
      right == IF o.x + TileWidth > Width THEN Width ELSE o.x + TileWidth
      bits(x) == RowPixels(at.tile, at.row)[IF o.flipH THEN TileWidth - 1 - (x - o.x) ELSE x - o.x]
      claimed == {x \in left .. right - 1 : bits(x) # 0 /\ x \notin l.claimed}
      front == {x \in claimed : ~o.behind \/ x \notin l.opaque}
  IN  [l EXCEPT !.claimed = @ \cup claimed,
                !.hit = @ \/ (i = 1 /\ \E x \in claimed \cap l.opaque : x < Width - 1),
                !.dst = [x \in Canvas |-> IF x \in front THEN SpriteColor(o, bits(x)) ELSE @[x]]]

\* The sprites by their number: each over what the ones before it left.
Painted(y) ==
  LET background == PaintedBackground
      start == [dst |-> background, claimed |-> {}, hit |-> FALSE,
                opaque |-> {x \in Canvas : background[x] # Universal}]
  IN  MapThenFoldSet(LAMBDA i, l : PaintSprite(l, i, y), start, LAMBDA i : i, Max, Collected(y))

-----------------------------------------------------------------------------
(* The renderer of the diagnostic builds: one pixel.                       *)

Clear == [opaque |-> FALSE, color |-> Universal]

\* The branch of ppu_render_scanline; ppu_background_pixel
BackgroundPixel(x) ==
  LET total == scene.fineX + x
      column == scene.coarseX + total \div TileWidth
      physical == NametableIndex(EffectiveTable(column))
      bits == PlanePixel(BgTile(physical, column), scene.row, total % TileWidth)
  IN  IF "bg" \in scene.show /\ (x >= TileWidth \/ "bgLeft" \in scene.show) /\ bits # 0
      THEN [opaque |-> TRUE, color |-> BgColor(BgPalette(physical, column), bits)]
      ELSE Clear

\* ppu_sample_sprite_pixel_internal
OpaqueAt(o, x, y) ==
  /\ x \in o.x .. o.x + TileWidth - 1
  /\ x < TileWidth => "spritesLeft" \in scene.show
SpriteBits(o, x, y) ==
  LET at == SpriteRow(o, y)
  IN  RowPixels(at.tile, at.row)[IF o.flipH THEN TileWidth - 1 - (x - o.x) ELSE x - o.x]

\* ppu_visible_sprite_pixel: the sprites with a colour there.
SpritesAt(x, y) == {i \in Collected(y) : OpaqueAt(oam[i], x, y) /\ SpriteBits(oam[i], x, y) # 0}

Pixel(x, y) ==
  LET background == BackgroundPixel(x)
      sprites == SpritesAt(x, y)
      o == oam[Min(sprites)]
  IN  IF sprites # {} /\ (~o.behind \/ ~background.opaque)
      THEN SpriteColor(o, SpriteBits(o, x, y)) ELSE background.color

Hit(y) ==
  \E x \in 0 .. Width - 2 :
    BackgroundPixel(x).opaque /\ SpritesAt(x, y) # {} /\ Min(SpritesAt(x, y)) = 1

-----------------------------------------------------------------------------
RenderInit ==
  /\ scene \in Scenes /\ oam \in Oams /\ chr \in Cartridges
  /\ rows \in {NoCache, DecodedAll(chr)}
  /\ line = [y |-> -1, dst |-> [x \in Canvas |-> Universal], hit |-> FALSE]
  /\ work = [changes |-> 0, lines |-> 0]

Changing == work.changes < MaxChanges /\ work' = [work EXCEPT !.changes = @ + 1]

\* Register writes and the latch at the start of a line (see Ppu), as what
\* they leave to draw from; also the mapper's banks and its mirroring.
Change(c) ==
  /\ Changing
  /\ scene' = [r \in Registers |-> IF r \in DOMAIN c THEN c[r] ELSE scene[r]]
  /\ UNCHANGED <<oam, chr, rows, line>>

OamDma(o) == Changing /\ oam' = o /\ UNCHANGED <<scene, chr, rows, line>>

RowsWritten(p) ==
  IF rows = NoCache THEN rows
  ELSE [rows EXCEPT ![Mapped(p.tile)][p.row] = Decoded([chr[Mapped(p.tile)][p.row] EXCEPT ![p.plane] = p.byte])]

\* nrom_ppu_write
PatternWrite(p) ==
  /\ Changing
  /\ chr' = [chr EXCEPT ![Mapped(p.tile)][p.row][p.plane] = p.byte]
  /\ rows' = RowsWritten(p)
  /\ UNCHANGED <<scene, oam, line>>

\* A save state brings back all of it, and the cache is decoded again.
Restore(data) ==
  /\ Changing /\ chr' = data
  /\ rows' = IF rows = NoCache THEN rows ELSE DecodedAll(data)
  /\ scene' \in Scenes /\ oam' \in Oams
  /\ UNCHANGED line

\* ppu_render_scanline; sprite 0's hit stays to the end of the frame.
RenderLine ==
  /\ work.lines < MaxLines /\ work' = [work EXCEPT !.lines = @ + 1]
  /\ line.y < Height - 1
  /\ LET l == Painted(line.y + 1)
     IN  line' = [y |-> line.y + 1, dst |-> l.dst, hit |-> line.hit \/ l.hit]
  /\ UNCHANGED <<scene, oam, chr, rows>>

\* Line 261
PreRender ==
  /\ line.y = Height - 1 /\ line' = [line EXCEPT !.y = -1, !.hit = FALSE]
  /\ UNCHANGED <<scene, oam, chr, rows, work>>

RenderNext ==
  \/ \E c \in Changes : Change(c)
  \/ \E o \in Oams : OamDma(o)
  \/ \E p \in Patterns : PatternWrite(p)
  \/ \E data \in Cartridges : Restore(data)
  \/ RenderLine \/ PreRender

-----------------------------------------------------------------------------
(* A line drawn by tiles from the row cache has the pixels, and the hit of *)
(* sprite 0, of the same line drawn pixel by pixel with the background of  *)
(* the pattern memory itself, and nothing is drawn outside the row: over   *)
(* scrolling, mirroring, masks, banks, writes to CHR RAM between lines and *)
(* restored states, for cartridges of every mapper but 9, whose banks move *)
(* within a line.                                                          *)
SameLine ==
  [][line'.y > line.y =>
       /\ \A x \in Canvas : line'.dst[x] = IF x \in Row THEN Pixel(x, line'.y) ELSE Universal
       /\ line'.hit = (line.hit \/ Hit(line'.y))]_renderVars
=============================================================================
