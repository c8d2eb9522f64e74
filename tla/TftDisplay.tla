----------------------------- MODULE TftDisplay -----------------------------
(***************************************************************************)
(* The picture on a TFT panel of the Pico: what is sent of a frame         *)
(* (src/pico/display/video_tft.c), when (src/pico/main.c), and how it goes *)
(* over the bus: SPI (display_spi_ili9341.c), or eight parallel lines that *)
(* a state machine of the PIO drives from a FIFO                           *)
(* (display_parallel_8080.c), while the processor goes on.                 *)
(*                                                                         *)
(* A call computes what it sends and puts it in todo, one operation on the *)
(* bus after the other.  Commands, coordinates and colours are numbers:    *)
(* only the RS line tells the panel which is which.  A coordinate and a    *)
(* pixel are one byte each.  Every frame is interlaced, as nobody turns    *)
(* that off.                                                               *)
(***************************************************************************)
EXTENDS Integers, Sequences, FiniteSets, FiniteSetsExt, SequencesExt

CONSTANTS Buses,         \* a subset of {"spi", "parallel"}
          FrameWidth, FrameHeight,  \* of a frame; a chunk is two pixels wide
          PanelWidth, PanelHeight, ViewX, ViewY,
          Pictures,      \* frames: rows of palette indices
          Colour,        \* the colour of a palette index
          Bars,          \* the colours of the test pattern
          BarRects,      \* its small rectangles: [x, y, w, h, colour]
          Setup,         \* the commands of the controller: <<command, data>>
          DmaThreshold,  \* pixels of a row that are worth a DMA transfer
          FifoDepth,
          MaxPictures    \* bound: the frames of a behaviour

ASSUME TftAssumption ==
    /\ Buses \subseteq {"spi", "parallel"}
    /\ FrameWidth \in Nat \ {0} /\ FrameWidth % 2 = 0 /\ FrameHeight \in Nat \ {0}
    /\ ViewX + FrameWidth <= PanelWidth /\ ViewY + FrameHeight <= PanelHeight
    /\ FifoDepth \in Nat \ {0} /\ MaxPictures \in Nat

VARIABLES bus,   \* the transport of this build
          tft,   \* prev: s_prev_frame_be; valid, parity
          todo,  \* the operations on the bus the current call still makes
          wire,  \* rs, cs; fifo and out: what the PIO has not yet clocked out
          glass, \* the panel: the command it is in, its window, its pixels
          run    \* the main loop: where it is, the last two frames presented,
                 \* skip: s_skip_present; n: the frames so far
tftVars == <<bus, tft, todo, wire, glass, run>>

PictureColumns == 0 .. FrameWidth - 1
PictureRows == 0 .. FrameHeight - 1
CASET == 42
PASET == 43
RAMWR == 44
NONE == -1

----------------------------------------------------------------------------
(* The transports, as operations: the RS line is set, on the parallel bus  *)
(* after the PIO is through with what it has (wait); chip select is moved; *)
(* a byte is sent.                                                         *)
Rs(v, wait) == <<[op |-> "rs", v |-> v, wait |-> wait]>>
Cs(v) == IF bus = "spi" THEN <<[op |-> "cs", v |-> v]>> ELSE <<>>
Bytes(data) == [k \in DOMAIN data |-> [op |-> "put", v |-> data[k]]]

WriteCommand(c) == Rs(0, bus = "parallel") \o Cs(0) \o Bytes(<<c>>) \o Cs(1)
WriteData(data) == Rs(1, bus = "parallel") \o Cs(0) \o Bytes(data) \o Cs(1)
BeginPixels == Rs(1, bus = "parallel") \o Cs(0)
EndPixels == Cs(1)

(* A row of pixels: by DMA, which does not wait for the PIO, or not.       *)
WritePixels(row) ==
    (IF bus = "spi" THEN <<>> ELSE Rs(1, Len(row) < DmaThreshold)) \o Bytes(row)

(* tft_controller_write_standard_window                                    *)
Window(x0, y0, x1, y1) ==
    WriteCommand(CASET) \o WriteData(<<x0, x1>>) \o WriteCommand(PASET) \o WriteData(<<y0, y1>>)
      \o WriteCommand(RAMWR)

(* video_tft_blit_rect_rgb565; a rectangle of one colour is filled so too. *)
Blit(x, y, rows) ==
    Window(x, y, x + Len(rows[1]) - 1, y + Len(rows) - 1)
      \o BeginPixels \o FlattenSeq([k \in DOMAIN rows |-> WritePixels(rows[k])]) \o EndPixels
FillRect(r) == Blit(r.x, r.y, [j \in 1 .. r.h |-> [i \in 1 .. r.w |-> r.colour]])

(* tft_controller_run_init_sequence                                        *)
InitSequence ==
    FlattenSeq([k \in DOMAIN Setup |-> WriteCommand(Setup[k][1])
                  \o (IF Setup[k][2] = <<>> THEN <<>> ELSE WriteData(Setup[k][2]))])

----------------------------------------------------------------------------
(* video_tft.c                                                             *)
Converted(f) == [y \in PictureRows |-> [x \in PictureColumns |-> Colour[f[y][x]]]]
Part(picture, x0, y0, x1, y1) ==
    [j \in 1 .. y1 - y0 + 1 |-> [i \in 1 .. x1 - x0 + 1 |-> picture[y0 + j - 1][x0 + i - 1]]]

(* The chunks of a row that differ.                                        *)
DirtyChunks(row, old) ==
    {c \in 0 .. FrameWidth \div 2 - 1 : row[2 * c] # old[2 * c] \/ row[2 * c + 1] # old[2 * c + 1]}

(* The rows that were found to differ replace those of the frame before.   *)
Freshened(new, rows) == [y \in PictureRows |-> IF y \in rows THEN new[y] ELSE tft.prev[y]]

(* video_tft_present_frame: the first frame whole; then what differs in    *)
(* every second row, as one rectangle, for which the other rows are taken  *)
(* from the frame before.                                                  *)
Present(f, skip) ==
    LET new   == Converted(f)
        rows  == {y \in PictureRows : y % 2 = tft.parity /\ DirtyChunks(new[y], tft.prev[y]) # {}}
        dirty == UNION {DirtyChunks(new[y], tft.prev[y]) : y \in rows}
        prev  == Freshened(new, rows)
        x0 == 2 * Min(dirty)
        x1 == 2 * Max(dirty) + 1
    IN  /\ tft' = [prev |-> IF tft.valid THEN prev ELSE new, valid |-> TRUE, parity |-> 1 - tft.parity]
        /\ todo' = IF ~tft.valid THEN Blit(ViewX, ViewY, Part(new, 0, 0, FrameWidth - 1, FrameHeight - 1))
                   ELSE IF rows = {} THEN <<>>
                   ELSE Blit(ViewX + x0, ViewY + Min(rows), Part(prev, x0, Min(rows), x1, Max(rows)))
        /\ run' = [run EXCEPT !.last = f, !.before = IF tft.valid THEN run.last ELSE f,
                              !.n = @ + 1, !.skip = skip]

(* video_tft_draw_test_pattern *)
TestPattern ==
    FillRect([x |-> 0, y |-> 0, w |-> PanelWidth, h |-> PanelHeight, colour |-> 0])
      \o Blit(ViewX, ViewY, [j \in 1 .. FrameHeight |->
                               [i \in 1 .. FrameWidth |-> Bars[((i - 1) * Len(Bars)) \div FrameWidth + 1]]])
      \o FlattenSeq([k \in DOMAIN BarRects |-> FillRect([BarRects[k] EXCEPT !.x = @ + ViewX, !.y = @ + ViewY])])

----------------------------------------------------------------------------
(* The main loop.                                                          *)
Ready == run.at = "loop" /\ todo = <<>>

(* A frame of the menu is always presented, one of a game is not when the  *)
(* frame before it was late; whether it is late itself shows only then.    *)
MenuFrame ==
    /\ Ready /\ run.n < MaxPictures
    /\ \E f \in Pictures : Present(f, run.skip)
    /\ UNCHANGED <<bus, wire, glass>>
GameFrame ==
    /\ Ready /\ run.n < MaxPictures
    /\ \E late \in BOOLEAN :
         IF run.skip THEN UNCHANGED <<tft, todo>> /\ run' = [run EXCEPT !.n = @ + 1, !.skip = late]
         ELSE \E f \in Pictures : Present(f, late)
    /\ UNCHANGED <<bus, wire, glass>>

(* The console fails: the test pattern, for good.                          *)
ConsoleFails ==
    /\ Ready
    /\ todo' = TestPattern /\ tft' = [tft EXCEPT !.valid = FALSE] /\ run' = [run EXCEPT !.at = "failed"]
    /\ UNCHANGED <<bus, wire, glass>>

----------------------------------------------------------------------------
(* The bus.                                                                *)

(* parallel_tft_flush_pio: the state machine stalls, all is clocked out.   *)
PioIdle == wire.fifo = <<>> /\ wire.out = NONE

SetRs ==
    /\ todo # <<>> /\ Head(todo).op = "rs"
    /\ Head(todo).wait => PioIdle
    /\ wire' = [wire EXCEPT !.rs = Head(todo).v] /\ todo' = Tail(todo)
    /\ UNCHANGED <<bus, tft, glass, run>>
SetCs ==
    /\ todo # <<>> /\ Head(todo).op = "cs"
    /\ wire' = [wire EXCEPT !.cs = Head(todo).v] /\ todo' = Tail(todo)
    /\ UNCHANGED <<bus, tft, glass, run>>

(* The panel takes a byte for a command or for its data as RS says.        *)
Latch(g, v) ==
    LET args == Append(g.args, v)
        next == IF g.x < g.window.x1 THEN <<g.x + 1, g.y>>
                ELSE <<g.window.x0, IF g.y < g.window.y1 THEN g.y + 1 ELSE g.window.y0>>
    IN  IF wire.rs = 0
        THEN [g EXCEPT !.cmd = v, !.args = <<>>, !.x = g.window.x0, !.y = g.window.y0,
                       !.mode = IF v \in {CASET, PASET, RAMWR} THEN @ ELSE Append(@, <<v, <<>>>>)]
        ELSE CASE g.cmd = CASET -> [g EXCEPT !.args = args,
                     !.window = IF Len(args) = 2 THEN [@ EXCEPT !.x0 = args[1], !.x1 = args[2]] ELSE @]
               [] g.cmd = PASET -> [g EXCEPT !.args = args,
                     !.window = IF Len(args) = 2 THEN [@ EXCEPT !.y0 = args[1], !.y1 = args[2]] ELSE @]
               [] g.cmd = RAMWR -> [g EXCEPT !.pix[<<g.x, g.y>>] = v, !.x = next[1], !.y = next[2]]
               [] OTHER -> IF g.mode = <<>> THEN g ELSE [g EXCEPT !.mode[Len(g.mode)][2] = Append(@, v)]

SpiPut ==
    /\ bus = "spi" /\ todo # <<>> /\ Head(todo).op = "put"
    /\ glass' = IF wire.cs = 0 THEN Latch(glass, Head(todo).v) ELSE glass
    /\ todo' = Tail(todo)
    /\ UNCHANGED <<bus, tft, wire, run>>

FifoPut ==
    /\ bus = "parallel" /\ todo # <<>> /\ Head(todo).op = "put"
    /\ Len(wire.fifo) < FifoDepth
    /\ wire' = [wire EXCEPT !.fifo = Append(@, Head(todo).v)] /\ todo' = Tail(todo)
    /\ UNCHANGED <<bus, tft, glass, run>>

(* parallel_tft.pio: the byte is put on the pins; the panel takes it when  *)
(* WR rises.                                                               *)
PioOut ==
    /\ wire.fifo # <<>> /\ wire.out = NONE
    /\ wire' = [wire EXCEPT !.fifo = Tail(@), !.out = Head(wire.fifo)]
    /\ UNCHANGED <<bus, tft, todo, glass, run>>
PioStrobe ==
    /\ wire.out # NONE
    /\ glass' = Latch(glass, wire.out) /\ wire' = [wire EXCEPT !.out = NONE]
    /\ UNCHANGED <<bus, tft, todo, run>>

----------------------------------------------------------------------------
PanelPixels == (0 .. PanelWidth - 1) \X (0 .. PanelHeight - 1)

(* The panel was just reset; nobody knows what its memory holds.           *)
TftInit ==
    /\ bus \in Buses
    /\ tft = [prev |-> [y \in PictureRows |-> [x \in PictureColumns |-> 0]], valid |-> FALSE, parity |-> 0]
    /\ todo = InitSequence
    /\ wire = [rs |-> 1, cs |-> 1, fifo |-> <<>>, out |-> NONE]
    /\ glass = [cmd |-> 0, args |-> <<>>, window |-> [x0 |-> 0, x1 |-> 0, y0 |-> 0, y1 |-> 0],
                x |-> 0, y |-> 0, pix |-> [p \in PanelPixels |-> NONE], mode |-> <<>>]
    /\ run = [at |-> "loop", last |-> NONE, before |-> NONE, skip |-> FALSE, n |-> 0]

TftNext ==
    \/ MenuFrame \/ GameFrame \/ ConsoleFails
    \/ SetRs \/ SetCs \/ SpiPut \/ FifoPut \/ PioOut \/ PioStrobe

----------------------------------------------------------------------------
InView(p) == p[1] - ViewX \in PictureColumns /\ p[2] - ViewY \in PictureRows

(* What the test pattern looks like.                                       *)
PatternAt(p) ==
    LET in(r) == p[1] - ViewX - r.x \in 0 .. r.w - 1 /\ p[2] - ViewY - r.y \in 0 .. r.h - 1
        over  == {k \in DOMAIN BarRects : in(BarRects[k])}
    IN  IF over # {} THEN BarRects[Max(over)].colour
        ELSE IF InView(p) THEN Bars[((p[1] - ViewX) * Len(Bars)) \div FrameWidth + 1] ELSE 0

(* When everything is clocked out, every byte was taken for what it was:   *)
(* the controller is set up, and the panel shows what the driver believes  *)
(* it shows, nothing of it outside the viewport; no row is older than the  *)
(* frame before the last one, and so a picture that stays is on the panel  *)
(* whole when it was presented twice, whatever was skipped in between.     *)
PanelShowsFrames ==
    todo = <<>> /\ PioIdle =>
      /\ glass.mode = Setup
      /\ run.at = "failed" => \A p \in PanelPixels : glass.pix[p] = PatternAt(p)
      /\ run.at = "loop" =>
           \A p \in PanelPixels :
             glass.pix[p] = IF InView(p) /\ tft.valid THEN tft.prev[p[2] - ViewY][p[1] - ViewX] ELSE NONE
      /\ tft.valid => \A y \in PictureRows :
                         tft.prev[y] \in {Converted(run.last)[y], Converted(run.before)[y]}
=============================================================================
