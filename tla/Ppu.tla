--------------------------------- MODULE Ppu ---------------------------------
(***************************************************************************)
(* The picture unit, src/common/ppu.c: its registers, its scroll           *)
(* addresses, and the stepping of dots, in which lines and frames end.     *)
(*                                                                         *)
(* The operators take the state m of the console (see Nes) and use m.ppu   *)
(* and m.cart.  What a line shows is left out: a rendered line is its      *)
(* number and its frame.  Scroll addresses (v, t) are numbers, as in the   *)
(* code: coarse x in bits 0-4, coarse y in bits 5-9, the name table in     *)
(* bits 10-11, fine y in bits 12-14.                                       *)
(*                                                                         *)
(* A memory is a function on the addresses that do not hold 0.             *)
(***************************************************************************)
EXTENDS Mappers

CONSTANTS
  DotsPerLine,   \* 341
  DrawnDots,     \* NES_FRAME_WIDTH (256)
  Height,        \* NES_FRAME_HEIGHT (240)
  VBlankLine,    \* 241
  LastLine       \* 261

\* The longest step is an instruction of 8 cycles: 24 dots.  A line is
\* longer, so that a step ends at most one.
LongestStep == 24

ASSUME GeometryAssumption ==
  /\ {DotsPerLine, DrawnDots, Height, VBlankLine, LastLine} \subseteq Nat
  /\ LongestStep < DotsPerLine /\ DrawnDots < DotsPerLine
  /\ 0 < Height /\ Height < VBlankLine /\ VBlankLine < LastLine

At(mem, a) == IF a \in DOMAIN mem THEN mem[a] ELSE 0
Put(mem, a, v) ==
  [x \in (DOMAIN mem \ {a}) \union (IF v = 0 THEN {} ELSE {a}) |->
     IF x = a THEN v ELSE mem[x]]

-----------------------------------------------------------------------------
(* The bits of a scroll address. *)

Horizontal(v) == (v % 32) + 1024 * Bit(v, 10)
Vertical(v) == 32 * Field(v, 5, 5) + 2048 * Field(v, 11, 4)

CopyHorizontal(ppu) == [ppu EXCEPT !.v = (@ - Horizontal(@)) + Horizontal(ppu.t)]
CopyVertical(ppu) == [ppu EXCEPT !.v = (@ - Vertical(@)) + Vertical(ppu.t)]
LatchRender(ppu) == [ppu EXCEPT !.rv = ppu.v, !.rx = ppu.fineX]

FineY(v) == Field(v, 12, 3)
CoarseY(v) == Field(v, 5, 5)

(* Mutant: the rows of the attribute table are drawn as tiles.             *)
IncrementYTo31(v) ==
  IF FineY(v) # 7 THEN v + 4096
  ELSE LET top == v - 28672
       IN  IF CoarseY(v) = 31
           THEN (top - 32 * 31) + (IF Bit(v, 11) = 0 THEN 2048 ELSE -2048)
           ELSE top + 32

IncrementY(v) ==
  IF FineY(v) # 7 THEN v + 4096
  ELSE LET top == v - 28672
       IN  CASE CoarseY(v) = 29 -> (top - 32 * 29) + (IF Bit(v, 11) = 0 THEN 2048 ELSE -2048)
             [] CoarseY(v) = 31 -> top - 32 * 31
             [] OTHER -> top + 32

Showing(ppu) == Field(ppu.mask, 3, 2) # 0
Drawing(ppu) == ppu.scanline < Height

\* A write to a scroll register takes effect at once where the line is
\* drawn, which the code judges by a cycle that its fast path leaves behind.
Refreshed(ppu) ==
  IF Showing(ppu) /\ Drawing(ppu) /\ ppu.cycle > 0 /\ ppu.cycle <= DrawnDots
  THEN LatchRender(CopyHorizontal(ppu)) ELSE ppu

-----------------------------------------------------------------------------
(* The video memory, addressed by v. *)

PaletteIndex(a) == LET i == a % 32 IN IF i \in {16, 20, 24, 28} THEN i - 16 ELSE i

NametableIndex(cart, a) ==
  LET table == Field(a, 10, 2)
      page == CASE cart.mirror = "vertical" -> table % 2
                [] cart.mirror = "horizontal" -> table \div 2
                [] cart.mirror = "upper" -> 1
                [] cart.mirror = "lower" -> 0
  IN  1024 * page + (a % 1024)

\* A byte of CHR memory is the address it is at, or what was written there.
ChrCell(cart, a) == 1024 * ChrBankOf(cart, a) + (a % 1024)

VramRead(m, addr) ==
  LET a == addr % 16384
      Chr(cell) == IF m.cart.chrRam THEN At(m.chr, cell) ELSE cell % 256
  IN  CASE a < 8192 -> Chr(ChrCell(m.cart, a))
        [] a \in 8192 .. 16127 -> At(m.ppu.nt, NametableIndex(m.cart, a))
        [] a > 16127 -> At(m.ppu.pal, PaletteIndex(a))

VramWrite(m, addr, v) ==
  LET a == addr % 16384
  IN  CASE a < 8192 -> IF m.cart.chrRam THEN [m EXCEPT !.chr = Put(@, ChrCell(m.cart, a), v)]
                       ELSE m
        [] a > 16127 -> [m EXCEPT !.ppu.pal = Put(@, PaletteIndex(a), v)]
        [] OTHER -> [m EXCEPT !.ppu.nt = Put(@, NametableIndex(m.cart, a), v)]

\* Reading a pattern moves the latches of mapper 9.
VramTouch(m, addr) ==
  IF m.cart.mapper = 9 /\ addr % 16384 < 8192
  THEN [m EXCEPT !.cart = Mmc2Latch(@, addr % 16384)] ELSE m

Advance(ppu) == [ppu EXCEPT !.v = (@ + (IF Bit(ppu.ctrl, 2) = 1 THEN 32 ELSE 1)) % 65536]

-----------------------------------------------------------------------------
(* The registers, 0 to 7.  A read returns the value and the console. *)

Result(m, v) == [m |-> m, v |-> v]

\* The palette is read at once, and what lies below it into the buffer.
ReadData(m) ==
  LET below == (m.ppu.v + 61440) % 65536
      Buffered(at, v) == [at EXCEPT !.ppu = [Advance(@) EXCEPT !.buffer = v]]
      Read(touched, v) ==
        IF m.ppu.v % 16384 >= 16128
        THEN Result(Buffered(VramTouch(touched, below), VramRead(touched, below)), v)
        ELSE Result(Buffered(touched, v), m.ppu.buffer)
  IN  Read(VramTouch(m, m.ppu.v), VramRead(m, m.ppu.v))

PpuRead(m, reg) ==
  CASE reg = 2 -> Result([m EXCEPT !.ppu.status = @ % 128, !.ppu.w = FALSE],
                         (m.ppu.status - (m.ppu.status % 32)) + (m.ppu.buffer % 32))
    [] reg = 4 -> Result(m, At(m.ppu.oam, m.ppu.oamAddr))
    [] reg = 7 -> ReadData(m)
    [] OTHER -> Result(m, 0)

WriteCtrl(ppu, v) ==
  Refreshed([ppu EXCEPT !.ctrl = v, !.t = (@ - 1024 * Field(@, 10, 2)) + 1024 * (v % 4)])

WriteScroll(ppu, v) ==
  Refreshed(IF ~ppu.w
            THEN [ppu EXCEPT !.w = TRUE, !.fineX = v % 8, !.t = (@ - (@ % 32)) + (v \div 8)]
            ELSE [ppu EXCEPT !.w = FALSE,
                    !.t = (@ - (32 * CoarseY(@) + 4096 * FineY(@)))
                          + (32 * (v \div 8) + 4096 * (v % 8))])

WriteAddr(ppu, v) ==
  LET t == 256 * (ppu.t \div 256) + v
  IN  Refreshed(IF ~ppu.w
                THEN [ppu EXCEPT !.w = TRUE, !.t = (@ % 256) + 256 * (v % 64)]
                ELSE [ppu EXCEPT !.w = FALSE, !.t = t, !.v = t])

PpuWrite(m, reg, v) ==
  CASE reg = 0 -> [m EXCEPT !.ppu = WriteCtrl(@, v)]
    [] reg = 1 -> [m EXCEPT !.ppu.mask = v]
    [] reg = 3 -> [m EXCEPT !.ppu.oamAddr = v]
    [] reg = 4 -> [m EXCEPT !.ppu.oam = Put(@, m.ppu.oamAddr, v),
                            !.ppu.oamAddr = (@ + 1) % 256]
    [] reg = 5 -> [m EXCEPT !.ppu = WriteScroll(@, v)]
    [] reg = 6 -> [m EXCEPT !.ppu = WriteAddr(@, v)]
    [] reg = 7 -> [VramWrite(m, m.ppu.v, v) EXCEPT !.ppu = Advance(@)]
    [] OTHER -> m

-----------------------------------------------------------------------------
(* Stepping. *)

\* The first dot of a line.
BeginLine(ppu) ==
  LET top == IF Showing(ppu) /\ ppu.scanline = 0 THEN CopyVertical(ppu) ELSE ppu
      left == IF Showing(ppu) THEN CopyHorizontal(top) ELSE top
  IN  CASE Drawing(ppu) -> LatchRender(left)
        [] ppu.scanline = VBlankLine ->
             [ppu EXCEPT !.status = 128 + (@ % 128), !.frameReady = TRUE,
                         !.nmi = @ \/ Bit(ppu.ctrl, 7) = 1]
        [] ppu.scanline = LastLine ->
             [ppu EXCEPT !.status = 32 * Bit(@, 5) + (@ % 32), !.frameReady = FALSE,
                         !.lineReady = FALSE, !.line.ready = FALSE]
        [] OTHER -> ppu

MayHit(ppu) == Field(ppu.mask, 3, 2) = 3

\* The line is rendered when it ends; hit: the first sprite met the background.
Rendered(ppu, hit) ==
  [ppu EXCEPT !.line = [y |-> ppu.scanline, frame |-> ppu.frame, ready |-> TRUE],
              !.lineReady = TRUE,
              !.fb[ppu.scanline] = ppu.frame,
              !.status = IF hit /\ MayHit(ppu) /\ Bit(@, 6) = 0 THEN @ + 64 ELSE @]

NextScanline(ppu) ==
  IF ppu.scanline < LastLine THEN [ppu EXCEPT !.scanline = @ + 1]
  ELSE LatchRender([ppu EXCEPT !.scanline = 0, !.frame = @ + 1])

EndLine(m, hit) ==
  LET drawn == Rendered(m.ppu, hit)
      down == IF Showing(drawn) THEN CopyHorizontal([drawn EXCEPT !.v = IncrementY(@)]) ELSE drawn
      ticks == Drawing(m.ppu) /\ Showing(m.ppu) /\ m.cart.mapper = 4
  IN  [m EXCEPT !.ppu = NextScanline(IF Drawing(@) THEN down ELSE @),
                !.cart = IF ticks THEN Mmc3Tick(@) ELSE @]

Positioned(ppu, cycle) ==
  [ppu EXCEPT !.cycle = cycle, !.rem = IF cycle = 0 THEN 0 ELSE DotsPerLine - cycle]

Begun(m) == IF m.ppu.rem = 0 THEN [m EXCEPT !.ppu = BeginLine(@)] ELSE m

\* From a line begun, to so many dots before its end or into the next line.
Moved(m, over, hit) ==
  IF over < 0 THEN [m EXCEPT !.ppu = Positioned(@, DotsPerLine + over)]
  ELSE [EndLine(m, hit) EXCEPT !.ppu = Positioned(IF over = 0 THEN @ ELSE BeginLine(@), over)]

(* Mutant: the dot that begins a line is not counted.                      *)
SlowStepsLong(m, n, hit) ==
  Moved(Begun(m), n - (IF m.ppu.rem = 0 THEN DotsPerLine - 1 ELSE m.ppu.rem), hit)

\* ppu_step_cycles: n dots, where a line may begin and may end.
SlowSteps(m, n, hit) ==
  Moved(Begun(m), n - (IF m.ppu.rem = 0 THEN DotsPerLine ELSE m.ppu.rem), hit)

\* The fast path of an instruction only counts down.
Steps(m, n, hit) ==
  IF m.ppu.rem > n THEN [m EXCEPT !.ppu.rem = @ - n] ELSE SlowSteps(m, n, hit)

-----------------------------------------------------------------------------
NoLine == [y |-> 0, frame |-> 0, ready |-> FALSE]

\* After ppu_reset, which blanks the picture (frame -1).
PpuReset ==
  [scanline |-> LastLine, cycle |-> 0, rem |-> 0, frame |-> 0,
   frameReady |-> FALSE, lineReady |-> FALSE, nmi |-> FALSE,
   ctrl |-> 0, mask |-> 0, status |-> 0, oamAddr |-> 0, buffer |-> 0,
   fineX |-> 0, w |-> FALSE, v |-> 0, t |-> 0, rv |-> 0, rx |-> 0,
   oam |-> << >>, nt |-> << >>, pal |-> << >>,
   line |-> NoLine, fb |-> [y \in 0 .. Height - 1 |-> -1]]

PpuOK(ppu) ==
  /\ ppu.scanline \in 0 .. LastLine /\ ppu.rem \in 0 .. DotsPerLine - 1
  /\ ppu.cycle \in 0 .. DotsPerLine - 1 /\ ppu.frame \in Nat
  /\ {ppu.frameReady, ppu.lineReady, ppu.nmi, ppu.w} \subseteq BOOLEAN
  /\ {ppu.ctrl, ppu.mask, ppu.status, ppu.oamAddr, ppu.buffer} \subseteq Byte
  /\ {ppu.fineX, ppu.rx} \subseteq 0 .. 7
  /\ {ppu.v, ppu.rv} \subseteq 0 .. 65535 /\ ppu.t \in 0 .. 32767
  /\ ppu.line.y \in 0 .. Height - 1 /\ ppu.line.frame \in 0 .. ppu.frame
=============================================================================
