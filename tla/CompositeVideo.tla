--------------------------- MODULE CompositeVideo ---------------------------
(***************************************************************************)
(* The composite video of src/pico: core 0 pushes the lines of each frame  *)
(* through the scanline queue (a LineFifo), core 1 renders them a raster   *)
(* line ahead of the beam, and two chained DMA channels feed the encoder,  *)
(* each from its own buffer, interrupting core 1 when their line has gone  *)
(* out.  Core 0 stops all of it while it writes the flash.                 *)
(***************************************************************************)
EXTENDS LineFifo, Integers, FiniteSets

CONSTANTS
  VsyncLines,       \* PPU_DOT_VSYNC_LINES
  TopBlankLines,    \* PPU_DOT_TOP_BLANK_LINES
  Rows,             \* PPU_DOT_ACTIVE_LINES = NES_FRAME_HEIGHT
  RasterLines,      \* PPU_DOT_LINES_PER_FRAME
  MaxPulls,         \* the most lines taken from the queue in a raster line
  PreFlashFrames,   \* how often the warning is shown before a copy
  Blocks,           \* the progress reports of a copy once the flash is busy
  MaxLate,          \* bound: lines that end before core 1 is ready
  LastFrame,        \* bound: frames core 0 presents
  MaxFlashes        \* bound: times core 0 writes the flash

ASSUME VideoAssumption ==
  /\ {Rows, MaxPulls, Capacity} \subseteq Nat \ {0}
  /\ {VsyncLines, TopBlankLines, RasterLines} \subseteq Nat
  /\ {PreFlashFrames, Blocks, LastFrame, MaxFlashes, MaxLate} \subseteq Nat
  /\ RasterLines >= VsyncLines + TopBlankLines + Rows
  /\ RasterLines > 2  \* Boot prepares two lines and goes on with the third
  /\ Lines = [y : 0 .. Rows - 1, frame : 0 .. LastFrame]

Channels == {0, 1}
ActiveStart == VsyncLines + TopBlankLines
ActiveEnd == ActiveStart + Rows

VARIABLES
  c0,         \* what core 0 does
  row,        \* the row core 0 pushes next
  frame,      \* the frame core 0 presents or presented last
  suspended,  \* FlashProgressCtx.video_suspended
  block,      \* the blocks erased or written by the copy in progress
  flashes,    \* how often the flash was written
  c1,         \* what core 1 does: "off", "boot", or where its loop is
  line,       \* render_line
  phase,      \* render_phase
  pulls,      \* lines taken from the queue for this raster line
  into,       \* the buffer core 1 renders into
  pending,    \* s_dma_irq1_pending
  idle,       \* s_idle_buf
  rows,       \* s_cached_pixels: the frame each row is from
  buf,        \* s_line_buf: the raster line and colour phase in each buffer
  armed,      \* the channels that will start at the start of their buffer
  on,         \* the DMA runs
  playing,    \* the channel whose line is going out
  ints,       \* the channels whose interrupt nobody has taken yet
  air,        \* what is going out: a line and its phase, and whether it is clean
  calm,       \* lines since core 1 was last late for one, up to Calm
  late        \* the lines core 1 was late for

core0 == <<c0, row, frame, suspended, block, flashes>>
core1 == <<c1, line, phase, pulls, into>>
dma == <<buf, armed, on, playing, ints, air, calm, late>>
irq == <<pending, idle>>
vars == <<fifoVars, core0, core1, rows, irq, dma>>

(* The lines that can still be spoilt once core 1 is on time again.        *)
Calm == 2

Stray == [line |-> -1, phase |-> 0, clean |-> FALSE]
After(place) == [line |-> (place.line + 1) % RasterLines,
                 phase |-> (place.phase + 1) % 3]
Place(signal) == [line |-> signal.line, phase |-> signal.phase]

-----------------------------------------------------------------------------
(* The hardware, and the interrupt handler on core 1. *)

OnTime == c1 = "wait" /\ ~pending /\ ints = {}

(* What a channel plays when the other one ends: its buffer, if it was     *)
(* armed; else its read address has run past the buffer's end.             *)
Played(channel) ==
  IF channel \in armed
  THEN [line |-> buf[channel].line, phase |-> buf[channel].phase,
        clean |-> ~(c1 = "draw" /\ into = channel)]
  ELSE Stray

(* A line has gone out: the channel chains to the other and interrupts.    *)
LineEnd ==
  /\ on
  /\ playing' = 1 - playing
  /\ armed' = armed \ {1 - playing}
  /\ ints' = ints \union {playing}
  /\ air' = Played(1 - playing)
  /\ \/ OnTime /\ calm' = (IF calm < Calm THEN calm + 1 ELSE calm) /\ late' = late
     \/ ~OnTime /\ late < MaxLate /\ calm' = 0 /\ late' = late + 1
  /\ UNCHANGED <<fifoVars, core0, core1, rows, irq, buf, on>>

(* Mutant: the handler reports the channel that now plays.                 *)
IdleChannelOther(flagged) == IF 0 \in flagged THEN 1 ELSE 0

IdleChannel(flagged) == IF 0 \in flagged THEN 0 ELSE 1

Interrupt ==
  /\ c1 \notin {"off", "boot"}
  /\ ints # {}
  /\ idle' = IdleChannel(ints)
  /\ pending' = TRUE
  /\ ints' = {}
  /\ UNCHANGED <<fifoVars, core0, core1, rows, buf, armed, on, playing, air, calm, late>>

-----------------------------------------------------------------------------
(* Core 1. *)

(* Both buffers hold a vsync line, of raster lines 0 and 1; the loop goes  *)
(* on with line 2.                                                         *)
Boot ==
  /\ c1 = "boot"
  /\ buf' = [c \in Channels |-> [line |-> c, phase |-> c]]
  /\ armed' = {1}
  /\ on' = TRUE
  /\ playing' = 0
  /\ ints' = {}
  /\ air' = [line |-> 0, phase |-> 0, clean |-> TRUE]
  /\ calm' = Calm
  /\ late' = late
  /\ pending' = FALSE
  /\ c1' = "wait"
  /\ line' = 2
  /\ phase' = 2
  /\ UNCHANGED <<fifoVars, core0, pulls, into, rows, idle>>

Wake ==
  /\ c1 = "wait"
  /\ pending
  /\ pending' = FALSE
  /\ pulls' = 0
  /\ c1' = IF line \in ActiveStart .. ActiveEnd - 1 THEN "pull" ELSE "render"
  /\ UNCHANGED <<fifoVars, core0, line, phase, into, rows, idle, dma>>

TryPop ==
  /\ c1 = "pull"
  /\ pulls < MaxPulls
  /\ Ask
  /\ UNCHANGED <<core0, core1, rows, irq, dma>>

(* Mutant: the bottom row is taken for one outside the picture.            *)
CacheNoBottom(slot) ==
  rows' = IF slot.y < Rows - 1 THEN [rows EXCEPT ![slot.y] = slot.frame] ELSE rows

Cache(slot) ==
  rows' = IF slot.y < Rows THEN [rows EXCEPT ![slot.y] = slot.frame] ELSE rows

Popped ==
  /\ c1 = "pull"
  /\ Dequeue
  /\ Cache(taken')
  /\ pulls' = pulls + 1
  /\ UNCHANGED <<core0, c1, line, phase, into, irq, dma>>

NothingToPop ==
  /\ c1 = "pull"
  /\ GiveUp
  /\ c1' = "render"
  /\ UNCHANGED <<core0, line, phase, pulls, into, rows, irq, dma>>

EnoughPulled ==
  /\ c1 = "pull"
  /\ pulls = MaxPulls
  /\ ~popping
  /\ c1' = "render"
  /\ UNCHANGED <<fifoVars, core0, line, phase, pulls, into, rows, irq, dma>>

(* The line is rendered, of its phase, into the buffer that is idle now.   *)
StartLine ==
  /\ c1 = "render"
  /\ c1' = "draw"
  /\ into' = idle
  /\ buf' = [buf EXCEPT ![idle] = [line |-> line, phase |-> phase]]
  /\ air' = [air EXCEPT !.clean = @ /\ (playing = idle => ~on)]
  /\ UNCHANGED <<fifoVars, core0, line, phase, pulls, rows, irq, armed, on,
                 playing, ints, calm, late>>

(* Mutant: the colour phase starts afresh with each frame.                 *)
NextPhaseByLine(next) == next % 3

(* The phase goes on across frames, and does not depend on the next line.  *)
NextPhase(next) == (phase + 1) % 3

(* The channel that is idle by now is armed.  When it already plays, its   *)
(* address jumps back in the middle of the line.                           *)
Rearm ==
  /\ c1 = "draw"
  /\ armed' = IF on /\ idle = playing THEN armed ELSE armed \union {idle}
  /\ air' = [air EXCEPT !.clean = @ /\ (playing = idle => ~on)]
  /\ line' = (line + 1) % RasterLines
  /\ phase' = NextPhase(line')
  /\ c1' = "wait"
  /\ UNCHANGED <<fifoVars, core0, pulls, into, rows, irq, buf, on, playing,
                 ints, calm, late>>

Core1 ==
  Boot \/ Wake \/ TryPop \/ Popped \/ NothingToPop \/ EnoughPulled \/ StartLine \/ Rearm

-----------------------------------------------------------------------------
(* Core 0. *)

(* pico_video_backend_start_emulator: core 1 starts on an empty queue.     *)
StartEmulator ==
  /\ c0 \in {"start", "flash"}
  /\ c0 = "flash" => block = Blocks
  /\ c0' = "loop"
  /\ suspended' = FALSE
  /\ fifo' = <<>>
  /\ popping' = FALSE
  /\ taken' = NoLine
  /\ c1' = "boot"
  /\ UNCHANGED <<offered, row, frame, block, flashes, line, phase, pulls, into,
                 rows, irq, dma>>

(* Where core 0 goes when the frame it presents has been pushed.           *)
Afterwards == [frame |-> "loop", progress |-> "warn", warning |-> "warn",
               report |-> "flash"]

Present(as) ==
  /\ frame < LastFrame
  /\ frame' = frame + 1
  /\ row' = 0
  /\ c0' = as
  /\ UNCHANGED <<suspended, flashes>>

(* A frame of the console or of the menu.                                  *)
PresentFrame == c0 = "loop" /\ Present("frame") /\ UNCHANGED block

(* Mutant: the rows are pushed from the bottom.                            *)
BottomUp(n) == Rows - 1 - n

TopDown(n) == n

Push ==
  /\ c0 \in DOMAIN Afterwards
  /\ row < Rows
  /\ Offer([y |-> TopDown(row), frame |-> frame])
  /\ UNCHANGED <<core0, core1, rows, irq, dma>>

Pushed ==
  /\ Enqueue
  /\ row' = row + 1
  /\ UNCHANGED <<c0, frame, suspended, block, flashes, core1, rows, irq, dma>>

Presented ==
  /\ row = Rows
  /\ c0' = Afterwards[c0]
  /\ row' = 0
  /\ UNCHANGED <<frame, suspended, block, flashes>>

(* The menu's choice to erase the directory, or to copy from the card; by  *)
(* then the menu has been on the screen.                                   *)
Choose ==
  /\ c0 = "loop"
  /\ frame > 0
  /\ c1 # "boot"
  /\ flashes < MaxFlashes
  /\ flashes' = flashes + 1
  /\ \/ c0' = "stop" /\ block' = Blocks
     \/ c0' = "copy" /\ block' = 0
  /\ UNCHANGED <<row, frame, suspended>>

(* Mutant: the progress is shown whether or not the video runs.            *)
ReportAlways(as, otherwise) == Present(as)

(* flash_progress_cb.                                                      *)
Report(as, otherwise) ==
  \/ ~suspended /\ Present(as)
  \/ suspended /\ c0' = otherwise /\ UNCHANGED <<row, frame, suspended, flashes>>

FirstReport == c0 = "copy" /\ Report("progress", "warn") /\ UNCHANGED block

(* flash_pre_flash_cb.                                                     *)
Warn ==
  /\ c0 = "warn"
  /\ \/ block < PreFlashFrames /\ Present("warning") /\ block' = block + 1
     \/ /\ block = PreFlashFrames
        /\ suspended' = TRUE
        /\ block' = 0
        /\ c0' = "stop"
        /\ UNCHANGED <<row, frame, flashes>>

(* A block has been erased or written, or the card failed.                 *)
FlashBlock ==
  /\ c0 = "flash"
  /\ block < Blocks
  /\ \/ block' = block + 1 /\ Report("report", "flash")
     \/ block' = Blocks /\ UNCHANGED <<c0, row, frame, suspended, flashes>>

(* pico_video_backend_suspend_for_flash: the video stops; core 1 goes on   *)
(* for the 5 ms until it is reset.                                         *)
Stop ==
  /\ c0 = "stop"
  /\ c0' = "reset"
  /\ on' = FALSE
  /\ ints' = {}
  /\ pending' = FALSE
  /\ UNCHANGED <<fifoVars, row, frame, suspended, block, flashes, core1, rows,
                 idle, buf, armed, playing, air, calm, late>>

ResetCore1 ==
  /\ c0 = "reset"
  /\ c0' = "flash"
  /\ c1' = "off"
  /\ UNCHANGED <<fifoVars, row, frame, suspended, block, flashes, line, phase,
                 pulls, into, rows, irq, dma>>

Core0 ==
  \/ StartEmulator \/ Push \/ Pushed \/ Stop \/ ResetCore1
  \/ /\ PresentFrame \/ Presented \/ Choose \/ FirstReport \/ Warn \/ FlashBlock
     /\ UNCHANGED <<fifoVars, core1, rows, irq, dma>>

-----------------------------------------------------------------------------
Init ==
  /\ FifoInit
  /\ c0 = "start" /\ row = 0 /\ frame = 0
  /\ suspended = FALSE /\ block = 0 /\ flashes = 0
  /\ c1 = "off" /\ line = 0 /\ phase = 0 /\ pulls = 0 /\ into = 0
  /\ pending = FALSE /\ idle = 0
  /\ rows = [y \in 0 .. Rows - 1 |-> 0]
  /\ buf = [c \in Channels |-> [line |-> 0, phase |-> 0]]
  /\ armed = {} /\ on = FALSE /\ playing = 0 /\ ints = {}
  /\ air = Stray /\ calm = Calm /\ late = 0

Next == Core0 \/ Core1 \/ LineEnd \/ Interrupt

Safety == Init /\ [][Next]_vars

(* Core 1 runs, the beam does not stop, and the interrupt is taken; core 0 *)
(* may stay in the menu, or in the flash, as long as it likes.             *)
Fairness ==
  /\ WF_vars(Core1)
  /\ WF_vars(LineEnd)
  /\ WF_vars(Interrupt)
  /\ WF_vars(Pushed)

Spec == Safety /\ Fairness

-----------------------------------------------------------------------------
TypeOK ==
  /\ fifo \in Seq(Lines) /\ Len(fifo) <= Capacity
  /\ offered \in Lines \union {NoLine} /\ taken \in Lines \union {NoLine}
  /\ popping \in BOOLEAN
  /\ c0 \in DOMAIN Afterwards \union {"start", "loop", "copy", "warn", "stop", "reset", "flash"}
  /\ row \in 0 .. Rows /\ frame \in 0 .. LastFrame /\ suspended \in BOOLEAN
  /\ block \in Nat /\ flashes \in 0 .. MaxFlashes
  /\ c1 \in {"off", "boot", "wait", "pull", "render", "draw"}
  /\ line \in 0 .. RasterLines - 1 /\ phase \in 0 .. 2
  /\ pulls \in 0 .. MaxPulls /\ into \in Channels
  /\ pending \in BOOLEAN /\ idle \in Channels
  /\ rows \in [0 .. Rows - 1 -> 0 .. LastFrame]
  /\ buf \in [Channels -> [line : 0 .. RasterLines - 1, phase : 0 .. 2]]
  /\ armed \subseteq Channels /\ ints \subseteq Channels
  /\ on \in BOOLEAN /\ playing \in Channels
  /\ air \in [line : -1 .. RasterLines - 1, phase : 0 .. 2, clean : BOOLEAN]
  /\ calm \in 0 .. Calm /\ late \in 0 .. MaxLate

(* Whatever happens to core 1, once it has been on time for Calm lines the *)
(* raster is intact: no line is torn by the renderer writing its buffer.   *)
NoTear == on /\ calm = Calm => air.clean

(* And the lines go out one by one in raster order, each in the colour     *)
(* phase that follows the last one's, across frames too.                   *)
RasterOrder ==
  [][on /\ on' /\ playing' # playing /\ calm = Calm /\ calm' = Calm
     => Place(air') = After(air)]_vars

(* The rows on the screen never run ahead of the ones above them: a frame  *)
(* replaces the one before it from the top down, whatever was lost when    *)
(* the queue was emptied.                                                  *)
NewestFirst == \A y \in 1 .. Rows - 1 : rows[y] <= rows[y - 1]

(* Core 0 is never left pushing to a queue that nobody empties: it pushes  *)
(* nothing while core 1 is stopped for the flash, and core 1 empties the   *)
(* queue as fast as a frame fills it, late or not.                         *)
PushReturns == offered # NoLine ~> offered = NoLine

(* Every row of a frame presented gets onto the screen, or one of a later  *)
(* frame in its place, unless the video is stopped for the flash.          *)
EveryFrameShown ==
  \A f \in 1 .. LastFrame :
    (c0 \in DOMAIN Afterwards /\ frame = f /\ row = Rows)
      ~> ((\A y \in 0 .. Rows - 1 : rows[y] >= f) \/ c0 = "stop")

(* What core 1 and the DMA engine share is in its types and untorn.        *)
RasterOK == TypeOK /\ NoTear
=============================================================================
