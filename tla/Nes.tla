--------------------------------- MODULE Nes ---------------------------------
(***************************************************************************)
(* The console as its hosts drive it: src/common/nes.c and save_state.c    *)
(* over the processor, the picture unit, the cartridge and the             *)
(* controllers.                                                            *)
(*                                                                         *)
(* A host takes whole frames (nes_step_frame) or as many lines as a frame  *)
(* shows (nes_step_scanline); between calls it may press buttons, and      *)
(* between frames reset the console, capture its state, or launch the ROM  *)
(* again and apply a captured state.  The program is any that its ROM      *)
(* allows: where the ROM has several instructions at one place, each       *)
(* visit takes one of them.                                                *)
(***************************************************************************)
EXTENDS Cpu6502, Sequences

CONSTANTS
  MaxFrames,     \* bound: frames started since the reset
  MaxReads,      \* bound: reads of a controller that the history counts
  MaxRestores    \* bound: states applied

VARIABLES
  nes,       \* the console
  host,      \* what the host is doing
  blob,      \* the captured state, or NoBlob
  history    \* what the properties remember

vars == <<nes, host, blob, history>>

NoBlob == [none |-> TRUE]

-----------------------------------------------------------------------------
(* A launch: nes_init, the cartridge, nes_reset.                           *)

Launched(rom) ==
  Reset6502(Sync(
    [rom |-> rom, ram |-> << >>, wram |-> << >>, chr |-> << >>, ppu |-> PpuReset,
     cart |-> CartInit(Parsed(Roms[rom])), pads |-> <<Released, Released>>,
     lo |-> 0, hi |-> 0, mask |-> 0, pending |-> 0,
     cpu |-> [a |-> 0, x |-> 0, y |-> 0, sp |-> 253, p |-> {"I", "U"}, pc |-> 0,
              jammed |-> FALSE]]))

\* nes_reset on a running console: CHR memory and pending cycles stay.
Restarted(m) ==
  Reset6502(Sync([m EXCEPT !.ram = << >>, !.wram = << >>, !.ppu = PpuReset,
                           !.cart = CartReset(@),
                           !.pads = [n \in 1 .. 2 |-> PadReset(@[n])]]))

-----------------------------------------------------------------------------
(* Save states (the audio channels are left out).                          *)

\* What save_state_capture keeps of the picture unit and of the cartridge.
PpuPart(ppu) ==
  [scanline |-> ppu.scanline, cycle |-> ppu.cycle, rem |-> ppu.rem, frame |-> ppu.frame,
   frameReady |-> ppu.frameReady, lineReady |-> ppu.lineReady, nmi |-> ppu.nmi,
   ctrl |-> ppu.ctrl, mask |-> ppu.mask, status |-> ppu.status, oamAddr |-> ppu.oamAddr,
   buffer |-> ppu.buffer, fineX |-> ppu.fineX, w |-> ppu.w, v |-> ppu.v, t |-> ppu.t,
   rv |-> ppu.rv, rx |-> ppu.rx, oam |-> ppu.oam, nt |-> ppu.nt, pal |-> ppu.pal]

Captured(m) ==
  [none |-> FALSE, cpu |-> m.cpu, ram |-> m.ram, wram |-> m.wram, pads |-> m.pads,
   ppu |-> PpuPart(m.ppu), cart |-> m.cart, chr |-> IF m.cart.chrRam THEN m.chr ELSE << >>]

(* Mutant: the cached pointers are those of the launch.                    *)
AppliedStale(m, b) ==
  [m EXCEPT !.cpu = b.cpu, !.ram = b.ram, !.wram = b.wram, !.pads = b.pads,
            !.ppu = [f \in DOMAIN @ |-> IF f \in DOMAIN b.ppu THEN b.ppu[f] ELSE @[f]],
            !.cart = b.cart, !.chr = IF m.cart.chrRam THEN b.chr ELSE @]

\* save_state_apply of a sound state of the same ROM: the line buffer and the
\* picture are not part of it.
Applied(m, b) ==
  Sync([m EXCEPT !.cpu = b.cpu, !.ram = b.ram, !.wram = b.wram, !.pads = b.pads,
                 !.ppu = [f \in DOMAIN @ |-> IF f \in DOMAIN b.ppu THEN b.ppu[f] ELSE @[f]],
                 !.cart = b.cart, !.chr = IF m.cart.chrRam THEN b.chr ELSE @])

-----------------------------------------------------------------------------
(* What the properties remember. *)

Dots(ppu) ==
  ((ppu.frame * (LastLine + 1)) + ppu.scanline) * DotsPerLine
  + (IF ppu.rem = 0 THEN 0 ELSE DotsPerLine - ppu.rem)

NoInstruction == [op |-> "none", mode |-> "imp", arg |-> 0]

Reaches(i, addresses) == i.mode \in Memory /\ Address(nes, i) \in addresses
Stores(i, addresses) == i.op \in StoreOps /\ Reaches(i, addresses)

Fresh ==
  [dots |-> LastLine * DotsPerLine, top |-> -1, ticks |-> 0, contexts |-> << >>,
   pad |-> [byte |-> 0, reads |-> 0]]

\* The scroll of the frame's first line, until the program touches the
\* picture unit (-1); the reads of its status do not count.
TopAfter(s, i) ==
  IF s.ppu.scanline = 0 /\ s.ppu.rem # 0 /\ (nes.ppu.scanline # 0 \/ nes.ppu.rem = 0)
  THEN IF Showing(s.ppu) THEN Vertical(s.ppu.rv) ELSE -1
  ELSE IF Reaches(i, 8192 .. 16383) /\ ~(i.op \notin StoreOps /\ Address(nes, i) % 8 = 2)
  THEN -1 ELSE history.top

\* Lines counted by mapper 4 since it was told to reload; -1 once its latch
\* was changed in between.
TicksAfter(s, i) ==
  LET line(ppu) == <<ppu.line.frame, ppu.line.y>>
      counted == IF line(s.ppu) # line(nes.ppu) /\ Showing(s.ppu) THEN 1 ELSE 0
      before == CASE Stores(i, {a \in 49152 .. 57343 : a % 2 = 1}) -> 0
                  [] Stores(i, {a \in 49152 .. 57343 : a % 2 = 0}) /\ history.ticks # 0 -> -1
                  [] OTHER -> history.ticks
  IN  IF s.cart.mapper # 4 \/ before = -1 THEN before ELSE before + counted

ContextsAfter(i) ==
  LET context == [pc |-> nes.cpu.pc, p |-> nes.cpu.p, sp |-> nes.cpu.sp]
  IN  IF i = NoInstruction THEN Append(history.contexts, context)
      ELSE IF i.op = "RTI" /\ history.contexts # << >>
      THEN SubSeq(history.contexts, 1, Len(history.contexts) - 1)
      ELSE history.contexts

\* The buttons that the first controller was last strobed with, and the reads since.
PadAfter(i) ==
  CASE Stores(i, {16406}) /\ (nes.pads[1].strobe \/ Stored(nes.cpu, i.op) % 2 = 1) ->
         [byte |-> nes.pads[1].live, reads |-> 0]
    [] i.op \notin StoreOps /\ Reaches(i, {16406}) -> [history.pad EXCEPT !.reads = IF @ < MaxReads THEN @ + 1 ELSE @]
    [] OTHER -> history.pad

Remembered(s, i, cycles) ==
  [history EXCEPT !.dots = @ + 3 * cycles, !.top = TopAfter(s, i), !.ticks = TicksAfter(s, i),
                  !.contexts = ContextsAfter(i), !.pad = PadAfter(i)]

-----------------------------------------------------------------------------
(* Stepping. *)

\* A call of nes_step_scanline begins.
LineCalled(m) == [m EXCEPT !.ppu.lineReady = FALSE, !.ppu.line.ready = FALSE]

(* Mutant: the line that the buffer holds is delivered again.              *)
DeliveredAgain(s) == s.ppu.lineReady \/ s.ppu.line.y < host.calls

\* The loop of cpu6502_run_scanline ends.
Delivered(s) == s.ppu.lineReady /\ <<s.ppu.line.frame, s.ppu.line.y>> # host.token

\* The interrupt of mapper 40 is counted line by line, all cycles at once.
Flushed(s) ==
  [s EXCEPT !.cart = IF @.mapper = 40 THEN Mapper40Tick(@, s.pending) ELSE @, !.pending = 0]

Token(m) == <<m.ppu.frame, m.ppu.line.y>>

CallLine ==
  /\ host.phase = "between" /\ (host.mode = "line" \/ host.inFrame)
  /\ host.mode = "line" => nes.ppu.frame < MaxFrames
  /\ nes' = LineCalled(nes)
  /\ host' = [host EXCEPT !.phase = "stepping", !.token = Token(nes)]
  /\ UNCHANGED <<blob, history>>

\* A call of nes_step_frame, up to its first line.
CallFrame ==
  /\ host.phase = "between" /\ host.mode = "frame" /\ ~host.inFrame
  /\ nes.ppu.frame < MaxFrames
  /\ nes' = LineCalled([nes EXCEPT !.ppu.frameReady = FALSE])
  /\ host' = [host EXCEPT !.phase = "stepping", !.token = Token(nes), !.inFrame = TRUE,
                          !.target = nes.ppu.frame + 1]
  /\ UNCHANGED <<blob, history>>

After(s) ==
  /\ nes' = IF Delivered(s) THEN Flushed(s) ELSE s
  /\ host' = IF s.cpu.jammed THEN [host EXCEPT !.phase = "stopped"]
             ELSE IF Delivered(s) THEN [host EXCEPT !.phase = "between",
                                         !.calls = IF host.mode = "line" THEN (@ + 1) % Height ELSE @,
                                         !.inFrame = @ /\ s.ppu.frame < host.target]
             ELSE host
  /\ UNCHANGED blob

\* Whether the first sprite meets the background, where a line may end.
Hits == IF nes.ppu.rem <= LongestStep /\ Drawing(nes.ppu) THEN BOOLEAN ELSE {FALSE}

Running == host.phase = "stepping"

ServiceNmi ==
  /\ Running /\ NmiDue(nes)
  /\ \E s \in {Interrupt([nes EXCEPT !.ppu.nmi = FALSE], VectorNmi, FALSE, hit) : hit \in Hits} :
       After(s) /\ history' = Remembered(s, NoInstruction, 7)

ServiceIrq ==
  /\ Running /\ IrqDue(nes)
  /\ \E s \in {Interrupt([nes EXCEPT !.cart.irq = FALSE], VectorIrq, FALSE, hit) : hit \in Hits} :
       After(s) /\ history' = Remembered(s, NoInstruction, 7)

RunInstruction ==
  /\ Running /\ ~NmiDue(nes) /\ ~IrqDue(nes)
  /\ \E i \in Fetched(nes) : \E s \in {Instruction(nes, i, hit) : hit \in Hits} :
       After(s) /\ history' = Remembered(s, i, s.pending - nes.pending)

-----------------------------------------------------------------------------
(* Between calls. *)

\* nes_set_controller_state on the first controller.
Poll ==
  /\ host.phase = "between" /\ ~host.inFrame
  /\ \E b \in Roms[nes.rom].buttons \ {nes.pads[1].live} :
       /\ nes' = [nes EXCEPT !.pads[1] = PadSet(@, b)]
       /\ history' = IF nes.pads[1].strobe THEN [history EXCEPT !.pad.byte = b] ELSE history
  /\ UNCHANGED <<host, blob>>

BetweenFrames == host.phase = "between" /\ ~host.inFrame /\ host.calls = 0

Essence(m) == [m EXCEPT !.ppu.line = NoLine, !.ppu.fb = << >>]

Capture ==
  /\ BetweenFrames /\ blob = NoBlob
  /\ blob' = Captured(nes)
  /\ host' = [host EXCEPT !.saved = [nes |-> Essence(nes), history |-> history]]
  /\ UNCHANGED <<nes, history>>

\* The ROM is launched again and the state applied.
Restore ==
  /\ BetweenFrames \/ host.phase = "stopped"
  /\ blob # NoBlob /\ host.restores < MaxRestores
  /\ nes' = Applied(Launched(nes.rom), blob)
  /\ host' = [host EXCEPT !.phase = "between", !.calls = 0, !.inFrame = FALSE,
                          !.restores = @ + 1]
  /\ history' = host.saved.history
  /\ UNCHANGED blob

\* Bound: no reset once a state is captured, which a launch undoes anyway.
Reset ==
  /\ BetweenFrames /\ blob = NoBlob
  /\ nes' = Restarted(nes)
  /\ history' = [Fresh EXCEPT !.pad.byte = nes.pads[1].live]
  /\ UNCHANGED <<host, blob>>

-----------------------------------------------------------------------------
Init ==
  /\ \E rom \in DOMAIN Roms : nes = Launched(rom)
  /\ \E mode \in {"line", "frame"} :
       host = [mode |-> mode, phase |-> "between", calls |-> 0, inFrame |-> FALSE,
               token |-> <<0, 0>>, target |-> 0, restores |-> 0, saved |-> NoBlob]
  /\ blob = NoBlob
  /\ history = Fresh

Next ==
  \/ CallLine \/ CallFrame
  \/ ServiceNmi \/ ServiceIrq \/ RunInstruction
  \/ Poll \/ Capture \/ Restore \/ Reset

Spec == Init /\ [][Next]_vars

-----------------------------------------------------------------------------
(* Properties. *)

\* Registers, pointers and the place in the frame stay in their ranges.
TypeOK ==
  /\ PpuOK(nes.ppu)
  /\ {nes.cpu.a, nes.cpu.x, nes.cpu.y, nes.cpu.sp} \subseteq Byte
  /\ nes.cpu.p \subseteq Flags \ {"B"} /\ nes.cpu.pc \in 0 .. 65535
  /\ {Locate(nes, a)[1] : a \in {32768, 40960, 49152, 57344}} \subseteq 0 .. nes.cart.size - 1
  /\ \A n \in 1 .. 2 : {nes.pads[n].live, nes.pads[n].shift} \subseteq Byte
  /\ host.phase \in {"between", "stepping", "stopped"} /\ host.calls \in 0 .. Height - 1

\* Three dots pass for every cycle, none more and none less, whether a step
\* takes the fast path, the slow one, or an interrupt's: the place in the
\* frame is what all cycles since the reset add up to (ppu.c:1503-1550).
ClockExact == Dots(nes.ppu) = history.dots

\* A host that takes a frame line by line is given row n by its n-th call,
\* all rows of one frame, also after a reset or a restored state
\* (cpu6502_run_scanline, with its token).
LinesInOrder ==
  (host.mode = "line" /\ host.calls > 0 /\ host.phase = "between")
  => nes.ppu.line = [y |-> host.calls - 1, frame |-> nes.ppu.frame, ready |-> TRUE]

\* Where a line that many rows below one with vertical scroll v is read:
\* rows 30 and 31 of the name table, its attributes, are passed over unless
\* the scroll starts there, and only the pass from row 29 changes the table.
Below(v, rows) ==
  LET y == (8 * CoarseY(v)) + FineY(v)
      size == IF y < 240 THEN 240 ELSE 256
      table == IF y < 240 /\ y + rows >= 240 THEN 1 - Bit(v, 11) ELSE Bit(v, 11)
      to == (y + rows) % size
  IN  (32 * (to \div 8)) + (4096 * (to % 8)) + (2048 * table)

\* In a frame that the program leaves alone, every row is drawn from the
\* scroll its first row had, moved down by its number, and from the
\* horizontal scroll last written (ppu_increment_vertical_v, line by line).
ScrollFollows ==
  (history.top # -1 /\ Drawing(nes.ppu) /\ nes.ppu.rem # 0)
  => /\ Vertical(nes.ppu.rv) = Below(history.top, nes.ppu.scanline)
     /\ Horizontal(nes.ppu.rv) = Horizontal(nes.ppu.t)

\* Mapper 4 raises its interrupt at every (latch + 1)-th drawn line after
\* the program told it to reload, and at no other (mmc3_scanline_tick).
IrqOnItsLine ==
  [][(Running /\ history'.ticks > history.ticks /\ history.ticks # -1) =>
       LET due == history'.ticks % (nes'.cart.latch + 1) = 0 /\ nes'.cart.enabled
       IN  /\ due => nes'.cart.irq
           /\ (nes'.cart.irq /\ ~nes.cart.irq) => due]_vars

\* When a handler returns, the program goes on where it was interrupted, with
\* its flags and its stack, whatever interrupted the handler in between.
InterruptTransparent ==
  [][(Running /\ Len(history'.contexts) < Len(history.contexts)) =>
       LET context == history.contexts[Len(history.contexts)]
       IN  [pc |-> nes'.cpu.pc, p |-> nes'.cpu.p, sp |-> nes'.cpu.sp] = context]_vars

\* A program that strobes the controller reads its buttons in order, as they
\* were when it ended the strobe, and then ones, whatever the host reports
\* meanwhile; as long as it strobes it reads the first, as it is now (input.c).
PadReadsInOrder ==
  [][(Running /\ history'.pad.reads > history.pad.reads) =>
       LET pad == history.pad
       IN  nes'.cpu.a % 2 = CASE nes.pads[1].strobe -> Bit(pad.byte, 0)
                              [] ~nes.pads[1].strobe /\ pad.reads < 8 -> Bit(pad.byte, pad.reads)
                              [] OTHER -> 1]_vars

\* The pointers that every fetch uses are those of the cartridge, after every
\* bank switch, reset, and restored state (nes_sync_prg_cache).
PrgCacheFresh == Sync(nes) = nes

\* A state applied to a fresh launch gives back the console it was captured
\* from, all that its program can come to observe (save_state_apply): only
\* the finished picture and line are not part of it.
RestoreExact == [][host'.restores > host.restores => Essence(nes') = host.saved.nes]_vars

\* The console is in its types, whatever a program writes to its registers,
\* and its cached bank pointers are those of the cartridge.
ConsoleOK == TypeOK /\ PrgCacheFresh
=============================================================================
