-------------------------------- MODULE Apu --------------------------------
(***************************************************************************)
(* The sound unit of src/common/apu_micrones.c.  apu_step takes the cycles *)
(* of many instructions at once and advances the channels in batches that  *)
(* end at the next output sample; a call is Call and one Batch for each    *)
(* turn of its loop.  What the mixer makes of the channels is left out: a  *)
(* sample is its number; AudioPath has the ring it goes into.              *)
(***************************************************************************)
EXTENDS Integers, Sequences, SequencesExt

CONSTANTS
  Clock, Rate,    \* APU_CPU_CLOCK_HZ (1789773) and APU_OUTPUT_SAMPLE_RATE (48000)
  Wrap,           \* what cpu_cycles counts modulo (2^32)
  FrameSteps, LongStep,  \* APU_FRAME_STEP_1 to _4, and _5
  Loudest,        \* the envelope's top (15)
  LowSize, PeriodMax, MinPeriod,  \* of a pulse timer: 256, 0x7ff, 8
  LowAddress,     \* the DMC reads from 0x8000, as many bytes
  BitsOfByte, LevelMax,           \* of the DMC: 8 and 127
  Calls,          \* cycles an apu_step may be asked for
  Programs,       \* sets of register writes (see Written) one program makes
  MaxCycles, MaxWrites  \* bounds: cycles and writes in a behaviour

ASSUME ClockAssumption ==
  /\ Clock \in Nat \ {0} /\ Rate \in 1 .. Clock
ASSUME TableAssumption ==
  /\ Wrap \in Nat \ {0, 1} /\ Calls \subseteq Nat
  /\ FrameSteps \in Seq(Nat) /\ Len(FrameSteps) = 4 /\ MaxCycles \in Nat

VARIABLES
  chan,     \* pulse (1 and 2), tri, noise, dmc, frame (the frame counter)
  clk,      \* phase: sample_phase; cpu: cpu_cycles; and, as history, the
            \* cycles, the samples and the APU cycles since the reset
  left,     \* cycles_left of the apu_step that runs, or 0
  due,      \* history: the DMC bytes started and not yet played, by address
  io        \* program: the writes that can be made; made: how many were

apuVars == <<chan, clk, left, due, io>>

-----------------------------------------------------------------------------
(* Envelopes, lengths and sweeps, clocked by the frame counter.            *)

Envelope(c) ==
  IF c.start THEN [c EXCEPT !.start = FALSE, !.decay = Loudest, !.divider = c.volume]
  ELSE IF c.divider > 0 THEN [c EXCEPT !.divider = @ - 1]
  ELSE [c EXCEPT !.divider = c.volume,
                 !.decay = IF @ > 0 THEN @ - 1 ELSE IF c.halt THEN Loudest ELSE 0]

CountLength(c) ==
  [c EXCEPT !.length = IF ~c.enabled THEN 0 ELSE IF ~c.halt /\ @ > 0 THEN @ - 1 ELSE @]

Linear(t) ==
  [t EXCEPT !.linear = IF t.reload THEN t.reloadValue ELSE IF @ > 0 THEN @ - 1 ELSE @,
            !.reload = @ /\ t.halt]

\* Pulse 1 subtracts one more; 16 bits.
Target(p, i) ==
  LET change == p.period \div 2 ^ p.shift
  IN  (IF p.negate THEN p.period - change - (IF i = 1 THEN 1 ELSE 0) ELSE p.period + change) % 65536

Muted(p, i) == p.period < MinPeriod \/ (p.shift > 0 /\ Target(p, i) > PeriodMax)

Sweep(p, i) ==
  [p EXCEPT !.period = IF p.swDivider = 0 /\ p.sweeps /\ p.shift > 0 /\ ~Muted(p, i)
                       THEN Target(p, i) ELSE @,
            !.swDivider = IF @ = 0 \/ p.swReload THEN p.swPeriod ELSE @ - 1,
            !.swReload = FALSE]

Quarter(ch) == [ch EXCEPT !.pulse = [i \in {1, 2} |-> Envelope(@[i])],
                          !.noise = Envelope(@), !.tri = Linear(@)]

Half(ch) == [ch EXCEPT !.pulse = [i \in {1, 2} |-> Sweep(CountLength(@[i]), i)],
                       !.tri = CountLength(@), !.noise = CountLength(@)]

\* The frame counter passes from old to new: at most one step in a batch,
\* looked for from the last; what is beyond the last one is dropped.
Frame(ch, n) ==
  LET old == ch.frame.cycle
      new == old + n
      passes(t) == old < t /\ new >= t
      last == IF ch.frame.five THEN LongStep ELSE FrameSteps[4]
      at(c) == [c EXCEPT !.frame.cycle = new]
  IN  IF passes(last) THEN [Half(Quarter(ch)) EXCEPT !.frame.cycle = 0]
      ELSE IF passes(FrameSteps[3]) THEN at(Quarter(ch))
      ELSE IF passes(FrameSteps[2]) THEN at(Half(Quarter(ch)))
      ELSE IF passes(FrameSteps[1]) THEN at(Quarter(ch)) ELSE at(ch)

-----------------------------------------------------------------------------
(* Timers: a counter runs from its period to 0, fires, and starts again.   *)

(* Mutant: a period of p cycles, one too few.                             *)
FiresEarly(counter, period, n) ==
  IF counter >= n THEN 0
  ELSE 1 + (n - counter - 1) \div (IF period = 0 THEN 1 ELSE period)

\* apu_timer_advance
Fires(counter, period, n) ==
  IF counter >= n THEN 0 ELSE 1 + (n - counter - 1) \div (period + 1)
CounterAfter(counter, period, n) ==
  IF counter >= n THEN counter - n ELSE period - ((n - counter - 1) % (period + 1))

Advance(c, n) == [c EXCEPT !.counter = CounterAfter(@, c.period, n)]

Shift(noise) ==
  LET r == noise.lfsr
      feedback == (r + r \div (IF noise.mode THEN 64 ELSE 2)) % 2
  IN  [noise EXCEPT !.lfsr = r \div 2 + feedback * 2 ^ 14]

\* apu_dmc_memory_reader
Fetched(d) ==
  IF d.filled \/ d.remaining = 0 THEN d
  ELSE LET next == LowAddress + ((d.current + 1) % LowAddress)
           loops == d.remaining = 1 /\ d.loop
       IN  [d EXCEPT !.buffer = d.current, !.filled = TRUE,
                     !.current = IF loops THEN d.address ELSE next,
                     !.remaining = IF loops THEN d.size ELSE @ - 1]

(* Mutant: the next byte is left to be fetched by the next $4015.          *)
DmcClockNoFetch(d) ==
  LET bits == IF d.bits > 0 THEN d.bits - 1 ELSE 0
      e == [d EXCEPT !.bits = bits]
  IN  IF bits > 0 THEN e
      ELSE IF d.filled
           THEN [e EXCEPT !.bits = BitsOfByte, !.silent = FALSE, !.shift = d.buffer,
                          !.filled = FALSE, !.loads = @ + 1]
           ELSE [e EXCEPT !.bits = BitsOfByte, !.silent = TRUE]

\* apu_dmc_output_clock; the byte at an address has all its bits set when
\* the address is odd, none when it is even.  loads is history: bytes begun.
DmcClock(d) ==
  LET up == d.shift % 2 = 1
      level == IF d.silent THEN d.level
               ELSE IF up THEN (IF d.level <= LevelMax - 2 THEN d.level + 2 ELSE d.level)
               ELSE IF d.level >= 2 THEN d.level - 2 ELSE d.level
      bits == IF d.bits > 0 THEN d.bits - 1 ELSE 0
      e == [d EXCEPT !.level = level, !.bits = bits]
  IN  IF bits > 0 THEN e
      ELSE IF d.filled
           THEN Fetched([e EXCEPT !.bits = BitsOfByte, !.silent = FALSE,
                                  !.shift = d.buffer, !.filled = FALSE, !.loads = @ + 1])
           ELSE [e EXCEPT !.bits = BitsOfByte, !.silent = TRUE]

Times(Op(_), x, n) == FoldLeft(LAMBDA y, i : Op(y), x, [i \in 1 .. n |-> i])

PulseBatch(p, n) == [Advance(p, n) EXCEPT !.step = (@ + Fires(p.counter, p.period, n)) % 8]

TriangleBatch(t, n) ==
  [Advance(t, n) EXCEPT
     !.step = IF t.enabled /\ t.length > 0 /\ t.linear > 0
              THEN (@ + Fires(t.counter, t.period, n)) % 32 ELSE @]

\* One turn of the loop of apu_step: n CPU and a APU cycles.
Batched(ch, n, a) ==
  LET f == IF a > 0 THEN Frame(ch, a) ELSE ch
      t == [f EXCEPT
              !.pulse = [i \in {1, 2} |-> PulseBatch(@[i], a)],
              !.noise = Advance(Times(Shift, @, Fires(@.counter, @.period, a)), a)]
  IN  [(IF a > 0 THEN t ELSE f) EXCEPT
         !.tri = TriangleBatch(@, n),
         !.dmc = Advance(Times(DmcClock, @, Fires(@.counter, @.period, n)), n)]

-----------------------------------------------------------------------------
(* The reference: one CPU cycle, and on every other one an APU cycle, with *)
(* the apu_clock_ functions the file keeps for comparison.                 *)

Tick(c) == [c EXCEPT !.counter = IF @ = 0 THEN c.period ELSE @ - 1]
PulseCycle(p) == [Tick(p) EXCEPT !.step = IF p.counter = 0 THEN (@ + 1) % 8 ELSE @]
NoiseCycle(c) == Tick(IF c.counter = 0 THEN Shift(c) ELSE c)
DmcCycle(d) == Tick(IF d.counter = 0 THEN DmcClock(d) ELSE d)
TriangleCycle(t) ==
  [Tick(t) EXCEPT
     !.step = IF t.counter = 0 /\ t.enabled /\ t.length > 0 /\ t.linear > 0 /\ t.period >= 2
              THEN (@ + 1) % 32 ELSE @]

FrameCycle(ch) ==
  LET cycle == ch.frame.cycle + 1
      c == [ch EXCEPT !.frame.cycle = cycle]
      last == IF ch.frame.five THEN LongStep ELSE FrameSteps[4]
  IN  CASE cycle = last -> [Half(Quarter(c)) EXCEPT !.frame.cycle = 0]
        [] cycle \in {FrameSteps[1], FrameSteps[3]} -> Quarter(c)
        [] cycle = FrameSteps[2] -> Half(Quarter(c))
        [] OTHER -> c

TimersCycle(ch, even) ==
  [ch EXCEPT !.pulse = [i \in {1, 2} |-> IF even THEN PulseCycle(@[i]) ELSE @[i]],
             !.noise = IF even THEN NoiseCycle(@) ELSE @,
             !.tri = TriangleCycle(@), !.dmc = DmcCycle(@)]

FrameCycles(ch, a) == Times(FrameCycle, ch, a)

\* The n cycles after cycle number c, one at a time.
TimersCycles(ch, c, n) ==
  FoldLeft(LAMBDA x, i : TimersCycle(x, (c + i) % 2 = 0), ch, [i \in 1 .. n |-> i])

-----------------------------------------------------------------------------
(* The registers: w.reg is the register, w.i the pulse channel.            *)

PulseWritten(p, w) ==
  CASE w.reg = "volume" -> [p EXCEPT !.halt = w.halt, !.volume = w.volume]
    [] w.reg = "sweep" -> [p EXCEPT !.sweeps = w.sweeps, !.swPeriod = w.period, !.negate = w.negate,
                                    !.shift = w.shift, !.swReload = TRUE]
    [] w.reg = "low" -> [p EXCEPT !.period = (@ \div LowSize) * LowSize + w.low]
    [] w.reg = "high" -> [p EXCEPT !.period = w.high * LowSize + (@ % LowSize),
                                   !.length = IF p.enabled THEN w.length ELSE @,
                                   !.step = 0, !.start = TRUE]

TriangleWritten(t, w) ==
  CASE w.reg = "volume" -> [t EXCEPT !.halt = w.halt, !.reloadValue = w.volume]
    [] w.reg = "low" -> [t EXCEPT !.period = (@ \div LowSize) * LowSize + w.low]
    [] w.reg = "high" ->
         LET period == w.high * LowSize + (t.period % LowSize)
         IN  [t EXCEPT !.period = period, !.length = IF t.enabled THEN w.length ELSE @,
                       !.counter = IF @ > period THEN period ELSE @, !.reload = TRUE]

NoiseWritten(c, w) ==
  CASE w.reg = "volume" -> [c EXCEPT !.halt = w.halt, !.volume = w.volume]
    [] w.reg = "low" -> [c EXCEPT !.mode = w.mode, !.period = w.period]
    [] w.reg = "high" -> [c EXCEPT !.length = IF c.enabled THEN w.length ELSE @,
                                   !.counter = c.period, !.start = TRUE]

DmcWritten(d, w) ==
  CASE w.reg = "volume" -> [d EXCEPT !.loop = w.loop, !.period = w.period]
    [] w.reg = "level" -> [d EXCEPT !.level = w.level]
    [] w.reg = "address" -> [d EXCEPT !.address = w.address]
    [] w.reg = "size" -> [d EXCEPT !.size = w.size]

\* $4015
Enabled(c, on) == [c EXCEPT !.enabled = on, !.length = IF on THEN @ ELSE 0]
TriangleEnabled(t, on) ==
  [t EXCEPT !.enabled = on, !.length = IF on THEN @ ELSE 0, !.linear = IF on THEN @ ELSE 0]

\* The reader is idle and told to play: from the start, one byte at once.
Starts(d, on) == on /\ d.remaining = 0

DmcEnabled(d, on) ==
  IF Starts(d, on) THEN Fetched([d EXCEPT !.current = d.address, !.remaining = d.size])
  ELSE [d EXCEPT !.remaining = IF on THEN @ ELSE 0]

Channels == <<"pulse 1", "pulse 2">>
EnabledAll(ch, on) ==
  [ch EXCEPT !.pulse = [i \in {1, 2} |-> Enabled(@[i], Channels[i] \in on)],
             !.tri = TriangleEnabled(@, "tri" \in on),
             !.noise = Enabled(@, "noise" \in on), !.dmc = DmcEnabled(@, "dmc" \in on)]

\* $4017
FrameWritten(ch, five) ==
  LET c == [ch EXCEPT !.frame = [cycle |-> 0, five |-> five]]
  IN  IF five THEN Half(Quarter(c)) ELSE c

Written(ch, w) ==
  CASE w.on = "pulse" -> [ch EXCEPT !.pulse[w.i] = PulseWritten(@, w)]
    [] w.on = "tri" -> [ch EXCEPT !.tri = TriangleWritten(@, w)]
    [] w.on = "noise" -> [ch EXCEPT !.noise = NoiseWritten(@, w)]
    [] w.on = "dmc" -> [ch EXCEPT !.dmc = DmcWritten(@, w)]
    [] w.on = "status" -> EnabledAll(ch, w.channels)
    [] w.on = "frame" -> FrameWritten(ch, w.five)

-----------------------------------------------------------------------------
(* The sampling clock.                                                     *)

(* Mutant: one cycle more where the division is exact.                    *)
ToNextLate(phase) == (Clock - phase + Rate) \div Rate

\* Cycles up to the next sample, rounded up.
ToNext(phase) == (Clock - phase + Rate - 1) \div Rate

BatchSize(phase, n) == IF ToNext(phase) < n THEN ToNext(phase) ELSE n

\* APU cycles among the n CPU cycles after the counter's value; unsigned.
ApuCyclesIn(cpu, n) == (((cpu + n) % Wrap) \div 2 - cpu \div 2) % Wrap

Sampled(c, n) ==
  LET phase == c.phase + Rate * n
      takes == phase >= Clock
  IN  [phase |-> IF takes THEN phase - Clock ELSE phase, cpu |-> (c.cpu + n) % Wrap,
       cycles |-> c.cycles + n, samples |-> IF takes THEN c.samples + 1 ELSE c.samples,
       apuCycles |-> c.apuCycles + ApuCyclesIn(c.cpu, n)]

SampleOf(d) ==
  [i \in 1 .. d.size |-> IF i = 1 THEN d.address ELSE LowAddress + ((d.address + i - 1) % LowAddress)]

-----------------------------------------------------------------------------
Pulse == [enabled |-> FALSE, halt |-> FALSE, start |-> FALSE, sweeps |-> FALSE, negate |-> FALSE,
          swReload |-> FALSE, step |-> 0, volume |-> 0, divider |-> 0, decay |-> 0, swPeriod |-> 0,
          swDivider |-> 0, shift |-> 0, length |-> 0, period |-> 0, counter |-> 0]
Triangle == [enabled |-> FALSE, halt |-> FALSE, reload |-> FALSE, step |-> 0, reloadValue |-> 0,
             linear |-> 0, length |-> 0, period |-> 0, counter |-> 0]
Noise == [enabled |-> FALSE, halt |-> FALSE, start |-> FALSE, mode |-> FALSE, volume |-> 0,
          divider |-> 0, decay |-> 0, length |-> 0, period |-> 0, counter |-> 0, lfsr |-> 1]

CONSTANT SlowestDmc  \* the first period of the DMC rate table (428)

Dmc == [loop |-> FALSE, silent |-> TRUE, filled |-> FALSE, level |-> 0, buffer |-> 0,
        shift |-> 0, bits |-> 0, period |-> SlowestDmc, counter |-> 0, address |-> 0, size |-> 0,
        current |-> 0, remaining |-> 0, loads |-> 0]

(* The longest a batch can be, and the registers a program can be asked to *)
(* write: fields as wide as their bits, a pulse's two parts of the period  *)
(* making PeriodMax, and no rate of the DMC so fast that it would need two *)
(* bytes in one batch (54 cycles a bit against 38 in a batch).             *)
Longest == (Clock + Rate - 1) \div Rate
DmcPeriods == {p \in Nat : BitsOfByte * (p + 1) >= Longest}

Writable(w) ==
  \/ w.on = "status" \/ (w.on = "frame" /\ w.five \in BOOLEAN)
  \/ /\ w.on = "tri"
     /\ \/ w.reg = "volume"
        \/ w.reg = "low" /\ w.low \in Nat
        \/ w.reg = "high" /\ w.high \in Nat
  \/ w.on = "noise" /\ (w.reg \in {"volume", "high"} \/ (w.reg = "low" /\ w.period \in Nat))
  \/ /\ w.on = "pulse" /\ w.i \in {1, 2}
     /\ \/ w.reg = "volume"
        \/ w.reg = "sweep" /\ w.shift \in 0 .. 7
        \/ w.reg = "low" /\ w.low \in 0 .. LowSize - 1
        \/ w.reg = "high" /\ w.high \in Nat /\ (w.high + 1) * LowSize <= PeriodMax + 1
  \/ /\ w.on = "dmc"
     /\ \/ w.reg = "volume" /\ w.loop \in BOOLEAN /\ w.period \in DmcPeriods
        \/ w.reg = "level" /\ w.level \in Nat
        \/ w.reg = "address" /\ w.address \in Nat
        \/ w.reg = "size" /\ w.size \in Nat

ASSUME RegisterAssumption ==
  /\ BitsOfByte \in Nat \ {0} /\ LowSize \in Nat \ {0} /\ LowAddress \in Nat \ {0}
  /\ PeriodMax \in Nat /\ (PeriodMax + 1) % LowSize = 0 /\ LevelMax \in Nat /\ SlowestDmc \in DmcPeriods
  /\ \A program \in Programs : \A w \in program : Writable(w)

(* Two steps of the frame counter are never in one batch: the APU cycles   *)
(* of the longest (19) against 3728 between two steps; the fifth is last.  *)
ASSUME FrameAssumption ==
  LET most == (Longest + 1) \div 2
  IN  /\ FrameSteps[1] >= most /\ \A i \in 1 .. 3 : FrameSteps[i + 1] - FrameSteps[i] >= most
      /\ LongStep \in Nat /\ LongStep >= FrameSteps[4]

\* apu_init; apu_reset keeps only the filters and the DMC's callback.
Silence == [pulse |-> [i \in {1, 2} |-> Pulse], tri |-> Triangle, noise |-> Noise, dmc |-> Dmc,
            frame |-> [cycle |-> 0, five |-> FALSE]]
StoppedClock == [phase |-> 0, cpu |-> 0, cycles |-> 0, samples |-> 0, apuCycles |-> 0]

Init ==
  /\ chan = Silence /\ clk = StoppedClock /\ left = 0
  /\ due = <<>>
  /\ \E p \in Programs : io = [program |-> p, made |-> 0]

Call(n) ==
  /\ left = 0 /\ n > 0 /\ clk.cycles + n <= MaxCycles
  /\ left' = n /\ UNCHANGED <<chan, clk, due, io>>

Batch ==
  /\ left > 0
  /\ LET n == BatchSize(clk.phase, left)
         begun == chan'.dmc.loads > chan.dmc.loads
     IN  /\ left' = left - n
         /\ chan' = Batched(chan, n, ApuCyclesIn(clk.cpu, n))
         /\ clk' = Sampled(clk, n)
         /\ due' = IF ~begun THEN due
                   ELSE Tail(due) \o (IF chan.dmc.remaining = 1 /\ chan.dmc.loop
                                      THEN SampleOf(chan.dmc) ELSE <<>>)
  /\ UNCHANGED io

\* apu_cpu_write
Write(w) ==
  /\ left = 0 /\ io.made < MaxWrites /\ io' = [io EXCEPT !.made = @ + 1]
  /\ chan' = Written(chan, w)
  /\ LET d == chan.dmc
         buffered == IF d.filled THEN <<d.buffer>> ELSE <<>>
         starts == w.on = "status" /\ Starts(d, "dmc" \in w.channels)
         loops == d.loop /\ d.size = 1 /\ ~d.filled
     IN  due' = IF starts THEN buffered \o SampleOf(d) \o (IF loops THEN SampleOf(d) ELSE <<>>)
                ELSE IF w.on = "status" /\ "dmc" \notin w.channels THEN buffered ELSE due
  /\ UNCHANGED <<clk, left>>

Reset ==
  /\ left = 0 /\ io.made < MaxWrites /\ io' = [io EXCEPT !.made = @ + 1]
  /\ chan' = Silence /\ clk' = StoppedClock /\ due' = <<>>
  /\ UNCHANGED left

Next ==
  \/ \E n \in Calls : Call(n)
  \/ Batch \/ Reset
  \/ \E w \in io.program : Write(w)

Spec == Init /\ [][Next]_apuVars

-----------------------------------------------------------------------------
(* Types of what the sampling clock keeps.                                 *)
TypeOK ==
  /\ clk \in [phase : 0 .. Clock - 1, cpu : 0 .. Wrap - 1, cycles : Nat, samples : Nat,
              apuCycles : Nat]
  /\ left \in Nat

(* After every turn of the loop there have been as many samples as the     *)
(* cycles so far make at 48000 in 1789773, over calls of any length, and   *)
(* each was mixed in the very cycle it falls in ("each sample is mixed     *)
(* from channel state that reflects timers up to that exact cycle").       *)
SamplesOnTime ==
  [][clk' # clk =>
       /\ clk'.samples * Clock <= clk'.cycles * Rate
       /\ clk'.cycles * Rate < (clk'.samples + 1) * Clock
       /\ clk'.samples > clk.samples => (clk'.cycles - 1) * Rate < clk'.samples * Clock]_apuVars

(* A batch leaves the channels as its cycles would one at a time, with the *)
(* clocks of the per-cycle reference, except that what the frame counter   *)
(* does in it comes first, and that the cycles past its last step are not  *)
(* counted.  (The reference alone stops the triangle at periods below 2.)  *)
BatchIsCycles ==
  [][left' < left =>
       LET n == left - left'
           a == (clk.cycles + n) \div 2 - clk.cycles \div 2
           f == FrameCycles(chan, a)
           kept(c) == [c EXCEPT !.frame.cycle = chan'.frame.cycle,
                                !.tri.step = IF c.tri.period < 2 THEN chan'.tri.step ELSE @]
       IN  /\ chan' = kept(TimersCycles(f, clk.cycles, n))
           /\ chan'.frame.cycle \in {f.frame.cycle, 0}]_apuVars

(* The DMC plays each byte of a sample once, in order, and none too late:  *)
(* the next byte of all that was started is in the buffer before it is     *)
(* needed, over starts, stops, loops and the end of the address space.     *)
DmcPlays ==
  /\ chan.dmc.filled = (due # <<>>)
  /\ chan.dmc.filled => chan.dmc.buffer = Head(due)
  /\ Len(due) = chan.dmc.remaining + (IF chan.dmc.filled THEN 1 ELSE 0)

(* No sequence of sweeps and writes takes a pulse out of the range of its  *)
(* timer, upwards or below zero, where it would sound another note.        *)
SweepInRange == \A i \in {1, 2} : chan.pulse[i].period \in 0 .. PeriodMax

(* "wraps harmlessly" (apu_micrones.h): a turn of the loop clocks at most  *)
(* one APU cycle for every two of the CPU, at any count of cycles.         *)
WrapsHarmlessly ==
  [][left' < left => clk'.apuCycles - clk.apuCycles <= (left - left' + 1) \div 2]_apuVars

(* The state of the channels is one the hardware can be in, and what the   *)
(* DMC has been given to play is what it plays.                            *)
ChannelsOK == TypeOK /\ SweepInRange /\ DmcPlays
=============================================================================
