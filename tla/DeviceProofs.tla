---------------------------- MODULE DeviceProofs ----------------------------
(***************************************************************************)
(* The devices around the console, from the clock and the screen to the    *)
(* card: the pacer keeps the exact cadence, whatever the frame duration,   *)
(* the clock's tick and the time each frame takes; the two DMA channels of *)
(* the HDMI output hand over every block of every frame in order; on the   *)
(* ESP32-S3 every frame drawn reaches the panel whole; a loaded cartridge  *)
(* points into memory it has; a block of the card that is read or written  *)
(* is the one that was asked for; the images in the flash are their own,   *)
(* whenever the power fails; and the two renderers of a scanline draw the  *)
(* same.  MCSoundAndPicture and MCStorage check the same on a small        *)
(* cadence, small pictures, a few headers and small stores.                *)
(***************************************************************************)
EXTENDS FramePacer, Render, FlashRoms, Hstx, Esp32Display, CartLoad, SdSpi, NumberFacts,
        SequenceTheorems, FiniteSetTheorems, TLAPS

-----------------------------------------------------------------------------
(* The pacer.                                                              *)

(* What is always true of a pacer: its deadline and the fraction in the    *)
(* accumulator are on the exact cadence, and so is the time that the next  *)
(* frame waits for, rounded down; the frame times add up.                  *)
OnCadence(p) ==
  /\ p \in Pacers
  /\ p.throttled =>
       /\ (p.next_deadline - p.start) * Denominator + p.err
             = (p.frame_count + 1) * Numerator
       /\ p.wait_until = p.start + (p.frame_count * Numerator) \div Denominator
  /\ p.total = IF p.have_last THEN p.last_done - p.start ELSE 0

(* NeverAhead holds of a frame because the wait before it has ended.       *)
Waited == pc # "wait" /\ pacer.throttled => now >= pacer.wait_until

LoopOK ==
  /\ LoopTypeOK
  /\ OnCadence(pacer)
  /\ Waited
  /\ pacer.start <= now
  /\ pacer.last_done <= now

-----------------------------------------------------------------------------
(* Rounding up to the tick never rounds down.                              *)
LEMMA ToTickUp ==
  ASSUME NEW time \in Nat
  PROVE  ToTick(time) \in Nat /\ ToTick(time) >= time
<1> DEFINE a == time + ClockTick - 1
<1>1. ClockTick \in Nat \ {0}
  BY PacerAssumption
<1>2. a = ClockTick * (a \div ClockTick) + (a % ClockTick)
      /\ a % ClockTick \in 0 .. ClockTick - 1 /\ a \div ClockTick \in Int
  BY <1>1, SMT
<1>3. ToTick(time) = ClockTick * (a \div ClockTick)
  BY <1>1, <1>2, SMT DEF ToTick
<1> QED
  BY <1>1, <1>2, <1>3, SMT

LEMMA Duration ==
  /\ FrameFloor \in Nat
  /\ FrameRemainder \in 0 .. Denominator - 1
  /\ FrameFloor * Denominator + FrameRemainder = Numerator
BY PacerAssumption, SMT DEF FrameFloor, FrameRemainder

(* One more deadline is one more frame duration.                           *)
LEMMA AdvanceExact ==
  ASSUME NEW p \in Pacers, NEW n \in Nat,
         (p.next_deadline - p.start) * Denominator + p.err = n * Numerator
  PROVE  /\ AdvanceDeadline(p) \in Pacers
         /\ AdvanceDeadline(p) = [p EXCEPT !.next_deadline = AdvanceDeadline(p).next_deadline,
                                   !.err = AdvanceDeadline(p).err]
         /\ (AdvanceDeadline(p).next_deadline - p.start) * Denominator + AdvanceDeadline(p).err
              = (n + 1) * Numerator
<1> DEFINE err == p.err + FrameRemainder
           carry == IF err >= Denominator THEN 1 ELSE 0
           d == p.next_deadline - p.start
<1>0. /\ p.next_deadline \in Nat /\ p.start \in Nat
      /\ p.err \in 0 .. Denominator - 1
  BY DEF Pacers
<1>1. Denominator \in Nat \ {0} /\ Numerator \in Nat
  BY PacerAssumption
<1>2. err \in 0 .. 2 * Denominator - 2 /\ carry \in {0, 1} /\ d \in Int
  BY <1>0, <1>1, Duration, SMT
<1>3. err - carry * Denominator \in 0 .. Denominator - 1
  BY <1>1, <1>2, SMT
<1> DEFINE t == p.next_deadline + FrameFloor + carry
           e == err - carry * Denominator
<1>4. AdvanceDeadline(p) = [p EXCEPT !.next_deadline = t, !.err = e]
  BY DEF AdvanceDeadline
<1>5. AdvanceDeadline(p).next_deadline = p.next_deadline + FrameFloor + carry
      /\ AdvanceDeadline(p).err = err - carry * Denominator
  BY <1>4 DEF Pacers
<1>6. (d + FrameFloor + carry) * Denominator
        = d * Denominator + FrameFloor * Denominator + carry * Denominator
  BY <1>1, <1>2, Duration, SMT
<1>7. (n + 1) * Numerator = n * Numerator + Numerator
  BY <1>1, SMT
<1>8. (AdvanceDeadline(p).next_deadline - p.start) * Denominator + AdvanceDeadline(p).err
        = (n + 1) * Numerator
  <2>1. AdvanceDeadline(p).next_deadline - p.start = d + FrameFloor + carry
    BY <1>0, <1>2, <1>5, Duration, SMT
  <2>2. d * Denominator = n * Numerator - p.err
    BY <1>0, <1>1, <1>2, SMT
  <2>3. (d + FrameFloor + carry) * Denominator + (err - carry * Denominator)
          = n * Numerator + Numerator
    <3> HIDE DEF d, carry
    <3>1. d * Denominator \in Int /\ FrameFloor * Denominator \in Int
          /\ carry * Denominator \in Int /\ n * Numerator \in Int /\ p.err \in Int
          /\ FrameRemainder \in Int
      BY <1>0, <1>1, <1>2, Duration, SMT
    <3> QED
      BY <1>6, <2>2, <3>1, Duration, SMT
  <2> QED
    BY <1>5, <1>7, <2>1, <2>3
<1>9. AdvanceDeadline(p) \in Pacers
  <2>1. t \in Nat /\ e \in 0 .. Denominator - 1
    BY <1>0, <1>2, <1>3, Duration, SMT
  <2> HIDE DEF t, e
  <2> QED
    BY <1>4, <2>1 DEF Pacers
<1> QED
  BY <1>4, <1>5, <1>8, <1>9

LEMMA InitOnCadence ==
  ASSUME NEW time \in Nat, NEW throttled \in BOOLEAN
  PROVE  LET p == PacerInit(throttled, time)
         IN /\ OnCadence(p)
            /\ p.start = time /\ p.wait_until = time /\ p.last_done = 0
<1> DEFINE p == [throttled |-> throttled, start |-> time, frame_count |-> 0,
                 wait_until |-> time, next_deadline |-> time, err |-> 0,
                 have_last |-> FALSE, last_done |-> 0, total |-> 0, late |-> 0]
           a == AdvanceDeadline(p)
<1>1. Numerator \in Nat /\ Denominator \in Nat \ {0}
  BY PacerAssumption
<1>2. p \in Pacers
  BY <1>1 DEF Pacers
<1>3. (p.next_deadline - p.start) * Denominator + p.err = 0 * Numerator
  BY <1>1, SMT
<1>4. /\ a \in Pacers
      /\ a = [p EXCEPT !.next_deadline = a.next_deadline, !.err = a.err]
      /\ (a.next_deadline - p.start) * Denominator + a.err = (0 + 1) * Numerator
  BY <1>2, <1>3, AdvanceExact
<1>5. /\ a.start = time /\ a.wait_until = time /\ a.last_done = 0
      /\ a.frame_count = 0 /\ a.total = 0 /\ a.have_last = FALSE
  BY <1>4
<1>6. (0 * Numerator) \div Denominator = 0
  BY <1>1, SMT
<1>7. OnCadence(a)
  <2> HIDE DEF a
  <2> QED
    BY <1>4, <1>5, <1>6 DEF OnCadence
<1> QED
  BY <1>5, <1>7 DEF PacerInit

LEMMA DoneOnCadence ==
  ASSUME NEW p, OnCadence(p), NEW time \in Nat, p.start <= time, p.last_done <= time
  PROVE  LET q == FrameDone(p, time)
         IN OnCadence(q) /\ q.start = p.start /\ q.last_done = time
<1> DEFINE total == p.total + SinceLast(p, time)
           c == [p EXCEPT !.frame_count = @ + 1, !.have_last = TRUE,
                          !.last_done = time, !.total = @ + SinceLast(p, time)]
           q == FrameDone(p, time)
<1>1. p \in Pacers /\ Numerator \in Nat /\ Denominator \in Nat \ {0}
  BY PacerAssumption DEF OnCadence
<1>2. total = time - p.start /\ total \in Nat
  BY <1>1 DEF OnCadence, SinceLast, Pacers
<1>3. c = [p EXCEPT !.frame_count = p.frame_count + 1, !.have_last = TRUE,
                    !.last_done = time, !.total = total]
  BY <1>1 DEF Pacers
<1>4. /\ c \in Pacers /\ c.start = p.start /\ c.throttled = p.throttled
      /\ c.frame_count = p.frame_count + 1 /\ c.have_last = TRUE
      /\ c.last_done = time /\ c.total = time - p.start
      /\ c.next_deadline = p.next_deadline /\ c.err = p.err /\ c.late = p.late
  <2>1. p.frame_count + 1 \in Nat
    BY <1>1 DEF Pacers
  <2> HIDE DEF total, c
  <2>2. c \in Pacers
    BY <1>1, <1>2, <1>3, <2>1 DEF Pacers
  <2>3. /\ c.start = p.start /\ c.throttled = p.throttled
        /\ c.frame_count = p.frame_count + 1 /\ c.have_last = TRUE
        /\ c.last_done = time /\ c.total = total
        /\ c.next_deadline = p.next_deadline /\ c.err = p.err /\ c.late = p.late
    BY <1>1, <1>3 DEF Pacers
  <2> QED
    BY <1>2, <2>2, <2>3
<1>5. CASE ~p.throttled
  <2>1. q = [c EXCEPT !.wait_until = time]
    BY <1>5 DEF FrameDone
  <2> HIDE DEF c, q
  <2>2. /\ q \in Pacers /\ q.start = p.start /\ q.last_done = time
        /\ q.throttled = FALSE /\ q.have_last = TRUE /\ q.total = time - p.start
    BY <1>4, <1>5, <2>1 DEF Pacers
  <2>3. OnCadence(q)
    BY <2>2 DEF OnCadence
  <2> QED
    BY <2>2, <2>3 DEF q
<1>6. CASE p.throttled
  <2> DEFINE late == IF time > p.next_deadline THEN p.late + 1 ELSE p.late
             w == [c EXCEPT !.wait_until = p.next_deadline, !.late = late]
             n == p.frame_count + 1
  <2>1. q = AdvanceDeadline(w)
    <3>1. q = AdvanceDeadline([c EXCEPT
                !.wait_until = p.next_deadline,
                !.late = IF time > p.next_deadline THEN c.late + 1 ELSE c.late])
      BY <1>1, <1>4, <1>6 DEF FrameDone, Pacers
    <3> QED
      BY <3>1, <1>4
  <2>2. /\ w \in Pacers /\ w.start = p.start /\ w.throttled = TRUE
        /\ w.frame_count = n /\ w.have_last = TRUE
        /\ w.last_done = time /\ w.total = time - p.start
        /\ w.next_deadline = p.next_deadline /\ w.err = p.err
        /\ w.wait_until = p.next_deadline
    <3>1. late \in Nat /\ p.next_deadline \in Nat
      BY <1>1 DEF Pacers
    <3> HIDE DEF c, late
    <3> QED
      BY <1>4, <1>6, <3>1 DEF Pacers
  <2>3. /\ n \in Nat /\ p.start \in Nat /\ p.next_deadline \in Nat
        /\ p.err \in 0 .. Denominator - 1
        /\ (p.next_deadline - p.start) * Denominator + p.err = n * Numerator
    BY <1>1, <1>6 DEF OnCadence, Pacers
  <2> HIDE DEF w
  <2>4. (w.next_deadline - w.start) * Denominator + w.err = n * Numerator
    BY <2>2, <2>3
  <2>5. /\ q \in Pacers
        /\ q = [w EXCEPT !.next_deadline = q.next_deadline, !.err = q.err]
        /\ (q.next_deadline - w.start) * Denominator + q.err = (n + 1) * Numerator
    BY <2>1, <2>2, <2>3, <2>4, AdvanceExact
  <2> HIDE DEF q
  <2>6. /\ q.start = p.start /\ q.throttled = TRUE /\ q.frame_count = n
        /\ q.have_last = TRUE /\ q.last_done = time /\ q.total = time - p.start
        /\ q.wait_until = p.next_deadline
    BY <2>2, <2>5 DEF Pacers
  <2>7. (n * Numerator) \div Denominator = p.next_deadline - p.start
    <3>1. n * Numerator \in Int /\ p.next_deadline - p.start \in Int
      BY <1>1, <2>3, SMT
    <3> QED
      BY <1>1, <2>3, <3>1, DivUnique
  <2>8. q.wait_until = q.start + (q.frame_count * Numerator) \div Denominator
    BY <2>3, <2>6, <2>7
  <2>9. (q.next_deadline - q.start) * Denominator + q.err
          = (q.frame_count + 1) * Numerator
    BY <2>2, <2>5, <2>6
  <2>10. q.total = IF q.have_last THEN q.last_done - q.start ELSE 0
    BY <2>6
  <2>11. OnCadence(q)
    BY <2>5, <2>8, <2>9, <2>10 DEF OnCadence
  <2> QED
    BY <2>6, <2>11 DEF q
<1> QED
  BY <1>5, <1>6

-----------------------------------------------------------------------------
LEMMA Consequences == LoopOK => NoDrift /\ NeverAhead /\ TotalIsElapsed
BY DEF LoopOK, OnCadence, Waited, NoDrift, NeverAhead, TotalIsElapsed

LEMMA InitInv == LoopInit => LoopOK
<1> SUFFICES ASSUME LoopInit PROVE LoopOK
  OBVIOUS
<1>1. PICK throttled \in BOOLEAN : pacer = PacerInit(throttled, 0)
  BY DEF LoopInit
<1>2. OnCadence(pacer) /\ pacer.start = 0 /\ pacer.last_done = 0
  BY <1>1, InitOnCadence
<1>3. pacer \in Pacers
  BY <1>2 DEF OnCadence
<1>4. now = 0 /\ pc = "wait" /\ deadline = 0 /\ skip_present = FALSE
      /\ loop \in {"tft", "pico", "host"}
  BY DEF LoopInit
<1>5. LoopTypeOK
  BY <1>3, <1>4 DEF LoopTypeOK
<1>6. Waited
  BY <1>4 DEF Waited
<1>7. pacer.start <= now /\ pacer.last_done <= now
  BY <1>2, <1>4
<1> QED
  BY <1>2, <1>5, <1>6, <1>7 DEF LoopOK

(* Every step keeps the pacer on its cadence and lets time only advance.   *)
LEMMA StepInv == LoopOK /\ [LoopNext]_loopVars => LoopOK'
<1> SUFFICES ASSUME LoopOK, [LoopNext]_loopVars PROVE LoopOK'
  OBVIOUS
<1>0. /\ pacer \in Pacers /\ now \in Nat /\ ClockTick \in Nat
      /\ pacer.wait_until \in Nat /\ pacer.next_deadline \in Nat
      /\ pacer.start \in Nat /\ pacer.last_done \in Nat
      /\ pacer.throttled \in BOOLEAN
  BY PacerAssumption DEF LoopOK, LoopTypeOK, Pacers
<1>a. /\ \A t \in ShellTicks : Ticks(t) \in Nat
      /\ \A t \in StepTicks : Ticks(t) \in Nat
      /\ \A t \in PresentTicks : Ticks(t) \in Nat
      /\ \A t \in LateTicks : Ticks(t) \in Nat
  <2>1. \A t \in Nat : Ticks(t) \in Nat
    BY <1>0, SMT DEF Ticks
  <2> QED
    BY <2>1, PacerAssumption
<1>1. CASE Wait
  <2>1. ToTick(pacer.next_deadline) \in Nat
    BY <1>0, ToTickUp
  <2>2. now' \in Nat /\ now' >= now
        /\ (pacer.throttled => now' >= pacer.wait_until)
    <3>1. CASE ShouldWait(pacer, now)
      <4>1. pacer.wait_until - now \in Nat
        BY <1>0, <3>1 DEF ShouldWait
      <4>2. /\ ToTick(pacer.wait_until - now) \in Nat
            /\ ToTick(pacer.wait_until - now) >= pacer.wait_until - now
        BY <4>1, ToTickUp
      <4>3. PICK late \in LateTicks :
              now' = now + ToTick(pacer.wait_until - now) + Ticks(late)
        BY <1>1, <3>1 DEF Wait
      <4> QED
        BY <1>0, <1>a, <4>1, <4>2, <4>3
    <3>2. CASE ~ShouldWait(pacer, now)
      BY <1>0, <1>1, <3>2 DEF Wait, ShouldWait
    <3> QED
      BY <3>1, <3>2
  <2> QED
    BY <1>0, <1>1, <2>1, <2>2 DEF Wait, LoopOK, LoopTypeOK, Waited
<1>2. CASE ShellMenu \/ ShellRun \/ StepAndPresent
  <2>1. now' \in Nat /\ now' >= now
    <3>1. CASE ShellMenu
      BY <1>0, <1>a, <3>1 DEF ShellMenu
    <3>2. CASE ShellRun
      BY <1>0, <1>a, <3>2 DEF ShellRun
    <3>3. CASE StepAndPresent
      <4>1. PICK t \in StepTicks, show \in PresentTicks :
              now' = now + Ticks(t) + (IF skip_present THEN 0 ELSE Ticks(show))
        BY <3>3 DEF StepAndPresent
      <4> QED
        BY <1>0, <1>a, <4>1
    <3> QED
      BY <1>2, <3>1, <3>2, <3>3
  <2>2. skip_present' \in BOOLEAN
    BY <1>2 DEF ShellMenu, ShellRun, StepAndPresent, LoopOK, LoopTypeOK
  <2>3. /\ pc # "wait" /\ pacer' = pacer /\ deadline' = deadline
        /\ loop' = loop /\ pc' \in {"step", "done"}
    BY <1>2 DEF ShellMenu, ShellRun, StepAndPresent
  <2> QED
    BY <1>0, <2>1, <2>2, <2>3 DEF LoopOK, LoopTypeOK, Waited
<1>3. CASE ShellEnter
  <2>1. now' \in Nat /\ pacer' = PacerInit(TRUE, now')
    BY <1>0, <1>3, <1>a DEF ShellEnter
  <2>2. /\ OnCadence(pacer') /\ pacer'.start = now' /\ pacer'.wait_until = now'
        /\ pacer'.last_done = 0
    BY <2>1, InitOnCadence
  <2>3. pacer' \in Pacers
    BY <2>2 DEF OnCadence
  <2>4. OnCadence(pacer)'
    BY <2>2 DEF OnCadence
  <2>5. LoopTypeOK'
    BY <1>3, <2>1, <2>3 DEF ShellEnter, LoopOK, LoopTypeOK
  <2>6. Waited' /\ pacer'.start <= now' /\ pacer'.last_done <= now'
    <3>1. now' \in Nat
      BY <2>1
    <3> QED
      BY <2>2, <3>1 DEF Waited
  <2> QED
    BY <2>4, <2>5, <2>6 DEF LoopOK
<1>4. CASE Done
  <2>1. /\ OnCadence(pacer') /\ pacer'.start = pacer.start
        /\ pacer'.last_done = now
    BY <1>4, DoneOnCadence DEF Done, LoopOK, LoopTypeOK
  <2> QED
    BY <1>4, <2>1 DEF Done, LoopOK, LoopTypeOK, Waited, OnCadence
<1>5. CASE UNCHANGED loopVars
  BY <1>5 DEF loopVars, LoopOK, LoopTypeOK, OnCadence, Waited
<1> QED
  BY <1>1, <1>2, <1>3, <1>4, <1>5 DEF LoopNext

(* The pacer's deadlines are the exact cadence, never one nanosecond more  *)
(* or less, however many frames it has paced and however late they were.   *)
THEOREM ExactCadence == LoopSpec => []NoDrift
<1>1. LoopInit => LoopOK
  BY InitInv
<1>2. LoopOK /\ [LoopNext]_loopVars => LoopOK'
  BY StepInv
<1>3. LoopOK => NoDrift
  BY Consequences
<1> QED
  BY <1>1, <1>2, <1>3, PTL DEF LoopSpec

(* The emulation never runs ahead of the clock.                            *)
THEOREM Paced == LoopSpec => []NeverAhead
<1>1. LoopInit => LoopOK
  BY InitInv
<1>2. LoopOK /\ [LoopNext]_loopVars => LoopOK'
  BY StepInv
<1>3. LoopOK => NeverAhead
  BY Consequences
<1> QED
  BY <1>1, <1>2, <1>3, PTL DEF LoopSpec

(* The frame times it reports add up to the time that has passed.          *)
THEOREM TimesAddUp == LoopSpec => []TotalIsElapsed
<1>1. LoopInit => LoopOK
  BY InitInv
<1>2. LoopOK /\ [LoopNext]_loopVars => LoopOK'
  BY StepInv
<1>3. LoopOK => TotalIsElapsed
  BY Consequences
<1> QED
  BY <1>1, <1>2, <1>3, PTL DEF LoopSpec

-----------------------------------------------------------------------------
(* The HDMI output.                                                        *)

(* The blocks of a frame: the blank lines, then two for each active line.  *)
BlankLine(l) == IF l \in FrontPorch .. FrontPorch + SyncWidth - 1 THEN SyncOn ELSE SyncOff
Lines == [l \in 1 .. Blank |-> BlankLine(l - 1)]
Rows == [b \in 1 .. 2 * ActiveLines |->
           IF b % 2 = 1 THEN Commands ELSE RowBlock(((b \div 2) - 1) \div Scale)]
Total == Blank + 2 * ActiveLines

LEMMA Sizes ==
  /\ Blank \in Nat /\ Total \in Nat /\ TotalLines \in Nat /\ Primed = 2
  /\ Primed <= FrontPorch /\ FrontPorch <= Blank /\ FrontPorch + SyncWidth <= Blank
  /\ Primed < TotalLines /\ Primed < Total /\ TotalLines = Blank + ActiveLines
  /\ FrontPorch \in Nat /\ SyncWidth \in Nat /\ ActiveLines \in Nat \ {0} /\ Scale \in Nat \ {0}
BY HstxAssumption DEF Blank, Total, TotalLines, Primed

LEMMA FrameIs ==
  /\ Len(FrameBlocks) = Total
  /\ \A l \in 0 .. Blank - 1 : FrameBlocks[l + 1] = BlankLine(l)
  /\ \A k \in 0 .. ActiveLines - 1 :
       /\ FrameBlocks[Blank + 2 * k + 1] = Commands
       /\ FrameBlocks[Blank + 2 * k + 1 + 1] = RowBlock(k \div Scale)
<1> DEFINE V == {Lines[l] : l \in 1 .. Blank} \cup {Rows[b] : b \in 1 .. 2 * ActiveLines}
<1>1. FrameBlocks = Lines \o Rows
  BY DEF FrameBlocks, Lines, Rows, BlankLine
<1>2. /\ Lines \in [1 .. Blank -> V] /\ Rows \in [1 .. 2 * ActiveLines -> V]
  BY DEF Lines, Rows
<1> HIDE DEF V
<1>3. /\ Lines \in Seq(V) /\ Rows \in Seq(V) /\ Len(Lines) = Blank /\ Len(Rows) = 2 * ActiveLines
  BY <1>2, Sizes
<1>4. Len(FrameBlocks) = Total
  <2>1. Len(FrameBlocks) = Len(Lines) + Len(Rows)
    BY <1>1, <1>3, ConcatProperties
  <2> QED
    BY <1>3, <2>1 DEF Total
<1>5. ASSUME NEW l \in 0 .. Blank - 1
      PROVE  FrameBlocks[l + 1] = BlankLine(l)
  <2>1. l + 1 \in 1 .. Len(Lines) /\ l + 1 - 1 = l
    BY <1>3, Sizes
  <2>2. FrameBlocks[l + 1] = Lines[l + 1]
    BY <1>1, <1>3, <2>1
  <2> QED
    <3>0. l + 1 \in 1 .. Blank
      BY <1>3, <2>1
    <3>1. Lines[l + 1] = BlankLine(l + 1 - 1)
      BY <3>0 DEF Lines
    <3> QED
      BY <2>1, <2>2, <3>1
<1>6. ASSUME NEW j \in 1 .. 2 * ActiveLines
      PROVE  FrameBlocks[Blank + j] = Rows[j]
  <2>1. Blank + j \in Len(Lines) + 1 .. Len(Lines) + Len(Rows) /\ Blank + j - Len(Lines) = j
    BY <1>3, Sizes
  <2> QED
    BY <1>1, <1>3, <2>1
<1>7. ASSUME NEW k \in 0 .. ActiveLines - 1
      PROVE  /\ FrameBlocks[Blank + 2 * k + 1] = Commands
             /\ FrameBlocks[Blank + 2 * k + 1 + 1] = RowBlock(k \div Scale)
  <2>1. /\ 2 * k + 1 \in 1 .. 2 * ActiveLines /\ (2 * k + 1) % 2 = 1
        /\ 2 * k + 2 \in 1 .. 2 * ActiveLines /\ (2 * k + 2) % 2 = 0
        /\ ((2 * k + 2) \div 2) - 1 = k
    BY Sizes
  <2>2. Rows[2 * k + 1] = Commands /\ Rows[2 * k + 2] = RowBlock(k \div Scale)
    BY <2>1 DEF Rows
  <2>3. Blank + 2 * k + 1 = Blank + (2 * k + 1) /\ Blank + 2 * k + 1 + 1 = Blank + (2 * k + 2)
    BY Sizes
  <2> QED
    BY <1>6, <2>1, <2>2, <2>3
<1> QED
  BY <1>4, <1>5, <1>7

(* Where in the frame the interrupt is: the place of the block that it is  *)
(* about to hand to a channel.                                             *)
Place(v) == IF v.line < Blank THEN v.line
            ELSE Blank + 2 * (v.line - Blank) + (IF v.posted THEN 1 ELSE 0)

VideoOK(v) ==
  /\ v.started \in BOOLEAN /\ v.pong \in BOOLEAN /\ v.posted \in BOOLEAN
  /\ v.line \in 0 .. TotalLines - 1
  /\ v.posted => v.line >= Blank

LEMMA Different == SyncOn # Commands /\ SyncOff # Commands /\ \A y : RowBlock(y) # Commands
<1>1. SyncOn[1] = "vsync on" /\ SyncOff[1] = "vsync off" /\ Commands[1] = "active"
  BY DEF SyncOn, SyncOff, Commands
<1>2. \A y : Len(RowBlock(y)) = 2
  BY DEF RowBlock
<1>3. Len(Commands) = 1
  BY DEF Commands
<1>4. SyncOn # Commands /\ SyncOff # Commands
  BY <1>1
<1> QED
  BY <1>2, <1>3, <1>4

(* It hands over the block of its place, and goes on to the next.          *)
LEMMA HandsOver ==
  ASSUME NEW v, VideoOK(v), NEW w, VideoOK(w),
         w.posted <=> NextBlock(v) = Commands,
         w.line = IF NextBlock(v) = Commands THEN v.line ELSE (v.line + 1) % TotalLines
  PROVE  /\ Place(v) \in 0 .. Total - 1 /\ NextBlock(v) = FrameBlocks[Place(v) + 1]
         /\ Place(w) = (Place(v) + 1) % Total
<1>0. v.line \in 0 .. TotalLines - 1 /\ w.line \in 0 .. TotalLines - 1
  BY DEF VideoOK
<1>a. (v.line + 1) % TotalLines = IF v.line + 1 = TotalLines THEN 0 ELSE v.line + 1
  BY <1>0, Sizes, WrappingPlus1
<1>b. \A p \in 0 .. Total - 1 : (p + 1) % Total = IF p + 1 = Total THEN 0 ELSE p + 1
  BY Sizes, WrappingPlus1
<1>c. Total = Blank + 2 * ActiveLines /\ TotalLines = Blank + ActiveLines
  BY DEF Total, TotalLines
<1>1. CASE v.line < Blank
  <2>1. Place(v) = v.line /\ v.line \in 0 .. Blank - 1 /\ ~v.posted
    BY <1>0, <1>1, Sizes DEF Place, VideoOK
  <2>2. NextBlock(v) = BlankLine(v.line)
    BY <1>0, <1>1, Sizes DEF NextBlock, BlankLine
  <2>3. NextBlock(v) # Commands
    BY <2>2, Different DEF BlankLine
  <2>4. w.line = v.line + 1
    <3>1. v.line + 1 # TotalLines
      BY <1>0, <1>1, <1>c, Sizes
    <3> QED
      BY <1>a, <2>3, <3>1
  <2>a. ~w.posted
    BY <2>3, Zenon
  <2>5. Place(w) = v.line + 1
    BY <1>0, <1>1, <2>4, <2>a, Sizes DEF Place
  <2>6. v.line \in 0 .. Total - 1 /\ v.line + 1 # Total
    BY <1>0, <1>1, <1>c, Sizes
  <2> QED
    BY <1>b, <2>1, <2>2, <2>5, <2>6, FrameIs
<1>2. CASE v.line >= Blank
  <2> DEFINE k == v.line - Blank
  <2>0. k \in 0 .. ActiveLines - 1 /\ v.line = Blank + k
    BY <1>0, <1>2, <1>c, Sizes
  <2>1. /\ FrameBlocks[Blank + 2 * k + 1] = Commands
        /\ FrameBlocks[Blank + 2 * k + 1 + 1] = RowBlock(k \div Scale)
    BY <2>0, FrameIs
  <2>2. ~(v.line >= FrontPorch /\ v.line < FrontPorch + SyncWidth) /\ ~(v.line < Blank)
    BY <1>0, <1>2, Sizes
  <2> HIDE DEF k
  <2>3. CASE ~v.posted
    <3>1. NextBlock(v) = Commands
      BY <2>2, <2>3 DEF NextBlock
    <3>2. w.posted /\ w.line = v.line
      BY <3>1
    <3>3. Place(v) = Blank + 2 * k /\ Place(w) = Blank + 2 * k + 1
      BY <2>0, <2>2, <2>3, <3>2, Sizes DEF Place
    <3>4. Blank + 2 * k \in 0 .. Total - 1 /\ Blank + 2 * k + 1 # Total
      BY <1>c, <2>0, Sizes
    <3> QED
      BY <1>b, <2>1, <3>1, <3>3, <3>4
  <2>4. CASE v.posted
    <3>1. NextBlock(v) = RowBlock(k \div Scale)
      BY <2>2, <2>4 DEF NextBlock, k
    <3>2. ~w.posted /\ w.line = (v.line + 1) % TotalLines
      BY <3>1, Different
    <3>3. Place(v) = Blank + 2 * k + 1
      BY <2>0, <2>2, <2>4, Sizes DEF Place
    <3>4. Blank + 2 * k + 1 \in 0 .. Total - 1
      BY <1>c, <2>0, Sizes
    <3>5. CASE v.line + 1 = TotalLines
      <4>1. w.line = 0 /\ Blank + 2 * k + 1 + 1 = Total
        BY <1>a, <1>c, <2>0, <3>2, <3>5, Sizes
      <4>2. Place(w) = 0
        BY <4>1, Sizes DEF Place
      <4> QED
        BY <1>b, <2>1, <3>1, <3>3, <3>4, <4>1, <4>2
    <3>6. CASE v.line + 1 # TotalLines
      <4>1. w.line = v.line + 1 /\ Blank + 2 * k + 1 + 1 # Total
        BY <1>a, <1>c, <2>0, <3>2, <3>6, Sizes
      <4>2. Place(w) = Blank + 2 * k + 2
        BY <2>0, <3>2, <4>1, Sizes DEF Place
      <4>3. (Blank + 2 * k + 1 + 1) = Blank + 2 * k + 2
        BY <2>0, Sizes
      <4> QED
        BY <1>b, <2>1, <3>1, <3>3, <3>4, <4>1, <4>2, <4>3
    <3> QED
      BY <3>5, <3>6
  <2> QED
    BY <2>3, <2>4
<1> QED
  BY <1>0, <1>1, <1>2, Sizes

(* What the channels hold: the block that is sent, the one after it unless *)
(* its channel has just ended, and then the interrupt's place.             *)
Next1(p) == (p + 1) % Total
Turn == IF video.pong THEN 2 ELSE 1

HstxOK ==
  /\ VideoOK(video) /\ sent \in 0 .. Total - 1
  /\ DOMAIN channel = {1, 2}
  /\ ~video.started => dma.playing = 0 /\ dma.ended = {}
  /\ video.started =>
       \/ /\ dma.ended = {} /\ dma.playing = Turn
          /\ channel[Turn] = FrameBlocks[sent + 1]
          /\ channel[3 - Turn] = FrameBlocks[Next1(sent) + 1]
          /\ Place(video) = Next1(Next1(sent))
       \/ /\ dma.ended = {Turn} /\ dma.playing = 3 - Turn
          /\ channel[3 - Turn] = FrameBlocks[sent + 1]
          /\ Place(video) = Next1(sent)

LEMMA NextIs ==
  ASSUME NEW p \in 0 .. Total - 1
  PROVE  Next1(p) = (IF p + 1 = Total THEN 0 ELSE p + 1) /\ Next1(p) \in 0 .. Total - 1
BY Sizes, WrappingPlus1 DEF Next1

LEMMA TurnIs == ASSUME VideoOK(video) PROVE Turn \in {1, 2} /\ 3 - Turn \in {1, 2} /\ 3 - Turn # Turn
BY DEF Turn, VideoOK

(* What a start and a stop leave in the driver.                            *)
Reset(v, s) == v = [started |-> s, pong |-> FALSE, line |-> Primed, posted |-> FALSE]

LEMMA ResetOK ==
  ASSUME NEW s \in BOOLEAN, NEW v, Reset(v, s)
  PROVE  /\ VideoOK(v) /\ (v.started <=> s) /\ ~v.pong /\ Place(v) = 2
<1>1. v.started = s /\ v.pong = FALSE /\ v.line = 2 /\ v.posted = FALSE
  BY Sizes DEF Reset
<1>2. VideoOK(v)
  <2>1. v.line \in 0 .. TotalLines - 1
    BY <1>1, Sizes
  <2> QED
    BY <1>1, <2>1, Zenon DEF VideoOK
<1>3. Place(v) = 2
  BY <1>1, Sizes DEF Place
<1> QED
  BY <1>1, <1>2, <1>3

LEMMA FirstBlocks == FrameBlocks[0 + 1] = SyncOff /\ FrameBlocks[1 + 1] = SyncOff
<1>1. 0 \in 0 .. Blank - 1 /\ 1 \in 0 .. Blank - 1
  BY Sizes
<1>2. BlankLine(0) = SyncOff /\ BlankLine(1) = SyncOff
  BY Sizes DEF BlankLine
<1> QED
  BY <1>1, <1>2, FrameIs

Served(v, pong, posted, at) ==
  [v EXCEPT !.pong = pong, !.posted = posted, !.line = at]

LEMMA ServedFields ==
  ASSUME NEW v, NEW pong, NEW posted, NEW at
  PROVE  /\ Served(v, pong, posted, at).pong = pong
         /\ Served(v, pong, posted, at).posted = posted
         /\ Served(v, pong, posted, at).line = at
         /\ Served(v, pong, posted, at).started = v.started
BY DEF Served

Given == NextBlock(video) = Commands
ServedLine == IF Given THEN video.line ELSE (video.line + 1) % TotalLines

LEMMA HstxBegins == HstxInit => HstxOK
<1> SUFFICES ASSUME HstxInit PROVE HstxOK
  OBVIOUS
<1>1. Reset(video, FALSE) /\ dma.playing = 0 /\ dma.ended = {} /\ DOMAIN channel = {1, 2} /\ sent = 0
  BY DEF HstxInit, Reset
<1>2. VideoOK(video) /\ ~video.started
  BY <1>1, ResetOK
<1> QED
  BY <1>1, <1>2, Sizes DEF HstxOK

LEMMA HstxSteps == HstxOK /\ [HstxNext]_hstxVars => HstxOK'
<1> SUFFICES ASSUME HstxOK, [HstxNext]_hstxVars PROVE HstxOK'
  OBVIOUS
<1>0. VideoOK(video) /\ sent \in 0 .. Total - 1 /\ DOMAIN channel = {1, 2} /\ Turn \in {1, 2}
  BY TurnIs DEF HstxOK
<1>1. CASE UNCHANGED hstxVars
  BY <1>1 DEF hstxVars, HstxOK, VideoOK, Place, Turn, Next1
<1>2. CASE HstxStart
  <2>1. /\ Reset(video', TRUE) /\ channel' = <<SyncOff, SyncOff>>
        /\ dma'.playing = 1 /\ dma'.ended = {} /\ sent' = 0
    BY <1>2 DEF HstxStart, Reset
  <2>2. VideoOK(video') /\ video'.started /\ ~video'.pong /\ Place(video') = 2
    BY <2>1, ResetOK
  <2>3. Turn' = 1 /\ 3 - 1 = 2
    BY <2>2 DEF Turn
  <2>4. 0 \in 0 .. Total - 1 /\ Next1(0) = 1 /\ Next1(1) = 2
    BY NextIs, Sizes
  <2>5. DOMAIN channel' = {1, 2} /\ channel'[1] = SyncOff /\ channel'[2] = SyncOff
    BY <2>1
  <2> QED
    BY <2>1, <2>2, <2>3, <2>4, <2>5, FirstBlocks DEF HstxOK
<1>3. CASE HstxStop
  <2>1. /\ Reset(video', FALSE) /\ dma'.playing = 0 /\ dma'.ended = {}
        /\ channel' = channel /\ sent' = sent
    BY <1>3 DEF HstxStop, Reset
  <2>2. VideoOK(video') /\ ~video'.started
    BY <2>1, ResetOK
  <2> QED
    BY <1>0, <2>1, <2>2 DEF HstxOK
<1>4. CASE BlockEnds
  <2>1. /\ dma.playing # 0 /\ dma.ended = {} /\ video' = video /\ channel' = channel
        /\ dma'.playing = 3 - dma.playing /\ dma'.ended = {dma.playing}
        /\ sent' = Next1(sent)
    BY <1>4, FrameIs DEF BlockEnds, Next1
  <2>2. /\ video.started /\ dma.playing = Turn
        /\ channel[3 - Turn] = FrameBlocks[Next1(sent) + 1]
        /\ Place(video) = Next1(Next1(sent))
    BY <2>1 DEF HstxOK
  <2>3. Turn' = Turn /\ sent' \in 0 .. Total - 1
    BY <1>0, <2>1, NextIs DEF Turn
  <2> QED
    BY <1>0, <2>1, <2>2, <2>3 DEF HstxOK
<1>5. CASE HstxIrq
  <2>1. /\ dma.ended # {} /\ sent' = sent
        /\ channel' = [channel EXCEPT ![Turn] = NextBlock(video)]
        /\ dma' = [dma EXCEPT !.ended = @ \ {Turn}]
        /\ video' = Served(video, ~video.pong, Given, ServedLine)
    BY <1>5, Zenon DEF HstxIrq, Turn, Served, Given, ServedLine
  <2>2. /\ video.started /\ dma.ended = {Turn} /\ dma.playing = 3 - Turn
        /\ channel[3 - Turn] = FrameBlocks[sent + 1]
        /\ Place(video) = Next1(sent)
    BY <2>1 DEF HstxOK
  <2>3. dma'.ended = {} /\ dma'.playing = 3 - Turn
    BY <2>1, <2>2
  <2>4. /\ video'.line = ServedLine /\ video'.started = video.started
        /\ video'.posted = Given /\ video'.pong = ~video.pong
    <3> DEFINE pong == ~video.pong
               posted == Given
    <3>1. video' = Served(video, pong, posted, ServedLine)
      BY <2>1
    <3> HIDE DEF pong, posted
    <3>2. /\ video'.line = ServedLine /\ video'.started = video.started
          /\ video'.posted = posted /\ video'.pong = pong
      BY <3>1, ServedFields
    <3> QED
      BY <3>2, Zenon DEF pong, posted
  <2>5. video'.line \in 0 .. TotalLines - 1 /\ (Given => video.line >= Blank)
    <3>1. video.line \in 0 .. TotalLines - 1
      BY <1>0 DEF VideoOK
    <3>2. Given => ~(video.line < Blank)
      BY <3>1, Different DEF Given, NextBlock
    <3>3. (video.line + 1) % TotalLines \in 0 .. TotalLines - 1
      BY <3>1, Sizes, WrappingPlus1
    <3> QED
      BY <2>4, <3>1, <3>2, <3>3, Sizes DEF ServedLine
  <2>6. VideoOK(video')
    <3>1. video'.posted => video'.line >= Blank
      BY <2>4, <2>5, Zenon DEF ServedLine
    <3>2. video'.started \in BOOLEAN
      BY <1>0, <2>4, Zenon DEF VideoOK
    <3>3. video'.posted \in BOOLEAN /\ video'.pong \in BOOLEAN
      <4>1. \A b, c : b = (c = Commands) => b \in BOOLEAN
        OBVIOUS
      <4>2. \A b, c : b = ~c => b \in BOOLEAN
        OBVIOUS
      <4> QED
        BY <2>4, <4>1, <4>2, Zenon DEF Given
    <3> QED
      BY <2>5, <3>1, <3>2, <3>3, Zenon DEF VideoOK
  <2>7. /\ Place(video) \in 0 .. Total - 1 /\ NextBlock(video) = FrameBlocks[Place(video) + 1]
        /\ Place(video') = Next1(Place(video))
    <3>1. video'.posted <=> NextBlock(video) = Commands
      BY <2>4, Zenon DEF Given
    <3>2. video'.line = IF NextBlock(video) = Commands THEN video.line
                        ELSE (video.line + 1) % TotalLines
      BY <2>4, Zenon DEF Given, ServedLine
    <3> QED
      BY <1>0, <2>6, <3>1, <3>2, HandsOver DEF Next1
  <2>8. Turn' = 3 - Turn /\ 3 - (3 - Turn) = Turn
    <3>1. CASE video.pong
      <4>1. ~video'.pong
        BY <2>4, <3>1, Zenon
      <4> QED
        BY <3>1, <4>1 DEF Turn
    <3>2. CASE ~video.pong
      <4>1. video'.pong
        BY <2>4, <3>2, Zenon
      <4> QED
        BY <3>2, <4>1 DEF Turn
    <3> QED
      BY <3>1, <3>2
  <2>9. /\ DOMAIN channel' = {1, 2} /\ channel'[Turn] = FrameBlocks[Next1(sent) + 1]
        /\ channel'[3 - Turn] = FrameBlocks[sent + 1]
    BY <1>0, <2>1, <2>2, <2>7, TurnIs
  <2>10. /\ video'.started /\ dma'.ended = {} /\ dma'.playing = Turn'
         /\ channel'[Turn'] = FrameBlocks[sent + 1]
         /\ channel'[3 - Turn'] = FrameBlocks[Next1(sent) + 1]
         /\ Place(video') = Next1(Next1(sent))
    BY <2>2, <2>3, <2>4, <2>7, <2>8, <2>9
  <2> QED
    BY <1>0, <2>1, <2>6, <2>9, <2>10 DEF HstxOK, Next1
<1> QED
  BY <1>1, <1>2, <1>3, <1>4, <1>5 DEF HstxNext

(* The monitor gets frame after frame without a block twice, missing or in *)
(* the wrong place, for every geometry, over stops and starts              *)
(* (hstx_dma_irq of video_hstx.c).                                         *)
THEOREM PictureInOrder == HstxSpec => []FramesInOrder
<1>1. HstxOK => FramesInOrder
  BY DEF HstxOK, FramesInOrder
<1> QED
  BY <1>1, HstxBegins, HstxSteps, PTL DEF HstxSpec

-----------------------------------------------------------------------------
(* The display of the ESP32-S3.                                            *)

(* What goes to the panel: pixel k of frame n, and the first m of them.    *)
PixelSet == Nat \X Nat
PixelOf(n, k) == <<n, ((k - 1) \div size.w) + 1>>
Pixels(n, m) == [k \in 1 .. m |-> PixelOf(n, k)]

SizeOK == /\ size.w \in Nat \ {0} /\ size.h \in Nat \ {0} /\ size.chunk \in Nat \ {0}
          /\ size.w * size.h \in Nat \ {0}

StreamTyped(s) == s.on \in BOOLEAN /\ s.total \in Nat /\ s.sent \in Nat /\ s.buf \in Seq(PixelSet)
PanelTyped(p) == p.bus \in BOOLEAN /\ p.pixels \in Seq(PixelSet)

(* The pixels of row y are those from (y - 1) * w + 1 to y * w.            *)
LEMMA RowOf ==
  ASSUME SizeOK, NEW y \in Nat \ {0}, NEW k \in Nat, NEW j \in 1 .. size.w,
         k = (y - 1) * size.w + j
  PROVE  ((k - 1) \div size.w) + 1 = y
<1> DEFINE q == y - 1
           r == j - 1
<1>1. q \in Int /\ r \in 0 .. size.w - 1 /\ size.w \in Nat \ {0} /\ q + 1 = y
  BY DEF SizeOK
<1>2. (y - 1) * size.w = q * size.w /\ q * size.w \in Int
  BY <1>1 DEF q
<1>3. k - 1 = q * size.w + r /\ k - 1 \in Int
  BY <1>1, <1>2
<1> HIDE DEF q, r
<1>4. (k - 1) \div size.w = q
  BY <1>1, <1>3, DivUnique
<1> QED
  BY <1>1, <1>4

LEMMA PixelsTyped ==
  ASSUME SizeOK, NEW n \in Nat, NEW m \in Nat
  PROVE  /\ Pixels(n, m) \in Seq(PixelSet) /\ Len(Pixels(n, m)) = m
         /\ \A k \in 1 .. m : Pixels(n, m)[k] = PixelOf(n, k)
<1>1. ASSUME NEW k \in 1 .. m
      PROVE  PixelOf(n, k) \in PixelSet
  <2>1. (k - 1) \div size.w \in Nat
    <3> DEFINE d == size.w
               a == k - 1
    <3>1. d \in Nat \ {0} /\ a \in Nat
      BY DEF SizeOK
    <3> HIDE DEF d, a
    <3>2. a \div d \in Nat
      BY <3>1
    <3> QED
      BY <3>2 DEF a, d
  <2> QED
    BY <2>1 DEF PixelOf, PixelSet
<1>2. Pixels(n, m) \in [1 .. m -> PixelSet]
  BY <1>1 DEF Pixels
<1>3. \A k \in 1 .. m : Pixels(n, m)[k] = PixelOf(n, k)
  BY DEF Pixels
<1> QED
  BY <1>2, <1>3

LEMMA Associate ==
  ASSUME NEW p \in Seq(PixelSet), NEW b \in Seq(PixelSet), NEW r \in Seq(PixelSet)
  PROVE  (p \o b) \o r = p \o (b \o r)
<1> DEFINE Same(s, t, u) == (s \o t) \o u = s \o (t \o u)
<1>1. \A S : \A s, t, u \in Seq(S) : Same(s, t, u)
  BY ConcatAssociative
<1> HIDE DEF Same
<1>2. Same(p, b, r)
  BY <1>1
<1> QED
  BY <1>2 DEF Same

(* A run of the next pixels, all alike, continues them.                    *)
AllAlike(n, m, i, v) == \A k \in m + 1 .. m + i : PixelOf(n, k) = v
Run(v, i) == [k \in 1 .. i |-> v]

LEMMA RunTyped ==
  ASSUME NEW v \in PixelSet, NEW i \in Nat
  PROVE  Run(v, i) \in Seq(PixelSet) /\ Len(Run(v, i)) = i /\ \A k \in 1 .. i : Run(v, i)[k] = v
<1>1. Run(v, i) \in [1 .. i -> PixelSet]
  BY DEF Run
<1>2. \A k \in 1 .. i : Run(v, i)[k] = v
  BY DEF Run
<1> QED
  BY <1>1, <1>2

Glued(p, b, a) == p \o b = a
Continues(all, a, r) ==
    /\ all \in Seq(PixelSet) /\ Len(all) = Len(a) + Len(r)
    /\ \A k \in 1 .. Len(a) + Len(r) : all[k] = IF k <= Len(a) THEN a[k] ELSE r[k - Len(a)]

LEMMA Joined ==
  ASSUME NEW p \in Seq(PixelSet), NEW b \in Seq(PixelSet), NEW r \in Seq(PixelSet),
         NEW a \in Seq(PixelSet), Glued(p, b, a)
  PROVE  Continues(p \o (b \o r), a, r)
<1> DEFINE all == p \o (b \o r)
<1>1. all = a \o r
  <2>1. (p \o b) \o r = p \o (b \o r)
    BY Associate
  <2>2. p \o b = a
    BY DEF Glued
  <2> HIDE DEF all
  <2>3. all = (p \o b) \o r
    BY <2>1, Zenon DEF all
  <2> QED
    BY <2>2, <2>3, Zenon
<1> HIDE DEF all
<1>2. /\ a \o r \in Seq(PixelSet) /\ Len(a \o r) = Len(a) + Len(r)
      /\ \A k \in 1 .. Len(a) + Len(r) : (a \o r)[k] = IF k <= Len(a) THEN a[k] ELSE r[k - Len(a)]
  BY ConcatProperties
<1>3. /\ all \in Seq(PixelSet) /\ Len(all) = Len(a) + Len(r)
      /\ \A k \in 1 .. Len(a) + Len(r) : all[k] = IF k <= Len(a) THEN a[k] ELSE r[k - Len(a)]
  BY <1>1, <1>2, Zenon
<1> QED
  BY <1>3, Zenon DEF all, Continues

LEMMA Extends ==
  ASSUME SizeOK, NEW n \in Nat, NEW m \in Nat, NEW p \in Seq(PixelSet), NEW b \in Seq(PixelSet),
         Glued(p, b, Pixels(n, m)), NEW i \in Nat, NEW v \in PixelSet, AllAlike(n, m, i, v)
  PROVE  /\ b \o Run(v, i) \in Seq(PixelSet) /\ Len(b \o Run(v, i)) = Len(b) + i
         /\ Glued(p, b \o Run(v, i), Pixels(n, m + i))
<1> DEFINE run == Run(v, i)
           all == p \o (b \o run)
           first == Pixels(n, m)
<1>1. run \in Seq(PixelSet) /\ Len(run) = i /\ \A k \in 1 .. i : run[k] = v
  BY RunTyped
<1> HIDE DEF run
<1>2. b \o run \in Seq(PixelSet) /\ Len(b \o run) = Len(b) + i
  BY <1>1, ConcatProperties
<1>3. first \in Seq(PixelSet) /\ Len(first) = m /\ \A k \in 1 .. m : first[k] = PixelOf(n, k)
  BY PixelsTyped, Zenon
<1>9. Glued(p, b, first)
  OBVIOUS
<1> HIDE DEF first
<1>4. /\ all \in Seq(PixelSet) /\ Len(all) = Len(first) + Len(run)
      /\ \A k \in 1 .. Len(first) + Len(run) :
            all[k] = IF k <= Len(first) THEN first[k] ELSE run[k - Len(first)]
  <2>1. run \in Seq(PixelSet) /\ first \in Seq(PixelSet) /\ Glued(p, b, first)
    BY <1>1, <1>3, <1>9
  <2>2. Continues(all, first, run)
    BY <2>1, Joined
  <2> QED
    BY <2>2, Zenon DEF Continues
<1> HIDE DEF all
<1>5. /\ all \in Seq(PixelSet) /\ Len(all) = m + i
      /\ \A k \in 1 .. m + i : all[k] = IF k <= m THEN first[k] ELSE run[k - m]
  BY <1>1, <1>3, <1>4, Zenon
<1>6. \A k \in 1 .. m + i : all[k] = PixelOf(n, k)
  <2> SUFFICES ASSUME NEW k \in 1 .. m + i PROVE all[k] = PixelOf(n, k)
    OBVIOUS
  <2>1. CASE k <= m
    BY <1>3, <1>5, <2>1
  <2>2. CASE ~(k <= m)
    <3>1. k - m \in 1 .. i /\ k \in m + 1 .. m + i
      BY <2>2
    <3>2. all[k] = run[k - m]
      BY <1>5, <2>2, Zenon
    <3> QED
      BY <1>1, <3>1, <3>2, Zenon DEF AllAlike
  <2> QED
    BY <2>1, <2>2
<1>7. /\ Pixels(n, m + i) \in Seq(PixelSet) /\ Len(Pixels(n, m + i)) = m + i
      /\ \A k \in 1 .. m + i : Pixels(n, m + i)[k] = PixelOf(n, k)
  BY PixelsTyped
<1>8. all = Pixels(n, m + i)
  BY <1>5, <1>6, <1>7, SeqEqual
<1> QED
  BY <1>2, <1>8, Zenon DEF run, all, Glued

-----------------------------------------------------------------------------
(* The streaming calls.                                                    *)
Sent(s, on) == [s EXCEPT !.buf = <<>>, !.on = on]
Taken(s, buf, i) == [s EXCEPT !.buf = buf, !.sent = @ + i]
OnPanel(held, pixels) == [bus |-> held, pixels |-> pixels]
Both(s, p) == [s |-> s, p |-> p]

LEMMA SentFields ==
  ASSUME NEW s, NEW on
  PROVE  /\ Sent(s, on).buf = <<>> /\ Sent(s, on).on = on
         /\ Sent(s, on).total = s.total /\ Sent(s, on).sent = s.sent
BY DEF Sent

LEMMA TakenFields ==
  ASSUME NEW s, NEW buf, NEW i
  PROVE  /\ Taken(s, buf, i).buf = buf /\ Taken(s, buf, i).on = s.on
         /\ Taken(s, buf, i).total = s.total /\ Taken(s, buf, i).sent = s.sent + i
BY DEF Taken

LEMMA BothFields ==
  ASSUME NEW s, NEW p
  PROVE  Both(s, p).s = s /\ Both(s, p).p = p
BY DEF Both

LEMMA OnPanelFields ==
  ASSUME NEW held, NEW pixels
  PROVE  OnPanel(held, pixels).bus = held /\ OnPanel(held, pixels).pixels = pixels
BY DEF OnPanel

(* A flush in the middle of the stream keeps the bus; the one that comes   *)
(* with everything sent gives it back.                                     *)
LEMMA FlushIs ==
  ASSUME NEW s, NEW p, StreamTyped(s), PanelTyped(p), NEW force \in BOOLEAN
  PROVE  /\ ~s.on \/ s.buf = <<>> => Flush(Both(s, p), force) = Both(s, p)
         /\ s.on /\ s.buf # <<>> =>
              \E last \in BOOLEAN :
                /\ last <=> force /\ s.sent >= s.total
                /\ Flush(Both(s, p), force) =
                     Both(Sent(s, ~last), OnPanel(p.bus /\ ~last, p.pixels \o s.buf))
<1>1. Both(s, p).s = s /\ Both(s, p).p = p
  BY BothFields
<1> DEFINE w == Both(s, p)
           last == force /\ s.sent >= s.total
<1>2. CASE ~s.on \/ s.buf = <<>>
  <2>1. Flush(w, force) = w
    BY <1>1, <1>2, Zenon DEF Flush
  <2> QED
    BY <1>2, <2>1
<1>3. CASE s.on /\ s.buf # <<>>
  <2>1. Flush(w, force) = [s |-> [s EXCEPT !.buf = <<>>, !.on = ~last],
                           p |-> SendChunk(p, s.buf, last)]
    BY <1>1, <1>3, Zenon DEF Flush
  <2>2. SendChunk(p, s.buf, last) = OnPanel(p.bus /\ ~last, p.pixels \o s.buf)
    BY Zenon DEF SendChunk, OnPanel
  <2>3. Flush(w, force) = Both(Sent(s, ~last), OnPanel(p.bus /\ ~last, p.pixels \o s.buf))
    BY <2>1, <2>2, Zenon DEF Both, Sent
  <2>4. last \in BOOLEAN
    OBVIOUS
  <2> QED
    BY <1>3, <2>3, <2>4, Zenon
<1> QED
  BY <1>2, <1>3, Zenon

(* In the middle of the stream: m pixels of frame n were given to it, and  *)
(* the panel and the buffer hold them; and at its end, when the buffer is  *)
(* empty and the bus is held just when the stream is still open.           *)
Streaming(s, p, n, m) ==
    /\ StreamTyped(s) /\ PanelTyped(p)
    /\ s.on /\ p.bus
    /\ s.total = size.w * size.h /\ s.sent = m
    /\ Len(s.buf) < size.chunk
    /\ p.pixels \o s.buf = Pixels(n, m)

Streamed(s, p, n) ==
    /\ StreamTyped(s) /\ PanelTyped(p)
    /\ s.on <=> p.bus
    /\ s.buf = <<>> /\ s.sent = s.total
    /\ p.pixels = Pixels(n, size.w * size.h)

LEMMA PutIs ==
  ASSUME SizeOK, NEW s, NEW p, NEW n \in Nat, NEW m \in Nat, Streaming(s, p, n, m),
         NEW i \in Nat \ {0}, Len(s.buf) + i <= size.chunk, NEW v \in PixelSet, AllAlike(n, m, i, v)
  PROVE  Streaming(Put(Both(s, p), v, i).s, Put(Both(s, p), v, i).p, n, m + i)
<1>1. /\ StreamTyped(s) /\ PanelTyped(p) /\ s.on /\ p.bus
      /\ s.total = size.w * size.h /\ s.sent = m /\ Len(s.buf) < size.chunk
      /\ p.pixels \o s.buf = Pixels(n, m)
  BY Zenon DEF Streaming
<1>2. s.buf \in Seq(PixelSet) /\ p.pixels \in Seq(PixelSet) /\ s.total \in Nat
  BY <1>1, Zenon DEF StreamTyped, PanelTyped
<1>3. Len(s.buf) \in Nat /\ size.chunk \in Nat
  BY <1>2 DEF SizeOK
<1>4. i \in Nat /\ i > 0 /\ Len(s.buf) + i <= size.chunk
  BY SMT
<1> DEFINE buf == s.buf \o Run(v, i)
           taken == Taken(s, buf, i)
<1>5. /\ buf \in Seq(PixelSet) /\ Len(buf) = Len(s.buf) + i
      /\ p.pixels \o buf = Pixels(n, m + i)
  <2>1. Glued(p.pixels, s.buf, Pixels(n, m))
    BY <1>1, Zenon DEF Glued
  <2>2. /\ s.buf \o Run(v, i) \in Seq(PixelSet) /\ Len(s.buf \o Run(v, i)) = Len(s.buf) + i
        /\ Glued(p.pixels, s.buf \o Run(v, i), Pixels(n, m + i))
    BY <1>2, <1>4, <2>1, Extends
  <2> QED
    BY <2>2, Zenon DEF Glued
<1>6. Both(s, p).s = s /\ Both(s, p).p = p
  BY BothFields
<1>7. Put(Both(s, p), v, i) = IF Len(taken.buf) = size.chunk THEN Flush(Both(taken, p), FALSE)
                              ELSE Both(taken, p)
  BY <1>6, Zenon DEF Put, Taken, Both, Run
<1> HIDE DEF buf
<1>8. taken.buf = buf /\ taken.on = s.on /\ taken.total = s.total /\ taken.sent = s.sent + i
  BY TakenFields
<1> HIDE DEF taken
<1>9. taken.sent = m + i /\ m + i \in Nat
  BY <1>1, <1>4, <1>8
<1>10. StreamTyped(taken)
  BY <1>1, <1>2, <1>5, <1>8, <1>9, Zenon DEF StreamTyped
<1> DEFINE out == Put(Both(s, p), v, i)
<1>11. CASE Len(buf) = size.chunk
  <2>1. out = Flush(Both(taken, p), FALSE)
    BY <1>7, <1>8, <1>11, Zenon
  <2>2. taken.on /\ taken.buf # <<>>
    <3>1. buf # <<>>
      BY <1>3, <1>4, <1>5, <1>11 
    <3> QED
      BY <1>1, <1>8, <3>1, Zenon
  <2>3. PICK last \in BOOLEAN :
          /\ last <=> FALSE /\ taken.sent >= taken.total
          /\ Flush(Both(taken, p), FALSE) =
               Both(Sent(taken, ~last), OnPanel(p.bus /\ ~last, p.pixels \o taken.buf))
    BY <1>1, <1>10, <2>2, FlushIs, Zenon
  <2>4. last = FALSE
    BY <2>3
  <2> DEFINE on == ~last
             held == p.bus /\ ~last
             all == p.pixels \o taken.buf
  <2>5. on /\ held /\ on \in BOOLEAN /\ held \in BOOLEAN
    BY <1>1, <2>4, Zenon
  <2>6. out = Both(Sent(taken, on), OnPanel(held, all))
    BY <2>1, <2>3, Zenon
  <2> HIDE DEF on, held, all, out
  <2>7. out.s = Sent(taken, on) /\ out.p = OnPanel(held, all)
    BY <2>6, BothFields, Zenon
  <2>8. /\ out.s.buf = <<>> /\ out.s.on = on /\ out.s.total = taken.total /\ out.s.sent = taken.sent
        /\ out.p.bus = held /\ out.p.pixels = all
    <3>1. /\ Sent(taken, on).buf = <<>> /\ Sent(taken, on).on = on
          /\ Sent(taken, on).total = taken.total /\ Sent(taken, on).sent = taken.sent
      BY SentFields
    <3>2. OnPanel(held, all).bus = held /\ OnPanel(held, all).pixels = all
      BY OnPanelFields
    <3> QED
      BY <2>7, <3>1, <3>2
  <2>9. all = Pixels(n, m + i)
    BY <1>5, <1>8, Zenon DEF all
  <2>10. Pixels(n, m + i) \in Seq(PixelSet)
    BY <1>9, PixelsTyped, Zenon
  <2>11. all \o <<>> = all /\ <<>> \in Seq(PixelSet) /\ Len(<<>>) = 0
    BY <2>9, <2>10
  <2>12. Len(out.s.buf) < size.chunk
    BY <2>8, <2>11 DEF SizeOK
  <2>13. out.p.pixels \o out.s.buf = Pixels(n, m + i)
    BY <2>8, <2>9, <2>11, Zenon
  <2>14. StreamTyped(out.s)
    BY <1>1, <1>2, <1>8, <1>9, <2>5, <2>8, <2>11, Zenon DEF StreamTyped
  <2>15. PanelTyped(out.p)
    BY <2>5, <2>8, <2>9, <2>10, Zenon DEF PanelTyped
  <2>16. Streaming(out.s, out.p, n, m + i)
    BY <1>1, <1>8, <1>9, <2>5, <2>8, <2>12, <2>13, <2>14, <2>15, Zenon DEF Streaming
  <2> QED
    BY <2>16, Zenon DEF out
<1>12. CASE Len(buf) # size.chunk
  <2>1. out = Both(taken, p)
    BY <1>7, <1>8, <1>12, Zenon
  <2> HIDE DEF out
  <2>2. out.s = taken /\ out.p = p
    BY <2>1, BothFields, Zenon
  <2>3. Len(buf) < size.chunk
    <3> DEFINE a == Len(buf)
               c == size.chunk
    <3>1. a \in Nat /\ c \in Nat /\ a <= c /\ a # c
      BY <1>3, <1>4, <1>5, <1>12
    <3> HIDE DEF a, c
    <3>2. a < c
      BY <3>1
    <3> QED
      BY <3>2 DEF a, c
  <2>4. Streaming(out.s, out.p, n, m + i)
    BY <1>1, <1>5, <1>8, <1>9, <1>10, <2>2, <2>3, Zenon DEF Streaming
  <2> QED
    BY <2>4, Zenon DEF out
<1> QED
  BY <1>11, <1>12, Zenon

(* The end of a row changes nothing before the last; at the last one, what *)
(* is left in the buffer is sent, and if there is something the bus is     *)
(* given back with it.                                                     *)
LEMMA EndRowIs ==
  ASSUME SizeOK, NEW s, NEW p, NEW n \in Nat, NEW m \in Nat, Streaming(s, p, n, m),
         m <= size.w * size.h
  PROVE  IF m < size.w * size.h THEN EndRow(Both(s, p)) = Both(s, p)
         ELSE Streamed(EndRow(Both(s, p)).s, EndRow(Both(s, p)).p, n)
<1>1. /\ StreamTyped(s) /\ PanelTyped(p) /\ s.on /\ p.bus
      /\ s.total = size.w * size.h /\ s.sent = m
      /\ p.pixels \o s.buf = Pixels(n, m)
  BY Zenon DEF Streaming
<1>2. s.buf \in Seq(PixelSet) /\ p.pixels \in Seq(PixelSet) /\ s.total \in Nat /\ s.sent \in Nat
  BY <1>1, Zenon DEF StreamTyped, PanelTyped
<1>3. Both(s, p).s = s /\ Both(s, p).p = p
  BY BothFields
<1>4. EndRow(Both(s, p)) = IF s.sent >= s.total THEN Flush(Both(s, p), TRUE) ELSE Both(s, p)
  BY <1>3, Zenon DEF EndRow
<1>5. CASE m < size.w * size.h
  <2>1. ~(s.sent >= s.total)
    BY <1>1, <1>2, <1>5
  <2> QED
    BY <1>4, <1>5, <2>1, Zenon
<1>6. CASE ~(m < size.w * size.h)
  <2> DEFINE out == EndRow(Both(s, p))
  <2>1. s.sent >= s.total /\ m = size.w * size.h
    BY <1>1, <1>2, <1>6
  <2>2. out = Flush(Both(s, p), TRUE)
    BY <1>4, <2>1, Zenon
  <2>3. CASE s.buf = <<>>
    <3>1. out = Both(s, p)
      BY <1>1, <2>2, <2>3, FlushIs, Zenon
    <3> HIDE DEF out
    <3>2. out.s = s /\ out.p = p
      BY <3>1, BothFields, Zenon
    <3>3. p.pixels \o <<>> = p.pixels
      BY <1>2
    <3>4. Streamed(out.s, out.p, n)
      BY <1>1, <2>1, <2>3, <3>2, <3>3, Zenon DEF Streamed
    <3> QED
      BY <1>6, <3>4, Zenon DEF out
  <2>4. CASE s.buf # <<>>
    <3>1. PICK last \in BOOLEAN :
            /\ last <=> TRUE /\ s.sent >= s.total
            /\ Flush(Both(s, p), TRUE) =
                 Both(Sent(s, ~last), OnPanel(p.bus /\ ~last, p.pixels \o s.buf))
      BY <1>1, <2>4, FlushIs, Zenon
    <3>2. last
      BY <2>1, <3>1, Zenon
    <3> DEFINE on == ~last
               held == p.bus /\ ~last
               all == p.pixels \o s.buf
    <3>3. ~on /\ ~held /\ on \in BOOLEAN /\ held \in BOOLEAN
      BY <3>2, Zenon
    <3>4. out = Both(Sent(s, on), OnPanel(held, all))
      BY <2>2, <3>1, Zenon
    <3>5. all = Pixels(n, m) /\ all \in Seq(PixelSet)
      BY <1>1, PixelsTyped, Zenon
    <3> HIDE DEF on, held, all, out
    <3>6. out.s = Sent(s, on) /\ out.p = OnPanel(held, all)
      BY <3>4, BothFields, Zenon
    <3>7. /\ out.s.buf = <<>> /\ out.s.on = on /\ out.s.total = s.total /\ out.s.sent = s.sent
          /\ out.p.bus = held /\ out.p.pixels = all
      <4>1. /\ Sent(s, on).buf = <<>> /\ Sent(s, on).on = on
            /\ Sent(s, on).total = s.total /\ Sent(s, on).sent = s.sent
        BY SentFields
      <4>2. OnPanel(held, all).bus = held /\ OnPanel(held, all).pixels = all
        BY OnPanelFields
      <4> QED
        BY <3>6, <4>1, <4>2
    <3>8. <<>> \in Seq(PixelSet)
      OBVIOUS
    <3>9. StreamTyped(out.s) /\ PanelTyped(out.p)
      BY <1>2, <3>3, <3>5, <3>7, <3>8, Zenon DEF StreamTyped, PanelTyped
    <3>10. Streamed(out.s, out.p, n)
      BY <1>1, <2>1, <3>3, <3>5, <3>7, <3>9, Zenon DEF Streamed
    <3> QED
      BY <1>6, <3>10, Zenon DEF out
  <2> QED
    BY <2>3, <2>4, Zenon
<1> QED
  BY <1>5, <1>6, Zenon

LEMMA EndIs ==
  ASSUME SizeOK, NEW s, NEW p, NEW n \in Nat, Streamed(s, p, n)
  PROVE  /\ StreamTyped(End(Both(s, p)).s) /\ PanelTyped(End(Both(s, p)).p)
         /\ ~End(Both(s, p)).p.bus
         /\ End(Both(s, p)).p.pixels = Pixels(n, size.w * size.h)
<1>1. /\ StreamTyped(s) /\ PanelTyped(p) /\ (s.on <=> p.bus) /\ s.buf = <<>>
      /\ p.pixels = Pixels(n, size.w * size.h)
  BY Zenon DEF Streamed
<1>2. Flush(Both(s, p), TRUE) = Both(s, p)
  BY <1>1, FlushIs, Zenon
<1>3. Both(s, p).s = s /\ Both(s, p).p = p
  BY BothFields
<1> DEFINE off == [s EXCEPT !.on = FALSE]
           back == [p EXCEPT !.bus = FALSE]
           out == End(Both(s, p))
<1>4. out = IF s.on THEN Both(off, back) ELSE Both(s, p)
  BY <1>2, <1>3, Zenon DEF End, Both
<1>5. CASE s.on
  <2>1. off.buf = s.buf /\ off.total = s.total /\ off.sent = s.sent /\ off.on = FALSE
    OBVIOUS
  <2>2. back.pixels = p.pixels /\ back.bus = FALSE
    OBVIOUS
  <2> HIDE DEF off, back, out
  <2>3. out.s = off /\ out.p = back
    BY <1>4, <1>5, BothFields, Zenon
  <2>4. FALSE \in BOOLEAN
    OBVIOUS
  <2>5. StreamTyped(out.s) /\ PanelTyped(out.p)
    BY <1>1, <2>1, <2>2, <2>3, <2>4, Zenon DEF StreamTyped, PanelTyped
  <2>6. ~out.p.bus /\ out.p.pixels = Pixels(n, size.w * size.h)
    BY <1>1, <2>2, <2>3, Zenon
  <2> QED
    BY <2>5, <2>6, Zenon DEF out
<1>6. CASE ~s.on
  <2> HIDE DEF out
  <2>1. out.s = s /\ out.p = p
    BY <1>4, <1>6, BothFields, Zenon
  <2> QED
    BY <1>1, <1>6, <2>1, Zenon DEF out
<1> QED
  BY <1>5, <1>6, Zenon

-----------------------------------------------------------------------------
(* The invariant.  A buffer is free, or has one holder: the queue, the     *)
(* emulator, which draws into it, or the display task, which streams it.   *)
(* Frames are drawn, queued and streamed in order, so that a buffer holds  *)
(* the frame its place in this line says.                                  *)
EmuTyped(e) ==
    /\ e.at \in {"acquire", "wait", "draw", "idle"}
    /\ e.buffer \in Buffers /\ e.next \in Buffers
    /\ e.frame \in Nat /\ e.row \in 1 .. size.h + 1

DispTyped(d) ==
    /\ d.at \in {"receive", "rows"}
    /\ d.buffer \in Buffers /\ d.row \in 1 .. size.h + 1 /\ d.left \in 0 .. size.w

FramesTyped(f) == f \in [Buffers -> [1 .. size.h -> Nat]]

QueueTyped(q) == q \in Seq(Buffers) /\ \A i, j \in 1 .. Len(q) : q[i] = q[j] => i = j

Queued(q, b) == \E i \in 1 .. Len(q) : q[i] = b
Drawing(e, b) == e.at = "draw" /\ e.buffer = b
Showing(d, b) == d.at = "rows" /\ d.buffer = b

OneHolder(up, q, e, d) ==
    /\ up \subseteq Buffers
    /\ \A b \in Buffers :
          /\ b \in up => ~Queued(q, b) /\ ~Drawing(e, b) /\ ~Showing(d, b)
          /\ Drawing(e, b) => ~Queued(q, b) /\ ~Showing(d, b)
          /\ Showing(d, b) => ~Queued(q, b)
          /\ b \in up \/ Queued(q, b) \/ Drawing(e, b) \/ Showing(d, b)

OnWay(d) == IF d.at = "rows" THEN 1 ELSE 0
InWork(e) == IF e.at \in {"draw", "idle"} THEN 1 ELSE 0

Contents(f, q, e, d, n) ==
    /\ n \in Nat
    /\ e.frame = n + OnWay(d) + Len(q) + InWork(e)
    /\ d.at = "rows" => \A y \in 1 .. size.h : f[d.buffer][y] = n + 1
    /\ \A i \in 1 .. Len(q) : \A y \in 1 .. size.h : f[q[i]][y] = n + OnWay(d) + i
    /\ e.at = "draw" => \A y \in 1 .. size.h : y < e.row => f[e.buffer][y] = e.frame

OnTheBus(s, p, d, n) ==
    /\ StreamTyped(s) /\ PanelTyped(p)
    /\ d.at = "receive" => ~p.bus
    /\ d.at = "rows" /\ d.row <= size.h =>
         Streaming(s, p, n + 1, (d.row - 1) * size.w + (size.w - d.left))
    /\ d.at = "rows" /\ ~(d.row <= size.h) => Streamed(s, p, n + 1)

ActorsTyped(f, q, e, d) == EmuTyped(e) /\ DispTyped(d) /\ FramesTyped(f) /\ QueueTyped(q)

DisplayOK ==
    /\ SizeOK
    /\ ActorsTyped(frame, queue, emu, disp)
    /\ OneHolder(free, queue, emu, disp)
    /\ Contents(frame, queue, emu, disp, shown)
    /\ OnTheBus(stream, panel, disp, shown)

(* The same of the next state, of the same size.                           *)
NextOK ==
    /\ ActorsTyped(frame', queue', emu', disp')
    /\ OneHolder(free', queue', emu', disp')
    /\ Contents(frame', queue', emu', disp', shown')
    /\ OnTheBus(stream', panel', disp', shown')

LEMMA DisplayNextIs ==
  ASSUME DisplayOK, size' = size, NextOK
  PROVE  DisplayOK'
<1>1. SizeOK'
  BY Zenon DEF DisplayOK, SizeOK
<1>2. ActorsTyped(frame, queue, emu, disp)'
  BY Zenon DEF NextOK, ActorsTyped, EmuTyped, DispTyped, FramesTyped, QueueTyped
<1>3. OneHolder(free, queue, emu, disp)'
  BY Zenon DEF NextOK, OneHolder, Queued, Drawing, Showing
<1>4. Contents(frame, queue, emu, disp, shown)'
  BY Zenon DEF NextOK, Contents, OnWay, InWork
<1>5. OnTheBus(stream, panel, disp, shown)'
  BY Zenon DEF NextOK, OnTheBus, Streaming, Streamed, StreamTyped, PanelTyped, Pixels, PixelOf
<1> QED
  BY <1>1, <1>2, <1>3, <1>4, <1>5, Zenon DEF DisplayOK

LEMMA Parts ==
  ASSUME DisplayOK
  PROVE  /\ SizeOK
         /\ EmuTyped(emu) /\ DispTyped(disp) /\ FramesTyped(frame) /\ QueueTyped(queue)
         /\ OneHolder(free, queue, emu, disp)
         /\ Contents(frame, queue, emu, disp, shown)
         /\ OnTheBus(stream, panel, disp, shown)
BY Zenon DEF DisplayOK, ActorsTyped

(* A buffer that is free is taken to draw the next frame into.             *)
LEMMA DrawsStep ==
  ASSUME DisplayOK, NEW b \in free, emu.at \in {"acquire", "wait"}, Draws(b),
         UNCHANGED <<size, frame, queue, disp, stream, panel, shown>>
  PROVE  NextOK
<1>1. /\ SizeOK
      /\ EmuTyped(emu) /\ DispTyped(disp) /\ FramesTyped(frame) /\ QueueTyped(queue)
      /\ OneHolder(free, queue, emu, disp)
      /\ Contents(frame, queue, emu, disp, shown)
      /\ OnTheBus(stream, panel, disp, shown)
  BY Parts, Zenon
<1>2. /\ frame' = frame /\ queue' = queue /\ disp' = disp /\ stream' = stream
      /\ panel' = panel /\ shown' = shown
  OBVIOUS
<1>3. b \in Buffers
  BY <1>1 DEF OneHolder
<1>4. /\ free' = free \ {b} /\ emu'.at = "draw" /\ emu'.buffer = b /\ emu'.row = 1
      /\ emu'.frame = emu.frame + 1 /\ emu'.next = emu.next
  BY DEF Draws
<1>5. EmuTyped(emu')
  BY <1>1, <1>3, <1>4 DEF EmuTyped, SizeOK
<1>6. ActorsTyped(frame', queue', emu', disp')
  BY <1>1, <1>2, <1>5, Zenon DEF ActorsTyped
<1>7. OneHolder(free', queue', emu', disp')
  <2>1. ASSUME NEW c \in Buffers
        PROVE  /\ c \in free' => ~Queued(queue, c) /\ ~Drawing(emu', c) /\ ~Showing(disp, c)
               /\ Drawing(emu', c) => ~Queued(queue, c) /\ ~Showing(disp, c)
               /\ Showing(disp, c) => ~Queued(queue, c)
               /\ c \in free' \/ Queued(queue, c) \/ Drawing(emu', c) \/ Showing(disp, c)
    <3>1. Drawing(emu', c) <=> c = b
      BY <1>4 DEF Drawing
    <3>2. ~Drawing(emu, c)
      BY DEF Drawing
    <3>3. /\ c \in free => ~Queued(queue, c) /\ ~Showing(disp, c)
          /\ Showing(disp, c) => ~Queued(queue, c)
          /\ c \in free \/ Queued(queue, c) \/ Showing(disp, c)
      BY <1>1, <3>2, Zenon DEF OneHolder
    <3>4. c \in free' <=> c \in free /\ c # b
      BY <1>4
    <3> QED
      BY <3>1, <3>3, <3>4, Zenon
  <2>2. free' \subseteq Buffers
    BY <1>1, <1>4 DEF OneHolder
  <2> QED
    BY <1>2, <2>1, <2>2, Zenon DEF OneHolder
<1>8. Contents(frame', queue', emu', disp', shown')
  <2>1. /\ shown \in Nat /\ emu.frame = shown + OnWay(disp) + Len(queue) + InWork(emu)
        /\ disp.at = "rows" => \A y \in 1 .. size.h : frame[disp.buffer][y] = shown + 1
        /\ \A i \in 1 .. Len(queue) : \A y \in 1 .. size.h :
              frame[queue[i]][y] = shown + OnWay(disp) + i
    BY <1>1, Zenon DEF Contents
  <2>2. Len(queue) \in Nat /\ OnWay(disp) \in Nat /\ InWork(emu) = 0 /\ InWork(emu') = 1
    BY <1>1, <1>4 DEF QueueTyped, OnWay, InWork
  <2>3. emu'.frame = shown + OnWay(disp) + Len(queue) + InWork(emu')
    BY <1>4, <2>1, <2>2
  <2>4. \A y \in 1 .. size.h : ~(y < emu'.row)
    BY <1>1, <1>4 DEF SizeOK
  <2> QED
    BY <1>2, <2>1, <2>3, <2>4, Zenon DEF Contents
<1> QED
  BY <1>1, <1>2, <1>6, <1>7, <1>8, Zenon DEF NextOK

(* The emulator goes to sleep.                                             *)
LEMMA SleepStep ==
  ASSUME DisplayOK, emu.at = "acquire", emu' = [emu EXCEPT !.at = "wait"],
         UNCHANGED <<size, frame, free, queue, disp, stream, panel, shown>>
  PROVE  NextOK
<1>1. /\ SizeOK
      /\ EmuTyped(emu) /\ DispTyped(disp) /\ FramesTyped(frame) /\ QueueTyped(queue)
      /\ OneHolder(free, queue, emu, disp)
      /\ Contents(frame, queue, emu, disp, shown)
      /\ OnTheBus(stream, panel, disp, shown)
  BY Parts, Zenon
<1>2. /\ frame' = frame /\ queue' = queue /\ disp' = disp /\ stream' = stream
      /\ panel' = panel /\ shown' = shown /\ free' = free
  OBVIOUS
<1>3. /\ emu'.at = "wait" /\ emu'.buffer = emu.buffer /\ emu'.row = emu.row
      /\ emu'.frame = emu.frame /\ emu'.next = emu.next
  OBVIOUS
<1>4. EmuTyped(emu')
  BY <1>1, <1>3 DEF EmuTyped
<1>5. \A c \in Buffers : ~Drawing(emu, c) /\ ~Drawing(emu', c)
  BY <1>3 DEF Drawing
<1>6. OneHolder(free, queue, emu', disp)
  BY <1>1, <1>5, Zenon DEF OneHolder
<1>7. Contents(frame, queue, emu', disp, shown)
  <2>1. InWork(emu) = 0 /\ InWork(emu') = 0 /\ emu'.at # "draw"
    BY <1>3 DEF InWork
  <2> QED
    BY <1>1, <1>3, <2>1, Zenon DEF Contents
<1>8. ActorsTyped(frame', queue', emu', disp')
  BY <1>1, <1>2, <1>4, Zenon DEF ActorsTyped
<1> QED
  BY <1>1, <1>2, <1>6, <1>7, <1>8, Zenon DEF NextOK

LEMMA EmulatorWaits ==
  ASSUME DisplayOK, Acquire \/ Wake
  PROVE  NextOK
<1>1. CASE Acquire
  <2>1. emu.at = "acquire" /\ emu.at \in {"acquire", "wait"}
    BY <1>1 DEF Acquire
  <2>2. UNCHANGED <<size, frame, queue, disp, stream, panel, shown>>
    BY <1>1 DEF Acquire
  <2>3. \/ emu.next \in free /\ Draws(emu.next)
        \/ Other(emu.next) \in free /\ Draws(Other(emu.next))
        \/ emu' = [emu EXCEPT !.at = "wait"] /\ free' = free
    BY <1>1, Zenon DEF Acquire
  <2>4. CASE emu.next \in free /\ Draws(emu.next)
    BY <2>1, <2>2, <2>4, DrawsStep
  <2>5. CASE Other(emu.next) \in free /\ Draws(Other(emu.next))
    BY <2>1, <2>2, <2>5, DrawsStep
  <2>6. CASE emu' = [emu EXCEPT !.at = "wait"] /\ free' = free
    BY <2>1, <2>2, <2>6, SleepStep
  <2> QED
    BY <2>3, <2>4, <2>5, <2>6, Zenon
<1>2. CASE Wake
  <2>1. emu.at \in {"acquire", "wait"} /\ emu.next \in free /\ Draws(emu.next)
    BY <1>2 DEF Wake
  <2>2. UNCHANGED <<size, frame, queue, disp, stream, panel, shown>>
    BY <1>2 DEF Wake
  <2> QED
    BY <2>1, <2>2, DrawsStep
<1> QED
  BY <1>1, <1>2, Zenon

(* A row is drawn, into a buffer that is neither queued nor shown.         *)
LEMMA DrawRowStep ==
  ASSUME DisplayOK, DrawRow
  PROVE  NextOK
<1>1. /\ SizeOK
      /\ EmuTyped(emu) /\ DispTyped(disp) /\ FramesTyped(frame) /\ QueueTyped(queue)
      /\ OneHolder(free, queue, emu, disp)
      /\ Contents(frame, queue, emu, disp, shown)
      /\ OnTheBus(stream, panel, disp, shown)
  BY Parts, Zenon
<1>2. /\ queue' = queue /\ disp' = disp /\ stream' = stream
      /\ panel' = panel /\ shown' = shown /\ free' = free
  BY DEF DrawRow
<1>3. emu.at = "draw" /\ emu.row <= size.h
  BY DEF DrawRow
<1>4. /\ emu'.at = emu.at /\ emu'.buffer = emu.buffer /\ emu'.row = emu.row + 1
      /\ emu'.frame = emu.frame /\ emu'.next = emu.next
  BY DEF DrawRow
<1>5. EmuTyped(emu')
  BY <1>1, <1>3, <1>4 DEF EmuTyped, SizeOK
<1>6. \A c \in Buffers : Drawing(emu', c) <=> Drawing(emu, c)
  BY <1>4, Zenon DEF Drawing
<1>7. OneHolder(free, queue, emu', disp)
  BY <1>1, <1>6, Zenon DEF OneHolder
<1> DEFINE r == emu.row
           b == emu.buffer
<1>8. /\ b \in Buffers /\ r \in 1 .. size.h /\ emu.frame \in Nat
  BY <1>1, <1>3 DEF EmuTyped, SizeOK
<1>9. frame' = [frame EXCEPT ![b][r] = emu.frame]
  BY DEF DrawRow
<1> HIDE DEF r, b
<1>10. /\ FramesTyped(frame')
       /\ frame'[b][r] = emu.frame
       /\ \A y \in 1 .. size.h : y # r => frame'[b][y] = frame[b][y]
       /\ \A c \in Buffers : c # b => frame'[c] = frame[c]
  BY <1>1, <1>8, <1>9 DEF FramesTyped
<1>11. Drawing(emu, b)
  BY <1>3 DEF Drawing, b
<1>12. ~Queued(queue, b) /\ ~Showing(disp, b)
  BY <1>1, <1>8, <1>11, Zenon DEF OneHolder
<1>13. Contents(frame', queue, emu', disp, shown)
  <2>1. /\ shown \in Nat /\ emu.frame = shown + OnWay(disp) + Len(queue) + InWork(emu)
        /\ disp.at = "rows" => \A y \in 1 .. size.h : frame[disp.buffer][y] = shown + 1
        /\ \A i \in 1 .. Len(queue) : \A y \in 1 .. size.h :
              frame[queue[i]][y] = shown + OnWay(disp) + i
        /\ \A y \in 1 .. size.h : y < emu.row => frame[emu.buffer][y] = emu.frame
    BY <1>1, <1>3, Zenon DEF Contents
  <2>2. InWork(emu') = InWork(emu)
    BY <1>4, Zenon DEF InWork
  <2>3. disp.at = "rows" => \A y \in 1 .. size.h : frame'[disp.buffer][y] = shown + 1
    <3>1. disp.at = "rows" => disp.buffer # b /\ disp.buffer \in Buffers
      BY <1>1, <1>12 DEF Showing, DispTyped
    <3> QED
      BY <1>10, <2>1, <3>1, Zenon
  <2>4. ASSUME NEW i \in 1 .. Len(queue), NEW y \in 1 .. size.h
        PROVE  frame'[queue[i]][y] = shown + OnWay(disp) + i
    <3>1. queue[i] \in Buffers
      BY <1>1 DEF QueueTyped
    <3>2. queue[i] # b
      BY <1>12, Zenon DEF Queued
    <3> QED
      BY <1>10, <2>1, <3>1, <3>2, Zenon
  <2>5. ASSUME NEW y \in 1 .. size.h, y < emu'.row
        PROVE  frame'[emu'.buffer][y] = emu'.frame
    <3>1. emu'.buffer = b /\ emu.buffer = b
      BY <1>4 DEF b
    <3>2. CASE y = r
      BY <1>4, <1>10, <3>1, <3>2, Zenon
    <3>3. CASE y # r
      <4>1. y < emu.row
        <5>1. y < emu.row + 1 /\ y \in Nat /\ emu.row \in Nat /\ y # emu.row
          BY <1>1, <1>4, <1>8, <2>5, <3>3 DEF r, SizeOK
        <5> QED
          BY <5>1
      <4>2. frame[b][y] = emu.frame
        BY <2>1, <3>1, <4>1, Zenon
      <4> QED
        BY <1>4, <1>10, <3>1, <3>3, <4>2, Zenon
    <3> QED
      BY <3>2, <3>3, Zenon
  <2> QED
    BY <1>4, <2>1, <2>2, <2>3, <2>4, <2>5, Zenon DEF Contents
<1>14. ActorsTyped(frame', queue', emu', disp')
  BY <1>1, <1>2, <1>5, <1>10, Zenon DEF ActorsTyped
<1> QED
  BY <1>1, <1>2, <1>7, <1>13, <1>14, Zenon DEF NextOK

(* The console stops in the middle of a frame: its buffer is free again.   *)
LEMMA StopsStep ==
  ASSUME DisplayOK, ConsoleStops
  PROVE  NextOK
<1>1. /\ SizeOK
      /\ EmuTyped(emu) /\ DispTyped(disp) /\ FramesTyped(frame) /\ QueueTyped(queue)
      /\ OneHolder(free, queue, emu, disp)
      /\ Contents(frame, queue, emu, disp, shown)
      /\ OnTheBus(stream, panel, disp, shown)
  BY Parts, Zenon
<1>2. /\ frame' = frame /\ queue' = queue /\ disp' = disp /\ stream' = stream
      /\ panel' = panel /\ shown' = shown
  BY DEF ConsoleStops
<1>3. emu.at = "draw" /\ free' = free \union {emu.buffer}
  BY DEF ConsoleStops
<1>4. /\ emu'.at = "idle" /\ emu'.buffer = emu.buffer /\ emu'.row = emu.row
      /\ emu'.frame = emu.frame /\ emu'.next = emu.next
  BY DEF ConsoleStops
<1>5. EmuTyped(emu')
  BY <1>1, <1>4 DEF EmuTyped
<1>6. emu.buffer \in Buffers
  BY <1>1 DEF EmuTyped
<1>7. OneHolder(free', queue, emu', disp)
  <2>1. ASSUME NEW c \in Buffers
        PROVE  /\ c \in free' => ~Queued(queue, c) /\ ~Drawing(emu', c) /\ ~Showing(disp, c)
               /\ Drawing(emu', c) => ~Queued(queue, c) /\ ~Showing(disp, c)
               /\ Showing(disp, c) => ~Queued(queue, c)
               /\ c \in free' \/ Queued(queue, c) \/ Drawing(emu', c) \/ Showing(disp, c)
    <3>1. ~Drawing(emu', c)
      BY <1>4 DEF Drawing
    <3>2. Drawing(emu, c) <=> c = emu.buffer
      BY <1>3 DEF Drawing
    <3>3. /\ c \in free => ~Queued(queue, c) /\ ~Showing(disp, c)
          /\ Drawing(emu, c) => ~Queued(queue, c) /\ ~Showing(disp, c)
          /\ Showing(disp, c) => ~Queued(queue, c)
          /\ c \in free \/ Queued(queue, c) \/ Drawing(emu, c) \/ Showing(disp, c)
      BY <1>1, Zenon DEF OneHolder
    <3>4. c \in free' <=> c \in free \/ c = emu.buffer
      BY <1>3
    <3> QED
      BY <3>1, <3>2, <3>3, <3>4, Zenon
  <2>2. free' \subseteq Buffers
    BY <1>1, <1>3, <1>6 DEF OneHolder
  <2> QED
    BY <2>1, <2>2, Zenon DEF OneHolder
<1>8. Contents(frame, queue, emu', disp, shown)
  <2>1. InWork(emu) = 1 /\ InWork(emu') = 1 /\ emu'.at # "draw"
    BY <1>3, <1>4 DEF InWork
  <2> QED
    BY <1>1, <1>4, <2>1, Zenon DEF Contents
<1>9. ActorsTyped(frame', queue', emu', disp')
  BY <1>1, <1>2, <1>5, Zenon DEF ActorsTyped
<1> QED
  BY <1>1, <1>2, <1>7, <1>8, <1>9, Zenon DEF NextOK

(* There is room in the queue for the frame drawn: of two buffers, one is  *)
(* the one it was drawn into.                                              *)
LEMMA RoomToSend ==
  ASSUME NEW q, QueueTyped(q), NEW b \in Buffers, ~Queued(q, b)
  PROVE  Len(q) < Cardinality(Buffers)
<1>1. Buffers = 0 .. 1 /\ 0 \in Int /\ 1 \in Int
  BY DEF Buffers
<1>2. Cardinality(0 .. 1) = 2
  <2>1. \A a, c \in Int : Cardinality(a .. c) = IF a > c THEN 0 ELSE c - a + 1
    BY FS_Interval, Zenon
  <2>2. Cardinality(0 .. 1) = IF 0 > 1 THEN 0 ELSE 1 - 0 + 1
    BY <1>1, <2>1, Zenon
  <2> QED
    BY <2>2
<1>3. q \in Seq(Buffers) /\ Len(q) \in Nat
  BY DEF QueueTyped
<1>4. ASSUME ~(Len(q) < 2)
      PROVE  FALSE
  <2>1. 1 \in 1 .. Len(q) /\ 2 \in 1 .. Len(q)
    BY <1>3, <1>4
  <2>2. q[1] \in {0, 1} /\ q[2] \in {0, 1} /\ b \in {0, 1}
    BY <1>3, <2>1 DEF Buffers
  <2>3. q[1] # b /\ q[2] # b
    BY <2>1, Zenon DEF Queued
  <2>4. q[1] # q[2]
    BY <2>1 DEF QueueTyped
  <2> QED
    BY <2>2, <2>3, <2>4
<1> QED
  BY <1>1, <1>2, <1>4

LEMMA SendStep ==
  ASSUME DisplayOK, Send
  PROVE  NextOK
<1>1. /\ SizeOK
      /\ EmuTyped(emu) /\ DispTyped(disp) /\ FramesTyped(frame) /\ QueueTyped(queue)
      /\ OneHolder(free, queue, emu, disp)
      /\ Contents(frame, queue, emu, disp, shown)
      /\ OnTheBus(stream, panel, disp, shown)
  BY Parts, Zenon
<1>2. /\ frame' = frame /\ free' = free /\ disp' = disp /\ stream' = stream
      /\ panel' = panel /\ shown' = shown
  BY DEF Send
<1> DEFINE b == emu.buffer
<1>3. emu.at = "draw" /\ emu.row > size.h
  BY DEF Send
<1>4. /\ emu'.at = "acquire" /\ emu'.buffer = b /\ emu'.row = emu.row
      /\ emu'.frame = emu.frame /\ emu'.next = Other(b)
  BY DEF Send
<1>5. b \in Buffers /\ Other(b) \in Buffers /\ emu.row \in Nat
  BY <1>1 DEF EmuTyped, Other, Buffers
<1>6. EmuTyped(emu')
  BY <1>1, <1>4, <1>5 DEF EmuTyped
<1>7. Drawing(emu, b)
  BY <1>3 DEF Drawing
<1>8. ~Queued(queue, b) /\ ~Showing(disp, b) /\ b \notin free
  BY <1>1, <1>5, <1>7, Zenon DEF OneHolder
<1>9. queue' = Append(queue, b)
  <2>1. Len(queue) < Cardinality(Buffers)
    BY <1>1, <1>5, <1>8, RoomToSend
  <2>2. queue' = IF Len(queue) < Cardinality(Buffers) THEN Append(queue, b) ELSE queue
    BY DEF Send
  <2> QED
    BY <2>1, <2>2, Zenon
<1> HIDE DEF b
<1>10. /\ queue \in Seq(Buffers) /\ Len(queue) \in Nat
       /\ queue' \in Seq(Buffers) /\ Len(queue') = Len(queue) + 1
       /\ \A i \in 1 .. Len(queue) : queue'[i] = queue[i]
       /\ queue'[Len(queue) + 1] = b
  BY <1>1, <1>5, <1>9 DEF QueueTyped
<1>11. \A i \in 1 .. Len(queue') : i \in 1 .. Len(queue) \/ i = Len(queue) + 1
  BY <1>10
<1>12. 1 .. Len(queue) \subseteq 1 .. Len(queue') /\ Len(queue) + 1 \in 1 .. Len(queue')
  BY <1>10
<1>13. \A c \in Buffers : Queued(queue', c) <=> Queued(queue, c) \/ c = b
  BY <1>10, <1>11, <1>12, Zenon DEF Queued
<1>14. QueueTyped(queue')
  <2>1. \A i \in 1 .. Len(queue) : queue[i] # b
    BY <1>8, Zenon DEF Queued
  <2>2. \A i, j \in 1 .. Len(queue) : queue[i] = queue[j] => i = j
    BY <1>1, Zenon DEF QueueTyped
  <2>3. ASSUME NEW i \in 1 .. Len(queue'), NEW j \in 1 .. Len(queue'), queue'[i] = queue'[j]
        PROVE  i = j
    BY <1>10, <1>11, <2>1, <2>2, <2>3, Zenon
  <2> QED
    BY <1>10, <2>3, Zenon DEF QueueTyped
<1>15. OneHolder(free, queue', emu', disp)
  <2>1. ASSUME NEW c \in Buffers
        PROVE  /\ c \in free => ~Queued(queue', c) /\ ~Drawing(emu', c) /\ ~Showing(disp, c)
               /\ Drawing(emu', c) => ~Queued(queue', c) /\ ~Showing(disp, c)
               /\ Showing(disp, c) => ~Queued(queue', c)
               /\ c \in free \/ Queued(queue', c) \/ Drawing(emu', c) \/ Showing(disp, c)
    <3>1. ~Drawing(emu', c)
      BY <1>4 DEF Drawing
    <3>2. Drawing(emu, c) => c = b
      BY DEF Drawing, b
    <3>3. /\ c \in free => ~Queued(queue, c) /\ ~Showing(disp, c)
          /\ Showing(disp, c) => ~Queued(queue, c)
          /\ c \in free \/ Queued(queue, c) \/ Drawing(emu, c) \/ Showing(disp, c)
      BY <1>1, Zenon DEF OneHolder
    <3>4. Queued(queue', c) <=> Queued(queue, c) \/ c = b
      BY <1>13
    <3> QED
      BY <1>8, <3>1, <3>2, <3>3, <3>4, Zenon
  <2> QED
    BY <1>1, <2>1, Zenon DEF OneHolder
<1>16. Contents(frame, queue', emu', disp, shown)
  <2>1. /\ shown \in Nat /\ emu.frame = shown + OnWay(disp) + Len(queue) + InWork(emu)
        /\ disp.at = "rows" => \A y \in 1 .. size.h : frame[disp.buffer][y] = shown + 1
        /\ \A i \in 1 .. Len(queue) : \A y \in 1 .. size.h :
              frame[queue[i]][y] = shown + OnWay(disp) + i
        /\ \A y \in 1 .. size.h : y < emu.row => frame[emu.buffer][y] = emu.frame
    BY <1>1, <1>3, Zenon DEF Contents
  <2>2. InWork(emu) = 1 /\ InWork(emu') = 0 /\ emu'.at # "draw"
    BY <1>3, <1>4 DEF InWork
  <2>3. OnWay(disp) \in Nat
    BY DEF OnWay
  <2>4. emu.frame = shown + OnWay(disp) + (Len(queue) + 1)
    BY <1>10, <2>1, <2>2, <2>3
  <2>5. emu'.frame = shown + OnWay(disp) + Len(queue') + InWork(emu')
    BY <1>4, <1>10, <2>1, <2>2, <2>3, <2>4
  <2>6. \A y \in 1 .. size.h : frame[b][y] = emu.frame
    <3>1. \A y \in 1 .. size.h : y < emu.row
      BY <1>1, <1>3, <1>5 DEF SizeOK
    <3> QED
      BY <2>1, <3>1, Zenon DEF b
  <2>7. ASSUME NEW i \in 1 .. Len(queue'), NEW y \in 1 .. size.h
        PROVE  frame[queue'[i]][y] = shown + OnWay(disp) + i
    BY <1>10, <1>11, <2>1, <2>4, <2>6, Zenon
  <2> QED
    BY <2>1, <2>2, <2>5, <2>7, Zenon DEF Contents
<1>17. ActorsTyped(frame', queue', emu', disp')
  BY <1>1, <1>2, <1>6, <1>14, Zenon DEF ActorsTyped
<1> QED
  BY <1>1, <1>2, <1>15, <1>16, <1>17, Zenon DEF NextOK

(* The rows of a picture, in pixels.                                       *)
LEMMA WholeRows ==
  ASSUME SizeOK, NEW y \in 1 .. size.h
  PROVE  /\ (y - 1) * size.w \in Nat /\ (y - 1) * size.w + size.w = y * size.w
         /\ y * size.w \in Nat /\ y * size.w <= size.w * size.h
         /\ y < size.h => y * size.w + size.w <= size.w * size.h
         /\ y = size.h => y * size.w = size.w * size.h
<1> DEFINE w == size.w
           h == size.h
           q == y - 1
           rest == h - y
<1>1. w \in Nat \ {0} /\ h \in Nat \ {0} /\ y \in Nat \ {0} /\ y <= h
  BY DEF SizeOK
<1>2. q \in Nat /\ rest \in Nat /\ y = q + 1 /\ h = y + rest
  BY <1>1
<1> HIDE DEF w, h, q, rest
<1>3. q * w \in Nat /\ y * w \in Nat /\ rest * w \in Nat
  BY <1>1, <1>2
<1>4. q * w + w = y * w
  BY <1>1, <1>2, <1>3
<1>5. w * h = y * w + rest * w
  BY <1>1, <1>2, <1>3
<1>6. y * w <= w * h
  BY <1>3, <1>5
<1>7. ASSUME y < h
      PROVE  y * w + w <= w * h
  <2> DEFINE less == rest - 1
  <2>1. less \in Nat /\ rest = less + 1
    BY <1>1, <1>2, <1>7
  <2> HIDE DEF less
  <2>2. less * w \in Nat /\ rest * w = less * w + w
    BY <1>1, <2>1
  <2> QED
    BY <1>1, <1>3, <1>5, <2>2
<1>8. y = h => y * w = w * h
  BY <1>1
<1> QED
  BY <1>3, <1>4, <1>6, <1>7, <1>8 DEF w, h, q

LEMMA BegunFields ==
  /\ Begun.on /\ Begun.on \in BOOLEAN /\ Begun.total = size.w * size.h
  /\ Begun.sent = 0 /\ Begun.buf = <<>>
<1>1. Begun.on = TRUE /\ TRUE \in BOOLEAN
  BY Zenon DEF Begun
<1>2. Begun.total = size.w * size.h /\ Begun.sent = 0 /\ Begun.buf = <<>>
  BY DEF Begun
<1> QED
  BY <1>1, <1>2, Zenon

(* A frame is received, and the window set for it.                         *)
LEMMA ReceiveStep ==
  ASSUME DisplayOK, Receive
  PROVE  NextOK
<1>1. /\ SizeOK
      /\ EmuTyped(emu) /\ DispTyped(disp) /\ FramesTyped(frame) /\ QueueTyped(queue)
      /\ OneHolder(free, queue, emu, disp)
      /\ Contents(frame, queue, emu, disp, shown)
      /\ OnTheBus(stream, panel, disp, shown)
  BY Parts, Zenon
<1>2. frame' = frame /\ free' = free /\ emu' = emu /\ shown' = shown
  BY DEF Receive
<1>3. disp.at = "receive" /\ queue # <<>>
  BY DEF Receive
<1>4. queue' = Tail(queue) /\ stream' = Begun
  BY DEF Receive
<1>5. /\ disp'.at = "rows" /\ disp'.buffer = Head(queue) /\ disp'.row = 1
      /\ disp'.left = RowTakes(Begun)
  BY DEF Receive
<1>6. panel'.bus = TRUE /\ panel'.pixels = <<>>
  <2>1. panel' = [bus |-> TRUE, pixels |-> <<>>]
    BY DEF Receive
  <2> QED
    BY <2>1, Zenon
<1>7. /\ queue \in Seq(Buffers) /\ Len(queue) \in Nat \ {0}
      /\ queue' \in Seq(Buffers) /\ Len(queue') = Len(queue) - 1
      /\ \A i \in 1 .. Len(queue') : i + 1 \in 1 .. Len(queue) /\ queue'[i] = queue[i + 1]
      /\ \A i \in 2 .. Len(queue) : i - 1 \in 1 .. Len(queue') /\ queue'[i - 1] = queue[i]
      /\ Head(queue) = queue[1] /\ 1 \in 1 .. Len(queue)
  BY <1>1, <1>3, <1>4 DEF QueueTyped
<1> DEFINE b == Head(queue)
<1>8. b \in Buffers
  BY <1>7
<1> HIDE DEF b
<1>9. \A i \in 1 .. Len(queue') : queue'[i] # b
  <2> SUFFICES ASSUME NEW i \in 1 .. Len(queue'), queue'[i] = b PROVE FALSE
    OBVIOUS
  <2>1. i + 1 \in 1 .. Len(queue) /\ queue[i + 1] = queue[1]
    BY <1>7, Zenon DEF b
  <2>2. i + 1 = 1
    BY <1>1, <1>7, <2>1, Zenon DEF QueueTyped
  <2> QED
    BY <1>7, <2>2
<1>10. \A c \in Buffers : Queued(queue, c) <=> Queued(queue', c) \/ c = b
  <2> SUFFICES ASSUME NEW c \in Buffers PROVE Queued(queue, c) <=> Queued(queue', c) \/ c = b
    OBVIOUS
  <2>1. ASSUME Queued(queue, c)
        PROVE  Queued(queue', c) \/ c = b
    <3>1. PICK i \in 1 .. Len(queue) : queue[i] = c
      BY <2>1, Zenon DEF Queued
    <3>2. i = 1 \/ i \in 2 .. Len(queue)
      BY <1>7
    <3> QED
      BY <1>7, <3>1, <3>2, Zenon DEF Queued, b
  <2>2. ASSUME Queued(queue', c)
        PROVE  Queued(queue, c)
    <3>1. PICK i \in 1 .. Len(queue') : queue'[i] = c
      BY <2>2, Zenon DEF Queued
    <3> QED
      BY <1>7, <3>1, Zenon DEF Queued
  <2>3. Queued(queue, b)
    BY <1>7, Zenon DEF Queued, b
  <2> QED
    BY <2>1, <2>2, <2>3, Zenon
<1>11. ~Queued(queue', b)
  BY <1>9, Zenon DEF Queued
<1>12. QueueTyped(queue')
  <2>1. ASSUME NEW i \in 1 .. Len(queue'), NEW j \in 1 .. Len(queue'), queue'[i] = queue'[j]
        PROVE  i = j
    <3>1. /\ i + 1 \in 1 .. Len(queue) /\ j + 1 \in 1 .. Len(queue)
          /\ queue[i + 1] = queue[j + 1]
      BY <1>7, <2>1, Zenon
    <3>2. i + 1 = j + 1
      BY <1>1, <3>1, Zenon DEF QueueTyped
    <3> QED
      BY <1>7, <3>2
  <2> QED
    BY <1>7, <2>1, Zenon DEF QueueTyped
<1>13. OneHolder(free, queue', emu, disp')
  <2>1. ASSUME NEW c \in Buffers
        PROVE  /\ c \in free => ~Queued(queue', c) /\ ~Drawing(emu, c) /\ ~Showing(disp', c)
               /\ Drawing(emu, c) => ~Queued(queue', c) /\ ~Showing(disp', c)
               /\ Showing(disp', c) => ~Queued(queue', c)
               /\ c \in free \/ Queued(queue', c) \/ Drawing(emu, c) \/ Showing(disp', c)
    <3>1. Showing(disp', c) <=> c = b
      BY <1>5 DEF Showing, b
    <3>2. ~Showing(disp, c)
      BY <1>3 DEF Showing
    <3>3. /\ c \in free => ~Queued(queue, c) /\ ~Drawing(emu, c)
          /\ Drawing(emu, c) => ~Queued(queue, c)
          /\ c \in free \/ Queued(queue, c) \/ Drawing(emu, c)
      BY <1>1, <3>2, Zenon DEF OneHolder
    <3>4. Queued(queue, c) <=> Queued(queue', c) \/ c = b
      BY <1>10
    <3> QED
      BY <1>11, <3>1, <3>3, <3>4, Zenon
  <2> QED
    BY <1>1, <2>1, Zenon DEF OneHolder
<1>14. Contents(frame, queue', emu, disp', shown)
  <2>1. /\ shown \in Nat /\ emu.frame = shown + OnWay(disp) + Len(queue) + InWork(emu)
        /\ \A i \in 1 .. Len(queue) : \A y \in 1 .. size.h :
              frame[queue[i]][y] = shown + OnWay(disp) + i
        /\ emu.at = "draw" => \A y \in 1 .. size.h :
              y < emu.row => frame[emu.buffer][y] = emu.frame
    BY <1>1, Zenon DEF Contents
  <2>2. OnWay(disp) = 0 /\ OnWay(disp') = 1
    BY <1>3, <1>5 DEF OnWay
  <2>3. InWork(emu) \in Nat
    BY DEF InWork
  <2>4. emu.frame = shown + OnWay(disp') + Len(queue') + InWork(emu)
    BY <1>7, <2>1, <2>2, <2>3
  <2>5. \A y \in 1 .. size.h : frame[disp'.buffer][y] = shown + 1
    <3>1. shown + OnWay(disp) + 1 = shown + 1
      BY <2>1, <2>2
    <3>2. disp'.buffer = queue[1]
      BY <1>5, <1>7
    <3> QED
      BY <1>7, <2>1, <3>1, <3>2, Zenon
  <2>6. ASSUME NEW i \in 1 .. Len(queue'), NEW y \in 1 .. size.h
        PROVE  frame[queue'[i]][y] = shown + OnWay(disp') + i
    <3>1. shown + OnWay(disp) + (i + 1) = shown + OnWay(disp') + i
      BY <1>7, <2>1, <2>2
    <3> QED
      BY <1>7, <2>1, <3>1, Zenon
  <2> QED
    BY <2>1, <2>4, <2>5, <2>6, Zenon DEF Contents
<1>15. RowTakes(Begun) = size.w /\ size.w \in Nat /\ 1 \in 1 .. size.h
  <2> DEFINE all == size.w * size.h
             w == size.w
  <2>1. 1 \in 1 .. size.h /\ w \in Nat /\ all \in Nat
    BY <1>1 DEF SizeOK
  <2>2. 1 * w <= all /\ 1 * w = w
    BY <1>1, <2>1, WholeRows
  <2>3. RowTakes(Begun) = IF w < all - 0 THEN w ELSE all - 0
    BY BegunFields, Zenon DEF RowTakes
  <2> HIDE DEF w, all
  <2>4. RowTakes(Begun) = w
    BY <2>1, <2>2, <2>3
  <2> QED
    BY <2>1, <2>4 DEF w
<1>16. DispTyped(disp')
  <2>1. 1 \in 1 .. size.h + 1 /\ size.w \in 0 .. size.w
    BY <1>1, <1>15 DEF SizeOK
  <2> QED
    BY <1>5, <1>8, <1>15, <2>1 DEF DispTyped, b
<1>17. OnTheBus(stream', panel', disp', shown)
  <2> DEFINE n == shown + 1
  <2>1. n \in Nat
    BY <1>1 DEF Contents
  <2> HIDE DEF n
  <2>2. <<>> \in Seq(PixelSet) /\ Len(<<>>) = 0
    OBVIOUS
  <2>3. TRUE \in BOOLEAN
    OBVIOUS
  <2>4. size.w * size.h \in Nat /\ 0 \in Nat /\ 0 < size.chunk
    BY <1>1 DEF SizeOK
  <2>5. StreamTyped(stream')
    BY <1>4, <2>2, <2>4, BegunFields, Zenon DEF StreamTyped
  <2>6. PanelTyped(panel')
    BY <1>6, <2>2, <2>3, Zenon DEF PanelTyped
  <2>7. Pixels(n, 0) = <<>>
    <3>1. Pixels(n, 0) \in Seq(PixelSet) /\ Len(Pixels(n, 0)) = 0
      BY <1>1, <2>1, <2>4, PixelsTyped
    <3> QED
      BY <3>1
  <2>8. <<>> \o <<>> = Pixels(n, 0)
    BY <2>7
  <2>9. Streaming(stream', panel', n, 0)
    BY <1>4, <1>6, <2>2, <2>4, <2>5, <2>6, <2>8, BegunFields, Zenon DEF Streaming
  <2>10. (disp'.row - 1) * size.w + (size.w - disp'.left) = 0
    <3>1. disp'.row - 1 = 0 /\ 0 * size.w = 0 /\ size.w - disp'.left = 0
      BY <1>5, <1>15
    <3> QED
      BY <3>1
  <2>11. disp'.row <= size.h /\ disp'.at # "receive"
    BY <1>1, <1>5 DEF SizeOK
  <2> QED
    BY <2>5, <2>6, <2>9, <2>10, <2>11, Zenon DEF OnTheBus, n
<1>18. ActorsTyped(frame', queue', emu', disp')
  BY <1>1, <1>2, <1>12, <1>16, Zenon DEF ActorsTyped
<1> QED
  BY <1>2, <1>13, <1>14, <1>17, <1>18, Zenon DEF NextOK

(* While a row is streamed nothing changes hands.                          *)
LEMMA SameHands ==
  ASSUME DisplayOK, disp.at = "rows", disp'.at = disp.at, disp'.buffer = disp.buffer,
         DispTyped(disp'), OnTheBus(stream', panel', disp', shown),
         UNCHANGED <<size, frame, free, queue, emu, shown>>
  PROVE  NextOK
<1>1. /\ SizeOK
      /\ EmuTyped(emu) /\ DispTyped(disp) /\ FramesTyped(frame) /\ QueueTyped(queue)
      /\ OneHolder(free, queue, emu, disp)
      /\ Contents(frame, queue, emu, disp, shown)
      /\ OnTheBus(stream, panel, disp, shown)
  BY Parts, Zenon
<1>2. frame' = frame /\ free' = free /\ queue' = queue /\ emu' = emu /\ shown' = shown
  OBVIOUS
<1>3. \A c \in Buffers : Showing(disp', c) <=> Showing(disp, c)
  BY Zenon DEF Showing
<1>4. OneHolder(free, queue, emu, disp')
  BY <1>1, <1>3, Zenon DEF OneHolder
<1>5. OnWay(disp') = OnWay(disp)
  BY Zenon DEF OnWay
<1>6. Contents(frame, queue, emu, disp', shown)
  BY <1>1, <1>5, Zenon DEF Contents
<1>7. ActorsTyped(frame', queue', emu', disp')
  BY <1>1, <1>2, Zenon DEF ActorsTyped
<1> QED
  BY <1>2, <1>4, <1>6, <1>7, Zenon DEF NextOK

(* A turn of the loop takes pixels of the row being streamed.              *)
LEMMA PartStep ==
  ASSUME DisplayOK, StreamPart
  PROVE  NextOK
<1>1. /\ SizeOK
      /\ EmuTyped(emu) /\ DispTyped(disp) /\ FramesTyped(frame) /\ QueueTyped(queue)
      /\ OneHolder(free, queue, emu, disp)
      /\ Contents(frame, queue, emu, disp, shown)
      /\ OnTheBus(stream, panel, disp, shown)
  BY Parts, Zenon
<1>2. disp.at = "rows" /\ disp.row <= size.h /\ disp.left > 0
  BY DEF StreamPart
<1> DEFINE i == TakesNow(stream, disp.left)
           v == <<frame[disp.buffer][disp.row], disp.row>>
           n == shown + 1
           r == disp.row
           m == (r - 1) * size.w + (size.w - disp.left)
           out == Put(Both(stream, panel), v, i)
<1>3. stream' = out.s /\ panel' = out.p
  BY Zenon DEF StreamPart, Streams, Both
<1>4. disp'.at = disp.at /\ disp'.buffer = disp.buffer /\ disp'.row = r /\ disp'.left = disp.left - i
  BY DEF StreamPart
<1> HIDE DEF out
<1>5. UNCHANGED <<size, frame, free, queue, emu, shown>>
  BY DEF StreamPart
<1>6. /\ r \in 1 .. size.h /\ disp.left \in 0 .. size.w /\ size.w \in Nat \ {0}
      /\ size.chunk \in Nat \ {0} /\ disp.buffer \in Buffers
  BY <1>1, <1>2 DEF DispTyped, SizeOK
<1>7. n \in Nat
  BY <1>1 DEF Contents
<1>8. /\ Streaming(stream, panel, n, m)
  BY <1>1, <1>2, Zenon DEF OnTheBus
<1>9. Len(stream.buf) \in Nat /\ Len(stream.buf) < size.chunk
  <2>1. stream.buf \in Seq(PixelSet) /\ Len(stream.buf) < size.chunk
    BY <1>8, Zenon DEF Streaming, StreamTyped
  <2> QED
    BY <2>1
<1>10. i \in 1 .. disp.left /\ i \in Nat \ {0} /\ Len(stream.buf) + i <= size.chunk
  BY <1>2, <1>6, <1>9 DEF TakesNow
<1>11. v = <<n, r>> /\ v \in PixelSet
  <2>1. frame[disp.buffer][r] = n
    BY <1>1, <1>2, <1>6, Zenon DEF Contents
  <2>2. r \in Nat
    BY <1>6
  <2> QED
    BY <1>7, <2>1, <2>2 DEF PixelSet
<1> DEFINE before == (r - 1) * size.w
<1>12. before \in Nat
  BY <1>1, <1>6, WholeRows
<1> HIDE DEF i, v, n, r, m
<1>13. m = before + (size.w - disp.left) /\ m \in Nat
  <2>1. m = before + (size.w - disp.left)
    BY DEF m
  <2> HIDE DEF before
  <2> QED
    BY <1>6, <1>12, <2>1
<1>14. AllAlike(n, m, i, v)
  <2> SUFFICES ASSUME NEW k \in m + 1 .. m + i PROVE PixelOf(n, k) = v
    BY Zenon DEF AllAlike
  <2> DEFINE j == k - before
  <2>1. k = before + j /\ j \in 1 .. size.w /\ k \in Nat
    <3> HIDE DEF before
    <3> QED
      BY <1>6, <1>10, <1>12, <1>13
  <2>2. r \in Nat \ {0}
    BY <1>6
  <2>3. k = (r - 1) * size.w + j
    BY <2>1
  <2> HIDE DEF j
  <2>4. ((k - 1) \div size.w) + 1 = r
    BY <1>1, <2>1, <2>2, <2>3, RowOf
  <2>5. PixelOf(n, k) = <<n, r>>
    BY <2>4, Zenon DEF PixelOf
  <2> QED
    BY <1>11, <2>5, Zenon
<1>15. Streaming(out.s, out.p, n, m + i)
  BY <1>1, <1>7, <1>8, <1>10, <1>11, <1>13, <1>14, PutIs DEF out
<1>16. DispTyped(disp')
  <2>1. disp.left - i \in 0 .. size.w /\ r \in 1 .. size.h + 1
    BY <1>1, <1>6, <1>10 DEF SizeOK
  <2>2. disp.at = "receive" \/ disp.at = "rows"
    BY <1>2
  <2> QED
    BY <1>2, <1>4, <1>6, <2>1 DEF DispTyped
<1>17. OnTheBus(stream', panel', disp', shown)
  <2>1. m + i = (disp'.row - 1) * size.w + (size.w - disp'.left)
    <3>1. (disp'.row - 1) * size.w = before
      BY <1>4
    <3> HIDE DEF before
    <3> QED
      BY <1>4, <1>6, <1>10, <1>12, <1>13, <3>1
  <2>2. Streaming(stream', panel', n, m + i)
    BY <1>3, <1>15, Zenon
  <2>3. StreamTyped(stream') /\ PanelTyped(panel')
    BY <2>2, Zenon DEF Streaming
  <2>4. disp'.at # "receive" /\ disp'.row <= size.h
    BY <1>2, <1>4 DEF r
  <2> QED
    BY <2>1, <2>2, <2>3, <2>4, Zenon DEF OnTheBus, n
<1> QED
  BY <1>2, <1>4, <1>5, <1>16, <1>17, SameHands

(* A row ends.                                                             *)
LEMMA RowEndsStep ==
  ASSUME DisplayOK, RowEnds
  PROVE  NextOK
<1>1. /\ SizeOK
      /\ EmuTyped(emu) /\ DispTyped(disp) /\ FramesTyped(frame) /\ QueueTyped(queue)
      /\ OneHolder(free, queue, emu, disp)
      /\ Contents(frame, queue, emu, disp, shown)
      /\ OnTheBus(stream, panel, disp, shown)
  BY Parts, Zenon
<1>2. disp.at = "rows" /\ disp.row <= size.h /\ disp.left = 0
  BY DEF RowEnds
<1> DEFINE n == shown + 1
           r == disp.row
           all == size.w * size.h
           w == size.w
           m == (r - 1) * w + (w - disp.left)
           out == EndRow(Both(stream, panel))
<1>3. stream' = out.s /\ panel' = out.p
  BY Zenon DEF RowEnds, Streams, Both
<1>4. /\ disp'.at = disp.at /\ disp'.buffer = disp.buffer /\ disp'.row = r + 1
      /\ disp'.left = RowTakes(stream')
  BY DEF RowEnds
<1> HIDE DEF out
<1>5. UNCHANGED <<size, frame, free, queue, emu, shown>>
  BY DEF RowEnds
<1>6. /\ r \in 1 .. size.h /\ w \in Nat \ {0} /\ size.h \in Nat /\ all \in Nat
      /\ disp.buffer \in Buffers
  BY <1>1, <1>2 DEF DispTyped, SizeOK
<1>7. n \in Nat
  BY <1>1 DEF Contents
<1>8. Streaming(stream, panel, n, m)
  BY <1>1, <1>2, Zenon DEF OnTheBus
<1>9. /\ (r - 1) * w \in Nat /\ (r - 1) * w + w = r * w
      /\ r * w \in Nat /\ r * w <= all
      /\ r < size.h => r * w + w <= all
      /\ r = size.h => r * w = all
  BY <1>1, <1>6, WholeRows
<1> HIDE DEF w, all, n
<1>10. m = r * w
  <2> DEFINE before == (r - 1) * w
  <2>1. m = before + (w - 0)
    BY <1>2
  <2>2. before \in Nat /\ before + w = r * w
    BY <1>9
  <2> HIDE DEF before, m
  <2> QED
    BY <1>6, <1>9, <2>1, <2>2
<1> HIDE DEF m
<1>11. disp'.at # "receive" /\ disp'.at = "rows" /\ disp'.row \in 1 .. size.h + 1
  BY <1>2, <1>4, <1>6
<1>12. m <= all /\ m \in Nat
  BY <1>9, <1>10
<1>13. IF m < all THEN out = Both(stream, panel) ELSE Streamed(out.s, out.p, n)
  BY <1>1, <1>7, <1>8, <1>12, EndRowIs DEF out, all
<1>14. CASE r < size.h
  <2>1. r * w + w <= all
    BY <1>9, <1>14
  <2>2. m < all
    BY <1>6, <1>9, <1>10, <2>1
  <2>3. stream' = stream /\ panel' = panel
    <3>1. out = Both(stream, panel)
      BY <1>13, <2>2, Zenon
    <3> QED
      BY <1>3, <3>1, BothFields, Zenon
  <2>4. stream.on /\ stream.total = all /\ stream.sent = m
    BY <1>8, Zenon DEF Streaming, all
  <2>5. disp'.left = w
    <3>1. RowTakes(stream) = IF w < all - m THEN w ELSE all - m
      BY <2>4, Zenon DEF RowTakes, w
    <3> DEFINE rw == r * w
    <3>2. m = rw /\ rw \in Nat /\ rw + w <= all
      BY <1>9, <1>10, <2>1
    <3> HIDE DEF rw
    <3>3. RowTakes(stream) = w
      BY <1>6, <3>1, <3>2
    <3> QED
      BY <1>4, <2>3, <3>3, Zenon
  <2>6. DispTyped(disp')
    <3>1. w \in 0 .. w
      BY <1>6
    <3> QED
      BY <1>4, <1>6, <1>11, <2>5, <3>1 DEF DispTyped, w
  <2>7. (disp'.row - 1) * size.w + (size.w - disp'.left) = m
    <3>1. disp'.row - 1 = r
      BY <1>4, <1>6
    <3>2. (disp'.row - 1) * w = r * w
      BY <3>1, Zenon
    <3>3. w - disp'.left = 0
      BY <1>6, <2>5
    <3> QED
      BY <1>9, <1>10, <3>2, <3>3 DEF w
  <2>8. disp'.row <= size.h
    BY <1>4, <1>6, <1>14
  <2>9. Streaming(stream', panel', n, m)
    BY <1>8, <2>3, Zenon
  <2>10. StreamTyped(stream') /\ PanelTyped(panel')
    BY <2>9, Zenon DEF Streaming
  <2>11. OnTheBus(stream', panel', disp', shown)
    BY <1>11, <2>7, <2>8, <2>9, <2>10, Zenon DEF OnTheBus, n
  <2> QED
    BY <1>2, <1>4, <1>5, <2>6, <2>11, SameHands
<1>15. CASE ~(r < size.h)
  <2>1. r = size.h
    BY <1>6, <1>15
  <2>2. ~(m < all)
    BY <1>6, <1>9, <1>10, <2>1
  <2>3. Streamed(stream', panel', n)
    BY <1>3, <1>13, <2>2, Zenon
  <2>4. /\ StreamTyped(stream') /\ PanelTyped(panel') /\ stream'.sent = stream'.total
        /\ stream'.total \in Nat
    BY <2>3, Zenon DEF Streamed, StreamTyped
  <2>5. disp'.left = 0
    <3>1. RowTakes(stream') = IF ~stream'.on THEN 0
                              ELSE IF w < stream'.total - stream'.sent THEN w
                              ELSE stream'.total - stream'.sent
      BY Zenon DEF RowTakes, w
    <3>2. stream'.total - stream'.sent = 0
      BY <2>4
    <3>3. ~(w < 0)
      BY <1>6
    <3>4. RowTakes(stream') = 0
      BY <3>1, <3>2, <3>3, Zenon
    <3> QED
      BY <1>4, <3>4, Zenon
  <2>6. DispTyped(disp')
    <3>1. 0 \in 0 .. size.w
      BY <1>6 DEF w
    <3> QED
      BY <1>4, <1>6, <1>11, <2>5, <3>1 DEF DispTyped
  <2>7. ~(disp'.row <= size.h)
    BY <1>4, <1>6, <2>1
  <2>8. OnTheBus(stream', panel', disp', shown)
    BY <1>11, <2>3, <2>4, <2>7, Zenon DEF OnTheBus, n
  <2> QED
    BY <1>2, <1>4, <1>5, <2>6, <2>8, SameHands
<1> QED
  BY <1>14, <1>15, Zenon

(* The stream ends: every pixel of the frame has reached the panel, the    *)
(* bus is given back, and the buffer is free.                              *)
LEMMA FinishStep ==
  ASSUME DisplayOK, Finish
  PROVE  /\ NextOK
         /\ panel'.pixels = Pixels(shown + 1, size.w * size.h) /\ ~panel'.bus
<1>1. /\ SizeOK
      /\ EmuTyped(emu) /\ DispTyped(disp) /\ FramesTyped(frame) /\ QueueTyped(queue)
      /\ OneHolder(free, queue, emu, disp)
      /\ Contents(frame, queue, emu, disp, shown)
      /\ OnTheBus(stream, panel, disp, shown)
  BY Parts, Zenon
<1>2. disp.at = "rows" /\ disp.row > size.h
  BY DEF Finish
<1>3. frame' = frame /\ queue' = queue /\ emu' = emu
  BY DEF Finish
<1> DEFINE n == shown + 1
           b == disp.buffer
           all == size.w * size.h
           out == End(Both(stream, panel))
<1>4. stream' = out.s /\ panel' = out.p
  BY Zenon DEF Finish, Streams, Both
<1>5. /\ disp'.at = "receive" /\ disp'.buffer = b /\ disp'.row = disp.row
      /\ disp'.left = disp.left
  BY DEF Finish
<1>6. free' = free \union {b}
  BY DEF Finish
<1> HIDE DEF out
<1>7. ~(disp.row <= size.h) /\ b \in Buffers
  BY <1>1, <1>2 DEF DispTyped, SizeOK
<1>8. n \in Nat /\ shown \in Nat
  BY <1>1 DEF Contents
<1>9. Streamed(stream, panel, n)
  BY <1>1, <1>2, <1>7, Zenon DEF OnTheBus
<1>10. /\ StreamTyped(stream') /\ PanelTyped(panel') /\ ~panel'.bus
       /\ panel'.pixels = Pixels(n, all)
  <2>1. /\ StreamTyped(out.s) /\ PanelTyped(out.p) /\ ~out.p.bus /\ out.p.pixels = Pixels(n, all)
    BY <1>1, <1>8, <1>9, EndIs DEF out
  <2> QED
    BY <1>4, <2>1, Zenon
<1>11. shown' = n
  <2>1. panel.pixels = Pixels(n, all)
    BY <1>9, Zenon DEF Streamed
  <2>2. all \in Nat \ {0}
    BY <1>1 DEF SizeOK
  <2> HIDE DEF all, n
  <2>3. /\ Pixels(n, all) \in Seq(PixelSet) /\ Len(Pixels(n, all)) = all
        /\ Pixels(n, all)[1] = PixelOf(n, 1)
    BY <1>1, <1>8, <2>2, PixelsTyped
  <2>4. Pixels(n, all) # <<>> /\ Head(Pixels(n, all)) = PixelOf(n, 1)
    BY <2>2, <2>3
  <2>5. PixelOf(n, 1)[1] = n
    BY DEF PixelOf
  <2>6. shown' = IF panel.pixels = <<>> THEN 0 ELSE Head(panel.pixels)[1]
    BY DEF Finish
  <2> QED
    BY <2>1, <2>4, <2>5, <2>6, Zenon
<1>12. DispTyped(disp')
  BY <1>1, <1>5 DEF DispTyped
<1>13. OneHolder(free', queue, emu, disp')
  <2>1. ASSUME NEW c \in Buffers
        PROVE  /\ c \in free' => ~Queued(queue, c) /\ ~Drawing(emu, c) /\ ~Showing(disp', c)
               /\ Drawing(emu, c) => ~Queued(queue, c) /\ ~Showing(disp', c)
               /\ Showing(disp', c) => ~Queued(queue, c)
               /\ c \in free' \/ Queued(queue, c) \/ Drawing(emu, c) \/ Showing(disp', c)
    <3>1. ~Showing(disp', c)
      BY <1>5 DEF Showing
    <3>2. Showing(disp, c) <=> c = b
      BY <1>2 DEF Showing
    <3>3. /\ c \in free => ~Queued(queue, c) /\ ~Drawing(emu, c)
          /\ Drawing(emu, c) => ~Queued(queue, c) /\ ~Showing(disp, c)
          /\ Showing(disp, c) => ~Queued(queue, c)
          /\ c \in free \/ Queued(queue, c) \/ Drawing(emu, c) \/ Showing(disp, c)
      BY <1>1, Zenon DEF OneHolder
    <3>4. c \in free' <=> c \in free \/ c = b
      BY <1>6
    <3> QED
      BY <3>1, <3>2, <3>3, <3>4, Zenon
  <2>2. free' \subseteq Buffers
    BY <1>1, <1>6, <1>7 DEF OneHolder
  <2> QED
    BY <2>1, <2>2, Zenon DEF OneHolder
<1>14. Contents(frame, queue, emu, disp', shown')
  <2>1. /\ emu.frame = shown + OnWay(disp) + Len(queue) + InWork(emu)
        /\ \A i \in 1 .. Len(queue) : \A y \in 1 .. size.h :
              frame[queue[i]][y] = shown + OnWay(disp) + i
        /\ emu.at = "draw" => \A y \in 1 .. size.h :
              y < emu.row => frame[emu.buffer][y] = emu.frame
    BY <1>1, Zenon DEF Contents
  <2>2. OnWay(disp) = 1 /\ OnWay(disp') = 0 /\ disp'.at # "rows"
    BY <1>2, <1>5 DEF OnWay
  <2>3. shown + OnWay(disp) = shown' + OnWay(disp') /\ shown' \in Nat
    BY <1>8, <1>11, <2>2
  <2> QED
    BY <2>1, <2>2, <2>3, Zenon DEF Contents
<1>15. OnTheBus(stream', panel', disp', shown')
  <2>1. disp'.at # "rows"
    BY <1>5
  <2> QED
    BY <1>10, <2>1, Zenon DEF OnTheBus
<1>16. ActorsTyped(frame', queue', emu', disp')
  BY <1>1, <1>3, <1>12, Zenon DEF ActorsTyped
<1>17. NextOK
  BY <1>3, <1>13, <1>14, <1>15, <1>16, Zenon DEF NextOK
<1> QED
  BY <1>10, <1>17, Zenon

-----------------------------------------------------------------------------
LEMMA DisplayBegins ==
  ASSUME DisplayInit
  PROVE  DisplayOK
<1>1. PICK z \in Windows : size = [w |-> z[1], h |-> z[2], chunk |-> z[3]]
  BY DEF DisplayInit
<1>2. z[1] \in Nat \ {0} /\ z[2] \in Nat \ {0} /\ z[3] \in Nat \ {0}
  <2>1. z \in (Nat \ {0}) \X (Nat \ {0}) \X (Nat \ {0})
    BY DisplayAssumption
  <2> QED
    BY <2>1
<1>3. SizeOK
  <2> DEFINE w == size.w
             h == size.h
  <2>1. w \in Nat \ {0} /\ h \in Nat \ {0} /\ size.chunk \in Nat \ {0}
    BY <1>1, <1>2
  <2> HIDE DEF w, h
  <2>2. w * h \in Nat \ {0}
    <3> DEFINE k == w - 1
    <3>1. k \in Nat /\ w = k + 1
      BY <2>1
    <3> HIDE DEF k
    <3>2. k * h \in Nat /\ w * h = k * h + h
      BY <2>1, <3>1
    <3> QED
      BY <2>1, <3>2
  <2> QED
    BY <2>1, <2>2 DEF SizeOK, w, h
<1>4. /\ frame = [b \in Buffers |-> [y \in 1 .. size.h |-> 0]]
      /\ free = Buffers /\ queue = <<>> /\ shown = 0
      /\ emu.at = "acquire" /\ emu.buffer = 0 /\ emu.row = 1 /\ emu.frame = 0 /\ emu.next = 0
      /\ disp.at = "receive" /\ disp.buffer = 0 /\ disp.row = 1 /\ disp.left = 0
  BY DEF DisplayInit
<1>5. /\ stream.on = FALSE /\ stream.total = 0 /\ stream.sent = 0 /\ stream.buf = <<>>
      /\ panel.bus = FALSE /\ panel.pixels = <<>>
  <2>1. /\ stream = [on |-> FALSE, total |-> 0, sent |-> 0, buf |-> <<>>]
        /\ panel = [bus |-> FALSE, pixels |-> <<>>]
    BY DEF DisplayInit
  <2> QED
    BY <2>1, Zenon
<1>6. EmuTyped(emu) /\ DispTyped(disp)
  BY <1>3, <1>4 DEF EmuTyped, DispTyped, SizeOK, Buffers
<1>7. FramesTyped(frame)
  BY <1>4 DEF FramesTyped
<1>8. Len(queue) = 0 /\ queue \in Seq(Buffers) /\ \A i \in 1 .. Len(queue) : FALSE
  BY <1>4
<1>9. QueueTyped(queue)
  BY <1>8, Zenon DEF QueueTyped
<1>10. OneHolder(free, queue, emu, disp)
  BY <1>4, <1>8 DEF OneHolder, Queued, Drawing, Showing
<1>11. Contents(frame, queue, emu, disp, shown)
  BY <1>4, <1>8 DEF Contents, OnWay, InWork
<1>12. OnTheBus(stream, panel, disp, shown)
  <2>1. <<>> \in Seq(PixelSet) /\ FALSE \in BOOLEAN /\ 0 \in Nat
    OBVIOUS
  <2>2. StreamTyped(stream) /\ PanelTyped(panel)
    BY <1>5, <2>1, Zenon DEF StreamTyped, PanelTyped
  <2>3. disp.at # "rows" /\ ~panel.bus
    BY <1>4, <1>5
  <2> QED
    BY <2>2, <2>3, Zenon DEF OnTheBus
<1> QED
  BY <1>3, <1>6, <1>7, <1>9, <1>10, <1>11, <1>12, Zenon DEF DisplayOK, ActorsTyped

LEMMA DisplaySteps ==
  ASSUME DisplayOK, [DisplayNext]_displayVars
  PROVE  DisplayOK' /\ FrameWhole
<1>1. CASE UNCHANGED displayVars
  <2>1. /\ size' = size /\ frame' = frame /\ free' = free /\ queue' = queue /\ emu' = emu
        /\ disp' = disp /\ stream' = stream /\ panel' = panel /\ shown' = shown
    BY <1>1, Zenon DEF displayVars
  <2>2. NextOK
    BY <2>1, Zenon DEF NextOK, DisplayOK
  <2>3. DisplayOK'
    BY <2>1, <2>2, DisplayNextIs, Zenon
  <2>4. ~(disp.at = "rows" /\ disp'.at = "receive")
    <3>1. "rows" # "receive"
      OBVIOUS
    <3> QED
      BY <2>1, <3>1
  <2> QED
    BY <2>3, <2>4, Zenon DEF FrameWhole
<1>2. CASE Acquire \/ Wake \/ DrawRow \/ ConsoleStops \/ Send
  <2>1. NextOK
    BY <1>2, EmulatorWaits, DrawRowStep, StopsStep, SendStep, Zenon
  <2>2. size' = size /\ disp' = disp
    BY <1>2 DEF Acquire, Wake, DrawRow, ConsoleStops, Send
  <2>3. DisplayOK'
    BY <2>1, <2>2, DisplayNextIs, Zenon
  <2>4. ~(disp.at = "rows" /\ disp'.at = "receive")
    <3>1. "rows" # "receive"
      OBVIOUS
    <3> QED
      BY <2>2, <3>1
  <2> QED
    BY <2>3, <2>4, Zenon DEF FrameWhole
<1>3. CASE Receive
  <2>1. NextOK /\ size' = size
    BY <1>3, ReceiveStep DEF Receive
  <2>2. disp.at # "rows"
    BY <1>3 DEF Receive
  <2> QED
    BY <2>1, <2>2, DisplayNextIs, Zenon DEF FrameWhole
<1>4. CASE StreamPart \/ RowEnds
  <2>1. NextOK
    BY <1>4, PartStep, RowEndsStep, Zenon
  <2>2. size' = size /\ disp.at = "rows" /\ disp'.at = disp.at
    <3>1. CASE StreamPart
      BY <3>1 DEF StreamPart
    <3>2. CASE RowEnds
      BY <3>2 DEF RowEnds
    <3> QED
      BY <1>4, <3>1, <3>2, Zenon
  <2>3. disp'.at # "receive"
    BY <2>2
  <2> QED
    BY <2>1, <2>2, <2>3, DisplayNextIs, Zenon DEF FrameWhole
<1>5. CASE Finish
  <2>1. /\ NextOK /\ panel'.pixels = Pixels(shown + 1, size.w * size.h) /\ ~panel'.bus
    BY <1>5, FinishStep, Zenon
  <2>2. size' = size
    BY <1>5 DEF Finish
  <2>3. Pixels(shown + 1, size.w * size.h)
          = [k \in 1 .. size.w * size.h |-> <<shown + 1, ((k - 1) \div size.w) + 1>>]
    BY Zenon DEF Pixels, PixelOf
  <2>4. FrameWhole
    BY <2>1, <2>3, Zenon DEF FrameWhole
  <2> QED
    BY <2>1, <2>2, <2>4, DisplayNextIs, Zenon
<1> QED
  BY <1>1, <1>2, <1>3, <1>4, <1>5, Zenon DEF DisplayNext

LEMMA DisplayGoesOn ==
  ASSUME DisplayOK
  PROVE  NeverStuck
<1>1. /\ EmuTyped(emu) /\ DispTyped(disp) /\ QueueTyped(queue)
      /\ OneHolder(free, queue, emu, disp) /\ OnTheBus(stream, panel, disp, shown)
  BY Parts, Zenon
<1>2. disp.at = "receive" => ~panel.bus
  BY <1>1, Zenon DEF OnTheBus
<1>3. ASSUME emu.at = "wait", emu.next \notin free
      PROVE  \/ emu.next \in ToSet(queue)
             \/ disp.at = "rows" /\ disp.buffer = emu.next
  <2>1. emu.next \in Buffers
    BY <1>1 DEF EmuTyped
  <2>2. ~Drawing(emu, emu.next)
    BY <1>3 DEF Drawing
  <2>3. Queued(queue, emu.next) \/ Showing(disp, emu.next)
    BY <1>1, <1>3, <2>1, <2>2, Zenon DEF OneHolder
  <2>4. CASE Queued(queue, emu.next)
    <3>1. PICK i \in 1 .. Len(queue) : queue[i] = emu.next
      BY <2>4, Zenon DEF Queued
    <3>2. queue \in Seq(Buffers)
      BY <1>1 DEF QueueTyped
    <3>3. i \in DOMAIN queue
      BY <3>2
    <3>4. emu.next \in {queue[j] : j \in DOMAIN queue}
      BY <3>1, <3>3, Zenon
    <3> QED
      BY <3>4, Zenon DEF ToSet
  <2>5. CASE Showing(disp, emu.next)
    BY <2>5, Zenon DEF Showing
  <2> QED
    BY <2>3, <2>4, <2>5, Zenon
<1> QED
  BY <1>2, <1>3, Zenon DEF NeverStuck

(* Every frame the emulator queues gets to the panel whole: each pixel     *)
(* once and in order, all of one frame, the next one drawn, and the bus    *)
(* given back; and neither task waits for the other, for every size of the *)
(* window and of the DMA buffer and any number of frames.                  *)
THEOREM FramesReachThePanel == DisplaySpec => FramesArrive
<1>1. DisplayInit => DisplayOK
  BY DisplayBegins
<1>2. DisplayOK /\ [DisplayNext]_displayVars => DisplayOK'
  BY DisplaySteps
<1>3. DisplayOK /\ DisplayOK' /\ [DisplayNext]_displayVars => [FrameWhole /\ NeverStuck']_displayVars
  <2>1. DisplayOK' => NeverStuck'
    BY DisplayGoesOn, PTL
  <2> QED
    BY <2>1, DisplaySteps
<1> QED
  BY <1>1, <1>2, <1>3, PTL DEF DisplaySpec, FramesArrive
-----------------------------------------------------------------------------
(* The cartridge.                                                          *)
CartSpec == CartInit /\ [][CartNext]_cartVars

(* The memory a cartridge has to give back.                                *)
Owned(c) == {c.image, c.rows, IF c.chrRam THEN c.chr ELSE None} \ {None}

(* A cartridge with nothing in it: after a refusal only its header may     *)
(* tell of the ROM that was refused.                                       *)
Empty(c) ==
  /\ c.image = None /\ c.prg = None /\ c.chr = None /\ c.rows = None
  /\ c.chrRam = FALSE /\ DOMAIN c.windows = {}

Fields(c) ==
  c = [mapper |-> c.mapper, battery |-> c.battery, prgBanks |-> c.prgBanks,
       chrBanks |-> c.chrBanks, image |-> c.image, prg |-> c.prg, chr |-> c.chr,
       chrRam |-> c.chrRam, rows |-> c.rows, windows |-> c.windows]

(* A cartridge that parsed: its image is b, owned or the caller's.         *)
Parsed(c, b, own) ==
  /\ Fields(c)
  /\ c.prg = b /\ c.image = (IF own THEN b ELSE None) /\ c.rows \in {None, "rows"}
  /\ \/ c.chrRam = TRUE /\ c.chr = "chr"
     \/ c.chrRam = FALSE /\ c.chr = b
  /\ c.windows = BankWindows(c.mapper, b)

(* What a cartridge that took a ROM tells of it.                           *)
Tells(c, h) ==
  /\ Takes(h)
  /\ c.mapper = MapperOf(h) /\ c.battery = h.battery /\ c.prgBanks = PrgBanks(h)
  /\ ChrBanks(h) = IF c.chrRam THEN 0 ELSE c.chrBanks

Memory(blocks) == [live |-> blocks, twice |-> FALSE]

(* A cartridge whose PRG ROM was copied out of the caller's image.         *)
Copied(c) ==
  /\ c.prg = "prg" /\ c.image = "prg" /\ c.rows \in {None, "rows"}
  /\ \/ c.chrRam = TRUE /\ c.chr = "chr"
     \/ c.chrRam = FALSE /\ c.chr = Caller
  /\ \A w \in DOMAIN c.windows : c.windows[w] = "prg"

LoadFields(l) == l = [n |-> l.n, rom |-> l.rom, how |-> l.how, ok |-> l.ok]

(* Between two calls, as long as no block was freed twice: what is owned   *)
(* is all that is allocated, and the cartridge is empty or loaded.         *)
CartKept ==
  /\ heap = Memory(Owned(cart))
  /\ LoadFields(load)
  /\ \/ Empty(cart) /\ ~load.ok
     \/ /\ load.ok /\ Tells(cart, load.rom)
        /\ Parsed(cart, "image", TRUE) \/ Parsed(cart, Caller, FALSE) \/ Copied(cart)

CartOK == IF heap.twice THEN ~load.ok ELSE CartKept

LEMMA MemoryFields == \A S : Memory(S).live = S /\ Memory(S).twice = FALSE
BY DEF Memory

LEMMA HeaderEmpty ==
  /\ Empty(Unloaded)
  /\ \A h : Empty(Header(h))
<1>1. Empty(Unloaded)
  BY SMT DEF Empty, Unloaded, None
<1> QED
  BY <1>1 DEF Header, Empty, Unloaded

(* A cartridge before its windows are set up and its rows allocated.       *)
Filled(h, chrBanks, image, prg, chrData, chrRam) ==
  [mapper |-> MapperOf(h), battery |-> h.battery, prgBanks |-> PrgBanks(h),
   chrBanks |-> chrBanks, image |-> image, prg |-> prg, chr |-> chrData, chrRam |-> chrRam,
   rows |-> None, windows |-> <<>>]

LEMMA FilledImage ==
  ASSUME NEW h, NEW banks, NEW image, NEW prg, NEW c, NEW d,
         c = Filled(h, banks, None, None, None, FALSE),
         d = [c EXCEPT !.image = image, !.prg = prg]
  PROVE  d = Filled(h, banks, image, prg, None, FALSE)
BY DEF Filled

LEMMA AllocateOne ==
  ASSUME NEW S, NEW b, NEW hp, hp = Memory(S)
  PROVE  Allocate(hp, b) = Memory(S \union {b})
<1> DEFINE q == Allocate(hp, b)
<1>1. q = [hp EXCEPT !.live = hp.live \union {b}]
  BY DEF Allocate
<1> HIDE DEF q
<1>2. q = Memory(S \union {b})
  BY <1>1 DEF Memory
<1> QED
  BY <1>2 DEF q

LEMMA FreeOne ==
  ASSUME NEW S, NEW b
  PROVE  /\ Free(Memory(S), None) = Memory(S)
         /\ b # None /\ b \in S => Free(Memory(S), b) = Memory(S \ {b})
<1>1. ASSUME b # None, b \in S
      PROVE  Free(Memory(S), b) = Memory(S \ {b})
  <2>1. Memory(S).live = S /\ Memory(S).twice = FALSE
    BY DEF Memory
  <2>2. (FALSE \/ b \notin S) = FALSE
    BY <1>1
  <2>3. Free(Memory(S), b) = [live |-> S \ {b}, twice |-> FALSE]
    BY <1>1, <2>1, <2>2 DEF Free
  <2> QED
    BY <2>3 DEF Memory
<1> QED
  BY <1>1 DEF Free

(* Unloading gives back each block once.                                   *)
Unloadable(c) ==
  /\ c.rows \in {None, "rows"} /\ c.image \in {None, "image", "prg"}
  /\ c.chrRam = FALSE \/ (c.chrRam = TRUE /\ c.chr \in {None, "chr"})

LEMMA UnloadAll ==
  ASSUME NEW c, Unloadable(c)
  PROVE  Unload([cart |-> c, heap |-> Memory(Owned(c))])
           = [cart |-> Unloaded, heap |-> Memory({})]
<1> DEFINE r == IF c.chrRam THEN c.chr ELSE None
           h1 == Free(Memory(Owned(c)), c.rows)
           h2 == Free(h1, r)
           h3 == Free(h2, c.image)
<1>1. r \in {None, "chr"} /\ Owned(c) = {c.image, c.rows, r} \ {None}
  BY DEF Owned, Unloadable
<1>2. c.rows \in {None, "rows"} /\ c.image \in {None, "image", "prg"}
  BY DEF Unloadable
<1> HIDE DEF r
<1>3. h1 = Memory({c.image, r} \ {None})
  <2>1. CASE c.rows = None
    BY <1>1, <2>1, <1>2, FreeOne
  <2>2. CASE c.rows = "rows"
    <3>1. "rows" # None /\ "rows" \in Owned(c)
          /\ Owned(c) \ {"rows"} = {c.image, r} \ {None}
      BY <1>1, <1>2, <2>2, SMT DEF None
    <3> QED
      BY <2>2, <3>1, FreeOne
  <2> QED
    BY <1>2, <2>1, <2>2
<1> HIDE DEF h1
<1>4. h2 = Memory({c.image} \ {None})
  <2>1. CASE r = None
    <3>1. {c.image, r} \ {None} = {c.image} \ {None}
      BY <2>1
    <3> QED
      BY <1>3, <2>1, <3>1, FreeOne
  <2>2. CASE r = "chr"
    <3>1. "chr" # None /\ "chr" \in {c.image, r} \ {None}
          /\ ({c.image, r} \ {None}) \ {"chr"} = {c.image} \ {None}
      BY <1>1, <1>2, <2>2, SMT DEF None
    <3> QED
      BY <1>3, <2>2, <3>1, FreeOne
  <2> QED
    BY <1>1, <2>1, <2>2
<1> HIDE DEF h2
<1>5. h3 = Memory({})
  <2>1. CASE c.image = None
    <3>1. {c.image} \ {None} = {}
      BY <2>1
    <3> QED
      BY <1>4, <2>1, <3>1, FreeOne
  <2>2. CASE c.image # None
    <3>1. c.image \in {c.image} \ {None} /\ ({c.image} \ {None}) \ {c.image} = {}
      BY <2>2
    <3> QED
      BY <1>4, <2>2, <3>1, FreeOne
  <2> QED
    BY <2>1, <2>2
<1> QED
  BY <1>5 DEF Unload, r, h1, h2

(* What the parser makes of an image, whichever allocations fail: all, or  *)
(* nothing; then an image it owned is either untouched or given back.      *)
Source(own, b, blocks) ==
  \/ own = TRUE /\ b = "image" /\ blocks = {"image"}
  \/ own = FALSE /\ b = Caller /\ blocks = {}

AllOrNothing(p, h, own, b, blocks) ==
  \/ /\ p.ok = TRUE
     /\ Parsed(p.s.cart, b, own) /\ Tells(p.s.cart, h)
     /\ p.s.heap = Memory(Owned(p.s.cart))
  \/ /\ p.ok = FALSE
     /\ Empty(p.s.cart)
     /\ p.s.heap = Memory(blocks) \/ p.s.heap = Memory({})

LEMMA ParseAllOrNothing ==
  ASSUME NEW h, NEW refuses, NEW own, NEW b, NEW blocks, Source(own, b, blocks)
  PROVE  AllOrNothing(Parse(h, b, own, Memory(blocks), refuses), h, own, b, blocks)
<1> DEFINE hp == Memory(blocks)
           i  == IF own THEN b ELSE None
           c1 == [Header(h) EXCEPT !.image = i, !.prg = b]
           ram == c1.chrBanks = 0
           c2 == [c1 EXCEPT !.chrRam = ram, !.chrBanks = IF ram THEN 1 ELSE @,
                            !.chr = IF ~ram THEN b ELSE IF "chr" \in refuses THEN None ELSE "chr"]
           s2 == [cart |-> c2, heap |-> IF c2.chr = "chr" THEN Allocate(hp, "chr") ELSE hp]
           s3 == [s2 EXCEPT !.cart.windows = BankWindows(c2.mapper, b)]
           s4 == [s3 EXCEPT !.cart.rows = "rows", !.heap = Allocate(@, "rows")]
           p  == Parse(h, b, own, hp, refuses)
<1> SUFFICES AllOrNothing(p, h, own, b, blocks)
  OBVIOUS
<1>1. p = IF ~Takes(h) THEN [ok |-> FALSE, s |-> [cart |-> Header(h), heap |-> hp]]
          ELSE IF c2.chr = None THEN [ok |-> FALSE, s |-> Unload(s2)]
          ELSE IF c2.chrBanks > RowCacheMax THEN [ok |-> TRUE, s |-> s3]
          ELSE IF "rows" \in refuses THEN [ok |-> FALSE, s |-> Unload(s3)]
          ELSE [ok |-> TRUE, s |-> s4]
  BY DEF Parse
<1>2. CASE ~Takes(h)
  <2>1. p = [ok |-> FALSE, s |-> [cart |-> Header(h), heap |-> hp]]
    BY <1>1, <1>2
  <2> HIDE DEF p
  <2> QED
    BY <2>1, HeaderEmpty DEF AllOrNothing, hp
<1>3. CASE Takes(h)
  <2>1. Header(h) = [Unloaded EXCEPT !.battery = h.battery, !.mapper = MapperOf(h),
                                     !.prgBanks = PrgBanks(h), !.chrBanks = ChrBanks(h)]
    <3>1. h.nes /\ ~(MapperOf(h) > 255) /\ TakesMapper(h) /\ TakesBanks(h)
      BY <1>3, SMT DEF Takes, TakesMapper, Supported
    <3> QED
      BY <3>1 DEF Header
  <2>2. Header(h) = Filled(h, ChrBanks(h), None, None, None, FALSE)
    BY <2>1 DEF Unloaded, Filled
  <2> HIDE DEF i
  <2>3. c1 = Filled(h, ChrBanks(h), i, b, None, FALSE)
    BY <2>2, FilledImage
  <2>4. c1.chrBanks = ChrBanks(h)
    BY <2>3 DEF Filled
  <2> HIDE DEF c1
  <2>5. ram \in BOOLEAN /\ (ram <=> ChrBanks(h) = 0)
    BY <2>4
  <2> DEFINE chrData == IF ~ram THEN b ELSE IF "chr" \in refuses THEN None ELSE "chr"
             banks == IF ram THEN 1 ELSE ChrBanks(h)
  <2>6. c2 = Filled(h, banks, i, b, chrData, ram)
    <3>1. c2 = [c1 EXCEPT !.chrRam = ram, !.chrBanks = banks, !.chr = chrData]
      BY <2>4
    <3> HIDE DEF c2, ram, chrData, banks
    <3> QED
      BY <2>3, <3>1 DEF Filled
  <2>7. chrData = None \/ (chrData = "chr" /\ ram = TRUE) \/ (chrData = b /\ ram = FALSE)
    <3> HIDE DEF ram
    <3>1. CASE ram = TRUE
      BY <3>1
    <3>2. CASE ram = FALSE
      BY <3>2
    <3> QED
      BY <2>5, <3>1, <3>2
  <2>8. /\ b \in {"image", Caller} /\ i \in {None, "image"} /\ b # None /\ b # "chr"
        /\ hp = Memory({i} \ {None})
    <3>1. CASE own = TRUE /\ b = "image" /\ blocks = {"image"}
      <4>1. i = "image"
        BY <3>1 DEF i
      <4>2. b # None /\ b # "chr" /\ {"image"} \ {None} = {"image"}
        BY <3>1, SMT DEF None
      <4> QED
        BY <3>1, <4>1, <4>2
    <3>2. CASE own = FALSE /\ b = Caller /\ blocks = {}
      <4>1. i = None /\ {None} \ {None} = {}
        BY <3>2 DEF i
      <4>2. b # None /\ b # "chr"
        BY <3>2, SMT DEF None, Caller
      <4> QED
        BY <3>2, <4>1, <4>2
    <3> QED
      BY <3>1, <3>2 DEF Source
  <2> HIDE DEF c2, ram, chrData, banks, hp
  <2>9. c2.chr = chrData /\ c2.chrRam = ram /\ c2.chrBanks = banks /\ c2.rows = None
        /\ c2.image = i /\ c2.mapper = MapperOf(h)
    BY <2>6 DEF Filled
  <2>10. Takes(h) => p = IF c2.chr = None THEN [ok |-> FALSE, s |-> Unload(s2)]
          ELSE IF c2.chrBanks > RowCacheMax THEN [ok |-> TRUE, s |-> s3]
          ELSE IF "rows" \in refuses THEN [ok |-> FALSE, s |-> Unload(s3)]
          ELSE [ok |-> TRUE, s |-> s4]
    BY <1>1
  <2>11. CASE chrData = None
    <3>1. s2 = [cart |-> c2, heap |-> hp]
      BY <2>9, <2>11, SMT DEF None
    <3>2. Owned(c2) = {i} \ {None}
      BY <2>9, <2>11 DEF Owned
    <3>3. Unloadable(c2)
      BY <2>7, <2>8, <2>9, <2>11 DEF Unloadable
    <3>4. Unload(s2) = [cart |-> Unloaded, heap |-> Memory({})]
      <4> HIDE DEF s2
      <4>1. s2 = [cart |-> c2, heap |-> Memory(Owned(c2))]
        BY <2>8, <3>1, <3>2
      <4> QED
        BY <3>3, <4>1, UnloadAll
    <3>5. p = [ok |-> FALSE, s |-> Unload(s2)]
      BY <1>3, <2>9, <2>10, <2>11
    <3>6. p.ok = FALSE /\ p.s.cart = Unloaded /\ p.s.heap = Memory({})
      <4> HIDE DEF p, s2
      <4> QED
        BY <3>4, <3>5
    <3> HIDE DEF hp
    <3> HIDE DEF p
    <3> QED
      BY <3>6, HeaderEmpty DEF AllOrNothing
  <2>12. CASE chrData # None
    <3> DEFINE c3 == [c2 EXCEPT !.windows = BankWindows(c2.mapper, b)]
               c4 == [c3 EXCEPT !.rows = "rows"]
               r == IF ram THEN chrData ELSE None
    <3>1. s2 = [cart |-> c2, heap |-> Memory({i, None, r} \ {None})]
      <4>1. CASE chrData = "chr" /\ ram = TRUE
        <5>1. {i, None, r} \ {None} = ({i} \ {None}) \union {"chr"}
          BY <4>1, SMT DEF None
        <5> QED
          BY <2>8, <2>9, <4>1, <5>1 DEF Allocate, Memory
      <4>2. CASE chrData = b /\ ram = FALSE
        BY <2>8, <2>9, <4>2
      <4> QED
        BY <2>7, <2>12, <4>1, <4>2
    <3>2. /\ c3 = [Filled(h, banks, i, b, chrData, ram) EXCEPT !.windows = BankWindows(MapperOf(h), b)]
          /\ c3.image = i /\ c3.prg = b /\ c3.chr = chrData /\ c3.chrRam = ram /\ c3.rows = None
          /\ c3.chrBanks = banks /\ c3.mapper = MapperOf(h) /\ c3.battery = h.battery
          /\ c3.prgBanks = PrgBanks(h) /\ c3.windows = BankWindows(MapperOf(h), b)
      BY <2>6, <2>9 DEF Filled
    <3>a. Fields(c3) /\ Fields(c4)
      <4>1. c3 = [Filled(h, banks, i, b, chrData, ram) EXCEPT !.windows = BankWindows(MapperOf(h), b)]
            /\ c4 = [c3 EXCEPT !.rows = "rows"]
        BY <3>2
      <4> HIDE DEF c4
      <4>2. c4 = [c3 EXCEPT !.rows = "rows"]
        BY <4>1
      <4> HIDE DEF c3
      <4>3. Fields(c3)
        BY <4>1 DEF Filled, Fields
      <4> QED
        BY <4>2, <4>3 DEF Fields
    <3>3. /\ c4.image = i /\ c4.prg = b /\ c4.chr = chrData /\ c4.chrRam = ram /\ c4.rows = "rows"
          /\ c4.chrBanks = banks /\ c4.mapper = MapperOf(h) /\ c4.battery = h.battery
          /\ c4.prgBanks = PrgBanks(h) /\ c4.windows = BankWindows(MapperOf(h), b)
      BY <2>6, <2>9 DEF Filled
    <3>4. s3 = [cart |-> c3, heap |-> Memory(Owned(c3))]
      BY <3>1, <3>2 DEF Owned
    <3>5. s4 = [cart |-> c4, heap |-> Memory(Owned(c4))]
      <4>1. Owned(c4) = Owned(c3) \union {"rows"}
        BY <3>2, <3>3, SMT DEF Owned, None
      <4> DEFINE q == [s3 EXCEPT !.cart = c4]
      <4>2. q = [s3 EXCEPT !.cart = c4] /\ s4 = [q EXCEPT !.heap = Allocate(s3.heap, "rows")]
        BY <3>4
      <4> HIDE DEF s3, s4, c3, c4, q
      <4>3. s3.heap = Memory(Owned(c3)) /\ s3 = [cart |-> c3, heap |-> s3.heap]
        BY <3>4
      <4>4. Allocate(s3.heap, "rows") = Memory(Owned(c4))
        BY <4>1, <4>3, AllocateOne
      <4>5. q = [cart |-> c4, heap |-> s3.heap]
        BY <4>2, <4>3
      <4>6. s4 = [cart |-> c4, heap |-> Allocate(s3.heap, "rows")]
        BY <4>2, <4>5
      <4> QED
        BY <4>4, <4>6
    <3>7. /\ c3.chr = b \/ c3.chr = "chr"
          /\ Parsed(c3, b, own) /\ Tells(c3, h) /\ Parsed(c4, b, own) /\ Tells(c4, h)
          /\ Unloadable(c3)
      <4> HIDE DEF c3, c4
      <4>1. /\ (ram = TRUE /\ chrData = "chr") \/ (ram = FALSE /\ chrData = b)
            /\ i = IF own THEN b ELSE None
        BY <2>7, <2>12 DEF i
      <4> HIDE DEF chrData
      <4>2. ChrBanks(h) = IF ram THEN 0 ELSE banks
        <5>1. CASE ram = TRUE
          BY <2>5, <5>1
        <5>2. CASE ram = FALSE
          BY <5>2 DEF banks
        <5> QED
          BY <2>5, <5>1, <5>2
      <4> HIDE DEF banks
      <4> QED
        BY <1>3, <2>8, <3>2, <3>a, <3>3, <4>1, <4>2 DEF Parsed, Tells, Unloadable
    <3> DEFINE freed == [cart |-> Unloaded, heap |-> Memory({})]
    <3>8. Unload(s3) = freed
      <4> HIDE DEF s3, c3
      <4> QED
        BY <3>4, <3>7, UnloadAll
    <3>9. \/ p = [ok |-> TRUE, s |-> s3] \/ p = [ok |-> FALSE, s |-> freed]
          \/ p = [ok |-> TRUE, s |-> s4]
      <4> HIDE DEF s3, s4, freed, p
      <4> QED
        BY <1>3, <2>9, <2>10, <2>12, <3>8
    <3>10. \/ p.ok = TRUE /\ p.s.cart = c3 /\ p.s.heap = Memory(Owned(c3))
           \/ p.ok = TRUE /\ p.s.cart = c4 /\ p.s.heap = Memory(Owned(c4))
           \/ p.ok = FALSE /\ p.s.cart = Unloaded /\ p.s.heap = Memory({})
      <4> HIDE DEF s3, s4, p, c3, c4
      <4> QED
        BY <3>4, <3>5, <3>9
    <3> HIDE DEF c3, c4, p
    <3> QED
      BY <3>7, <3>10, HeaderEmpty DEF AllOrNothing
  <2> QED
    BY <2>11, <2>12
<1> QED
  BY <1>2, <1>3

-----------------------------------------------------------------------------
LEMMA CartStart == CartInit => CartOK
<1> SUFFICES ASSUME CartInit PROVE CartOK
  OBVIOUS
<1>1. cart = Unloaded /\ heap = Memory({}) /\ ~load.ok /\ LoadFields(load)
  BY DEF CartInit, Memory, LoadFields
<1>2. Owned(Unloaded) = {}
  BY HeaderEmpty DEF Empty, Owned
<1> QED
  BY <1>1, <1>2, HeaderEmpty, MemoryFields DEF CartOK, CartKept

(* Each call begins with an empty cartridge that owns nothing.             *)
LEMMA UnloadFirst ==
  ASSUME CartOK, Ready
  PROVE  Unload([cart |-> cart, heap |-> heap]) = [cart |-> Unloaded, heap |-> Memory({})]
<1>1. heap = Memory(Owned(cart))
  BY DEF CartOK, CartKept, Ready
<1>2. Unloadable(cart)
  BY SMT DEF CartOK, CartKept, Ready, Unloadable, Empty, Parsed, Copied, None, Caller
<1> QED
  BY <1>1, <1>2, UnloadAll

(* What a call comes to that neither took anything nor kept it.            *)
LEMMA NothingLoaded ==
  ASSUME Empty(cart'), heap' = Memory({}) \/ heap'.twice, ~load'.ok, LoadFields(load')
  PROVE  CartOK'
<1>1. Owned(cart') = {}
  BY DEF Owned, Empty
<1> QED
  BY <1>1, MemoryFields DEF CartOK, CartKept

(* And one that keeps what it loaded.                                      *)
LEMMA AllLoaded ==
  ASSUME Parsed(cart', "image", TRUE) \/ Parsed(cart', Caller, FALSE) \/ Copied(cart'),
         heap' = Memory(Owned(cart')), load'.ok, LoadFields(load'), Tells(cart', load'.rom)
  PROVE  CartOK'
BY MemoryFields DEF CartOK, CartKept

LEMMA OwnedImage ==
  ASSUME CartOK, NEW h, NEW refuses, LoadOwned(h, refuses)
  PROVE  CartOK'
<1> DEFINE u == Unload([cart |-> cart, heap |-> heap])
           p == Parse(h, "image", TRUE, Memory({"image"}), refuses)
<1>1. u.cart = Unloaded /\ u.heap = Memory({})
  BY UnloadFirst DEF LoadOwned
<1>2. Allocate(u.heap, "image") = Memory({"image"})
  <2>1. {} \union {"image"} = {"image"}
    OBVIOUS
  <2> QED
    BY <1>1, <2>1, AllocateOne
<1>3. \/ /\ p.ok = TRUE
         /\ Parsed(p.s.cart, "image", TRUE) /\ Tells(p.s.cart, h)
         /\ p.s.heap = Memory(Owned(p.s.cart))
      \/ /\ p.ok = FALSE /\ Empty(p.s.cart)
         /\ p.s.heap = Memory({"image"}) \/ p.s.heap = Memory({})
  <2>1. Source(TRUE, "image", {"image"})
    BY DEF Source
  <2>2. AllOrNothing(p, h, TRUE, "image", {"image"})
    BY <2>1, ParseAllOrNothing
  <2> HIDE DEF p
  <2> QED
    BY <2>2 DEF AllOrNothing
<1> HIDE DEF p, u
<1>4. CASE "image" \in refuses
  <2>1. cart' = Unloaded /\ heap' = Memory({})
        /\ load' = [n |-> load.n + 1, rom |-> h, how |-> "owned", ok |-> FALSE]
    BY <1>1, <1>4 DEF LoadOwned, Becomes, Returns, u
  <2> QED
    BY <2>1, HeaderEmpty, NothingLoaded DEF LoadFields
<1>5. CASE "image" \notin refuses /\ p.ok
  <2>1. cart' = p.s.cart /\ heap' = p.s.heap
        /\ load' = [n |-> load.n + 1, rom |-> h, how |-> "owned", ok |-> TRUE]
    BY <1>2, <1>5 DEF LoadOwned, Becomes, Returns, u, p
  <2> QED
    BY <1>3, <1>5, <2>1, AllLoaded DEF LoadFields
<1>6. CASE "image" \notin refuses /\ ~p.ok
  <2>1. cart' = p.s.cart /\ heap' = Free(p.s.heap, "image")
        /\ load' = [n |-> load.n + 1, rom |-> h, how |-> "owned", ok |-> FALSE]
    BY <1>2, <1>6 DEF LoadOwned, Becomes, Returns, u, p
  <2>2. Free(Memory({"image"}), "image") = Memory({})
    <3>1. "image" # None /\ {"image"} \ {"image"} = {}
      BY SMT DEF None
    <3> QED
      BY <3>1, FreeOne
  <2>3. Free(Memory({}), "image").twice
    <3>1. "image" # None
      BY SMT DEF None
    <3> QED
      BY <3>1 DEF Free, Memory
  <2> QED
    BY <1>3, <1>6, <2>1, <2>2, <2>3, NothingLoaded DEF LoadFields
<1> QED
  BY <1>4, <1>5, <1>6

LEMMA ConstImage ==
  ASSUME CartOK, NEW h, NEW refuses, LoadConst(h, refuses)
  PROVE  CartOK'
<1> DEFINE u == Unload([cart |-> cart, heap |-> heap])
           p == Parse(h, Caller, FALSE, Memory({}), refuses)
           copied == [p.s.cart EXCEPT !.prg = "prg", !.image = "prg",
                                      !.windows = Rebased(p.s.cart)]
<1>1. u.cart = Unloaded /\ u.heap = Memory({})
  BY UnloadFirst DEF LoadConst
<1>2. \/ /\ p.ok = TRUE
         /\ Parsed(p.s.cart, Caller, FALSE) /\ Tells(p.s.cart, h)
         /\ p.s.heap = Memory(Owned(p.s.cart))
      \/ p.ok = FALSE /\ Empty(p.s.cart) /\ p.s.heap = Memory({})
  <2>1. Source(FALSE, Caller, {})
    BY DEF Source
  <2>2. AllOrNothing(p, h, FALSE, Caller, {})
    BY <2>1, ParseAllOrNothing
  <2> HIDE DEF p
  <2> QED
    BY <2>2 DEF AllOrNothing
<1> HIDE DEF p, u
<1>3. /\ load' = [n |-> load.n + 1, rom |-> h, how |-> "const", ok |-> p.ok]
      /\ \/ cart' = p.s.cart /\ heap' = p.s.heap
         \/ p.ok /\ cart' = copied /\ heap' = Allocate(p.s.heap, "prg")
  BY <1>1 DEF LoadConst, Becomes, Returns, u, p
<1>4. load'.ok = p.ok /\ load'.rom = h /\ LoadFields(load')
  BY <1>3 DEF LoadFields
<1>5. CASE ~p.ok
  BY <1>2, <1>3, <1>4, <1>5, NothingLoaded
<1>6. CASE p.ok /\ cart' = p.s.cart /\ heap' = p.s.heap
  BY <1>2, <1>4, <1>6, AllLoaded
<1>7. CASE p.ok /\ cart' = copied /\ heap' = Allocate(p.s.heap, "prg")
  <2> DEFINE c == p.s.cart
  <2>1. /\ Parsed(c, Caller, FALSE) /\ Tells(c, h) /\ p.s.heap = Memory(Owned(c))
    BY <1>2, <1>7
  <2>2. Allocate(p.s.heap, "prg") = Memory(Owned(c) \union {"prg"})
    BY <2>1, AllocateOne
  <2>3. cart' = [c EXCEPT !.prg = "prg", !.image = "prg", !.windows = Rebased(c)]
    BY <1>7
  <2> HIDE DEF c
  <2>4. /\ cart'.prg = "prg" /\ cart'.image = "prg" /\ cart'.windows = Rebased(c)
        /\ cart'.chr = c.chr /\ cart'.chrRam = c.chrRam /\ cart'.rows = c.rows
        /\ cart'.mapper = c.mapper /\ cart'.battery = c.battery
        /\ cart'.prgBanks = c.prgBanks /\ cart'.chrBanks = c.chrBanks
    BY <2>1, <2>3 DEF Parsed, Fields
  <2>5. \A w \in DOMAIN Rebased(c) : Rebased(c)[w] = "prg"
    <3>1. c.windows = BankWindows(c.mapper, Caller)
      BY <2>1 DEF Parsed
    <3> QED
      BY <3>1 DEF Rebased, BankWindows
  <2>6. Owned(cart') = Owned(c) \union {"prg"}
    BY <2>1, <2>4, SMT DEF Owned, Parsed, None
  <2>7. Tells(cart', h)
    BY <2>1, <2>4 DEF Tells
  <2>8. Copied(cart')
    BY <2>1, <2>4, <2>5 DEF Parsed, Copied
  <2> QED
    BY <1>4, <1>7, <2>2, <2>6, <2>7, <2>8, AllLoaded
<1> QED
  BY <1>3, <1>5, <1>6, <1>7

LEMMA CartStep == CartOK /\ [CartNext]_cartVars => CartOK'
<1> SUFFICES ASSUME CartOK, [CartNext]_cartVars PROVE CartOK'
  OBVIOUS
<1>1. CASE Destroy
  <2>1. cart' = Unloaded /\ heap' = Memory({})
    BY <1>1, UnloadFirst DEF Destroy, Becomes
  <2>2. ~load'.ok /\ LoadFields(load')
    <3>1. LoadFields(load) /\ load' = [load EXCEPT !.n = load.n + 1, !.ok = FALSE]
      BY <1>1 DEF CartOK, CartKept, Ready, Destroy
    <3> QED
      BY <3>1 DEF LoadFields
  <2> QED
    BY <2>1, <2>2, HeaderEmpty, NothingLoaded
<1>2. CASE UNCHANGED cartVars
  BY <1>2 DEF CartOK, CartKept, cartVars
<1> QED
  BY <1>1, <1>2, OwnedImage, ConstImage DEF CartNext

LEMMA CartInvariance == CartSpec => []CartOK
BY CartStart, CartStep, PTL DEF CartSpec

(* Whichever allocations fail, and whichever headers are loaded one after  *)
(* the other: between two calls the cartridge owns what is allocated,      *)
(* points into nothing else but the caller's image, and all its bank       *)
(* pointers are into the PRG ROM it has now.                               *)
THEOREM CartridgePointers == CartSpec => []PointersLive
<1>1. CartOK => PointersLive
  <2> SUFFICES ASSUME CartKept PROVE PointersLive
    BY DEF CartOK, PointersLive
  <2>1. heap.live = Owned(cart)
    BY MemoryFields DEF CartKept
  <2>2. CASE Empty(cart) /\ ~load.ok
    BY <2>1, <2>2 DEF PointersLive, Owned, Empty
  <2>3. CASE load.ok /\ (Parsed(cart, "image", TRUE) \/ Parsed(cart, Caller, FALSE))
    <3>1. \A b : \A w \in DOMAIN BankWindows(cart.mapper, b) : BankWindows(cart.mapper, b)[w] = b
      BY DEF BankWindows
    <3> QED
      BY <2>1, <2>3, <3>1, SMT DEF PointersLive, Owned, Parsed, None, Caller
  <2>4. CASE load.ok /\ Copied(cart)
    BY <2>1, <2>4, SMT DEF PointersLive, Owned, Copied, None, Caller
  <2> QED
    BY <2>2, <2>3, <2>4 DEF CartKept
<1> QED
  BY <1>1, CartInvariance, PTL

(* A ROM that loads was listed as what it is: the two listings and the     *)
(* cartridge read every header alike.  RomsAsOnCard has it as a part.      *)
THEOREM ListedAlike == CartSpec => []ListedAsLoaded
<1>1. CartOK => ListedAsLoaded
  <2> SUFFICES ASSUME CartOK, load.ok PROVE ListedAsLoaded
    BY DEF ListedAsLoaded
  <2>1. Tells(cart, load.rom)
    BY DEF CartOK, CartKept
  <2>2. load.rom.nes /\ MapperOf(load.rom) \in Supported
    BY <2>1 DEF Tells, Takes, TakesMapper
  <2>3. Listed(load.rom) =
          [mapper |-> MapperOf(load.rom), supported |-> MapperOf(load.rom) \in Supported,
           battery |-> load.rom.battery, prg |-> PrgBanks(load.rom), chr |-> ChrBanks(load.rom)]
    BY <2>2 DEF Listed
  <2> DEFINE l == Listed(load.rom)
  <2>4. /\ l.mapper = MapperOf(load.rom) /\ l.supported = (MapperOf(load.rom) \in Supported)
        /\ l.battery = load.rom.battery /\ l.prg = PrgBanks(load.rom)
        /\ l.chr = ChrBanks(load.rom)
    BY <2>3
  <2> HIDE DEF l
  <2>5. l.supported
    BY <2>2, <2>4
  <2> QED
    BY <2>1, <2>4, <2>5 DEF Tells, ListedAsLoaded, l
<1> QED
  BY <1>1, CartInvariance, PTL
-----------------------------------------------------------------------------
(* The SD card.                                                            *)
SdSpec == SdInit /\ [][SdNext]_sdVars

CardTyped(c) ==
  /\ c \in [kind : Kinds, spi : BOOLEAN, ready : BOOLEAN,
            blocklen : {BlockBytes, 2 * BlockBytes}, blocks : [Lbas -> Values]]
  /\ c.kind = "hc" => c.blocklen = BlockBytes

(* The driver addresses the card as the card takes it: they agree on the   *)
(* unit of an address and on the length of a block.                        *)
Agreed == /\ sd.type = "hc" <=> card.kind = "hc"
          /\ card.blocklen = BlockBytes

Bringing == {"CMD0", "CMD8", "ACMD41", "CMD58", "CMD16", "CMD9"}
Reading  == {"CMD17", "token"}
Writing  == {"CMD24", "data", "busy"}

(* While a card is brought up: it has to have been reset before it counts  *)
(* as one that answers; of high capacity, it never becomes ready for a     *)
(* driver that takes it for a card of the first version.                   *)
BringingUp ==
  call.at \in Bringing =>
    /\ ~sd.init /\ sd.program /\ sd.sm
    /\ call.op.op = "init"
    /\ call.at # "CMD0" => card.spi
    /\ call.at = "CMD16" => card.kind # "hc"
    /\ call.at = "CMD9" => Agreed

(* Once it is up, either they agree, or another card was put in: it was    *)
(* not reset and answers nothing.                                          *)
UpAgrees == sd.init => /\ sd.program /\ sd.sm
                       /\ card.spi => Agreed

InBlock ==
  call.at \in Reading \union Writing =>
    /\ sd.init /\ call.op.lba \in Lbas
    /\ call.at \in Reading => call.op.op = "CMD17"
    /\ call.at \in Writing => call.op.op = "CMD24" /\ call.op.value \in Values
    /\ call.at \in {"token", "data"} => card.spi

(* The blocks are as the call found them until its data went out, and then *)
(* all but the one that was meant.                                         *)
BlocksKept ==
  /\ call.at \notin {"idle", "busy"} => card.blocks = call.before
  /\ call.at = "busy" => card.blocks = [call.before EXCEPT ![call.op.lba] = call.op.value]

CallFields(c) ==
  /\ c = [at |-> c.at, n |-> c.n, result |-> c.result, op |-> c.op, tries |-> c.tries,
          v2 |-> c.v2, got |-> c.got, before |-> c.before]
  /\ c.at \in {"idle"} \union Bringing \union Reading \union Writing
  /\ c.v2 \in BOOLEAN /\ c.before \in [Lbas -> Values]

SdOK ==
  /\ CardTyped(card)
  /\ sd \in [init : BOOLEAN, type : {"v1", "v2", "hc"}, program : BOOLEAN, sm : BOOLEAN]
  /\ CallFields(call)
  /\ BringingUp /\ UpAgrees /\ InBlock /\ BlocksKept /\ CallsAreSafe

LEMMA AfterKeeps ==
  ASSUME NEW c, CardTyped(c), NEW cmd
  PROVE  LET d == After(c, cmd)
         IN  /\ CardTyped(d) /\ d.kind = c.kind /\ d.blocks = c.blocks
             /\ c.spi => d.spi
             /\ c.blocklen = BlockBytes => d.blocklen = BlockBytes
<1> DEFINE d == After(c, cmd)
           yes == Reply(c, cmd) = "ready"
<1>1. \/ d = c
      \/ d = [c EXCEPT !.spi = TRUE, !.ready = FALSE]
      \/ d = [c EXCEPT !.ready = yes]
      \/ d = [c EXCEPT !.blocklen = BlockBytes]
  BY DEF After
<1>2. yes \in BOOLEAN
  OBVIOUS
<1> HIDE DEF d, yes
<1>3. d \in [kind : Kinds, spi : BOOLEAN, ready : BOOLEAN,
             blocklen : {BlockBytes, 2 * BlockBytes}, blocks : [Lbas -> Values]]
      /\ d.kind = c.kind /\ d.blocks = c.blocks /\ (d.spi = c.spi \/ d.spi = TRUE)
      /\ (d.blocklen = c.blocklen \/ d.blocklen = BlockBytes)
  <2>1. CASE d = c
    BY <2>1 DEF CardTyped
  <2>2. CASE d = [c EXCEPT !.spi = TRUE, !.ready = FALSE]
    BY <2>2 DEF CardTyped
  <2>3. CASE d = [c EXCEPT !.ready = yes]
    BY <1>2, <2>3 DEF CardTyped
  <2>4. CASE d = [c EXCEPT !.blocklen = BlockBytes]
    BY <2>4 DEF CardTyped
  <2> QED
    BY <1>1, <2>1, <2>2, <2>3, <2>4
<1> QED
  BY <1>3 DEF d, CardTyped

(* What a command may do to the card, and what an answer tells of it.      *)
LEMMA SendSafe ==
  ASSUME CardTyped(card), NEW cmd, NEW r, SendCmd(cmd, r)
  PROVE  /\ CardTyped(card') /\ card'.kind = card.kind /\ card'.blocks = card.blocks
         /\ card.spi => card'.spi
         /\ card.blocklen = BlockBytes => card'.blocklen = BlockBytes
         /\ r \notin {"none", "error"} =>
              /\ r = Reply(card, cmd) /\ card' = After(card, cmd)
              /\ card.spi \/ cmd.op = "CMD0"
<1>1. card' = card \/ card' = After(card, cmd)
  BY DEF SendCmd
<1>2. r \notin {"none", "error"} => r = Reply(card, cmd) /\ card' = After(card, cmd)
  BY DEF SendCmd
<1>3. Reply(card, cmd) # "none" => card.spi \/ cmd.op = "CMD0"
  BY DEF Reply, Deaf
<1> QED
  BY <1>1, <1>2, <1>3, AfterKeeps

(* Nothing but the first command makes a card that was put in answer.      *)
LEMMA SpiOnlyByReset ==
  ASSUME CardTyped(card), NEW cmd, NEW r, SendCmd(cmd, r), cmd.op # "CMD0", card'.spi
  PROVE  card.spi
<1>1. ~card.spi => After(card, cmd) = card
  BY DEF After, Deaf
<1> QED
  BY <1>1 DEF SendCmd

(* A card that says it is idle after the first command takes commands.     *)
LEMMA ResetAnswers ==
  ASSUME CardTyped(card), SendCmd(Op("CMD0"), "idle")
  PROVE  card'.spi
<1>1. card' = After(card, Op("CMD0")) /\ Reply(card, Op("CMD0")) = "idle"
  BY SendSafe
<1>2. card.kind # "none" /\ Op("CMD0").op = "CMD0"
  BY <1>1 DEF Reply, Deaf, Op
<1>3. card' = [card EXCEPT !.spi = TRUE, !.ready = FALSE]
  BY <1>1, <1>2 DEF After, Deaf
<1> QED
  BY <1>3 DEF CardTyped

LEMMA BlockLengthSet ==
  ASSUME CardTyped(card), SendCmd(Op("CMD16"), "ready")
  PROVE  card'.blocklen = BlockBytes
<1>1. card' = After(card, Op("CMD16")) /\ Reply(card, Op("CMD16")) = "ready" /\ card.spi
  BY SendSafe DEF Op
<1>2. card.kind # "none" /\ Op("CMD16").op = "CMD16"
  BY <1>1 DEF Reply, Deaf, Op
<1>3. card' = [card EXCEPT !.blocklen = BlockBytes]
  BY <1>1, <1>2 DEF After, Deaf
<1> QED
  BY <1>3 DEF CardTyped

(* A card of high capacity waits to be told that it may be one.            *)
LEMMA ReadyWhenTold ==
  ASSUME CardTyped(card), NEW hcs \in BOOLEAN, SendCmd([op |-> "ACMD41", hcs |-> hcs], "ready")
  PROVE  card.kind = "hc" => hcs
<1> DEFINE cmd == [op |-> "ACMD41", hcs |-> hcs]
<1>1. cmd.op = "ACMD41" /\ cmd.hcs = hcs
  OBVIOUS
<1> HIDE DEF cmd
<1>2. Reply(card, cmd) = "ready"
  BY SendSafe DEF cmd
<1> QED
  BY <1>1, <1>2 DEF Reply, Deaf

(* Between a call's steps only where it stands changes.                    *)
LEMMA Moves ==
  ASSUME CallFields(call), NEW at, call' = [call EXCEPT !.at = at],
         at \in Bringing \union Reading \union Writing
  PROVE  /\ CallFields(call') /\ call'.at = at /\ call'.op = call.op
         /\ call'.before = call.before /\ call'.v2 = call.v2
BY SMT DEF CallFields

LEMMA Leaves ==
  ASSUME CallFields(call), NEW result, Leave(result)
  PROVE  /\ CallFields(call') /\ call'.at = "idle" /\ call'.result = result
         /\ call'.op = call.op /\ call'.before = call.before /\ call'.got = call.got
         /\ bus'.low = FALSE /\ bus'.clocked = TRUE
<1>1. /\ call' = [call EXCEPT !.at = "idle", !.result = result]
      /\ bus' = [low |-> FALSE, clocked |-> TRUE]
  BY DEF Leave
<1>2. bus'.low = FALSE /\ bus'.clocked = TRUE
  BY <1>1
<1> QED
  BY <1>1, <1>2 DEF CallFields

(* Giving up the initialisation leaves the blocks alone.                   *)
LEMMA GivesUp ==
  ASSUME SdOK, call.at \in Bringing, NEW result, GiveUp(result),
         CardTyped(card'), card'.blocks = card.blocks
  PROVE  SdOK'
<1>1. /\ CallFields(call') /\ call'.at = "idle" /\ call'.op = call.op
      /\ call'.before = call.before /\ bus'.low = FALSE /\ bus'.clocked = TRUE
  BY Leaves DEF SdOK, GiveUp
<1>2. /\ sd' \in [init : BOOLEAN, type : {"v1", "v2", "hc"}, program : BOOLEAN, sm : BOOLEAN]
      /\ sd'.init = FALSE
  BY DEF SdOK, GiveUp
<1>3. call.op.op = "init" /\ card.blocks = call.before
  BY DEF SdOK, BringingUp, BlocksKept, Bringing
<1> QED
  BY <1>1, <1>2, <1>3
     DEF SdOK, BringingUp, UpAgrees, InBlock, BlocksKept, CallsAreSafe, Bringing, Reading, Writing

(* What has to hold for the initialisation to go on.                       *)
LEMMA GoesOn ==
  ASSUME SdOK, call.at \in Bringing, NEW at \in Bringing, CardTyped(card'),
         card'.blocks = card.blocks, at # "CMD0" => card'.spi,
         at = "CMD16" => card'.kind # "hc", at = "CMD9" => Agreed',
         sd' \in [init : {FALSE}, type : {"v1", "v2", "hc"}, program : {TRUE}, sm : {TRUE}],
         CallFields(call'), call'.at = at, call'.op = call.op, call'.before = call.before
  PROVE  SdOK'
<1>1. call.op.op = "init" /\ card.blocks = call.before
  BY DEF SdOK, BringingUp, BlocksKept, Bringing
<1>2. /\ sd' \in [init : BOOLEAN, type : {"v1", "v2", "hc"}, program : BOOLEAN, sm : BOOLEAN]
      /\ sd'.init = FALSE /\ sd'.program = TRUE /\ sd'.sm = TRUE
  OBVIOUS
<1> QED
  BY <1>1, <1>2
     DEF SdOK, BringingUp, UpAgrees, InBlock, BlocksKept, CallsAreSafe, Bringing, Reading, Writing

(* Where the initialisation goes on, the driver's state is a new one.      *)
LEMMA Brought ==
  ASSUME SdOK, call.at \in Bringing
  PROVE  /\ sd \in [init : {FALSE}, type : {"v1", "v2", "hc"}, program : {TRUE}, sm : {TRUE}]
         /\ call.at # "CMD0" => card.spi
         /\ call.at = "CMD16" => card.kind # "hc"
         /\ call.at = "CMD9" => Agreed
BY DEF SdOK, BringingUp

LEMMA GoIdleOK == ASSUME SdOK, GoIdle PROVE SdOK'
<1>1. PICK r \in Answers :
        /\ SendCmd(Op("CMD0"), r)
        /\ IF r = "idle" THEN Goto("CMD8")
           ELSE IF call.tries + 1 < Cmd0Tries
           THEN /\ call' = [call EXCEPT !.tries = @ + 1]
                /\ bus' = [bus EXCEPT !.low = TRUE] /\ sd' = sd
           ELSE GiveUp("CMD0")
  BY DEF GoIdle
<1>2. call.at = "CMD0" /\ call.at \in Bringing /\ CardTyped(card) /\ CallFields(call)
  BY DEF GoIdle, Bringing, SdOK
<1>3. CardTyped(card') /\ card'.blocks = card.blocks
  BY <1>1, <1>2, SendSafe
<1>4. CASE r = "idle"
  <2>1. card'.spi
    BY <1>1, <1>2, <1>4, ResetAnswers
  <2>2. /\ CallFields(call') /\ call'.at = "CMD8" /\ call'.op = call.op
        /\ call'.before = call.before /\ sd' = sd
    BY <1>1, <1>2, <1>4, Moves DEF Goto, Bringing
  <2> QED
    BY <1>2, <1>3, <2>1, <2>2, Brought, GoesOn DEF Bringing
<1>5. CASE r # "idle" /\ call.tries + 1 < Cmd0Tries
  <2>1. call' = [call EXCEPT !.tries = call.tries + 1] /\ sd' = sd
    BY <1>1, <1>5
  <2>2. /\ CallFields(call') /\ call'.at = "CMD0" /\ call'.op = call.op
        /\ call'.before = call.before
    BY <1>2, <2>1, SMT DEF CallFields
  <2> QED
    BY <1>2, <1>3, <2>1, <2>2, Brought, GoesOn DEF Bringing
<1>6. CASE r # "idle" /\ ~(call.tries + 1 < Cmd0Tries)
  BY <1>1, <1>2, <1>3, <1>6, GivesUp
<1> QED
  BY <1>4, <1>5, <1>6

LEMMA CheckVoltageOK == ASSUME SdOK, CheckVoltage PROVE SdOK'
<1>1. PICK r \in Answers :
        /\ SendCmd(Op("CMD8"), r)
        /\ \/ call' = [call EXCEPT !.at = "ACMD41", !.v2 = TRUE] /\ sd' = sd
           \/ Goto("ACMD41")
           \/ GiveUp("CMD8")
  BY DEF CheckVoltage, Answers
<1>2. call.at = "CMD8" /\ call.at \in Bringing /\ CardTyped(card) /\ CallFields(call)
  BY DEF CheckVoltage, Bringing, SdOK
<1>3. CardTyped(card') /\ card'.blocks = card.blocks /\ card'.spi
  BY <1>1, <1>2, SendSafe, Brought
<1>4. CASE call' = [call EXCEPT !.at = "ACMD41", !.v2 = TRUE] /\ sd' = sd
  <2>1. /\ CallFields(call') /\ call'.at = "ACMD41" /\ call'.op = call.op
        /\ call'.before = call.before
    BY <1>2, <1>4 DEF CallFields, Bringing
  <2> QED
    BY <1>2, <1>3, <1>4, <2>1, Brought, GoesOn DEF Bringing
<1>5. CASE Goto("ACMD41")
  <2>1. /\ CallFields(call') /\ call'.at = "ACMD41" /\ call'.op = call.op
        /\ call'.before = call.before /\ sd' = sd
    BY <1>2, <1>5, Moves DEF Goto, Bringing
  <2> QED
    BY <1>2, <1>3, <2>1, Brought, GoesOn DEF Bringing
<1> QED
  BY <1>1, <1>2, <1>3, <1>4, <1>5, GivesUp

LEMMA PollOK == ASSUME SdOK, Poll PROVE SdOK'
<1> DEFINE cmd == [op |-> "ACMD41", hcs |-> call.v2]
<1>1. PICK r \in Answers :
        /\ SendCmd(cmd, r)
        /\ IF r = "ready" THEN Goto(IF call.v2 THEN "CMD58" ELSE "CMD16")
           ELSE Goto("ACMD41") \/ GiveUp("timeout")
  BY DEF Poll
<1>2. call.at = "ACMD41" /\ call.at \in Bringing /\ CardTyped(card) /\ CallFields(call)
      /\ call.v2 \in BOOLEAN
  BY DEF Poll, Bringing, SdOK, CallFields
<1>3. r = "ready" => (card.kind = "hc" => call.v2)
  BY <1>1, <1>2, ReadyWhenTold
<1> HIDE DEF cmd
<1>4. CardTyped(card') /\ card'.blocks = card.blocks /\ card'.spi /\ card'.kind = card.kind
  BY <1>1, <1>2, SendSafe, Brought
<1>5. ASSUME NEW at \in {"CMD58", "CMD16", "ACMD41"}, Goto(at),
             at = "CMD16" => card.kind # "hc"
      PROVE  SdOK'
  <2>1. /\ CallFields(call') /\ call'.at = at /\ call'.op = call.op
        /\ call'.before = call.before /\ sd' = sd
    BY <1>2, <1>5, Moves DEF Goto, Bringing
  <2> QED
    BY <1>2, <1>4, <1>5, <2>1, Brought, GoesOn DEF Bringing
<1>6. CASE r = "ready" /\ call.v2 = TRUE
  BY <1>1, <1>5, <1>6
<1>7. CASE r = "ready" /\ call.v2 = FALSE
  BY <1>1, <1>3, <1>5, <1>7
<1>8. CASE r # "ready"
  BY <1>1, <1>2, <1>4, <1>5, <1>8, GivesUp
<1> QED
  BY <1>2, <1>6, <1>7, <1>8

LEMMA ReadOcrOK == ASSUME SdOK, ReadOcr PROVE SdOK'
<1>1. PICK r \in Answers :
        /\ SendCmd(Op("CMD58"), r)
        /\ \/ GiveUp("OCR")
           \/ card.kind = "hc" /\ sd' = [sd EXCEPT !.type = "hc"]
              /\ call' = [call EXCEPT !.at = "CMD9"]
           \/ card.kind # "hc" /\ Goto("CMD16")
  BY DEF ReadOcr
<1>2. call.at = "CMD58" /\ call.at \in Bringing /\ CardTyped(card) /\ CallFields(call)
  BY DEF ReadOcr, Bringing, SdOK
<1>3. CardTyped(card') /\ card'.blocks = card.blocks /\ card'.spi /\ card'.kind = card.kind
  BY <1>1, <1>2, SendSafe, Brought
<1>4. CASE /\ card.kind = "hc" /\ sd' = [sd EXCEPT !.type = "hc"]
           /\ call' = [call EXCEPT !.at = "CMD9"]
  <2>1. /\ CallFields(call') /\ call'.at = "CMD9" /\ call'.op = call.op
        /\ call'.before = call.before
    BY <1>2, <1>4, Moves DEF Bringing
  <2>2. sd' \in [init : {FALSE}, type : {"v1", "v2", "hc"}, program : {TRUE}, sm : {TRUE}]
        /\ sd'.type = "hc"
    BY <1>2, <1>4, Brought
  <2>3. Agreed'
    BY <1>3, <1>4, <2>2 DEF Agreed, CardTyped
  <2> QED
    BY <1>2, <1>3, <2>1, <2>2, <2>3, GoesOn DEF Bringing
<1>5. CASE card.kind # "hc" /\ Goto("CMD16")
  <2>1. /\ CallFields(call') /\ call'.at = "CMD16" /\ call'.op = call.op
        /\ call'.before = call.before /\ sd' = sd
    BY <1>2, <1>5, Moves DEF Goto, Bringing
  <2> QED
    BY <1>2, <1>3, <1>5, <2>1, Brought, GoesOn DEF Bringing
<1> QED
  BY <1>1, <1>2, <1>3, <1>4, <1>5, GivesUp

LEMMA SetBlockLengthOK == ASSUME SdOK, SetBlockLength PROVE SdOK'
<1>1. PICK r \in Answers :
        /\ SendCmd(Op("CMD16"), r)
        /\ \/ GiveUp("OCR")
           \/ /\ r = "ready" /\ sd' = [sd EXCEPT !.type = IF call.v2 THEN "v2" ELSE "v1"]
              /\ call' = [call EXCEPT !.at = "CMD9"]
  BY DEF SetBlockLength
<1>2. call.at = "CMD16" /\ call.at \in Bringing /\ CardTyped(card) /\ CallFields(call)
  BY DEF SetBlockLength, Bringing, SdOK
<1>3. CardTyped(card') /\ card'.blocks = card.blocks /\ card'.spi /\ card'.kind = card.kind
  BY <1>1, <1>2, SendSafe, Brought
<1>4. CASE /\ r = "ready" /\ sd' = [sd EXCEPT !.type = IF call.v2 THEN "v2" ELSE "v1"]
           /\ call' = [call EXCEPT !.at = "CMD9"]
  <2>1. /\ CallFields(call') /\ call'.at = "CMD9" /\ call'.op = call.op
        /\ call'.before = call.before
    BY <1>2, <1>4, Moves DEF Bringing
  <2>2. sd' \in [init : {FALSE}, type : {"v1", "v2", "hc"}, program : {TRUE}, sm : {TRUE}]
        /\ sd'.type # "hc"
    BY <1>2, <1>4, Brought
  <2>3. card'.blocklen = BlockBytes
    BY <1>1, <1>2, <1>4, BlockLengthSet
  <2>4. card.kind # "hc"
    BY <1>2, Brought
  <2>5. Agreed'
    BY <1>3, <2>2, <2>3, <2>4 DEF Agreed
  <2> QED
    BY <1>2, <1>3, <2>1, <2>2, <2>5, GoesOn DEF Bringing
<1> QED
  BY <1>1, <1>2, <1>3, <1>4, GivesUp

LEMMA ReadCsdOK == ASSUME SdOK, ReadCsd PROVE SdOK'
<1>1. PICK r \in Answers : SendCmd(Op("CMD9"), r)
  BY DEF ReadCsd
<1>2. call.at = "CMD9" /\ call.at \in Bringing /\ CardTyped(card) /\ CallFields(call)
  BY DEF ReadCsd, Bringing, SdOK
<1>3. CardTyped(card') /\ card'.blocks = card.blocks /\ card'.kind = card.kind
      /\ (card.blocklen = BlockBytes => card'.blocklen = BlockBytes)
  BY <1>1, <1>2, SendSafe
<1>4. /\ CallFields(call') /\ call'.at = "idle" /\ call'.op = call.op
      /\ call'.before = call.before /\ bus'.low = FALSE /\ bus'.clocked = TRUE
  BY <1>2, Leaves DEF ReadCsd
<1>5. /\ sd' \in [init : BOOLEAN, type : {"v1", "v2", "hc"}, program : BOOLEAN, sm : BOOLEAN]
      /\ sd'.program = TRUE /\ sd'.sm = TRUE /\ sd'.type = sd.type
  BY <1>2, Brought DEF ReadCsd
<1>6. Agreed'
  BY <1>2, <1>3, <1>5, Brought DEF Agreed
<1>7. call.op.op = "init" /\ card.blocks = call.before
  BY <1>2 DEF SdOK, BringingUp, BlocksKept
<1> QED
  BY <1>3, <1>4, <1>5, <1>6, <1>7
     DEF SdOK, BringingUp, UpAgrees, InBlock, BlocksKept, CallsAreSafe, Bringing, Reading, Writing

(* A call as it begins.                                                    *)
LEMMA Begins ==
  ASSUME CardTyped(card), NEW at, NEW op, NEW c, c = BeginCall(at, op),
         at \in {"idle"} \union Bringing \union Reading \union Writing
  PROVE  CallFields(c) /\ c.at = at /\ c.op = op /\ c.before = card.blocks
BY DEF CardTyped, CallFields, BeginCall

LEMMA StartOK == ASSUME SdOK, Start PROVE SdOK'
<1>1. CardTyped(card) /\ card' = card /\ bus' = [low |-> FALSE, clocked |-> TRUE]
  BY DEF SdOK, Start
<1>2. bus'.low = FALSE /\ bus'.clocked = TRUE
  BY <1>1
<1>3. \/ sd' = Deinit
      \/ sd' = [Deinit EXCEPT !.program = TRUE, !.sm = TRUE]
  BY DEF Start
<1>4. /\ sd' \in [init : BOOLEAN, type : {"v1", "v2", "hc"}, program : BOOLEAN, sm : BOOLEAN]
      /\ sd'.init = FALSE
  <2>1. /\ Deinit \in [init : BOOLEAN, type : {"v1", "v2", "hc"}, program : BOOLEAN, sm : BOOLEAN]
        /\ Deinit.init = FALSE
    BY DEF Deinit
  <2> QED
    BY <1>3, <2>1
<1>5. CASE \/ call' = [BeginCall("idle", [op |-> "init"]) EXCEPT !.result = "not initialized"]
           \/ call' = [BeginCall("idle", [op |-> "init"]) EXCEPT !.result = "no card"]
  <2> DEFINE c == BeginCall("idle", [op |-> "init"])
  <2>1. /\ CallFields(c) /\ c.at = "idle" /\ c.op = [op |-> "init"] /\ c.before = card.blocks
    BY <1>1, Begins
  <2>3. call' = [c EXCEPT !.result = "not initialized"] \/ call' = [c EXCEPT !.result = "no card"]
    BY <1>5
  <2> HIDE DEF c
  <2>4. c.op.op = "init"
    BY <2>1
  <2>2. /\ CallFields(call') /\ call'.at = "idle" /\ call'.op.op = "init"
        /\ call'.before = card.blocks
    BY <2>1, <2>3, <2>4 DEF CallFields
  <2> QED
    BY <1>1, <1>2, <1>4, <2>2
       DEF SdOK, BringingUp, UpAgrees, InBlock, BlocksKept, CallsAreSafe, Bringing, Reading, Writing
<1>6. CASE /\ call' = BeginCall("CMD0", [op |-> "init"])
           /\ sd' = [Deinit EXCEPT !.program = TRUE, !.sm = TRUE]
  <2>1. /\ CallFields(call') /\ call'.at = "CMD0" /\ call'.op.op = "init"
        /\ call'.before = card.blocks
    BY <1>1, <1>6, Begins DEF Bringing
  <2>2. sd'.program = TRUE /\ sd'.sm = TRUE
    BY <1>6 DEF Deinit
  <2> QED
    BY <1>1, <1>4, <2>1, <2>2
       DEF SdOK, BringingUp, UpAgrees, InBlock, BlocksKept, CallsAreSafe, Bringing, Reading, Writing
<1> QED
  BY <1>5, <1>6 DEF Start

LEMMA BeginBlockOK ==
  ASSUME SdOK, NEW lba \in Lbas, NEW op, NEW v,
         (op = "CMD17") \/ (op = "CMD24" /\ v \in Values), BeginBlock(op, lba, v)
  PROVE  SdOK'
<1> DEFINE o == [op |-> op, lba |-> lba, value |-> v]
<1>1. o.op = op /\ o.lba = lba /\ o.value = v
  OBVIOUS
<1> HIDE DEF o
<1>2. /\ CardTyped(card) /\ card' = card /\ sd' = sd /\ call.at = "idle"
      /\ IF sd.init THEN call' = BeginCall(op, o)
         ELSE /\ call' = [BeginCall(op, o) EXCEPT !.at = "idle", !.result = "not initialized"]
              /\ bus' = bus
  BY DEF SdOK, BeginBlock, Idle, o
<1>3. op \in {"idle"} \union Bringing \union Reading \union Writing
  BY DEF Bringing, Reading, Writing
<1>4. CASE sd.init
  <2>1. CallFields(call') /\ call'.at = op /\ call'.op = o /\ call'.before = card.blocks
    BY <1>2, <1>3, <1>4, Begins
  <2> QED
    BY <1>1, <1>2, <1>4, <2>1
       DEF SdOK, BringingUp, UpAgrees, Agreed, InBlock, BlocksKept, CallsAreSafe, Bringing, Reading, Writing
<1>5. CASE ~sd.init
  <2>1. /\ CallFields(call') /\ call'.at = "idle" /\ call'.op = o
        /\ call'.result = "not initialized" /\ call'.before = card.blocks
    <3> DEFINE c == BeginCall(op, o)
    <3>1. call' = [c EXCEPT !.at = "idle", !.result = "not initialized"]
      BY <1>2, <1>5
    <3>2. CallFields(c) /\ c.op = o /\ c.before = card.blocks
      BY <1>2, <1>3, Begins
    <3> HIDE DEF c
    <3> QED
      BY <3>1, <3>2 DEF CallFields
  <2>2. bus' = bus
    BY <1>2, <1>5
  <2> QED
    BY <1>1, <1>2, <1>5, <2>1, <2>2
       DEF SdOK, BringingUp, UpAgrees, Agreed, InBlock, BlocksKept, CallsAreSafe, Bringing, Reading, Writing
<1> QED
  BY <1>4, <1>5

(* A card that still speaks to the driver reads an address as it is meant. *)
LEMMA AddressNames ==
  ASSUME Agreed, NEW lba \in Lbas
  PROVE  Named(card, Address(lba)) = lba
<1>1. lba \in Nat
  BY SdAssumption
<1>2. (lba * 2) \div 2 = lba
  BY <1>1, SMT
<1> QED
  BY <1>2 DEF Agreed, Named, Address, BlockBytes

(* In a block the driver is up; the card is the one it knows, or is deaf.  *)
LEMMA InBlockUp ==
  ASSUME SdOK, call.at \in Reading \union Writing
  PROVE  /\ CardTyped(card) /\ CallFields(call) /\ sd.init /\ sd.program /\ sd.sm
         /\ card.spi => Agreed
         /\ call.op.lba \in Lbas
         /\ call.at # "busy" => card.blocks = call.before
BY DEF SdOK, UpAgrees, InBlock, BlocksKept, Reading, Writing

(* A block that fails: nothing was read, and if anything was written, it   *)
(* was the block that was meant.                                           *)
LEMMA BlockAddressEnds ==
  ASSUME SdOK, call.at \in Reading \union Writing, NEW result, Leave(result), sd' = sd,
         CardTyped(card'), card'.spi => Agreed',
         \A b \in Lbas : (call.op.op = "CMD24" => b # call.op.lba)
                           => card'.blocks[b] = call.before[b],
         result = "ok" => call.op.op = "CMD24" /\ card'.blocks[call.op.lba] = call.op.value
  PROVE  SdOK'
<1>1. /\ CallFields(call') /\ call'.at = "idle" /\ call'.op = call.op /\ call'.result = result
      /\ call'.before = call.before /\ bus'.low = FALSE /\ bus'.clocked = TRUE
  BY Leaves, InBlockUp
<1> QED
  BY <1>1, InBlockUp
     DEF SdOK, BringingUp, UpAgrees, InBlock, BlocksKept, CallsAreSafe, Bringing, Reading, Writing

(* The command of a block is answered by the card the driver knows, or the *)
(* call ends.                                                              *)
LEMMA BlockCommand ==
  ASSUME SdOK, NEW from, NEW to, NEW result,
         (from = "CMD17" /\ to = "token") \/ (from = "CMD24" /\ to = "data"),
         call.at = from, NEW r, SendCmd(Op(from), r), sd' = sd,
         IF r = "ready" THEN call' = [call EXCEPT !.at = to] /\ bus' = bus ELSE Leave(result),
         result # "ok"
  PROVE  SdOK'
<1>1. /\ from \in Reading \union Writing /\ to \in Reading \union Writing /\ to # "busy"
      /\ from # "busy" /\ from # "CMD0" /\ Op(from).op = from
  BY DEF Reading, Writing, Op
<1>2. /\ CardTyped(card') /\ card'.blocks = card.blocks /\ card'.kind = card.kind
      /\ card.spi => card'.spi
      /\ card.blocklen = BlockBytes => card'.blocklen = BlockBytes
      /\ r = "ready" => card.spi
  BY <1>1, InBlockUp, SendSafe
<1>3. card'.spi => Agreed'
  <2>1. card.spi \/ ~card'.spi
    BY <1>1, InBlockUp, SendSafe, SpiOnlyByReset
  <2> QED
    BY <1>1, <1>2, <2>1, InBlockUp DEF Agreed
<1>4. CASE r = "ready"
  <2>1. /\ CallFields(call') /\ call'.at = to /\ call'.op = call.op
        /\ call'.before = call.before
    BY <1>1, <1>4, InBlockUp, Moves
  <2> QED
    BY <1>1, <1>2, <1>3, <1>4, <2>1, InBlockUp
       DEF SdOK, BringingUp, UpAgrees, InBlock, BlocksKept, CallsAreSafe, Bringing, Reading, Writing
<1>5. CASE r # "ready"
  <2>1. Leave(result)
    BY <1>5
  <2>2. \A b \in Lbas : card'.blocks[b] = call.before[b]
    BY <1>1, <1>2, InBlockUp
  <2> QED
    BY <1>1, <1>2, <1>3, <2>1, <2>2, BlockAddressEnds
<1> QED
  BY <1>4, <1>5

LEMMA ReadCommandOK == ASSUME SdOK, ReadCommand PROVE SdOK'
<1>1. PICK r \in Answers :
        /\ SendCmd(Op("CMD17"), r)
        /\ IF r = "ready" THEN call' = [call EXCEPT !.at = "token"] /\ bus' = bus
           ELSE Leave("read error")
  BY DEF ReadCommand
<1> QED
  BY <1>1, BlockCommand DEF ReadCommand

LEMMA WriteCommandOK == ASSUME SdOK, WriteCommand PROVE SdOK'
<1>1. PICK r \in Answers :
        /\ SendCmd(Op("CMD24"), r)
        /\ IF r = "ready" THEN call' = [call EXCEPT !.at = "data"] /\ bus' = bus
           ELSE Leave("write error")
  BY DEF WriteCommand
<1> QED
  BY <1>1, BlockCommand DEF WriteCommand

LEMMA ReadDataOK == ASSUME SdOK, ReadData PROVE SdOK'
<1>1. /\ call.at = "token" /\ call.at \in Reading \union Writing /\ card' = card /\ sd' = sd
      /\ card.spi /\ call.op.op = "CMD17" /\ Agreed
  BY InBlockUp DEF ReadData, SdOK, InBlock, Reading, Writing
<1>2. card'.spi => Agreed'
  BY <1>1 DEF Agreed
<1>3. CASE \E result \in {"read error", "timeout"} : Leave(result)
  BY <1>1, <1>2, <1>3, InBlockUp, BlockAddressEnds
<1>4. CASE /\ bus' = [low |-> FALSE, clocked |-> TRUE]
           /\ call' = [call EXCEPT !.at = "idle", !.result = "ok",
                !.got = IF card.blocklen = BlockBytes /\ Named(card, Address(call.op.lba)) \in Lbas
                        THEN card.blocks[Named(card, Address(call.op.lba))] ELSE "garbage"]
  <2> DEFINE got == IF card.blocklen = BlockBytes /\ Named(card, Address(call.op.lba)) \in Lbas
                    THEN card.blocks[Named(card, Address(call.op.lba))] ELSE "garbage"
  <2>1. got = card.blocks[call.op.lba]
    BY <1>1, InBlockUp, AddressNames DEF Agreed
  <2>2. call' = [call EXCEPT !.at = "idle", !.result = "ok", !.got = got]
    BY <1>4
  <2> HIDE DEF got
  <2>3. /\ CallFields(call') /\ call'.at = "idle" /\ call'.op = call.op
        /\ call'.before = call.before /\ call'.got = got
    BY <1>1, <2>2, InBlockUp DEF CallFields
  <2>4. bus'.low = FALSE /\ bus'.clocked = TRUE
    BY <1>4
  <2> QED
    BY <1>1, <1>2, <2>1, <2>3, <2>4, InBlockUp
       DEF SdOK, BringingUp, UpAgrees, InBlock, BlocksKept, CallsAreSafe, Bringing, Reading, Writing
<1> QED
  BY <1>3, <1>4 DEF ReadData

LEMMA WriteDataOK == ASSUME SdOK, WriteData PROVE SdOK'
<1>1. /\ call.at = "data" /\ call.at \in Reading \union Writing /\ sd' = sd /\ card.spi
      /\ call.op.op = "CMD24" /\ call.op.value \in Values /\ call.op.lba \in Lbas /\ Agreed
      /\ CardTyped(card) /\ CallFields(call) /\ card.blocks = call.before
  BY InBlockUp DEF WriteData, SdOK, InBlock, Reading, Writing
<1> DEFINE w == Written(card)
<1>2. w = [card EXCEPT !.blocks[call.op.lba] = call.op.value]
  BY <1>1, AddressNames DEF Written, Agreed
<1> HIDE DEF w
<1>3. /\ CardTyped(w) /\ w.kind = card.kind /\ w.blocklen = card.blocklen
      /\ w.blocks = [call.before EXCEPT ![call.op.lba] = call.op.value]
  BY <1>1, <1>2 DEF CardTyped
<1>4. /\ w.blocks[call.op.lba] = call.op.value
      /\ \A b \in Lbas : b # call.op.lba => w.blocks[b] = call.before[b]
  BY <1>1, <1>3 DEF CallFields
<1>5. card' \in {card, w}
  BY DEF WriteData, w
<1>6. CardTyped(card') /\ Agreed'
  BY <1>1, <1>3, <1>5 DEF Agreed
<1>7. CASE card' = w /\ call' = [call EXCEPT !.at = "busy"]
  <2>1. /\ CallFields(call') /\ call'.at = "busy" /\ call'.op = call.op
        /\ call'.before = call.before
    BY <1>1, <1>7, Moves DEF Writing
  <2> QED
    BY <1>1, <1>3, <1>6, <1>7, <2>1, InBlockUp
       DEF SdOK, BringingUp, UpAgrees, InBlock, BlocksKept, CallsAreSafe, Bringing, Reading, Writing
<1>8. CASE Leave("write error")
  <2>1. \A b \in Lbas : b # call.op.lba => card'.blocks[b] = call.before[b]
    BY <1>1, <1>4, <1>5
  <2> QED
    BY <1>1, <1>6, <1>8, <2>1, BlockAddressEnds
<1> QED
  BY <1>7, <1>8 DEF WriteData, w

LEMMA WriteDoneOK == ASSUME SdOK, WriteDone PROVE SdOK'
<1>1. /\ call.at = "busy" /\ call.at \in Reading \union Writing /\ card' = card /\ sd' = sd
      /\ call.op.op = "CMD24" /\ call.op.lba \in Lbas /\ CardTyped(card) /\ CallFields(call)
      /\ card.blocks = [call.before EXCEPT ![call.op.lba] = call.op.value]
  BY InBlockUp DEF WriteDone, SdOK, InBlock, BlocksKept, Reading, Writing
<1>2. PICK result \in {"ok", "timeout"} : Leave(result)
  BY DEF WriteDone
<1>3. /\ card'.blocks[call.op.lba] = call.op.value
      /\ \A b \in Lbas : b # call.op.lba => card'.blocks[b] = call.before[b]
  BY <1>1 DEF CallFields
<1>4. card'.spi => Agreed'
  BY <1>1, InBlockUp DEF Agreed
<1> QED
  BY <1>1, <1>2, <1>3, <1>4, BlockAddressEnds

LEMMA FreshCard ==
  ASSUME NEW k \in Kinds, NEW blocks \in [Lbas -> Values], NEW c \in Fresh(k, blocks)
  PROVE  CardTyped(c) /\ c.spi = FALSE /\ c.blocks = blocks
<1>1. PICK b \in IF k = "hc" THEN {BlockBytes} ELSE {BlockBytes, 2 * BlockBytes} :
        c = [kind |-> k, spi |-> FALSE, ready |-> FALSE, blocklen |-> b, blocks |-> blocks]
  BY DEF Fresh
<1> QED
  BY <1>1 DEF CardTyped

LEMMA SwapCardOK == ASSUME SdOK, SwapCard PROVE SdOK'
<1>1. PICK k \in Kinds \ {card.kind} : card' \in Fresh(k, card.blocks)
  BY DEF SwapCard
<1>2. CardTyped(card') /\ card'.spi = FALSE
  <2>1. card.blocks \in [Lbas -> Values] /\ k \in Kinds
    BY DEF SdOK, CardTyped
  <2> QED
    BY <1>1, <2>1, FreshCard
<1>3. /\ call.at = "idle" /\ sd' = sd /\ bus' = bus
      /\ call' = [call EXCEPT !.n = call.n + 1, !.result = "changed"]
  BY DEF SwapCard
<1>4. CallFields(call') /\ call'.at = "idle" /\ call'.result = "changed"
  BY <1>3 DEF SdOK, CallFields
<1> QED
  BY <1>2, <1>3, <1>4
     DEF SdOK, BringingUp, UpAgrees, InBlock, BlocksKept, CallsAreSafe, Bringing, Reading, Writing

LEMMA SdStart == SdInit => SdOK
<1> SUFFICES ASSUME SdInit PROVE SdOK
  OBVIOUS
<1>1. CardTyped(card)
  BY FreshCard DEF SdInit
<1>2. CallFields(call) /\ call.at = "idle" /\ call.op.op = "none" /\ call.result = "none"
  BY <1>1 DEF SdInit, CallFields, CardTyped
<1>3. /\ sd \in [init : BOOLEAN, type : {"v1", "v2", "hc"}, program : BOOLEAN, sm : BOOLEAN]
      /\ sd.init = FALSE /\ bus.low = FALSE /\ bus.clocked = TRUE
  BY DEF SdInit, Deinit
<1> QED
  BY <1>1, <1>2, <1>3
     DEF SdOK, BringingUp, UpAgrees, InBlock, BlocksKept, CallsAreSafe, Bringing, Reading, Writing

LEMMA SdStep == SdOK /\ [SdNext]_sdVars => SdOK'
<1> SUFFICES ASSUME SdOK, [SdNext]_sdVars PROVE SdOK'
  OBVIOUS
<1>1. CASE UNCHANGED sdVars
  BY <1>1 DEF SdOK, sdVars, BringingUp, UpAgrees, Agreed, InBlock, BlocksKept, CallsAreSafe
<1>2. CASE \E lba \in Lbas : BeginBlock("CMD17", lba, "none")
  BY <1>2, BeginBlockOK
<1>3. CASE \E lba \in Lbas, v \in Values : BeginBlock("CMD24", lba, v)
  BY <1>3, BeginBlockOK
<1> QED
  BY <1>1, <1>2, <1>3, StartOK, GoIdleOK, CheckVoltageOK, PollOK, ReadOcrOK, SetBlockLengthOK,
     ReadCsdOK, ReadCommandOK, ReadDataOK, WriteCommandOK, WriteDataOK, WriteDoneOK, SwapCardOK
     DEF SdNext

(* Whatever is lost on the bus and whichever card is put in: a block read  *)
(* is the block that was asked for, a write that reports success has       *)
(* written it, no call writes any other block, and the bus is left in      *)
(* order.  It holds because an initialised driver and a card that answers  *)
(* agree on what an address means.                                         *)
THEOREM BlocksAreMeant == SdSpec => []CallsAreSafe
<1>1. SdOK => CallsAreSafe
  BY DEF SdOK
<1> QED
  BY <1>1, SdStart, SdStep, PTL DEF SdSpec

-----------------------------------------------------------------------------
(* The two renderers.  Both take their pixels from the same patterns, the  *)
(* one through the rows decoded beforehand; the sprites laid over one      *)
(* another come to the first of them that has a colour.                    *)

RenderSpec == RenderInit /\ [][RenderNext]_renderVars

IsScene(s) == DOMAIN s = Registers /\ InRange(s)

(* What the registers hold, and that the rows are those of the patterns.   *)
RenderOK ==
  /\ IsScene(scene) /\ oam \in Seq(OamSprite) /\ IsCartridge(chr)
  /\ rows = NoCache \/ rows = DecodedAll(chr)
  /\ line.y \in -1 .. Height - 1

LEMMA RenderSizes ==
  /\ TileWidth \in 1 .. 8 /\ TileHeight \in Nat \ {0} /\ TableTiles \in Nat \ {0}
  /\ Height \in Nat \ {0} /\ Columns \in Nat \ {0, 1, 2}
  /\ Width \in Nat \ {0} /\ Width = Columns * TileWidth
  /\ Width >= TileWidth
<1>1. TileWidth \in 1 .. 8 /\ Columns \in Nat \ {0, 1, 2}
  BY SizeAssumption
<1>2. Columns * TileWidth \in Nat \ {0} /\ Columns * TileWidth >= TileWidth
  BY <1>1
<1> QED
  BY <1>1, <1>2, SizeAssumption DEF Width

(* What a scene holds, register by register.                               *)
LEMMA SceneHolds ==
  ASSUME NEW s, IsScene(s)
  PROVE  /\ s.fineX \in 0 .. TileWidth - 1 /\ s.coarseX \in Nat /\ s.table \in 0 .. 3
         /\ s.row \in 0 .. TileHeight - 1 /\ s.bgTable \in {0, 1} /\ s.bank \in Nat
         /\ s.mirror \in {"horizontal", "vertical", "lower", "upper"}
<1> DEFINE R == Registers
<1>1. R = {"show", "fineX", "coarseX", "table", "row", "tall", "bgTable", "spTable", "mirror", "bank"}
  BY DEF Registers, Ranges
<1>2. \A r \in R : s[r] \in Ranges[r]
  BY DEF IsScene, InRange
<1> HIDE DEF R
<1>3. /\ s["fineX"] \in Ranges["fineX"] /\ s["coarseX"] \in Ranges["coarseX"]
      /\ s["table"] \in Ranges["table"] /\ s["row"] \in Ranges["row"]
      /\ s["bgTable"] \in Ranges["bgTable"] /\ s["bank"] \in Ranges["bank"]
      /\ s["mirror"] \in Ranges["mirror"]
  BY <1>1, <1>2
<1>4. /\ Ranges.fineX = 0 .. TileWidth - 1 /\ Ranges.coarseX = Nat /\ Ranges.table = 0 .. 3
      /\ Ranges.row = 0 .. TileHeight - 1 /\ Ranges.bgTable = {0, 1} /\ Ranges.bank = Nat
      /\ Ranges.mirror = {"horizontal", "vertical", "lower", "upper"}
  BY DEF Ranges
<1> QED
  BY <1>3, <1>4

LEMMA CartridgeSize ==
  ASSUME NEW data, IsCartridge(data)
  PROVE  /\ Cardinality(DOMAIN data) \in Nat \ {0}
         /\ DOMAIN data = 0 .. Cardinality(DOMAIN data) - 1
  BY DEF IsCartridge

(* A tile of the pattern memory, whatever the bank, has its rows in the    *)
(* cache when there is one.                                                *)
LEMMA RowsAreDecoded ==
  ASSUME RenderOK, NEW tile \in Int, NEW r \in 0 .. TileHeight - 1
  PROVE  /\ Mapped(tile) \in DOMAIN chr /\ r \in DOMAIN chr[Mapped(tile)]
         /\ chr[Mapped(tile)][r] \in [low : Nat, high : Nat]
         /\ RowPixels(tile, r) = Decoded(chr[Mapped(tile)][r])
<1> DEFINE n == Cardinality(DOMAIN chr)
           t == Mapped(tile)
<1>1. n \in Nat \ {0} /\ DOMAIN chr = 0 .. n - 1
  BY CartridgeSize DEF RenderOK
<1>2. chr \in [0 .. n - 1 -> [0 .. TileHeight - 1 -> [low : Nat, high : Nat]]]
  BY DEF RenderOK, IsCartridge
<1>3. scene.bank * 2 * TableTiles + tile \in Int
  <2>1. scene.bank \in Nat /\ TableTiles \in Nat
    BY SceneHolds, RenderSizes DEF RenderOK
  <2> QED
    BY <2>1
<1> HIDE DEF n
<1>4. t \in 0 .. n - 1
  <2> DEFINE at == scene.bank * 2 * TableTiles + tile
  <2>1. at \in Int /\ t = at % n
    BY <1>3 DEF Mapped, n
  <2> HIDE DEF at, t
  <2> QED
    BY <1>1, <2>1
<1> HIDE DEF t
<1>5. /\ t \in DOMAIN chr /\ r \in DOMAIN chr[t] /\ chr[t][r] \in [low : Nat, high : Nat]
  BY <1>1, <1>2, <1>4
<1>6. rows # NoCache => rows[t][r] = Decoded(chr[t][r])
  BY <1>5 DEF RenderOK, DecodedAll
<1>7. RowPixels(tile, r) = Decoded(chr[t][r])
  BY <1>6 DEF RowPixels, t
<1> QED
  BY <1>5, <1>7 DEF t

LEMMA BitIsBit ==
  ASSUME NEW byte \in Nat, NEW px \in 0 .. TileWidth - 1
  PROVE  Bit(byte, px) \in 0 .. 1
<1> DEFINE s == TileWidth - 1 - px
           q == byte \div 2 ^ s
<1>1. s \in 0 .. 7
  BY RenderSizes
<1>2. 2 ^ s \in Nat \ {0}
  BY <1>1, SmallPowers
<1> DEFINE d == 2 ^ s
<1>3. d \in Nat \ {0} /\ q = byte \div d
  BY <1>2
<1> HIDE DEF d, s
<1>4. q \in Nat
  BY <1>3
<1>5. Bit(byte, px) = q % 2
  BY DEF Bit, s
<1> HIDE DEF q
<1> QED
  BY <1>4, <1>5

(* A pixel of a decoded row is that of the two planes, one of four.        *)
LEMMA PixelsAgree ==
  ASSUME RenderOK, NEW tile \in Int, NEW r \in 0 .. TileHeight - 1, NEW px \in 0 .. TileWidth - 1
  PROVE  /\ RowPixels(tile, r)[px] = PlanePixel(tile, r, px)
         /\ PlanePixel(tile, r, px) \in 0 .. 3
<1> DEFINE planes == chr[Mapped(tile)][r]
<1>1. planes \in [low : Nat, high : Nat] /\ RowPixels(tile, r) = Decoded(planes)
  BY RowsAreDecoded
<1>2. PlanePixel(tile, r, px) = 2 * Bit(planes.high, px) + Bit(planes.low, px)
  BY DEF PlanePixel
<1> HIDE DEF planes
<1>3. Bit(planes.high, px) \in 0 .. 1 /\ Bit(planes.low, px) \in 0 .. 1
  BY <1>1, BitIsBit
<1>4. Decoded(planes)[px] = 2 * Bit(planes.high, px) + Bit(planes.low, px)
  BY DEF Decoded
<1> QED
  BY <1>1, <1>2, <1>3, <1>4

(* The two ways from a name table to the memory that holds it.             *)
LEMMA TablesAgree ==
  ASSUME RenderOK, NEW column \in Int
  PROVE  /\ EffectiveTable(column) \in 0 .. 3
         /\ NtPhys[scene.mirror][EffectiveTable(column) + 1] = NametableIndex(EffectiveTable(column))
         /\ NametableIndex(EffectiveTable(column)) \in 0 .. 1
<1>1. /\ scene.table \in 0 .. 3
      /\ scene.mirror \in {"horizontal", "vertical", "lower", "upper"}
  BY SceneHolds DEF RenderOK
<1>2. EffectiveTable(column) \in 0 .. 3
  <2> DEFINE odd == (column \div Columns) % 2 = 1
  <2>1. EffectiveTable(column) = IF odd THEN IF scene.table % 2 = 0 THEN scene.table + 1 ELSE scene.table - 1
                                 ELSE scene.table
    BY DEF EffectiveTable
  <2> HIDE DEF odd
  <2> QED
    BY <1>1, <2>1
<1>3. ASSUME NEW t \in 0 .. 3
      PROVE  NtPhys[scene.mirror][t + 1] = NametableIndex(t) /\ NametableIndex(t) \in 0 .. 1
  <2>1. t = 0 \/ t = 1 \/ t = 2 \/ t = 3
    OBVIOUS
  <2>2. CASE scene.mirror = "horizontal"
    <3>1. NametableIndex(t) = t \div 2
      BY <2>2 DEF NametableIndex
    <3>2. NtPhys[scene.mirror] = <<0, 0, 1, 1>>
      BY <2>2 DEF NtPhys
    <3> QED
      BY <2>1, <3>1, <3>2
  <2>3. CASE scene.mirror = "vertical"
    <3>1. NametableIndex(t) = t % 2
      BY <2>3 DEF NametableIndex
    <3>2. NtPhys[scene.mirror] = <<0, 1, 0, 1>>
      BY <2>3 DEF NtPhys
    <3> QED
      BY <2>1, <3>1, <3>2
  <2>4. CASE scene.mirror = "lower"
    <3>1. NametableIndex(t) = 0
      BY <2>4 DEF NametableIndex
    <3>2. NtPhys[scene.mirror] = <<0, 0, 0, 0>>
      BY <2>4 DEF NtPhys
    <3> QED
      BY <2>1, <3>1, <3>2
  <2>5. CASE scene.mirror = "upper"
    <3>1. NametableIndex(t) = 1
      BY <2>5 DEF NametableIndex
    <3>2. NtPhys[scene.mirror] = <<1, 1, 1, 1>>
      BY <2>5 DEF NtPhys
    <3> QED
      BY <2>1, <3>1, <3>2
  <2> QED
    BY <1>1, <2>2, <2>3, <2>4, <2>5
<1> QED
  BY <1>2, <1>3

(* Where the tiles of the background are, and the colours of their pixels. *)
LEMMA TilesInRange ==
  ASSUME RenderOK, NEW physical \in 0 .. 1, NEW column \in Int
  PROVE  /\ BgTile(physical, column) \in Nat
         /\ BgPalette(physical, column) \in Nat
         /\ \A bits \in 0 .. 3 : BgColor(BgPalette(physical, column), bits) = Universal <=>
              BgPalette(physical, column) = 0 /\ bits = 0
<1> DEFINE c == column % Columns
<1>1. c \in 0 .. Columns - 1
  BY RenderSizes
<1>2. /\ BgTile(physical, column) = scene.bgTable * TableTiles + NameTables[physical][c]
      /\ BgPalette(physical, column) = Attributes[physical][(c \div 2) * 2]
  BY DEF BgTile, BgPalette
<1> HIDE DEF c
<1>3. NameTables[physical][c] \in Nat /\ Attributes[physical][(c \div 2) * 2] \in Nat
  BY <1>1, PictureAssumption
<1>4. scene.bgTable * TableTiles \in Nat
  <2>1. scene.bgTable \in {0, 1} /\ TableTiles \in Nat
    BY SceneHolds, RenderSizes DEF RenderOK
  <2> QED
    BY <2>1
<1>5. BgTile(physical, column) \in Nat /\ BgPalette(physical, column) \in Nat
  BY <1>2, <1>3, <1>4
<1> QED
  BY <1>5 DEF BgColor, Universal

(* Which pixels of the canvas the groups of the background reach.          *)
LEMMA GroupsOnScreen ==
  ASSUME RenderOK, NEW x \in Canvas,
         NEW g, g = (x + scene.fineX) \div TileWidth
  PROVE  /\ g \in Int /\ x + scene.fineX \in Int
         /\ (x + scene.fineX) % TileWidth = x + scene.fineX - g * TileWidth
         /\ x + scene.fineX - g * TileWidth \in 0 .. TileWidth - 1
         /\ x \in Row => g \in 0 .. Columns
         /\ Unclipped(g) => x \in Row /\ x >= TileWidth
<1>1. /\ TileWidth \in 1 .. 8 /\ Columns \in Nat \ {0, 1, 2} /\ Width \in Nat
      /\ Width = Columns * TileWidth /\ scene.fineX \in 0 .. TileWidth - 1
  BY RenderSizes, SceneHolds DEF RenderOK
<1>2. x \in Int
  BY <1>1 DEF Canvas
<1> DEFINE w == TileWidth
           total == x + scene.fineX
           r == total % w
<1>3. total \in Int /\ w \in Nat \ {0} /\ x = total - scene.fineX
  BY <1>1, <1>2
<1> HIDE DEF total
<1>4. g = total \div w /\ g \in Int /\ r \in 0 .. w - 1 /\ total = g * w + r
  <2>1. g = total \div w
    BY DEF total
  <2>2. /\ total = w * (total \div w) + (total % w)
        /\ total % w \in 0 .. w - 1 /\ total \div w \in Int
    BY <1>3
  <2>3. w * g = g * w
    BY <1>3, <2>1, <2>2
  <2> QED
    BY <2>1, <2>2, <2>3
<1> HIDE DEF r
<1> DEFINE gw == g * w
<1>5. gw \in Int /\ total = gw + r
  BY <1>3, <1>4
<1>6. ASSUME x \in Row PROVE g \in 0 .. Columns
  <2>1. total >= 0 /\ total < Width + w
    BY <1>1, <1>3, <1>6 DEF Row
  <2>2. g >= 0
    <3>1. g < 0 => g * w <= -w
      BY <1>1, <1>4
    <3> QED
      BY <2>1, <3>1, <1>3, <1>4
  <2>3. g <= Columns
    <3>1. g > Columns => g * w >= Columns * w + w
      BY <1>1, <1>4
    <3> QED
      BY <2>1, <3>1, <1>1, <1>3, <1>4
  <2> QED
    BY <2>2, <2>3, <1>1, <1>4
<1>7. ASSUME Unclipped(g) PROVE x \in Row /\ x >= w
  <2>1. g >= 2 /\ g <= Columns - 1
    BY <1>7, <1>1, <1>4 DEF Unclipped
  <2>2. gw >= 2 * w /\ gw + w <= Columns * w
    BY <2>1, <1>1, <1>4
  <2> HIDE DEF gw
  <2> QED
    BY <2>2, <1>1, <1>3, <1>4, <1>5 DEF Row
<1>8. (x + scene.fineX) % TileWidth = r /\ total = x + scene.fineX
  BY DEF total, r
<1>9. r = total - g * w
  BY <1>3, <1>4, <1>5
<1>10. total - g * w = x + scene.fineX - g * TileWidth
  <2>1. scene.fineX \in Int /\ total = x + scene.fineX /\ gw = g * TileWidth
    BY <1>1, <1>8
  <2> HIDE DEF gw
  <2> QED
    BY <1>2, <1>5, <2>1
<1>11. r = x + scene.fineX - g * TileWidth /\ r \in 0 .. TileWidth - 1
  BY <1>4, <1>9, <1>10
<1>12. x + scene.fineX \in Int /\ g \in Int
  BY <1>3, <1>4, <1>8
<1>13. Unclipped(g) => x \in Row /\ x >= TileWidth
  BY <1>7
<1> HIDE DEF w, gw
<1> QED
  BY <1>6, <1>8, <1>11, <1>12, <1>13

(* The background: by tiles what it is pixel by pixel, and no more.        *)
LEMMA BackgroundsAgree ==
  ASSUME RenderOK, NEW x \in Canvas
  PROVE  /\ PaintedBackground[x] = IF x \in Row THEN BackgroundPixel(x).color ELSE Universal
         /\ PaintedBackground[x] # Universal <=> x \in Row /\ BackgroundPixel(x).opaque
<1> DEFINE g == (x + scene.fineX) \div TileWidth
           column == scene.coarseX + g
           physical == NtPhys[scene.mirror][EffectiveTable(column) + 1]
           px == x + scene.fineX - g * TileWidth
           tile == BgTile(physical, column)
           bits == RowPixels(tile, scene.row)[px]
           color == BgColor(BgPalette(physical, column), bits)
           seen == "bg" \in scene.show /\ (x >= TileWidth \/ "bgLeft" \in scene.show) /\ bits # 0
           drawn == /\ "bg" \in scene.show /\ g \in 0 .. Columns
                    /\ Unclipped(g) \/ (x \in Row /\ (x >= TileWidth \/ "bgLeft" \in scene.show))
                    /\ bits # 0
<1>1. PaintedBackground[x] = IF drawn THEN color ELSE Universal
  BY DEF PaintedBackground
<1>2. /\ g \in Int /\ x \in Int
      /\ (scene.fineX + x) % TileWidth = px /\ scene.fineX + x = x + scene.fineX
      /\ px \in 0 .. TileWidth - 1
      /\ x \in Row => g \in 0 .. Columns
      /\ Unclipped(g) => x \in Row /\ x >= TileWidth
  <2>1. x \in Int /\ scene.fineX \in Int
    BY RenderSizes, SceneHolds DEF RenderOK, Canvas
  <2>2. scene.fineX + x = x + scene.fineX
    BY <2>1
  <2> QED
    BY <2>1, <2>2, GroupsOnScreen
<1>3. column \in Int /\ scene.coarseX \in Nat /\ scene.row \in 0 .. TileHeight - 1
  <2>1. scene.coarseX \in Nat /\ scene.row \in 0 .. TileHeight - 1
    BY SceneHolds DEF RenderOK
  <2> HIDE DEF g
  <2> QED
    BY <1>2, <2>1
<1> DEFINE direct == PlanePixel(tile, scene.row, px)
<1>4. physical = NametableIndex(EffectiveTable(column)) /\ physical \in 0 .. 1
  BY <1>3, TablesAgree
<1>5. tile \in Nat /\ (\A b \in 0 .. 3 : b # 0 => BgColor(BgPalette(physical, column), b) # Universal)
  <2> HIDE DEF column, physical
  <2> QED
    BY <1>3, <1>4, TilesInRange
<1>6. bits = direct /\ bits \in 0 .. 3
  <2> HIDE DEF tile, px
  <2> QED
    BY <1>2, <1>3, <1>5, PixelsAgree
<1>7. BackgroundPixel(x) = IF seen THEN [opaque |-> TRUE, color |-> color] ELSE Clear
  <2>1. BackgroundPixel(x) =
          IF "bg" \in scene.show /\ (x >= TileWidth \/ "bgLeft" \in scene.show) /\ direct # 0
          THEN [opaque |-> TRUE, color |-> BgColor(BgPalette(physical, column), direct)] ELSE Clear
    BY <1>2, <1>4 DEF BackgroundPixel
  <2> QED
    BY <1>6, <2>1
<1>8. seen => color # Universal
  BY <1>5, <1>6
<1>9. drawn <=> x \in Row /\ seen
  <2> HIDE DEF g, bits
  <2> QED
    BY <1>2
<1> HIDE DEF drawn, seen, color
<1> QED
  BY <1>1, <1>7, <1>8, <1>9 DEF Clear

-----------------------------------------------------------------------------
(* The sprites of a line over its background.                              *)

(* Sprite i of the table has a colour at x of line y.                      *)
Covers(i, x, y) == x \in Row /\ OpaqueAt(oam[i], x, y) /\ SpriteBits(oam[i], x, y) # 0

Under(s, x, y) == {i \in s : Covers(i, x, y)}
InFront(i, x) == ~oam[i].behind \/ ~(PaintedBackground[x] # Universal)
Shade(i, x, y) ==
  IF InFront(i, x) THEN SpriteColor(oam[i], SpriteBits(oam[i], x, y)) ELSE PaintedBackground[x]

\* The line when the sprites s were painted
Layered(s, y) ==
  [dst |-> [x \in Canvas |-> IF Under(s, x, y) = {} THEN PaintedBackground[x]
                             ELSE Shade(Min(Under(s, x, y)), x, y)],
   claimed |-> {x \in Row : Under(s, x, y) # {}},
   hit |-> 1 \in s /\ \E x \in Row : Covers(1, x, y) /\ PaintedBackground[x] # Universal /\ x < Width - 1,
   opaque |-> {x \in Canvas : PaintedBackground[x] # Universal}]

LEMMA LeastOf ==
  ASSUME NEW s \in SUBSET Nat, NEW m \in s, \A i \in s : m <= i
  PROVE  Min(s) = m
<1>1. Min(s) \in s /\ \A i \in s : Min(s) <= i
  BY DEF Min
<1> HIDE DEF Min
<1> DEFINE n == Min(s)
<1>2. n \in Nat /\ n <= m /\ m <= n /\ m \in Nat
  BY <1>1
<1> HIDE DEF n
<1>3. n = m
  BY <1>2
<1> QED
  BY <1>3 DEF n

(* What one sprite claims is what it covers and no one before it did.      *)
LEMMA SpriteReach ==
  ASSUME NEW i, NEW y, NEW x, oam[i].x \in Nat
  PROVE  LET o == oam[i]
             left == IF "spritesLeft" \notin scene.show /\ o.x < TileWidth THEN TileWidth ELSE o.x
             right == IF o.x + TileWidth > Width THEN Width ELSE o.x + TileWidth
         IN  x \in left .. right - 1 <=> x \in Row /\ OpaqueAt(o, x, y)
<1> DEFINE at == oam[i].x
           left == IF "spritesLeft" \notin scene.show /\ at < TileWidth THEN TileWidth ELSE at
           right == IF at + TileWidth > Width THEN Width ELSE at + TileWidth
<1>1. TileWidth \in 1 .. 8 /\ Width \in Nat
  BY RenderSizes
<1>2. OpaqueAt(oam[i], x, y) <=> x \in at .. at + TileWidth - 1 /\ (x < TileWidth => "spritesLeft" \in scene.show)
  BY DEF OpaqueAt
<1>3. at \in Nat
  OBVIOUS
<1> HIDE DEF at
<1>4. x \in left .. right - 1 <=> x \in Row /\ x \in at .. at + TileWidth - 1 /\ (x < TileWidth => "spritesLeft" \in scene.show)
  BY <1>1, <1>3 DEF Row
<1> QED
  BY <1>2, <1>4 DEF at

(* Painting a sprite over those before it.                                 *)
LEMMA OneMoreSprite ==
  ASSUME RenderOK, NEW y \in Int,
         NEW s \in SUBSET (Nat \ {0}), NEW m \in s, \A i \in s : i <= m, oam[m].x \in Nat
  PROVE  PaintSprite(Layered(s \ {m}, y), m, y) = Layered(s, y)
<1> DEFINE t == s \ {m}
           l == Layered(t, y)
           o == oam[m]
           left == IF "spritesLeft" \notin scene.show /\ o.x < TileWidth THEN TileWidth ELSE o.x
           right == IF o.x + TileWidth > Width THEN Width ELSE o.x + TileWidth
           claimed == {x \in left .. right - 1 : SpriteBits(o, x, y) # 0 /\ x \notin l.claimed}
           front == {x \in claimed : ~o.behind \/ x \notin l.opaque}
           dst == [x \in Canvas |-> IF x \in front THEN SpriteColor(o, SpriteBits(o, x, y)) ELSE l.dst[x]]
           hit == l.hit \/ (m = 1 /\ \E x \in claimed \cap l.opaque : x < Width - 1)
<1>1. PaintSprite(l, m, y) = [l EXCEPT !.claimed = l.claimed \cup claimed, !.hit = hit, !.dst = dst]
  BY DEF PaintSprite, SpriteBits
<1>2. /\ l.claimed = {x \in Row : Under(t, x, y) # {}}
      /\ l.opaque = {x \in Canvas : PaintedBackground[x] # Universal}
      /\ l.hit = (1 \in t /\ \E x \in Row : Covers(1, x, y) /\ PaintedBackground[x] # Universal /\ x < Width - 1)
      /\ l.dst = [x \in Canvas |-> IF Under(t, x, y) = {} THEN PaintedBackground[x]
                                   ELSE Shade(Min(Under(t, x, y)), x, y)]
  BY DEF Layered
<1>3. Row \subseteq Canvas /\ Row \subseteq Int
  BY RenderSizes DEF Row, Canvas
<1>4. \A x : x \in left .. right - 1 <=> x \in Row /\ OpaqueAt(o, x, y)
  BY SpriteReach
<1>5. \A x : x \in claimed <=> Covers(m, x, y) /\ Under(t, x, y) = {}
  <2> HIDE DEF l, left, right, t
  <2> QED
    BY <1>2, <1>4 DEF Covers
<1>6. \A x : Under(s, x, y) = Under(t, x, y) \cup (IF Covers(m, x, y) THEN {m} ELSE {})
  BY DEF Under
<1>7. l.claimed \cup claimed = {x \in Row : Under(s, x, y) # {}}
  <2>1. \A x : Covers(m, x, y) => x \in Row
    BY DEF Covers
  <2>2. \A x : Under(s, x, y) # {} <=> Under(t, x, y) # {} \/ Covers(m, x, y)
    BY <1>6
  <2> HIDE DEF claimed, l, t
  <2> QED
    BY <1>2, <1>5, <2>1, <2>2
<1>8. \A x \in Canvas : x \in front <=> x \in claimed /\ InFront(m, x)
  <2> HIDE DEF claimed, l, t
  <2> QED
    BY <1>2 DEF InFront
<1>9. ASSUME NEW x \in Canvas
      PROVE  dst[x] = IF Under(s, x, y) = {} THEN PaintedBackground[x]
                      ELSE Shade(Min(Under(s, x, y)), x, y)
  <2>1. dst[x] = IF x \in front THEN SpriteColor(o, SpriteBits(o, x, y))
                 ELSE IF Under(t, x, y) = {} THEN PaintedBackground[x]
                      ELSE Shade(Min(Under(t, x, y)), x, y)
    <3> HIDE DEF front, l, t
    <3> QED
      BY <1>2
  <2> HIDE DEF dst, front, claimed, l
  <2>2. CASE Under(t, x, y) # {}
    <3>1. Min(Under(s, x, y)) = Min(Under(t, x, y))
      <4>1. Under(t, x, y) \in SUBSET Nat /\ \A i \in Under(t, x, y) : i <= m
        BY DEF Under
      <4>2. \E i \in Under(t, x, y) : \A j \in Under(t, x, y) : i <= j
        BY <2>2, <4>1, LeastNatural
      <4>3. PICK i \in Under(t, x, y) : \A j \in Under(t, x, y) : i <= j
        BY <4>2
      <4>4. Under(s, x, y) \in SUBSET Nat /\ i \in Under(s, x, y) /\ \A j \in Under(s, x, y) : i <= j
        BY <1>6, <4>1, <4>3
      <4> QED
        BY <4>1, <4>3, <4>4, LeastOf
    <3>2. x \notin front /\ Under(s, x, y) # {}
      BY <1>5, <1>6, <1>8, <2>2
    <3> QED
      BY <2>1, <2>2, <3>1, <3>2
  <2>3. CASE Under(t, x, y) = {} /\ Covers(m, x, y)
    <3>1. Under(s, x, y) = {m}
      BY <1>6, <2>3
    <3>2. Min({m}) = m
      <4>1. {m} \in SUBSET Nat /\ m \in {m} /\ \A i \in {m} : m <= i
        OBVIOUS
      <4> QED
        BY <4>1, LeastOf
    <3>3. x \in front <=> InFront(m, x)
      BY <1>5, <1>8, <2>3
    <3> QED
      BY <2>1, <2>3, <3>1, <3>2, <3>3 DEF Shade
  <2>4. CASE Under(t, x, y) = {} /\ ~Covers(m, x, y)
    <3>1. Under(s, x, y) = {} /\ x \notin front
      BY <1>5, <1>6, <1>8, <2>4
    <3> QED
      BY <2>1, <2>4, <3>1
  <2> QED
    BY <2>2, <2>3, <2>4
<1>10. hit = (1 \in s /\ \E x \in Row : Covers(1, x, y) /\ PaintedBackground[x] # Universal /\ x < Width - 1)
  <2>1. CASE m = 1
    <3>1. t = {} /\ 1 \in s
      BY <2>1
    <3>2. \A x : Under(t, x, y) = {}
      BY <3>1 DEF Under
    <3>3. \A x : x \in claimed \cap l.opaque <=> Covers(1, x, y) /\ x \in Canvas /\ PaintedBackground[x] # Universal
      <4> HIDE DEF claimed, l
      <4> QED
        BY <1>2, <1>5, <2>1, <3>2
    <3>4. ~(l.hit)
      <4> HIDE DEF l
      <4> QED
        BY <1>2, <3>1
    <3>5. \A x : Covers(1, x, y) => x \in Row /\ x \in Canvas
      BY <1>3 DEF Covers
    <3> HIDE DEF claimed, l, t
    <3> QED
      BY <2>1, <3>1, <3>3, <3>4, <3>5
  <2>2. CASE m # 1
    <3>1. 1 \in t <=> 1 \in s
      BY <2>2
    <3> HIDE DEF claimed, l, t
    <3> QED
      BY <1>2, <2>2, <3>1
  <2> QED
    BY <2>1, <2>2
<1>11. dst = [x \in Canvas |-> IF Under(s, x, y) = {} THEN PaintedBackground[x]
                               ELSE Shade(Min(Under(s, x, y)), x, y)]
  <2> HIDE DEF front, l
  <2> QED
    BY <1>9
<1> HIDE DEF dst, hit, claimed, front
<1> DEFINE after == PaintSprite(l, m, y)
<1>12. after = [dst |-> dst, claimed |-> l.claimed \cup claimed, hit |-> hit, opaque |-> l.opaque]
  <2>1. l = [dst |-> l.dst, claimed |-> l.claimed, hit |-> l.hit, opaque |-> l.opaque]
    BY DEF Layered
  <2>2. after = [l EXCEPT !.claimed = l.claimed \cup claimed, !.hit = hit, !.dst = dst]
    BY <1>1
  <2> HIDE DEF l, after
  <2> QED
    BY <2>1, <2>2
<1> HIDE DEF l
<1> QED
  BY <1>2, <1>7, <1>10, <1>11, <1>12 DEF Layered, l, t

LEMMA CollectedSprites ==
  ASSUME RenderOK, NEW y \in Int
  PROVE  /\ Collected(y) \in SUBSET (1 .. Len(oam)) /\ Len(oam) \in Nat
         /\ \A i \in Collected(y) : oam[i].x \in Nat
<1>1. oam \in Seq(OamSprite)
  BY DEF RenderOK
<1>2. DOMAIN oam = 1 .. Len(oam) /\ Len(oam) \in Nat /\ \A i \in 1 .. Len(oam) : oam[i] \in OamSprite
  BY <1>1
<1>3. Collected(y) \in SUBSET (1 .. Len(oam))
  BY <1>2 DEF Collected
<1>4. \A o \in OamSprite : o.x \in Nat
  BY DEF OamSprite
<1> QED
  BY <1>2, <1>3, <1>4

(* The sprites painted one by one, by their number.                        *)
LEMMA PaintedIsLayered ==
  ASSUME RenderOK, NEW y \in Int
  PROVE  Painted(y) = Layered(Collected(y), y)
<1> DEFINE C == Collected(y)
           none == [dst |-> PaintedBackground, claimed |-> {}, hit |-> FALSE,
                    opaque |-> {x \in Canvas : PaintedBackground[x] # Universal}]
           Iterates(f) ==
             f = [s \in SUBSET C |-> IF s = {} THEN none ELSE PaintSprite(f[s \ {Max(s)}], Max(s), y)]
           it == CHOOSE f : Iterates(f)
<1>1. Painted(y) = it[C]
  BY DEF Painted, MapThenFoldSet
<1>2. C \in SUBSET (1 .. Len(oam)) /\ Len(oam) \in Nat /\ \A i \in C : oam[i].x \in Nat
  BY CollectedSprites
<1>3. none = Layered({}, y)
  <2>1. \A x : Under({}, x, y) = {}
    BY DEF Under
  <2>2. PaintedBackground = [x \in Canvas |-> PaintedBackground[x]]
    BY DEF PaintedBackground
  <2> DEFINE bg == PaintedBackground
             dst == [x \in Canvas |-> IF Under({}, x, y) = {} THEN bg[x]
                                      ELSE Shade(Min(Under({}, x, y)), x, y)]
             hit == 1 \in {} /\ \E x \in Row : Covers(1, x, y) /\ PaintedBackground[x] # Universal /\ x < Width - 1
  <2> HIDE DEF bg
  <2>3. dst = bg
    <3>1. dst = [x \in Canvas |-> bg[x]]
      BY <2>1
    <3> QED
      BY <2>2, <3>1 DEF bg
  <2>4. {x \in Row : Under({}, x, y) # {}} = {}
    BY <2>1
  <2>5. hit = FALSE
    OBVIOUS
  <2> HIDE DEF dst, hit
  <2>6. Layered({}, y) = [dst |-> dst, claimed |-> {x \in Row : Under({}, x, y) # {}}, hit |-> hit,
                          opaque |-> {x \in Canvas : PaintedBackground[x] # Universal}]
    BY DEF Layered, dst, bg, hit
  <2> QED
    BY <2>3, <2>4, <2>5, <2>6 DEF bg
<1> HIDE DEF C, none
<1>4. ASSUME NEW m \in Nat, NEW s \in SUBSET C, s \in SUBSET (1 .. m), m \in s
      PROVE  /\ Max(s) = m /\ s \ {m} \in SUBSET C /\ s \ {m} \in SUBSET (1 .. m - 1)
             /\ PaintSprite(Layered(s \ {m}, y), m, y) = Layered(s, y)
  <2>1. Max(s) = m /\ s \ {m} \in SUBSET (1 .. m - 1)
    BY <1>4, LastTaken
  <2>2. s \in SUBSET (Nat \ {0}) /\ (\A i \in s : i <= m) /\ oam[m].x \in Nat
    BY <1>2, <1>4
  <2>3. PaintSprite(Layered(s \ {m}, y), m, y) = Layered(s, y)
    BY <1>4, <2>2, OneMoreSprite
  <2> QED
    BY <1>4, <2>1, <2>3
<1>5. \E f : Iterates(f)
  <2> DEFINE h == [s \in SUBSET C |-> Layered(s, y)]
  <2>1. ASSUME NEW s \in SUBSET C, s # {}
        PROVE  h[s] = PaintSprite(h[s \ {Max(s)}], Max(s), y)
    <3>1. s \in SUBSET (1 .. Len(oam)) /\ Len(oam) \in Nat
      BY <1>2
    <3>2. Max(s) \in s /\ \A i \in s : Max(s) >= i
      BY <2>1, <3>1, GreatestTaken
    <3> DEFINE m == Max(s)
    <3>a. m \in s /\ \A i \in s : m >= i
      BY <3>2
    <3> HIDE DEF m
    <3>3. m \in Nat /\ s \in SUBSET (1 .. m) /\ m \in s
      BY <3>1, <3>a
    <3>4. s \ {m} \in SUBSET C /\ PaintSprite(Layered(s \ {m}, y), m, y) = Layered(s, y)
      BY <1>4, <3>3
    <3> QED
      BY <3>4 DEF m
  <2>2. h[{}] = none
    BY <1>3
  <2>3. \A s \in SUBSET C : h[s] = IF s = {} THEN none ELSE PaintSprite(h[s \ {Max(s)}], Max(s), y)
    BY <2>1, <2>2
  <2>4. h = [s \in SUBSET C |-> IF s = {} THEN none ELSE PaintSprite(h[s \ {Max(s)}], Max(s), y)]
    <3>1. h = [s \in SUBSET C |-> h[s]]
      OBVIOUS
    <3> HIDE DEF h
    <3> QED
      BY <2>3, <3>1
  <2> HIDE DEF h
  <2> QED
    BY <2>4
<1>6. Iterates(it)
  BY <1>5
<1> HIDE DEF it
<1>7. ASSUME NEW s \in SUBSET C
      PROVE  it[s] = IF s = {} THEN none ELSE PaintSprite(it[s \ {Max(s)}], Max(s), y)
  BY <1>6
<1> HIDE DEF Iterates
<1> DEFINE Bad == {m \in Nat : \E s \in SUBSET C : s \in SUBSET (1 .. m) /\ it[s] # Layered(s, y)}
<1>8. Bad = {}
  <2> SUFFICES ASSUME Bad # {} PROVE FALSE
    OBVIOUS
  <2>1. Bad \in SUBSET Nat
    OBVIOUS
  <2> HIDE DEF Bad
  <2>2. PICK m \in Bad : \A k \in Bad : m <= k
    BY <2>1, LeastNatural
  <2>3. PICK s \in SUBSET C : s \in SUBSET (1 .. m) /\ it[s] # Layered(s, y)
    BY <2>2 DEF Bad
  <2>4. m \in Nat
    BY <2>1
  <2>5. s # {}
    BY <1>3, <1>7, <2>3
  <2>6. m # 0 /\ m - 1 \in Nat
    BY <2>3, <2>4, <2>5
  <2>7. m - 1 \notin Bad
    BY <2>2, <2>4
  <2>8. \A t \in SUBSET C : t \in SUBSET (1 .. m - 1) => it[t] = Layered(t, y)
    BY <2>6, <2>7 DEF Bad
  <2>9. m \in s
    BY <2>3, <2>4, <2>8, LastTaken
  <2>10. /\ Max(s) = m /\ s \ {m} \in SUBSET C /\ s \ {m} \in SUBSET (1 .. m - 1)
         /\ PaintSprite(Layered(s \ {m}, y), m, y) = Layered(s, y)
    BY <1>4, <2>3, <2>4, <2>9
  <2>11. it[s] = PaintSprite(it[s \ {m}], m, y)
    BY <1>7, <2>5, <2>10
  <2>12. it[s \ {m}] = Layered(s \ {m}, y)
    BY <2>8, <2>10
  <2> QED
    BY <2>3, <2>10, <2>11, <2>12
<1>9. Len(oam) \notin Bad
  BY <1>8
<1>10. it[C] = Layered(C, y)
  BY <1>2, <1>9
<1> QED
  BY <1>1, <1>10 DEF C

-----------------------------------------------------------------------------
(* The line pixel by pixel.                                                *)

LEMMA CoveredPixels ==
  ASSUME RenderOK, NEW y \in Int, NEW x \in Row
  PROVE  Under(Collected(y), x, y) = SpritesAt(x, y)
  BY DEF Under, Covers, SpritesAt

LEMMA PixelsOfTheLine ==
  ASSUME RenderOK, NEW y \in Int, NEW x \in Canvas
  PROVE  Painted(y).dst[x] = IF x \in Row THEN Pixel(x, y) ELSE Universal
<1> DEFINE C == Collected(y)
           u == Under(C, x, y)
           i == Min(u)
<1>1. Painted(y).dst[x] = IF u = {} THEN PaintedBackground[x] ELSE Shade(i, x, y)
  BY PaintedIsLayered DEF Layered
<1>2. CASE x \notin Row
  <2>1. u = {}
    BY <1>2 DEF Under, Covers
  <2>2. PaintedBackground[x] = Universal
    BY <1>2, BackgroundsAgree
  <2> QED
    BY <1>1, <1>2, <2>1, <2>2
<1>3. CASE x \in Row
  <2>1. u = SpritesAt(x, y)
    BY <1>3, CoveredPixels
  <2>2. /\ PaintedBackground[x] = BackgroundPixel(x).color
        /\ PaintedBackground[x] # Universal <=> BackgroundPixel(x).opaque
    BY <1>3, BackgroundsAgree
  <2>3. Pixel(x, y) = IF SpritesAt(x, y) # {} /\ (~oam[Min(SpritesAt(x, y))].behind \/ ~BackgroundPixel(x).opaque)
                      THEN SpriteColor(oam[Min(SpritesAt(x, y))], SpriteBits(oam[Min(SpritesAt(x, y))], x, y))
                      ELSE BackgroundPixel(x).color
    BY DEF Pixel
  <2>4. Shade(i, x, y) = IF ~oam[i].behind \/ ~(PaintedBackground[x] # Universal)
                         THEN SpriteColor(oam[i], SpriteBits(oam[i], x, y)) ELSE PaintedBackground[x]
    BY DEF Shade, InFront
  <2> HIDE DEF u
  <2> QED
    BY <1>1, <1>3, <2>1, <2>2, <2>3, <2>4
<1> QED
  BY <1>2, <1>3

LEMMA HitOfTheLine ==
  ASSUME RenderOK, NEW y \in Int
  PROVE  Painted(y).hit = Hit(y)
<1> DEFINE C == Collected(y)
<1>1. Painted(y).hit = (1 \in C /\ \E x \in Row : Covers(1, x, y) /\ PaintedBackground[x] # Universal /\ x < Width - 1)
  BY PaintedIsLayered DEF Layered
<1>2. Width \in Nat \ {0} /\ Row = 0 .. Width - 1 /\ 0 .. Width - 2 = {x \in Row : x < Width - 1}
  BY RenderSizes DEF Row
<1>3. Row \subseteq Canvas
  BY RenderSizes DEF Row, Canvas
<1>4. C \in SUBSET (Nat \ {0})
  BY CollectedSprites
<1>5. ASSUME NEW x \in Row
      PROVE  /\ PaintedBackground[x] # Universal <=> BackgroundPixel(x).opaque
             /\ SpritesAt(x, y) # {} /\ Min(SpritesAt(x, y)) = 1 <=> 1 \in C /\ Covers(1, x, y)
  <2> DEFINE s == SpritesAt(x, y)
  <2>1. PaintedBackground[x] # Universal <=> BackgroundPixel(x).opaque
    BY <1>3, BackgroundsAgree
  <2>2. s = Under(C, x, y)
    BY CoveredPixels
  <2>3. 1 \in s <=> 1 \in C /\ Covers(1, x, y)
    BY <2>2 DEF Under
  <2>4. s \in SUBSET (Nat \ {0})
    BY <1>4, <2>2 DEF Under
  <2> HIDE DEF s
  <2>5. 1 \in s => Min(s) = 1
    <3>1. s \in SUBSET Nat /\ \A i \in s : 1 <= i
      BY <2>4
    <3> QED
      BY <3>1, LeastOf
  <2>6. s # {} => Min(s) \in s
    <3>1. s # {} => \E i \in s : \A j \in s : i <= j
      BY <2>4, LeastNatural
    <3> QED
      BY <3>1 DEF Min
  <2>7. s # {} /\ Min(s) = 1 <=> 1 \in s
    BY <2>5, <2>6
  <2> QED
    BY <2>1, <2>3, <2>7 DEF s
<1> HIDE DEF C
<1>6. Hit(y) <=> \E x \in 0 .. Width - 2 :
                   BackgroundPixel(x).opaque /\ SpritesAt(x, y) # {} /\ Min(SpritesAt(x, y)) = 1
  BY DEF Hit
<1>7. Hit(y) <=> 1 \in C /\ \E x \in Row : Covers(1, x, y) /\ PaintedBackground[x] # Universal /\ x < Width - 1
  BY <1>2, <1>5, <1>6
<1>8. Hit(y) \in BOOLEAN
  BY DEF Hit
<1> QED
  BY <1>1, <1>7, <1>8

-----------------------------------------------------------------------------
(* The steps.                                                              *)

LEMMA RenderInitOK == RenderInit => RenderOK
<1> SUFFICES ASSUME RenderInit PROVE RenderOK
  OBVIOUS
<1>1. IsScene(scene) /\ oam \in Seq(OamSprite) /\ IsCartridge(chr)
  BY PictureAssumption DEF RenderInit, IsScene
<1>2. line.y \in -1 .. Height - 1
  BY RenderSizes DEF RenderInit
<1> QED
  BY <1>1, <1>2 DEF RenderInit, RenderOK

LEMMA ChangedScene ==
  ASSUME RenderOK, NEW c, InRange(c),
         NEW s, s = [r \in Registers |-> IF r \in DOMAIN c THEN c[r] ELSE scene[r]]
  PROVE  IsScene(s)
  BY DEF RenderOK, IsScene, InRange

(* The cache follows a write to the pattern memory.                        *)
LEMMA PatternsFollow ==
  ASSUME RenderOK, NEW p \in Patterns, PatternWrite(p)
  PROVE  IsCartridge(chr)' /\ (rows' = NoCache \/ rows' = DecodedAll(chr)')
<1> DEFINE n == Cardinality(DOMAIN chr)
           t == Mapped(p.tile)
           r == p.row
           Plane == [low : Nat, high : Nat]
           old == chr[t][r]
           new == [old EXCEPT ![p.plane] = p.byte]
<1>1. n \in Nat \ {0} /\ DOMAIN chr = 0 .. n - 1
  BY CartridgeSize DEF RenderOK
<1>2. chr \in [0 .. n - 1 -> [0 .. TileHeight - 1 -> Plane]]
  BY DEF RenderOK, IsCartridge
<1>3. p.tile \in Nat /\ r \in 0 .. TileHeight - 1 /\ p.plane \in {"low", "high"} /\ p.byte \in Nat
  BY PictureAssumption
<1>4. t \in DOMAIN chr /\ r \in DOMAIN chr[t] /\ old \in Plane
  <2>1. p.tile \in Int
    BY <1>3
  <2> QED
    BY <2>1, <1>3, RowsAreDecoded
<1>5. new \in Plane
  <2> HIDE DEF old
  <2> QED
    BY <1>3, <1>4
<1>6. /\ chr' = [chr EXCEPT ![t][r][p.plane] = p.byte]
      /\ rows' = IF rows = NoCache THEN rows ELSE [rows EXCEPT ![t][r] = Decoded(new)]
  BY DEF PatternWrite, RowsWritten
<1> HIDE DEF t, n
<1>7. chr' = [chr EXCEPT ![t] = [chr[t] EXCEPT ![r] = new]]
  BY <1>6
<1> HIDE DEF old, new, r, Plane
<1>8. chr' \in [0 .. n - 1 -> [0 .. TileHeight - 1 -> Plane]]
  BY <1>1, <1>2, <1>3, <1>4, <1>5, <1>7
<1>9. DOMAIN chr' = DOMAIN chr
  BY <1>7
<1>10. IsCartridge(chr)'
  BY <1>1, <1>8, <1>9 DEF IsCartridge, n, Plane
<1>11. CASE rows = NoCache
  BY <1>6, <1>10, <1>11
<1>12. CASE rows # NoCache
  <2>1. rows = DecodedAll(chr)
    BY <1>12 DEF RenderOK
  <2>2. rows = [u \in DOMAIN chr |-> [q \in DOMAIN chr[u] |-> Decoded(chr[u][q])]]
    BY <2>1 DEF DecodedAll
  <2>3. rows' = [rows EXCEPT ![t] = [rows[t] EXCEPT ![r] = Decoded(new)]]
    BY <1>6, <1>12 DEF r
  <2>4. DecodedAll(chr') = [u \in DOMAIN chr |-> [q \in DOMAIN chr'[u] |-> Decoded(chr'[u][q])]]
    BY <1>9 DEF DecodedAll
  <2>5. ASSUME NEW u \in DOMAIN chr
        PROVE  rows'[u] = [q \in DOMAIN chr'[u] |-> Decoded(chr'[u][q])]
    <3>1. CASE u = t
      <4>1. rows'[u] = [rows[t] EXCEPT ![r] = Decoded(new)] /\ chr'[u] = [chr[t] EXCEPT ![r] = new]
        BY <1>4, <1>7, <2>2, <2>3, <3>1
      <4>2. rows[t] = [q \in DOMAIN chr[t] |-> Decoded(chr[t][q])]
        BY <1>4, <2>2
      <4>3. rows'[u] = [q \in DOMAIN chr[t] |-> IF q = r THEN Decoded(new) ELSE Decoded(chr[t][q])]
        BY <4>1, <4>2
      <4>4. /\ DOMAIN chr'[u] = DOMAIN chr[t]
            /\ \A q \in DOMAIN chr[t] : chr'[u][q] = IF q = r THEN new ELSE chr[t][q]
        BY <4>1
      <4>5. \A q \in DOMAIN chr[t] : Decoded(chr'[u][q]) = IF q = r THEN Decoded(new) ELSE Decoded(chr[t][q])
        BY <4>4
      <4> QED
        BY <4>3, <4>4, <4>5
    <3>2. CASE u # t
      <4>1. rows'[u] = rows[u] /\ chr'[u] = chr[u]
        BY <1>7, <2>2, <2>3, <3>2
      <4> QED
        BY <2>2, <4>1
    <3> QED
      BY <3>1, <3>2
  <2>6. rows' = [u \in DOMAIN chr |-> rows'[u]]
    BY <2>2, <2>3
  <2>7. rows' = DecodedAll(chr')
    BY <2>4, <2>5, <2>6
  <2> QED
    BY <1>10, <2>7
<1> QED
  BY <1>11, <1>12

LEMMA RenderStepOK == RenderOK /\ [RenderNext]_renderVars => RenderOK'
<1> SUFFICES ASSUME RenderOK, [RenderNext]_renderVars PROVE RenderOK'
  OBVIOUS
<1>1. CASE UNCHANGED renderVars
  BY <1>1 DEF RenderOK, renderVars
<1>2. CASE \E c \in Changes : Change(c)
  <2>1. PICK c \in Changes : Change(c)
    BY <1>2
  <2>2. IsScene(scene')
    BY <2>1, ChangedScene, PictureAssumption DEF Change
  <2> QED
    BY <2>1, <2>2 DEF Change, RenderOK
<1>3. CASE \E o \in Oams : OamDma(o)
  BY <1>3, PictureAssumption DEF OamDma, RenderOK
<1>4. CASE \E p \in Patterns : PatternWrite(p)
  <2>1. PICK p \in Patterns : PatternWrite(p)
    BY <1>4
  <2>2. IsCartridge(chr)' /\ (rows' = NoCache \/ rows' = DecodedAll(chr)')
    BY <2>1, PatternsFollow
  <2> QED
    BY <2>1, <2>2 DEF PatternWrite, RenderOK
<1>5. CASE \E data \in Cartridges : Restore(data)
  <2>1. PICK data \in Cartridges : Restore(data)
    BY <1>5
  <2>2. IsScene(scene') /\ oam' \in Seq(OamSprite) /\ IsCartridge(chr')
    BY <2>1, PictureAssumption DEF Restore, IsScene
  <2>3. rows' = NoCache \/ rows' = DecodedAll(chr')
    BY <2>1 DEF Restore
  <2> QED
    BY <2>1, <2>2, <2>3 DEF Restore, RenderOK
<1>6. CASE RenderLine
  <2>1. line.y \in -1 .. Height - 1 /\ line.y < Height - 1 /\ line'.y = line.y + 1
    BY <1>6 DEF RenderLine, RenderOK
  <2>2. line'.y \in -1 .. Height - 1
    BY <2>1, RenderSizes
  <2> QED
    BY <1>6, <2>2 DEF RenderLine, RenderOK
<1>7. CASE PreRender
  <2>1. line.y = Height - 1 /\ line' = [line EXCEPT !.y = -1, !.hit = FALSE]
    BY <1>7 DEF PreRender
  <2>2. line'.y = -1 \/ line'.y = line.y
    BY <2>1
  <2>3. line'.y \in -1 .. Height - 1
    BY <2>2, RenderSizes DEF RenderOK
  <2> QED
    BY <1>7, <2>3 DEF PreRender, RenderOK
<1> QED
  BY <1>1, <1>2, <1>3, <1>4, <1>5, <1>6, <1>7 DEF RenderNext

(* A line comes only from RenderLine, and it is the one of Pixel and Hit.  *)
LEMMA DrawnStep ==
  ASSUME RenderOK, [RenderNext]_renderVars, line'.y > line.y
  PROVE  /\ \A x \in Canvas : line'.dst[x] = IF x \in Row THEN Pixel(x, line'.y) ELSE Universal
         /\ line'.hit = (line.hit \/ Hit(line'.y))
<1>1. line.y \in Int
  BY RenderSizes DEF RenderOK
<1>2. line' # line
  <2> SUFFICES ASSUME line' = line PROVE FALSE
    OBVIOUS
  <2>1. line.y > line.y
    OBVIOUS
  <2> QED
    BY <1>1, <2>1
<1>3. ~PreRender
  <2> SUFFICES ASSUME PreRender PROVE FALSE
    OBVIOUS
  <2>1. line.y = Height - 1 /\ line' = [line EXCEPT !.y = -1, !.hit = FALSE]
    BY DEF PreRender
  <2>2. line'.y = -1 \/ line'.y = line.y
    BY <2>1
  <2> QED
    BY <1>1, <2>1, <2>2, RenderSizes
<1>4. RenderLine
  BY <1>2, <1>3 DEF RenderNext, renderVars, Change, OamDma, PatternWrite, Restore
<1> DEFINE y == line.y + 1
           l == Painted(y)
<1>5. line' = [y |-> y, dst |-> l.dst, hit |-> line.hit \/ l.hit]
  BY <1>4 DEF RenderLine
<1>6. y \in Int
  BY <1>1
<1> HIDE DEF y
<1>7. l.hit = Hit(y) /\ \A x \in Canvas : l.dst[x] = IF x \in Row THEN Pixel(x, y) ELSE Universal
  BY <1>6, HitOfTheLine, PixelsOfTheLine
<1> HIDE DEF l
<1>8. line'.y = y /\ line'.dst = l.dst /\ line'.hit = (line.hit \/ l.hit)
  BY <1>5
<1> QED
  BY <1>7, <1>8

(* The lines drawn by tiles, over the decoded rows, are those drawn pixel  *)
(* by pixel from the pattern memory, and nothing is drawn outside the row: *)
(* for every cartridge of a mapper other than 9, scene, table of sprites,  *)
(* and order of register writes, pattern writes, restored states and lines *)
(* (SameLine).                                                             *)
THEOREM RenderersAgree == RenderSpec => SameLine
<1>1. RenderInit => RenderOK
  BY RenderInitOK
<1>2. RenderOK /\ [RenderNext]_renderVars => RenderOK'
  BY RenderStepOK
<1>3. RenderOK /\ [RenderNext]_renderVars =>
        [line'.y > line.y =>
           /\ \A x \in Canvas : line'.dst[x] = IF x \in Row THEN Pixel(x, line'.y) ELSE Universal
           /\ line'.hit = (line.hit \/ Hit(line'.y))]_renderVars
  BY DrawnStep
<1> QED
  BY <1>1, <1>2, <1>3, PTL DEF RenderSpec, SameLine

-----------------------------------------------------------------------------
(* ROMs in the flash.                                                      *)

FlashSpec == FlashInit /\ [][FlashNext]_flashVars

\* The provers do not know "?" for a string.
RomImages == [name : STRING \cup {"?"}, size : Nat, offset : Nat]
NoPlan == [cursor |-> DirSize, entries |-> <<>>, full |-> FALSE]

LEMMA RegionSizes ==
  /\ PageSize \in Nat \ {0} /\ SectorSize \in Nat \ {0} /\ BlockSize \in Nat \ {0}
  /\ RegionSize \in Nat \ {0} /\ MaxRoms \in Nat
  /\ DirSize \in Nat \ {0} /\ MaxRoms < DirSize /\ DirSize <= RegionSize /\ SectorSize <= DirSize
  /\ AllOnes \in Nat
<1>1. /\ PageSize \in Nat \ {0} /\ SectorSize \in Nat \ {0} /\ BlockSize \in Nat \ {0}
      /\ RegionSize \in Nat \ {0} /\ MaxRoms \in Nat /\ MaxRoms < DirSize
      /\ DirSize <= BlockSize /\ RegionSize % BlockSize = 0 /\ AllOnes \in Nat
      /\ DirSize = 2 * SectorSize
  BY FlashAssumption DEF DirSize
<1>2. ASSUME NEW a \in Nat \ {0}, NEW b \in Nat \ {0}, a % b = 0
      PROVE  b <= a
  <2>1. a < b => a = 0 * b + a /\ a \in 0 .. b - 1
    OBVIOUS
  <2>2. a < b => a % b = a
    BY <2>1, ModUnique
  <2> QED
    BY <1>2, <2>2
<1>3. BlockSize <= RegionSize
  BY <1>1, <1>2
<1> QED
  BY <1>1, <1>3

LEMMA AlignedUp ==
  ASSUME NEW n \in Nat, NEW a \in Nat \ {0}
  PROVE  AlignUp(n, a) \in Nat /\ AlignUp(n, a) >= n
<1> DEFINE q == (n + a - 1) \div a
           r == (n + a - 1) % a
<1>1. n + a - 1 \in Nat
  OBVIOUS
<1>2. q \in Nat /\ r \in 0 .. a - 1 /\ n + a - 1 = a * q + r
  <2> DEFINE s == n + a - 1
  <2>1. s \in Nat
    BY <1>1
  <2> HIDE DEF s
  <2>2. s \div a \in Nat /\ s % a \in 0 .. a - 1 /\ s = a * (s \div a) + (s % a)
    BY <2>1
  <2> QED
    BY <2>2 DEF s
<1> HIDE DEF q, r
<1> DEFINE p == a * q
<1>3. p \in Nat /\ q * a = p
  BY <1>2
<1>4. AlignUp(n, a) = q * a
  BY DEF AlignUp, q
<1>5. n + a - 1 = p + r
  BY <1>2
<1> HIDE DEF p
<1>6. p >= n
  BY <1>2, <1>3, <1>5
<1> QED
  BY <1>3, <1>4, <1>6

(* The plan is made ROM by ROM.                                            *)
LEMMA PlanByRom ==
  ASSUME NEW roms, NEW n \in Nat, DOMAIN roms = 1 .. n
  PROVE  \E plan : /\ FoldLeft(WithImage, NoPlan, roms) = plan[n]
                   /\ plan[0] = NoPlan
                   /\ \A k \in 1 .. n : plan[k] = WithImage(plan[k - 1], roms[k])
<1> DEFINE Iterates(f, m) ==
             f = [s \in SUBSET (1 .. m) |->
                    IF s = {} THEN NoPlan ELSE WithImage(f[s \ {Max(s)}], roms[Max(s)])]
           it == CHOOSE f : Iterates(f, n)
<1>1. FoldLeft(WithImage, NoPlan, roms) = it[1 .. n]
  BY DEF FoldLeft, MapThenFoldSet
<1>2. \A m \in Nat : \E f : Iterates(f, m)
  <2> DEFINE Bad == {m \in Nat : ~\E f : Iterates(f, m)}
  <2> SUFFICES ASSUME Bad # {} PROVE FALSE
    OBVIOUS
  <2>1. PICK m \in Bad : \A k \in Bad : m <= k
    BY LeastNatural
  <2>2. CASE m = 0
    <3>1. \A s \in SUBSET (1 .. 0) : s = {}
      OBVIOUS
    <3>2. Iterates([s \in SUBSET (1 .. 0) |-> NoPlan], 0)
      BY <3>1
    <3> QED
      BY <2>1, <2>2, <3>2
  <2>3. CASE m # 0
    <3>1. m - 1 \in Nat /\ m - 1 \notin Bad
      <4>1. m \in Nat
        BY <2>1
      <4> HIDE DEF Bad
      <4> QED
        BY <2>1, <2>3, <4>1
    <3>2. PICK g : Iterates(g, m - 1)
      BY <3>1
    <3> DEFINE h == [s \in SUBSET (1 .. m) |->
                       IF m \in s THEN WithImage(g[s \ {m}], roms[m]) ELSE g[s]]
    <3>3. ASSUME NEW s \in SUBSET (1 .. m)
          PROVE  h[s] = IF s = {} THEN NoPlan ELSE WithImage(h[s \ {Max(s)}], roms[Max(s)])
      <4>1. CASE m \in s
        <5>1. Max(s) = m /\ s \ {m} \in SUBSET (1 .. m - 1) /\ s \ {m} \in SUBSET (1 .. m)
          BY <4>1, LastTaken
        <5>2. h[s \ {m}] = g[s \ {m}]
          BY <5>1
        <5> QED
          BY <4>1, <5>1, <5>2
      <4>2. CASE m \notin s /\ s # {}
        <5>1. s \in SUBSET (1 .. m - 1) /\ Max(s) \in s
          BY <4>2, LastTaken
        <5>2. s \ {Max(s)} \in SUBSET (1 .. m) /\ m \notin s \ {Max(s)}
          BY <4>2, LastTaken
        <5>3. h[s] = g[s] /\ h[s \ {Max(s)}] = g[s \ {Max(s)}]
          BY <4>2, <5>2
        <5>4. g[s] = WithImage(g[s \ {Max(s)}], roms[Max(s)])
          BY <3>2, <4>2, <5>1
        <5> QED
          BY <4>2, <5>3, <5>4
      <4>3. CASE s = {}
        <5>1. {} \in SUBSET (1 .. m - 1) /\ m \notin s
          BY <4>3
        <5>2. g[{}] = NoPlan
          BY <3>2, <5>1
        <5> QED
          BY <4>3, <5>1, <5>2
      <4> QED
        BY <4>1, <4>2, <4>3
    <3>4. Iterates(h, m)
      <4>1. h = [s \in SUBSET (1 .. m) |-> h[s]]
        OBVIOUS
      <4> HIDE DEF h
      <4> QED
        BY <3>3, <4>1
    <3> QED
      BY <2>1, <3>4
  <2> QED
    BY <2>2, <2>3
<1>3. Iterates(it, n)
  BY <1>2
<1> HIDE DEF it
<1>4. ASSUME NEW s \in SUBSET (1 .. n)
      PROVE  it[s] = IF s = {} THEN NoPlan ELSE WithImage(it[s \ {Max(s)}], roms[Max(s)])
  BY <1>3
<1> HIDE DEF Iterates
<1> DEFINE plan == [k \in 0 .. n |-> it[1 .. k]]
<1>5. plan[0] = NoPlan
  <2>1. 1 .. 0 = {} /\ {} \in SUBSET (1 .. n) /\ 0 \in 0 .. n
    OBVIOUS
  <2>2. it[{}] = NoPlan
    BY <1>4, <2>1
  <2>3. plan[0] = it[1 .. 0]
    BY <2>1
  <2> QED
    BY <2>1, <2>2, <2>3
<1>6. ASSUME NEW k \in 1 .. n
      PROVE  plan[k] = WithImage(plan[k - 1], roms[k])
  <2>1. Max(1 .. k) = k /\ (1 .. k) \ {k} = 1 .. k - 1 /\ 1 .. k # {}
    BY GreatestOfInterval
  <2>2. 1 .. k \in SUBSET (1 .. n) /\ k \in 0 .. n /\ k - 1 \in 0 .. n
    OBVIOUS
  <2> HIDE DEF Max
  <2>3. it[1 .. k] = WithImage(it[1 .. k - 1], roms[k])
    BY <1>4, <2>1, <2>2
  <2> QED
    BY <2>2, <2>3
<1>7. plan[n] = it[1 .. n]
  OBVIOUS
<1> HIDE DEF plan
<1> QED
  BY <1>1, <1>5, <1>6, <1>7

(* The images planned so far, of the first k ROMs: each inside the region, *)
(* behind the directory, and behind those before it.                       *)
InRegion(entries, end) ==
  /\ entries \in Seq(RomImages)
  /\ \A i \in 1 .. Len(entries) : /\ entries[i].offset + entries[i].size <= RegionSize
                                  /\ entries[i].offset + entries[i].size <= end
  /\ \A i, j \in 1 .. Len(entries) : i < j => entries[i].offset + entries[i].size <= entries[j].offset
PlanOf(plan, k) ==
  /\ plan \in [cursor : Nat, entries : Seq(RomImages), full : BOOLEAN]
  /\ Len(plan.entries) <= k
  /\ plan.cursor >= DirSize
  /\ InRegion(plan.entries, plan.cursor)
  /\ \A i \in 1 .. Len(plan.entries) : plan.entries[i].offset >= DirSize

LEMMA OneMoreImage ==
  ASSUME NEW plan, NEW k \in Nat, PlanOf(plan, k), NEW rom \in [name : STRING, size : Nat]
  PROVE  PlanOf(WithImage(plan, rom), k + 1)
<1> DEFINE need == AlignUp(rom.size, SectorSize)
           e == [name |-> rom.name, size |-> rom.size, offset |-> plan.cursor]
           old == plan.entries
           new == Append(old, e)
           n == Len(old)
<1>1. SectorSize \in Nat \ {0} /\ DirSize \in Nat \ {0} /\ RegionSize \in Nat
  BY RegionSizes
<1>2. need \in Nat /\ need >= rom.size
  BY <1>1, AlignedUp
<1>3. /\ plan.cursor \in Nat /\ old \in Seq(RomImages) /\ n \in Nat /\ n <= k
      /\ plan.cursor >= DirSize /\ InRegion(old, plan.cursor)
      /\ \A i \in 1 .. n : old[i].offset >= DirSize
  BY DEF PlanOf
<1> HIDE DEF need
<1>4. CASE plan.full \/ rom.size = 0
  <2>1. WithImage(plan, rom) = plan
    BY <1>4 DEF WithImage
  <2>2. n <= k + 1
    BY <1>3
  <2> QED
    BY <2>1, <2>2 DEF PlanOf
<1>5. CASE ~(plan.full \/ rom.size = 0) /\ plan.cursor + need > RegionSize
  <2> DEFINE p == [plan EXCEPT !.full = TRUE]
  <2>1. WithImage(plan, rom) = p
    BY <1>5 DEF WithImage, need
  <2>2. p \in [cursor : Nat, entries : Seq(RomImages), full : BOOLEAN] /\ p.cursor = plan.cursor /\ p.entries = old
    BY DEF PlanOf
  <2> HIDE DEF p
  <2>3. n <= k + 1
    BY <1>3
  <2> QED
    BY <1>3, <2>1, <2>2, <2>3 DEF PlanOf
<1>6. CASE ~(plan.full \/ rom.size = 0) /\ ~(plan.cursor + need > RegionSize)
  <2> DEFINE c == plan.cursor + need
             p == [plan EXCEPT !.cursor = c, !.entries = new]
  <2>1. WithImage(plan, rom) = p
    BY <1>6 DEF WithImage, need
  <2>2. e \in RomImages
    BY <1>3 DEF RomImages
  <2>3. new \in Seq(RomImages) /\ Len(new) = n + 1 /\ new[n + 1] = e /\ \A i \in 1 .. n : new[i] = old[i]
    <3> HIDE DEF e
    <3> QED
      BY <1>3, <2>2
  <2>4. c \in Nat /\ c >= plan.cursor /\ plan.cursor + rom.size <= c /\ c <= RegionSize
    BY <1>1, <1>2, <1>3, <1>6, SMTT(30)
  <2> HIDE DEF c, new
  <2>5. p \in [cursor : Nat, entries : Seq(RomImages), full : BOOLEAN] /\ p.cursor = c /\ p.entries = new
    BY <2>3, <2>4 DEF PlanOf
  <2> HIDE DEF p
  <2>6. ASSUME NEW i \in 1 .. n + 1
        PROVE  /\ new[i].offset + new[i].size <= RegionSize /\ new[i].offset + new[i].size <= c
               /\ new[i].offset >= DirSize
    <3>1. CASE i = n + 1
      <4>1. new[i].offset = plan.cursor /\ new[i].size = rom.size
        BY <2>3, <3>1
      <4> QED
        BY <1>1, <1>3, <2>4, <4>1
    <3>2. CASE i # n + 1
      <4>1. i \in 1 .. n /\ new[i] = old[i] /\ old[i] \in RomImages
        BY <1>3, <2>3, <3>2, SMTT(30)
      <4>2. old[i].offset + old[i].size <= RegionSize /\ old[i].offset + old[i].size <= plan.cursor
        BY <1>3, <4>1 DEF InRegion
      <4>3. old[i].offset \in Nat /\ old[i].size \in Nat
        BY <4>1 DEF RomImages
      <4> QED
        BY <1>3, <2>4, <4>1, <4>2, <4>3, SMTT(30)
    <3> QED
      BY <3>1, <3>2
  <2>7. ASSUME NEW i \in 1 .. n + 1, NEW j \in 1 .. n + 1, i < j
        PROVE  new[i].offset + new[i].size <= new[j].offset
    <3>1. i \in 1 .. n /\ new[i] = old[i]
      BY <1>3, <2>3, <2>7
    <3>2. CASE j = n + 1
      <4>1. new[j].offset = plan.cursor
        BY <2>3, <3>2
      <4> QED
        BY <1>3, <3>1, <4>1 DEF InRegion
    <3>3. CASE j # n + 1
      <4>1. j \in 1 .. n /\ new[j] = old[j]
        BY <1>3, <2>3, <3>3
      <4> QED
        BY <1>3, <2>7, <3>1, <4>1 DEF InRegion
    <3> QED
      BY <3>2, <3>3
  <2>8. InRegion(new, c)
    BY <2>3, <2>6, <2>7 DEF InRegion
  <2>9. n + 1 <= k + 1 /\ c >= DirSize
    BY <1>1, <1>3, <2>4
  <2> QED
    BY <2>1, <2>3, <2>5, <2>6, <2>8, <2>9 DEF PlanOf
<1> QED
  BY <1>4, <1>5, <1>6

LEMMA PlanFits ==
  ASSUME cardRoms \in Seq([name : STRING, size : Nat])
  PROVE  PlanOf(Planned, MaxRoms)
<1> DEFINE first == IF Len(cardRoms) > MaxRoms THEN MaxRoms ELSE Len(cardRoms)
           roms == SubSeq(cardRoms, 1, first)
           Rom == [name : STRING, size : Nat]
<1>1. first \in Nat /\ first <= Len(cardRoms) /\ first <= MaxRoms
  BY RegionSizes
<1> HIDE DEF first
<1>2. DOMAIN roms = 1 .. first /\ \A i \in 1 .. first : roms[i] \in Rom
  <2>2. Len(cardRoms) \in Nat
    OBVIOUS
  <2> HIDE DEF Rom
  <2>4. cardRoms \in Seq(Rom)
    BY DEF Rom
  <2>5. \A i \in 1 .. Len(cardRoms) : cardRoms[i] \in Rom
    BY <2>4
  <2>1. \A i \in 1 .. first : cardRoms[i] \in Rom
    BY <1>1, <2>2, <2>5
  <2>3. DOMAIN roms = 1 .. first /\ \A i \in 1 .. first : roms[i] = cardRoms[i]
    BY <1>1, <2>2
  <2> QED
    BY <2>1, <2>3
<1>3. Planned = FoldLeft(WithImage, NoPlan, roms)
  BY DEF Planned, NoPlan, first
<1> HIDE DEF roms, Rom
<1>4. PICK plan : /\ FoldLeft(WithImage, NoPlan, roms) = plan[first]
                  /\ plan[0] = NoPlan
                  /\ \A k \in 1 .. first : plan[k] = WithImage(plan[k - 1], roms[k])
  BY <1>1, <1>2, PlanByRom
<1>5. PlanOf(NoPlan, 0)
  <2>1. <<>> \in Seq(RomImages) /\ Len(<<>>) = 0
    OBVIOUS
  <2>2. 1 .. 0 = {}
    OBVIOUS
  <2> QED
    BY <2>1, <2>2, RegionSizes DEF PlanOf, InRegion, NoPlan
<1> DEFINE Bad == {k \in 0 .. first : ~PlanOf(plan[k], k)}
<1>6. Bad = {}
  <2> SUFFICES ASSUME Bad # {} PROVE FALSE
    OBVIOUS
  <2>1. Bad \in SUBSET Nat
    OBVIOUS
  <2>2. PICK k \in Bad : \A j \in Bad : k <= j
    BY <2>1, LeastNatural
  <2>3. k \in 1 .. first /\ k - 1 \in Nat /\ k - 1 \in 0 .. first /\ k - 1 \notin Bad
    <3>1. k # 0
      BY <1>4, <1>5, <2>2
    <3> QED
      BY <1>1, <2>2, <3>1
  <2>4. PlanOf(plan[k - 1], k - 1) /\ roms[k] \in [name : STRING, size : Nat]
    BY <1>2, <2>3 DEF Rom
  <2>5. PlanOf(WithImage(plan[k - 1], roms[k]), (k - 1) + 1)
    BY <2>3, <2>4, OneMoreImage
  <2>6. (k - 1) + 1 = k
    BY <2>3
  <2> QED
    BY <1>4, <2>2, <2>3, <2>5, <2>6
<1>7. PlanOf(plan[first], first)
  BY <1>1, <1>6
<1> DEFINE p == plan[first]
<1>8. Len(p.entries) \in Nat /\ PlanOf(p, first)
  BY <1>7 DEF PlanOf
<1> HIDE DEF p
<1>9. PlanOf(p, MaxRoms)
  <2>1. Len(p.entries) <= MaxRoms
    BY <1>1, <1>8, RegionSizes DEF PlanOf
  <2> QED
    BY <1>8, <2>1 DEF PlanOf
<1> QED
  BY <1>3, <1>4, <1>9 DEF p

-----------------------------------------------------------------------------
(* The inductive invariant.                                                *)

JobFields == {"n", "result", "at", "from", "end", "entries", "rom", "k", "page"}
FlashTyped ==
  /\ user \in {"fs", "cache"} /\ cardRoms \in Seq([name : STRING, size : Nat])
  /\ region = [u \in Units |-> region[u]]
  /\ DOMAIN job = JobFields /\ job.at \in {"idle", "erase", "header", "stream", "clear", "dark"}

\* The units of an image e, in the region r
Own(r, e) == \A k \in 0 .. e.size - 1 : r[e.offset + k] \in {FF, Unit(e, k)}
Whole(r, e) == \A k \in 0 .. e.size - 1 : r[e.offset + k] = Unit(e, k)
Vacant(r, e) == \A k \in 0 .. e.size - 1 : r[e.offset + k] = FF

(* What the directory names holds its own data or none, or is not yet      *)
(* written.                                                                *)
EntryIn(r, i) == IF r[i][1] = "entry" THEN r[i][2] ELSE NoEntry
Placed(r, e) ==
  e = NoEntry \/ (e.offset >= DirSize /\ e.offset + e.size <= RegionSize /\ Own(r, e))
DirectoryOK(r) ==
  r[0][1] = "MNES" =>
    /\ r[0][2] \in 0 .. MaxRoms
    /\ \A i \in 1 .. r[0][2] : LET e == EntryIn(r, i)
                               IN  e \in RomImages /\ Placed(r, e)

HeadUnit(entries, u) == IF u = 0 THEN <<"MNES", Len(entries)>> ELSE <<"entry", entries[u]>>

(* The images of a job are where they fit.                                 *)
Planning ==
  /\ job.end \in Nat /\ InRegion(job.entries, job.end) /\ Len(job.entries) # 0
  /\ user = "fs" => /\ Len(job.entries) <= MaxRoms
                    /\ \A i \in 1 .. Len(job.entries) : job.entries[i].offset >= DirSize
  /\ user = "cache" => Len(job.entries) = 1 /\ job.entries[1].offset = 0

AtErase ==
  job.at = "erase" =>
    /\ Planning /\ job.from \in Nat /\ job.k = 0 /\ job.page = <<>>
    /\ \A u \in Units : u < job.from => region[u] = FF
AtHeader ==
  job.at = "header" =>
    /\ user = "fs" /\ Planning /\ job.from \in 0 .. Len(job.entries)
    /\ job.rom = 1 /\ job.k = 0 /\ job.page = <<>>
    /\ \A u \in Units : u < job.end =>
         region[u] = IF u < job.from THEN HeadUnit(job.entries, u) ELSE FF

(* The image being written: what is written of it, what is in the page.    *)
AtImage ==
  LET e == job.entries[job.rom]
      w == job.from - e.offset
  IN  /\ job.from \in Nat /\ w \in Nat /\ job.k \in 0 .. e.size
      /\ \A q \in 0 .. e.size - 1 : region[e.offset + q] = IF q < w THEN Unit(e, q) ELSE FF
      /\ \/ job.page = <<>> /\ job.k = e.size /\ w >= e.size
         \/ /\ w <= job.k /\ job.k - w <= PageSize
            /\ job.page = [j \in 1 .. job.k - w |-> Unit(e, w + j - 1)]
AtStream ==
  job.at = "stream" =>
    /\ Planning /\ job.rom \in 1 .. Len(job.entries)
    /\ user = "fs" => \A u \in 0 .. Len(job.entries) : region[u] = HeadUnit(job.entries, u)
    /\ \A i \in 1 .. Len(job.entries) : /\ i < job.rom => Whole(region, job.entries[i])
                                        /\ i > job.rom => Vacant(region, job.entries[i])
    /\ AtImage
AtRest ==
  /\ job.at = "dark" => job.result = "power"
  /\ job.at = "idle" /\ job.result = "ok" =>
       /\ user = "fs" => Directory = job.entries /\ listing = job.entries
       /\ \A i \in 1 .. Len(job.entries) : Whole(region, job.entries[i])

FlashOK ==
  /\ FlashTyped /\ (user = "fs" => DirectoryOK(region))
  /\ AtErase /\ AtHeader /\ AtStream /\ AtRest

-----------------------------------------------------------------------------
(* Units that are erased take nothing from a directory but whole entries   *)
(* and parts of images.                                                    *)
LEMMA ErasedDirectory ==
  ASSUME NEW r, NEW r2, DirectoryOK(r), \A u \in Units : r2[u] \in {FF, r[u]}
  PROVE  DirectoryOK(r2)
<1> SUFFICES ASSUME r2[0][1] = "MNES"
             PROVE  /\ r2[0][2] \in 0 .. MaxRoms
                    /\ \A i \in 1 .. r2[0][2] : EntryIn(r2, i) \in RomImages /\ Placed(r2, EntryIn(r2, i))
  BY DEF DirectoryOK
<1>1. Units = 0 .. RegionSize - 1 /\ RegionSize \in Nat \ {0} /\ MaxRoms \in Nat /\ MaxRoms < RegionSize
  BY RegionSizes DEF Units
<1>2. r2[0] = r[0]
  <2>1. FF[1] # "MNES"
    BY DEF FF
  <2> QED
    BY <1>1, <2>1
<1>3. /\ r2[0][2] \in 0 .. MaxRoms
      /\ \A i \in 1 .. r2[0][2] : EntryIn(r, i) \in RomImages /\ Placed(r, EntryIn(r, i))
  BY <1>2 DEF DirectoryOK
<1>4. ASSUME NEW i \in 1 .. r2[0][2]
      PROVE  EntryIn(r2, i) \in RomImages /\ Placed(r2, EntryIn(r2, i))
  <2>1. i \in Units
    BY <1>1, <1>3
  <2>2. CASE r2[i] = FF
    <3>1. EntryIn(r2, i) = NoEntry
      BY <2>2 DEF EntryIn, FF
    <3>2. NoEntry \in RomImages
      BY RegionSizes DEF NoEntry, RomImages
    <3> QED
      BY <3>1, <3>2 DEF Placed
  <2>3. CASE r2[i] = r[i]
    <3> DEFINE e == EntryIn(r, i)
    <3>1. EntryIn(r2, i) = e
      BY <2>3 DEF EntryIn
    <3>2. e \in RomImages /\ Placed(r, e)
      BY <1>3
    <3> HIDE DEF e
    <3>3. ASSUME e # NoEntry PROVE Own(r2, e)
      <4>0. e.offset + e.size <= RegionSize /\ Own(r, e)
        BY <3>2, <3>3 DEF Placed
      <4> SUFFICES ASSUME NEW k \in 0 .. e.size - 1
                   PROVE  r2[e.offset + k] \in {FF, Unit(e, k)}
        BY DEF Own
      <4>1. e.offset \in Nat /\ e.size \in Nat
        BY <3>2 DEF RomImages
      <4>2. e.offset + k \in Units
        BY <1>1, <4>0, <4>1
      <4>3. r[e.offset + k] \in {FF, Unit(e, k)}
        BY <4>0 DEF Own
      <4> QED
        BY <4>2, <4>3
    <3> QED
      BY <3>1, <3>2, <3>3 DEF Placed
  <2> QED
    BY <2>1, <2>2, <2>3
<1> QED
  BY <1>3, <1>4

(* The directory of a job, however much of it is written.                  *)
LEMMA PlannedDirectory ==
  ASSUME Planning, user = "fs", NEW r,
         \A u \in 0 .. Len(job.entries) : r[u] \in {FF, HeadUnit(job.entries, u)},
         \A i \in 1 .. Len(job.entries) : Own(r, job.entries[i])
  PROVE  DirectoryOK(r)
<1> DEFINE E == job.entries
           n == Len(E)
<1> SUFFICES ASSUME r[0][1] = "MNES"
             PROVE  /\ r[0][2] \in 0 .. MaxRoms
                    /\ \A i \in 1 .. r[0][2] : EntryIn(r, i) \in RomImages /\ Placed(r, EntryIn(r, i))
  BY DEF DirectoryOK
<1>1. /\ E \in Seq(RomImages) /\ n \in Nat /\ n <= MaxRoms /\ MaxRoms \in Nat
      /\ \A i \in 1 .. n : /\ E[i] \in RomImages /\ E[i].offset >= DirSize
                           /\ E[i].offset + E[i].size <= RegionSize
  BY RegionSizes DEF Planning, InRegion
<1> HIDE DEF E
<1>2. r[0] = <<"MNES", n>>
  <2>1. FF[1] # "MNES"
    BY DEF FF
  <2>2. 0 \in 0 .. n
    BY <1>1
  <2> QED
    BY <2>1, <2>2 DEF HeadUnit, E
<1>3. r[0][2] = n
  BY <1>2
<1>4. ASSUME NEW i \in 1 .. n
      PROVE  EntryIn(r, i) \in RomImages /\ Placed(r, EntryIn(r, i))
  <2>1. r[i] \in {FF, <<"entry", E[i]>>}
    <3>1. i \in 0 .. n /\ i # 0
      BY <1>1
    <3> QED
      BY <3>1 DEF HeadUnit, E
  <2>2. CASE r[i] = FF
    <3>1. EntryIn(r, i) = NoEntry
      BY <2>2 DEF EntryIn, FF
    <3>2. NoEntry \in RomImages
      BY RegionSizes DEF NoEntry, RomImages
    <3> QED
      BY <3>1, <3>2 DEF Placed
  <2>3. CASE r[i] = <<"entry", E[i]>>
    <3>1. EntryIn(r, i) = E[i]
      BY <2>3 DEF EntryIn
    <3>2. Own(r, E[i])
      BY DEF E
    <3> QED
      BY <1>1, <3>1, <3>2 DEF Placed
  <2> QED
    BY <2>1, <2>2, <2>3
<1> QED
  BY <1>1, <1>3, <1>4

(* The units of the header, and an operation on the flash.                 *)
LEMMA HeaderIs ==
  ASSUME job.entries \in Seq(RomImages)
  PROVE  /\ HeaderUnits = [j \in 1 .. Len(job.entries) + 1 |-> HeadUnit(job.entries, j - 1)]
         /\ Len(HeaderUnits) = Len(job.entries) + 1
<1> DEFINE E == job.entries
           n == Len(E)
           a == <<<<"MNES", n>>>>
           b == [i \in 1 .. n |-> <<"entry", E[i]>>]
           All == {HeadUnit(E, u) : u \in 0 .. n}
<1>1. n \in Nat
  OBVIOUS
<1>2. HeaderUnits = a \o b
  BY DEF HeaderUnits
<1>3. a \in Seq(All) /\ Len(a) = 1 /\ a[1] = HeadUnit(E, 0)
  BY <1>1, SMTT(30) DEF HeadUnit
<1>4. b \in Seq(All) /\ Len(b) = n /\ \A i \in 1 .. n : b[i] = HeadUnit(E, i)
  <2>1. ASSUME NEW i \in 1 .. n
        PROVE  b[i] = HeadUnit(E, i) /\ b[i] \in All
    <3>1. b[i] = HeadUnit(E, i)
      BY DEF HeadUnit
    <3>2. i \in 0 .. n
      BY <1>1
    <3> HIDE DEF b, E
    <3> QED
      BY <3>1, <3>2
  <2>2. b = [i \in 1 .. n |-> b[i]]
    OBVIOUS
  <2> HIDE DEF b, All, n
  <2>3. b \in [1 .. n -> All]
    BY <2>1, <2>2
  <2>4. b \in Seq(All) /\ Len(b) = n
    BY <1>1, <2>3, SeqDef
  <2> QED
    BY <2>1, <2>4
<1> HIDE DEF a, b, All, E
<1>5. /\ a \o b \in Seq(All) /\ Len(a \o b) = n + 1
      /\ \A j \in 1 .. n + 1 : (a \o b)[j] = IF j <= 1 THEN a[j] ELSE b[j - 1]
  <2>1. /\ a \o b \in Seq(All) /\ Len(a \o b) = Len(a) + Len(b)
        /\ \A j \in 1 .. Len(a) + Len(b) : (a \o b)[j] = IF j <= Len(a) THEN a[j] ELSE b[j - Len(a)]
    BY <1>3, <1>4, ConcatProperties
  <2>2. Len(a) + Len(b) = n + 1
    BY <1>1, <1>3, <1>4
  <2> QED
    BY <1>3, <2>1, <2>2
<1>6. \A j \in 1 .. n + 1 : (a \o b)[j] = HeadUnit(E, j - 1)
  BY <1>1, <1>3, <1>4, <1>5
<1>7. a \o b = [j \in 1 .. n + 1 |-> HeadUnit(E, j - 1)]
  <2> DEFINE c == a \o b
  <2>1. c \in [1 .. n + 1 -> All]
    BY <1>5, LenProperties
  <2>2. \A j \in 1 .. n + 1 : c[j] = HeadUnit(E, j - 1)
    BY <1>6
  <2> HIDE DEF c
  <2>3. c = [j \in 1 .. n + 1 |-> HeadUnit(E, j - 1)]
    BY <2>1, <2>2
  <2> QED
    BY <2>3 DEF c
<1> QED
  BY <1>2, <1>5, <1>7 DEF E

LEMMA FlashOp ==
  ASSUME FlashTyped, NEW done, done = [u \in Units |-> done[u]], NEW from, NEW n, NEW next,
         InFlash(done, from, n, next)
  PROVE  /\ region' = [u \in Units |-> region'[u]]
         /\ \A u \in Units : region'[u] \in {done[u], region[u]}
         /\ \/ region' = done /\ job' = next
            \/ job' = [next EXCEPT !.at = "dark", !.result = "power"]
<1> DEFINE Reached(S) == [u \in Units |-> IF u \in S THEN done[u] ELSE region[u]]
<1>1. CASE region' = done /\ job' = next
  BY <1>1
<1>2. CASE /\ \E m \in 0 .. n : \/ region' = Reached(from .. from + m - 1)
                                \/ region' = Reached(from + m .. from + n - 1)
           /\ job' = [next EXCEPT !.at = "dark", !.result = "power"]
  <2>1. PICK S : region' = Reached(S)
    <3> HIDE DEF Reached
    <3> QED
      BY <1>2
  <2> QED
    BY <1>2, <2>1
<1> QED
  BY <1>1, <1>2 DEF InFlash

(* A step after which the job rests, without success.                      *)
LEMMA RestingOK ==
  ASSUME FlashOK, user' = user, cardRoms' \in Seq([name : STRING, size : Nat]),
         region' = [u \in Units |-> region'[u]], user = "fs" => DirectoryOK(region'),
         DOMAIN job' = JobFields,
         \/ job'.at = "idle" /\ job'.result # "ok"
         \/ job'.at = "dark" /\ job'.result = "power"
  PROVE  FlashOK'
<1>1. FlashTyped'
  BY DEF FlashTyped, FlashOK, Units
<1>2. AtErase' /\ AtHeader' /\ AtStream' /\ AtRest'
  BY DEF AtErase, AtHeader, AtStream, AtRest
<1>3. (user = "fs" => DirectoryOK(region))'
  <2>1. DirectoryOK(region') => DirectoryOK(region)'
    BY DEF DirectoryOK, EntryIn, Placed, Own, NoEntry, FF, Unit
  <2> QED
    BY <2>1
<1> QED
  BY <1>1, <1>2, <1>3 DEF FlashOK

(* The directory is being erased.                                          *)
LEMMA ClearingOK ==
  ASSUME FlashOK, user' = user, cardRoms' \in Seq([name : STRING, size : Nat]),
         region' = [u \in Units |-> region'[u]], user = "fs" => DirectoryOK(region'),
         DOMAIN job' = JobFields, job'.at = "clear"
  PROVE  FlashOK'
<1>1. FlashTyped'
  BY DEF FlashTyped, FlashOK, Units
<1>2. AtErase' /\ AtHeader' /\ AtStream' /\ AtRest'
  BY DEF AtErase, AtHeader, AtStream, AtRest
<1>3. (user = "fs" => DirectoryOK(region))'
  <2>1. DirectoryOK(region') => DirectoryOK(region)'
    BY DEF DirectoryOK, EntryIn, Placed, Own, NoEntry, FF, Unit
  <2> QED
    BY <2>1
<1> QED
  BY <1>1, <1>2, <1>3 DEF FlashOK

LEMMA FlashInitOK == FlashInit => FlashOK
<1> SUFFICES ASSUME FlashInit PROVE FlashOK
  OBVIOUS
<1>1. user \in {"fs", "cache"} /\ cardRoms \in Seq([name : STRING, size : Nat])
  BY FlashAssumption DEF FlashInit
<1>2. region = [u \in Units |-> region[u]] /\ DirectoryOK(region)
  <2>1. 0 \in Units
    BY RegionSizes DEF Units
  <2>2. region[0] = FF \/ region[0] = Junk
    BY <2>1 DEF FlashInit
  <2>3. region[0][1] # "MNES"
    BY <2>2 DEF FF, Junk
  <2> QED
    BY <2>3 DEF FlashInit, DirectoryOK
<1>3. DOMAIN job = JobFields /\ job.at = "idle" /\ job.result = "none"
  BY DEF FlashInit, JobFields
<1> QED
  BY <1>1, <1>2, <1>3 DEF FlashOK, FlashTyped, AtErase, AtHeader, AtStream, AtRest

(* What a job is changed to.                                               *)
LEMMA EndedIs ==
  ASSUME DOMAIN job = JobFields, NEW result
  PROVE  DOMAIN Ended(result) = JobFields /\ Ended(result).at = "idle" /\ Ended(result).result = result
BY DEF Ended, JobFields

(* A job that begins with the flash as it is.                              *)
LEMMA BeginningOK ==
  ASSUME FlashOK, user' = user, cardRoms' = cardRoms, region' = region,
         DOMAIN job' = JobFields, job'.at = "erase", Planning', job'.from = 0, job'.k = 0, job'.page = <<>>
  PROVE  FlashOK'
<1>1. FlashTyped' /\ (user = "fs" => DirectoryOK(region))'
  BY DEF FlashTyped, FlashOK, Units, DirectoryOK, EntryIn, Placed, Own, NoEntry, FF, Unit
<1>2. AtErase'
  <2>1. \A u \in Units : ~(u < 0)
    BY RegionSizes DEF Units
  <2> QED
    BY <2>1 DEF AtErase, Units
<1>3. AtHeader' /\ AtStream' /\ AtRest'
  BY DEF AtHeader, AtStream, AtRest
<1> QED
  BY <1>1, <1>2, <1>3 DEF FlashOK

LEMMA StartCopyOK ==
  ASSUME FlashOK, StartCopy PROVE FlashOK'
<1>1. /\ user = "fs" /\ user' = user /\ cardRoms' = cardRoms /\ region' = region
      /\ DOMAIN job = JobFields /\ cardRoms \in Seq([name : STRING, size : Nat])
      /\ region = [u \in Units |-> region[u]] /\ DirectoryOK(region)
  BY DEF StartCopy, FlashOK, FlashTyped
<1>2. CASE cardRoms = <<>> \/ Planned.entries = <<>>
  <2> DEFINE e == Ended("nothing")
  <2>1. job' = [e EXCEPT !.n = e.n + 1]
    BY <1>2 DEF StartCopy
  <2>2. DOMAIN e = JobFields /\ e.at = "idle" /\ e.result = "nothing"
    BY <1>1, EndedIs
  <2> HIDE DEF e
  <2>3. DOMAIN job' = JobFields /\ job'.at = "idle" /\ job'.result = "nothing"
    BY <2>1, <2>2 DEF JobFields
  <2> QED
    BY <1>1, <2>3, RestingOK
<1>3. CASE ~(cardRoms = <<>> \/ Planned.entries = <<>>)
  <2> DEFINE entries == Planned.entries
             end == AlignUp(Planned.cursor, BlockSize)
  <2>1. job' = [BeginJob EXCEPT !.entries = entries, !.end = end]
    BY <1>3 DEF StartCopy
  <2>2. PlanOf(Planned, MaxRoms) /\ Planned.cursor \in Nat /\ entries \in Seq(RomImages)
    BY <1>1, PlanFits DEF PlanOf
  <2>3. end \in Nat /\ end >= Planned.cursor
    BY <2>2, RegionSizes, AlignedUp
  <2>4. Len(entries) # 0 /\ Len(entries) <= MaxRoms /\ \A i \in 1 .. Len(entries) : entries[i].offset >= DirSize
    BY <1>3, <2>2 DEF PlanOf
  <2>5. InRegion(entries, end)
    <3>1. InRegion(entries, Planned.cursor)
      BY <2>2 DEF PlanOf
    <3>2. ASSUME NEW i \in 1 .. Len(entries)
          PROVE  entries[i].offset + entries[i].size <= end
      <4>1. entries[i] \in RomImages
        BY <2>2
      <4>2. entries[i].offset + entries[i].size \in Nat
        BY <4>1 DEF RomImages
      <4>3. entries[i].offset + entries[i].size <= Planned.cursor
        BY <3>1 DEF InRegion
      <4> HIDE DEF end, entries
      <4> QED
        BY <2>2, <2>3, <4>2, <4>3
    <3> QED
      BY <3>1, <3>2 DEF InRegion
  <2> HIDE DEF entries, end
  <2>6. /\ DOMAIN job' = JobFields /\ job'.at = "erase" /\ job'.from = 0 /\ job'.k = 0
        /\ job'.page = <<>> /\ job'.entries = entries /\ job'.end = end
    <3> DEFINE b == [BeginJob EXCEPT !.entries = entries, !.end = end]
    <3>1. /\ DOMAIN b = JobFields /\ b.at = "erase" /\ b.result = "busy" /\ b.from = 0 /\ b.k = 0
          /\ b.page = <<>> /\ b.entries = entries /\ b.end = end
      BY DEF BeginJob, JobFields
    <3>2. job' = b
      BY <2>1
    <3> HIDE DEF b
    <3> QED
      BY <3>1, <3>2
  <2>7. Planning'
    BY <1>1, <2>3, <2>4, <2>5, <2>6 DEF Planning, InRegion
  <2> QED
    BY <1>1, <2>6, <2>7, BeginningOK
<1> QED
  BY <1>2, <1>3

LEMMA StartLaunchOK ==
  ASSUME FlashOK, NEW i \in 1 .. 2, StartLaunch(i) PROVE FlashOK'
<1> DEFINE rom == cardRoms[i]
           entry == [name |-> rom.name, size |-> rom.size, offset |-> 0]
           differ == {k \in 0 .. rom.size - 1 : region[k] # Unit(rom, k)}
           begin == [BeginJob EXCEPT !.entries = <<entry>>]
           end == AlignUp(rom.size, SectorSize)
<1>1. /\ user = "cache" /\ user' = user /\ cardRoms' = cardRoms /\ region' = region
      /\ DOMAIN job = JobFields /\ cardRoms \in Seq([name : STRING, size : Nat])
      /\ region = [u \in Units |-> region[u]]
      /\ i \in 1 .. Len(cardRoms)
      /\ job' \in IF rom.size = 0 \/ rom.size > RegionSize
                  THEN {[begin EXCEPT !.at = "idle", !.result = "refused"]}
                  ELSE {[begin EXCEPT !.at = "idle", !.result = "failed"]} \union
                       IF differ = {} THEN {[begin EXCEPT !.at = "idle", !.result = "ok"]}
                       ELSE {[begin EXCEPT !.end = end]}
  BY DEF StartLaunch, FlashOK, FlashTyped
<1>2. rom \in [name : STRING, size : Nat]
  <2> DEFINE Rom == [name : STRING, size : Nat]
  <2>1. cardRoms \in Seq(Rom)
    BY <1>1
  <2> HIDE DEF Rom
  <2>2. rom \in Rom
    BY <1>1, <2>1, ElementOfSeq
  <2> QED
    BY <2>2 DEF Rom
<1>3. entry \in RomImages /\ entry.offset = 0 /\ entry.size = rom.size /\ entry.name = rom.name /\ rom.size \in Nat
  BY <1>2 DEF RomImages
<1>4. /\ DOMAIN begin = JobFields /\ begin.entries = <<entry>>
      /\ begin.at = "erase" /\ begin.from = 0 /\ begin.k = 0 /\ begin.page = <<>>
  <2> HIDE DEF entry
  <2> QED
    BY DEF BeginJob, JobFields
<1> HIDE DEF begin, differ, end, entry, rom
<1>5. ASSUME NEW result, job' = [begin EXCEPT !.at = "idle", !.result = result]
      PROVE  DOMAIN job' = JobFields /\ job'.at = "idle" /\ job'.result = result /\ job'.entries = <<entry>>
  BY <1>4, <1>5 DEF JobFields
<1>6. CASE \/ job' = [begin EXCEPT !.at = "idle", !.result = "refused"]
           \/ job' = [begin EXCEPT !.at = "idle", !.result = "failed"]
  <2>1. DOMAIN job' = JobFields /\ job'.at = "idle" /\ job'.result # "ok"
    BY <1>5, <1>6
  <2> QED
    BY <1>1, <2>1, RestingOK
<1>7. CASE differ = {} /\ job' = [begin EXCEPT !.at = "idle", !.result = "ok"]
  <2>1. DOMAIN job' = JobFields /\ job'.at = "idle" /\ job'.entries = <<entry>>
    BY <1>5, <1>7
  <2>2. \A k \in 0 .. rom.size - 1 : region[k] = Unit(rom, k)
    BY <1>7 DEF differ
  <2>3. Whole(region, entry)
    <3>1. \A k \in 0 .. rom.size - 1 : 0 + k = k /\ Unit(entry, k) = Unit(rom, k)
      BY <1>3 DEF Unit
    <3> QED
      BY <1>3, <2>2, <3>1 DEF Whole
  <2>4. AtRest'
    <3>1. \A j \in 1 .. Len(<<entry>>) : <<entry>>[j] = entry
      OBVIOUS
    <3> QED
      BY <1>1, <2>1, <2>3, <3>1 DEF AtRest, Whole, Unit
  <2>5. AtErase' /\ AtHeader' /\ AtStream'
    BY <2>1 DEF AtErase, AtHeader, AtStream
  <2>6. FlashTyped' /\ (user = "fs" => DirectoryOK(region))'
    BY <1>1, <2>1 DEF FlashTyped, Units
  <2> QED
    BY <2>4, <2>5, <2>6 DEF FlashOK
<1>8. CASE rom.size <= RegionSize /\ job' = [begin EXCEPT !.end = end]
  <2>1. /\ DOMAIN job' = JobFields /\ job'.at = "erase" /\ job'.from = 0 /\ job'.k = 0
        /\ job'.page = <<>> /\ job'.entries = <<entry>> /\ job'.end = end
    BY <1>4, <1>8 DEF JobFields
  <2>2. end \in Nat /\ end >= rom.size
    BY <1>3, RegionSizes, AlignedUp DEF end
  <2>3. Planning'
    <3>1. <<entry>> \in Seq(RomImages) /\ Len(<<entry>>) = 1 /\ <<entry>>[1] = entry
      BY <1>3
    <3>2. entry.offset + entry.size = rom.size /\ entry.offset = 0
      BY <1>3
    <3>3. InRegion(<<entry>>, end)
      <4>1. \A j \in 1 .. 1 : j = 1
        OBVIOUS
      <4> QED
        BY <1>8, <2>2, <3>1, <3>2, <4>1 DEF InRegion
    <3> QED
      BY <1>1, <2>1, <2>2, <3>1, <3>2, <3>3 DEF Planning, InRegion
  <2> QED
    BY <1>1, <2>1, <2>3, BeginningOK
<1>9. rom.size \in Nat /\ RegionSize \in Nat
  BY <1>3, RegionSizes
<1> QED
  BY <1>1, <1>6, <1>7, <1>8, <1>9

(* The plan of a job stays as it is.                                       *)
LEMMA PlanningKept ==
  ASSUME Planning, user' = user, job'.entries = job.entries, job'.end = job.end
  PROVE  Planning'
BY DEF Planning, InRegion

LEMMA NothingRead == ASSUME NEW f, f = [j \in 1 .. 0 |-> f[j]] PROVE f = <<>>
<1>1. f \in [1 .. 0 -> {f[j] : j \in 1 .. 0}]
  OBVIOUS
<1>2. f \in Seq({f[j] : j \in 1 .. 0}) /\ Len(f) = 0
  BY <1>1, SeqDef
<1> QED
  BY <1>2, EmptySeq

(* The writing comes to an image m, with those before it written.          *)
LEMMA ImageBegins ==
  ASSUME Planning, user' = user, job'.entries = job.entries, job'.end = job.end,
         NEW m \in 1 .. Len(job.entries), job'.rom = m, job'.at = "stream",
         job'.from = job.entries[m].offset, job'.k = 0, job'.page = <<>>,
         user = "fs" => \A u \in 0 .. Len(job.entries) : region'[u] = HeadUnit(job.entries, u),
         \A i \in 1 .. Len(job.entries) : /\ i < m => Whole(region', job.entries[i])
                                          /\ i >= m => Vacant(region', job.entries[i])
  PROVE  AtStream'
<1> DEFINE e == job.entries[m]
<1>1. e \in RomImages /\ Len(job.entries) \in Nat
  BY DEF Planning, InRegion
<1>2. e.offset \in Nat /\ e.size \in Nat
  BY <1>1 DEF RomImages
<1>3. Vacant(region', e)
  BY <1>1
<1> HIDE DEF e
<1>4. job'.entries[job'.rom] = e /\ job'.from = e.offset
  BY DEF e
<1>5. job'.from - e.offset = 0
  BY <1>2, <1>4
<1>6. job'.page = [j \in 1 .. job'.k - 0 |-> Unit(e, 0 + j - 1)]
  <2> DEFINE f == [j \in 1 .. 0 |-> Unit(e, 0 + j - 1)]
  <2>1. f = [j \in 1 .. 0 |-> f[j]]
    OBVIOUS
  <2> HIDE DEF f
  <2>2. f = <<>>
    BY <2>1, NothingRead
  <2>3. job'.k - 0 = 0
    OBVIOUS
  <2> QED
    BY <2>2, <2>3 DEF f
<1>7. AtImage'
  <2>1. \A q \in 0 .. e.size - 1 : region'[e.offset + q] = IF q < 0 THEN Unit(e, q) ELSE FF
    BY <1>2, <1>3 DEF Vacant
  <2>2. /\ job'.from \in Nat /\ 0 \in Nat /\ job'.k \in 0 .. e.size
        /\ 0 <= job'.k /\ job'.k - 0 <= PageSize
    BY <1>2, <1>4, RegionSizes
  <2> QED
    BY <1>4, <1>5, <1>6, <2>1, <2>2 DEF AtImage, Unit, FF
<1>8. Planning'
  BY PlanningKept
<1>9. /\ job'.rom \in 1 .. Len(job'.entries)
      /\ user' = "fs" => \A u \in 0 .. Len(job'.entries) : region'[u] = HeadUnit(job'.entries, u)
      /\ \A i \in 1 .. Len(job'.entries) : /\ i < job'.rom => Whole(region', job'.entries[i])
                                           /\ i > job'.rom => Vacant(region', job'.entries[i])
  BY <1>1
<1> QED
  BY <1>7, <1>8, <1>9 DEF AtStream, Whole, Vacant, HeadUnit, Unit, FF

(* The power fails in an operation on the flash.                           *)
LEMMA DarkOK ==
  ASSUME FlashOK, user' = user, cardRoms' = cardRoms, region' = [u \in Units |-> region'[u]],
         user = "fs" => DirectoryOK(region'),
         NEW next, DOMAIN next = JobFields, job' = [next EXCEPT !.at = "dark", !.result = "power"]
  PROVE  FlashOK'
<1>1. DOMAIN job' = JobFields /\ job'.at = "dark" /\ job'.result = "power"
  BY DEF JobFields
<1>2. cardRoms' \in Seq([name : STRING, size : Nat])
  BY DEF FlashOK, FlashTyped
<1> QED
  BY <1>1, <1>2, RestingOK

LEMMA EraseOK ==
  ASSUME FlashOK, Erase PROVE FlashOK'
<1> DEFINE n == IF user = "fs" THEN BlockSize ELSE SectorSize
           done == job.from + n >= job.end
           D == Erased(job.from, n)
           at == IF ~done THEN "erase" ELSE IF user = "fs" THEN "header" ELSE "stream"
           from == IF done THEN 0 ELSE job.from + n
           rom == IF done THEN 1 ELSE 0
           next == [job EXCEPT !.at = at, !.from = from, !.rom = rom]
<1>1. /\ user' = user /\ cardRoms' = cardRoms /\ user \in {"fs", "cache"} /\ FlashTyped
      /\ InFlash(D, job.from, n, next) /\ DOMAIN job = JobFields
      /\ user = "fs" => DirectoryOK(region)
      /\ Planning /\ job.from \in Nat /\ job.k = 0 /\ job.page = <<>>
      /\ \A u \in Units : u < job.from => region[u] = FF
  BY DEF Erase, FlashOK, FlashTyped, AtErase
<1>2. n \in Nat /\ n > 0 /\ RegionSize \in Nat
  BY RegionSizes
<1>3. /\ DOMAIN next = JobFields /\ next.at = at /\ next.from = from /\ next.rom = rom
      /\ next.entries = job.entries /\ next.end = job.end /\ next.k = 0 /\ next.page = <<>>
  <2> HIDE DEF at, from, rom
  <2> QED
    BY <1>1 DEF JobFields
<1>4. /\ D = [u \in Units |-> D[u]] /\ \A u \in Units : D[u] \in {FF, region[u]}
      /\ \A u \in Units : u < job.from + n => D[u] = FF
  <2> HIDE DEF n
  <2>1. \A u \in Units : u < job.from + n => u \in job.from .. job.from + n - 1 \/ u < job.from
    BY <1>1, <1>2 DEF Units
  <2> QED
    BY <1>1, <2>1 DEF Erased
<1> HIDE DEF D, next, n
<1>5. /\ region' = [u \in Units |-> region'[u]]
      /\ \A u \in Units : region'[u] \in {FF, region[u]}
      /\ \/ region' = D /\ job' = next
         \/ job' = [next EXCEPT !.at = "dark", !.result = "power"]
  <2>1. /\ region' = [u \in Units |-> region'[u]]
        /\ \A u \in Units : region'[u] \in {D[u], region[u]}
        /\ \/ region' = D /\ job' = next
           \/ job' = [next EXCEPT !.at = "dark", !.result = "power"]
    BY <1>1, <1>4, FlashOp
  <2> QED
    BY <1>4, <2>1
<1>6. user = "fs" => DirectoryOK(region')
  BY <1>1, <1>5, ErasedDirectory
<1>7. CASE job' = [next EXCEPT !.at = "dark", !.result = "power"]
  BY <1>1, <1>3, <1>5, <1>6, <1>7, DarkOK
<1>8. CASE region' = D /\ job' = next
  <2>1. Planning'
    BY <1>1, <1>3, <1>8, PlanningKept
  <2>2. (user = "fs" => DirectoryOK(region))'
    BY <1>1, <1>6 DEF DirectoryOK, EntryIn, Placed, Own, NoEntry, FF, Unit
  <2>3. FlashTyped'
    BY <1>1, <1>3, <1>5, <1>8 DEF FlashTyped, Units
  <2>4. CASE ~done
    <3>1. job'.at = "erase" /\ job'.from = job.from + n
      BY <1>3, <1>8, <2>4
    <3>2. AtErase'
      BY <1>1, <1>2, <1>3, <1>4, <1>8, <2>1, <3>1 DEF AtErase, Units, FF
    <3>3. AtHeader' /\ AtStream' /\ AtRest'
      BY <3>1 DEF AtHeader, AtStream, AtRest
    <3> QED
      BY <2>2, <2>3, <3>2, <3>3 DEF FlashOK
  <2>5. CASE done
    <3>1. /\ job'.at = (IF user = "fs" THEN "header" ELSE "stream") /\ job'.from = 0 /\ job'.rom = 1
          /\ job'.entries = job.entries /\ job'.end = job.end /\ job'.k = 0 /\ job'.page = <<>>
      BY <1>3, <1>8, <2>5
    <3>2. job.entries \in Seq(RomImages) /\ Len(job.entries) \in Nat /\ Len(job.entries) # 0
      BY <1>1 DEF Planning, InRegion
    <3>3. ASSUME NEW i \in 1 .. Len(job.entries) PROVE Vacant(region', job.entries[i])
      <4> DEFINE e == job.entries[i]
      <4>1. e \in RomImages /\ e.offset + e.size <= job.end /\ e.offset + e.size <= RegionSize
        BY <1>1, <3>2 DEF Planning, InRegion
      <4>2. e.offset \in Nat /\ e.size \in Nat
        BY <4>1 DEF RomImages
      <4> HIDE DEF e
      <4>3. ASSUME NEW k \in 0 .. e.size - 1 PROVE D[e.offset + k] = FF
        <5>1. e.offset + k \in Units /\ e.offset + k < e.offset + e.size
          BY <1>2, <4>1, <4>2, SMTT(30) DEF Units
        <5>2. e.offset + k < job.from + n
          BY <1>1, <1>2, <2>5, <4>1, <4>2, <5>1 DEF Planning
        <5> QED
          BY <1>4, <5>1, <5>2
      <4> QED
        BY <1>8, <4>3 DEF Vacant, e
    <3>4. CASE user = "fs"
      <4>1. \A u \in Units : u < job.end => region'[u] = FF
        BY <1>1, <1>2, <1>4, <1>8, <2>5 DEF Units, Planning
      <4>2. AtHeader'
        <5>1. 0 \in 0 .. Len(job.entries) /\ \A u \in Units : ~(u < 0)
          BY <1>2, <3>2 DEF Units
        <5> QED
          BY <1>1, <2>1, <3>1, <3>4, <4>1, <5>1 DEF AtHeader, Units, HeadUnit, FF
      <4>3. AtErase' /\ AtStream' /\ AtRest'
        BY <3>1, <3>4 DEF AtErase, AtStream, AtRest
      <4> QED
        BY <2>2, <2>3, <4>2, <4>3 DEF FlashOK
    <3>5. CASE user = "cache"
      <4>1. job.entries[1].offset = 0 /\ 1 \in 1 .. Len(job.entries)
        BY <1>1, <3>2, <3>5 DEF Planning
      <4>2. AtStream'
        BY <1>1, <3>1, <3>3, <3>5, <4>1, ImageBegins
      <4>3. AtErase' /\ AtHeader' /\ AtRest'
        BY <3>1, <3>5 DEF AtErase, AtHeader, AtRest
      <4> QED
        BY <2>2, <2>3, <4>2, <4>3 DEF FlashOK
    <3> QED
      BY <1>1, <3>4, <3>5
  <2> QED
    BY <2>4, <2>5
<1> QED
  BY <1>5, <1>7, <1>8

LEMMA WriteHeaderOK ==
  ASSUME FlashOK, WriteHeader PROVE FlashOK'
<1> DEFINE E == job.entries
           n == Len(E)
           from == job.from
           done == from + PageSize >= Len(HeaderUnits)
           last == IF done THEN Len(HeaderUnits) ELSE from + PageSize
           page == SubSeq(HeaderUnits, from + 1, last)
           P == Programmed(from, page)
           at == IF done THEN "stream" ELSE "header"
           to == IF done THEN E[1].offset ELSE from + PageSize
           next == [job EXCEPT !.at = at, !.from = to]
<1>1. /\ user' = user /\ cardRoms' = cardRoms /\ user = "fs" /\ FlashTyped
      /\ InFlash(P, from, Len(page), next) /\ DOMAIN job = JobFields
      /\ Planning /\ from \in 0 .. n /\ job.rom = 1 /\ job.k = 0 /\ job.page = <<>>
      /\ \A u \in Units : u < job.end => region[u] = IF u < from THEN HeadUnit(E, u) ELSE FF
  BY DEF WriteHeader, FlashOK, FlashTyped, AtHeader
<1>2. /\ E \in Seq(RomImages) /\ n \in Nat /\ n # 0 /\ n <= MaxRoms /\ n < DirSize /\ job.end \in Nat
      /\ RegionSize \in Nat /\ DirSize \in Nat /\ PageSize \in Nat \ {0}
      /\ \A i \in 1 .. n : /\ E[i] \in RomImages /\ E[i].offset + E[i].size <= RegionSize
                           /\ E[i].offset + E[i].size <= job.end /\ E[i].offset >= DirSize
                           /\ E[i].offset \in Nat /\ E[i].size \in Nat
  <2>1. ASSUME NEW i \in 1 .. Len(job.entries)
        PROVE  job.entries[i] \in RomImages /\ job.entries[i].offset \in Nat /\ job.entries[i].size \in Nat
    <3>1. job.entries[i] \in RomImages
      BY <1>1 DEF Planning, InRegion
    <3> QED
      BY <3>1 DEF RomImages
  <2>2. n \in Nat /\ n # 0 /\ n <= MaxRoms /\ n < DirSize
    <3>1. n \in Nat /\ n # 0 /\ n <= MaxRoms
      BY <1>1 DEF Planning, InRegion
    <3> HIDE DEF n
    <3> QED
      BY <3>1, RegionSizes
  <2>3. RegionSize \in Nat /\ DirSize \in Nat /\ PageSize \in Nat \ {0}
    BY RegionSizes
  <2>4. /\ E \in Seq(RomImages) /\ job.end \in Nat
        /\ \A i \in 1 .. n : /\ E[i].offset + E[i].size <= RegionSize
                             /\ E[i].offset + E[i].size <= job.end /\ E[i].offset >= DirSize
    BY <1>1 DEF Planning, InRegion
  <2> QED
    BY <2>1, <2>2, <2>3, <2>4
<1>3. HeaderUnits = [j \in 1 .. n + 1 |-> HeadUnit(E, j - 1)] /\ Len(HeaderUnits) = n + 1
  BY <1>2, HeaderIs
<1>4. /\ DOMAIN next = JobFields /\ next.at = at /\ next.from = to /\ next.rom = 1
      /\ next.entries = E /\ next.end = job.end /\ next.k = 0 /\ next.page = <<>>
  <2> HIDE DEF at, to
  <2> QED
    BY <1>1 DEF JobFields
<1>5. last \in Nat /\ last > from /\ last <= n + 1 /\ (done => last = n + 1) /\ (~done => last = from + PageSize)
  <2>1. from \in Nat /\ from <= n /\ n \in Nat /\ PageSize \in Nat \ {0} /\ Len(HeaderUnits) = n + 1
    BY <1>1, <1>2, <1>3
  <2> HIDE DEF E, n, from
  <2> QED
    BY <2>1
<1>6. Len(page) = last - from /\ \A j \in 1 .. last - from : page[j] = HeadUnit(E, from + j - 1)
  <2> HIDE DEF last, from, E, n
  <2>1. from \in Nat
    BY <1>1, <1>2
  <2>2. \A j \in 1 .. last - from : from + j \in 1 .. n + 1 /\ (from + 1) + j - 1 = from + j
    BY <1>2, <1>5, <2>1
  <2> DEFINE All == {HeadUnit(E, u) : u \in 0 .. n}
  <2>3. \A j \in from + 1 .. last : HeaderUnits[j] \in All
    <3>1. \A j \in from + 1 .. last : j \in 1 .. n + 1 /\ j - 1 \in 0 .. n
      BY <1>2, <1>5, <2>1, SMTT(30)
    <3> QED
      BY <1>3, <3>1
  <2> HIDE DEF All
  <2>4. /\ Len(page) = last - (from + 1) + 1
        /\ \A j \in 1 .. last - (from + 1) + 1 : page[j] = HeaderUnits[(from + 1) + j - 1]
    BY <1>5, <2>1, <2>3, SubSeqProperties
  <2> HIDE DEF page
  <2>5. last - (from + 1) + 1 = last - from
    BY <1>5, <2>1
  <2>6. \A j \in 1 .. last - from : page[j] = HeaderUnits[from + j]
    BY <2>2, <2>4, <2>5
  <2>7. ASSUME NEW j \in 1 .. last - from PROVE page[j] = HeadUnit(E, from + j - 1)
    <3>1. from + j \in 1 .. n + 1 /\ page[j] = HeaderUnits[from + j]
      BY <2>2, <2>6
    <3> QED
      BY <1>3, <2>1, <3>1
  <2>8. Len(page) = last - from
    BY <2>4, <2>5
  <2> QED
    BY <2>7, <2>8
<1> HIDE DEF page, next, E, last, n, from
<1>7. \A u \in 0 .. n : u \in Units /\ u < job.end
  <2>1. 1 \in 1 .. n
    BY <1>2
  <2>2. n < RegionSize
    BY <1>2, RegionSizes
  <2>3. n < job.end /\ job.end \in Nat /\ n \in Nat /\ RegionSize \in Nat
    BY <1>2, <2>1, SMTT(30)
  <2> QED
    BY <2>2, <2>3 DEF Units
<1>8. P = [u \in Units |-> P[u]] /\ \A u \in Units : u < job.end => P[u] = IF u < last THEN HeadUnit(E, u) ELSE FF
  <2>1. ASSUME NEW u \in Units, u < job.end
        PROVE  P[u] = IF u < last THEN HeadUnit(E, u) ELSE FF
    <3>0. u \in Nat /\ from \in Nat
      BY <1>1, <1>2 DEF Units
    <3>1. CASE u \in from .. last - 1
      <4>1. u - from + 1 \in 1 .. last - from /\ from + (u - from + 1) - 1 = u /\ u < last /\ ~(u < from)
        BY <1>5, <3>0, <3>1
      <4>2. region[u] = FF
        BY <1>1, <2>1, <4>1
      <4>3. page[u - from + 1] = HeadUnit(E, u)
        BY <1>6, <4>1
      <4>4. u \in from .. from + Len(page) - 1
        BY <1>5, <1>6, <3>0, <3>1
      <4> QED
        BY <4>1, <4>2, <4>3, <4>4 DEF Programmed
    <3>2. CASE u \notin from .. last - 1
      <4>1. u \notin from .. from + Len(page) - 1
        BY <1>5, <1>6, <3>0, <3>2
      <4>2. (u < last) <=> (u < from)
        BY <1>5, <3>0, <3>2
      <4> QED
        BY <1>1, <2>1, <4>1, <4>2 DEF Programmed
    <3> QED
      BY <3>1, <3>2
  <2>2. P = [u \in Units |-> P[u]]
    BY DEF Programmed
  <2> QED
    BY <2>1, <2>2
<1> HIDE DEF P
<1>9. /\ region' = [u \in Units |-> region'[u]]
      /\ \A u \in Units : region'[u] \in {P[u], region[u]}
      /\ \/ region' = P /\ job' = next
         \/ job' = [next EXCEPT !.at = "dark", !.result = "power"]
  BY <1>1, <1>8, FlashOp
<1>10. \A i \in 1 .. n : Vacant(region', E[i])
  <2> SUFFICES ASSUME NEW i \in 1 .. n, NEW k \in 0 .. E[i].size - 1
               PROVE  region'[E[i].offset + k] = FF
    BY DEF Vacant
  <2> DEFINE u == E[i].offset + k
  <2>1. u \in Units /\ u < job.end /\ ~(u < last) /\ ~(u < from)
    <3>1. /\ E[i].offset + E[i].size <= RegionSize /\ E[i].offset + E[i].size <= job.end
          /\ E[i].offset >= DirSize /\ E[i].offset \in Nat /\ E[i].size \in Nat
      BY <1>2
    <3>2. from \in Nat /\ from <= n /\ n \in Nat /\ last \in Nat /\ last <= n + 1
      BY <1>1, <1>2, <1>5
    <3> DEFINE o == E[i].offset
               z == E[i].size
    <3>3. /\ o \in Nat /\ z \in Nat /\ o + z <= RegionSize /\ o + z <= job.end /\ n < o /\ k \in 0 .. z - 1
          /\ u = o + k /\ RegionSize \in Nat /\ job.end \in Nat
      BY <1>2, <3>1, <3>2, SMTT(30)
    <3> HIDE DEF o, z, u
    <3>4. u \in Units /\ u < job.end
      BY <3>3 DEF Units
    <3>5. ~(u < last) /\ ~(u < from)
      BY <3>2, <3>3
    <3> QED
      BY <3>4, <3>5
  <2> HIDE DEF u
  <2>2. P[u] = FF /\ region[u] = FF
    BY <1>1, <1>8, <2>1
  <2> QED
    BY <1>9, <2>1, <2>2 DEF u
<1>11. user = "fs" => DirectoryOK(region')
  <2>1. ASSUME NEW u \in 0 .. n PROVE region'[u] \in {FF, HeadUnit(E, u)}
    <3>1. u \in Units /\ u < job.end
      BY <1>7
    <3> QED
      BY <1>1, <1>8, <1>9, <3>1
  <2>2. \A i \in 1 .. n : Own(region', E[i])
    BY <1>10 DEF Vacant, Own
  <2> QED
    BY <1>1, <2>1, <2>2, PlannedDirectory DEF E, n
<1>12. CASE job' = [next EXCEPT !.at = "dark", !.result = "power"]
  BY <1>1, <1>4, <1>9, <1>11, <1>12, DarkOK
<1>13. CASE region' = P /\ job' = next
  <2>1. (user = "fs" => DirectoryOK(region))'
    BY <1>1, <1>11 DEF DirectoryOK, EntryIn, Placed, Own, NoEntry, FF, Unit
  <2>2. FlashTyped'
    BY <1>1, <1>4, <1>9, <1>13 DEF FlashTyped, Units
  <2>3. CASE ~done
    <3>1. /\ job'.at = "header" /\ job'.from = last /\ job'.rom = 1 /\ job'.k = 0 /\ job'.page = <<>>
          /\ job'.entries = job.entries /\ job'.end = job.end
      BY <1>4, <1>5, <1>13, <2>3 DEF E
    <3>2. Planning' /\ last \in 0 .. n
      <4>1. from + PageSize < n + 1
        BY <1>1, <1>2, <1>3, <2>3
      <4>2. last \in 0 .. n
        BY <1>1, <1>2, <1>5, <2>3, <4>1
      <4> QED
        BY <1>1, <3>1, <4>2, PlanningKept
    <3>3. AtHeader'
      BY <1>1, <1>8, <1>13, <3>1, <3>2 DEF AtHeader, E, n, Units, HeadUnit, FF
    <3>4. AtErase' /\ AtStream' /\ AtRest'
      BY <3>1 DEF AtErase, AtStream, AtRest
    <3> QED
      BY <2>1, <2>2, <3>3, <3>4 DEF FlashOK
  <2>4. CASE done
    <3>1. /\ job'.at = "stream" /\ job'.from = E[1].offset /\ job'.rom = 1 /\ job'.k = 0 /\ job'.page = <<>>
          /\ job'.entries = job.entries /\ job'.end = job.end
      BY <1>4, <1>13, <2>4 DEF E
    <3>2. \A u \in 0 .. n : region'[u] = HeadUnit(E, u)
      <4>1. ASSUME NEW u \in 0 .. n PROVE u \in Units /\ u < job.end /\ u < last
        <5>1. last = n + 1 /\ n \in Nat
          BY <1>2, <1>5, <2>4
        <5> QED
          BY <1>7, <5>1
      <4> QED
        BY <1>8, <1>13, <4>1
    <3>3. 1 \in 1 .. n /\ \A i \in 1 .. n : ~(i < 1)
      BY <1>2
    <3>4. AtStream'
      BY <1>1, <1>10, <3>1, <3>2, <3>3, ImageBegins DEF E, n
    <3>5. AtErase' /\ AtHeader' /\ AtRest'
      BY <3>1 DEF AtErase, AtHeader, AtRest
    <3> QED
      BY <2>1, <2>2, <3>4, <3>5 DEF FlashOK
  <2> QED
    BY <2>3, <2>4
<1> QED
  BY <1>9, <1>12, <1>13

(* The images of a job do not overlap.                                     *)
LEMMA ImagesApart ==
  ASSUME Planning, NEW i \in 1 .. Len(job.entries), NEW m \in 1 .. Len(job.entries), i # m,
         NEW k \in 0 .. job.entries[i].size - 1, NEW q \in 0 .. job.entries[m].size - 1
  PROVE  job.entries[i].offset + k # job.entries[m].offset + q
<1> DEFINE a == job.entries[i]
           b == job.entries[m]
<1>1. Len(job.entries) \in Nat /\ a \in RomImages /\ b \in RomImages
  BY DEF Planning, InRegion
<1>2. a.offset \in Nat /\ a.size \in Nat /\ b.offset \in Nat /\ b.size \in Nat
  BY <1>1 DEF RomImages
<1>3. a.offset + a.size <= b.offset \/ b.offset + b.size <= a.offset
  <2>1. i < m \/ m < i
    BY <1>1
  <2> QED
    BY <2>1 DEF Planning, InRegion
<1> DEFINE ao == a.offset
           az == a.size
           bo == b.offset
           bz == b.size
<1>4. /\ ao \in Nat /\ az \in Nat /\ bo \in Nat /\ bz \in Nat /\ k \in 0 .. az - 1 /\ q \in 0 .. bz - 1
      /\ ao + az <= bo \/ bo + bz <= ao
  BY <1>2, <1>3
<1> HIDE DEF ao, az, bo, bz
<1>5. ao + k # bo + q
  BY <1>4, SMTT(30)
<1> QED
  BY <1>5 DEF ao, bo

(* The image a job writes, and what a step leaves of the others.           *)
LEMMA CurrentIs ==
  ASSUME FlashOK, job.at = "stream"
  PROVE  /\ Planning /\ AtImage /\ job.rom \in 1 .. Len(job.entries) /\ Current \in RomImages
         /\ Current.offset \in Nat /\ Current.size \in Nat /\ Current.offset + Current.size <= RegionSize
         /\ Len(job.entries) \in Nat /\ RegionSize \in Nat /\ PageSize \in Nat \ {0}
         /\ user = "fs" => Current.offset > Len(job.entries)
<1>1. Planning /\ AtImage /\ job.rom \in 1 .. Len(job.entries)
  BY DEF FlashOK, AtStream
<1>2. /\ Current \in RomImages /\ Current.offset + Current.size <= RegionSize /\ Len(job.entries) \in Nat
      /\ user = "fs" => Current.offset >= DirSize /\ Len(job.entries) <= MaxRoms
  BY <1>1 DEF Planning, InRegion, Current
<1>3. Current.offset \in Nat /\ Current.size \in Nat
  BY <1>2 DEF RomImages
<1> QED
  BY <1>1, <1>2, <1>3, RegionSizes

LEMMA ReadUnitOK ==
  ASSUME FlashOK, ReadUnit PROVE FlashOK'
<1> DEFINE e == Current
           w == job.from - e.offset
           k == job.k
           page == job.page
           new == Append(page, Unit(e, k))
           next == [job EXCEPT !.page = new, !.k = k + 1]
<1>1. /\ user' = user /\ cardRoms' = cardRoms /\ region' = region /\ listing' = listing /\ job' = next
      /\ DOMAIN job = JobFields /\ job.at = "stream" /\ k < e.size /\ Len(page) < PageSize
  BY DEF ReadUnit, FlashOK, FlashTyped
<1>2. /\ Planning /\ AtImage /\ e.offset \in Nat /\ e.size \in Nat
      /\ job.rom \in 1 .. Len(job.entries) /\ PageSize \in Nat
  BY <1>1, CurrentIs
<1>3. /\ job.from \in Nat /\ w \in Nat /\ k \in 0 .. e.size /\ w <= k
      /\ \A q \in 0 .. e.size - 1 : region[e.offset + q] = IF q < w THEN Unit(e, q) ELSE FF
      /\ page = [j \in 1 .. k - w |-> Unit(e, w + j - 1)]
  BY <1>1, <1>2 DEF AtImage, Current
<1> DEFINE All == {Unit(e, q) : q \in 0 .. k}
<1> HIDE DEF e, w, k, page
<1>4. page \in Seq(All) /\ Len(page) = k - w /\ \A j \in 1 .. k - w : page[j] = Unit(e, w + j - 1)
  <2>1. \A j \in 1 .. k - w : w + j - 1 \in 0 .. k
    BY <1>2, <1>3
  <2>2. page \in [1 .. k - w -> All] /\ k - w \in Nat
    BY <1>2, <1>3, <2>1
  <2>3. \A j \in 1 .. k - w : page[j] = Unit(e, w + j - 1)
    BY <1>3
  <2> HIDE DEF All
  <2>4. page \in Seq(All)
    BY <2>2, SeqDef
  <2>5. Len(page) = k - w
    BY <2>2, <2>4, LenProperties
  <2> QED
    BY <2>3, <2>4, <2>5
<1>5. Unit(e, k) \in All
  BY <1>2, <1>3
<1> HIDE DEF All
<1>6. new = [j \in 1 .. k + 1 - w |-> Unit(e, w + j - 1)]
  <2>1. /\ new \in Seq(All) /\ Len(new) = Len(page) + 1 /\ new[Len(page) + 1] = Unit(e, k)
        /\ \A j \in 1 .. Len(page) : new[j] = page[j]
    BY <1>4, <1>5, AppendProperties
  <2> HIDE DEF new
  <2>2. Len(new) = k + 1 - w
    BY <1>2, <1>3, <1>4, <2>1
  <2>3. new = [j \in 1 .. k + 1 - w |-> new[j]]
    <3>1. new \in [1 .. k + 1 - w -> All]
      BY <2>1, <2>2, LenProperties
    <3> QED
      BY <3>1
  <2>4. ASSUME NEW j \in 1 .. k + 1 - w PROVE new[j] = Unit(e, w + j - 1)
    <3>1. CASE j = k - w + 1
      <4>1. w + j - 1 = k /\ Len(page) + 1 = j
        BY <1>2, <1>3, <1>4, <3>1
      <4> QED
        BY <2>1, <4>1
    <3>2. CASE j # k - w + 1
      <4>1. j \in 1 .. k - w
        BY <1>2, <1>3, <3>2
      <4> QED
        BY <1>4, <2>1, <4>1
    <3> QED
      BY <3>1, <3>2
  <2> QED
    BY <2>3, <2>4
<1>7. /\ DOMAIN job' = JobFields /\ job'.at = "stream" /\ job'.page = new /\ job'.k = k + 1
      /\ job'.from = job.from /\ job'.entries = job.entries /\ job'.end = job.end /\ job'.rom = job.rom
  <2> HIDE DEF new
  <2> QED
    BY <1>1 DEF JobFields
<1> HIDE DEF new, next
<1>8. AtImage'
  <2>1. job'.entries[job'.rom] = e /\ job'.from - e.offset = w
    BY <1>7 DEF e, w, Current
  <2>2. k + 1 \in 0 .. e.size /\ w <= k + 1 /\ k + 1 - w <= PageSize
    BY <1>1, <1>2, <1>3, <1>4
  <2>3. job'.page = [j \in 1 .. k + 1 - w |-> Unit(e, w + j - 1)]
    BY <1>6, <1>7
  <2>4. \A q \in 0 .. e.size - 1 : region'[e.offset + q] = IF q < w THEN Unit(e, q) ELSE FF
    BY <1>1, <1>3
  <2>5. /\ job'.from \in Nat /\ w \in Nat /\ job'.k \in 0 .. e.size
        /\ w <= job'.k /\ job'.k - w <= PageSize /\ job'.page = [j \in 1 .. job'.k - w |-> Unit(e, w + j - 1)]
    BY <1>3, <1>7, <2>2, <2>3
  <2> QED
    BY <2>1, <2>4, <2>5 DEF AtImage, Unit, FF
<1>9. Planning'
  BY <1>1, <1>2, <1>7, PlanningKept
<1>10. AtStream'
  <2>1. /\ user = "fs" => \A u \in 0 .. Len(job.entries) : region[u] = HeadUnit(job.entries, u)
        /\ \A i \in 1 .. Len(job.entries) : /\ i < job.rom => Whole(region, job.entries[i])
                                            /\ i > job.rom => Vacant(region, job.entries[i])
    BY <1>1 DEF FlashOK, AtStream
  <2>2. /\ job'.rom \in 1 .. Len(job'.entries)
        /\ user' = "fs" => \A u \in 0 .. Len(job'.entries) : region'[u] = HeadUnit(job'.entries, u)
        /\ \A i \in 1 .. Len(job'.entries) : /\ i < job'.rom => Whole(region', job'.entries[i])
                                             /\ i > job'.rom => Vacant(region', job'.entries[i])
    BY <1>1, <1>2, <1>7, <2>1
  <2> QED
    BY <1>8, <1>9, <2>2 DEF AtStream, HeadUnit, Whole, Vacant, Unit, FF
<1>11. AtErase' /\ AtHeader' /\ AtRest'
  BY <1>7 DEF AtErase, AtHeader, AtRest
<1>12. FlashTyped' /\ (user = "fs" => DirectoryOK(region))'
  BY <1>1, <1>7 DEF FlashOK, FlashTyped, Units, DirectoryOK, EntryIn, Placed, Own, NoEntry, FF, Unit
<1> QED
  BY <1>10, <1>11, <1>12 DEF FlashOK

LEMMA WritePageOK ==
  ASSUME FlashOK, WritePage PROVE FlashOK'
<1> DEFINE e == Current
           E == job.entries
           m == job.rom
           o == e.offset
           z == e.size
           w == job.from - o
           k == job.k
           page == job.page
           P == Programmed(job.from, page)
           next == [job EXCEPT !.page = <<>>, !.from = job.from + PageSize]
<1>1. /\ user' = user /\ cardRoms' = cardRoms /\ FlashTyped
      /\ InFlash(P, job.from, Len(page), next) /\ DOMAIN job = JobFields /\ job.at = "stream"
      /\ page # <<>> /\ (Len(page) = PageSize \/ k = z)
  BY DEF WritePage, FlashOK, FlashTyped
<1>2. /\ Planning /\ AtImage /\ e = E[m] /\ o \in Nat /\ z \in Nat /\ o + z <= RegionSize
      /\ m \in 1 .. Len(E) /\ PageSize \in Nat \ {0} /\ RegionSize \in Nat /\ Len(E) \in Nat
      /\ user = "fs" => o > Len(E)
  BY <1>1, CurrentIs DEF Current
<1>3. /\ job.from \in Nat /\ w \in Nat /\ k \in 0 .. z /\ w <= k /\ k - w <= PageSize
      /\ \A q \in 0 .. z - 1 : region[o + q] = IF q < w THEN Unit(e, q) ELSE FF
      /\ page = [j \in 1 .. k - w |-> Unit(e, w + j - 1)]
  BY <1>1, <1>2 DEF AtImage, Current
<1>4. /\ user = "fs" => \A u \in 0 .. Len(E) : region[u] = HeadUnit(E, u)
      /\ \A i \in 1 .. Len(E) : /\ i < m => Whole(region, E[i])
                                /\ i > m => Vacant(region, E[i])
  BY <1>1 DEF FlashOK, AtStream
<1>5. /\ DOMAIN next = JobFields /\ next.at = "stream" /\ next.page = <<>> /\ next.from = job.from + PageSize
      /\ next.k = k /\ next.rom = m /\ next.entries = E /\ next.end = job.end
  BY <1>1 DEF JobFields
<1> HIDE DEF e, m, w, k, page, next
<1>6. Len(page) = k - w /\ k # w /\ job.from = o + w
  <2> DEFINE All == {page[j] : j \in 1 .. k - w}
  <2>1. page \in [1 .. k - w -> All] /\ k - w \in Nat
    BY <1>2, <1>3, SMTT(30)
  <2> HIDE DEF All
  <2>2. page \in Seq(All)
    BY <2>1, SeqDef
  <2>3. Len(page) = k - w
    BY <2>1, <2>2, LenProperties
  <2>4. Len(page) # 0
    BY <1>1, <2>2, EmptySeq
  <2>5. job.from = o + w
    BY <1>2, <1>3, SMTT(30) DEF w
  <2> QED
    BY <1>3, <2>1, <2>3, <2>4, <2>5
<1> HIDE DEF o, z
<1>sizes. /\ o \in Nat /\ z \in Nat /\ w \in Nat /\ k \in Nat /\ w < k /\ k <= z /\ k - w <= PageSize
      /\ job.from = o + w /\ Len(page) = k - w /\ PageSize \in Nat \ {0} /\ o + z <= RegionSize
  BY <1>2, <1>3, <1>6
<1>7. /\ P = [u \in Units |-> P[u]]
      /\ \A q \in 0 .. z - 1 : P[o + q] = IF q < k THEN Unit(e, q) ELSE FF
      /\ \A u \in Units : (\A q \in 0 .. z - 1 : u # o + q) => P[u] = region[u]
  <2>1. ASSUME NEW q \in 0 .. z - 1
        PROVE  P[o + q] = IF q < k THEN Unit(e, q) ELSE FF
    <3> DEFINE u == o + q
    <3>1. u \in Units
      BY <1>2, SMTT(30) DEF Units
    <3>2. CASE q \in w .. k - 1
      <4>1. u \in job.from .. job.from + Len(page) - 1 /\ u - job.from + 1 = q - w + 1
        BY <1>sizes, <3>2
      <4>2. q - w + 1 \in 1 .. k - w /\ w + (q - w + 1) - 1 = q /\ q < k /\ ~(q < w)
        BY <1>2, <1>3, <3>2
      <4>3. page[q - w + 1] = Unit(e, w + (q - w + 1) - 1)
        BY <1>3, <4>2
      <4>4. region[u] = FF
        BY <1>3, <4>2
      <4> HIDE DEF u
      <4>5. P[u] = page[q - w + 1]
        BY <3>1, <4>1, <4>4 DEF Programmed
      <4> QED
        BY <4>2, <4>3, <4>5 DEF u
    <3>3. CASE q \notin w .. k - 1
      <4>1. u \notin job.from .. job.from + Len(page) - 1 /\ ((q < k) <=> (q < w))
        BY <1>sizes, <3>3
      <4>2. region[u] = IF q < w THEN Unit(e, q) ELSE FF
        BY <1>3
      <4> HIDE DEF u
      <4>3. P[u] = region[u]
        BY <3>1, <4>1 DEF Programmed
      <4> QED
        BY <4>1, <4>2, <4>3 DEF u
    <3> QED
      BY <3>2, <3>3
  <2>2. ASSUME NEW u \in Units, \A q \in 0 .. z - 1 : u # o + q
        PROVE  P[u] = region[u]
    <3>1. u \notin job.from .. job.from + Len(page) - 1
      <4> SUFFICES ASSUME u \in job.from .. job.from + Len(page) - 1 PROVE FALSE
        OBVIOUS
      <4>1. u - o \in 0 .. z - 1 /\ u = o + (u - o)
        BY <1>sizes
      <4> QED
        BY <2>2, <4>1
    <3> QED
      BY <3>1 DEF Programmed
  <2>3. P = [u \in Units |-> P[u]]
    BY DEF Programmed
  <2> HIDE DEF P
  <2> QED
    BY <2>1, <2>2, <2>3
<1> HIDE DEF P
<1>8. /\ region' = [u \in Units |-> region'[u]]
      /\ \A u \in Units : region'[u] \in {P[u], region[u]}
      /\ \/ region' = P /\ job' = next
         \/ job' = [next EXCEPT !.at = "dark", !.result = "power"]
  BY <1>1, <1>7, FlashOp
(* What is not of this image stays. *)
<1>9. ASSUME NEW i \in 1 .. Len(E), i # m, NEW q \in 0 .. E[i].size - 1
      PROVE  region'[E[i].offset + q] = region[E[i].offset + q]
  <2>1. E[i] \in RomImages /\ E[i].offset + E[i].size <= RegionSize
    BY <1>2 DEF Planning, InRegion
  <2>2. E[i].offset \in Nat /\ E[i].size \in Nat
    BY <2>1 DEF RomImages
  <2>3. E[i].offset + q \in Units
    <3> DEFINE a == E[i].offset
               b == E[i].size
    <3>1. a \in Nat /\ b \in Nat /\ a + b <= RegionSize /\ q \in 0 .. b - 1
      BY <2>1, <2>2
    <3> HIDE DEF a, b
    <3>2. a + q \in Units
      BY <1>2, <3>1, SMTT(30) DEF Units
    <3> QED
      BY <3>2 DEF a
  <2>4. \A p \in 0 .. z - 1 : E[i].offset + q # o + p
    BY <1>2, <1>9, ImagesApart DEF o, z
  <2>5. P[E[i].offset + q] = region[E[i].offset + q]
    BY <1>7, <2>3, <2>4
  <2> HIDE DEF E
  <2> QED
    BY <1>8, <2>3, <2>5
<1>10. ASSUME user = "fs", NEW u \in 0 .. Len(E)
       PROVE  region'[u] = HeadUnit(E, u)
  <2>1. u \in Units /\ \A q \in 0 .. z - 1 : u # o + q
    BY <1>2, <1>10, SMTT(30) DEF Units
  <2>2. P[u] = region[u] /\ region[u] = HeadUnit(E, u)
    BY <1>4, <1>7, <1>10, <2>1
  <2> QED
    BY <1>8, <2>1, <2>2
<1>11. /\ \A i \in 1 .. Len(E) : i < m => Whole(region', E[i])
       /\ \A i \in 1 .. Len(E) : i > m => Vacant(region', E[i])
  <2>1. \A i \in 1 .. Len(E) : (i < m \/ i > m) => i # m
    BY <1>2
  <2> HIDE DEF E
  <2> QED
    BY <1>4, <1>9, <2>1 DEF Whole, Vacant
<1>12. user = "fs" => DirectoryOK(region')
  <2>1. \A i \in 1 .. Len(E) : i # m => Own(region', E[i])
    <3>1. \A i \in 1 .. Len(E) : i # m => i < m \/ i > m
      BY <1>2
    <3> HIDE DEF E
    <3> QED
      BY <1>11, <3>1 DEF Whole, Vacant, Own
  <2>2. Own(region', E[m])
    <3> SUFFICES ASSUME NEW q \in 0 .. z - 1 PROVE region'[o + q] \in {FF, Unit(e, q)}
      BY <1>2 DEF Own, o, z
    <3>1. o + q \in Units
      BY <1>2 DEF Units
    <3>2. P[o + q] \in {FF, Unit(e, q)} /\ region[o + q] \in {FF, Unit(e, q)}
      BY <1>3, <1>7
    <3> QED
      BY <1>8, <3>1, <3>2
  <2> QED
    BY <1>2, <1>10, <2>1, <2>2, PlannedDirectory
<1>13. CASE job' = [next EXCEPT !.at = "dark", !.result = "power"]
  BY <1>1, <1>5, <1>8, <1>12, <1>13, DarkOK
<1>14. CASE region' = P /\ job' = next
  <2>1. /\ DOMAIN job' = JobFields /\ job'.at = "stream" /\ job'.page = <<>> /\ job'.from = job.from + PageSize
        /\ job'.k = k /\ job'.rom = m /\ job'.entries = job.entries /\ job'.end = job.end
    BY <1>5, <1>14
  <2>2. Planning'
    BY <1>1, <1>2, <2>1, PlanningKept
  <2> DEFINE w2 == w + PageSize
  <2>3. /\ job'.entries[job'.rom] = e /\ job'.from - o = w2 /\ w2 \in Nat /\ job'.from \in Nat
        /\ job'.k \in 0 .. z
    <3>1. job'.from = o + w2
      BY <1>2, <1>3, <1>6, <2>1
    <3> QED
      BY <1>2, <1>3, <2>1, <3>1
  <2>4. w2 = k \/ (k = z /\ w2 >= k)
    BY <1>1, <1>2, <1>3, <1>6
  <2>5. \A q \in 0 .. z - 1 : region'[o + q] = IF q < w2 THEN Unit(e, q) ELSE FF
    <3>1. \A q \in 0 .. z - 1 : (q < w2) <=> (q < k)
      BY <1>sizes, <2>4 DEF w2
    <3> QED
      BY <1>7, <1>14, <3>1
  <2> HIDE DEF w2
  <2>6. \/ job'.page = <<>> /\ job'.k = z /\ w2 >= z
        \/ /\ w2 <= job'.k /\ job'.k - w2 <= PageSize
           /\ job'.page = [j \in 1 .. job'.k - w2 |-> Unit(e, w2 + j - 1)]
    <3>1. CASE w2 = k
      <4> DEFINE f == [j \in 1 .. 0 |-> Unit(e, w2 + j - 1)]
      <4>1. f = [j \in 1 .. 0 |-> f[j]]
        OBVIOUS
      <4> HIDE DEF f
      <4>2. f = <<>>
        BY <4>1, NothingRead
      <4>3. job'.k - w2 = 0 /\ w2 <= job'.k
        BY <2>1, <2>3, <3>1
      <4> QED
        BY <1>2, <2>1, <4>2, <4>3 DEF f
    <3>2. CASE k = z /\ w2 >= k
      BY <2>1, <3>2
    <3> QED
      BY <2>4, <3>1, <3>2
  <2>7. AtImage'
    BY <2>3, <2>5, <2>6 DEF AtImage, Unit, FF, o, z
  <2>8. /\ job'.rom \in 1 .. Len(job'.entries)
        /\ user' = "fs" => \A u \in 0 .. Len(job'.entries) : region'[u] = HeadUnit(job'.entries, u)
        /\ \A i \in 1 .. Len(job'.entries) : /\ i < job'.rom => Whole(region', job'.entries[i])
                                             /\ i > job'.rom => Vacant(region', job'.entries[i])
    BY <1>1, <1>2, <1>10, <1>11, <2>1
  <2>9. AtStream'
    BY <2>2, <2>7, <2>8 DEF AtStream, HeadUnit, Whole, Vacant, Unit, FF
  <2>10. AtErase' /\ AtHeader' /\ AtRest'
    BY <2>1 DEF AtErase, AtHeader, AtRest
  <2>11. (user = "fs" => DirectoryOK(region))'
    BY <1>1, <1>12 DEF DirectoryOK, EntryIn, Placed, Own, NoEntry, FF, Unit
  <2>12. FlashTyped'
    BY <1>1, <1>8, <2>1 DEF FlashTyped, Units
  <2> QED
    BY <2>9, <2>10, <2>11, <2>12 DEF FlashOK
<1> QED
  BY <1>8, <1>13, <1>14

(* The directory of a job that is done.                                    *)
LEMMA DirectoryIs ==
  ASSUME Planning, \A u \in 0 .. Len(job.entries) : region[u] = HeadUnit(job.entries, u)
  PROVE  Directory = job.entries
<1> DEFINE E == job.entries
           n == Len(E)
<1>1. E \in Seq(RomImages) /\ n \in Nat
  BY DEF Planning, InRegion
<1>2. region[0] = <<"MNES", n>> /\ \A i \in 1 .. n : region[i] = <<"entry", E[i]>>
  <2>1. 0 \in 0 .. n /\ \A i \in 1 .. n : i \in 0 .. n /\ i # 0
    BY <1>1
  <2> QED
    BY <2>1 DEF HeadUnit
<1> HIDE DEF E, n
<1>3. \A i \in 1 .. n : Entry(i) = E[i]
  BY <1>2 DEF Entry
<1>4. E = [i \in 1 .. n |-> E[i]]
  <2>1. E \in [1 .. n -> RomImages]
    BY <1>1, LenProperties DEF n
  <2> QED
    BY <2>1
<1>5. HeaderValid /\ region[0][2] = n
  BY <1>2 DEF HeaderValid
<1> QED
  BY <1>3, <1>4, <1>5 DEF Directory, E

LEMMA NextImageOK ==
  ASSUME FlashOK, NextImage PROVE FlashOK'
<1> DEFINE e == Current
           E == job.entries
           m == job.rom
           n == Len(E)
           w == job.from - e.offset
<1>1. /\ user' = user /\ cardRoms' = cardRoms /\ region' = region
      /\ DOMAIN job = JobFields /\ job.at = "stream" /\ job.k = e.size /\ job.page = <<>>
      /\ FlashTyped /\ (user = "fs" => DirectoryOK(region))
  BY DEF NextImage, FlashOK, FlashTyped
<1>2. /\ Planning /\ AtImage /\ e = E[m] /\ e.offset \in Nat /\ e.size \in Nat
      /\ m \in 1 .. n /\ n \in Nat
  BY <1>1, CurrentIs DEF Current
<1>3. /\ user = "fs" => \A u \in 0 .. n : region[u] = HeadUnit(E, u)
      /\ \A i \in 1 .. n : /\ i < m => Whole(region, E[i])
                           /\ i > m => Vacant(region, E[i])
  BY <1>1 DEF FlashOK, AtStream
<1>4. Whole(region, e)
  <2>1. w >= e.size /\ w \in Nat
    <3>1. /\ w \in Nat
          /\ \/ w >= e.size
             \/ w <= e.size /\ <<>> = [j \in 1 .. e.size - w |-> Unit(e, w + j - 1)]
      BY <1>1, <1>2 DEF AtImage, Current
    <3> DEFINE z == e.size
               f == [j \in 1 .. z - w |-> Unit(e, w + j - 1)]
    <3>2. z \in Nat
      BY <1>2
    <3> HIDE DEF z, w
    <3>3. ASSUME w <= z, <<>> = f PROVE w >= z
      <4>1. DOMAIN f = 1 .. z - w
        OBVIOUS
      <4> HIDE DEF f
      <4>2. 1 .. z - w = {}
        BY <3>3, <4>1
      <4>3. ~(z - w >= 1)
        BY <3>1, <3>2, <4>2
      <4> QED
        BY <3>1, <3>2, <4>3
    <3> QED
      BY <3>1, <3>3 DEF z
  <2>2. \A q \in 0 .. e.size - 1 : region[e.offset + q] = IF q < w THEN Unit(e, q) ELSE FF
    BY <1>2 DEF AtImage, Current
  <2> HIDE DEF w, e
  <2>3. \A q \in 0 .. e.size - 1 : q < w
    BY <1>2, <2>1, SMTT(30)
  <2> QED
    BY <2>2, <2>3 DEF Whole
<1>5. \A i \in 1 .. n : i <= m => Whole(region, E[i])
  <2>1. \A i \in 1 .. n : i <= m => i < m \/ i = m
    BY <1>2
  <2> HIDE DEF e
  <2> QED
    BY <1>2, <1>3, <1>4, <2>1
<1> HIDE DEF e, w
<1>6. CASE m < n
  <2> DEFINE from == E[m + 1].offset
             next == [job EXCEPT !.rom = m + 1, !.k = 0, !.from = from]
  <2>1. job' = next
    BY <1>6 DEF NextImage
  <2>2. /\ DOMAIN next = JobFields /\ next.at = "stream" /\ next.rom = m + 1 /\ next.k = 0
        /\ next.from = from /\ next.page = <<>> /\ next.entries = E /\ next.end = job.end
    <3> HIDE DEF from
    <3> QED
      BY <1>1 DEF JobFields
  <2>3. /\ DOMAIN job' = JobFields /\ job'.at = "stream" /\ job'.rom = m + 1 /\ job'.k = 0
        /\ job'.from = E[m + 1].offset /\ job'.page = <<>> /\ job'.entries = E /\ job'.end = job.end
    <3> HIDE DEF next
    <3> QED
      BY <2>1, <2>2
  <2> HIDE DEF next
  <2>4. /\ m + 1 \in 1 .. n
        /\ \A i \in 1 .. n : (i < m + 1 => i <= m) /\ (i >= m + 1 => i > m)
    BY <1>2, <1>6, SMTT(30)
  <2>5. \A i \in 1 .. n : /\ i < m + 1 => Whole(region', E[i])
                          /\ i >= m + 1 => Vacant(region', E[i])
    BY <1>1, <1>3, <1>5, <2>4
  <2>6. AtStream'
    BY <1>1, <1>2, <1>3, <2>3, <2>4, <2>5, ImageBegins
  <2>7. AtErase' /\ AtHeader' /\ AtRest'
    BY <2>3 DEF AtErase, AtHeader, AtRest
  <2>8. FlashTyped' /\ (user = "fs" => DirectoryOK(region))'
    <3>1. FlashTyped'
      BY <1>1, <2>3 DEF FlashTyped, Units
    <3>2. (user = "fs" => DirectoryOK(region))'
      BY <1>1 DEF DirectoryOK, EntryIn, Placed, Own, NoEntry, FF, Unit
    <3> QED
      BY <3>1, <3>2
  <2> QED
    BY <2>6, <2>7, <2>8 DEF FlashOK
<1>7. CASE ~(m < n)
  <2>1. job' = Ended("ok") /\ listing' = IF user = "fs" THEN Directory ELSE listing
    BY <1>7 DEF NextImage
  <2>2. DOMAIN job' = JobFields /\ job'.at = "idle" /\ job'.entries = E
    <3>1. DOMAIN Ended("ok") = JobFields /\ Ended("ok").at = "idle" /\ Ended("ok").entries = E
      BY <1>1 DEF Ended, JobFields
    <3> QED
      BY <2>1, <3>1
  <2>3. user = "fs" => Directory = E /\ Directory' = E /\ listing' = E
    <3>1. ASSUME user = "fs" PROVE Directory = E
      BY <1>2, <1>3, <3>1, DirectoryIs
    <3>2. Directory' = Directory
      BY <1>1 DEF Directory, HeaderValid, Entry, NoEntry
    <3> QED
      BY <2>1, <3>1, <3>2
  <2>4. \A i \in 1 .. n : Whole(region', E[i])
    <3>1. \A i \in 1 .. n : i <= m
      BY <1>2, <1>7
    <3> QED
      BY <1>1, <1>5, <3>1
  <2>5. AtRest'
    BY <1>1, <2>2, <2>3, <2>4 DEF AtRest, Whole, Unit
  <2>6. AtErase' /\ AtHeader' /\ AtStream'
    BY <2>2 DEF AtErase, AtHeader, AtStream
  <2>7. FlashTyped' /\ (user = "fs" => DirectoryOK(region))'
    BY <1>1, <2>2 DEF FlashTyped, Units, DirectoryOK, EntryIn, Placed, Own, NoEntry, FF, Unit
  <2> QED
    BY <2>5, <2>6, <2>7 DEF FlashOK
<1> QED
  BY <1>6, <1>7

LEMMA RestsOK ==
  ASSUME FlashOK, ReadFails \/ PowerOn \/ ChangeRoms PROVE FlashOK'
<1>1. /\ DOMAIN job = JobFields /\ region = [u \in Units |-> region[u]]
      /\ user = "fs" => DirectoryOK(region)
      /\ cardRoms \in Seq([name : STRING, size : Nat])
  BY DEF FlashOK, FlashTyped
<1>2. user' = user /\ region' = region
  BY DEF ReadFails, PowerOn, ChangeRoms
<1>3. cardRoms' \in Seq([name : STRING, size : Nat])
  <2>1. CASE ReadFails \/ PowerOn
    BY <1>1, <2>1 DEF ReadFails, PowerOn
  <2>2. CASE ChangeRoms
    <3>1. cardRoms' \in Cards
      BY <2>2 DEF ChangeRoms
    <3> QED
      BY <3>1, FlashAssumption
  <2> QED
    BY <2>1, <2>2
<1>4. DOMAIN job' = JobFields /\ job'.at = "idle" /\ job'.result # "ok"
  <2>1. CASE ReadFails
    <3>1. job' = Ended("failed")
      BY <2>1 DEF ReadFails
    <3> QED
      BY <1>1, <3>1, EndedIs
  <2>2. CASE ChangeRoms
    <3>1. job' = Ended("changed")
      BY <2>2 DEF ChangeRoms
    <3> QED
      BY <1>1, <3>1, EndedIs
  <2>3. CASE PowerOn
    <3>1. job' = [job EXCEPT !.at = "idle"] /\ job.result = "power"
      BY <2>3 DEF PowerOn, FlashOK, AtRest
    <3> QED
      BY <1>1, <3>1 DEF JobFields
  <2> QED
    BY <2>1, <2>2, <2>3
<1> QED
  BY <1>1, <1>2, <1>3, <1>4, RestingOK

LEMMA EraseDirectoryOK ==
  ASSUME FlashOK, EraseDirectory PROVE FlashOK'
<1>1. /\ user' = user /\ cardRoms' = cardRoms /\ region' = region /\ FlashTyped
      /\ user = "fs" => DirectoryOK(region)
      /\ job' = [BeginJob EXCEPT !.at = "clear", !.end = DirSize]
  BY DEF EraseDirectory, FlashOK
<1>2. DOMAIN job' = JobFields /\ job'.at = "clear"
  BY <1>1 DEF BeginJob, JobFields
<1> QED
  BY <1>1, <1>2, ClearingOK DEF FlashTyped

LEMMA EraseDirSectorOK ==
  ASSUME FlashOK, EraseDirSector PROVE FlashOK'
<1> DEFINE D == Erased(job.from, SectorSize)
           b == Ended("erased")
           on == [job EXCEPT !.from = @ + SectorSize]
           next == IF job.from + SectorSize >= job.end THEN b ELSE on
<1>1. /\ user' = user /\ cardRoms' = cardRoms /\ FlashTyped /\ DOMAIN job = JobFields /\ job.at = "clear"
      /\ cardRoms \in Seq([name : STRING, size : Nat]) /\ (user = "fs" => DirectoryOK(region))
      /\ InFlash(D, job.from, SectorSize, next)
  BY DEF EraseDirSector, FlashOK, FlashTyped
<1>2. D = [u \in Units |-> D[u]] /\ \A u \in Units : D[u] \in {FF, region[u]}
  BY DEF Erased
<1>3. DOMAIN b = JobFields /\ b.at = "idle" /\ b.result = "erased"
  BY <1>1, EndedIs
<1>4. DOMAIN on = JobFields /\ on.at = "clear"
  BY <1>1 DEF JobFields
<1> HIDE DEF b, on, D
<1>5. DOMAIN next = JobFields
  BY <1>3, <1>4
<1>6. /\ region' = [u \in Units |-> region'[u]]
      /\ \A u \in Units : region'[u] \in {D[u], region[u]}
      /\ \/ region' = D /\ job' = next
         \/ job' = [next EXCEPT !.at = "dark", !.result = "power"]
  <2> HIDE DEF next
  <2> QED
    BY <1>1, <1>2, FlashOp
<1>7. \A u \in Units : region'[u] \in {FF, region[u]}
  BY <1>2, <1>6
<1>8. user = "fs" => DirectoryOK(region')
  BY <1>1, <1>7, ErasedDirectory
<1>9. CASE job' = [next EXCEPT !.at = "dark", !.result = "power"]
  <2> HIDE DEF next
  <2> QED
    BY <1>1, <1>5, <1>6, <1>8, <1>9, DarkOK
<1>10. CASE job' = b
  BY <1>1, <1>3, <1>6, <1>8, <1>10, RestingOK
<1>11. CASE job' = on
  BY <1>1, <1>4, <1>6, <1>8, <1>11, ClearingOK
<1> QED
  BY <1>6, <1>9, <1>10, <1>11

LEMMA FlashStutters ==
  ASSUME FlashOK, UNCHANGED flashVars PROVE FlashOK'
<1>1. user' = user /\ cardRoms' = cardRoms /\ region' = region /\ listing' = listing /\ job' = job
  BY DEF flashVars
<1>2. FlashTyped' /\ (user = "fs" => DirectoryOK(region))'
  BY <1>1 DEF FlashOK, FlashTyped, Units, DirectoryOK, EntryIn, Placed, Own, NoEntry, FF, Unit
<1>3. Planning' = Planning /\ AtImage' = AtImage
  BY <1>1 DEF Planning, InRegion, AtImage, Unit, FF
<1>4. AtErase' /\ AtHeader' /\ AtRest'
  BY <1>1, <1>3 DEF FlashOK, AtErase, AtHeader, AtRest, Units, HeadUnit, Whole, Unit, FF, Directory,
                    HeaderValid, Entry, NoEntry
<1>5. AtStream'
  BY <1>1, <1>3 DEF FlashOK, AtStream, HeadUnit, Whole, Vacant, Unit, FF
<1> QED
  BY <1>2, <1>4, <1>5 DEF FlashOK

LEMMA FlashStep == FlashOK /\ [FlashNext]_flashVars => FlashOK'
<1> SUFFICES ASSUME FlashOK, [FlashNext]_flashVars PROVE FlashOK'
  OBVIOUS
<1>1. CASE StartCopy
  BY <1>1, StartCopyOK
<1>2. ASSUME NEW i \in 1 .. 2, StartLaunch(i) PROVE FlashOK'
  BY <1>2, StartLaunchOK
<1>3. CASE Erase
  BY <1>3, EraseOK
<1>4. CASE WriteHeader
  BY <1>4, WriteHeaderOK
<1>5. CASE ReadUnit
  BY <1>5, ReadUnitOK
<1>6. CASE WritePage
  BY <1>6, WritePageOK
<1>7. CASE NextImage
  BY <1>7, NextImageOK
<1>8. CASE ReadFails \/ PowerOn \/ ChangeRoms
  BY <1>8, RestsOK
<1>9. CASE EraseDirectory
  BY <1>9, EraseDirectoryOK
<1>10. CASE EraseDirSector
  BY <1>10, EraseDirSectorOK
<1>11. CASE UNCHANGED flashVars
  BY <1>11, FlashStutters
<1> QED
  BY <1>1, <1>2, <1>3, <1>4, <1>5, <1>6, <1>7, <1>8, <1>9, <1>10, <1>11 DEF FlashNext

LEMMA OwnFollows == FlashOK => ImagesAreOwn
<1> SUFFICES ASSUME FlashOK PROVE ImagesAreOwn
  OBVIOUS
<1>1. ASSUME job.at = "idle", job.result = "ok"
      PROVE  /\ user = "fs" => Directory = job.entries /\ listing = job.entries
             /\ \A i \in 1 .. Len(job.entries) : \A k \in 0 .. job.entries[i].size - 1 :
                  region[job.entries[i].offset + k] = Unit(job.entries[i], k)
  BY <1>1 DEF FlashOK, AtRest, Whole
<1>2. ASSUME user = "fs", HeaderValid, NEW i \in 1 .. Len(Directory)
      PROVE  Placed(region, Directory[i])
  <2> DEFINE n == region[0][2]
             D == [j \in 1 .. n |-> EntryIn(region, j)]
  <2>1. n \in Nat /\ \A j \in 1 .. n : EntryIn(region, j) \in RomImages /\ Placed(region, EntryIn(region, j))
    BY <1>2, RegionSizes DEF FlashOK, DirectoryOK, HeaderValid
  <2>2. Directory = D
    BY <1>2 DEF Directory, Entry, EntryIn
  <2> HIDE DEF n
  <2>3. Len(D) = n
    <3>1. D \in [1 .. n -> RomImages]
      BY <2>1
    <3> HIDE DEF D
    <3>2. D \in Seq(RomImages)
      BY <2>1, <3>1, SeqDef
    <3> QED
      BY <2>1, <3>1, <3>2, LenProperties
  <2>4. i \in 1 .. n /\ D[i] = EntryIn(region, i)
    BY <1>2, <2>2, <2>3
  <2> HIDE DEF D
  <2> QED
    BY <2>1, <2>2, <2>4
<1> QED
  BY <1>1, <1>2 DEF ImagesAreOwn, Placed, Own

(* ROMs in the flash: a copy or a launch that reports success has left     *)
(* every image whole, and an entry of a valid directory is still erased or *)
(* names a place behind the directory that holds that image's own data or  *)
(* none, whatever operation the power failed in.                           *)
THEOREM ImagesOwnTheirUnits == FlashSpec => []ImagesAreOwn
<1>1. FlashInit => FlashOK
  BY FlashInitOK
<1>2. FlashOK /\ [FlashNext]_flashVars => FlashOK'
  BY FlashStep
<1>3. FlashOK => ImagesAreOwn
  BY OwnFollows
<1> QED
  BY <1>1, <1>2, <1>3, PTL DEF FlashSpec
=============================================================================
