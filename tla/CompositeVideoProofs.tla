------------------------ MODULE CompositeVideoProofs ------------------------
(***************************************************************************)
(* The composite video for every raster, picture, queue and number of      *)
(* frames: the raster is intact once core 1 is on time again, its lines    *)
(* follow one another, and a frame replaces the one before it from the top *)
(* down.  MCCompositeVideo checks the same on a raster of four lines.      *)
(***************************************************************************)
EXTENDS CompositeVideo, SequenceTheorems, TLAPS

-----------------------------------------------------------------------------
(* The inductive invariant.                                                *)

(* Where the two cores are: core 0 has a line in hand only while it pushes *)
(* a frame, it starts every frame at the top, and while the flash may be   *)
(* busy the DMA is stopped; core 1 starts before the first frame of it.    *)
CoresOK ==
  /\ offered # NoLine =>
       c0 \in DOMAIN Afterwards /\ row < Rows /\ offered = [y |-> row, frame |-> frame]
  /\ c0 \notin DOMAIN Afterwards => row = 0
  /\ c0 \in {"start", "reset", "flash", "report"} => ~on
  /\ c1 \in {"off", "boot"} => ~on
  /\ c1 = "boot" => c0 \in {"loop", "frame"}
  /\ popping => pulls < MaxPulls

(* What is queued comes row by row, and goes on where the screen ends: the *)
(* row above a queued one is queued just before it, or on the screen.      *)
Line(y, f) == [y |-> y, frame |-> f]
QueueGoesOn ==
  /\ fifo # <<>> /\ fifo[1].y > 0 => rows[fifo[1].y - 1] = fifo[1].frame
  /\ \A i \in 2 .. Len(fifo) :
       fifo[i].y > 0 => fifo[i - 1] = Line(fifo[i].y - 1, fifo[i].frame)
  /\ row > 0 => IF fifo = <<>> THEN rows[row - 1] = frame
                ELSE fifo[Len(fifo)] = Line(row - 1, frame)

(* The screen shows no frame newer than a queued one, nor this one than    *)
(* one behind it, nor any than the frame that core 0 presents.             *)
FramesGrow ==
  /\ \A y \in 0 .. Rows - 1 :
       rows[y] <= frame /\ \A i \in 1 .. Len(fifo) : rows[y] <= fifo[i].frame
  /\ \A i \in 1 .. Len(fifo) :
       fifo[i].frame <= frame /\ \A j \in i .. Len(fifo) : fifo[i].frame <= fifo[j].frame

StreamOK == QueueGoesOn /\ FramesGrow /\ NewestFirst

(* The line core 1 has to render, with its phase.                          *)
Due == [line |-> line, phase |-> phase]

(* Core 1's round in the time of a line: the interrupt, the wait for it,   *)
(* the rows from the queue, the rendering into the idle buffer, and the    *)
(* wait for the next line with that buffer armed.                          *)
Round ==
  \/ c1 = "wait" /\ ~pending /\ ints = {1 - playing}
  \/ c1 = "wait" /\ pending /\ ints = {} /\ idle = 1 - playing
  \/ c1 \in {"pull", "render"} /\ ~pending /\ ints = {} /\ idle = 1 - playing
  \/ c1 = "draw" /\ ~pending /\ ints = {} /\ idle = 1 - playing /\ into = idle
                 /\ buf[into] = Due
  \/ OnTime /\ 1 - playing \in armed /\ Due = After(buf[1 - playing])

(* One line after core 1 was on time it is in its round; one more, and the *)
(* line that goes out is clean and the next one follows it.                *)
BeamOK ==
  on => /\ calm >= 1 => Round
        /\ calm = Calm => /\ air.clean
                          /\ IF OnTime THEN buf[1 - playing] = After(air)
                             ELSE Due = After(air)

IInv == TypeOK /\ CoresOK /\ StreamOK /\ BeamOK

-----------------------------------------------------------------------------
(* Types.                                                                  *)
LEMMA Sizes ==
  /\ Rows \in Nat \ {0} /\ MaxPulls \in Nat \ {0} /\ Capacity \in Nat \ {0}
  /\ RasterLines \in Nat /\ RasterLines > 2
  /\ LastFrame \in Nat /\ MaxFlashes \in Nat /\ Blocks \in Nat /\ MaxLate \in Nat
  /\ Lines = [y : 0 .. Rows - 1, frame : 0 .. LastFrame]
BY VideoAssumption

LEMMA AfterTyped ==
  ASSUME NEW l \in Int, NEW p \in 0 .. 2, l >= -1
  PROVE  /\ (l + 1) % RasterLines \in 0 .. RasterLines - 1
         /\ (p + 1) % 3 \in 0 .. 2
<1>1. RasterLines \in Nat \ {0} /\ l + 1 \in Nat
  BY Sizes, SMT
<1> QED
  BY <1>1, SMT

LEMMA InitOK == Init => IInv
<1> SUFFICES ASSUME Init PROVE IInv
  OBVIOUS
<1> USE Sizes
<1>1. TypeOK
  <2>1. /\ fifo \in Seq(Lines) /\ Len(fifo) = 0
        /\ rows \in [0 .. Rows - 1 -> 0 .. LastFrame]
        /\ buf \in [Channels -> [line : 0 .. RasterLines - 1, phase : 0 .. 2]]
    BY SMT DEF Init, FifoInit
  <2> QED
    BY <2>1, SMTT(30) DEF Init, FifoInit, TypeOK, Afterwards, Channels, Stray, Calm
<1>2. CoresOK
  BY SMT DEF Init, FifoInit, CoresOK, Afterwards
<1>3. StreamOK
  BY SMT DEF Init, FifoInit, StreamOK, QueueGoesOn, FramesGrow, NewestFirst
<1>4. BeamOK
  BY DEF Init, BeamOK
<1> QED
  BY <1>1, <1>2, <1>3, <1>4 DEF IInv

(* A frame has been pushed only where core 0 pushes one.                   *)
LEMMA PresentedWhere ==
  ASSUME TypeOK, CoresOK, Presented
  PROVE  /\ c0 \in {"frame", "progress", "warning", "report"}
         /\ c0' \in {"loop", "warn", "flash"}
         /\ c0 = "frame" => c0' = "loop"
         /\ c0' = "flash" => c0 = "report"
<1>1. row # 0
  BY Sizes, SMT DEF Presented
<1>2. c0 \in {"frame", "progress", "warning", "report"}
  BY <1>1 DEF CoresOK, Afterwards
<1> QED
  BY <1>2, SMT DEF Presented, Afterwards

LEMMA TypeStep == IInv /\ [Next]_vars => TypeOK'
<1> SUFFICES ASSUME IInv, [Next]_vars PROVE TypeOK'
  OBVIOUS
<1> USE Sizes
<1>0. TypeOK /\ CoresOK
  BY DEF IInv
<1>1. CASE StartEmulator
  <2>1. fifo' \in Seq(Lines) /\ Len(fifo') <= Capacity
    <3>1. fifo' = <<>>
      BY <1>1 DEF StartEmulator
    <3> QED
      BY <3>1, SMT
  <2> QED
    BY <1>0, <1>1, <2>1 DEF StartEmulator, TypeOK, core0, dma, irq
<1>2. CASE Push
  <2>1. [y |-> row, frame |-> frame] \in Lines
    BY <1>0, <1>2, SMT DEF Push, TypeOK
  <2> QED
    BY <1>0, <1>2, <2>1 DEF Push, Offer, TopDown, TypeOK, core0, core1, dma, irq
<1>3. CASE Pushed
  <2>1. offered \in Lines /\ row < Rows
    BY <1>0, <1>3 DEF Pushed, Enqueue, CoresOK, TypeOK
  <2>2. fifo' \in Seq(Lines) /\ Len(fifo') <= Capacity
    BY <1>0, <1>3, <2>1, SMT DEF Pushed, Enqueue, TypeOK
  <2>3. row' \in 0 .. Rows
    BY <1>0, <1>3, <2>1, SMT DEF Pushed, TypeOK
  <2>4. /\ offered' = NoLine
        /\ UNCHANGED <<popping, taken, c0, frame, suspended, block, flashes, c1, line, phase,
                       pulls, into, pending, idle, rows, buf, armed, on, playing, ints, air,
                       calm, late>>
    BY <1>3 DEF Pushed, Enqueue, core1, dma, irq
  <2> QED
    BY <1>0, <2>2, <2>3, <2>4 DEF TypeOK
<1>4. CASE Stop
  BY <1>0, <1>4 DEF Stop, TypeOK, fifoVars, core1, Afterwards
<1>5. CASE ResetCore1
  BY <1>0, <1>5 DEF ResetCore1, TypeOK, fifoVars, irq, dma, Afterwards
<1>6. CASE /\ PresentFrame \/ Presented \/ Choose \/ FirstReport \/ Warn \/ FlashBlock
           /\ UNCHANGED <<fifoVars, core1, rows, irq, dma>>
  <2>1. /\ c0' \in DOMAIN Afterwards \union {"start", "loop", "copy", "warn", "stop", "reset", "flash"}
        /\ row' \in 0 .. Rows /\ frame' \in 0 .. LastFrame /\ suspended' \in BOOLEAN
        /\ block' \in Nat /\ flashes' \in 0 .. MaxFlashes
    <3>1. 0 \in 0 .. Rows /\ (frame < LastFrame => frame + 1 \in 0 .. LastFrame)
          /\ (flashes < MaxFlashes => flashes + 1 \in 0 .. MaxFlashes)
          /\ 0 \in Nat /\ block + 1 \in Nat /\ Blocks \in Nat
      BY <1>0, SMT DEF TypeOK
    <3>2. CASE PresentFrame
      BY <1>0, <1>6, <3>1, <3>2 DEF PresentFrame, Present, TypeOK, Afterwards
    <3>3. CASE Presented
      BY <1>0, <1>6, <3>1, <3>3, PresentedWhere DEF Presented, TypeOK
    <3>4. CASE Choose
      BY <1>0, <1>6, <3>1, <3>4 DEF Choose, TypeOK, Afterwards
    <3>5. CASE FirstReport
      BY <1>0, <1>6, <3>1, <3>5 DEF FirstReport, Report, Present, TypeOK, Afterwards
    <3>6. CASE Warn
      BY <1>0, <1>6, <3>1, <3>6 DEF Warn, Present, TypeOK, Afterwards
    <3>7. CASE FlashBlock
      BY <1>0, <1>6, <3>1, <3>7 DEF FlashBlock, Report, Present, TypeOK, Afterwards
    <3> QED
      BY <1>6, <3>2, <3>3, <3>4, <3>5, <3>6, <3>7
  <2> QED
    BY <1>0, <1>6, <2>1 DEF TypeOK, fifoVars, core1, irq, dma
<1>7. CASE Boot
  <2>1. buf' \in [Channels -> [line : 0 .. RasterLines - 1, phase : 0 .. 2]]
    BY <1>7, SMT DEF Boot, Channels
  <2>2. /\ armed' \subseteq Channels /\ ints' \subseteq Channels /\ playing' \in Channels
        /\ air' \in [line : -1 .. RasterLines - 1, phase : 0 .. 2, clean : BOOLEAN]
        /\ line' \in 0 .. RasterLines - 1 /\ phase' \in 0 .. 2 /\ calm' \in 0 .. Calm
    BY <1>7, SMT DEF Boot, Channels, Calm
  <2> QED
    BY <1>0, <1>7, <2>1, <2>2 DEF Boot, TypeOK, fifoVars, core0
<1>8. CASE Wake
  <2>1. pulls' \in 0 .. MaxPulls
    BY <1>8, SMT DEF Wake
  <2> QED
    BY <1>0, <1>8, <2>1 DEF Wake, TypeOK, fifoVars, core0, dma
<1>9. CASE TryPop
  BY <1>0, <1>9 DEF TryPop, Ask, TypeOK, core0, core1, irq, dma
<1>10. CASE Popped
  <2>1. /\ taken' \in Lines /\ fifo' \in Seq(Lines) /\ Len(fifo') <= Capacity
    <3>1. fifo \in Seq(Lines) /\ fifo # <<>> /\ Len(fifo) <= Capacity
      BY <1>0, <1>10 DEF Popped, Dequeue, TypeOK
    <3>2. /\ Head(fifo) \in Lines /\ Tail(fifo) \in Seq(Lines)
          /\ Len(Tail(fifo)) = Len(fifo) - 1 /\ Len(fifo) \in Nat
      BY <3>1, HeadTailProperties, LenProperties
    <3>3. Len(Tail(fifo)) <= Capacity
      BY <3>1, <3>2, SMT
    <3> QED
      BY <1>10, <3>2, <3>3 DEF Popped, Dequeue
  <2>2. rows' \in [0 .. Rows - 1 -> 0 .. LastFrame]
    BY <1>0, <1>10, <2>1, SMT DEF Popped, Cache, TypeOK
  <2>3. pulls' \in 0 .. MaxPulls
    BY <1>0, <1>10, SMT DEF Popped, Dequeue, CoresOK, TypeOK
  <2> QED
    BY <1>0, <1>10, <2>1, <2>2, <2>3 DEF Popped, Dequeue, TypeOK, core0, irq, dma
<1>11. CASE NothingToPop
  BY <1>0, <1>11 DEF NothingToPop, GiveUp, TypeOK, core0, irq, dma
<1>12. CASE EnoughPulled
  BY <1>0, <1>12 DEF EnoughPulled, TypeOK, fifoVars, core0, irq, dma
<1>13. CASE StartLine
  <2>1. /\ buf' \in [Channels -> [line : 0 .. RasterLines - 1, phase : 0 .. 2]]
        /\ air' \in [line : -1 .. RasterLines - 1, phase : 0 .. 2, clean : BOOLEAN]
    BY <1>0, <1>13 DEF StartLine, TypeOK
  <2> QED
    BY <1>0, <1>13, <2>1 DEF StartLine, TypeOK, fifoVars, core0, irq
<1>14. CASE Rearm
  <2>1. line' \in 0 .. RasterLines - 1 /\ phase' \in 0 .. 2
    <3>1. line \in Int /\ line >= -1 /\ phase \in 0 .. 2
      BY <1>0, SMT DEF TypeOK
    <3> QED
      BY <1>14, <3>1, AfterTyped DEF Rearm, NextPhase
  <2>2. air' \in [line : -1 .. RasterLines - 1, phase : 0 .. 2, clean : BOOLEAN]
    BY <1>0, <1>14 DEF Rearm, TypeOK
  <2> QED
    BY <1>0, <1>14, <2>1, <2>2 DEF Rearm, TypeOK, fifoVars, core0, irq
<1>15. CASE LineEnd
  <2>1. 1 - playing \in Channels /\ playing \in Channels
    BY <1>0, SMT DEF TypeOK, Channels
  <2>2. air' \in [line : -1 .. RasterLines - 1, phase : 0 .. 2, clean : BOOLEAN]
    BY <1>0, <1>15, <2>1, SMT DEF LineEnd, Played, Stray, TypeOK
  <2>3. calm' \in 0 .. Calm /\ late' \in 0 .. MaxLate
    <3>1. \/ calm' = (IF calm < Calm THEN calm + 1 ELSE calm) /\ late' = late
          \/ late < MaxLate /\ calm' = 0 /\ late' = late + 1
      BY <1>15 DEF LineEnd
    <3>2. calm \in 0 .. Calm /\ late \in 0 .. MaxLate
      BY <1>0 DEF TypeOK
    <3> QED
      BY <3>1, <3>2, SMT DEF Calm
  <2>4. /\ armed' \subseteq Channels /\ ints' \subseteq Channels /\ playing' \in Channels
    BY <1>0, <1>15, <2>1 DEF LineEnd, TypeOK
  <2>5. UNCHANGED <<fifo, offered, popping, taken, c0, row, frame, suspended, block, flashes,
                    c1, line, phase, pulls, into, pending, idle, rows, buf, on>>
    BY <1>15 DEF LineEnd, fifoVars, core0, core1, irq
  <2> QED
    BY <1>0, <2>2, <2>3, <2>4, <2>5, SMTT(30) DEF TypeOK
<1>16. CASE Interrupt
  <2>1. idle' \in Channels
    BY <1>16, SMT DEF Interrupt, IdleChannel, Channels
  <2> QED
    BY <1>0, <1>16, <2>1 DEF Interrupt, TypeOK, fifoVars, core0, core1
<1>17. CASE UNCHANGED vars
  BY <1>0, <1>17 DEF vars, fifoVars, core0, core1, irq, dma, TypeOK
<1> QED
  BY <1>1, <1>2, <1>3, <1>4, <1>5, <1>6, <1>7, <1>8, <1>9, <1>10, <1>11, <1>12,
     <1>13, <1>14, <1>15, <1>16, <1>17 DEF Next, Core0, Core1

-----------------------------------------------------------------------------
(* The cores.                                                              *)
LEMMA CoresStep == IInv /\ [Next]_vars => CoresOK'
<1> SUFFICES ASSUME IInv, [Next]_vars PROVE CoresOK'
  OBVIOUS
<1> USE Sizes
<1>0. TypeOK /\ CoresOK
  BY DEF IInv
<1>1. CASE StartEmulator
  BY <1>0, <1>1 DEF StartEmulator, CoresOK, Afterwards, dma
<1>2. CASE Push
  BY <1>0, <1>2 DEF Push, Offer, TopDown, CoresOK, core0, core1, dma
<1>3. CASE Pushed
  <2>1. c0 \in DOMAIN Afterwards
    BY <1>0, <1>3 DEF Pushed, Enqueue, CoresOK
  <2> QED
    BY <1>0, <1>3, <2>1 DEF Pushed, Enqueue, CoresOK, core1, dma
<1>4. CASE Stop
  BY <1>0, <1>4 DEF Stop, CoresOK, fifoVars, core1, Afterwards
<1>5. CASE ResetCore1
  BY <1>0, <1>5 DEF ResetCore1, CoresOK, fifoVars, dma, Afterwards
<1>6. CASE /\ PresentFrame \/ Presented \/ Choose \/ FirstReport \/ Warn \/ FlashBlock
           /\ UNCHANGED <<fifoVars, core1, rows, irq, dma>>
  <2>1. /\ UNCHANGED <<offered, on, c1, popping, pulls>>
    BY <1>6 DEF fifoVars, core1, dma
  <2>2. CASE PresentFrame
    BY <1>0, <2>1, <2>2 DEF PresentFrame, Present, CoresOK, Afterwards
  <2>3. CASE Presented
    <3>1. offered = NoLine
      BY <1>0, <2>3, SMT DEF Presented, CoresOK
    <3> QED
      BY <1>0, <2>1, <2>3, <3>1, PresentedWhere DEF Presented, CoresOK
  <2>4. CASE Choose
    BY <1>0, <2>1, <2>4 DEF Choose, CoresOK, Afterwards
  <2>5. CASE FirstReport
    BY <1>0, <2>1, <2>5 DEF FirstReport, Report, Present, CoresOK, Afterwards
  <2>6. CASE Warn
    BY <1>0, <2>1, <2>6 DEF Warn, Present, CoresOK, Afterwards
  <2>7. CASE FlashBlock
    BY <1>0, <2>1, <2>7 DEF FlashBlock, Report, Present, CoresOK, Afterwards
  <2> QED
    BY <1>6, <2>2, <2>3, <2>4, <2>5, <2>6, <2>7
<1>7. CASE Boot
  BY <1>0, <1>7 DEF Boot, CoresOK, fifoVars, core0
<1>8. CASE Wake
  <2>1. 0 < MaxPulls
    BY SMT
  <2> QED
    BY <1>0, <1>8, <2>1 DEF Wake, CoresOK, fifoVars, core0, dma
<1>9. CASE TryPop
  BY <1>0, <1>9 DEF TryPop, Ask, CoresOK, core0, core1, dma
<1>10. CASE Popped
  BY <1>0, <1>10 DEF Popped, Dequeue, CoresOK, core0, dma
<1>11. CASE NothingToPop
  BY <1>0, <1>11 DEF NothingToPop, GiveUp, CoresOK, core0, dma
<1>12. CASE EnoughPulled
  BY <1>0, <1>12 DEF EnoughPulled, CoresOK, fifoVars, core0, dma
<1>13. CASE StartLine
  BY <1>0, <1>13 DEF StartLine, CoresOK, fifoVars, core0
<1>14. CASE Rearm
  BY <1>0, <1>14 DEF Rearm, CoresOK, fifoVars, core0
<1>15. CASE LineEnd
  BY <1>0, <1>15 DEF LineEnd, CoresOK, fifoVars, core0, core1
<1>16. CASE Interrupt
  BY <1>0, <1>16 DEF Interrupt, CoresOK, fifoVars, core0, core1
<1>17. CASE UNCHANGED vars
  BY <1>0, <1>17 DEF vars, fifoVars, core0, core1, irq, dma, CoresOK
<1> QED
  BY <1>1, <1>2, <1>3, <1>4, <1>5, <1>6, <1>7, <1>8, <1>9, <1>10, <1>11, <1>12,
     <1>13, <1>14, <1>15, <1>16, <1>17 DEF Next, Core0, Core1

-----------------------------------------------------------------------------
(* The beam.  Once it runs, it is either in the round or core 1 was late   *)
(* for the last line.                                                      *)
LEMMA BeamStep == IInv /\ [Next]_vars => BeamOK'
<1> SUFFICES ASSUME IInv, [Next]_vars PROVE BeamOK'
  OBVIOUS
<1> USE Sizes
<1>0. TypeOK /\ CoresOK /\ BeamOK
  BY DEF IInv
<1>1. ASSUME UNCHANGED <<c1, line, phase, into, pending, idle, buf, armed, on, playing,
                         ints, air, calm>>
      PROVE  BeamOK'
  BY <1>0, <1>1 DEF BeamOK, Round, OnTime, Due, After
<1>2. CASE StartEmulator
  BY <1>0, <1>2 DEF StartEmulator, CoresOK, BeamOK, dma
<1>3. CASE Push \/ Pushed
  BY <1>1, <1>3 DEF Push, Pushed, core1, irq, dma
<1>4. CASE Stop
  BY <1>4 DEF Stop, BeamOK
<1>5. CASE ResetCore1
  BY <1>0, <1>5 DEF ResetCore1, CoresOK, BeamOK, dma
<1>6. CASE /\ PresentFrame \/ Presented \/ Choose \/ FirstReport \/ Warn \/ FlashBlock
           /\ UNCHANGED <<fifoVars, core1, rows, irq, dma>>
  BY <1>1, <1>6 DEF core1, irq, dma
<1>7. CASE Boot
  <2>1. After([line |-> 0, phase |-> 0, clean |-> TRUE]) = [line |-> 1, phase |-> 1]
        /\ After([line |-> 1, phase |-> 1]) = [line |-> 2, phase |-> 2]
    BY SMT DEF After
  <2>2. /\ buf'[1] = [line |-> 1, phase |-> 1] /\ Due' = [line |-> 2, phase |-> 2]
        /\ 1 - playing' = 1 /\ OnTime' /\ 1 \in armed'
    BY <1>7, SMT DEF Boot, Due, OnTime, Channels
  <2>3. air' = [line |-> 0, phase |-> 0, clean |-> TRUE]
    BY <1>7 DEF Boot
  <2>4. After(air)' = [line |-> 1, phase |-> 1]
    BY <2>1, <2>3 DEF After
  <2>5. After(buf[1 - playing])' = [line |-> 2, phase |-> 2]
    BY <2>1, <2>2 DEF After
  <2> QED
    BY <2>2, <2>3, <2>4, <2>5 DEF BeamOK, Round
<1>8. CASE Wake
  BY <1>0, <1>8 DEF Wake, BeamOK, Round, OnTime, Due, After, dma
<1>9. CASE TryPop \/ Popped
  BY <1>1, <1>9 DEF TryPop, Popped, core1, irq, dma
<1>10. CASE NothingToPop \/ EnoughPulled
  BY <1>0, <1>10 DEF NothingToPop, EnoughPulled, BeamOK, Round, OnTime, Due, After, irq, dma
<1>11. CASE StartLine
  <2>1. idle = 1 - playing => playing # idle /\ idle \in Channels
    BY <1>0, SMT DEF TypeOK, Channels
  <2>2. /\ c1' = "draw" /\ into' = idle /\ buf'[idle] = Due
        /\ Due' = Due /\ After(air)' = After(air) /\ (playing # idle => air'.clean = air.clean)
    BY <1>0, <1>11 DEF StartLine, TypeOK, Due, After
  <2> QED
    <3>1. on' = on /\ calm' = calm /\ UNCHANGED <<pending, idle, ints, playing>>
      BY <1>11 DEF StartLine, irq
    <3>2. ASSUME on, calm >= 1
          PROVE  /\ playing # idle /\ Round'
      BY <1>0, <1>11, <2>1, <2>2, <3>1, <3>2 DEF StartLine, BeamOK, Round, OnTime
    <3>3. ASSUME on, calm = Calm
          PROVE  air'.clean /\ ~OnTime' /\ Due' = After(air)'
      <4>1. calm >= 1
        BY <3>3, SMT DEF Calm
      <4>2. ~OnTime
        BY <1>11 DEF StartLine, OnTime
      <4> QED
        BY <1>0, <2>2, <3>2, <3>3, <4>1, <4>2 DEF BeamOK, OnTime
    <3> QED
      BY <3>1, <3>2, <3>3 DEF BeamOK
<1>12. CASE Rearm
  <2>1. idle = 1 - playing => playing # idle /\ idle \in Channels
    BY <1>0, SMT DEF TypeOK, Channels
  <2>2. /\ c1' = "wait" /\ Due' = After(Due) /\ buf' = buf
        /\ After(air)' = After(air) /\ (playing # idle => air'.clean = air.clean)
    BY <1>0, <1>12 DEF Rearm, NextPhase, TypeOK, Due, After
  <2>3. playing # idle => idle \in armed'
    BY <1>12 DEF Rearm
  <2>4. ASSUME on, calm >= 1
        PROVE  /\ playing # idle /\ OnTime' /\ 1 - playing' \in armed'
               /\ Due' = After(buf[1 - playing])'
               /\ calm = Calm => buf'[1 - playing'] = After(air)'
    BY <1>0, <1>12, <2>1, <2>2, <2>3, <2>4 DEF Rearm, BeamOK, Round, OnTime, After, irq
  <2> QED
    <3>1. on' = on /\ calm' = calm
      BY <1>12 DEF Rearm
    <3>2. ASSUME on, calm >= 1 PROVE Round'
      BY <2>4, <3>2 DEF Round
    <3>3. ASSUME on, calm = Calm
          PROVE  air'.clean /\ OnTime' /\ buf'[1 - playing'] = After(air)'
      <4>1. calm >= 1
        BY <3>3, SMT DEF Calm
      <4> QED
        BY <1>0, <2>2, <2>4, <3>3, <4>1 DEF BeamOK
    <3> QED
      BY <3>1, <3>2, <3>3 DEF BeamOK
<1>13. CASE LineEnd
  <2>1. 1 - playing \in Channels /\ 1 - playing' = playing /\ playing' = 1 - playing
    BY <1>0, <1>13, SMT DEF LineEnd, TypeOK, Channels
  <2>2. CASE ~OnTime
    <3>1. calm' = 0
      BY <1>13, <2>2 DEF LineEnd
    <3> QED
      BY <3>1, SMT DEF BeamOK, Calm
  <2>3. CASE OnTime
    <3>1. Round' /\ ~OnTime'
      BY <1>13, <2>1, <2>3 DEF LineEnd, Round, OnTime, irq, core1
    <3>2. calm' = Calm => calm >= 1
      BY <1>0, <1>13, <2>3, SMT DEF LineEnd, TypeOK, Calm
    <3>3. ASSUME calm >= 1
          PROVE  /\ air'.clean /\ After(air)' = After(buf[1 - playing])
                 /\ Due' = Due /\ Due = After(buf[1 - playing])
      <4>1. 1 - playing \in armed /\ Due = After(buf[1 - playing])
        BY <1>0, <1>13, <2>3, <2>1, <3>3 DEF BeamOK, Round, OnTime, LineEnd
      <4>2. air' = [line |-> buf[1 - playing].line, phase |-> buf[1 - playing].phase,
                    clean |-> TRUE]
        BY <1>13, <2>3, <4>1 DEF LineEnd, Played, OnTime
      <4> QED
        BY <1>13, <4>1, <4>2 DEF LineEnd, After, Due, core1
    <3> QED
      BY <3>1, <3>2, <3>3 DEF BeamOK
  <2> QED
    BY <2>2, <2>3
<1>14. CASE Interrupt
  <2>1. playing \in Channels /\ \A c \in Channels : IdleChannel({c}) = c
    BY <1>0 DEF TypeOK, Channels, IdleChannel
  <2>2. 1 - playing \in Channels
    BY <2>1, SMT DEF Channels
  <2> QED
    BY <1>0, <1>14, <2>1, <2>2 DEF Interrupt, BeamOK, Round, OnTime, Due, After, core1
<1>15. CASE UNCHANGED vars
  BY <1>1, <1>15 DEF vars, core1, irq, dma
<1> QED
  BY <1>2, <1>3, <1>4, <1>5, <1>6, <1>7, <1>8, <1>9, <1>10, <1>11, <1>12,
     <1>13, <1>14, <1>15 DEF Next, Core0, Core1

-----------------------------------------------------------------------------
(* The stream of lines.  A step that changes none of what StreamOK is of   *)
(* keeps it; the others are a push, a pop, a new frame and a restart.      *)
LEMMA StreamKept ==
  ASSUME StreamOK, UNCHANGED <<fifo, rows, row, frame>>
  PROVE  StreamOK'
BY DEF StreamOK, QueueGoesOn, FramesGrow, NewestFirst

LEMMA QueuedTyped ==
  ASSUME TypeOK
  PROVE  /\ Len(fifo) \in Nat
         /\ \A i \in 1 .. Len(fifo) :
              /\ fifo[i] \in Lines
              /\ fifo[i].y \in 0 .. Rows - 1 /\ fifo[i].frame \in 0 .. LastFrame
              /\ fifo[i] = Line(fifo[i].y, fifo[i].frame)
         /\ \A y \in 0 .. Rows - 1 : rows[y] \in 0 .. LastFrame
<1>1. Len(fifo) \in Nat /\ \A i \in 1 .. Len(fifo) : fifo[i] \in Lines
  BY ElementOfSeq, LenProperties DEF TypeOK
<1>2. \A l \in Lines : /\ l.y \in 0 .. Rows - 1 /\ l.frame \in 0 .. LastFrame
                       /\ l = Line(l.y, l.frame)
  BY Sizes DEF Line
<1> QED
  BY <1>1, <1>2 DEF TypeOK

(* A line behind the last one goes on with the frame.                      *)
LEMMA PushedOK ==
  ASSUME IInv, Pushed
  PROVE  StreamOK'
<1> USE Sizes
<1>0. TypeOK /\ CoresOK /\ StreamOK
  BY DEF IInv
<1> DEFINE n == Len(fifo)
<1>1. offered = Line(row, frame) /\ row \in 0 .. Rows - 1 /\ frame \in 0 .. LastFrame
  BY <1>0, SMT DEF Pushed, Enqueue, CoresOK, TypeOK, Line
<1>2. offered \in Lines /\ fifo \in Seq(Lines) /\ n \in Nat
  BY <1>0, <1>1, QueuedTyped DEF TypeOK, Line
<1>3. /\ fifo' = Append(fifo, offered)
      /\ row' = row + 1 /\ frame' = frame /\ rows' = rows
  BY DEF Pushed, Enqueue
<1>4. /\ Len(fifo') = n + 1 /\ fifo' # <<>>
      /\ \A i \in 1 .. n : fifo'[i] = fifo[i]
      /\ fifo'[n + 1] = Line(row, frame)
  BY <1>1, <1>2, <1>3, AppendProperties
<1>5. fifo = <<>> <=> n = 0
  BY <1>2, LenProperties, SMT
<1>6. QueueGoesOn'
  <2>1. fifo'[1].y > 0 => rows[fifo'[1].y - 1] = fifo'[1].frame
    <3>1. CASE n = 0
      BY <1>0, <1>1, <1>4, <1>5, <3>1 DEF StreamOK, QueueGoesOn, Line
    <3>2. CASE n > 0
      <4>1. fifo'[1] = fifo[1] /\ fifo # <<>>
        BY <1>2, <1>4, <1>5, <3>2, SMT
      <4> QED
        BY <1>0, <4>1 DEF StreamOK, QueueGoesOn
    <3> QED
      BY <1>2, <3>1, <3>2, SMT
  <2>2. ASSUME NEW i \in 2 .. n + 1, fifo'[i].y > 0
        PROVE  fifo'[i - 1] = Line(fifo'[i].y - 1, fifo'[i].frame)
    <3>1. CASE i = n + 1
      <4>1. n # 0 /\ i - 1 = n /\ n \in 1 .. n
        BY <1>2, <3>1, SMT
      <4>2. fifo'[i].y = row /\ fifo'[i].frame = frame
        BY <1>4, <3>1 DEF Line
      <4> QED
        BY <1>0, <1>4, <1>5, <2>2, <4>1, <4>2 DEF StreamOK, QueueGoesOn
    <3>2. CASE i # n + 1
      <4>1. i \in 2 .. n /\ i \in 1 .. n /\ i - 1 \in 1 .. n
        BY <1>2, <3>2, SMT
      <4> QED
        BY <1>0, <1>4, <2>2, <4>1 DEF StreamOK, QueueGoesOn
    <3> QED
      BY <3>1, <3>2
  <2>3. fifo'[Len(fifo')] = Line(row' - 1, frame')
    BY <1>1, <1>3, <1>4, SMT
  <2> QED
    BY <1>3, <1>4, <2>1, <2>2, <2>3 DEF QueueGoesOn
<1>7. FramesGrow'
  <2>1. ASSUME NEW i \in 1 .. n + 1
        PROVE  /\ fifo'[i].frame <= frame
               /\ \A y \in 0 .. Rows - 1 : rows[y] <= fifo'[i].frame
               /\ \A j \in i .. n + 1 : fifo'[i].frame <= fifo'[j].frame
    <3>1. CASE i = n + 1
      <4>1. fifo'[i].frame = frame /\ \A j \in i .. n + 1 : j = n + 1
        BY <1>2, <1>4, <3>1, SMT DEF Line
      <4> QED
        BY <1>0, <1>1, <1>4, <3>1, <4>1 DEF StreamOK, FramesGrow
    <3>2. CASE i # n + 1
      <4>1. i \in 1 .. n /\ \A j \in i .. n + 1 : j = n + 1 \/ (j \in i .. n /\ j \in 1 .. n)
        BY <1>2, <3>2, SMT
      <4>2. fifo'[n + 1].frame = frame
        BY <1>4 DEF Line
      <4> QED
        BY <1>0, <1>4, <4>1, <4>2 DEF StreamOK, FramesGrow
    <3> QED
      BY <3>1, <3>2
  <2> QED
    BY <1>0, <1>3, <1>4, <2>1 DEF StreamOK, FramesGrow
<1> QED
  BY <1>0, <1>3, <1>6, <1>7 DEF StreamOK, NewestFirst

(* The oldest line replaces a row that no newer one is above.              *)
LEMMA PoppedOK ==
  ASSUME IInv, Popped
  PROVE  StreamOK'
<1> USE Sizes
<1>0. TypeOK /\ CoresOK /\ StreamOK
  BY DEF IInv
<1> DEFINE n == Len(fifo)  h == fifo[1]
<1>1. /\ fifo \in Seq(Lines) /\ fifo # <<>> /\ rows \in [0 .. Rows - 1 -> 0 .. LastFrame]
      /\ row \in 0 .. Rows /\ frame \in 0 .. LastFrame
  BY <1>0 DEF Popped, Dequeue, TypeOK
<1>2. n \in Nat \ {0} /\ 1 \in 1 .. n
  BY <1>1, LenProperties, SMT
<1>3. h \in Lines /\ h.y \in 0 .. Rows - 1 /\ h.frame \in 0 .. LastFrame
  BY <1>0, <1>2, QueuedTyped
<1>4. /\ fifo' = Tail(fifo) /\ taken' = h /\ row' = row /\ frame' = frame
      /\ rows' = [rows EXCEPT ![h.y] = h.frame]
  <2>1. taken' = h
    BY <1>1, HeadTailProperties DEF Popped, Dequeue
  <2>2. h.y < Rows
    BY <1>3, SMT
  <2> QED
    BY <2>1, <2>2 DEF Popped, Dequeue, Cache, core0
<1>5. /\ fifo' \in Seq(Lines) /\ Len(fifo') = n - 1
      /\ \A i \in 1 .. n - 1 : fifo'[i] = fifo[i + 1]
  BY <1>1, <1>4, HeadTailProperties
<1>6. fifo' = <<>> <=> n = 1
  BY <1>2, <1>5, LenProperties, SMT
<1>7. /\ rows'[h.y] = h.frame
      /\ \A y \in 0 .. Rows - 1 : y # h.y => rows'[y] = rows[y]
  BY <1>1, <1>3, <1>4
<1>8. \A i \in 1 .. n - 1 : i + 1 \in 2 .. n /\ i + 1 \in 1 .. n
  BY <1>2, SMT
<1>9. QueueGoesOn'
  <2>0. \A k \in Nat \ {0} : k # 1 => k > 1 /\ k - 1 \in 1 .. k - 1 /\ (k - 1) + 1 = k
    BY SMT
  <2>1. ASSUME n > 1, fifo'[1].y > 0
        PROVE  rows'[fifo'[1].y - 1] = fifo'[1].frame
    <3>1. 1 \in 1 .. n - 1 /\ 2 \in 2 .. n /\ fifo'[1] = fifo[2] /\ 2 - 1 = 1
      BY <1>2, <1>5, <2>1, SMT
    <3>2. h = Line(fifo[2].y - 1, fifo[2].frame)
      BY <1>0, <2>1, <3>1 DEF StreamOK, QueueGoesOn
    <3> QED
      BY <1>7, <3>1, <3>2 DEF Line
  <2>2. ASSUME NEW i \in 2 .. n - 1, fifo'[i].y > 0
        PROVE  fifo'[i - 1] = Line(fifo'[i].y - 1, fifo'[i].frame)
    <3>1. /\ i \in 1 .. n - 1 /\ i - 1 \in 1 .. n - 1 /\ i + 1 \in 2 .. n
          /\ (i - 1) + 1 = (i + 1) - 1
      BY <1>2, SMT
    <3>2. fifo'[i] = fifo[i + 1] /\ fifo'[i - 1] = fifo[(i + 1) - 1]
      BY <1>5, <3>1
    <3> QED
      BY <1>0, <2>2, <3>1, <3>2 DEF StreamOK, QueueGoesOn
  <2>3. ASSUME row > 0
        PROVE  IF fifo' = <<>> THEN rows'[row - 1] = frame
               ELSE fifo'[Len(fifo')] = Line(row - 1, frame)
    <3>1. fifo[n] = Line(row - 1, frame)
      BY <1>0, <1>1, <2>3 DEF StreamOK, QueueGoesOn
    <3>2. CASE n = 1
      BY <1>6, <1>7, <3>1, <3>2 DEF Line
    <3>3. CASE n # 1
      <4>1. n - 1 \in 1 .. n - 1 /\ (n - 1) + 1 = n
        BY <1>2, <2>0, <3>3
      <4> QED
        BY <1>5, <1>6, <3>1, <3>3, <4>1
    <3> QED
      BY <3>2, <3>3
  <2>4. fifo' # <<>> => n > 1
    BY <1>2, <1>6, <2>0
  <2> QED
    BY <1>4, <1>5, <2>1, <2>2, <2>3, <2>4 DEF QueueGoesOn
<1>10. FramesGrow'
  <2>1. ASSUME NEW i \in 1 .. n - 1
        PROVE  /\ fifo'[i].frame <= frame
               /\ \A y \in 0 .. Rows - 1 : rows'[y] <= fifo'[i].frame
               /\ \A j \in i .. n - 1 : fifo'[i].frame <= fifo'[j].frame
    <3>1. i \in 1 .. n - 1 /\ i + 1 \in 1 .. n /\ h.frame <= fifo[i + 1].frame
      <4>1. i + 1 \in 1 .. n
        BY <1>8
      <4> QED
        BY <1>0, <1>2, <4>1 DEF StreamOK, FramesGrow
    <3>2. \A j \in i .. n - 1 : j \in 1 .. n - 1 /\ j + 1 \in i + 1 .. n
      BY <1>2, SMT
    <3>3. fifo'[i] = fifo[i + 1]
      BY <1>5
    <3>4. \A j \in i .. n - 1 : fifo'[i].frame <= fifo'[j].frame
      BY <1>0, <1>5, <3>1, <3>2, <3>3 DEF StreamOK, FramesGrow
    <3>5. \A y \in 0 .. Rows - 1 : rows'[y] <= fifo'[i].frame
      BY <1>0, <1>7, <3>1, <3>3 DEF StreamOK, FramesGrow
    <3>6. fifo'[i].frame <= frame
      BY <1>0, <3>1, <3>3 DEF StreamOK, FramesGrow
    <3> QED
      BY <3>4, <3>5, <3>6
  <2>2. \A y \in 0 .. Rows - 1 : rows'[y] <= frame
    BY <1>0, <1>2, <1>7 DEF StreamOK, FramesGrow
  <2> QED
    BY <1>4, <1>5, <2>1, <2>2 DEF FramesGrow
<1>11. NewestFirst'
  <2> SUFFICES ASSUME NEW y \in 1 .. Rows - 1 PROVE rows'[y] <= rows'[y - 1]
    BY DEF NewestFirst
  <2>1. y \in 0 .. Rows - 1 /\ y - 1 \in 0 .. Rows - 1 /\ y # y - 1 /\ y > 0
    BY SMT
  <2>2. rows[y] <= rows[y - 1] /\ rows[y] <= h.frame
    BY <1>0, <1>2, <2>1 DEF StreamOK, NewestFirst, FramesGrow
  <2>3. y = h.y => rows[y - 1] = h.frame
    BY <1>0, <1>1, <2>1 DEF StreamOK, QueueGoesOn
  <2>4. h.frame <= h.frame
    BY <1>3, SMT
  <2>5. CASE y = h.y
    BY <1>7, <2>1, <2>3, <2>4, <2>5
  <2>6. CASE y - 1 = h.y
    BY <1>7, <2>1, <2>2, <2>6
  <2>7. CASE y # h.y /\ y - 1 # h.y
    BY <1>7, <2>1, <2>2, <2>7
  <2> QED
    BY <2>5, <2>6, <2>7
<1> QED
  BY <1>9, <1>10, <1>11 DEF StreamOK

(* A new frame starts at the top, and is newer than all there is.          *)
LEMMA PresentOK ==
  ASSUME IInv, NEW as, Present(as), UNCHANGED <<fifo, rows>>
  PROVE  StreamOK'
<1> USE Sizes
<1>0. TypeOK /\ StreamOK
  BY DEF IInv
<1>1. row' = 0 /\ frame' = frame + 1 /\ frame \in 0 .. LastFrame
  BY <1>0 DEF Present, TypeOK
<1>2. QueueGoesOn'
  BY <1>0, <1>1, SMT DEF StreamOK, QueueGoesOn
<1>3. FramesGrow'
  <2>1. \A f \in 0 .. LastFrame : f <= frame => f <= frame + 1
    BY <1>1, SMT
  <2> QED
    BY <1>0, <1>1, <2>1, QueuedTyped DEF StreamOK, FramesGrow
<1> QED
  BY <1>0, <1>2, <1>3 DEF StreamOK, NewestFirst

LEMMA StreamStep == IInv /\ [Next]_vars => StreamOK'
<1> SUFFICES ASSUME IInv, [Next]_vars PROVE StreamOK'
  OBVIOUS
<1>0. TypeOK /\ CoresOK /\ StreamOK
  BY DEF IInv
<1>1. CASE StartEmulator
  <2>1. fifo' = <<>> /\ Len(fifo') = 0 /\ row' = 0 /\ frame' = frame /\ rows' = rows
    BY <1>0, <1>1 DEF StartEmulator, CoresOK, Afterwards
  <2> QED
    BY <1>0, <2>1, SMT DEF StreamOK, QueueGoesOn, FramesGrow, NewestFirst
<1>2. CASE Push \/ Stop \/ ResetCore1
  BY <1>0, <1>2, StreamKept DEF Push, Offer, Stop, ResetCore1, core0, fifoVars
<1>3. CASE Pushed
  BY <1>3, PushedOK
<1>4. CASE /\ PresentFrame \/ Presented \/ Choose \/ FirstReport \/ Warn \/ FlashBlock
           /\ UNCHANGED <<fifoVars, core1, rows, irq, dma>>
  <2>1. UNCHANGED <<fifo, rows>>
    BY <1>4 DEF fifoVars
  <2>2. \/ \E as : Present(as)
        \/ UNCHANGED <<row, frame>>
        \/ row' = 0 /\ frame' = frame
    BY <1>4 DEF PresentFrame, Presented, Choose, FirstReport, Warn, FlashBlock, Report
  <2>3. CASE row' = 0 /\ frame' = frame
    BY <1>0, <2>1, <2>3, SMT DEF StreamOK, QueueGoesOn, FramesGrow, NewestFirst
  <2> QED
    BY <1>0, <2>1, <2>2, <2>3, PresentOK, StreamKept
<1>5. CASE Popped
  BY <1>5, PoppedOK
<1>6. CASE Boot \/ Wake \/ TryPop \/ NothingToPop \/ EnoughPulled \/ StartLine \/ Rearm
  BY <1>0, <1>6, StreamKept DEF Boot, Wake, TryPop, Ask, NothingToPop, GiveUp, EnoughPulled,
       StartLine, Rearm, core0, fifoVars
<1>7. CASE LineEnd \/ Interrupt \/ UNCHANGED vars
  BY <1>0, <1>7, StreamKept DEF LineEnd, Interrupt, vars, core0, fifoVars
<1> QED
  BY <1>1, <1>2, <1>3, <1>4, <1>5, <1>6, <1>7 DEF Next, Core0, Core1

-----------------------------------------------------------------------------
LEMMA StepOK == IInv /\ [Next]_vars => IInv'
BY TypeStep, CoresStep, StreamStep, BeamStep DEF IInv

(* The invariant holds whatever the order in which core 0, core 1, the DMA *)
(* engine and the interrupt take their steps.                              *)
THEOREM Invariance == Safety => []IInv
BY InitOK, StepOK, PTL DEF Safety

(* Whatever core 1 was late for, two lines later the raster is untorn, and *)
(* all that the cores and the DMA engine share stays in its types.         *)
THEOREM Untorn == Safety => []RasterOK
<1>1. IInv => RasterOK
  BY DEF IInv, RasterOK, NoTear, BeamOK
<1> QED
  BY <1>1, Invariance, PTL

(* A frame replaces the one before it from the top down, through a queue   *)
(* of any capacity, restarts included.                                     *)
THEOREM TopDownOnScreen == Safety => []NewestFirst
<1>1. IInv => NewestFirst
  BY DEF IInv, StreamOK
<1> QED
  BY <1>1, Invariance, PTL

(* The lines go out one by one in raster order, each in the colour phase   *)
(* that follows the last one's, on a raster of any number of lines.        *)
THEOREM InOrder == Safety => RasterOrder
<1>1. ASSUME IInv, [Next]_vars, on, on', playing' # playing, calm = Calm, calm' = Calm
      PROVE  Place(air') = After(air)
  <2>1. TypeOK /\ CoresOK /\ BeamOK
    BY <1>1 DEF IInv
  <2>2. LineEnd
    <3>1. ~Boot
      BY <1>1, <2>1 DEF Boot, CoresOK
    <3>2. UNCHANGED playing \/ Boot \/ LineEnd
      BY <1>1 DEF Next, Core0, Core1, StartEmulator, Push, Pushed, Stop, ResetCore1, Wake,
           TryPop, Popped, NothingToPop, EnoughPulled, StartLine, Rearm, Interrupt, vars, dma
    <3> QED
      BY <1>1, <3>1, <3>2
  <2>3. OnTime
    BY <1>1, <2>2, SMT DEF LineEnd, Calm
  <2>4. /\ buf[1 - playing] = After(air) /\ 1 - playing \in armed
    BY <1>1, <2>1, <2>3, SMT DEF BeamOK, Round, OnTime, Calm, TypeOK, Channels
  <2>5. Place(air') = [line |-> buf[1 - playing].line, phase |-> buf[1 - playing].phase]
    BY <2>2, <2>4 DEF LineEnd, Played, Place
  <2> QED
    BY <2>4, <2>5 DEF After
<1>2. IInv /\ [Next]_vars =>
        [on /\ on' /\ playing' # playing /\ calm = Calm /\ calm' = Calm
           => Place(air') = After(air)]_vars
  BY <1>1
<1> QED
  BY <1>2, Invariance, PTL DEF Safety, RasterOrder
=============================================================================
