----------------------------- MODULE FramePacer -----------------------------
(***************************************************************************)
(* The frame pacer of src/common/frame_pacer.c, as operators on the pacer, *)
(* and the loops that it paces, of src/pico/main.c and src/host/run_main.c *)
(* without vsync: wait for the deadline, run the shell, step the console,  *)
(* present (the TFT build not after a frame that overran), report the      *)
(* frame done.                                                             *)
(*                                                                         *)
(* Times are nanoseconds on a clock that advances by ClockTick.  A frame   *)
(* lasts Numerator / Denominator of them, which is no integer.             *)
(***************************************************************************)
EXTENDS Integers

CONSTANTS
  Numerator,     \* MICRONES_NTSC_FRAME_DURATION_NUMERATOR_NS
  Denominator,   \* MICRONES_NTSC_FRAME_DURATION_DENOMINATOR
  ClockTick,     \* 1000: the clock counts microseconds
  ShellTicks,    \* how long the shell can take: a save to the SD card is slow
  StepTicks,     \* how long the console can take for a frame
  PresentTicks,  \* how long the display can take for a frame
  LateTicks,     \* how late a sleep can end
  Horizon        \* bound: the loop is followed to this time

ASSUME PacerAssumption ==
  /\ Numerator \in Nat \ {0}
  /\ Denominator \in Nat \ {0}
  /\ ClockTick \in Nat \ {0}
  /\ ShellTicks \subseteq Nat
  /\ StepTicks \subseteq Nat
  /\ PresentTicks \subseteq Nat
  /\ LateTicks \subseteq Nat
  /\ Horizon \in Nat

FrameFloor == Numerator \div Denominator
FrameRemainder == Numerator % Denominator

VARIABLES
  pacer,     \* MicronesFramePacer
  now,       \* the clock
  pc,        \* where the loop is
  deadline,  \* frame_deadline_us
  skip_present, \* s_skip_present
  loop       \* which of the loops this is: "tft", "pico" (HDMI) or "host"

loopVars == <<pacer, now, pc, deadline, skip_present, loop>>

-----------------------------------------------------------------------------
(* frame_pacer.c *)

(* Mutant: the nanosecond is not given back.                               *)
AdvanceDeadlineNoCarry(p) ==
  LET err == p.err + FrameRemainder
      carry == IF err >= Denominator THEN 1 ELSE 0
  IN [p EXCEPT !.next_deadline = @ + FrameFloor, !.err = err - carry * Denominator]

(* The remainders accumulate, and give a nanosecond back when they make one. *)
AdvanceDeadline(p) ==
  LET err == p.err + FrameRemainder
      carry == IF err >= Denominator THEN 1 ELSE 0
  IN [p EXCEPT !.next_deadline = @ + FrameFloor + carry,
               !.err = err - carry * Denominator]

PacerInit(throttled, time) ==
  AdvanceDeadline([throttled |-> throttled, start |-> time, frame_count |-> 0,
           wait_until |-> time, next_deadline |-> time, err |-> 0,
           have_last |-> FALSE, last_done |-> 0, total |-> 0, late |-> 0])

SinceLast(p, time) == IF p.have_last THEN time - p.last_done ELSE time - p.start

FrameDone(p, time) ==
  LET counted == [p EXCEPT !.frame_count = @ + 1, !.have_last = TRUE,
                           !.last_done = time, !.total = @ + SinceLast(p, time)]
  IN IF ~p.throttled
     THEN [counted EXCEPT !.wait_until = time]
     ELSE AdvanceDeadline([counted EXCEPT
            !.wait_until = p.next_deadline,
            !.late = IF time > p.next_deadline THEN @ + 1 ELSE @])

ShouldWait(p, time) == p.throttled /\ time < p.wait_until

-----------------------------------------------------------------------------
(* main.c *)

Ticks(n) == n * ClockTick

(* Mutant: a sleep is rounded down to the microsecond.                     *)
ToTickDown(time) == (time \div ClockTick) * ClockTick

(* Rounded up to the microsecond, as a sleep and a deadline are.           *)
ToTick(time) == ((time + ClockTick - 1) \div ClockTick) * ClockTick

LoopInit ==
  /\ now = 0
  /\ loop \in {"tft", "pico", "host"}
  /\ \E throttled \in IF loop = "host" THEN BOOLEAN ELSE {TRUE} :
       pacer = PacerInit(throttled, now)
  /\ pc = "wait"
  /\ deadline = 0
  /\ skip_present = FALSE

Wait ==
  /\ pc = "wait"
  /\ now < Horizon
  /\ pc' = "shell"
  /\ deadline' = ToTick(pacer.next_deadline)
  /\ IF ShouldWait(pacer, now)
       THEN \E late \in LateTicks :
              now' = now + ToTick(pacer.wait_until - now) + Ticks(late)
       ELSE now' = now
  /\ UNCHANGED <<pacer, skip_present, loop>>

(* app_shell_begin_frame, which also reads and writes save states.         *)
ShellMenu ==
  /\ pc = "shell"
  /\ \E t \in ShellTicks, show \in PresentTicks : now' = now + Ticks(t) + Ticks(show)
  /\ pc' = "done"
  /\ UNCHANGED <<pacer, deadline, skip_present, loop>>

ShellRun ==
  /\ pc = "shell"
  /\ \E t \in ShellTicks : now' = now + Ticks(t)
  /\ pc' = "step"
  /\ UNCHANGED <<pacer, deadline, skip_present, loop>>

(* just_entered_run: the Pico starts its pacer again.                      *)
ShellEnter ==
  /\ pc = "shell"
  /\ loop # "host"
  /\ \E t \in ShellTicks : now' = now + Ticks(t)
  /\ pacer' = PacerInit(TRUE, now')
  /\ pc' = "step"
  /\ UNCHANGED <<deadline, skip_present, loop>>

(* The step, the drained audio and the present.                            *)
StepAndPresent ==
  /\ pc = "step"
  /\ \E t \in StepTicks, show \in PresentTicks :
       now' = now + Ticks(t) + (IF skip_present THEN 0 ELSE Ticks(show))
  /\ skip_present' = (loop = "tft" /\ now' > deadline)
  /\ pc' = "done"
  /\ UNCHANGED <<pacer, deadline, loop>>

Done ==
  /\ pc = "done"
  /\ pacer' = FrameDone(pacer, now)
  /\ pc' = "wait"
  /\ UNCHANGED <<now, deadline, skip_present, loop>>

LoopNext == Wait \/ ShellMenu \/ ShellRun \/ ShellEnter \/ StepAndPresent \/ Done

LoopSpec == LoopInit /\ [][LoopNext]_loopVars

-----------------------------------------------------------------------------
Pacers ==
  [throttled : BOOLEAN, start : Nat, frame_count : Nat, wait_until : Nat,
   next_deadline : Nat, err : 0 .. Denominator - 1, have_last : BOOLEAN,
   last_done : Nat, total : Nat, late : Nat]

LoopTypeOK ==
  /\ pacer \in Pacers
  /\ now \in Nat
  /\ pc \in {"wait", "shell", "step", "done"}
  /\ deadline \in Nat
  /\ skip_present \in BOOLEAN
  /\ loop \in {"tft", "pico", "host"}

(* However late its frames were, the pacer's deadlines are the exact       *)
(* cadence, to the nanosecond: the n-th lies n * Numerator / Denominator   *)
(* after the start, the fraction being in the accumulator.                 *)
NoDrift ==
  pacer.throttled =>
    (pacer.next_deadline - pacer.start) * Denominator + pacer.err
      = (pacer.frame_count + 1) * Numerator

(* No frame begins before its turn in that cadence, "so wall-clock audio   *)
(* production stays aligned" (main.c:207): the emulation cannot run ahead  *)
(* of the clock, whatever the sleeps and the rounding do.                  *)
NeverAhead ==
  pacer.throttled /\ pc # "wait" =>
    now >= pacer.start + (pacer.frame_count * Numerator) \div Denominator

(* The frame times add up to the time since the pacer was started: no time *)
(* is lost between frames or across a menu, so the average frame time that *)
(* get_stats reports is the real one.                                      *)
TotalIsElapsed ==
  pacer.have_last => pacer.total = pacer.last_done - pacer.start
=============================================================================
