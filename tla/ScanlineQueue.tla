---------------------------- MODULE ScanlineQueue ----------------------------
(***************************************************************************)
(* The lock-free ring of src/pico/scanline_queue.c, one action per memory  *)
(* access the other core can observe.  Core 0 pushes, core 1 pops; they    *)
(* share the slots, the two 32-bit counters and the event register that    *)
(* SEV sets and WFE waits for.  Steps are in program order: the DMB of     *)
(* push orders the slot before head, the DMB of pop orders head before the *)
(* slot.                                                                   *)
(***************************************************************************)
EXTENDS Integers, Sequences

CONSTANTS
  Pixels,    \* the contents a line's 256 pixels can have
  Ys,        \* line numbers
  Capacity,  \* SCANLINE_QUEUE_CAPACITY, 128
  Modulus,   \* 2^32, what the counters wrap at
  NoLine     \* the absence of a line

(* 128 divides 2^32: without this the slot index would jump at the wrap.   *)
(* The next head must not wrap onto the tail of a full ring either.        *)
ASSUME CapacityAssumption ==
  /\ Capacity \in Nat \ {0}
  /\ Modulus \in Nat
  /\ Modulus > Capacity + 1
  /\ Modulus % Capacity = 0

Lines == [pixels : Pixels, y : Ys]

ASSUME NoLineAssumption == NoLine \notin Lines

VARIABLES
  slots,     \* the ring
  head,      \* written by core 0 only
  tail,      \* written by core 1 only
  event,     \* core 1's event register
  ppc,       \* where core 0 is in scanline_queue_push
  pline,     \* the line being pushed
  stalled,   \* this push found the ring full (stall_start_us != 0)
  stallCount,\* producer_stall_count
  cpc,       \* where core 1 is in a pop
  out,       \* *out_slot
  got        \* the last pop to return brought a line

producerVars == <<head, ppc, pline, stalled, stallCount>>
consumerVars == <<tail, cpc, out, got>>
vars == <<slots, event, producerVars, consumerVars>>

(* Subtraction and increment of uint32_t.                                  *)
Minus(a, b) == (a - b) % Modulus
Plus1(a) == (a + 1) % Modulus
SlotOf(counter) == counter % Capacity

TypeOK ==
  /\ slots \in [0 .. Capacity - 1 -> Lines]
  /\ head \in 0 .. Modulus - 1
  /\ tail \in 0 .. Modulus - 1
  /\ event \in BOOLEAN
  /\ ppc \in {"idle", "full?", "pixels", "y", "publish", "sev"}
  /\ pline \in Lines
  /\ stalled \in BOOLEAN
  /\ stallCount \in 0 .. Modulus - 1
  /\ cpc \in {"idle", "empty?", "wfe", "try", "pixels", "y", "release"}
  /\ out \in Lines
  /\ got \in BOOLEAN

(* scanline_queue_init; the slots hold whatever the memory held.           *)
Init ==
  /\ slots \in [0 .. Capacity - 1 -> Lines]
  /\ head = 0
  /\ tail = 0
  /\ event \in BOOLEAN
  /\ ppc = "idle"
  /\ pline \in Lines
  /\ stalled = FALSE
  /\ stallCount = 0
  /\ cpc = "idle"
  /\ out \in Lines
  /\ got = FALSE

-----------------------------------------------------------------------------
(* scanline_queue_push, on core 0 *)

PushCall(line) ==
  /\ ppc = "idle"
  /\ ppc' = "full?"
  /\ pline' = line
  /\ stalled' = FALSE
  /\ UNCHANGED <<slots, event, head, stallCount, consumerVars>>

(* Mutant: one slot too many.                                              *)
FullOffByOne == Minus(Plus1(head), tail) > Capacity + 1

Full == Minus(Plus1(head), tail) > Capacity

(* One turn of the spin loop: the first one that finds the ring full is    *)
(* counted.                                                                *)
PushStall ==
  /\ ppc = "full?"
  /\ Full
  /\ ~stalled
  /\ stalled' = TRUE
  /\ stallCount' = Plus1(stallCount)
  /\ UNCHANGED <<slots, event, head, ppc, pline, consumerVars>>

PushRoom ==
  /\ ppc = "full?"
  /\ ~Full
  /\ ppc' = "pixels"
  /\ UNCHANGED <<slots, event, head, pline, stalled, stallCount, consumerVars>>

PushPixels ==
  /\ ppc = "pixels"
  /\ slots' = [slots EXCEPT ![SlotOf(head)].pixels = pline.pixels]
  /\ ppc' = "y"
  /\ UNCHANGED <<event, head, pline, stalled, stallCount, consumerVars>>

PushY ==
  /\ ppc = "y"
  /\ slots' = [slots EXCEPT ![SlotOf(head)].y = pline.y]
  /\ ppc' = "publish"
  /\ UNCHANGED <<event, head, pline, stalled, stallCount, consumerVars>>

PushPublish ==
  /\ ppc = "publish"
  /\ head' = Plus1(head)
  /\ ppc' = "sev"
  /\ UNCHANGED <<slots, event, pline, stalled, stallCount, consumerVars>>

(* Mutant: the SEV is forgotten.                                           *)
PushNoSev ==
  /\ ppc = "sev"
  /\ ppc' = "idle"
  /\ UNCHANGED <<slots, event, head, pline, stalled, stallCount, consumerVars>>

PushSev ==
  /\ ppc = "sev"
  /\ event' = TRUE
  /\ ppc' = "idle"
  /\ UNCHANGED <<slots, head, pline, stalled, stallCount, consumerVars>>

-----------------------------------------------------------------------------
(* scanline_queue_pop_blocking and scanline_queue_try_pop, on core 1 *)

PopCall ==
  /\ cpc = "idle"
  /\ cpc' = "empty?"
  /\ got' = FALSE
  /\ UNCHANGED <<slots, event, producerVars, tail, out>>

TryPopCall ==
  /\ cpc = "idle"
  /\ cpc' = "try"
  /\ got' = FALSE
  /\ UNCHANGED <<slots, event, producerVars, tail, out>>

PopEmpty ==
  /\ cpc = "empty?"
  /\ head = tail
  /\ cpc' = "wfe"
  /\ UNCHANGED <<slots, event, producerVars, tail, out, got>>

(* WFE returns once the event register is set, and clears it.              *)
PopWake ==
  /\ cpc = "wfe"
  /\ event
  /\ event' = FALSE
  /\ cpc' = "empty?"
  /\ UNCHANGED <<slots, producerVars, tail, out, got>>

TryPopEmpty ==
  /\ cpc = "try"
  /\ head = tail
  /\ cpc' = "idle"
  /\ UNCHANGED <<slots, event, producerVars, tail, out, got>>

PopFound ==
  /\ cpc \in {"empty?", "try"}
  /\ head # tail
  /\ cpc' = "pixels"
  /\ UNCHANGED <<slots, event, producerVars, tail, out, got>>

PopPixels ==
  /\ cpc = "pixels"
  /\ out' = [out EXCEPT !.pixels = slots[SlotOf(tail)].pixels]
  /\ cpc' = "y"
  /\ UNCHANGED <<slots, event, producerVars, tail, got>>

PopY ==
  /\ cpc = "y"
  /\ out' = [out EXCEPT !.y = slots[SlotOf(tail)].y]
  /\ cpc' = "release"
  /\ UNCHANGED <<slots, event, producerVars, tail, got>>

PopRelease ==
  /\ cpc = "release"
  /\ tail' = Plus1(tail)
  /\ got' = TRUE
  /\ cpc' = "idle"
  /\ UNCHANGED <<slots, event, producerVars, out>>

(* Any interrupt taken by core 1 (the DMA's, every line) sets the event    *)
(* register as well.                                                       *)
Interrupt ==
  /\ ~event
  /\ event' = TRUE
  /\ UNCHANGED <<slots, producerVars, consumerVars>>

-----------------------------------------------------------------------------
PushStep ==
  PushStall \/ PushRoom \/ PushPixels \/ PushY \/ PushPublish \/ PushSev

PopStep ==
  \/ PopEmpty \/ PopWake \/ TryPopEmpty \/ PopFound
  \/ PopPixels \/ PopY \/ PopRelease

Next ==
  \/ \E line \in Lines : PushCall(line)
  \/ PushStep
  \/ PopCall
  \/ TryPopCall
  \/ PopStep
  \/ Interrupt

(* Each core runs what it has called; neither has to call again, and no    *)
(* interrupt has to come.                                                  *)
Spec == Init /\ [][Next]_vars /\ WF_vars(PushStep) /\ WF_vars(PopStep)

-----------------------------------------------------------------------------
Occupancy == Minus(head, tail)

(* The lines between tail and head, oldest first.                          *)
Published ==
  [i \in 1 .. Occupancy |-> slots[SlotOf((tail + (i - 1)) % Modulus)]]

Writing == ppc \in {"pixels", "y", "publish"}
Reading == cpc \in {"pixels", "y", "release"}

(* The counters never drift apart by more than the ring holds, and a       *)
(* producer past its full test really has a free slot: the tail it tested  *)
(* can only have advanced since.                                           *)
RoomForWrite ==
  /\ Occupancy <= Capacity
  /\ Writing => Occupancy < Capacity

(* A consumer past its empty test really has a published slot.             *)
LineToRead == Reading => Occupancy > 0

(* The two cores are never inside the same slot: what the comment at       *)
(* scanline_queue.c:6 asks of the barriers around head and tail.           *)
NoSlotRace == Writing /\ Reading => SlotOf(head) # SlotOf(tail)

(* What core 0 has written so far of the slot at head, and what core 1 has *)
(* copied so far of the slot at tail; a pop in progress has none to show.  *)
PartialCopies ==
  /\ ppc \in {"y", "publish"} => slots[SlotOf(head)].pixels = pline.pixels
  /\ ppc = "publish" => slots[SlotOf(head)].y = pline.y
  /\ cpc \in {"y", "release"} => out.pixels = slots[SlotOf(tail)].pixels
  /\ cpc = "release" => out.y = slots[SlotOf(tail)].y
  /\ got => cpc = "idle"

IInv == TypeOK /\ RoomForWrite /\ LineToRead /\ PartialCopies

(* The ring behaves as the abstract queue: no line is lost, duplicated,    *)
(* reordered or torn, at most Capacity are in flight, a push blocks only   *)
(* while the ring is full, try_pop fails only when it is empty, and a      *)
(* consumer asleep in WFE is woken for every line published meanwhile.     *)
Fifo == INSTANCE LineFifo WITH
  fifo <- Published,
  offered <- IF ppc \in {"full?", "pixels", "y", "publish"} THEN pline ELSE NoLine,
  popping <- cpc # "idle",
  taken <- IF cpc = "idle" /\ got THEN out ELSE NoLine

ImplementsFifo == Fifo!FifoSpec
=============================================================================
