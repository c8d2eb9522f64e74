------------------------ MODULE ScanlineQueueProofs ------------------------
(***************************************************************************)
(* For every capacity and every width of the counters (CapacityAssumption) *)
(* the ring of scanline_queue.c keeps its types, never lets the two cores  *)
(* into one slot, and implements the abstract queue LineFifo.              *)
(***************************************************************************)
EXTENDS ScanlineQueue, NumberFacts, SequenceTheorems

(* What the assumption on the constants says in the form the lemmas on     *)
(* modular arithmetic take.                                                *)
LEMMA Widths ==
  /\ Modulus \in Nat \ {0}
  /\ Capacity \in Nat \ {0}
  /\ Modulus % Capacity = 0
  /\ Modulus > Capacity + 1
BY CapacityAssumption

(* The uint32_t difference of two counters.                                *)
LEMMA MinusCases ==
  ASSUME NEW h \in 0 .. Modulus - 1, NEW t \in 0 .. Modulus - 1
  PROVE  /\ Minus(h, t) = IF t <= h THEN h - t ELSE h - t + Modulus
         /\ Minus(h, t) \in 0 .. Modulus - 1
<1>1. Minus(h, t) = IF t <= h THEN h - t ELSE h - t + Modulus
  BY Widths, WrappingMinus DEF Minus
<1> QED
  BY <1>1, Widths

(* The uint32_t increment of a counter.                                    *)
LEMMA Plus1Cases ==
  ASSUME NEW h \in 0 .. Modulus - 1
  PROVE  /\ Plus1(h) = IF h + 1 = Modulus THEN 0 ELSE h + 1
         /\ Plus1(h) \in 0 .. Modulus - 1
<1>1. Plus1(h) = IF h + 1 = Modulus THEN 0 ELSE h + 1
  BY Widths, WrappingPlus1 DEF Plus1
<1> QED
  BY <1>1, Widths

(* Slot indices are within the array.                                      *)
LEMMA SlotInRange ==
  ASSUME NEW n \in Int
  PROVE  SlotOf(n) \in 0 .. Capacity - 1
BY Widths, DivMod DEF SlotOf

(* One more line published, one more released: the distance between the    *)
(* counters moves by one, across the wrap too.                             *)
LEMMA DistanceSteps ==
  ASSUME NEW h \in 0 .. Modulus - 1, NEW t \in 0 .. Modulus - 1
  PROVE  /\ Minus(h, t) < Modulus - 1 => Minus(Plus1(h), t) = Minus(h, t) + 1
         /\ Minus(h, t) = Modulus - 1 => Minus(Plus1(h), t) = 0
         /\ Minus(h, t) > 0 => Minus(h, Plus1(t)) = Minus(h, t) - 1
         /\ Minus(h, t) = 0 <=> h = t
<1>1. /\ Plus1(h) = IF h + 1 = Modulus THEN 0 ELSE h + 1
      /\ Plus1(t) = IF t + 1 = Modulus THEN 0 ELSE t + 1
      /\ Plus1(h) \in 0 .. Modulus - 1
      /\ Plus1(t) \in 0 .. Modulus - 1
  BY Plus1Cases
<1>2. Minus(h, t) = IF t <= h THEN h - t ELSE h - t + Modulus
  BY MinusCases
<1>3. Minus(Plus1(h), t) = IF t <= Plus1(h) THEN Plus1(h) - t
                           ELSE Plus1(h) - t + Modulus
  BY <1>1, MinusCases
<1>4. Minus(h, Plus1(t)) = IF Plus1(t) <= h THEN h - Plus1(t)
                           ELSE h - Plus1(t) + Modulus
  BY <1>1, MinusCases
<1>5. /\ Minus(h, t) < Modulus - 1 => Minus(Plus1(h), t) = Minus(h, t) + 1
      /\ Minus(h, t) = Modulus - 1 => Minus(Plus1(h), t) = 0
  BY <1>1, <1>2, <1>3, Widths
<1>6. Minus(h, t) > 0 => Minus(h, Plus1(t)) = Minus(h, t) - 1
  BY <1>1, <1>2, <1>4, Widths
<1>7. Minus(h, t) = 0 <=> h = t
  BY <1>2, Widths
<1> QED
  BY <1>5, <1>6, <1>7

(* The guard of the spin loop means what its comment says, "the queue is   *)
(* full".                                                                  *)
LEMMA FullMeansFull ==
  ASSUME TypeOK, Occupancy <= Capacity
  PROVE  Full <=> Occupancy = Capacity
<1>1. head \in 0 .. Modulus - 1 /\ tail \in 0 .. Modulus - 1
  BY DEF TypeOK
<1>2. Occupancy < Modulus - 1 /\ Occupancy \in 0 .. Modulus - 1
  BY <1>1, Widths, MinusCases DEF Occupancy
<1>3. Minus(Plus1(head), tail) = Occupancy + 1
  BY <1>1, <1>2, DistanceSteps DEF Occupancy
<1> QED
  BY <1>2, <1>3, Widths DEF Full

(* The ring index of the i-th line in flight, without the wrap.            *)
LEMMA LineSlot ==
  ASSUME TypeOK, NEW i \in Nat
  PROVE  SlotOf((tail + i) % Modulus) = (tail + i) % Capacity
<1>1. tail + i \in Int
  BY DEF TypeOK
<1> QED
  BY <1>1, Widths, ModMod DEF SlotOf

(* The slot at head is the one after the last line in flight.              *)
LEMMA HeadSlot ==
  ASSUME TypeOK
  PROVE  /\ head = (tail + Occupancy) % Modulus
         /\ SlotOf(head) = (tail + Occupancy) % Capacity
         /\ Occupancy \in 0 .. Modulus - 1
<1>1. head \in 0 .. Modulus - 1 /\ tail \in 0 .. Modulus - 1
  BY DEF TypeOK
<1>2. /\ Occupancy = IF tail <= head THEN head - tail ELSE head - tail + Modulus
      /\ Occupancy \in 0 .. Modulus - 1
  BY <1>1, MinusCases DEF Occupancy
<1>3. tail + Occupancy = Modulus * (IF tail <= head THEN 0 ELSE 1) + head
  BY <1>1, <1>2, Widths
<1>4. head = (tail + Occupancy) % Modulus
  <2>1. tail + Occupancy \in Int /\ (IF tail <= head THEN 0 ELSE 1) \in Int
    BY <1>1, <1>2
  <2> QED
    BY <1>1, <1>3, <2>1, Widths, ModUnique
<1>5. SlotOf((tail + Occupancy) % Modulus) = (tail + Occupancy) % Capacity
  BY <1>2, LineSlot
<1> QED
  BY <1>2, <1>4, <1>5

(* With room in the ring, the slot at head holds none of the lines in      *)
(* flight.                                                                 *)
LEMMA FreeSlot ==
  ASSUME TypeOK, Occupancy < Capacity, NEW i \in 0 .. Occupancy - 1
  PROVE  SlotOf((tail + i) % Modulus) # SlotOf(head)
<1>1. /\ SlotOf(head) = (tail + Occupancy) % Capacity
      /\ Occupancy \in 0 .. Modulus - 1
  BY HeadSlot
<1>2. SlotOf((tail + i) % Modulus) = (tail + i) % Capacity
  BY <1>1, LineSlot
<1> DEFINE d == Occupancy - i
           a == tail + i
<1>3. d \in 1 .. Capacity - 1 /\ a \in Int /\ tail + Occupancy = a + d
  BY <1>1, Widths DEF TypeOK
<1> HIDE DEF d, a
<1>4. (a + d) % Capacity # a % Capacity
  BY <1>3, Widths, DistinctSlots
<1> QED
  BY <1>1, <1>2, <1>3, <1>4 DEF a

(* A counter is its own remainder.                                         *)
LEMMA TailItself ==
  ASSUME TypeOK
  PROVE  (tail + 0) % Modulus = tail
<1>1. tail \in 0 .. Modulus - 1 /\ tail = Modulus * 0 + tail /\ tail + 0 = tail
  BY Widths DEF TypeOK
<1> QED
  BY <1>1, Widths, ModUnique

-----------------------------------------------------------------------------
(* The inductive invariant: the types, the room a writer has, the line a   *)
(* reader has, and what each of the two has copied so far.                 *)

LEMMA InitIInv == Init => IInv
<1> SUFFICES ASSUME Init PROVE IInv
  OBVIOUS
<1>1. TypeOK
  <2>1. 0 \in 0 .. Modulus - 1
    BY Widths
  <2> QED
    BY <2>1, Zenon DEF Init, TypeOK
<1>2. Occupancy = 0
  BY Widths, DistanceSteps, <1>1 DEF Init, Occupancy, TypeOK
<1> QED
  BY <1>1, <1>2, Widths DEF Init, IInv, RoomForWrite, LineToRead,
     PartialCopies, Writing, Reading

LEMMA TypeStep ==
  ASSUME TypeOK, [Next]_vars
  PROVE  TypeOK'
<1> USE DEF TypeOK, vars, producerVars, consumerVars
<1>1. /\ Plus1(head) \in 0 .. Modulus - 1
      /\ Plus1(tail) \in 0 .. Modulus - 1
      /\ Plus1(stallCount) \in 0 .. Modulus - 1
  BY Plus1Cases
<1>2. /\ SlotOf(head) \in 0 .. Capacity - 1
      /\ SlotOf(tail) \in 0 .. Capacity - 1
  BY SlotInRange
<1>3. ASSUME NEW line \in Lines, PushCall(line) PROVE TypeOK'
  BY <1>3 DEF PushCall
<1>4. CASE PushStall
  BY <1>1, <1>4 DEF PushStall
<1>5. CASE PushRoom
  BY <1>5 DEF PushRoom
<1>6. CASE PushPixels
  BY <1>2, <1>6 DEF PushPixels, Lines
<1>7. CASE PushY
  BY <1>2, <1>7 DEF PushY, Lines
<1>8. CASE PushPublish
  BY <1>1, <1>8 DEF PushPublish
<1>9. CASE PushSev
  BY <1>9 DEF PushSev
<1>10. CASE PopCall \/ TryPopCall \/ Interrupt
  BY <1>10 DEF PopCall, TryPopCall, Interrupt
<1>11. CASE PopEmpty \/ PopWake \/ TryPopEmpty \/ PopFound
  BY <1>11 DEF PopEmpty, PopWake, TryPopEmpty, PopFound
<1>12. CASE PopPixels
  BY <1>2, <1>12 DEF PopPixels, Lines
<1>13. CASE PopY
  BY <1>2, <1>13 DEF PopY, Lines
<1>14. CASE PopRelease
  BY <1>1, <1>14 DEF PopRelease
<1>15. CASE UNCHANGED vars
  BY <1>15
<1> QED
  BY <1>3, <1>4, <1>5, <1>6, <1>7, <1>8, <1>9, <1>10, <1>11, <1>12, <1>13,
     <1>14, <1>15 DEF Next, PushStep, PopStep

(* The theorem behind the type invariant of the runs.                      *)
THEOREM TypeCorrect == Spec => []TypeOK
<1>1. Init => TypeOK
  BY InitIInv DEF IInv
<1>2. TypeOK /\ [Next]_vars => TypeOK'
  BY TypeStep
<1> QED
  BY <1>1, <1>2, PTL DEF Spec

-----------------------------------------------------------------------------
(* Occupancy and slots, action by action.                                  *)

(* Only publishing and releasing move the distance of the counters.        *)
LEMMA OccupancyStep ==
  ASSUME IInv, [Next]_vars
  PROVE  /\ Occupancy' = IF PushPublish THEN Occupancy + 1
                          ELSE IF PopRelease THEN Occupancy - 1 ELSE Occupancy
         /\ Occupancy \in Nat
         /\ PushPublish => Occupancy < Capacity
         /\ PopRelease => Occupancy > 0
<1> USE DEF vars, producerVars, consumerVars
<1>1. TypeOK /\ head \in 0 .. Modulus - 1 /\ tail \in 0 .. Modulus - 1
  BY DEF IInv, TypeOK
<1>2. Occupancy \in 0 .. Modulus - 1
  BY <1>1, HeadSlot
<1>3. PushPublish => Occupancy < Capacity
  BY DEF IInv, RoomForWrite, Writing, PushPublish
<1>4. PopRelease => Occupancy > 0
  BY DEF IInv, LineToRead, Reading, PopRelease
<1>5. CASE PushPublish
  <2>1. ~PopRelease /\ head' = Plus1(head) /\ tail' = tail
    BY <1>1, <1>5, Plus1Cases, Widths DEF PushPublish, PopRelease
  <2>2. Minus(Plus1(head), tail) = Minus(head, tail) + 1
    BY <1>1, <1>2, <1>3, <1>5, Widths, DistanceSteps DEF Occupancy
  <2> QED
    BY <1>2, <1>3, <1>4, <1>5, <2>1, <2>2 DEF Occupancy
<1>6. CASE PopRelease
  <2>1. ~PushPublish /\ tail' = Plus1(tail) /\ head' = head
    BY <1>1, <1>6, Plus1Cases, Widths DEF PushPublish, PopRelease
  <2>2. Minus(head, Plus1(tail)) = Minus(head, tail) - 1
    BY <1>1, <1>2, <1>4, <1>6, DistanceSteps DEF Occupancy
  <2> QED
    BY <1>2, <1>3, <1>4, <1>6, <2>1, <2>2 DEF Occupancy
<1>7. CASE ~PushPublish /\ ~PopRelease
  <2>1. UNCHANGED <<head, tail>>
    BY <1>7 DEF Next, PushStep, PopStep, PushCall, PushStall, PushRoom,
       PushPixels, PushY, PushSev, PopCall, TryPopCall, PopEmpty, PopWake,
       TryPopEmpty, PopFound, PopPixels, PopY, Interrupt
  <2> QED
    BY <1>2, <1>7, <2>1 DEF Occupancy, Minus
<1> QED
  BY <1>5, <1>6, <1>7

(* The room and the line each core counted on stay there while the other   *)
(* core works: core 1 only makes room, core 0 only adds lines.             *)
LEMMA RoomStep ==
  ASSUME IInv, [Next]_vars
  PROVE  RoomForWrite' /\ LineToRead'
<1> USE DEF vars, producerVars, consumerVars
<1>1. TypeOK /\ Occupancy <= Capacity
  BY DEF IInv, RoomForWrite
<1>2. /\ Occupancy' = IF PushPublish THEN Occupancy + 1
                       ELSE IF PopRelease THEN Occupancy - 1 ELSE Occupancy
      /\ Occupancy \in Nat
      /\ PushPublish => Occupancy < Capacity
      /\ PopRelease => Occupancy > 0
  BY OccupancyStep
<1>3. PushPublish => ~PopRelease
  BY <1>1, Plus1Cases, Widths DEF PushPublish, PopRelease, TypeOK
<1>4. Writing' => ~PushPublish /\ (Writing \/ (PushRoom /\ ~PopRelease))
  BY DEF Next, PushStep, PopStep, PushCall, PushStall, PushRoom, PushPixels,
     PushY, PushPublish, PushSev, PopCall, TryPopCall, PopEmpty, PopWake,
     TryPopEmpty, PopFound, PopPixels, PopY, PopRelease, Interrupt, Writing
<1>5. Reading' => ~PopRelease /\ (Reading \/ PopFound)
  BY DEF Next, PushStep, PopStep, PushCall, PushStall, PushRoom, PushPixels,
     PushY, PushPublish, PushSev, PopCall, TryPopCall, PopEmpty, PopWake,
     TryPopEmpty, PopFound, PopPixels, PopY, PopRelease, Interrupt, Reading
<1>6. PushRoom => Occupancy < Capacity
  BY <1>1, <1>2, FullMeansFull, Widths DEF PushRoom
<1>7. PopFound => Occupancy > 0
  <2>1. Minus(head, tail) = 0 <=> head = tail
    BY <1>1, DistanceSteps DEF TypeOK
  <2> QED
    BY <1>2, <2>1 DEF PopFound, Occupancy
<1>8. Writing => Occupancy < Capacity
  BY DEF IInv, RoomForWrite
<1>9. Reading => Occupancy > 0
  BY DEF IInv, LineToRead
<1>10. RoomForWrite'
  BY <1>1, <1>2, <1>3, <1>4, <1>6, <1>8, Widths DEF RoomForWrite
<1>11. LineToRead'
  BY <1>2, <1>3, <1>5, <1>7, <1>9 DEF LineToRead
<1> QED
  BY <1>10, <1>11

(* The oldest line's slot is not the one at head while there is room.      *)
LEMMA OldestNotHead ==
  ASSUME TypeOK, Occupancy > 0, Occupancy < Capacity
  PROVE  SlotOf(head) # SlotOf(tail)
<1>1. 0 \in 0 .. Occupancy - 1
  BY HeadSlot
<1>2. SlotOf((tail + 0) % Modulus) # SlotOf(head)
  BY <1>1, FreeSlot
<1> QED
  BY <1>2, TailItself

(* No slot race, from the inductive invariant.                             *)
LEMMA IInvNoRace == IInv => NoSlotRace
BY OldestNotHead DEF IInv, RoomForWrite, LineToRead, NoSlotRace

(* The halves already copied stay right: core 0 writes only the slot at    *)
(* head, and core 1 is never in that slot.                                 *)
LEMMA CopiesStep ==
  ASSUME IInv, [Next]_vars
  PROVE  PartialCopies'
<1> USE DEF vars, producerVars, consumerVars
<1>1. /\ slots \in [0 .. Capacity - 1 -> Lines]
      /\ pline \in Lines /\ out \in Lines
      /\ SlotOf(head) \in 0 .. Capacity - 1
      /\ SlotOf(tail) \in 0 .. Capacity - 1
  BY SlotInRange DEF IInv, TypeOK
<1>2. PartialCopies /\ NoSlotRace
  BY IInvNoRace DEF IInv
<1>3. CASE PushPixels
  <2>1. /\ slots'[SlotOf(head)].pixels = pline.pixels
        /\ \A i \in 0 .. Capacity - 1 : i # SlotOf(head) => slots'[i] = slots[i]
    BY <1>1, <1>3 DEF PushPixels, Lines
  <2>2. Reading => slots'[SlotOf(tail)] = slots[SlotOf(tail)]
    BY <1>1, <1>2, <1>3, <2>1 DEF NoSlotRace, Writing, PushPixels
  <2> QED
    BY <1>2, <1>3, <2>1, <2>2 DEF PushPixels, PartialCopies, Reading, SlotOf
<1>4. CASE PushY
  <2>1. /\ slots'[SlotOf(head)].pixels = slots[SlotOf(head)].pixels
        /\ slots'[SlotOf(head)].y = pline.y
        /\ \A i \in 0 .. Capacity - 1 : i # SlotOf(head) => slots'[i] = slots[i]
    BY <1>1, <1>4 DEF PushY, Lines
  <2>2. Reading => slots'[SlotOf(tail)] = slots[SlotOf(tail)]
    BY <1>1, <1>2, <1>4, <2>1 DEF NoSlotRace, Writing, PushY
  <2> QED
    BY <1>2, <1>4, <2>1, <2>2 DEF PushY, PartialCopies, Reading, SlotOf
<1>5. CASE PopPixels
  <2>1. out'.pixels = slots[SlotOf(tail)].pixels
    BY <1>1, <1>5 DEF PopPixels, Lines
  <2> QED
    BY <1>2, <1>5, <2>1 DEF PopPixels, PartialCopies, SlotOf
<1>6. CASE PopY
  <2>1. out'.y = slots[SlotOf(tail)].y /\ out'.pixels = out.pixels
    BY <1>1, <1>6 DEF PopY, Lines
  <2> QED
    BY <1>2, <1>6, <2>1 DEF PopY, PartialCopies, SlotOf
<1>7. CASE ~(PushPixels \/ PushY \/ PopPixels \/ PopY)
  <2>1. /\ UNCHANGED slots
        /\ ppc' \in {"y", "publish"} => UNCHANGED <<ppc, pline, head>>
        /\ cpc' \in {"y", "release"} => UNCHANGED <<cpc, out, tail>>
        /\ got' => cpc' = "idle"
    BY <1>2, <1>7 DEF PartialCopies, Next, PushStep, PopStep, PushCall,
       PushStall, PushRoom, PushPublish, PushSev, PopCall, TryPopCall, PopEmpty, PopWake,
       TryPopEmpty, PopFound, PopRelease, Interrupt
  <2> QED
    BY <1>2, <2>1 DEF PartialCopies, SlotOf
<1> QED
  BY <1>3, <1>4, <1>5, <1>6, <1>7

LEMMA StepIInv == IInv /\ [Next]_vars => IInv'
BY TypeStep, RoomStep, CopiesStep DEF IInv

THEOREM Invariance == Spec => []IInv
<1>1. Init => IInv
  BY InitIInv
<1>2. IInv /\ [Next]_vars => IInv'
  BY StepIInv
<1> QED
  BY <1>1, <1>2, PTL DEF Spec

(* The theorem behind the safety invariant of the runs: the cores are      *)
(* never in one slot, whatever the capacity and the width of the counters. *)
THEOREM RaceFree == Spec => []NoSlotRace
BY Invariance, IInvNoRace, PTL

-----------------------------------------------------------------------------
(* Refinement: what each step does to the lines in flight.                 *)

PublishedShape ==
  /\ Published \in Seq(Lines)
  /\ Len(Published) = Occupancy
  /\ Occupancy \in Nat
  /\ \A i \in 1 .. Occupancy :
       Published[i] = slots[SlotOf((tail + (i - 1)) % Modulus)]

LEMMA PublishedIsSeq == TypeOK => PublishedShape
<1> SUFFICES ASSUME TypeOK PROVE PublishedShape
  OBVIOUS
<1>1. Occupancy \in Nat
  BY HeadSlot
<1>2. ASSUME NEW i \in 1 .. Occupancy
      PROVE  slots[SlotOf((tail + (i - 1)) % Modulus)] \in Lines
  <2>1. (tail + (i - 1)) % Modulus \in Int
    <3>1. tail + (i - 1) \in Int
      BY <1>1 DEF TypeOK
    <3> QED
      BY <3>1, DivMod, Widths
  <2> QED
    BY <2>1, SlotInRange DEF TypeOK
<1> QED
  BY <1>1, <1>2 DEF Published, PublishedShape

LEMMA PublishedIsSeqNext == TypeOK' => PublishedShape'
BY PublishedIsSeq, PTL

(* Publishing appends the line written at head to the lines in flight.     *)
LEMMA PublishAppends ==
  ASSUME IInv, IInv', PushPublish
  PROVE  Published' = Append(Published, pline)
<1>1. TypeOK /\ TypeOK' /\ [Next]_vars
  BY DEF IInv, Next, PushStep
<1>2. /\ Occupancy \in Nat
      /\ Occupancy < Capacity
      /\ Occupancy' = Occupancy + 1
  BY <1>1, OccupancyStep
<1>3. slots' = slots /\ tail' = tail
  BY DEF PushPublish, consumerVars
<1>4. /\ Published' \in Seq(Lines)
      /\ Len(Published') = Occupancy'
      /\ \A i \in 1 .. Occupancy' :
           Published'[i] = slots[SlotOf((tail + (i - 1)) % Modulus)]
  BY <1>1, <1>3, PublishedIsSeqNext DEF PublishedShape, SlotOf
<1>5. /\ Published \in Seq(Lines)
      /\ Len(Published) = Occupancy
      /\ \A i \in 1 .. Occupancy :
           Published[i] = slots[SlotOf((tail + (i - 1)) % Modulus)]
  BY <1>1, PublishedIsSeq DEF PublishedShape
<1>6. slots[SlotOf(head)] = pline /\ pline \in Lines
  <2>1. slots[SlotOf(head)] \in Lines /\ pline \in Lines
    BY <1>1, SlotInRange DEF TypeOK
  <2>2. /\ slots[SlotOf(head)].pixels = pline.pixels
        /\ slots[SlotOf(head)].y = pline.y
    BY DEF IInv, PartialCopies, PushPublish
  <2> QED
    BY <2>1, <2>2 DEF Lines
<1>7. head = (tail + Occupancy) % Modulus
  BY <1>1, HeadSlot
<1> DEFINE longer == Append(Published, pline)
<1>8. /\ longer \in Seq(Lines)
      /\ Len(longer) = Occupancy + 1
      /\ \A i \in 1 .. Occupancy : longer[i] = Published[i]
      /\ longer[Occupancy + 1] = pline
  BY <1>5, <1>6, AppendProperties
<1>9. ASSUME NEW i \in 1 .. Occupancy + 1
      PROVE  Published'[i] = longer[i]
  <2> HIDE DEF longer
  <2>1. CASE i = Occupancy + 1
    <3>1. tail + (i - 1) = tail + Occupancy
      BY <1>2, <2>1
    <3> QED
      BY <1>2, <1>4, <1>6, <1>7, <1>8, <2>1, <3>1
  <2>2. CASE i \in 1 .. Occupancy
    BY <1>2, <1>4, <1>5, <1>8, <2>2
  <2> QED
    BY <1>2, <2>1, <2>2
<1> HIDE DEF longer
<1>10. Published' = longer
  BY <1>2, <1>4, <1>8, <1>9, SeqEqual
<1> QED
  BY <1>10 DEF longer

(* Releasing removes the oldest line, the one just copied out.             *)
LEMMA ReleaseRemoves ==
  ASSUME IInv, IInv', PopRelease
  PROVE  /\ Published # <<>>
         /\ Published' = Tail(Published)
         /\ out = Head(Published)
<1>1. TypeOK /\ TypeOK' /\ [Next]_vars
  BY DEF IInv, Next, PopStep
<1>2. /\ Occupancy \in Nat
      /\ Occupancy > 0
      /\ Occupancy' = Occupancy - 1
  <2>1. ~PushPublish
    BY <1>1, Plus1Cases, Widths DEF PushPublish, PopRelease, TypeOK, producerVars
  <2> QED
    BY <1>1, <2>1, OccupancyStep
<1>3. slots' = slots /\ tail' = (tail + 1) % Modulus
  BY DEF PopRelease, Plus1
<1>4. /\ Published' \in Seq(Lines)
      /\ Len(Published') = Occupancy'
      /\ \A i \in 1 .. Occupancy' :
           Published'[i] = slots[SlotOf((tail' + (i - 1)) % Modulus)]
  BY <1>1, <1>3, PublishedIsSeqNext DEF PublishedShape, SlotOf
<1>5. /\ Published \in Seq(Lines)
      /\ Len(Published) = Occupancy
      /\ \A i \in 1 .. Occupancy :
           Published[i] = slots[SlotOf((tail + (i - 1)) % Modulus)]
  BY <1>1, PublishedIsSeq DEF PublishedShape
<1>6. Published # <<>>
  BY <1>2, <1>5
<1>7. /\ Tail(Published) \in Seq(Lines)
      /\ Len(Tail(Published)) = Occupancy - 1
      /\ \A i \in 1 .. Occupancy - 1 : Tail(Published)[i] = Published[i + 1]
  BY <1>5, <1>6, HeadTailProperties
<1>8. ASSUME NEW i \in 1 .. Occupancy - 1
      PROVE  Published'[i] = Published[i + 1]
  <2>1. tail \in Int /\ i - 1 \in Int /\ tail + 1 \in Int
    BY <1>1, <1>2 DEF TypeOK
  <2>2. (((tail + 1) % Modulus) + (i - 1)) % Modulus = ((tail + 1) + (i - 1)) % Modulus
    BY <2>1, ModPlus, Widths
  <2>3. (tail + 1) + (i - 1) = tail + ((i + 1) - 1)
    BY <2>1
  <2>4. i + 1 \in 1 .. Occupancy
    BY <1>2
  <2>5. Published'[i] = slots[SlotOf((((tail + 1) % Modulus) + (i - 1)) % Modulus)]
    BY <1>2, <1>3, <1>4
  <2>6. Published[i + 1] = slots[SlotOf((tail + ((i + 1) - 1)) % Modulus)]
    BY <1>5, <2>4
  <2> QED
    BY <2>2, <2>3, <2>5, <2>6
<1>9. Published' = Tail(Published)
  BY <1>2, <1>4, <1>7, <1>8, SeqEqual
<1>10. out = Head(Published)
  <2>1. Head(Published) = slots[SlotOf((tail + 0) % Modulus)]
    BY <1>2, <1>5, <1>6
  <2>2. Head(Published) = slots[SlotOf(tail)]
    BY <1>1, <2>1, TailItself
  <2>3. slots[SlotOf(tail)] \in Lines /\ out \in Lines
    BY <1>1, SlotInRange DEF TypeOK
  <2>4. out.pixels = slots[SlotOf(tail)].pixels /\ out.y = slots[SlotOf(tail)].y
    BY DEF IInv, PartialCopies, PopRelease
  <2> QED
    BY <2>2, <2>3, <2>4 DEF Lines
<1> QED
  BY <1>6, <1>9, <1>10

(* No other step touches the lines in flight: core 0 writes beside them.   *)
LEMMA OtherStepsKeep ==
  ASSUME IInv, IInv', [Next]_vars, ~PushPublish, ~PopRelease
  PROVE  Published' = Published
<1> USE DEF vars, producerVars, consumerVars
<1>1. TypeOK /\ TypeOK'
  BY DEF IInv
<1>2. Occupancy' = Occupancy /\ Occupancy \in Nat
  BY OccupancyStep
<1>3. tail' = tail /\ head' = head
  BY DEF Next, PushStep, PopStep, PushCall, PushStall, PushRoom,
     PushPixels, PushY, PushSev, PopCall, TryPopCall, PopEmpty, PopWake,
     TryPopEmpty, PopFound, PopPixels, PopY, Interrupt
<1>4. ASSUME NEW i \in 1 .. Occupancy
      PROVE  slots'[SlotOf((tail + (i - 1)) % Modulus)]
             = slots[SlotOf((tail + (i - 1)) % Modulus)]
  <2>1. CASE PushPixels \/ PushY
    <3>1. Occupancy < Capacity
      BY <2>1 DEF IInv, RoomForWrite, Writing, PushPixels, PushY
    <3>2. i - 1 \in 0 .. Occupancy - 1
      BY <1>2
    <3>3. SlotOf((tail + (i - 1)) % Modulus) # SlotOf(head)
      BY <1>1, <3>1, <3>2, FreeSlot
    <3>4. SlotOf((tail + (i - 1)) % Modulus) \in 0 .. Capacity - 1
      <4>1. (tail + (i - 1)) % Modulus \in Int
        <5>1. tail + (i - 1) \in Int
          BY <1>1 DEF TypeOK
        <5> QED
          BY <5>1, DivMod, Widths
      <4> QED
        BY <4>1, SlotInRange
    <3> QED
      BY <1>1, <2>1, <3>3, <3>4 DEF TypeOK, PushPixels, PushY
  <2>2. CASE ~(PushPixels \/ PushY)
    BY <2>2 DEF Next, PushStep, PopStep, PushCall, PushStall, PushRoom,
       PushSev, PopCall, TryPopCall, PopEmpty, PopWake,
       TryPopEmpty, PopFound, PopPixels, PopY, Interrupt
  <2> QED
    BY <2>1, <2>2
<1> QED
  BY <1>2, <1>3, <1>4 DEF Published, SlotOf

(* The first state of the ring is the empty queue.                         *)
LEMMA InitRefines == Init => Fifo!FifoInit
<1> SUFFICES ASSUME Init PROVE Fifo!FifoInit
  OBVIOUS
<1>1. TypeOK /\ Occupancy = 0
  <2>1. 0 \in 0 .. Modulus - 1
    BY Widths
  <2> QED
    BY <2>1, InitIInv, DistanceSteps DEF Init, IInv, Occupancy
<1>2. Published = <<>>
  BY <1>1, PublishedIsSeq DEF PublishedShape
<1> QED
  BY <1>2 DEF Init, Fifo!FifoInit

(* Every step of the ring is a step of the queue or leaves it as it is.    *)
LEMMA StepRefines == IInv /\ IInv' /\ [Next]_vars => [Fifo!FifoNext]_(Fifo!fifoVars)
<1> SUFFICES ASSUME IInv, IInv', [Next]_vars
             PROVE  [Fifo!FifoNext]_(Fifo!fifoVars)
  OBVIOUS
<1> USE DEF vars, producerVars, consumerVars
<1>1. TypeOK /\ pline \in Lines /\ NoLine \notin Lines /\ pline # NoLine
  BY NoLineAssumption DEF IInv, TypeOK
<1>2. ~PushPublish /\ ~PopRelease => Published' = Published
  BY OtherStepsKeep
<1>3. got => cpc = "idle"
  BY DEF IInv, PartialCopies
<1>4. ASSUME NEW line \in Lines, PushCall(line)
      PROVE  Fifo!FifoNext
  <2>1. Published' = Published
    BY <1>2, <1>4 DEF PushCall, PushPublish, PopRelease
  <2>2. Fifo!Offer(line)
    BY <1>4, <2>1 DEF PushCall, Fifo!Offer
  <2> QED
    BY <2>2 DEF Fifo!FifoNext
<1>5. CASE PushStall \/ PushRoom \/ PushPixels \/ PushY
  <2>1. Published' = Published
    BY <1>2, <1>5 DEF PushStall, PushRoom, PushPixels, PushY, PushPublish,
       PopRelease
  <2> QED
    BY <1>5, <2>1 DEF PushStall, PushRoom, PushPixels, PushY, Fifo!fifoVars
<1>6. CASE PushPublish
  <2>1. Published' = Append(Published, pline)
    BY <1>6, PublishAppends
  <2>2. Len(Published) < Capacity
    BY <1>1, <1>6, PublishedIsSeq
       DEF PublishedShape, IInv, RoomForWrite, Writing, PushPublish
  <2>3. Fifo!Enqueue
    BY <1>1, <1>6, <2>1, <2>2 DEF PushPublish, Fifo!Enqueue
  <2> QED
    BY <2>3 DEF Fifo!FifoNext
<1>7. CASE PushSev \/ Interrupt
  <2>1. Published' = Published
    BY <1>2, <1>7 DEF PushSev, Interrupt, PushPublish, PopRelease
  <2> QED
    BY <1>7, <2>1 DEF PushSev, Interrupt, Fifo!fifoVars
<1>8. CASE PopCall \/ TryPopCall
  <2>1. Published' = Published
    BY <1>2, <1>8 DEF PopCall, TryPopCall, PushPublish, PopRelease
  <2>2. Fifo!Ask
    BY <1>8, <2>1 DEF PopCall, TryPopCall, Fifo!Ask
  <2> QED
    BY <2>2 DEF Fifo!FifoNext
<1>9. CASE PopEmpty \/ PopWake \/ PopFound \/ PopPixels \/ PopY
  <2>1. Published' = Published
    BY <1>2, <1>9 DEF PopEmpty, PopWake, PopFound, PopPixels, PopY,
       PushPublish, PopRelease
  <2> QED
    BY <1>9, <2>1 DEF PopEmpty, PopWake, PopFound, PopPixels, PopY, Fifo!fifoVars
<1>10. CASE TryPopEmpty
  <2>1. Published' = Published
    BY <1>2, <1>10 DEF TryPopEmpty, PushPublish, PopRelease
  <2>2. Published = <<>>
    <3>1. Occupancy = 0
      BY <1>1, <1>10, DistanceSteps DEF TryPopEmpty, Occupancy, TypeOK
    <3> QED
      BY <1>1, <3>1, PublishedIsSeq DEF PublishedShape
  <2>3. Fifo!GiveUp
    BY <1>3, <1>10, <2>1, <2>2 DEF TryPopEmpty, Fifo!GiveUp
  <2> QED
    BY <2>3 DEF Fifo!FifoNext
<1>11. CASE PopRelease
  <2>1. /\ Published # <<>>
        /\ Published' = Tail(Published)
        /\ out = Head(Published)
    BY <1>11, ReleaseRemoves
  <2>2. Fifo!Dequeue
    BY <1>11, <2>1 DEF PopRelease, Fifo!Dequeue
  <2> QED
    BY <2>2 DEF Fifo!FifoNext
<1>12. CASE UNCHANGED vars
  <2>1. Published' = Published
    BY <1>12 DEF Published, Occupancy, Minus, SlotOf
  <2> QED
    BY <1>12, <2>1 DEF Fifo!fifoVars
<1> QED
  BY <1>4, <1>5, <1>6, <1>7, <1>8, <1>9, <1>10, <1>11, <1>12
     DEF Next, PushStep, PopStep

(* The ring implements the safety part of the abstract queue: no line is   *)
(* lost, duplicated, reordered or torn, and at most Capacity are in        *)
(* flight, for every capacity and counter width.                           *)
THEOREM Refinement == Spec => Fifo!FifoSafety
<1>1. Init => Fifo!FifoInit
  BY InitRefines
<1>2. IInv /\ IInv' /\ [Next]_vars => [Fifo!FifoNext]_(Fifo!fifoVars)
  BY StepRefines
<1> QED
  BY <1>1, <1>2, Invariance, PTL DEF Spec, Fifo!FifoSafety
=============================================================================
