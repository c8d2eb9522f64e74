------------------------------ MODULE LineFifo ------------------------------
(***************************************************************************)
(* What the scanline queue of src/pico promises to the two cores: a first- *)
(* in first-out queue of at most Capacity lines between one producer (the  *)
(* emulation on core 0) and one consumer (the composite renderer on core   *)
(* 1).  ScanlineQueue implements it; CompositeVideo is built on it.        *)
(***************************************************************************)
EXTENDS Naturals, Sequences

CONSTANTS
  Lines,     \* what one slot holds: a line's pixels and its number
  NoLine,    \* the absence of a line
  Capacity   \* SCANLINE_QUEUE_CAPACITY

VARIABLES
  fifo,      \* the lines published and not yet released, oldest first
  offered,   \* the line a push in progress will add, or NoLine
  popping,   \* a pop is in progress
  taken      \* the line the last pop returned, or NoLine

fifoVars == <<fifo, offered, popping, taken>>

FifoInit ==
  /\ fifo = <<>>
  /\ offered = NoLine
  /\ popping = FALSE
  /\ taken = NoLine

(* The producer calls push; it does not return until the line is queued.   *)
Offer(line) ==
  /\ offered = NoLine
  /\ offered' = line
  /\ UNCHANGED <<fifo, popping, taken>>

Enqueue ==
  /\ offered # NoLine
  /\ Len(fifo) < Capacity
  /\ fifo' = Append(fifo, offered)
  /\ offered' = NoLine
  /\ UNCHANGED <<popping, taken>>

(* The consumer calls a pop; it gets the oldest line, or, from try_pop     *)
(* alone, nothing because there is none.                                   *)
Ask ==
  /\ ~popping
  /\ popping' = TRUE
  /\ taken' = NoLine
  /\ UNCHANGED <<fifo, offered>>

Dequeue ==
  /\ popping
  /\ fifo # <<>>
  /\ taken' = Head(fifo)
  /\ fifo' = Tail(fifo)
  /\ popping' = FALSE
  /\ UNCHANGED offered

GiveUp ==
  /\ popping
  /\ fifo = <<>>
  /\ popping' = FALSE
  /\ UNCHANGED <<fifo, offered, taken>>

FifoNext ==
  \/ \E line \in Lines : Offer(line)
  \/ Enqueue
  \/ Ask
  \/ Dequeue
  \/ GiveUp

FifoSafety == FifoInit /\ [][FifoNext]_fifoVars

(* A push with room and a pop with a line to take both complete.           *)
FifoSpec == FifoSafety /\ WF_fifoVars(Enqueue) /\ WF_fifoVars(Dequeue)
=============================================================================
