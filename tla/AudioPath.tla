----------------------------- MODULE AudioPath -----------------------------
(***************************************************************************)
(* The way of a sample from the sound unit to the loudspeaker, on the five *)
(* builds that have one:                                                   *)
(*   pwm    Pico, a ring that the 48 kHz timer's interrupt empties         *)
(*          (src/pico/audio_pwm.c);                                        *)
(*   i2s    Pico, a ring that the interrupt of two chained DMA channels    *)
(*          empties a block at a time (src/pico/audio_i2s_max98357.c);     *)
(*   esp32  a ring between two tasks on two cores                          *)
(*          (src/esp32s3/main/audio.c);                                    *)
(*   sdl    the host, an SDL audio stream kept below 100 ms                *)
(*          (src/host/audio_sdl.c);                                        *)
(*   web    a ring in the page (src/web/index.html).                       *)
(* A sample is its number: 1 is the first one the sound unit made.  What   *)
(* becomes of its value (the encoding for the wire) is left out.           *)
(***************************************************************************)
EXTENDS Integers, Sequences, FiniteSets, SequencesExt

CONSTANTS Builds,        \* the builds that are considered
          PcmCapacity,   \* the buffer in the sound unit, APU_PCM_CAPACITY
          RingSize,      \* the ring behind it
          Chunk,         \* the samples the main loop moves at a time
          BlockSamples,  \* a DMA block, or what the page's callback takes
          FrameSamples,  \* how many samples a frame may make
          MaxSample      \* bound: the samples made in a behaviour

(* The i2s push gives up the oldest sample of a full ring while its own    *)
(* samples are not published yet: what is left of the published ones after *)
(* one more interrupt must cover it.                                       *)
ASSUME AudioAssumption ==
    /\ Builds \subseteq {"pwm", "i2s", "esp32", "sdl", "web"}
    /\ PcmCapacity \in Nat \ {0} /\ RingSize \in Nat \ {0} /\ Chunk \in Nat \ {0}
    /\ FrameSamples \subseteq Nat /\ MaxSample \in Nat /\ BlockSamples \in Nat
    /\ Chunk + BlockSamples < RingSize

VARIABLES build,    \* which build this is
          produced, \* the samples made so far
          pcm,      \* the buffer in the sound unit
          main,     \* the main loop: where it is, what it is moving
          ring,     \* the slots, where they are read (head), written (tail)
          sink,     \* what takes the samples out of the ring
          heard,    \* the samples handed to the converter
          lost      \* the samples a full buffer gave up
audioVars == <<build, produced, pcm, main, ring, sink, heard, lost>>

Smaller(a, b) == IF a < b THEN a ELSE b
After(p) == (p + 1) % RingSize
Level(r) == (r.tail - r.head) % RingSize
Rest(m) == {m.buf[k] : k \in m.i .. Len(m.buf)}

----------------------------------------------------------------------------
(* The sound unit and the main loop around it.                             *)

(* A frame is emulated: its samples go into the unit's buffer, what does   *)
(* not fit is dropped.                                                     *)
MakeFrame(n) ==
    /\ main.at = "frame" /\ produced + n <= MaxSample
    /\ LET fit == Smaller(n, PcmCapacity - Len(pcm))
       IN  /\ pcm' = pcm \o [k \in 1..fit |-> produced + k]
           /\ lost' = lost \union (produced + fit + 1 .. produced + n)
    /\ produced' = produced + n
    /\ main' = [main EXCEPT !.at = "drain"]
    /\ UNCHANGED <<build, ring, sink, heard>>

(* The drain loop takes a chunk until the buffer is empty.                 *)
ReadSamples ==
    /\ main.at = "drain"
    /\ LET n == Smaller(Len(pcm), Chunk)
       IN  IF n = 0 THEN main' = [main EXCEPT !.at = "frame"] /\ pcm' = pcm
           ELSE /\ main' = [main EXCEPT !.at = "push", !.i = 1, !.tail = ring.tail,
                                        !.buf = SubSeq(pcm, 1, n)]
                /\ pcm' = SubSeq(pcm, n + 1, Len(pcm))
    /\ UNCHANGED <<build, produced, ring, sink, heard, lost>>

Pushed == [main EXCEPT !.at = "drain", !.buf = <<>>, !.i = 1, !.late = FALSE]
Stored == [main EXCEPT !.i = @ + 1, !.tail = After(@)]

----------------------------------------------------------------------------
(* The pushes.                                                             *)

(* pwm: store until the ring is full, drop the rest, publish once.         *)
PwmPush ==
    /\ build = "pwm" /\ main.at = "push"
    /\ IF main.i > Len(main.buf) \/ After(main.tail) = ring.head
       THEN /\ ring' = [ring EXCEPT !.tail = main.tail]
            /\ lost' = lost \union Rest(main)
            /\ main' = Pushed
       ELSE /\ ring' = [ring EXCEPT !.slot[main.tail] = main.buf[main.i]]
            /\ main' = Stored
            /\ lost' = lost
    /\ UNCHANGED <<build, produced, pcm, sink, heard>>

(* i2s: a full ring gives up its oldest sample.  The test and the eviction *)
(* are two steps with room for an interrupt; the eviction itself runs with *)
(* interrupts off.                                                         *)
I2sTest ==
    /\ build = "i2s" /\ main.at = "push" /\ main.i <= Len(main.buf)
    /\ main' = [main EXCEPT !.at = IF After(main.tail) = ring.head THEN "evict" ELSE "store"]
    /\ UNCHANGED <<build, produced, pcm, ring, sink, heard, lost>>

I2sEvict ==
    /\ build = "i2s" /\ main.at = "evict"
    /\ ring' = [ring EXCEPT !.head = After(@)]
    /\ lost' = lost \union {ring.slot[ring.head]}
    /\ main' = [main EXCEPT !.at = "store", !.late = FALSE]
    /\ UNCHANGED <<build, produced, pcm, sink, heard>>

I2sStore ==
    /\ build = "i2s" /\ main.at = "store"
    /\ ring' = [ring EXCEPT !.slot[main.tail] = main.buf[main.i]]
    /\ main' = [Stored EXCEPT !.at = "push"]
    /\ UNCHANGED <<build, produced, pcm, sink, heard, lost>>

I2sPublish ==
    /\ build = "i2s" /\ main.at = "push" /\ main.i > Len(main.buf)
    /\ ring' = [ring EXCEPT !.tail = main.tail]
    /\ main' = Pushed
    /\ UNCHANGED <<build, produced, pcm, sink, heard, lost>>

(* esp32: each sample is stored and then published; a full ring drops the  *)
(* rest of the chunk.                                                      *)
EspStore ==
    /\ build = "esp32" /\ main.at = "push"
    /\ IF main.i > Len(main.buf) \/ After(ring.tail) = ring.head
       THEN main' = Pushed /\ lost' = lost \union Rest(main) /\ ring' = ring
       ELSE /\ ring' = [ring EXCEPT !.slot[ring.tail] = main.buf[main.i]]
            /\ main' = [Stored EXCEPT !.at = "publish"]
            /\ lost' = lost
    /\ UNCHANGED <<build, produced, pcm, sink, heard>>

EspPublish ==
    /\ build = "esp32" /\ main.at = "publish"
    /\ ring' = [ring EXCEPT !.tail = After(@)]
    /\ main' = [main EXCEPT !.at = "push"]
    /\ UNCHANGED <<build, produced, pcm, sink, heard, lost>>

(* sdl and web: one call, or one run of the page's only thread, puts what  *)
(* there is room for and drops the rest.  The page counts reads and writes *)
(* without wrapping and so fills every slot; SDL's stream is kept at 100   *)
(* ms, here one less.                                                      *)
PutAll ==
    /\ build \in {"sdl", "web"} /\ main.at = "push"
    /\ LET room == (IF build = "web" THEN RingSize ELSE RingSize - 1) - (ring.tail - ring.head)
           n    == Smaller(Len(main.buf), room)
       IN  /\ ring' = [ring EXCEPT
                         !.slot = [s \in DOMAIN @ |->
                            IF \E k \in 1..n : (ring.tail + k - 1) % RingSize = s
                            THEN main.buf[CHOOSE k \in 1..n : (ring.tail + k - 1) % RingSize = s]
                            ELSE @[s]],
                         !.tail = @ + n]
           /\ lost' = lost \union {main.buf[k] : k \in n + 1 .. Len(main.buf)}
    /\ main' = Pushed
    /\ UNCHANGED <<build, produced, pcm, sink, heard>>

----------------------------------------------------------------------------
(* What empties the ring.                                                  *)

(* pwm: the timer's interrupt takes one sample, or holds the last level.   *)
PwmIrq ==
    /\ build = "pwm"
    /\ IF ring.head = ring.tail THEN UNCHANGED <<ring, heard>>
       ELSE /\ heard' = Append(heard, ring.slot[ring.head])
            /\ ring' = [ring EXCEPT !.head = After(@)]
    /\ UNCHANGED <<build, produced, pcm, main, sink, lost>>

(* i2s: of a block only the samples that are new are kept here; the rest   *)
(* repeats the last one.  Two channels take turns: the one that has ended  *)
(* is filled again while the other one plays, and is back in time.         *)
BlockOf(r) ==
    [k \in 1 .. Smaller(Level(r), BlockSamples) |-> r.slot[(r.head + k - 1) % RingSize]]

DmaIrq ==
    /\ build = "i2s" /\ sink.ended # 0
    /\ main.at = "evict" => ~main.late
    /\ sink' = [sink EXCEPT !.block[sink.ended] = BlockOf(ring), !.ended = 0]
    /\ ring' = [ring EXCEPT !.head = (@ + Len(BlockOf(ring))) % RingSize]
    /\ main' = [main EXCEPT !.late = main.at = "evict"]
    /\ UNCHANGED <<build, produced, pcm, heard, lost>>

DmaEnds ==
    /\ build = "i2s" /\ sink.ended = 0
    /\ heard' = heard \o sink.block[sink.playing]
    /\ sink' = [sink EXCEPT !.ended = sink.playing, !.playing = 3 - @]
    /\ UNCHANGED <<build, produced, pcm, main, ring, lost>>

(* Mutant of TaskPeek: the slots are given back before they are copied.    *)
TaskPeekFrees ==
    /\ build = "esp32" /\ sink.at = "peek"
    /\ sink' = IF Level(ring) = 0 THEN sink
               ELSE [sink EXCEPT !.at = "copy", !.from = ring.head,
                                 !.count = Smaller(Level(ring), Chunk)]
    /\ ring' = [ring EXCEPT !.head = (@ + Smaller(Level(ring), Chunk)) % RingSize]
    /\ UNCHANGED <<build, produced, pcm, main, heard, lost>>

(* esp32: the task looks how much there is, copies it, frees it and writes *)
(* it to the driver.  An empty ring plays a chunk of silence.              *)
TaskPeek ==
    /\ build = "esp32" /\ sink.at = "peek"
    /\ sink' = IF Level(ring) = 0 THEN sink
               ELSE [sink EXCEPT !.at = "copy", !.from = ring.head,
                                 !.count = Smaller(Level(ring), Chunk)]
    /\ UNCHANGED <<build, produced, pcm, main, ring, heard, lost>>

TaskCopy ==
    /\ build = "esp32" /\ sink.at = "copy"
    /\ IF Len(sink.chunk) < sink.count
       THEN /\ sink' = [sink EXCEPT !.chunk =
                          Append(@, ring.slot[(sink.from + Len(@)) % RingSize])]
            /\ ring' = ring
       ELSE /\ ring' = [ring EXCEPT !.head = (sink.from + sink.count) % RingSize]
            /\ sink' = [sink EXCEPT !.at = "write"]
    /\ UNCHANGED <<build, produced, pcm, main, heard, lost>>

TaskWrite ==
    /\ build = "esp32" /\ sink.at = "write"
    /\ heard' = heard \o sink.chunk
    /\ sink' = [sink EXCEPT !.at = "peek", !.chunk = <<>>]
    /\ UNCHANGED <<build, produced, pcm, main, ring, lost>>

(* sdl and web: the device's callback takes up to a block.                 *)
Callback ==
    /\ build \in {"sdl", "web"}
    /\ LET n == Smaller(ring.tail - ring.head, BlockSamples)
       IN  /\ heard' = heard \o [k \in 1..n |-> ring.slot[(ring.head + k - 1) % RingSize]]
           /\ ring' = [ring EXCEPT !.head = @ + n]
    /\ UNCHANGED <<build, produced, pcm, main, sink, lost>>

----------------------------------------------------------------------------
AudioInit ==
    /\ build \in Builds
    /\ produced = 0 /\ pcm = <<>> /\ heard = <<>> /\ lost = {}
    /\ main = [at |-> "frame", buf |-> <<>>, i |-> 1, tail |-> 0, late |-> FALSE]
    /\ ring = [slot |-> [s \in 0 .. RingSize - 1 |-> 0], head |-> 0, tail |-> 0]
    /\ sink = CASE build = "i2s"   -> [block |-> <<<<>>, <<>>>>, playing |-> 1, ended |-> 0]
                [] build = "esp32" -> [at |-> "peek", from |-> 0, count |-> 0, chunk |-> <<>>]
                [] OTHER           -> [at |-> "none"]

AudioNext ==
    \/ \E n \in FrameSamples : MakeFrame(n)
    \/ ReadSamples
    \/ PwmPush \/ PwmIrq
    \/ I2sTest \/ I2sEvict \/ I2sStore \/ I2sPublish \/ DmaIrq \/ DmaEnds
    \/ EspStore \/ EspPublish \/ TaskPeek \/ TaskCopy \/ TaskWrite
    \/ PutAll \/ Callback

----------------------------------------------------------------------------
(* What is heard are the samples in the order they were made, each once,   *)
(* without those that a full buffer gave up: whatever the interrupt, the   *)
(* other core or the callback does between two steps of a push, it never   *)
(* takes a slot that is not written, and none twice.                       *)
HeardInOrder ==
    heard # <<>> =>
        /\ \A k \in 1 .. Len(heard) - 1 : heard[k] < heard[k + 1]
        /\ ToSet(heard) = (1 .. Last(heard)) \ lost
=============================================================================
