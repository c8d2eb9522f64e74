---------------------------- MODULE Esp32Display ----------------------------
(***************************************************************************)
(* The picture on the ESP32-S3: the emulator task on core 1 draws into one *)
(* of two frame buffers (src/esp32s3/main/main.c), the display task on     *)
(* core 0 streams it to the panel through a small DMA buffer               *)
(* (src/esp32s3/main/display.c).  Two binary semaphores say which buffer   *)
(* is free, a queue says which one is to be shown.                         *)
(*                                                                         *)
(* A pixel is <<frame, row>>.  The SPI bus, its chip select and the panel  *)
(* are external: a window is set, pixels follow, and the bus must be given *)
(* back before the next window.                                            *)
(***************************************************************************)
EXTENDS Integers, Sequences, FiniteSets, SequencesExt

CONSTANTS Windows,    \* <<width, height, pixels of the DMA buffer>>
          MaxFrames   \* bound: the frames drawn in a behaviour

Buffers == {0, 1}

ASSUME DisplayAssumption ==
    /\ Windows \subseteq (Nat \ {0}) \X (Nat \ {0}) \X (Nat \ {0})
    /\ MaxFrames \in Nat

VARIABLES size,    \* [w, h, chunk] of this run
          frame,   \* the two frame buffers: for each row the frame drawn
          free,    \* the semaphores that are up
          queue,   \* frames to be shown
          emu,     \* the emulator task
          disp,    \* the display task; left: pixels of its row still to be taken
          stream,  \* the state of the streaming calls
          panel,   \* the bus and the pixels the panel took since its window
          shown    \* the frame the panel shows
displayVars == <<size, frame, free, queue, emu, disp, stream, panel, shown>>

Other(b) == 1 - b

----------------------------------------------------------------------------
(* The emulator task.                                                      *)

(* A buffer is taken: the preferred one, or the other one, whichever is    *)
(* free.                                                                   *)
Draws(b) == /\ free' = free \ {b}
            /\ emu' = [emu EXCEPT !.at = "draw", !.buffer = b, !.row = 1, !.frame = @ + 1]

Acquire ==
    /\ emu.at = "acquire" /\ emu.frame < MaxFrames
    /\ IF emu.next \in free THEN Draws(emu.next)
       ELSE IF Other(emu.next) \in free THEN Draws(Other(emu.next))
       ELSE emu' = [emu EXCEPT !.at = "wait"] /\ free' = free
    /\ UNCHANGED <<size, frame, queue, disp, stream, panel, shown>>

(* None was free: the task sleeps until the preferred one is.              *)
Wake ==
    /\ emu.at = "wait" /\ emu.next \in free
    /\ Draws(emu.next)
    /\ UNCHANGED <<size, frame, queue, disp, stream, panel, shown>>

(* The console draws a row, or stops for good: then the buffer goes back.  *)
DrawRow ==
    /\ emu.at = "draw" /\ emu.row <= size.h
    /\ frame' = [frame EXCEPT ![emu.buffer][emu.row] = emu.frame]
    /\ emu' = [emu EXCEPT !.row = @ + 1]
    /\ UNCHANGED <<size, free, queue, disp, stream, panel, shown>>

ConsoleStops ==
    /\ emu.at = "draw" /\ emu.row <= size.h
    /\ free' = free \union {emu.buffer}
    /\ emu' = [emu EXCEPT !.at = "idle"]
    /\ UNCHANGED <<size, frame, queue, disp, stream, panel, shown>>

(* The frame is queued, if there is room, and the other buffer preferred.  *)
Send ==
    /\ emu.at = "draw" /\ emu.row > size.h
    /\ queue' = IF Len(queue) < Cardinality(Buffers) THEN Append(queue, emu.buffer) ELSE queue
    /\ emu' = [emu EXCEPT !.at = "acquire", !.next = Other(emu.buffer)]
    /\ UNCHANGED <<size, frame, free, disp, stream, panel, shown>>

----------------------------------------------------------------------------
(* The streaming calls of display.c, on s = [on, total, sent, buf] and     *)
(* p = [bus, pixels].                                                      *)

(* lcd_pixel_chunk sends the buffer; the last chunk gives the bus back.    *)
SendChunk(p, pixels, last) ==
    [bus |-> p.bus /\ ~last, pixels |-> p.pixels \o pixels]

(* display_stream_flush *)
Flush(sp, forceLast) ==
    LET s    == sp.s
        last == forceLast /\ s.sent >= s.total
    IN  IF ~s.on \/ s.buf = <<>> THEN sp
        ELSE [s |-> [s EXCEPT !.buf = <<>>, !.on = ~last],
              p |-> SendChunk(sp.p, s.buf, last)]

(* display_stream_indexed_row: how many pixels of the row it takes, and a  *)
(* turn of its loop, which takes what the buffer has room for, of left     *)
(* pixels of the row; a buffer that is full is sent, never as the last one.*)
RowTakes(s) ==
    IF ~s.on THEN 0
    ELSE IF size.w < s.total - s.sent THEN size.w ELSE s.total - s.sent

TakesNow(s, left) == IF left < size.chunk - Len(s.buf) THEN left ELSE size.chunk - Len(s.buf)

Put(sp, pixel, n) ==
    LET s == [sp.s EXCEPT !.buf = @ \o [k \in 1 .. n |-> pixel], !.sent = @ + n]
    IN  IF Len(s.buf) = size.chunk THEN Flush([s |-> s, p |-> sp.p], FALSE)
        ELSE [s |-> s, p |-> sp.p]

EndRow(sp) == IF sp.s.sent >= sp.s.total THEN Flush(sp, TRUE) ELSE sp

(* Mutant of End: a full buffer is taken for the end of the stream.        *)
EndOnFlush(sp) ==
    LET out == Flush(sp, TRUE)
    IN  [out EXCEPT !.s.on = FALSE]

(* display_stream_end: what is left is flushed; when the last chunk had    *)
(* filled the buffer, and so was not sent as the last one, one more byte   *)
(* raises chip select and the bus is given back.                           *)
End(sp) ==
    LET out == Flush(sp, TRUE)
    IN  IF out.s.on THEN [s |-> [out.s EXCEPT !.on = FALSE], p |-> [out.p EXCEPT !.bus = FALSE]]
        ELSE out

----------------------------------------------------------------------------
(* The display task.                                                       *)
Streams(sp) == stream' = sp.s /\ panel' = sp.p

(* A window is set by commands, which need the bus; then it is acquired.   *)
Begun == [on |-> TRUE, total |-> size.w * size.h, sent |-> 0, buf |-> <<>>]

Receive ==
    /\ disp.at = "receive" /\ queue # <<>> /\ ~panel.bus
    /\ queue' = Tail(queue)
    /\ disp' = [at |-> "rows", buffer |-> Head(queue), row |-> 1, left |-> RowTakes(Begun)]
    /\ stream' = Begun
    /\ panel' = [bus |-> TRUE, pixels |-> <<>>]
    /\ UNCHANGED <<size, frame, free, emu, shown>>

StreamPart ==
    /\ disp.at = "rows" /\ disp.row <= size.h /\ disp.left > 0
    /\ LET n == TakesNow(stream, disp.left)
       IN  /\ Streams(Put([s |-> stream, p |-> panel], <<frame[disp.buffer][disp.row], disp.row>>, n))
           /\ disp' = [disp EXCEPT !.left = @ - n]
    /\ UNCHANGED <<size, frame, free, queue, emu, shown>>

RowEnds ==
    /\ disp.at = "rows" /\ disp.row <= size.h /\ disp.left = 0
    /\ Streams(EndRow([s |-> stream, p |-> panel]))
    /\ disp' = [disp EXCEPT !.row = @ + 1, !.left = RowTakes(stream')]
    /\ UNCHANGED <<size, frame, free, queue, emu, shown>>

(* The stream ends, the buffer is free again, the panel shows the frame.   *)
Finish ==
    /\ disp.at = "rows" /\ disp.row > size.h
    /\ Streams(End([s |-> stream, p |-> panel]))
    /\ free' = free \union {disp.buffer}
    /\ disp' = [disp EXCEPT !.at = "receive"]
    /\ shown' = IF panel.pixels = <<>> THEN 0 ELSE Head(panel.pixels)[1]
    /\ UNCHANGED <<size, frame, queue, emu>>

----------------------------------------------------------------------------
DisplayInit ==
    /\ \E z \in Windows : size = [w |-> z[1], h |-> z[2], chunk |-> z[3]]
    /\ frame = [b \in Buffers |-> [y \in 1 .. size.h |-> 0]]
    /\ free = Buffers /\ queue = <<>> /\ shown = 0
    /\ emu = [at |-> "acquire", buffer |-> 0, row |-> 1, frame |-> 0, next |-> 0]
    /\ disp = [at |-> "receive", buffer |-> 0, row |-> 1, left |-> 0]
    /\ stream = [on |-> FALSE, total |-> 0, sent |-> 0, buf |-> <<>>]
    /\ panel = [bus |-> FALSE, pixels |-> <<>>]

DisplayNext ==
    \/ Acquire \/ Wake \/ DrawRow \/ ConsoleStops \/ Send
    \/ Receive \/ StreamPart \/ RowEnds \/ Finish

DisplaySpec == DisplayInit /\ [][DisplayNext]_displayVars

----------------------------------------------------------------------------
(* When the display task frees a buffer, the panel has taken every pixel   *)
(* of the window once, in order, all of one frame, the next one drawn; and *)
(* the bus is given back.                                                  *)
FrameWhole ==
    disp.at = "rows" /\ disp'.at = "receive" =>
      /\ panel'.pixels = [k \in 1 .. size.w * size.h |-> <<shown + 1, ((k - 1) \div size.w) + 1>>]
      /\ ~panel'.bus

(* The tasks never wait for each other: while the emulator sleeps for its  *)
(* buffer, that buffer is with the display task or on the way to it, and   *)
(* the bus is free for it.                                                 *)
NeverStuck ==
    /\ emu.at = "wait" /\ emu.next \notin free =>
           \/ emu.next \in ToSet(queue)
           \/ disp.at = "rows" /\ disp.buffer = emu.next
    /\ disp.at = "receive" => ~panel.bus

(* Every frame queued gets to the panel whole, and the tasks go on.        *)
FramesArrive == [][FrameWhole /\ NeverStuck']_displayVars
=============================================================================
