-------------------------------- MODULE Hstx --------------------------------
(***************************************************************************)
(* HDMI on the Pico (src/pico/video_hstx.c): two chained DMA channels feed *)
(* the HSTX one block of commands or pixels after the other.  The channel  *)
(* that has ended starts the other one and raises an interrupt, which      *)
(* points it to the block after that.  Writing to the flash stops the      *)
(* picture and starts it again (pico_video_backend_hdmi.c).                *)
(*                                                                         *)
(* The interrupt is taken to be served before the other channel ends: its  *)
(* priority is the highest and a block lasts microseconds.                 *)
(***************************************************************************)
EXTENDS Integers, Sequences

CONSTANTS FrontPorch, SyncWidth, BackPorch, ActiveLines, \* the lines of a frame
          Scale                                          \* lines per stored row

(* Two blocks of the front porch are in the channels when they start.      *)
Primed == 2
Blank == FrontPorch + SyncWidth + BackPorch
TotalLines == Blank + ActiveLines

ASSUME HstxAssumption ==
    /\ FrontPorch \in Nat /\ SyncWidth \in Nat /\ BackPorch \in Nat
    /\ ActiveLines \in Nat \ {0} /\ FrontPorch >= Primed /\ Scale \in Nat \ {0}

VARIABLES video,   \* started; pong: s_dma_pong; line: s_v_scanline; posted
          channel, \* what the two channels point to
          dma,     \* playing: the channel that sends, or 0; ended: its interrupt
          sent     \* history: the blocks sent since the start, counted in a frame
hstxVars == <<video, channel, dma, sent>>

SyncOn == <<"vsync on">>
SyncOff == <<"vsync off">>
Commands == <<"active">>
RowBlock(y) == <<"row", y>>

(* What the monitor must get: the blocks of a frame.                       *)
FrameBlocks ==
    [l \in 1 .. Blank |-> IF l - 1 \in FrontPorch .. FrontPorch + SyncWidth - 1
                          THEN SyncOn ELSE SyncOff]
      \o [b \in 1 .. 2 * ActiveLines |->
            IF b % 2 = 1 THEN Commands ELSE RowBlock(((b \div 2) - 1) \div Scale)]

(* video_hstx_start; the channels are numbered 1 (ping) and 2 (pong).      *)
HstxStart ==
    /\ ~video.started
    /\ video' = [started |-> TRUE, pong |-> FALSE, line |-> Primed, posted |-> FALSE]
    /\ channel' = <<SyncOff, SyncOff>>
    /\ dma' = [playing |-> 1, ended |-> {}]
    /\ sent' = 0

(* video_hstx_stop *)
HstxStop ==
    /\ video.started
    /\ video' = [started |-> FALSE, pong |-> FALSE, line |-> Primed, posted |-> FALSE]
    /\ dma' = [playing |-> 0, ended |-> {}]
    /\ UNCHANGED <<channel, sent>>

BlockEnds ==
    /\ dma.playing # 0 /\ dma.ended = {}
    /\ dma' = [playing |-> 3 - dma.playing, ended |-> {dma.playing}]
    /\ sent' = (sent + 1) % Len(FrameBlocks)
    /\ UNCHANGED <<video, channel>>

(* Mutant of NextBlock: the rows start a line late.                        *)
NextBlockLate(v) ==
    IF v.line >= FrontPorch /\ v.line < FrontPorch + SyncWidth THEN SyncOn
    ELSE IF v.line <= Blank THEN SyncOff
    ELSE IF ~v.posted THEN Commands
    ELSE RowBlock((v.line - Blank) \div Scale)

NextBlock(v) ==
    IF v.line >= FrontPorch /\ v.line < FrontPorch + SyncWidth THEN SyncOn
    ELSE IF v.line < Blank THEN SyncOff
    ELSE IF ~v.posted THEN Commands
    ELSE RowBlock((v.line - Blank) \div Scale)

(* hstx_dma_irq takes the channels in turn, whatever the status says.      *)
HstxIrq ==
    /\ dma.ended # {}
    /\ LET ch     == IF video.pong THEN 2 ELSE 1
           posted == NextBlock(video) = Commands
       IN  /\ channel' = [channel EXCEPT ![ch] = NextBlock(video)]
           /\ dma' = [dma EXCEPT !.ended = @ \ {ch}]
           /\ video' = [video EXCEPT !.pong = ~@, !.posted = posted,
                                     !.line = IF posted THEN @ ELSE (@ + 1) % TotalLines]
    /\ UNCHANGED sent

HstxInit ==
    /\ video = [started |-> FALSE, pong |-> FALSE, line |-> Primed, posted |-> FALSE]
    /\ channel = <<SyncOff, SyncOff>>
    /\ dma = [playing |-> 0, ended |-> {}]
    /\ sent = 0

HstxNext == HstxStart \/ HstxStop \/ BlockEnds \/ HstxIrq

HstxSpec == HstxInit /\ [][HstxNext]_hstxVars

----------------------------------------------------------------------------
(* The monitor gets frame after frame without a block twice, missing or in *)
(* the wrong place, from the start on, wherever the last stop was.         *)
FramesInOrder == dma.playing # 0 => channel[dma.playing] = FrameBlocks[sent + 1]
=============================================================================
