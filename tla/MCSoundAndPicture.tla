------------------------- MODULE MCSoundAndPicture -------------------------
(***************************************************************************)
(* The parts that make the sound and the picture, and those that carry     *)
(* them to the loudspeaker and the screen, for TLC: the pacer of a frame,  *)
(* the sound unit, the renderers of a scanline, the way of a sample, the   *)
(* panel of the ESP32-S3, HDMI, and a TFT panel.  A behaviour is of one of *)
(* them.                                                                   *)
(***************************************************************************)
EXTENDS MCApu, FramePacer, Render, AudioPath, Esp32Display, Hstx, TftDisplay

VARIABLE stage

-----------------------------------------------------------------------------
(* FramePacer: frames of 17/3 ns on a clock that counts pairs of           *)
(* nanoseconds, so that the fraction carries in two frames of three and no *)
(* deadline need fall on a tick; steps, presents and saves that fit in a   *)
(* frame or overrun it by several.                                         *)
PaceRest == LoopInit /\ loop = "host" /\ ~pacer.throttled

(* Render: four tiles of two by two pixels in a row, lines of three, two   *)
(* sprites a line of the three there are, and pattern memory of one bank   *)
(* and of two.                                                             *)

Planes(low, high) == [low |-> low, high |-> high]
Tile(a, b) == 0 :> a @@ 1 :> b
MCTiles == <<Tile(Planes(0, 0), Planes(2, 0)), Tile(Planes(3, 1), Planes(1, 2)),
             Tile(Planes(2, 2), Planes(0, 0)), Tile(Planes(1, 0), Planes(3, 3))>>
Cartridge(banks) == [t \in 0 .. 4 * banks - 1 |-> MCTiles[IF t < 4 THEN t + 1 ELSE 8 - t]]
MCCartridges == {Cartridge(1), Cartridge(2)}
MCNameTables == 0 :> (0 :> 1 @@ 1 :> 0 @@ 2 :> 1 @@ 3 :> 0) @@ 1 :> (0 :> 0 @@ 1 :> 1 @@ 2 :> 0 @@ 3 :> 1)
MCAttributes == 0 :> (0 :> 1 @@ 2 :> 2) @@ 1 :> (0 :> 3 @@ 2 :> 0)

Sprite(x, y, tile, behind) ==
  [x |-> x, y |-> y, tile |-> tile, behind |-> behind, flipH |-> behind, flipV |-> ~behind,
   palette |-> IF behind THEN 1 ELSE 2]
MCOams == {<<Sprite(0, 0, 1, TRUE), Sprite(1, 0, 1, FALSE), Sprite(1, 0, 0, FALSE)>>,
           <<Sprite(6, -1, 1, FALSE), Sprite(7, 0, 1, TRUE), Sprite(3, 1, 0, TRUE)>>,
           <<Sprite(1, 3, 1, TRUE), Sprite(2, 0, 1, TRUE), Sprite(3, 0, 1, FALSE)>>}

MCScene == [show |-> {"bg", "sprites"}, fineX |-> 1, coarseX |-> 2, table |-> 0, row |-> 0,
            tall |-> FALSE, bgTable |-> 0, spTable |-> 0, mirror |-> "vertical", bank |-> 0]
MCScenes == {MCScene, [MCScene EXCEPT !.show = @ \cup {"bgLeft", "spritesLeft"}, !.fineX = 0]}
MCChanges ==
  [show : {{}, {"bg", "sprites"}, {"bg", "bgLeft", "sprites"}, {"bg", "sprites", "spritesLeft"},
           {"bg", "bgLeft", "sprites", "spritesLeft"}}]
    \cup [fineX : {0, 1}, coarseX : {0, 3}, table : {0, 3}]
    \cup [mirror : {"horizontal", "lower", "upper"}]
    \cup [tall : {TRUE}] \cup [bgTable : {1}, row : {1}] \cup [spTable : {1}] \cup [bank : {1}]
MCPatterns == [tile : {1}, row : {0, 1}, plane : {"low", "high"}, byte : {2}]

-----------------------------------------------------------------------------
(* AudioPath: rings of seven samples; frames that make less and more than  *)
(* a chunk, and more than the sound unit's buffer holds.                   *)
MCBuilds == {"pwm", "i2s", "esp32", "sdl", "web"}
MCFrameSamples == {3, 5}
AudioRest == AudioInit /\ build = "pwm"

(* Esp32Display: windows of two or three rows; the buffer is as long as a  *)
(* row, shorter, longer, and so long that the frame fills it exactly.      *)
MCWindows == {<<2, 2, 4>>, <<2, 3, 4>>, <<3, 2, 2>>, <<2, 4, 4>>}
DisplayRest == DisplayInit /\ size = [w |-> 2, h |-> 2, chunk |-> 4]

(* TftDisplay: frames of two chunks by three rows, that differ in one      *)
(* pixel, in several, or only in the index of one colour, inside a panel   *)
(* with a margin on every side but one; rows short enough for a transfer   *)
(* without DMA, and long ones.                                             *)
Plain(v) == [y \in 0 .. 2 |-> [x \in 0 .. 3 |-> v]]
MCPictures == {Plain(0), [Plain(0) EXCEPT ![1][3] = 2, ![2][0] = 1],
               [Plain(1) EXCEPT ![0][1] = 3], [Plain(3) EXCEPT ![1][0] = 0]}
MCColour == 0 :> 10 @@ 1 :> 11 @@ 2 :> 11 @@ 3 :> 12
MCBars == <<13, 14>>
MCBarRects == <<[x |-> 0, y |-> 0, w |-> 1, h |-> 2, colour |-> 15],
                [x |-> 2, y |-> 1, w |-> 2, h |-> 1, colour |-> 16]>>
MCSetup == <<<<1, <<>>>>, <<58, <<85>>>>, <<41, <<>>>>>>
MCBuses == {"spi", "parallel"}
TftRest == TftInit /\ bus = "spi"

ApuRest ==
  /\ chan = Silence /\ clk = StoppedClock /\ left = 0 /\ due = <<>>
  /\ io = [program |-> {}, made |-> MaxWrites]
RenderRest ==
  /\ scene = MCScene /\ oam = <<>> /\ chr = <<>> /\ rows = NoCache
  /\ line = [y |-> -1] /\ work = [changes |-> 0, lines |-> 0]

StageInit ==
  \/ /\ stage = "pace"
     /\ LoopInit /\ ApuRest /\ RenderRest /\ AudioRest /\ DisplayRest /\ HstxInit /\ TftRest
  \/ /\ stage = "apu"
     /\ PaceRest /\ Init /\ RenderRest /\ AudioRest /\ DisplayRest /\ HstxInit /\ TftRest
  \/ /\ stage = "render"
     /\ PaceRest /\ ApuRest /\ RenderInit /\ AudioRest /\ DisplayRest /\ HstxInit /\ TftRest
  \/ /\ stage = "audio"
     /\ PaceRest /\ ApuRest /\ RenderRest /\ AudioInit /\ DisplayRest /\ HstxInit /\ TftRest
  \/ /\ stage = "display"
     /\ PaceRest /\ ApuRest /\ RenderRest /\ AudioRest /\ DisplayInit /\ HstxInit /\ TftRest
  \/ /\ stage = "hdmi"
     /\ PaceRest /\ ApuRest /\ RenderRest /\ AudioRest /\ DisplayRest /\ HstxInit /\ TftRest
  \/ /\ stage = "tft"
     /\ PaceRest /\ ApuRest /\ RenderRest /\ AudioRest /\ DisplayRest /\ HstxInit /\ TftInit
StageNext ==
  /\ \/ stage = "pace"    /\ LoopNext    /\ UNCHANGED <<apuVars, renderVars, audioVars, displayVars, hstxVars, tftVars>>
     \/ stage = "apu"     /\ Next        /\ UNCHANGED <<loopVars, renderVars, audioVars, displayVars, hstxVars, tftVars>>
     \/ stage = "render"  /\ RenderNext  /\ UNCHANGED <<loopVars, apuVars, audioVars, displayVars, hstxVars, tftVars>>
     \/ stage = "audio"   /\ AudioNext   /\ UNCHANGED <<loopVars, apuVars, renderVars, displayVars, hstxVars, tftVars>>
     \/ stage = "display" /\ DisplayNext /\ UNCHANGED <<loopVars, apuVars, renderVars, audioVars, hstxVars, tftVars>>
     \/ stage = "hdmi"    /\ HstxNext    /\ UNCHANGED <<loopVars, apuVars, renderVars, audioVars, displayVars, tftVars>>
     \/ stage = "tft"     /\ TftNext     /\ UNCHANGED <<loopVars, apuVars, renderVars, audioVars, displayVars, hstxVars>>
  /\ stage' = stage
StageSpec ==
  StageInit /\ [][StageNext]_<<stage, loopVars, apuVars, renderVars, audioVars, displayVars, hstxVars, tftVars>>

-----------------------------------------------------------------------------
(* The monitor gets the blocks of every HDMI frame in their order, and a   *)
(* TFT panel shows the frames it was sent, and nothing else.               *)
ShownAsDrawn == FramesInOrder /\ PanelShowsFrames
=============================================================================
