------------------------------- MODULE MCApu -------------------------------
(***************************************************************************)
(* Apu for TLC.                                                            *)
(***************************************************************************)
EXTENDS Apu

(* Apu: two samples every seven cycles, so that batches take three or      *)
(* four; a frame counter of four APU cycles a step; timers of three bits;  *)
(* a DMC that reads eight addresses, bytes of two bits.  A program is the  *)
(* registers of one channel.                                               *)

MCCalls == {5, 12}
MCFrame == <<4, 8, 12, 16>>

Switches(c) == {[on |-> "status", channels |-> {c}], [on |-> "status", channels |-> {}]}
Volume(c) == [on |-> c, reg |-> "volume", i |-> 1, halt |-> TRUE, volume |-> 1]
High(c, i, h) == [on |-> c, reg |-> "high", i |-> i, high |-> h, length |-> 2]
Low(c, i, l) == [on |-> c, reg |-> "low", i |-> i, low |-> l]
Sweeps(i, n) == [on |-> "pulse", reg |-> "sweep", i |-> i, sweeps |-> TRUE, period |-> 0,
                 negate |-> n, shift |-> 1]
Frames(five) == [on |-> "frame", five |-> five]

PulseProgram(i) ==
  Switches(Channels[i])
    \cup {Sweeps(i, TRUE), Sweeps(i, FALSE), High("pulse", i, 1), Low("pulse", i, 3), Frames(TRUE)}
TriangleProgram ==
  Switches("tri") \cup {Volume("tri"), High("tri", 1, 0), High("tri", 1, 1), Low("tri", 1, 2),
                        Frames(TRUE)}
NoiseProgram ==
  Switches("noise") \cup {Volume("noise"), High("noise", 1, 0),
                          [on |-> "noise", reg |-> "low", i |-> 1, mode |-> TRUE, period |-> 1]}
DmcProgram ==
  Switches("dmc")
    \cup {[on |-> "dmc", reg |-> "volume", loop |-> l, period |-> 1] : l \in BOOLEAN}
    \cup {[on |-> "dmc", reg |-> "address", address |-> 14],
          [on |-> "dmc", reg |-> "size", size |-> 3], [on |-> "dmc", reg |-> "size", size |-> 1]}

MCPrograms == {PulseProgram(1), PulseProgram(2), TriangleProgram, NoiseProgram, DmcProgram}
=============================================================================
