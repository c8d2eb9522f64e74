---------------------------- MODULE MCAppShell ----------------------------
(***************************************************************************)
(* AppShell for TLC: two ROMs, each with its save directory and battery    *)
(* file, and a third that shares the file of one; windows of two rows; few *)
(* slots, so that lists fill up; a held direction repeats after two or     *)
(* three frames.                                                           *)
(***************************************************************************)
EXTENDS AppShell

MCRoms == {"zelda", "mario", "zelda2", "half"}   \* half: the first pages of "mario"
MCDirs == {"ZELDA", "MARIO"}
MCDirOf == [r \in MCRoms |-> IF r \in {"zelda", "zelda2"} THEN "ZELDA" ELSE "MARIO"]
MCSavs == {"zelda.sav", "mario.sav"}
MCSavOf == [r \in MCRoms |-> IF r \in {"zelda", "zelda2"} THEN "zelda.sav" ELSE "mario.sav"]
MCPartsOf == [r \in MCRoms |-> IF r = "mario" THEN {"half"} ELSE {}]
SdOnly == {"sd"}
NoFaults == [sd |-> 0]

TwoSlots == {1, 2}
Zelda == <<"zelda">>
Both == <<"mario", "zelda">>
Three == <<"mario", "zelda", "zelda2">>
SomeGames == {0, 1, 2}

Exits == {{}, {"A"}, {"Down"}, {"Down", "Start"}}
SaveInputs == Exits \cup {{"Select"}, {"Up", "Start"}, {"B"}}
CopyInputs == {{"A"}, {"Down", "Start"}, {"Up", "Start"}}
HostInputs == Exits \cup {{"Up"}}

Pico(sdRoms, inputs, saves) ==
  [platform |-> "pico", sdCard |-> TRUE, sdRoms |-> sdRoms, firstRoms |-> Zelda,
   batteryRoms |-> {}, written |-> {}, inputs |-> inputs,
   maxSaves |-> saves, deadCalls |-> FALSE, faulty |-> FALSE]

Host(list, inputs, games, deadCalls, faulty) ==
  [platform |-> "host", sdCard |-> FALSE, sdRoms |-> <<>>, firstRoms |-> list,
   batteryRoms |-> MCRoms, written |-> games, inputs |-> inputs,
   maxSaves |-> 0, deadCalls |-> deadCalls, faulty |-> faulty]

\* Saves on a card without ROMs; ROMs copied from a card; batteries on the
\* host; and batteries where files fail.
AllSetups == {Pico(<<>>, SaveInputs, 2), Pico(Both, CopyInputs, 1),
              Host(Three, HostInputs, {0, 1}, TRUE, FALSE),
              Host(Both, {{"A"}, ExitCombo}, {1}, FALSE, TRUE)}
HostOnly == {Host(Both, Exits, {1}, FALSE, TRUE)}
CopiesOnly == {Pico(Both, Exits, 0)}
=============================================================================
