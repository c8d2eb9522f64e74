------------------------------ MODULE AppShell ------------------------------
(***************************************************************************)
(* The menu shell of src/common/app_shell.c with what it drives: the ROM   *)
(* source (the flash of the Pico or a directory of the host), the NES, the *)
(* battery files, and the save-state store, whose calls it makes through   *)
(* the operators of SaveStateStore.  A frame is Begin (begin_frame) and,   *)
(* when the shell says so, Step (the NES runs with the pad it was given).  *)
(* Indices into the ROM list count from 1, and 0 is the code's -1.         *)
(***************************************************************************)
EXTENDS Menus, SaveStateStore

CONSTANTS
  Setups,       \* the builds and cards checked, records as below
  Supported,    \* the ROMs whose mapper the console has
  NotRom,       \* what is at a place where no ROM is
  PartsOf,      \* what the first pages of an image make that are all there is
  Savs,         \* battery files
  SavOf         \* the one beside each ROM, of its name without the extension
                \* and cut at 95 characters

\* The RAM a game starts with, also if its battery file is not there or
\* empty, and what is read of a file cut short.
Blank == 0
Torn == -1

ASSUME ShellAssumption ==
  /\ NotRom \notin Roms /\ Blank \in Games
  /\ SavOf \in [Roms -> Savs] /\ PartsOf \in [Roms -> SUBSET Roms]
  /\ \A s \in Setups : /\ {s.firstRoms, s.sdRoms} \subseteq Seq(Roms)
                       /\ s.inputs \subseteq SUBSET Buttons /\ s.written \subseteq Games

VARIABLES
  setup,     \* which of them this is; no step changes it
  shell,     \* the AppShell struct without its menus; buf and lent: the image
             \* it holds, and how many the source has given out
  menu, saveMenu,  \* what the code leaves in a save menu, or in the index
             \* of a deletion, that it sets again before it reads it is reset
  nes,       \* cart: the image it runs; ram: its memory; time: its seconds
  battery,   \* ram: the .sav files; failed: whether the last write failed
  roms,      \* the listing of the ROM source
  flash,     \* what is at the places of the listing on the flash
  pad,       \* the controller state the NES has
  phase,     \* "shell" or "step"
  ghost      \* history for the properties; no part of the program

(* What a setup fixes.                                                     *)
Platform == setup.platform      \* "pico" (src/pico/main.c) or "host" (src/host/run_main.c)
SdCard == setup.sdCard          \* the Pico found an SD card at power-on
SdRoms == setup.sdRoms          \* the ROMs on it, in order
FirstRoms == setup.firstRoms    \* the flash at the first power-on, or the host's directory
BatteryRoms == setup.batteryRoms
Written == setup.written        \* what a game may write to its RAM
Inputs == setup.inputs          \* the button sets a player may hold
MaxSaves == setup.maxSaves      \* bound: saves a directory holds
DeadCalls == setup.deadCalls    \* app_shell_request_menu is called, which no program does
Faulty == setup.faulty          \* reads and writes of battery files may fail

shellVars == <<setup, shell, menu, saveMenu, nes, battery, roms, flash, pad, phase, ghost>>
allVars == <<shellVars, vars>>

ExitCombo == {"Down", "Start"}
SaveCombo == {"Up", "Start"}
HasStore == Platform = "pico" /\ SdCard
HasImport == Platform = "pico" /\ SdCard
FlashActions == Platform = "pico"

Other == "other"    \* a status line without a failed write: empty, or one of the rest
NoCart == [cart |-> NotRom, ram |-> Blank, time |-> 0]

Dialogs == {"CONFIRM_ERASE", "CONFIRM_CLEAR_SAVES", "CONFIRM_DELETE_SAVE"}
States == Dialogs \cup {"MENU", "RUNNING", "IMPORT", "SAVE_MENU"}

Items(list) == Len(list) + IF FlashActions /\ Len(list) > 0 THEN 2 ELSE 0

\* shell_decide_state
Decided(list) == IF list = <<>> /\ HasImport THEN "IMPORT" ELSE "MENU"

-----------------------------------------------------------------------------
(* Starting and stopping a ROM, as outcomes [shell, nes, battery, ok].     *)

Here == [shell |-> shell, nes |-> nes, battery |-> battery, ok |-> TRUE]

\* posix_save_store empties the file and writes it: that succeeds, fails, or
\* seems to succeed (fclose is not checked).  The flash source of the Pico
\* always refuses.
BatteryWrites(w) ==
  LET sav == SavOf[roms[w.shell.running]]
      holds(x, fails) == [ram |-> [w.battery.ram EXCEPT ![sav] = x], failed |-> fails]
  IN  IF Platform = "pico" THEN {[w.battery EXCEPT !.failed = TRUE]}
      ELSE {holds(w.nes.ram, FALSE)}
           \cup (IF Faulty
                 THEN {holds(w.battery.ram[sav], TRUE)}
                      \cup {holds(x, fails) : x \in {Blank, Torn}, fails \in BOOLEAN}
                 ELSE {})

(* Mutant: the image is handed back and the pointer to it kept.           *)
ReleasedKeepsBuf(s) == [s EXCEPT !.lent = IF s.buf # NotRom THEN @ - 1 ELSE @, !.running = 0]

Released(s) == [s EXCEPT !.buf = NotRom, !.lent = IF s.buf # NotRom THEN @ - 1 ELSE @,
                         !.running = 0]

\* shell_unload_running
Unload(w) ==
  LET ends(b, st) == [shell |-> [Released(w.shell) EXCEPT !.status = st],
                      nes |-> NoCart, battery |-> b, ok |-> TRUE]
  IN  IF w.shell.running # 0 /\ w.nes.cart \in BatteryRoms
      THEN {ends(b, IF b.failed THEN "save write failed" ELSE w.shell.status) :
              b \in BatteryWrites(w)}
      ELSE {ends(w.battery, w.shell.status)}

\* What the source reads for entry i: the flash by its own directory.
Image(i) == IF i \in DOMAIN flash THEN flash[i] ELSE NotRom

(* Mutant: the RAM is cleared after the file was read into it.            *)
StartRamCleared(b, i, image) == {Blank}

\* The RAM a ROM starts with after save_load.
StartRam(b, i, image) ==
  IF image \in BatteryRoms /\ Platform = "host"
  THEN {b.ram[SavOf[roms[i]]]} \cup (IF Faulty THEN {Blank, Torn} ELSE {})
  ELSE {Blank}

(* Mutant: a combo held since the menu is not latched.                    *)
StartedUnlatched(s, i, image) ==
  [s EXCEPT !.buf = image, !.running = i, !.state = "RUNNING", !.status = Other,
            !.exitLatched = FALSE, !.saveLatched = FALSE, !.fromSave = FALSE, !.loadedTime = 0]

Started(s, i, image) ==
  [s EXCEPT !.buf = image, !.running = i, !.state = "RUNNING", !.status = Other,
            !.exitLatched = TRUE, !.saveLatched = TRUE, !.fromSave = FALSE, !.loadedTime = 0]

\* shell_launch: the source cannot load it, the cartridge is not accepted, or
\* it runs.
Launch(w, i) ==
  LET lent  == [w.shell EXCEPT !.lent = @ + 1]
      fails(s) == [w EXCEPT !.shell = [s EXCEPT !.status = Other], !.nes = NoCart, !.ok = FALSE]
      image == Image(i)
  IN  IF i \notin DOMAIN roms THEN {[fails(w.shell) EXCEPT !.nes = w.nes]}
      ELSE {fails(w.shell), fails([lent EXCEPT !.lent = @ - 1])}
           \cup (IF image = NotRom THEN {}
                 ELSE {[w EXCEPT !.nes = [cart |-> image, ram |-> r, time |-> 0],
                                 !.shell = Started(lent, i, image)] :
                         r \in StartRam(w.battery, i, image)})

(* Mutant: whose save it is goes unchecked.                               *)
AppliesWhole(b, cart) == b.whole

\* save_state_apply checks magic, version, checksums and size before it
\* writes anything.
Applies(b, cart) == b.whole /\ b.rom = cart

-----------------------------------------------------------------------------
(* What every frame of the shell does and leaves alone. *)

KeepStore == UNCHANGED <<disk, store, blob>>
KeepNes == UNCHANGED <<nes, battery, pad>>
KeepRoms == UNCHANGED <<roms, flash>>

(* Mutant: a button that is held counts as pressed again.                   *)
Held(curr) == curr

Pressed(curr) == curr \ shell.prev

\* The shell stays in charge of the next frame, or the NES runs this one.
InMenus == phase' = "shell"
Runs(forwarded) == phase' = "step" /\ pad' = forwarded

BackToMenu == IF Decided(roms) = "MENU"
              THEN MenuSelect(menu, Items(roms), Len(roms), shell.saveRom - 1) ELSE menu

\* rom_menu_init after the flash was written
FreshRoms(list, curr, st) ==
  /\ roms' = list /\ menu' = MenuInit
  /\ shell' = [shell EXCEPT !.state = Decided(list), !.status = st, !.prev = curr]

-----------------------------------------------------------------------------
(* The three dialogs. *)

ConfirmErase(curr) ==
  /\ shell.state = "CONFIRM_ERASE"
  /\ IF "A" \in Pressed(curr)
     THEN flash' = <<>> /\ FreshRoms(<<>>, curr, Other)
     ELSE /\ shell' = [shell EXCEPT !.prev = curr,
                !.state = IF "B" \in Pressed(curr) THEN "MENU" ELSE @,
                !.status = IF "B" \in Pressed(curr) THEN Other ELSE @]
          /\ KeepRoms /\ UNCHANGED menu
  /\ InMenus /\ KeepNes /\ KeepStore /\ UNCHANGED saveMenu

ConfirmClear(curr) ==
  /\ shell.state = "CONFIRM_CLEAR_SAVES"
  /\ IF "A" \in Pressed(curr)
     THEN /\ \E q \in ClearOutcomes(disk, store) :
               disk' = q.disk /\ store' = q.store
          /\ shell' = [shell EXCEPT !.fromSave = FALSE, !.status = Other,
                                    !.state = Decided(roms), !.prev = curr]
          /\ menu' = BackToMenu /\ UNCHANGED blob
          /\ saveMenu' = MenuInit
     ELSE /\ shell' = [shell EXCEPT !.prev = curr,
                !.state = IF "B" \in Pressed(curr) THEN "SAVE_MENU" ELSE @,
                !.status = IF "B" \in Pressed(curr) THEN Other ELSE @]
          /\ KeepStore /\ UNCHANGED <<menu, saveMenu>>
  /\ InMenus /\ KeepNes /\ KeepRoms

ConfirmDelete(curr) ==
  /\ shell.state = "CONFIRM_DELETE_SAVE"
  /\ IF "A" \in Pressed(curr)
     THEN /\ \E q \in DeleteOutcomes(disk, store, shell.pending) :
               disk' = q.disk /\ store' = q.store
          /\ shell' = [shell EXCEPT !.status = Other, !.state = "SAVE_MENU",
                                    !.pending = 0, !.prev = curr]
          /\ saveMenu' = [saveMenu EXCEPT !.top = IF @ > saveMenu.sel THEN saveMenu.sel ELSE @]
          /\ UNCHANGED blob
     ELSE /\ shell' = [shell EXCEPT !.prev = curr,
                !.state = IF "B" \in Pressed(curr) THEN "SAVE_MENU" ELSE @,
                !.status = IF "B" \in Pressed(curr) THEN Other ELSE @,
                !.pending = IF "B" \in Pressed(curr) THEN 0 ELSE @]
          /\ KeepStore /\ UNCHANGED saveMenu
  /\ InMenus /\ KeepNes /\ KeepRoms /\ UNCHANGED menu

-----------------------------------------------------------------------------
(* The list of saves. *)

\* What becomes of the game w that was launched for the save b: it takes the
\* save and runs, it does not and is unloaded again, or there is none.
Loaded(b, w, m, curr) ==
  \/ /\ w.ok /\ Applies(b, w.nes.cart)
     /\ shell' = [w.shell EXCEPT !.fromSave = TRUE, !.loadedTime = b.time, !.prev = curr]
     \* the frame counter is the one of the capture, the time in the header
     \* the one of the name
     /\ \E t \in 0 .. MaxTime :
          /\ t \in b.time - Tries + 1 .. b.time
          /\ nes' = [w.nes EXCEPT !.ram = b.game, !.time = t]
     /\ battery' = w.battery /\ saveMenu' = MenuInit /\ Runs({})
  \/ /\ w.ok /\ ~Applies(b, w.nes.cart)
     /\ \E u \in Unload(w) :
          /\ shell' = [u.shell EXCEPT !.state = "SAVE_MENU", !.status = Other, !.prev = curr]
          /\ nes' = u.nes /\ battery' = u.battery
     /\ saveMenu' = m /\ InMenus /\ UNCHANGED pad
  \/ /\ ~w.ok
     /\ shell' = [w.shell EXCEPT !.status = Other, !.prev = curr]
     /\ nes' = w.nes /\ battery' = w.battery
     /\ saveMenu' = m /\ InMenus /\ UNCHANGED pad

LoadSave(i, m, curr) ==
  \E l \in LoadOutcomes(disk, store, i, blob) :
    /\ disk' = l.disk /\ blob' = l.blob
    /\ \E w \in IF l.ok THEN Launch(Here, shell.saveRom) ELSE {[Here EXCEPT !.ok = FALSE]} :
         Loaded(l.blob, w, m, curr)
    /\ UNCHANGED <<store, menu>>

InSaveMenu(curr) ==
  /\ shell.state = "SAVE_MENU" /\ KeepRoms
  /\ LET m == MenuStep(saveMenu, Len(store.list) + 2, curr)
         r == SaveChoice(m, Len(store.list), Pressed(curr))
     IN  \/ r = "load" /\ LoadSave(m.sel + 1, m, curr)
         \/ /\ r # "load" /\ KeepStore /\ KeepNes /\ InMenus
            /\ saveMenu' = IF r = "back" THEN MenuInit ELSE m
            /\ shell' = [shell EXCEPT !.prev = curr,
                  !.pending = IF r = "delete" THEN m.sel + 1 ELSE @,
                  !.status = IF r = "back" THEN Other ELSE @,
                  !.state = CASE r = "delete" -> "CONFIRM_DELETE_SAVE"
                              [] r = "clear" -> "CONFIRM_CLEAR_SAVES"
                              [] r = "back" -> Decided(roms)
                              [] OTHER -> @]
            /\ menu' = IF r = "back" THEN BackToMenu ELSE menu

-----------------------------------------------------------------------------
(* The list of ROMs, and copying the SD card to the flash. *)

\* rom_source_flash_fs_copy_from: done; stopped before anything was written;
\* or stopped at a ROM, of which nothing or the first pages are there, with
\* the directory written and the listing not read.
Copy(curr, m) ==
  \/ /\ SdRoms # <<>> /\ flash' = SdRoms
     /\ FreshRoms(SdRoms, curr, Other)
  \/ /\ \/ UNCHANGED flash
        \/ \E n \in DOMAIN SdRoms : \E x \in PartsOf[SdRoms[n]] \cup {NotRom} :
             flash' = [i \in DOMAIN SdRoms |-> IF i < n THEN SdRoms[i]
                                              ELSE IF i = n THEN x ELSE NotRom]
     /\ shell' = [shell EXCEPT !.status = Other, !.prev = curr]
     /\ menu' = m /\ UNCHANGED roms

InImport(curr) ==
  /\ shell.state = "IMPORT"
  /\ IF SdRoms # <<>> /\ Pressed(curr) \cap {"Start", "A"} # {} THEN Copy(curr, menu)
     ELSE /\ shell' = [shell EXCEPT !.prev = curr] /\ KeepRoms
          /\ menu' = IF SdRoms = <<>> THEN [menu EXCEPT !.sel = 0, !.top = 0] ELSE menu
  /\ InMenus /\ KeepNes /\ KeepStore /\ UNCHANGED saveMenu

InMenu(curr) ==
  /\ shell.state = "MENU" /\ KeepStore /\ UNCHANGED saveMenu
  /\ LET m == MenuStep(menu, Items(roms), curr)
         r == RomChoice(m, Len(roms), FlashActions, Pressed(curr))
         runs == r = "launch" /\ roms[m.sel + 1] \in Supported
         stays == r \notin {"erase", "import"} /\ ~runs
     IN  \/ /\ r = "erase" /\ menu' = m
            /\ shell' = [shell EXCEPT !.state = "CONFIRM_ERASE", !.prev = curr]
            /\ InMenus /\ KeepNes /\ KeepRoms
         \/ r = "import" /\ HasImport /\ Copy(curr, m) /\ InMenus /\ KeepNes
         \/ /\ runs /\ menu' = m /\ KeepRoms
            /\ \E w \in Launch(Here, m.sel + 1) :
                 /\ shell' = [w.shell EXCEPT !.prev = curr]
                 /\ nes' = w.nes /\ battery' = w.battery
                 /\ IF w.ok THEN Runs({}) ELSE InMenus /\ UNCHANGED pad
         \/ /\ stays \/ (r = "import" /\ ~HasImport)
            /\ menu' = m
            /\ shell' = [shell EXCEPT !.prev = curr,
                  !.status = IF r = "launch" THEN Other
                             ELSE IF Pressed(curr) \cap {"Up", "Down"} # {} THEN Other ELSE @]
            /\ InMenus /\ KeepNes /\ KeepRoms

-----------------------------------------------------------------------------
(* A game runs: the exit combo, the save combo, or the frame goes to it.   *)

\* shell_return_to_menu, with the ROM that ran selected
ReturnToMenu(curr) ==
  \E u \in Unload(Here) :
    /\ shell' = [u.shell EXCEPT !.status = Other, !.state = Decided(roms), !.prev = curr]
    /\ nes' = u.nes /\ battery' = u.battery
    /\ menu' = IF Decided(roms) = "MENU" /\ shell.running # 0
               THEN Absorb(MenuSelect(menu, Items(roms), Len(roms), shell.running - 1), curr)
               ELSE menu
    /\ UNCHANGED saveMenu

\* The direction of the combo that is still held counts as held.
Seeded(m, curr) ==
  IF "Down" \in curr THEN [m EXCEPT !.dir = 1, !.frames = 1]
  ELSE IF "Up" \in curr THEN [m EXCEPT !.dir = -1, !.frames = 1] ELSE m

(* Mutant: the index is read after it was reset.                          *)
ToSaveMenuLate(list, curr) ==
  \E u \in Unload(Here) :
    /\ shell' = [u.shell EXCEPT !.status = Other, !.state = "SAVE_MENU",
                               !.saveRom = u.shell.running, !.prev = curr]
    /\ nes' = u.nes /\ battery' = u.battery
    /\ saveMenu' = Seeded(MenuInit, curr) /\ UNCHANGED menu

ToSaveMenu(list, curr) ==
  \E u \in Unload(Here) :
    /\ shell' = [u.shell EXCEPT !.status = Other, !.state = "SAVE_MENU",
                               !.saveRom = shell.running, !.prev = curr]
    /\ nes' = u.nes /\ battery' = u.battery
    /\ saveMenu' = Seeded(IF shell.fromSave THEN SelectTime(list, shell.loadedTime)
                          ELSE MenuInit, curr)
    /\ UNCHANGED menu

\* shell_exit_running
Exit(curr) ==
  /\ InMenus /\ UNCHANGED <<pad, blob>>
  /\ IF HasStore
     THEN \E r \in RefreshOutcomes(disk, roms[shell.running]) :
            /\ disk' = r.disk /\ store' = r.store
            /\ IF r.store.list = <<>> THEN ReturnToMenu(curr)
               ELSE ToSaveMenu(r.store.list, curr)
     ELSE ReturnToMenu(curr) /\ UNCHANGED <<disk, store>>

\* shell_create_save_state; the game runs on without the combo.
CreateSave(curr) ==
  LET b == [time |-> nes.time, rom |-> shell.buf, game |-> nes.ram, whole |-> TRUE]
  IN  \E r \in RefreshOutcomes(disk, roms[shell.running]) :
      \E q \in SaveOutcomes(r.disk, r.store, b) :
        /\ Cardinality(DOMAIN q.disk.files[q.store.dir]) <= MaxSaves
        /\ disk' = q.disk /\ store' = q.store /\ blob' = q.blob
        /\ shell' = [shell EXCEPT
              !.exitLatched = @ /\ ExitCombo \subseteq curr, !.saveLatched = TRUE, !.prev = curr,
              !.fromSave = IF q.ok THEN TRUE ELSE @,
              !.loadedTime = IF q.ok THEN q.blob.time ELSE @, !.status = Other]
        /\ Runs(curr \ SaveCombo)

Stripped(curr) ==
  (curr \ (IF ExitCombo \subseteq curr THEN ExitCombo ELSE {}))
       \ (IF HasStore /\ SaveCombo \subseteq curr THEN SaveCombo ELSE {})

InGame(curr) ==
  LET exits == ~shell.exitLatched /\ ExitCombo \subseteq curr /\ ~(ExitCombo \subseteq shell.prev)
      saves == /\ HasStore /\ ~shell.saveLatched
               /\ SaveCombo \subseteq curr /\ ~(SaveCombo \subseteq shell.prev)
  IN  /\ shell.state = "RUNNING" /\ KeepRoms
      /\ \/ exits /\ Exit(curr)
         \/ ~exits /\ saves /\ CreateSave(curr) /\ UNCHANGED <<menu, saveMenu, nes, battery>>
         \/ /\ ~exits /\ ~saves
            /\ shell' = [shell EXCEPT !.prev = curr,
                  !.exitLatched = @ /\ ExitCombo \subseteq curr,
                  !.saveLatched = @ /\ (HasStore => SaveCombo \subseteq curr)]
            /\ Runs(Stripped(curr)) /\ KeepStore
            /\ UNCHANGED <<menu, saveMenu, nes, battery>>

-----------------------------------------------------------------------------
(* Frames, resets, and power. *)

\* History: the buttons of the last frame; the combos seen released in this
\* game (the save combo since the last save); the save the game stands on;
\* the save a dialog names; and what a battery file may hold: the RAM that
\* the last game whose it is was left with.
Unknown == -1

\* Of a game that is left with the files b; a write that failed counts as none.
Left(b) ==
  IF nes.cart \in BatteryRoms /\ ~b.failed
  THEN [ghost.left EXCEPT ![SavOf[roms[shell.running]]] = {nes.ram}] ELSE ghost.left

NewNames == UNION {TimesIn(disk'.files[d]) \ TimesIn(disk.files[d]) : d \in Dirs}

Remember(curr) ==
  LET ran == shell.state = "RUNNING"
      saved == ran /\ NewNames # {}
      starts == ~ran /\ shell'.state = "RUNNING"
      ends == ran /\ shell'.state # "RUNNING"
  IN  ghost' = [ghost EXCEPT
        !.seen = curr,
        !.exitFree = ran /\ (@ \/ ~(ExitCombo \subseteq curr)),
        !.saveFree = ran /\ ~saved /\ (@ \/ ~(SaveCombo \subseteq curr)),
        !.mark = IF saved THEN Min(NewNames)
                 ELSE IF starts /\ shell.state = "SAVE_MENU"
                 THEN store.list[MenuStep(saveMenu, Len(store.list) + 2, curr).sel + 1]
                 ELSE IF ran /\ ~ends THEN @ ELSE Unknown,
        !.asked = IF shell.state = "SAVE_MENU" /\ shell'.state = "CONFIRM_DELETE_SAVE"
                  THEN store.list[shell'.pending]
                  ELSE IF shell'.state = "CONFIRM_DELETE_SAVE" THEN @ ELSE Unknown,
        !.left = IF ends THEN Left(battery') ELSE @]

Begin(curr) ==
  /\ phase = "shell"
  /\ \/ ConfirmErase(curr) \/ ConfirmClear(curr) \/ ConfirmDelete(curr)
     \/ InSaveMenu(curr) \/ InImport(curr) \/ InMenu(curr) \/ InGame(curr)
  /\ Remember(curr)

\* One frame of the game: it may write its RAM, and a second may pass.
Step ==
  /\ phase = "step" /\ phase' = "shell"
  /\ \E r \in Written \cup {nes.ram} : \E t \in {nes.time, nes.time + 1} :
       t <= MaxTime /\ nes' = [nes EXCEPT !.ram = r, !.time = t]
  /\ KeepRoms /\ KeepStore /\ UNCHANGED <<shell, menu, saveMenu, battery, pad, ghost>>

\* The host reads the keyboard again in the middle of a frame and gives it to
\* the NES as it is.
Poll(curr) ==
  /\ Platform = "host" /\ phase = "step"
  /\ pad' = curr
  /\ KeepRoms /\ KeepStore
  /\ UNCHANGED <<shell, menu, saveMenu, nes, battery, phase, ghost>>

\* app_shell_request_reset, from the front panel: nes_reset clears the RAM
\* and the frame counter.
RequestReset ==
  /\ Platform = "pico" /\ phase = "shell" /\ shell.state = "RUNNING"
  /\ nes' = [nes EXCEPT !.ram = Blank, !.time = 0]
  /\ KeepRoms /\ KeepStore /\ UNCHANGED <<shell, menu, saveMenu, battery, pad, phase, ghost>>

\* app_shell_request_menu
RequestMenu ==
  /\ DeadCalls /\ phase = "shell" /\ shell.state \notin {"MENU", "IMPORT", "CONFIRM_ERASE"}
  /\ \E u \in Unload(Here) :
       /\ shell' = [u.shell EXCEPT !.status = Other, !.state = Decided(roms), !.exitLatched = FALSE]
       /\ nes' = u.nes /\ battery' = u.battery
       /\ menu' = IF shell.running # 0
                  THEN MenuSelect(menu, Items(roms), Len(roms), shell.running - 1) ELSE menu
       /\ ghost' = [ghost EXCEPT !.seen = Buttons,
                       !.left = Left(u.battery)]
  /\ KeepRoms /\ KeepStore /\ UNCHANGED <<saveMenu, pad, phase>>

NewShell(list) ==
  [state |-> Decided(list), running |-> 0, saveRom |-> 0, pending |-> 0, fromSave |-> FALSE,
   loadedTime |-> 0, exitLatched |-> FALSE, saveLatched |-> FALSE, prev |-> Buttons,
   status |-> Other, buf |-> NotRom, lent |-> 0]

NoHistory == [seen |-> Buttons, exitFree |-> FALSE, saveFree |-> FALSE, mark |-> Unknown,
              asked |-> Unknown, left |-> [v \in Savs |-> {Blank}]]

\* The directory on the flash names the ROMs even where their data is missing.
Listed(f) == [i \in DOMAIN f |-> IF Platform = "pico" /\ f # FirstRoms THEN SdRoms[i] ELSE f[i]]

UnsetStore == [dir |-> CHOOSE d \in Dirs : TRUE, there |-> FALSE, list |-> <<>>]
UnsetBlob == CHOOSE b \in Blobs : b.time = 0 /\ ~b.whole

Restart(b, left) ==
  /\ battery' = [b EXCEPT !.failed = FALSE] /\ ghost' = [NoHistory EXCEPT !.left = left]
  /\ roms' = Listed(flash) /\ shell' = NewShell(Listed(flash))
  /\ menu' = MenuInit /\ saveMenu' = MenuInit /\ nes' = NoCart /\ pad' = {} /\ phase' = "shell"
  /\ store' = UnsetStore /\ blob' = UnsetBlob
  /\ UNCHANGED <<flash, disk>>

\* The Pico loses its power, or the host process is killed.
PowerCut == Restart(battery, ghost.left)

\* The host process is killed in the middle of a battery write: of the file,
\* which was emptied, there is nothing, some, or all.
KilledInWrite ==
  /\ Platform = "host" /\ phase = "shell" /\ shell.state = "RUNNING" /\ nes.cart \in BatteryRoms
  /\ LET sav == SavOf[roms[shell.running]]
         some == {Blank, Torn, nes.ram}
     IN  \E x \in some : Restart([battery EXCEPT !.ram[sav] = x], [ghost.left EXCEPT ![sav] = some])

\* The host ends in order: app_shell_destroy.
Quit ==
  /\ Platform = "host" /\ phase = "shell" /\ shell.state = "RUNNING"
  /\ \E u \in Unload(Here) : Restart(u.battery, Left(u.battery))

ShellInit ==
  /\ setup \in Setups
  /\ flash = FirstRoms /\ roms = FirstRoms /\ shell = NewShell(FirstRoms)
  /\ menu = MenuInit /\ saveMenu = MenuInit /\ nes = NoCart /\ pad = {} /\ phase = "shell"
  /\ battery = [ram |-> [v \in Savs |-> Blank], failed |-> FALSE]
  /\ ghost = NoHistory
  /\ \E backend \in Backends : disk = EmptyDisk(backend)
  /\ store = UnsetStore /\ blob = UnsetBlob
  /\ last = NoAnswer

ShellNext ==
  /\ \/ \E curr \in Inputs : Begin(curr) \/ Poll(curr)
     \/ Step \/ RequestReset \/ RequestMenu \/ PowerCut \/ KilledInWrite \/ Quit
  /\ UNCHANGED <<setup, last>>    \* last: history of SaveStateStore, not kept here

ShellSpec == ShellInit /\ [][ShellNext]_allVars

-----------------------------------------------------------------------------
(* Type invariant of the shell and of what it drives.                      *)
ShellTypeOK ==
  /\ shell.state \in States /\ shell.running \in 0 .. Len(roms) /\ shell.prev \subseteq Buttons
  /\ shell.status \in {Other, "save write failed"} /\ shell.lent \in {0, 1}
  /\ shell.loadedTime \in Names /\ shell.buf \in Roms \cup {NotRom}
  /\ menu \in [sel : 0 .. Len(roms) + 1, top : 0 .. Len(roms) + 1, dir : {-1, 0, 1},
               frames : 0 .. HoldDelay + HoldRate - 1]
  /\ saveMenu \in [sel : 0 .. Cap + 1, top : 0 .. Cap + 1, dir : {-1, 0, 1},
                   frames : 0 .. HoldDelay + HoldRate - 1]
  /\ nes.ram \in Games \cup {Blank, Torn} /\ nes.time \in 0 .. MaxTime
  /\ pad \subseteq Buttons /\ phase \in {"shell", "step"}

(* The one image the source has given out is the one the cartridge points  *)
(* into (it is not copied), for exactly as long as the ROM runs: never     *)
(* freed under it, never leaked, over launches that fail half way.         *)
BufferIsCart ==
  /\ nes.cart = shell.buf
  /\ shell.lent = IF shell.buf = NotRom THEN 0 ELSE 1
  /\ (shell.state = "RUNNING") = (nes.cart # NotRom)
  /\ (shell.running # 0) = (nes.cart # NotRom)

(* Whatever was erased, copied, deleted or selected by a return from a     *)
(* game, the selection of the list on the screen is an item of it and on   *)
(* one of the rows drawn.                                                  *)
CursorVisible ==
  /\ shell.state \in {"MENU", "CONFIRM_ERASE"} => Shown(menu, Items(roms))
  /\ shell.state \in {"SAVE_MENU", "CONFIRM_CLEAR_SAVES", "CONFIRM_DELETE_SAVE"} =>
       Shown(saveMenu, Len(store.list) + 2)

(* While saves are listed, cleared or deleted the store is at the          *)
(* directory of the ROM whose list it is, although a save, an exit and a   *)
(* load each leave it wherever they used it last.                          *)
SaveMenuOfRom ==
  shell.state \in {"SAVE_MENU", "CONFIRM_CLEAR_SAVES", "CONFIRM_DELETE_SAVE"} =>
    /\ shell.saveRom \in DOMAIN roms /\ store.dir = DirOf[roms[shell.saveRom]]
    /\ shell.state = "CONFIRM_DELETE_SAVE" => shell.pending \in DOMAIN store.list

(* A game that stands on a save stands on a whole one of the very image it *)
(* runs, though ROMs share directories and images change under a name.     *)
LoadedIsOwn ==
  shell.state = "RUNNING" /\ shell.fromSave => blob.whole /\ blob.rom = nes.cart

(* The list that follows a game selects the save the game was loaded from  *)
(* or last saved to, under the name the store gave it.                     *)
HighlightsSave ==
  [][shell.state = "RUNNING" /\ shell'.state = "SAVE_MENU" /\ ghost.mark \in ToSet(store'.list)
     => store'.list[saveMenu'.sel + 1] = ghost.mark]_allVars

(* The exit combo ends a game only after it was seen released in it, the   *)
(* save combo saves only after it was released since the game started and  *)
(* since the last save.  (A power cut and the call that asks for the menu  *)
(* end a game without a frame: they leave every button seen.)              *)
ComboReleased ==
  [][/\ shell.state = "RUNNING" /\ shell'.state # "RUNNING" /\ ghost'.seen # Buttons
        => ghost.exitFree
     /\ NewNames # {} => ghost.saveFree]_allVars

(* Names of saves go from a directory only when a dialog that was on the   *)
(* screen is answered with a fresh A, and the one deleted is the one the   *)
(* dialog named.  (A save that is written over or spoilt keeps its name:   *)
(* KeptOnShelf is about those.)                                            *)
OnlyAskedIsLost ==
  [][\A d \in Dirs :
       LET lost == TimesIn(disk.files[d]) \ TimesIn(disk'.files[d])
       IN  lost # {} =>
             /\ "A" \in ghost'.seen \ ghost.seen /\ d = store.dir
             /\ \/ shell.state = "CONFIRM_CLEAR_SAVES"
                \/ shell.state = "CONFIRM_DELETE_SAVE" /\ lost = {ghost.asked}]_allVars

(* On the host a game with a battery starts with the RAM that the last     *)
(* game of its .sav file was left with, by whatever way it was left; or    *)
(* with what a kill in the middle of that write made of it.  A game that   *)
(* was running when the process was killed leaves nothing.  Where files    *)
(* can fail it may start with none of it or some, never with another RAM.  *)
ContinuesWhereLeft ==
  [][/\ Platform = "host" /\ nes'.cart \in BatteryRoms
     /\ shell.state # "RUNNING" /\ shell'.state = "RUNNING"
     => nes'.ram \in ghost.left[SavOf[roms[shell'.running]]]
                       \cup (IF Faulty THEN {Blank, Torn} ELSE {})]_allVars

(* "a write failure is logged into status" (app_shell.c): the frame whose  *)
(* battery write failed ends with that status.                             *)
WriteFailureShown ==
  [][battery'.failed /\ ~battery.failed => shell'.status = "save write failed"]_allVars

(* load reads "the full ROM image for entry index" (rom_source.h): the     *)
(* image that runs is the entry the list showed.                           *)
NamedAsShown ==
  shell.state = "RUNNING" => nes.cart = roms[shell.running]

(* The list on the screen is the one its title says, with a selection that *)
(* is one of its items.                                                    *)
ListsOK == ShellTypeOK /\ CursorVisible /\ SaveMenuOfRom
=============================================================================
