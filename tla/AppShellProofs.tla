---------------------------- MODULE AppShellProofs ----------------------------
(***************************************************************************)
(* The shell for every listing, card, input and file system: the image     *)
(* that runs is the one that was lent, a game stands on a save of its own, *)
(* a combo acts once, saves go only when that was asked for, a battery     *)
(* game goes on where it was left, and the lists on the screen are true.   *)
(* MCAppShell checks the same on three ROMs and two battery files.         *)
(***************************************************************************)
EXTENDS AppShell, SaveStateStoreProofs

-----------------------------------------------------------------------------
(* The image.                                                              *)

(* A shell and a console without a game, and with the game of entry i.     *)
Idle(s, n) == /\ s.buf = NotRom /\ s.lent = 0 /\ s.running = 0
              /\ n.cart = NotRom
Busy(s, n) == /\ s.buf # NotRom /\ s.lent = 1
              /\ n.cart = s.buf

LEMMA StartedFields ==
  ASSUME NEW s, NEW i, NEW image
  PROVE  /\ Started(s, i, image).buf = image /\ Started(s, i, image).lent = s.lent
         /\ Started(s, i, image).running = i /\ Started(s, i, image).state = "RUNNING"
         /\ Started(s, i, image).saveRom = s.saveRom
BY DEF Started

LEMMA StartedFlags ==
  ASSUME NEW s, NEW i, NEW image
  PROVE  /\ ~Started(s, i, image).fromSave
         /\ Started(s, i, image).exitLatched /\ Started(s, i, image).saveLatched
BY DEF Started

LEMMA ReleasedFields ==
  ASSUME NEW s
  PROVE  /\ Released(s).buf = NotRom /\ Released(s).running = 0
         /\ Released(s).lent = IF s.buf # NotRom THEN s.lent - 1 ELSE s.lent
         /\ Released(s).state = s.state /\ Released(s).saveRom = s.saveRom
         /\ Released(s).prev = s.prev
BY DEF Released

WithStatus(s, st) == [s EXCEPT !.status = st]

LEMMA StatusFields ==
  ASSUME NEW s, NEW st
  PROVE  /\ WithStatus(s, st).buf = s.buf /\ WithStatus(s, st).lent = s.lent
         /\ WithStatus(s, st).running = s.running /\ WithStatus(s, st).state = s.state
         /\ WithStatus(s, st).saveRom = s.saveRom /\ WithStatus(s, st).prev = s.prev
         /\ WithStatus(s, st).fromSave = s.fromSave /\ WithStatus(s, st).pending = s.pending
BY DEF WithStatus

(* Whatever a shell_unload_running finds, nothing is lent afterwards.      *)
LEMMA UnloadOutcome ==
  ASSUME NEW w, Idle(w.shell, w.nes) \/ Busy(w.shell, w.nes), NEW u \in Unload(w)
  PROVE  /\ Idle(u.shell, u.nes)
         /\ \E st : u.shell = WithStatus(Released(w.shell), st)
<1>1. PICK b, st : u = [shell |-> WithStatus(Released(w.shell), st),
                        nes |-> NoCart, battery |-> b, ok |-> TRUE]
  BY DEF Unload, WithStatus
<1>2. u.shell = WithStatus(Released(w.shell), st) /\ u.nes = NoCart
  BY <1>1
<1>3. u.shell.buf = NotRom /\ u.shell.running = 0 /\ u.nes.cart = NotRom
  BY <1>2, ReleasedFields, StatusFields DEF NoCart
<1>4. u.shell.lent = IF w.shell.buf # NotRom THEN w.shell.lent - 1 ELSE w.shell.lent
  <2>1. Released(w.shell).lent = IF w.shell.buf # NotRom THEN w.shell.lent - 1 ELSE w.shell.lent
    BY ReleasedFields
  <2> QED
    BY <1>2, <2>1, StatusFields
<1>5. u.shell.lent = 0
  BY <1>4, SMT DEF Idle, Busy
<1> QED
  BY <1>2, <1>3, <1>5 DEF Idle

Lend(s)     == [s EXCEPT !.lent = @ + 1]
GiveBack(s) == [s EXCEPT !.lent = @ - 1]

LEMMA LendFields ==
  ASSUME NEW s
  PROVE  /\ Lend(s).buf = s.buf /\ Lend(s).lent = s.lent + 1 /\ Lend(s).running = s.running
         /\ Lend(s).state = s.state /\ Lend(s).saveRom = s.saveRom
         /\ GiveBack(s).buf = s.buf /\ GiveBack(s).lent = s.lent - 1
         /\ GiveBack(s).running = s.running
         /\ GiveBack(s).state = s.state /\ GiveBack(s).saveRom = s.saveRom
BY DEF Lend, GiveBack

(* Whatever a shell_launch comes to: the game runs from the image that was *)
(* lent, or nothing is lent.                                               *)
Launched(s) == /\ s.state = "RUNNING" /\ s.running \in DOMAIN roms
            /\ ~s.fromSave /\ s.exitLatched /\ s.saveLatched

LEMMA LaunchOutcome ==
  ASSUME Idle(shell, nes), NEW i, NEW x \in Launch(Here, i)
  PROVE  /\ x.shell.saveRom = shell.saveRom
         /\ \/ x.ok /\ Busy(x.shell, x.nes) /\ Launched(x.shell)
            \/ ~x.ok /\ Idle(x.shell, x.nes) /\ x.shell.state = shell.state
<1>1. CASE i \notin DOMAIN roms
  <2>1. x = [shell |-> WithStatus(shell, Other), nes |-> nes, battery |-> battery, ok |-> FALSE]
    BY <1>1 DEF Launch, Here, WithStatus
  <2> QED
    BY <2>1, StatusFields DEF Idle
<1>2. ASSUME i \in DOMAIN roms,
             NEW s \in {shell, GiveBack(Lend(shell))},
             x = [shell |-> WithStatus(s, Other), nes |-> NoCart, battery |-> battery, ok |-> FALSE]
      PROVE  /\ x.shell.saveRom = shell.saveRom
             /\ ~x.ok /\ Idle(x.shell, x.nes) /\ x.shell.state = shell.state
  <2>1. s.lent = 0 /\ s.buf = NotRom /\ s.running = 0
        /\ s.state = shell.state /\ s.saveRom = shell.saveRom
    BY LendFields, SMT DEF Idle
  <2> QED
    BY <1>2, <2>1, StatusFields DEF Idle, NoCart
<1>3. ASSUME i \in DOMAIN roms, Image(i) # NotRom, NEW r,
             x = [shell |-> Started(Lend(shell), i, Image(i)),
                  nes |-> [cart |-> Image(i), ram |-> r, time |-> 0],
                  battery |-> battery, ok |-> TRUE]
      PROVE  /\ x.shell.saveRom = shell.saveRom
             /\ x.ok /\ Busy(x.shell, x.nes) /\ Launched(x.shell)
  <2>1. Lend(shell).lent = 1 /\ Lend(shell).saveRom = shell.saveRom
    BY LendFields, SMT DEF Idle
  <2>2. /\ x.shell = Started(Lend(shell), i, Image(i)) /\ x.nes.cart = Image(i)
        /\ x.ok
    BY <1>3
  <2>3. Launched(x.shell)
    <3>1. x.shell.state = "RUNNING" /\ x.shell.running = i
      BY <2>2, StartedFields
    <3>2. ~x.shell.fromSave /\ x.shell.exitLatched /\ x.shell.saveLatched
      BY <2>2, StartedFlags, Zenon
    <3> QED
      BY <1>3, <3>1, <3>2, Zenon DEF Launched
  <2>4. /\ x.shell.buf = Image(i) /\ x.shell.lent = Lend(shell).lent
        /\ x.shell.saveRom = Lend(shell).saveRom
    BY <2>2, StartedFields
  <2> QED
    BY <1>3, <2>1, <2>2, <2>3, <2>4 DEF Busy
<1>4. CASE i \in DOMAIN roms
  <2>1. \/ \E s \in {shell, GiveBack(Lend(shell))} :
             x = [shell |-> WithStatus(s, Other), nes |-> NoCart, battery |-> battery, ok |-> FALSE]
        \/ /\ Image(i) # NotRom
           /\ \E r : x = [shell |-> Started(Lend(shell), i, Image(i)),
                          nes |-> [cart |-> Image(i), ram |-> r, time |-> 0],
                          battery |-> battery, ok |-> TRUE]
    BY <1>4 DEF Launch, Here, WithStatus, Lend, GiveBack
  <2> QED
    BY <1>2, <1>3, <1>4, <2>1
<1> QED
  BY <1>1, <1>4

ImageOK ==
  IF shell.state = "RUNNING" THEN Busy(shell, nes) /\ shell.running \in DOMAIN roms
                             ELSE Idle(shell, nes)

(* The four kinds of frames: in the menus, with a launch, in a game, and   *)
(* with its end.                                                           *)
Own(b, n) == b.whole /\ b.rom = n.cart

InLists(s) == s.state \in States \ {"RUNNING"}

SaveStates == {"SAVE_MENU", "CONFIRM_CLEAR_SAVES", "CONFIRM_DELETE_SAVE"}

Stays(curr) ==
  /\ shell.state # "RUNNING" /\ InLists(shell') /\ Idle(shell', nes')
  /\ shell'.saveRom = shell.saveRom /\ shell'.prev = curr
  /\ shell'.state \in SaveStates => shell.state \in SaveStates

Starts(curr) ==
  /\ shell.state \in {"MENU", "SAVE_MENU"} /\ shell'.state = "RUNNING"
  /\ Busy(shell', nes') /\ shell'.running \in DOMAIN roms /\ KeepRoms
  /\ shell'.exitLatched /\ shell'.saveLatched
  /\ shell'.fromSave => Own(blob', nes')
  /\ shell'.prev = curr

GoesOn(curr) ==
  /\ shell.state = "RUNNING" /\ shell'.state = "RUNNING"
  /\ shell'.buf = shell.buf /\ shell'.lent = shell.lent
  /\ shell'.running = shell.running /\ nes' = nes /\ KeepRoms
  /\ shell'.fromSave => Own(blob', nes')
  /\ shell'.prev = curr

Ends(curr) ==
  /\ shell.state = "RUNNING" /\ shell'.state \in {"MENU", "IMPORT", "SAVE_MENU"}
  /\ Idle(shell', nes') /\ KeepRoms
  /\ shell'.prev = curr

LEMMA DecidedLists ==
  ASSUME NEW list
  PROVE  Decided(list) \in {"MENU", "IMPORT"}
BY DEF Decided

LEMMA FreshLists ==
  ASSUME NEW list, NEW curr, NEW st, FreshRoms(list, curr, st)
  PROVE  /\ shell'.buf = shell.buf /\ shell'.lent = shell.lent
         /\ shell'.running = shell.running /\ shell'.saveRom = shell.saveRom
         /\ shell'.state = Decided(list) /\ shell'.prev = curr
BY DEF FreshRoms

LEMMA EraseStays ==
  ASSUME ImageOK, NEW curr, ConfirmErase(curr)
  PROVE  Stays(curr)
<1>1. shell.state = "CONFIRM_ERASE" /\ nes' = nes /\ Idle(shell, nes)
  BY DEF ConfirmErase, KeepNes, ImageOK
<1>2. /\ shell'.buf = shell.buf /\ shell'.lent = shell.lent
      /\ shell'.running = shell.running
      /\ shell'.saveRom = shell.saveRom /\ shell'.prev = curr
      /\ shell'.state \in {"MENU", "IMPORT", "CONFIRM_ERASE"}
  <2>1. CASE FreshRoms(<<>>, curr, Other)
    BY <2>1, FreshLists, DecidedLists
  <2>2. CASE shell' = [shell EXCEPT !.prev = curr,
                !.state = IF "B" \in Pressed(curr) THEN "MENU" ELSE @,
                !.status = IF "B" \in Pressed(curr) THEN Other ELSE @]
    BY <1>1, <2>2
  <2> QED
    BY <2>1, <2>2 DEF ConfirmErase
<1> QED
  BY <1>1, <1>2 DEF Stays, Idle, InLists, SaveStates, States, Dialogs

LEMMA ClearStays ==
  ASSUME ImageOK, NEW curr, ConfirmClear(curr)
  PROVE  Stays(curr)
<1>1. shell.state = "CONFIRM_CLEAR_SAVES" /\ nes' = nes /\ Idle(shell, nes)
  BY DEF ConfirmClear, KeepNes, ImageOK
<1>2. /\ shell'.buf = shell.buf /\ shell'.lent = shell.lent
      /\ shell'.running = shell.running
      /\ shell'.saveRom = shell.saveRom /\ shell'.prev = curr
      /\ shell'.state \in {"MENU", "IMPORT", "SAVE_MENU", "CONFIRM_CLEAR_SAVES"}
  <2>1. CASE "A" \in Pressed(curr)
    <3>1. shell' = [shell EXCEPT !.fromSave = FALSE, !.status = Other,
                                 !.state = Decided(roms), !.prev = curr]
      BY <2>1 DEF ConfirmClear
    <3> QED
      BY <3>1, DecidedLists
  <2>2. CASE "A" \notin Pressed(curr)
    <3>1. shell' = [shell EXCEPT !.prev = curr,
                !.state = IF "B" \in Pressed(curr) THEN "SAVE_MENU" ELSE @,
                !.status = IF "B" \in Pressed(curr) THEN Other ELSE @]
      BY <2>2 DEF ConfirmClear
    <3> QED
      BY <1>1, <3>1
  <2> QED
    BY <2>1, <2>2
<1> QED
  BY <1>1, <1>2 DEF Stays, Idle, InLists, SaveStates, States, Dialogs

LEMMA DeleteStays ==
  ASSUME ImageOK, NEW curr, ConfirmDelete(curr)
  PROVE  Stays(curr)
<1>1. shell.state = "CONFIRM_DELETE_SAVE" /\ nes' = nes /\ Idle(shell, nes)
  BY DEF ConfirmDelete, KeepNes, ImageOK
<1>2. /\ shell'.buf = shell.buf /\ shell'.lent = shell.lent
      /\ shell'.running = shell.running
      /\ shell'.saveRom = shell.saveRom /\ shell'.prev = curr
      /\ shell'.state \in {"SAVE_MENU", "CONFIRM_DELETE_SAVE"}
  <2>1. CASE "A" \in Pressed(curr)
    <3>1. shell' = [shell EXCEPT !.status = Other, !.state = "SAVE_MENU",
                                 !.pending = 0, !.prev = curr]
      BY <2>1 DEF ConfirmDelete
    <3> QED
      BY <3>1
  <2>2. CASE "A" \notin Pressed(curr)
    <3>1. shell' = [shell EXCEPT !.prev = curr,
                !.state = IF "B" \in Pressed(curr) THEN "SAVE_MENU" ELSE @,
                !.status = IF "B" \in Pressed(curr) THEN Other ELSE @,
                !.pending = IF "B" \in Pressed(curr) THEN 0 ELSE @]
      BY <2>2 DEF ConfirmDelete
    <3> QED
      BY <1>1, <3>1
  <2> QED
    BY <2>1, <2>2
<1> QED
  BY <1>1, <1>2 DEF Stays, Idle, InLists, SaveStates, States, Dialogs

LEMMA SaveChoices ==
  ASSUME NEW m, NEW n, NEW pressed
  PROVE  SaveChoice(m, n, pressed) \in {"clear", "back", "load", "delete", "none"}
BY DEF SaveChoice

LEMMA LoadFrame ==
  ASSUME ImageOK, shell.state = "SAVE_MENU", KeepRoms,
         NEW i, NEW m, NEW curr, LoadSave(i, m, curr)
  PROVE  \/ Stays(curr) /\ shell'.state = "SAVE_MENU"
         \/ Starts(curr)
<1>0. Idle(shell, nes)
  BY DEF ImageOK
<1>a. PICK l \in LoadOutcomes(disk, store, i, blob) :
        /\ blob' = l.blob
        /\ \E w \in IF l.ok THEN Launch(Here, shell.saveRom) ELSE {[Here EXCEPT !.ok = FALSE]} :
             Loaded(l.blob, w, m, curr)
  BY Zenon DEF LoadSave
<1>1. PICK w \in IF l.ok THEN Launch(Here, shell.saveRom) ELSE {[Here EXCEPT !.ok = FALSE]} :
        Loaded(l.blob, w, m, curr)
  BY <1>a
<1>2. /\ w.shell.saveRom = shell.saveRom
      /\ \/ w.ok /\ Busy(w.shell, w.nes) /\ Launched(w.shell)
         \/ ~w.ok /\ Idle(w.shell, w.nes) /\ w.shell.state = shell.state
  <2>1. CASE w \in Launch(Here, shell.saveRom)
    BY <1>0, <2>1, LaunchOutcome
  <2>2. CASE w = [Here EXCEPT !.ok = FALSE]
    <3>1. w.shell = shell /\ w.nes = nes /\ ~w.ok
      BY <2>2 DEF Here
    <3> QED
      BY <1>0, <3>1
  <2> QED
    BY <1>1, <2>1, <2>2
<1>3. ASSUME w.ok, Applies(l.blob, w.nes.cart),
             shell' = [w.shell EXCEPT !.fromSave = TRUE, !.loadedTime = l.blob.time,
                                      !.prev = curr],
             NEW t, nes' = [w.nes EXCEPT !.ram = l.blob.game, !.time = t]
      PROVE  Starts(curr)
  <2>1. /\ shell'.buf = w.shell.buf /\ shell'.lent = w.shell.lent
        /\ shell'.running = w.shell.running /\ shell'.state = w.shell.state
        /\ shell'.prev = curr /\ nes'.cart = w.nes.cart
    BY <1>3
  <2>2. shell'.exitLatched = w.shell.exitLatched /\ shell'.saveLatched = w.shell.saveLatched
    BY <1>3
  <2>3. Busy(w.shell, w.nes) /\ Launched(w.shell)
    BY <1>2, <1>3
  <2>4. Own(blob', nes')
    BY <1>a, <1>3, <2>1 DEF Own, Applies
  <2>5. Busy(shell', nes') /\ shell'.state = "RUNNING" /\ shell'.running \in DOMAIN roms
    BY <2>1, <2>3 DEF Busy, Launched
  <2>6. shell'.exitLatched /\ shell'.saveLatched
    BY <2>2, <2>3, Zenon DEF Launched
  <2> QED
    BY <2>1, <2>4, <2>5, <2>6, Zenon DEF Starts
<1>4. ASSUME w.ok, NEW u \in Unload(w),
             shell' = [u.shell EXCEPT !.state = "SAVE_MENU", !.status = Other, !.prev = curr],
             nes' = u.nes
      PROVE  Stays(curr) /\ shell'.state = "SAVE_MENU"
  <2>1. Busy(w.shell, w.nes)
    BY <1>2, <1>4
  <2>2. PICK st : Idle(u.shell, u.nes) /\ u.shell = WithStatus(Released(w.shell), st)
    BY <2>1, UnloadOutcome
  <2>3. u.shell.saveRom = shell.saveRom
    BY <1>2, <2>2, StatusFields, ReleasedFields
  <2>4. /\ shell'.buf = u.shell.buf /\ shell'.lent = u.shell.lent
        /\ shell'.running = u.shell.running /\ shell'.state = "SAVE_MENU"
        /\ shell'.prev = curr /\ shell'.saveRom = u.shell.saveRom
    BY <1>4
  <2> QED
    BY <1>4, <2>2, <2>3, <2>4 DEF Stays, Idle, InLists, SaveStates, States
<1>5. ASSUME ~w.ok, shell' = [w.shell EXCEPT !.status = Other, !.prev = curr], nes' = w.nes
      PROVE  Stays(curr) /\ shell'.state = "SAVE_MENU"
  <2>1. Idle(w.shell, w.nes) /\ w.shell.state = "SAVE_MENU"
    BY <1>2, <1>5
  <2>2. /\ shell'.buf = w.shell.buf /\ shell'.lent = w.shell.lent
        /\ shell'.running = w.shell.running /\ shell'.state = w.shell.state
        /\ shell'.prev = curr /\ shell'.saveRom = w.shell.saveRom
    BY <1>5
  <2> QED
    BY <1>2, <1>5, <2>1, <2>2 DEF Stays, Idle, InLists, SaveStates, States
<1> QED
  BY <1>1, <1>3, <1>4, <1>5, Zenon DEF Loaded

LEMMA SaveMenuFrame ==
  ASSUME ImageOK, NEW curr, InSaveMenu(curr)
  PROVE  Stays(curr) \/ Starts(curr)
<1> DEFINE m == MenuStep(saveMenu, Len(store.list) + 2, curr)
           r == SaveChoice(m, Len(store.list), Pressed(curr))
<1>0. shell.state = "SAVE_MENU" /\ KeepRoms /\ Idle(shell, nes)
  BY DEF InSaveMenu, ImageOK
<1>1. CASE LoadSave(m.sel + 1, m, curr)
  BY <1>0, <1>1, LoadFrame
<1>2. ASSUME nes' = nes,
             shell' = [shell EXCEPT !.prev = curr,
                  !.pending = IF r = "delete" THEN m.sel + 1 ELSE @,
                  !.status = IF r = "back" THEN Other ELSE @,
                  !.state = CASE r = "delete" -> "CONFIRM_DELETE_SAVE"
                              [] r = "clear" -> "CONFIRM_CLEAR_SAVES"
                              [] r = "back" -> Decided(roms)
                              [] OTHER -> @]
      PROVE  Stays(curr)
  <2> HIDE DEF m, r
  <2>1. /\ shell'.buf = shell.buf /\ shell'.lent = shell.lent
        /\ shell'.running = shell.running
        /\ shell'.saveRom = shell.saveRom /\ shell'.prev = curr
    BY <1>2
  <2>2. shell'.state \in {"MENU", "IMPORT", "SAVE_MENU", "CONFIRM_CLEAR_SAVES",
                          "CONFIRM_DELETE_SAVE"}
    <3>1. shell'.state = CASE r = "delete" -> "CONFIRM_DELETE_SAVE"
                           [] r = "clear" -> "CONFIRM_CLEAR_SAVES"
                           [] r = "back" -> Decided(roms)
                           [] OTHER -> shell.state
      BY <1>2
    <3> QED
      BY <1>0, <3>1, DecidedLists
  <2> QED
    BY <1>0, <1>2, <2>1, <2>2 DEF Stays, Idle, InLists, SaveStates, States, Dialogs
<1> QED
  BY <1>1, <1>2, Zenon DEF InSaveMenu, KeepNes

LEMMA CopyFrame ==
  ASSUME NEW m, NEW curr, Copy(curr, m)
  PROVE  /\ shell'.buf = shell.buf /\ shell'.lent = shell.lent
         /\ shell'.running = shell.running
         /\ shell'.saveRom = shell.saveRom /\ shell'.prev = curr
         /\ shell'.state \in {"MENU", "IMPORT", shell.state}
<1>1. CASE FreshRoms(SdRoms, curr, Other)
  BY <1>1, FreshLists, DecidedLists
<1>2. CASE shell' = [shell EXCEPT !.status = Other, !.prev = curr]
  BY <1>2
<1> QED
  BY <1>1, <1>2, Zenon DEF Copy

LEMMA ImportFrame ==
  ASSUME ImageOK, NEW curr, InImport(curr)
  PROVE  Stays(curr)
<1>1. shell.state = "IMPORT" /\ nes' = nes /\ Idle(shell, nes)
  BY DEF InImport, KeepNes, ImageOK
<1>2. /\ shell'.buf = shell.buf /\ shell'.lent = shell.lent
      /\ shell'.running = shell.running
      /\ shell'.saveRom = shell.saveRom /\ shell'.prev = curr
      /\ shell'.state \in {"MENU", "IMPORT", shell.state}
  <2>1. CASE Copy(curr, menu)
    BY <2>1, CopyFrame
  <2>2. CASE shell' = [shell EXCEPT !.prev = curr]
    BY <2>2
  <2> QED
    BY <2>1, <2>2, Zenon DEF InImport
<1> QED
  BY <1>1, <1>2 DEF Stays, Idle, InLists, SaveStates, States

LEMMA MenuFrame ==
  ASSUME ImageOK, NEW curr, InMenu(curr)
  PROVE  Stays(curr) \/ Starts(curr)
<1> DEFINE m == MenuStep(menu, Items(roms), curr)
           r == RomChoice(m, Len(roms), FlashActions, Pressed(curr))
<1>0. shell.state = "MENU" /\ blob' = blob /\ Idle(shell, nes)
  BY DEF InMenu, ImageOK, KeepStore
<1>1. CASE shell' = [shell EXCEPT !.state = "CONFIRM_ERASE", !.prev = curr] /\ KeepNes
  BY <1>0, <1>1 DEF Stays, Idle, InLists, SaveStates, States, Dialogs, KeepNes
<1>2. CASE Copy(curr, m) /\ KeepNes
  BY <1>0, <1>2, CopyFrame DEF Stays, Idle, InLists, SaveStates, States, KeepNes
<1>3. ASSUME KeepRoms, NEW w \in Launch(Here, m.sel + 1),
             shell' = [w.shell EXCEPT !.prev = curr], nes' = w.nes
      PROVE  Stays(curr) \/ Starts(curr)
  <2>1. /\ w.shell.saveRom = shell.saveRom
        /\ \/ w.ok /\ Busy(w.shell, w.nes) /\ Launched(w.shell)
           \/ ~w.ok /\ Idle(w.shell, w.nes) /\ w.shell.state = shell.state
    BY <1>0, LaunchOutcome
  <2>2. /\ shell'.buf = w.shell.buf /\ shell'.lent = w.shell.lent
        /\ shell'.running = w.shell.running /\ shell'.state = w.shell.state
        /\ shell'.prev = curr /\ shell'.saveRom = w.shell.saveRom
        /\ shell'.exitLatched = w.shell.exitLatched
        /\ shell'.saveLatched = w.shell.saveLatched
        /\ shell'.fromSave = w.shell.fromSave
    BY <1>3
  <2>3. CASE Busy(w.shell, w.nes) /\ Launched(w.shell)
    <3>1. Busy(shell', nes') /\ shell'.running \in DOMAIN roms /\ shell'.state = "RUNNING"
      BY <1>3, <2>2, <2>3 DEF Busy, Launched
    <3>2. shell'.exitLatched /\ shell'.saveLatched /\ ~shell'.fromSave
      BY <2>2, <2>3, Zenon DEF Launched
    <3> QED
      BY <1>0, <1>3, <2>2, <3>1, <3>2, Zenon DEF Starts
  <2>4. CASE Idle(w.shell, w.nes) /\ w.shell.state = shell.state
    BY <1>0, <1>3, <2>1, <2>2, <2>4 DEF Stays, Idle, InLists, SaveStates, States
  <2> QED
    BY <2>1, <2>3, <2>4
<1>4. ASSUME KeepNes,
             shell' = [shell EXCEPT !.prev = curr,
                  !.status = IF r = "launch" THEN Other
                             ELSE IF Pressed(curr) \cap {"Up", "Down"} # {} THEN Other ELSE @]
      PROVE  Stays(curr)
  BY <1>0, <1>4 DEF Stays, Idle, InLists, SaveStates, States, KeepNes
<1> QED
  BY <1>1, <1>2, <1>3, <1>4, Zenon DEF InMenu

(* A save is of the game that runs, whatever becomes of it on the card.    *)
LEMMA SaveFrame ==
  ASSUME ImageOK, shell.state = "RUNNING", KeepRoms, nes' = nes,
         NEW curr, CreateSave(curr)
  PROVE  GoesOn(curr)
<1> DEFINE b == [time |-> nes.time, rom |-> shell.buf, game |-> nes.ram, whole |-> TRUE]
<1>a. PICK r \in RefreshOutcomes(disk, roms[shell.running]) :
        \E q \in SaveOutcomes(r.disk, r.store, b) :
          /\ blob' = q.blob
          /\ shell' = [shell EXCEPT
                !.exitLatched = @ /\ ExitCombo \subseteq curr, !.saveLatched = TRUE, !.prev = curr,
                !.fromSave = IF q.ok THEN TRUE ELSE @,
                !.loadedTime = IF q.ok THEN q.blob.time ELSE @, !.status = Other]
  BY Zenon DEF CreateSave
<1>1. PICK q \in SaveOutcomes(r.disk, r.store, b) :
        /\ blob' = q.blob
        /\ shell' = [shell EXCEPT
              !.exitLatched = @ /\ ExitCombo \subseteq curr, !.saveLatched = TRUE, !.prev = curr,
              !.fromSave = IF q.ok THEN TRUE ELSE @,
              !.loadedTime = IF q.ok THEN q.blob.time ELSE @, !.status = Other]
  BY <1>a
<1>2. /\ shell'.state = shell.state /\ shell'.buf = shell.buf /\ shell'.lent = shell.lent
      /\ shell'.running = shell.running /\ shell'.prev = curr
  BY <1>1
<1>3. Own(blob', nes)
  <2>1. blob' \in {b, Named(b, Candidate(r.disk, r.store, b.time))}
    BY <1>1, SavedBlob
  <2>2. blob'.rom = shell.buf /\ blob'.whole
    BY <2>1 DEF Named
  <2> QED
    BY <2>2 DEF ImageOK, Busy, Own
<1> QED
  BY <1>2, <1>3 DEF GoesOn

LEMMA ReturnFrame ==
  ASSUME ImageOK, shell.state = "RUNNING", KeepRoms, NEW curr, ReturnToMenu(curr)
  PROVE  Ends(curr) /\ shell'.state # "SAVE_MENU"
<1>1. PICK u \in Unload(Here) :
        /\ shell' = [u.shell EXCEPT !.status = Other, !.state = Decided(roms), !.prev = curr]
        /\ nes' = u.nes
  BY Zenon DEF ReturnToMenu
<1>2. Idle(u.shell, u.nes)
  <2>1. Here.shell = shell /\ Here.nes = nes
    BY DEF Here
  <2> QED
    BY <2>1, UnloadOutcome DEF ImageOK
<1>3. /\ shell'.buf = u.shell.buf /\ shell'.lent = u.shell.lent
      /\ shell'.running = u.shell.running
      /\ shell'.state = Decided(roms) /\ shell'.prev = curr
  BY <1>1
<1> QED
  BY <1>1, <1>2, <1>3, DecidedLists DEF Ends, Idle

LEMMA ToSaveMenuFrame ==
  ASSUME ImageOK, shell.state = "RUNNING", KeepRoms, NEW curr, NEW list, ToSaveMenu(list, curr)
  PROVE  /\ Ends(curr) /\ shell'.state = "SAVE_MENU"
         /\ shell'.saveRom = shell.running
<1>1. PICK u \in Unload(Here) :
        /\ shell' = [u.shell EXCEPT !.status = Other, !.state = "SAVE_MENU",
                                    !.saveRom = shell.running, !.prev = curr]
        /\ nes' = u.nes
  BY Zenon DEF ToSaveMenu
<1>2. Idle(u.shell, u.nes)
  <2>1. Here.shell = shell /\ Here.nes = nes
    BY DEF Here
  <2> QED
    BY <2>1, UnloadOutcome DEF ImageOK
<1>3. /\ shell'.buf = u.shell.buf /\ shell'.lent = u.shell.lent
      /\ shell'.running = u.shell.running /\ shell'.saveRom = shell.running
      /\ shell'.state = "SAVE_MENU" /\ shell'.prev = curr
  BY <1>1
<1> QED
  BY <1>1, <1>2, <1>3 DEF Ends, Idle

LEMMA GameFrame ==
  ASSUME ImageOK, LoadedIsOwn, NEW curr, InGame(curr)
  PROVE  Ends(curr) \/ GoesOn(curr)
<1>0. shell.state = "RUNNING" /\ KeepRoms
  BY DEF InGame
<1>1. CASE Exit(curr)
  <2>1. ReturnToMenu(curr) \/ \E list : ToSaveMenu(list, curr)
    BY <1>1, Zenon DEF Exit
  <2> QED
    BY <1>0, <2>1, ReturnFrame, ToSaveMenuFrame
<1>2. CASE CreateSave(curr) /\ UNCHANGED <<menu, saveMenu, nes, battery>>
  BY <1>0, <1>2, SaveFrame
<1>3. ASSUME KeepStore, UNCHANGED <<menu, saveMenu, nes, battery>>,
             shell' = [shell EXCEPT !.prev = curr,
                  !.exitLatched = @ /\ ExitCombo \subseteq curr,
                  !.saveLatched = @ /\ (HasStore => SaveCombo \subseteq curr)]
      PROVE  GoesOn(curr)
  <2>1. /\ shell'.state = shell.state /\ shell'.buf = shell.buf /\ shell'.lent = shell.lent
        /\ shell'.running = shell.running /\ shell'.prev = curr
        /\ shell'.fromSave = shell.fromSave
    BY <1>3
  <2>2. shell'.fromSave => Own(blob', nes')
    BY <1>0, <1>3, <2>1, Zenon DEF LoadedIsOwn, Own, KeepStore
  <2> QED
    BY <1>0, <1>3, <2>1, <2>2, Zenon DEF GoesOn
<1> QED
  BY <1>1, <1>2, <1>3, Zenon DEF InGame

-----------------------------------------------------------------------------
(* The listing and what is on the flash.                                   *)
Places == Roms \cup {NotRom}

RomsOK ==
  /\ setup \in Setups
  /\ {roms, flash} \subseteq Seq(Places)
  /\ Platform = "pico" => roms \in Seq(Roms)
  /\ flash = FirstRoms \/ DOMAIN flash \in {{}, DOMAIN SdRoms}

LEMMA SetupLists ==
  ASSUME setup \in Setups
  PROVE  FirstRoms \in Seq(Roms) /\ SdRoms \in Seq(Roms)
BY ShellAssumption DEF FirstRoms, SdRoms

LEMMA RomsArePlaces ==
  ASSUME NEW s \in Seq(Roms)
  PROVE  s \in Seq(Places)
BY DEF Places

\* What a copy leaves that stopped at the n-th image with x of it.
Stopped(s, n, x) ==
  [i \in DOMAIN s |-> IF i < n THEN s[i] ELSE IF i = n THEN x ELSE NotRom]

LEMMA CopiedPlaces ==
  ASSUME NEW s \in Seq(Roms), NEW n, NEW x \in Places
  PROVE  Stopped(s, n, x) \in Seq(Places) /\ DOMAIN Stopped(s, n, x) = DOMAIN s
<1> DEFINE at(i) == IF i < n THEN s[i] ELSE IF i = n THEN x ELSE NotRom
<1>1. \A i \in 1 .. Len(s) : at(i) \in Places
  BY DEF Places
<1> HIDE DEF at
<1>2. [i \in 1 .. Len(s) |-> at(i)] \in Seq(Places)
  BY <1>1
<1>3. Stopped(s, n, x) = [i \in 1 .. Len(s) |-> at(i)]
  BY DEF Stopped, at
<1> QED
  BY <1>2, <1>3 DEF Stopped

LEMMA ListedRoms ==
  ASSUME RomsOK
  PROVE  /\ Listed(flash) \in Seq(Places)
         /\ Platform = "pico" => Listed(flash) \in Seq(Roms)
<1>1. DOMAIN flash = 1 .. Len(flash) /\ flash \in Seq(Places)
  BY DEF RomsOK
<1>2. FirstRoms \in Seq(Roms) /\ SdRoms \in Seq(Roms)
  BY SetupLists DEF RomsOK
<1>3. ASSUME Platform = "pico", NEW i \in 1 .. Len(flash)
      PROVE  (IF flash # FirstRoms THEN SdRoms[i] ELSE flash[i]) \in Roms
  <2>1. CASE flash = FirstRoms
    BY <1>1, <1>2, <1>3, <2>1
  <2>2. CASE flash # FirstRoms
    <3>1. i \in DOMAIN SdRoms
      BY <1>1, <1>3, <2>2, Zenon DEF RomsOK
    <3> QED
      BY <1>2, <2>2, <3>1
  <2> QED
    BY <2>1, <2>2
<1>4. CASE Platform = "pico"
  <2>1. Listed(flash) = [i \in 1 .. Len(flash) |-> IF flash # FirstRoms THEN SdRoms[i]
                                                                      ELSE flash[i]]
    BY <1>1, <1>4 DEF Listed
  <2>2. Listed(flash) \in Seq(Roms)
    BY <1>1, <1>3, <1>4, <2>1
  <2> QED
    BY <2>2, RomsArePlaces
<1>5. CASE Platform # "pico"
  <2>1. Listed(flash) = [i \in 1 .. Len(flash) |-> flash[i]]
    BY <1>1, <1>5 DEF Listed
  <2> QED
    BY <1>1, <1>5, <2>1
<1> QED
  BY <1>4, <1>5

LEMMA CopyRoms ==
  ASSUME RomsOK, UNCHANGED setup, NEW m, NEW curr, Copy(curr, m)
  PROVE  RomsOK'
<1>0. /\ setup' = setup /\ FirstRoms' = FirstRoms /\ SdRoms' = SdRoms
      /\ Platform' = Platform
  BY DEF FirstRoms, SdRoms, Platform
<1>1. SdRoms \in Seq(Roms) /\ SdRoms \in Seq(Places)
  BY SetupLists, RomsArePlaces DEF RomsOK
<1>2. roms' = SdRoms \/ roms' = roms
  BY DEF Copy, FreshRoms
<1>3. \/ flash' \in {SdRoms, flash}
      \/ \E n \in DOMAIN SdRoms : \E x \in PartsOf[SdRoms[n]] \cup {NotRom} :
           flash' = Stopped(SdRoms, n, x)
  BY Zenon DEF Copy, Stopped
<1>4. /\ flash' \in Seq(Places)
      /\ flash' = flash \/ DOMAIN flash' = DOMAIN SdRoms
  <2>1. CASE flash' \in {SdRoms, flash}
    BY <1>1, <2>1 DEF RomsOK
  <2>2. ASSUME NEW n \in DOMAIN SdRoms, NEW x \in PartsOf[SdRoms[n]] \cup {NotRom},
               flash' = Stopped(SdRoms, n, x)
        PROVE  flash' \in Seq(Places) /\ DOMAIN flash' = DOMAIN SdRoms
    <3>1. SdRoms[n] \in Roms
      BY <1>1
    <3>2. x \in Places
      BY <3>1, ShellAssumption DEF Places
    <3> QED
      BY <1>1, <2>2, <3>2, CopiedPlaces
  <2> QED
    BY <1>3, <2>1, <2>2
<1> QED
  BY <1>0, <1>1, <1>2, <1>4 DEF RomsOK

LEMMA RomsStep ==
  ASSUME RomsOK, [ShellNext]_allVars
  PROVE  RomsOK'
<1>1. ASSUME UNCHANGED setup, KeepRoms
      PROVE  RomsOK'
  BY <1>1 DEF RomsOK, KeepRoms, FirstRoms, SdRoms, Platform
<1>2. CASE UNCHANGED allVars
  BY <1>1, <1>2 DEF allVars, shellVars, KeepRoms
<1>3. ASSUME UNCHANGED setup, NEW curr, Begin(curr)
      PROVE  RomsOK'
  <2>1. CASE ConfirmErase(curr)
    <3>1. CASE flash' = <<>> /\ FreshRoms(<<>>, curr, Other)
      BY <1>3, <3>1 DEF RomsOK, FreshRoms, FirstRoms, SdRoms, Platform
    <3> QED
      BY <1>1, <1>3, <2>1, <3>1, Zenon DEF ConfirmErase
  <2>2. CASE ConfirmClear(curr) \/ ConfirmDelete(curr) \/ InSaveMenu(curr) \/ InGame(curr)
    BY <1>1, <1>3, <2>2, Zenon DEF ConfirmClear, ConfirmDelete, InSaveMenu, InGame
  <2>3. CASE InImport(curr)
    BY <1>1, <1>3, <2>3, CopyRoms, Zenon DEF InImport
  <2>4. CASE InMenu(curr)
    BY <1>1, <1>3, <2>4, CopyRoms, Zenon DEF InMenu
  <2> QED
    BY <1>3, <2>1, <2>2, <2>3, <2>4 DEF Begin
<1>4. ASSUME UNCHANGED setup, NEW b, NEW left, Restart(b, left)
      PROVE  RomsOK'
  <2>1. roms' = Listed(flash) /\ flash' = flash
    BY <1>4 DEF Restart
  <2> QED
    BY <1>4, <2>1, ListedRoms DEF RomsOK, FirstRoms, SdRoms, Platform
<1>5. ASSUME UNCHANGED setup,
             (\E curr : Poll(curr)) \/ Step \/ RequestReset \/ RequestMenu
      PROVE  RomsOK'
  BY <1>1, <1>5, Zenon DEF Poll, Step, RequestReset, RequestMenu
<1> QED
  BY <1>2, <1>3, <1>4, <1>5, Zenon DEF ShellNext, PowerCut, KilledInWrite, Quit

-----------------------------------------------------------------------------
(* The image that runs, over every step.                                   *)
ShellSound == RomsOK /\ ImageOK /\ LoadedIsOwn

LEMMA NewShellFields ==
  ASSUME NEW list
  PROVE  /\ NewShell(list).state \in {"MENU", "IMPORT"} /\ NewShell(list).buf = NotRom
         /\ NewShell(list).lent = 0 /\ NewShell(list).running = 0
         /\ NewShell(list).prev = Buttons
BY DecidedLists DEF NewShell

LEMMA SoundStart == ShellInit => ShellSound
<1> SUFFICES ASSUME ShellInit PROVE ShellSound
  OBVIOUS
<1>1. FirstRoms \in Seq(Roms)
  BY SetupLists DEF ShellInit
<1>2. RomsOK
  BY <1>1, RomsArePlaces DEF RomsOK, ShellInit
<1>3. shell = NewShell(FirstRoms) /\ nes = NoCart
  BY DEF ShellInit
<1>4. ImageOK /\ shell.state # "RUNNING"
  BY <1>3, NewShellFields DEF ImageOK, Idle, NoCart
<1> QED
  BY <1>2, <1>4, Zenon DEF ShellSound, LoadedIsOwn

(* A frame of the shell is one of the four kinds.                          *)
LEMMA FrameKinds ==
  ASSUME ShellSound, NEW curr, Begin(curr)
  PROVE  Stays(curr) \/ Starts(curr) \/ GoesOn(curr) \/ Ends(curr)
BY EraseStays, ClearStays, DeleteStays, SaveMenuFrame, ImportFrame, MenuFrame, GameFrame, Zenon
   DEF Begin, ShellSound

LEMMA SoundStep == ShellSound /\ [ShellNext]_allVars => ShellSound'
<1> SUFFICES ASSUME ShellSound, [ShellNext]_allVars PROVE ImageOK' /\ LoadedIsOwn'
  BY RomsStep DEF ShellSound
<1>0. ImageOK /\ LoadedIsOwn
  BY DEF ShellSound
<1>1. CASE UNCHANGED allVars
  BY <1>0, <1>1, Zenon DEF allVars, shellVars, vars, ImageOK, LoadedIsOwn, Busy, Idle
<1>2. ASSUME NEW curr, Begin(curr)
      PROVE  ImageOK' /\ LoadedIsOwn'
  <2>1. CASE Stays(curr)
    <3>1. shell'.state # "RUNNING"
      BY <2>1 DEF Stays, InLists
    <3> QED
      BY <2>1, <3>1, Zenon DEF Stays, ImageOK, LoadedIsOwn, Idle
  <2>2. CASE Starts(curr)
    BY <2>2, Zenon DEF Starts, KeepRoms, ImageOK, LoadedIsOwn, Own, Busy
  <2>3. CASE GoesOn(curr)
    BY <1>0, <2>3, Zenon DEF GoesOn, KeepRoms, ImageOK, LoadedIsOwn, Own, Busy
  <2>4. CASE Ends(curr)
    <3>1. shell'.state # "RUNNING"
      BY <2>4 DEF Ends
    <3> QED
      BY <2>4, <3>1, Zenon DEF Ends, ImageOK, LoadedIsOwn, Idle
  <2> QED
    BY <1>2, <2>1, <2>2, <2>3, <2>4, FrameKinds
<1>3. ASSUME nes'.cart = nes.cart, UNCHANGED <<shell, roms, blob>>
      PROVE  ImageOK' /\ LoadedIsOwn'
  BY <1>0, <1>3, Zenon DEF ImageOK, LoadedIsOwn, Busy, Idle
<1>4. CASE Step
  <2>1. nes'.cart = nes.cart
    BY <1>4 DEF Step
  <2> QED
    BY <1>3, <1>4, <2>1, Zenon DEF Step, KeepRoms, KeepStore
<1>5. CASE RequestReset
  <2>1. nes'.cart = nes.cart
    BY <1>5 DEF RequestReset
  <2> QED
    BY <1>3, <1>5, <2>1, Zenon DEF RequestReset, KeepRoms, KeepStore
<1>6. CASE \E curr : Poll(curr)
  BY <1>3, <1>6, Zenon DEF Poll, KeepRoms, KeepStore
<1>7. CASE RequestMenu
  <2>1. PICK u \in Unload(Here) :
          /\ shell' = [u.shell EXCEPT !.status = Other, !.state = Decided(roms),
                                      !.exitLatched = FALSE]
          /\ nes' = u.nes
    BY <1>7, Zenon DEF RequestMenu
  <2>2. Idle(u.shell, u.nes)
    <3>1. Here.shell = shell /\ Here.nes = nes
      BY DEF Here
    <3> QED
      BY <1>0, <3>1, UnloadOutcome DEF ImageOK
  <2>3. /\ shell'.buf = u.shell.buf /\ shell'.lent = u.shell.lent
        /\ shell'.running = u.shell.running /\ shell'.state = Decided(roms)
    BY <2>1
  <2>4. shell'.state # "RUNNING" /\ Idle(shell', nes')
    BY <2>1, <2>2, <2>3, DecidedLists DEF Idle
  <2> QED
    BY <2>4, Zenon DEF ImageOK, LoadedIsOwn, Idle
<1>8. ASSUME NEW b, NEW left, Restart(b, left)
      PROVE  ImageOK' /\ LoadedIsOwn'
  <2>1. shell' = NewShell(Listed(flash)) /\ nes' = NoCart
    BY <1>8 DEF Restart
  <2>2. shell'.state # "RUNNING" /\ Idle(shell', nes')
    BY <2>1, NewShellFields DEF Idle, NoCart
  <2> QED
    BY <2>2, Zenon DEF ImageOK, LoadedIsOwn, Idle
<1> QED
  BY <1>1, <1>2, <1>4, <1>5, <1>6, <1>7, <1>8, Zenon DEF ShellNext, PowerCut, KilledInWrite, Quit

(* The one image the source has given out is the one the cartridge points  *)
(* into, for exactly as long as a game runs: for every listing and every   *)
(* flash, over launches that fail half way, saves that do not apply, and   *)
(* images that go while the list still shows them.                         *)
THEOREM ImageIsLent == ShellSpec => []BufferIsCart
<1>1. ShellSound => BufferIsCart
  <2> SUFFICES ASSUME ShellSound PROVE BufferIsCart
    OBVIOUS
  <2>1. RomsOK /\ ImageOK
    BY DEF ShellSound
  <2>2. 0 \notin DOMAIN roms
    BY <2>1 DEF RomsOK
  <2>3. CASE shell.state = "RUNNING"
    <3>1. shell.running # 0 /\ nes.cart # NotRom
      BY <2>1, <2>2, <2>3 DEF ImageOK, Busy
    <3> QED
      BY <2>1, <2>3, <3>1 DEF BufferIsCart, ImageOK, Busy
  <2>4. CASE shell.state # "RUNNING"
    BY <2>1, <2>4 DEF BufferIsCart, ImageOK, Idle
  <2> QED
    BY <2>3, <2>4
<1> QED
  BY <1>1, SoundStart, SoundStep, PTL DEF ShellSpec

(* A game that stands on a save stands on a whole one of its own image.    *)
THEOREM SaveIsOwn == ShellSpec => []LoadedIsOwn
<1>1. ShellSound => LoadedIsOwn
  BY DEF ShellSound
<1> QED
  BY <1>1, SoundStart, SoundStep, PTL DEF ShellSpec

-----------------------------------------------------------------------------
(* Which frames change what is on the disk.                                *)

(* In the lists of saves the store is at the directory of the ROM whose    *)
(* list it is, and the buttons that count as held are those of the last    *)
(* frame; a dialog that deletes names the save it asks about.              *)
ListOK ==
  shell.state \in SaveStates =>
    /\ HasStore /\ shell.saveRom \in DOMAIN roms
    /\ store.dir = DirOf[roms[shell.saveRom]]
    /\ ghost.seen = shell.prev
    /\ shell.state = "CONFIRM_DELETE_SAVE" => ghost.asked = store.list[shell.pending]

(* A combo that would act has been seen released.                          *)
ComboOK ==
  shell.state = "RUNNING" =>
    /\ ~shell.exitLatched => ghost.exitFree
    /\ HasStore /\ ~shell.saveLatched => ghost.saveFree

ShellKept == ShellSound /\ DiskOK /\ ListOK /\ ComboOK

Recall(g, seen, exitFree, saveFree, mark, asked, left) ==
  [g EXCEPT !.seen = seen, !.exitFree = exitFree, !.saveFree = saveFree,
            !.mark = mark, !.asked = asked, !.left = left]

LEMMA RecallFields ==
  ASSUME NEW g, NEW seen, NEW exitFree, NEW saveFree, NEW mark, NEW asked, NEW left
  PROVE  /\ Recall(g, seen, exitFree, saveFree, mark, asked, left).seen = seen
         /\ Recall(g, seen, exitFree, saveFree, mark, asked, left).exitFree = exitFree
         /\ Recall(g, seen, exitFree, saveFree, mark, asked, left).saveFree = saveFree
         /\ Recall(g, seen, exitFree, saveFree, mark, asked, left).asked = asked
         /\ Recall(g, seen, exitFree, saveFree, mark, asked, left).left = left
BY DEF Recall

ExitSeen(curr) == shell.state = "RUNNING" /\ (ghost.exitFree \/ ~(ExitCombo \subseteq curr))

SaveSeen(curr) ==
  shell.state = "RUNNING" /\ ~(shell.state = "RUNNING" /\ NewNames # {})
  /\ (ghost.saveFree \/ ~(SaveCombo \subseteq curr))

AskedOf ==
  IF shell.state = "SAVE_MENU" /\ shell'.state = "CONFIRM_DELETE_SAVE"
  THEN store.list[shell'.pending]
  ELSE IF shell'.state = "CONFIRM_DELETE_SAVE" THEN ghost.asked ELSE Unknown

LeftWith ==
  IF shell.state = "RUNNING" /\ shell'.state # "RUNNING" THEN Left(battery') ELSE ghost.left

LEMMA RememberFields ==
  ASSUME NEW curr, Remember(curr)
  PROVE  /\ ghost'.seen = curr /\ ghost'.asked = AskedOf
         /\ ghost'.exitFree = ExitSeen(curr) /\ ghost'.saveFree = SaveSeen(curr)
         /\ ghost'.left = LeftWith
<1>1. PICK mark : ghost' = Recall(ghost, curr, ExitSeen(curr), SaveSeen(curr),
                                  mark, AskedOf, LeftWith)
  BY Zenon DEF Remember, Recall, ExitSeen, SaveSeen, AskedOf, LeftWith
<1> DEFINE x == ExitSeen(curr)
           y == SaveSeen(curr)
           z == AskedOf
           l == LeftWith
<1>2. ghost' = Recall(ghost, curr, x, y, mark, z, l)
  BY <1>1
<1> HIDE DEF x, y, z, l
<1>3. ghost'.seen = curr
  BY <1>2, RecallFields
<1>4. ghost'.asked = z
  BY <1>2, RecallFields
<1>5. ghost'.exitFree = x
  BY <1>2, RecallFields
<1>6. ghost'.saveFree = y
  BY <1>2, RecallFields
<1>7. ghost'.left = l
  BY <1>2, RecallFields
<1> QED
  BY <1>3, <1>4, <1>5, <1>6, <1>7 DEF x, y, z, l

LEMMA Directories ==
  ASSUME RomsOK
  PROVE  /\ ListOK /\ shell.state \in SaveStates => store.dir \in Dirs
         /\ ImageOK /\ shell.state = "RUNNING" /\ HasStore =>
              DirOf[roms[shell.running]] \in Dirs
<1>1. HasStore => roms \in Seq(Roms)
  BY DEF RomsOK, HasStore
<1>2. ASSUME HasStore, NEW i \in DOMAIN roms
      PROVE  DirOf[roms[i]] \in Dirs
  BY <1>1, <1>2, StoreAssumption
<1> QED
  BY <1>2 DEF ListOK, ImageOK

Emptied(curr) ==
  /\ "A" \in Pressed(curr)
  /\ \/ shell.state = "CONFIRM_CLEAR_SAVES" /\ \E T : TakesOut(disk, store.dir, T, disk')
     \/ /\ shell.state = "CONFIRM_DELETE_SAVE"
        /\ TakesOut(disk, store.dir, {store.list[shell.pending]}, disk')

Filled ==
  /\ shell.state = "RUNNING" /\ shell'.state = "RUNNING"
  /\ HasStore /\ ~shell.saveLatched /\ shell'.saveLatched
  /\ \A d \in Dirs : TimesIn(disk.files[d]) \subseteq TimesIn(disk'.files[d])

DialogKept == KeepRoms /\ store'.dir = store.dir

LEMMA DialogDisk ==
  ASSUME DiskOK, store.dir \in Dirs, NEW curr,
         ConfirmClear(curr) \/ ConfirmDelete(curr) \/ InSaveMenu(curr)
  PROVE  /\ DiskOK' /\ DialogKept
         /\ SameFiles(disk, disk') \/ Emptied(curr)
<1>1. CASE KeepStore /\ KeepRoms
  BY <1>1, Zenon DEF KeepStore, DiskOK, SameFiles, DialogKept
<1>2. ASSUME KeepRoms, shell.state = "CONFIRM_CLEAR_SAVES", "A" \in Pressed(curr),
             NEW q \in ClearOutcomes(disk, store), disk' = q.disk, store' = q.store
      PROVE  DiskOK' /\ DialogKept /\ Emptied(curr)
  <2>1. (\E T : TakesOut(disk, store.dir, T, q.disk)) /\ q.store.dir = store.dir
    BY <1>2, ClearOutcome DEF DiskOK
  <2> QED
    BY <1>2, <2>1, Zenon DEF DiskOK, DialogKept, Emptied, TakesOut
<1>3. ASSUME KeepRoms, shell.state = "CONFIRM_DELETE_SAVE", "A" \in Pressed(curr),
             NEW q \in DeleteOutcomes(disk, store, shell.pending),
             disk' = q.disk, store' = q.store
      PROVE  DiskOK' /\ DialogKept /\ Emptied(curr)
  <2>1. /\ TakesOut(disk, store.dir, {store.list[shell.pending]}, q.disk)
        /\ q.store.dir = store.dir
    <3>1. DOMAIN disk.files = Dirs
      BY DEF DiskOK
    <3>2. Deleted(disk, store, shell.pending, q)
      BY <1>3, <3>1, DeleteOutcome
    <3> QED
      BY <3>2, Zenon DEF Deleted
  <2> QED
    BY <1>3, <2>1, Zenon DEF DiskOK, DialogKept, Emptied, TakesOut
<1>4. ASSUME KeepRoms, NEW i, NEW l \in LoadOutcomes(disk, store, i, blob),
             disk' = l.disk, store' = store
      PROVE  DiskOK' /\ DialogKept /\ SameFiles(disk, disk')
  <2>1. SameFiles(disk, l.disk)
    BY <1>4, LoadOutcome
  <2> QED
    BY <1>4, <2>1, Zenon DEF DiskOK, DialogKept, SameFiles
<1>5. CASE ConfirmClear(curr)
  BY <1>1, <1>2, <1>5, Zenon DEF ConfirmClear
<1>6. CASE ConfirmDelete(curr)
  BY <1>1, <1>3, <1>6, Zenon DEF ConfirmDelete
<1>7. CASE InSaveMenu(curr)
  BY <1>1, <1>4, <1>7, Zenon DEF InSaveMenu, LoadSave
<1> QED
  BY <1>5, <1>6, <1>7

(* The frames of a game.                                                   *)
Ticked(s, p, x, y) == [s EXCEPT !.prev = p, !.exitLatched = x, !.saveLatched = y]

Stored(s, x, p, f, tm) ==
  [s EXCEPT !.exitLatched = x, !.saveLatched = TRUE, !.prev = p, !.fromSave = f,
            !.loadedTime = tm, !.status = Other]

LEMMA TickedFields ==
  ASSUME NEW s, NEW p, NEW x, NEW y
  PROVE  /\ Ticked(s, p, x, y).exitLatched = x /\ Ticked(s, p, x, y).saveLatched = y
         /\ Ticked(s, p, x, y).state = s.state
BY DEF Ticked

LEMMA StoredFields ==
  ASSUME NEW s, NEW x, NEW p, NEW f, NEW tm
  PROVE  /\ Stored(s, x, p, f, tm).exitLatched = x
         /\ Stored(s, x, p, f, tm).state = s.state
BY DEF Stored

LEMMA StoredLatched ==
  ASSUME NEW s, NEW x, NEW p, NEW f, NEW tm
  PROVE  Stored(s, x, p, f, tm).saveLatched = TRUE
BY DEF Stored

(* A combo stops counting as held when it is seen released, and the one    *)
(* that saved counts as held.                                              *)
LatchedOn(curr) ==
  /\ ~shell'.exitLatched => ~shell.exitLatched \/ ~(ExitCombo \subseteq curr)
  /\ HasStore /\ ~shell'.saveLatched =>
       SameFiles(disk, disk') /\ (~shell.saveLatched \/ ~(SaveCombo \subseteq curr))

LEMMA SaveDisk ==
  ASSUME RomsOK, ImageOK, DiskOK, shell.state = "RUNNING", HasStore, ~shell.saveLatched,
         NEW curr, CreateSave(curr)
  PROVE  DiskOK' /\ Filled /\ LatchedOn(curr)
<1> DEFINE b == [time |-> nes.time, rom |-> shell.buf, game |-> nes.ram, whole |-> TRUE]
           x == shell.exitLatched /\ ExitCombo \subseteq curr
           From(q) == IF q.ok THEN TRUE ELSE shell.fromSave
           Time(q) == IF q.ok THEN q.blob.time ELSE shell.loadedTime
<1>1. PICK r \in RefreshOutcomes(disk, roms[shell.running]) :
        \E q \in SaveOutcomes(r.disk, r.store, b) :
          /\ disk' = q.disk
          /\ shell' = Stored(shell, x, curr, From(q), Time(q))
  BY Zenon DEF CreateSave, Stored
<1>2. PICK q \in SaveOutcomes(r.disk, r.store, b) :
          /\ disk' = q.disk
          /\ shell' = Stored(shell, x, curr, From(q), Time(q))
  BY <1>1
<1>3. /\ DOMAIN r.disk.files = Dirs /\ r.disk.files = disk.files
      /\ r.store.dir \in Dirs
  <2>1. SameFiles(disk, r.disk) /\ r.store.dir = DirOf[roms[shell.running]]
    BY RefreshOutcome
  <2>2. DirOf[roms[shell.running]] \in Dirs
    BY Directories
  <2> QED
    BY <2>1, <2>2 DEF SameFiles, DiskOK
<1> DEFINE f == From(q)
           tm == Time(q)
<1>a. disk' = q.disk /\ shell' = Stored(shell, x, curr, f, tm)
  BY <1>2
<1> HIDE DEF b, x, f, tm
<1>4. /\ DOMAIN q.disk.files = Dirs
      /\ \A d \in Dirs : TimesIn(r.disk.files[d]) \subseteq TimesIn(q.disk.files[d])
  BY <1>3, SaveOutcome
<1>b. shell'.exitLatched = x
  BY <1>a, StoredFields
<1>c. shell'.saveLatched = TRUE
  BY <1>a, StoredLatched
<1>d. shell'.state = shell.state
  BY <1>a, StoredFields
<1>5. shell'.exitLatched = x /\ shell'.saveLatched = TRUE /\ shell'.state = shell.state
  BY <1>b, <1>c, <1>d
<1>6. DiskOK' /\ Filled
  <2>1. disk' = q.disk
    BY <1>2
  <2>2. \A d \in Dirs : TimesIn(disk.files[d]) \subseteq TimesIn(disk'.files[d])
    BY <1>3, <1>4, <2>1
  <2>3. DiskOK'
    BY <1>4, <2>1 DEF DiskOK
  <2>4. shell'.saveLatched
    BY <1>5, Zenon
  <2> QED
    BY <1>5, <2>2, <2>3, <2>4, Zenon DEF Filled
<1> QED
  BY <1>5, <1>6, Zenon DEF LatchedOn, x

(* The list that follows a game is of the ROM that ran.                    *)
ListOfGame ==
  /\ HasStore /\ shell'.state = "SAVE_MENU"
  /\ shell'.saveRom = shell.running /\ store'.dir = DirOf[roms[shell.running]]

LEMMA ExitDisk ==
  ASSUME ImageOK, DiskOK, shell.state = "RUNNING", KeepRoms, NEW curr, Exit(curr)
  PROVE  /\ DiskOK' /\ SameFiles(disk, disk') /\ shell'.state # "RUNNING"
         /\ shell'.state \in SaveStates => ListOfGame
<1>1. ASSUME ReturnToMenu(curr)
      PROVE  shell'.state # "RUNNING" /\ shell'.state \notin SaveStates
  BY <1>1, ReturnFrame DEF Ends, SaveStates
<1>2. CASE ~HasStore
  <2>1. ReturnToMenu(curr) /\ UNCHANGED <<disk, store>>
    BY <1>2, Zenon DEF Exit
  <2> QED
    BY <1>1, <2>1, Zenon DEF DiskOK, SameFiles
<1>3. CASE HasStore
  <2>1. PICK r \in RefreshOutcomes(disk, roms[shell.running]) :
          /\ disk' = r.disk /\ store' = r.store
          /\ ReturnToMenu(curr) \/ ToSaveMenu(r.store.list, curr)
    BY <1>3, Zenon DEF Exit
  <2>2. SameFiles(disk, r.disk) /\ r.store.dir = DirOf[roms[shell.running]]
    BY RefreshOutcome
  <2>3. DiskOK' /\ SameFiles(disk, disk') /\ store'.dir = DirOf[roms[shell.running]]
    BY <2>1, <2>2, Zenon DEF DiskOK, SameFiles
  <2>4. CASE ToSaveMenu(r.store.list, curr)
    <3>1. /\ shell'.state = "SAVE_MENU" /\ shell'.saveRom = shell.running
      BY <2>4, ToSaveMenuFrame
    <3> QED
      BY <1>3, <2>3, <3>1 DEF ListOfGame
  <2> QED
    BY <1>1, <2>1, <2>3, <2>4
<1> QED
  BY <1>2, <1>3

LEMMA GameDisk ==
  ASSUME RomsOK, ImageOK, DiskOK, NEW curr, InGame(curr)
  PROVE  /\ DiskOK'
         /\ SameFiles(disk, disk') \/ Filled
         /\ shell'.state # "RUNNING" => ~shell.exitLatched /\ SameFiles(disk, disk')
         /\ shell'.state = "RUNNING" => LatchedOn(curr)
         /\ shell'.state \in SaveStates => ListOfGame
<1>0. shell.state = "RUNNING" /\ KeepRoms /\ "RUNNING" \notin SaveStates
  BY DEF InGame, SaveStates
<1>1. CASE ~shell.exitLatched /\ Exit(curr)
  BY <1>0, <1>1, ExitDisk
<1>2. CASE HasStore /\ ~shell.saveLatched /\ CreateSave(curr)
  <2>1. DiskOK' /\ Filled /\ LatchedOn(curr)
    BY <1>0, <1>2, SaveDisk
  <2>2. shell'.state = "RUNNING"
    BY <2>1 DEF Filled
  <2> QED
    BY <1>0, <2>1, <2>2
<1>3. ASSUME KeepStore,
             shell' = [shell EXCEPT !.prev = curr,
                  !.exitLatched = @ /\ ExitCombo \subseteq curr,
                  !.saveLatched = @ /\ (HasStore => SaveCombo \subseteq curr)]
      PROVE  /\ DiskOK' /\ SameFiles(disk, disk')
             /\ shell'.state = "RUNNING" /\ LatchedOn(curr)
  <2> DEFINE x == shell.exitLatched /\ ExitCombo \subseteq curr
             y == shell.saveLatched /\ (HasStore => SaveCombo \subseteq curr)
  <2>1. shell' = Ticked(shell, curr, x, y)
    BY <1>3, Zenon DEF Ticked
  <2>2. DiskOK' /\ SameFiles(disk, disk')
    BY <1>3, Zenon DEF KeepStore, DiskOK, SameFiles
  <2> HIDE DEF x, y
  <2>3. shell'.exitLatched = x
    BY <2>1, TickedFields
  <2>4. shell'.saveLatched = y
    BY <2>1, TickedFields
  <2>5. shell'.state = shell.state
    BY <2>1, TickedFields
  <2> QED
    BY <1>0, <2>2, <2>3, <2>4, <2>5, Zenon DEF LatchedOn, x, y
<1>4. \/ ~shell.exitLatched /\ Exit(curr)
      \/ HasStore /\ ~shell.saveLatched /\ CreateSave(curr)
      \/ /\ KeepStore
         /\ shell' = [shell EXCEPT !.prev = curr,
                  !.exitLatched = @ /\ ExitCombo \subseteq curr,
                  !.saveLatched = @ /\ (HasStore => SaveCombo \subseteq curr)]
  BY Zenon DEF InGame
<1> QED
  BY <1>0, <1>1, <1>2, <1>3, <1>4

(* The disk, over a frame.                                                 *)
LEMMA BeginDisk ==
  ASSUME ShellKept, NEW curr, Begin(curr)
  PROVE  /\ DiskOK'
         /\ SameFiles(disk, disk') \/ Emptied(curr) \/ Filled
<1>0. DiskOK /\ ListOK /\ RomsOK /\ ImageOK
  BY DEF ShellKept, ShellSound
<1>1. CASE KeepStore
  BY <1>0, <1>1, Zenon DEF KeepStore, DiskOK, SameFiles
<1>2. CASE ConfirmClear(curr) \/ ConfirmDelete(curr) \/ InSaveMenu(curr)
  <2>1. shell.state \in SaveStates
    BY <1>2 DEF ConfirmClear, ConfirmDelete, InSaveMenu, SaveStates
  <2>2. store.dir \in Dirs
    BY <1>0, <2>1, Directories
  <2> QED
    BY <1>0, <1>2, <2>2, DialogDisk
<1>3. CASE InGame(curr)
  BY <1>0, <1>3, GameDisk
<1> QED
  BY <1>1, <1>2, <1>3, Zenon DEF Begin, ConfirmErase, InImport, InMenu

(* The dialog that deletes keeps the save it names.                        *)
Answered(s, p, st, x)   == [s EXCEPT !.prev = p, !.state = st, !.status = x]
AnsweredTo(s, p, st, x, n) ==
  [s EXCEPT !.prev = p, !.state = st, !.status = x, !.pending = n]

LEMMA AnsweredFields ==
  ASSUME NEW s, NEW p, NEW st, NEW x
  PROVE  Answered(s, p, st, x).state = st
BY DEF Answered

LEMMA AnsweredToFields ==
  ASSUME NEW s, NEW p, NEW st, NEW x, NEW n
  PROVE  AnsweredTo(s, p, st, x, n).state = st /\ AnsweredTo(s, p, st, x, n).pending = n
BY DEF AnsweredTo

LEMMA DialogAsks ==
  ASSUME NEW curr, ConfirmClear(curr) \/ ConfirmDelete(curr) \/ InSaveMenu(curr),
         shell'.state = "CONFIRM_DELETE_SAVE"
  PROVE  /\ store' = store
         /\ shell.state # "SAVE_MENU" =>
              shell.state = "CONFIRM_DELETE_SAVE" /\ shell'.pending = shell.pending
<1>1. CASE ConfirmClear(curr)
  <2>1. shell.state = "CONFIRM_CLEAR_SAVES"
    BY <1>1 DEF ConfirmClear
  <2>2. CASE "A" \in Pressed(curr)
    <3>1. shell' = [shell EXCEPT !.fromSave = FALSE, !.status = Other,
                                 !.state = Decided(roms), !.prev = curr]
      BY <1>1, <2>2, Zenon DEF ConfirmClear
    <3>2. shell'.state = Decided(roms)
      BY <3>1
    <3> QED
      BY <3>2, DecidedLists
  <2>3. CASE "A" \notin Pressed(curr)
    <3>1. PICK st, x : /\ shell' = Answered(shell, curr, st, x)
                       /\ st = IF "B" \in Pressed(curr) THEN "SAVE_MENU" ELSE shell.state
      BY <1>1, <2>3, Zenon DEF ConfirmClear, Answered
    <3> QED
      BY <2>1, <3>1, AnsweredFields
  <2> QED
    BY <2>2, <2>3
<1>2. CASE ConfirmDelete(curr)
  <2>1. shell.state = "CONFIRM_DELETE_SAVE"
    BY <1>2 DEF ConfirmDelete
  <2>2. CASE "A" \in Pressed(curr)
    <3>1. shell' = [shell EXCEPT !.status = Other, !.state = "SAVE_MENU",
                                 !.pending = 0, !.prev = curr]
      BY <1>2, <2>2, Zenon DEF ConfirmDelete
    <3>2. shell'.state = "SAVE_MENU"
      BY <3>1
    <3> QED
      BY <3>2
  <2>3. CASE "A" \notin Pressed(curr)
    <3>1. PICK st, x, n :
            /\ shell' = AnsweredTo(shell, curr, st, x, n)
            /\ st = IF "B" \in Pressed(curr) THEN "SAVE_MENU" ELSE shell.state
            /\ n = IF "B" \in Pressed(curr) THEN 0 ELSE shell.pending
      BY <1>2, <2>3, Zenon DEF ConfirmDelete, AnsweredTo
    <3>2. store' = store
      BY <1>2, <2>3, Zenon DEF ConfirmDelete, KeepStore
    <3> QED
      BY <2>1, <3>1, <3>2, AnsweredToFields
  <2> QED
    BY <2>2, <2>3
<1>3. CASE InSaveMenu(curr)
  BY <1>3, Zenon DEF InSaveMenu, LoadSave, KeepStore
<1> QED
  BY <1>1, <1>2, <1>3

LEMMA ListFrame ==
  ASSUME ShellKept, setup' = setup, NEW curr, Begin(curr)
  PROVE  ListOK'
<1> SUFFICES ASSUME shell'.state \in SaveStates PROVE ListOK'
  BY Zenon DEF ListOK
<1>0. DiskOK /\ ListOK /\ RomsOK /\ ImageOK
  BY DEF ShellKept, ShellSound
<1>1. HasStore' = HasStore
  BY DEF HasStore, Platform, SdCard
<1>2. ghost'.seen = curr /\ ghost'.asked = AskedOf
  BY RememberFields, Zenon DEF Begin
<1>3. Stays(curr) \/ Ends(curr)
  <2>1. shell'.state # "RUNNING"
    BY DEF SaveStates
  <2> QED
    BY <2>1, FrameKinds, Zenon DEF ShellKept, Starts, GoesOn
<1>4. CASE Stays(curr)
  <2>1. /\ shell.state \in SaveStates /\ shell'.saveRom = shell.saveRom
        /\ shell'.prev = curr
    BY <1>4 DEF Stays
  <2>2. /\ HasStore /\ shell.saveRom \in DOMAIN roms
        /\ store.dir = DirOf[roms[shell.saveRom]]
        /\ shell.state = "CONFIRM_DELETE_SAVE" => ghost.asked = store.list[shell.pending]
    BY <1>0, <2>1 DEF ListOK
  <2>3. ConfirmClear(curr) \/ ConfirmDelete(curr) \/ InSaveMenu(curr)
    BY <2>1 DEF Begin, SaveStates, ConfirmErase, InImport, InMenu, InGame
  <2>4. store.dir \in Dirs
    BY <1>0, <2>1, Directories
  <2>5. KeepRoms /\ store'.dir = store.dir
    BY <1>0, <2>3, <2>4, DialogDisk DEF DialogKept
  <2>6. ASSUME shell'.state = "CONFIRM_DELETE_SAVE"
        PROVE  ghost'.asked = store'.list[shell'.pending]
    <3>1. /\ store' = store
          /\ shell.state # "SAVE_MENU" =>
               shell.state = "CONFIRM_DELETE_SAVE" /\ shell'.pending = shell.pending
      BY <2>3, <2>6, DialogAsks
    <3> QED
      BY <1>2, <2>2, <2>6, <3>1 DEF AskedOf
  <2> QED
    BY <1>1, <1>2, <2>1, <2>2, <2>5, <2>6 DEF ListOK, KeepRoms
<1>5. CASE Ends(curr)
  <2>1. shell.state = "RUNNING" /\ shell'.prev = curr /\ KeepRoms
    BY <1>5 DEF Ends
  <2>2. InGame(curr)
    BY <2>1 DEF Begin, ConfirmErase, ConfirmClear, ConfirmDelete, InSaveMenu, InImport, InMenu
  <2>3. ListOfGame
    BY <1>0, <2>2, GameDisk
  <2>4. shell.running \in DOMAIN roms
    BY <1>0, <2>1 DEF ImageOK
  <2> QED
    BY <1>1, <1>2, <2>1, <2>3, <2>4 DEF ListOK, ListOfGame, KeepRoms
<1> QED
  BY <1>3, <1>4, <1>5

LEMMA SameNames ==
  ASSUME SameFiles(disk, disk')
  PROVE  NewNames = {}
BY DEF SameFiles, NewNames

LEMMA ComboFrame ==
  ASSUME ShellKept, setup' = setup, NEW curr, Begin(curr)
  PROVE  ComboOK'
<1> SUFFICES ASSUME shell'.state = "RUNNING" PROVE ComboOK'
  BY Zenon DEF ComboOK
<1>0. DiskOK /\ ComboOK /\ RomsOK /\ ImageOK
  BY DEF ShellKept, ShellSound
<1>1. HasStore' = HasStore
  BY DEF HasStore, Platform, SdCard
<1>2. ghost'.exitFree = ExitSeen(curr)
  BY RememberFields, Zenon DEF Begin
<1>3. ghost'.saveFree = SaveSeen(curr)
  BY RememberFields, Zenon DEF Begin
<1>4. CASE shell.state = "RUNNING"
  <2>1. InGame(curr)
    BY <1>4 DEF Begin, ConfirmErase, ConfirmClear, ConfirmDelete, InSaveMenu, InImport, InMenu
  <2>2. LatchedOn(curr)
    BY <1>0, <2>1, GameDisk
  <2>3. ~shell'.exitLatched => ghost'.exitFree
    BY <1>0, <1>2, <1>4, <2>2, Zenon DEF ComboOK, LatchedOn, ExitSeen
  <2>4. HasStore /\ ~shell'.saveLatched => ghost'.saveFree
    BY <1>0, <1>3, <1>4, <2>2, SameNames, Zenon DEF ComboOK, LatchedOn, SaveSeen
  <2> QED
    BY <1>1, <2>3, <2>4, Zenon DEF ComboOK
<1>5. CASE shell.state # "RUNNING"
  <2>1. Starts(curr)
    <3>1. ~Stays(curr)
      BY DEF Stays, InLists
    <3> QED
      BY <1>5, <3>1, FrameKinds, Zenon DEF ShellKept, GoesOn, Ends
  <2> QED
    BY <2>1, Zenon DEF Starts, ComboOK
<1> QED
  BY <1>4, <1>5

(* Outside the frames of the shell nothing on the disk changes, and a game *)
(* goes on or the lists start anew with every button seen.                 *)
OutsideFrames ==
  /\ SameFiles(disk, disk')
  /\ \/ UNCHANGED <<shell, store, ghost, roms>>
     \/ shell'.state \in {"MENU", "IMPORT"} /\ ghost'.seen = Buttons

LEMMA Outside ==
  ASSUME [ShellNext]_allVars, ~\E curr : Begin(curr)
  PROVE  OutsideFrames /\ setup' = setup
<1>0. setup' = setup
  BY Zenon DEF ShellNext, allVars, shellVars
<1> SUFFICES OutsideFrames
  BY <1>0
<1>a. ASSUME UNCHANGED <<disk, store, shell, ghost, roms>>
      PROVE  OutsideFrames
  BY <1>a DEF OutsideFrames, SameFiles
<1>1. CASE UNCHANGED allVars
  BY <1>1, Zenon DEF allVars, shellVars, vars, OutsideFrames, SameFiles
<1>2. CASE Step
  BY <1>a, <1>2, Zenon DEF Step, KeepRoms, KeepStore
<1>3. CASE RequestReset
  BY <1>a, <1>3, Zenon DEF RequestReset, KeepRoms, KeepStore
<1>4. CASE \E curr : Poll(curr)
  BY <1>a, <1>4, Zenon DEF Poll, KeepRoms, KeepStore
<1>5. CASE RequestMenu
  <2>1. PICK u, left :
          /\ shell' = [u.shell EXCEPT !.status = Other, !.state = Decided(roms),
                                      !.exitLatched = FALSE]
          /\ ghost' = [ghost EXCEPT !.seen = Buttons, !.left = left]
    BY <1>5, Zenon DEF RequestMenu
  <2>2. shell'.state = Decided(roms) /\ ghost'.seen = Buttons
    BY <2>1
  <2>3. SameFiles(disk, disk')
    BY <1>5, Zenon DEF RequestMenu, KeepStore, SameFiles
  <2> QED
    BY <2>2, <2>3, DecidedLists, Zenon DEF OutsideFrames
<1>6. ASSUME NEW b, NEW left, Restart(b, left)
      PROVE  OutsideFrames
  <2>1. shell' = NewShell(Listed(flash)) /\ ghost' = [NoHistory EXCEPT !.left = left]
    BY <1>6, Zenon DEF Restart
  <2>2. ghost'.seen = Buttons
    BY <2>1 DEF NoHistory
  <2>3. SameFiles(disk, disk')
    BY <1>6, Zenon DEF Restart, SameFiles
  <2> QED
    BY <2>1, <2>2, <2>3, NewShellFields DEF OutsideFrames
<1> QED
  BY <1>1, <1>2, <1>3, <1>4, <1>5, <1>6, Zenon DEF ShellNext, PowerCut, KilledInWrite, Quit

LEMMA KeptStart == ShellInit => ShellKept
<1> SUFFICES ASSUME ShellInit PROVE DiskOK /\ ListOK /\ ComboOK
  BY SoundStart DEF ShellKept
<1>1. DiskOK
  BY DEF ShellInit, DiskOK, EmptyDisk, NoFiles
<1>2. shell.state \in {"MENU", "IMPORT"}
  BY NewShellFields DEF ShellInit
<1> QED
  BY <1>1, <1>2 DEF ListOK, ComboOK, SaveStates

LEMMA KeptStep == ShellKept /\ [ShellNext]_allVars => ShellKept'
<1> SUFFICES ASSUME ShellKept, [ShellNext]_allVars PROVE DiskOK' /\ ListOK' /\ ComboOK'
  BY SoundStep DEF ShellKept
<1>1. setup' = setup
  BY Zenon DEF ShellNext, allVars, shellVars
<1>2. ASSUME NEW curr, Begin(curr)
      PROVE  DiskOK' /\ ListOK' /\ ComboOK'
  BY <1>1, <1>2, BeginDisk, ListFrame, ComboFrame
<1>3. CASE OutsideFrames
  <2>1. DiskOK'
    BY <1>3 DEF OutsideFrames, ShellKept, DiskOK, SameFiles
  <2>2. CASE UNCHANGED <<shell, store, ghost, roms>>
    <3>1. HasStore' = HasStore
      BY <1>1 DEF HasStore, Platform, SdCard
    <3> QED
      BY <2>1, <2>2, <3>1, Zenon DEF ShellKept, ListOK, ComboOK
  <2>3. CASE shell'.state \in {"MENU", "IMPORT"}
    BY <2>1, <2>3 DEF ListOK, ComboOK, SaveStates
  <2> QED
    BY <1>3, <2>2, <2>3, Zenon DEF OutsideFrames
<1> QED
  BY <1>2, <1>3, Outside, Zenon

(* What a frame loses and what it adds.                                    *)
LEMMA EmptiedAddsNone ==
  ASSUME NEW curr, Emptied(curr)
  PROVE  NewNames = {}
<1>1. PICK T : TakesOut(disk, store.dir, T, disk')
  BY Zenon DEF Emptied
<1>2. ASSUME NEW d \in Dirs
      PROVE  TimesIn(disk'.files[d]) \subseteq TimesIn(disk.files[d])
  <2>1. CASE d = store.dir
    BY <1>1, <2>1, Zenon DEF TakesOut
  <2>2. CASE d # store.dir
    <3>1. disk'.files[d] = disk.files[d]
      BY <1>1, <2>2 DEF TakesOut
    <3> QED
      BY <3>1
  <2> QED
    BY <2>1, <2>2
<1> QED
  BY <1>2 DEF NewNames

(* The exit combo ends a game only after it was seen released in it, and   *)
(* the save combo saves only after it was released since the game started  *)
(* and since the last save: the two latches are never open too early.      *)
THEOREM CombosOnce == ShellSpec => ComboReleased
<1> DEFINE A == /\ shell.state = "RUNNING" /\ shell'.state # "RUNNING" /\ ghost'.seen # Buttons
                     => ghost.exitFree
                /\ NewNames # {} => ghost.saveFree
<1>1. ASSUME ShellKept, [ShellNext]_allVars
      PROVE  A
  <2>0. RomsOK /\ ImageOK /\ DiskOK /\ ComboOK
    BY <1>1 DEF ShellKept, ShellSound
  <2>1. ASSUME NEW curr, Begin(curr)
        PROVE  A
    <3>1. CASE Filled
      <4>1. ghost.saveFree /\ shell'.state = "RUNNING"
        BY <2>0, <3>1, Zenon DEF Filled, ComboOK
      <4> QED
        BY <4>1, Zenon
    <3>2. CASE SameFiles(disk, disk') \/ Emptied(curr)
      <4>1. NewNames = {}
        BY <3>2, SameNames, EmptiedAddsNone
      <4>2. ASSUME shell.state = "RUNNING", shell'.state # "RUNNING"
            PROVE  ghost.exitFree
        <5>1. InGame(curr)
          BY <2>1, <4>2 DEF Begin, ConfirmErase, ConfirmClear, ConfirmDelete, InSaveMenu,
                            InImport, InMenu
        <5>2. ~shell.exitLatched
          BY <2>0, <4>2, <5>1, GameDisk, Zenon
        <5> QED
          BY <2>0, <4>2, <5>2, Zenon DEF ComboOK
      <4> QED
        BY <4>1, <4>2, Zenon
    <3> QED
      BY <1>1, <2>1, <3>1, <3>2, BeginDisk
  <2>2. CASE OutsideFrames
    <3>1. NewNames = {}
      BY <2>2, SameNames, Zenon DEF OutsideFrames
    <3>2. shell' = shell \/ ghost'.seen = Buttons
      BY <2>2, Zenon DEF OutsideFrames
    <3> QED
      BY <3>1, <3>2, Zenon
  <2> QED
    BY <1>1, <2>1, <2>2, Outside, Zenon
<1> QED
  BY <1>1, KeptStart, KeptStep, PTL DEF ShellSpec, ComboReleased

(* The name of a save goes from its directory only when a dialog on the    *)
(* screen is answered with a fresh A: those of the ROM's directory, or the *)
(* one that the dialog named when it opened.  No save, load, refresh,      *)
(* import, reset or power cut takes a name away; what a save under a name  *)
(* that is taken does to the file is SavesAreKept's matter.                *)
THEOREM SavesAskedFor == ShellSpec => OnlyAskedIsLost
<1> DEFINE Lost(d) == TimesIn(disk.files[d]) \ TimesIn(disk'.files[d])
           Asked(d) == /\ "A" \in ghost'.seen \ ghost.seen /\ d = store.dir
                       /\ \/ shell.state = "CONFIRM_CLEAR_SAVES"
                          \/ shell.state = "CONFIRM_DELETE_SAVE" /\ Lost(d) = {ghost.asked}
<1>1. ASSUME ShellKept, [ShellNext]_allVars, NEW d \in Dirs, Lost(d) # {}
      PROVE  Asked(d)
  <2>1. ~SameFiles(disk, disk')
    BY <1>1 DEF SameFiles
  <2>2. PICK curr : Begin(curr)
    BY <1>1, <2>1, Outside, Zenon DEF OutsideFrames
  <2>3. Emptied(curr)
    <3>1. ~Filled
      BY <1>1, Zenon DEF Filled
    <3> QED
      BY <1>1, <2>1, <2>2, <3>1, BeginDisk
  <2>4. ghost'.seen = curr
    BY <2>2, RememberFields, Zenon DEF Begin
  <2>5. shell.state \in SaveStates
    BY <2>3 DEF Emptied, SaveStates
  <2>6. /\ ghost.seen = shell.prev
        /\ shell.state = "CONFIRM_DELETE_SAVE" => ghost.asked = store.list[shell.pending]
    BY <1>1, <2>5 DEF ShellKept, ListOK
  <2>7. "A" \in ghost'.seen \ ghost.seen
    BY <2>3, <2>4, <2>6 DEF Emptied, Pressed
  <2>8. ASSUME NEW T, TakesOut(disk, store.dir, T, disk')
        PROVE  d = store.dir /\ Lost(d) \subseteq T
    <3>1. d = store.dir
      BY <1>1, <2>8 DEF TakesOut
    <3> QED
      BY <2>8, <3>1, Zenon DEF TakesOut
  <2>9. CASE shell.state = "CONFIRM_CLEAR_SAVES"
    BY <2>3, <2>7, <2>8, <2>9, Zenon DEF Emptied
  <2>10. CASE shell.state = "CONFIRM_DELETE_SAVE"
    <3>1. TakesOut(disk, store.dir, {store.list[shell.pending]}, disk')
      BY <2>3, <2>10 DEF Emptied
    <3>2. d = store.dir /\ Lost(d) \subseteq {ghost.asked}
      BY <2>6, <2>8, <2>10, <3>1
    <3>3. Lost(d) = {ghost.asked}
      BY <1>1, <3>2
    <3> QED
      BY <2>7, <2>10, <3>2, <3>3
  <2> QED
    BY <2>3, <2>9, <2>10, Zenon DEF Emptied
<1>2. ShellKept /\ [ShellNext]_allVars => \A d \in Dirs : Lost(d) # {} => Asked(d)
  BY <1>1
<1> QED
  BY <1>2, KeptStart, KeptStep, PTL DEF ShellSpec, OnlyAskedIsLost

-----------------------------------------------------------------------------
(* The batteries of the host.                                              *)

\* What of a battery file may be lost where files can fail.
Lossy == IF Faulty THEN {Blank, Torn} ELSE {}

\* The battery files hold what a game was left with, or what failed of it.
KeptIn(b, left) ==
  /\ DOMAIN b.ram = Savs /\ DOMAIN left = Savs
  /\ \A v \in Savs : b.ram[v] \in left[v] \cup Lossy

(* The host has one listing, and its battery files hold what the games     *)
(* they belong to were left with.                                          *)
HostOK ==
  /\ roms = FirstRoms /\ flash = FirstRoms
  /\ shell.state \in {"MENU", "RUNNING"}
  /\ shell.state = "RUNNING" => nes.cart = roms[shell.running]
  /\ KeptIn(battery, ghost.left)

BatteryOK == Platform = "host" => HostOK

LEMMA HostHas ==
  ASSUME Platform = "host"
  PROVE  /\ ~FlashActions /\ ~HasImport /\ ~HasStore
         /\ \A list : Decided(list) = "MENU"
BY DEF FlashActions, HasImport, HasStore, Decided

LEMMA HostLaunch ==
  ASSUME HostOK, Platform = "host", NEW i, NEW w \in Launch(Here, i)
  PROVE  /\ w.battery = battery
         /\ w.ok => /\ w.shell.running = i /\ w.nes.cart = roms[i]
                    /\ w.nes.cart \in BatteryRoms =>
                         w.nes.ram \in {battery.ram[SavOf[roms[i]]]} \cup Lossy
<1>1. CASE i \notin DOMAIN roms
  <2>1. w = [shell |-> WithStatus(shell, Other), nes |-> nes, battery |-> battery, ok |-> FALSE]
    BY <1>1 DEF Launch, Here, WithStatus
  <2> QED
    BY <2>1
<1>2. ASSUME NEW s, w = [shell |-> s, nes |-> NoCart, battery |-> battery, ok |-> FALSE]
      PROVE  w.battery = battery /\ ~w.ok
  BY <1>2
<1>3. ASSUME i \in DOMAIN roms, NEW r \in StartRam(battery, i, Image(i)),
             w = [shell |-> Started(Lend(shell), i, Image(i)),
                  nes |-> [cart |-> Image(i), ram |-> r, time |-> 0],
                  battery |-> battery, ok |-> TRUE]
      PROVE  /\ w.battery = battery
             /\ w.shell.running = i /\ w.nes.cart = roms[i]
             /\ w.nes.cart \in BatteryRoms =>
                  w.nes.ram \in {battery.ram[SavOf[roms[i]]]} \cup Lossy
  <2>1. Image(i) = roms[i]
    BY <1>3 DEF HostOK, Image
  <2>2. Image(i) \in BatteryRoms => r \in {battery.ram[SavOf[roms[i]]]} \cup Lossy
    BY <1>3 DEF StartRam, Lossy
  <2>3. /\ w.battery = battery /\ w.shell = Started(Lend(shell), i, Image(i))
        /\ w.nes.cart = Image(i) /\ w.nes.ram = r
    BY <1>3
  <2>4. w.shell.running = i
    BY <2>3, StartedFields
  <2> QED
    BY <2>1, <2>2, <2>3, <2>4
<1>4. CASE i \in DOMAIN roms
  <2>1. \/ \E s : w = [shell |-> s, nes |-> NoCart, battery |-> battery, ok |-> FALSE]
        \/ \E r \in StartRam(battery, i, Image(i)) :
             w = [shell |-> Started(Lend(shell), i, Image(i)),
                  nes |-> [cart |-> Image(i), ram |-> r, time |-> 0],
                  battery |-> battery, ok |-> TRUE]
    BY <1>4 DEF Launch, Here, Lend
  <2> QED
    BY <1>2, <1>3, <1>4, <2>1
<1> QED
  BY <1>1, <1>4

\* The battery file of the game that runs is one of those there are.
LEMMA HostFile ==
  ASSUME HostOK, RomsOK, ImageOK, shell.state = "RUNNING"
  PROVE  SavOf[roms[shell.running]] \in Savs /\ shell.running # 0
<1>1. roms \in Seq(Roms)
  BY SetupLists DEF HostOK, RomsOK
<1>2. shell.running \in DOMAIN roms
  BY DEF ImageOK
<1>3. roms[shell.running] \in Roms /\ shell.running # 0
  BY <1>1, <1>2
<1> QED
  BY <1>3, ShellAssumption

Holding(ram, sav, x, fails) == [ram |-> [ram EXCEPT ![sav] = x], failed |-> fails]

(* What a write of the battery file leaves.                                *)
LEMMA HostWrites ==
  ASSUME HostOK, RomsOK, ImageOK, Platform = "host", shell.state = "RUNNING",
         nes.cart \in BatteryRoms, NEW b \in BatteryWrites(Here)
  PROVE  KeptIn(b, Left(b))
<1> DEFINE sav == SavOf[roms[shell.running]]
           old == battery.ram
<1>1. sav \in Savs
  BY HostFile
<1>2. /\ DOMAIN old = Savs /\ DOMAIN ghost.left = Savs
      /\ \A v \in Savs : old[v] \in ghost.left[v] \cup Lossy
  BY DEF HostOK, KeptIn
<1>3. \/ b = Holding(old, sav, nes.ram, FALSE)
      \/ Faulty /\ b = Holding(old, sav, old[sav], TRUE)
      \/ Faulty /\ \E x \in {Blank, Torn}, fails \in BOOLEAN : b = Holding(old, sav, x, fails)
  BY DEF BatteryWrites, Here, Holding
<1> HIDE DEF sav, old
<1>4. ASSUME NEW x, NEW fails \in BOOLEAN, b = Holding(old, sav, x, fails),
             \/ ~fails /\ x = nes.ram
             \/ x \in ghost.left[sav] \cup Lossy
             \/ x \in Lossy,
             ~fails => x \in {nes.ram} \cup Lossy
      PROVE  KeptIn(b, Left(b))
  <2>1. b.ram = [old EXCEPT ![sav] = x] /\ b.failed = fails
    BY <1>4 DEF Holding
  <2>2. Left(b) = IF fails THEN ghost.left ELSE [ghost.left EXCEPT ![sav] = {nes.ram}]
    BY <2>1 DEF Left, sav
  <2> QED
    BY <1>1, <1>2, <1>4, <2>1, <2>2 DEF KeptIn
<1>5. CASE b = Holding(old, sav, nes.ram, FALSE)
  BY <1>4, <1>5
<1>6. CASE Faulty /\ b = Holding(old, sav, old[sav], TRUE)
  BY <1>1, <1>2, <1>4, <1>6
<1>7. ASSUME Faulty, NEW x \in {Blank, Torn}, NEW fails \in BOOLEAN,
             b = Holding(old, sav, x, fails)
      PROVE  KeptIn(b, Left(b))
  <2>1. x \in Lossy
    BY <1>7 DEF Lossy
  <2> QED
    BY <1>4, <1>7, <2>1
<1> QED
  BY <1>3, <1>5, <1>6, <1>7

LEMMA HostUnload ==
  ASSUME HostOK, RomsOK, ImageOK, Platform = "host", shell.state = "RUNNING",
         NEW u \in Unload(Here)
  PROVE  KeptIn(u.battery, Left(u.battery))
<1>1. CASE nes.cart \in BatteryRoms
  <2>1. shell.running # 0
    BY HostFile
  <2>2. PICK b, s, n : /\ b \in BatteryWrites(Here)
                       /\ u = [shell |-> s, nes |-> n, battery |-> b, ok |-> TRUE]
    BY <1>1, <2>1 DEF Unload, Here
  <2>3. u.battery = b
    BY <2>2
  <2> QED
    BY <1>1, <2>2, <2>3, HostWrites
<1>2. CASE nes.cart \notin BatteryRoms
  <2>1. PICK s, n : u = [shell |-> s, nes |-> n, battery |-> battery, ok |-> TRUE]
    BY <1>2 DEF Unload, Here
  <2>2. u.battery = battery /\ Left(u.battery) = ghost.left
    BY <1>2, <2>1 DEF Left
  <2> QED
    BY <2>2 DEF HostOK
<1> QED
  BY <1>1, <1>2

(* A frame of the host and what it leaves.                                 *)
HostStays ==
  /\ shell'.state = shell.state /\ shell'.running = shell.running
  /\ nes'.cart = nes.cart /\ UNCHANGED <<battery, roms, flash>>

HostStarts ==
  /\ shell.state = "MENU" /\ shell'.state = "RUNNING"
  /\ nes'.cart = roms[shell'.running]
  /\ nes'.cart \in BatteryRoms =>
       nes'.ram \in {battery.ram[SavOf[roms[shell'.running]]]} \cup Lossy
  /\ UNCHANGED <<battery, roms, flash>>

HostEnds ==
  /\ shell.state = "RUNNING" /\ shell'.state = "MENU"
  /\ KeptIn(battery', Left(battery'))
  /\ UNCHANGED <<roms, flash>>

LEMMA HostMenu ==
  ASSUME HostOK, ImageOK, Platform = "host", NEW curr, InMenu(curr)
  PROVE  HostStays \/ HostStarts
<1> DEFINE m == MenuStep(menu, Items(roms), curr)
           r == RomChoice(m, Len(roms), FlashActions, Pressed(curr))
<1>0. shell.state = "MENU" /\ Idle(shell, nes)
  BY DEF InMenu, ImageOK
<1>1. ~FlashActions /\ ~HasImport
  BY HostHas
<1>2. r # "erase"
  BY <1>1, Zenon DEF RomChoice
<1>3. ASSUME KeepRoms, NEW w \in Launch(Here, m.sel + 1),
             shell' = [w.shell EXCEPT !.prev = curr], nes' = w.nes, battery' = w.battery
      PROVE  HostStays \/ HostStarts
  <2> DEFINE i == m.sel + 1
  <2> HIDE DEF i
  <2>1. w \in Launch(Here, i)
    BY <1>3 DEF i
  <2>2. /\ w.battery = battery
        /\ w.ok => /\ w.shell.running = i /\ w.nes.cart = roms[i]
                   /\ w.nes.cart \in BatteryRoms =>
                        w.nes.ram \in {battery.ram[SavOf[roms[i]]]} \cup Lossy
    BY <2>1, HostLaunch
  <2>3. \/ w.ok /\ Launched(w.shell)
        \/ ~w.ok /\ Idle(w.shell, w.nes) /\ w.shell.state = shell.state
    BY <1>0, <2>1, LaunchOutcome
  <2>4. shell'.state = w.shell.state /\ shell'.running = w.shell.running
    BY <1>3
  <2>5. CASE w.ok /\ Launched(w.shell)
    BY <1>0, <1>3, <2>2, <2>4, <2>5 DEF HostStarts, KeepRoms, Launched
  <2>6. CASE ~w.ok /\ Idle(w.shell, w.nes) /\ w.shell.state = shell.state
    BY <1>0, <1>3, <2>2, <2>4, <2>6 DEF HostStays, KeepRoms, Idle
  <2> QED
    BY <2>3, <2>5, <2>6
<1>4. ASSUME KeepNes, KeepRoms,
             shell' = [shell EXCEPT !.prev = curr,
                  !.status = IF r = "launch" THEN Other
                             ELSE IF Pressed(curr) \cap {"Up", "Down"} # {} THEN Other ELSE @]
      PROVE  HostStays
  <2>1. shell'.state = shell.state /\ shell'.running = shell.running
    BY <1>4
  <2> QED
    BY <1>0, <1>4, <2>1, Zenon DEF HostStays, KeepNes, KeepRoms
<1> QED
  BY <1>1, <1>2, <1>3, <1>4, Zenon DEF InMenu

LEMMA HostReturns ==
  ASSUME HostOK, RomsOK, ImageOK, Platform = "host", shell.state = "RUNNING",
         NEW curr, ReturnToMenu(curr)
  PROVE  KeptIn(battery', Left(battery')) /\ shell'.state = "MENU"
<1>1. PICK u \in Unload(Here) :
        /\ shell' = [u.shell EXCEPT !.status = Other, !.state = Decided(roms), !.prev = curr]
        /\ battery' = u.battery
  BY Zenon DEF ReturnToMenu
<1>2. KeptIn(u.battery, Left(u.battery)) /\ Decided(roms) = "MENU"
  BY HostUnload, HostHas
<1> QED
  BY <1>1, <1>2

LEMMA HostGame ==
  ASSUME HostOK, RomsOK, ImageOK, Platform = "host", NEW curr, InGame(curr)
  PROVE  HostStays \/ HostEnds
<1>0. shell.state = "RUNNING" /\ KeepRoms /\ ~HasStore
  BY HostHas DEF InGame
<1>2. CASE Exit(curr)
  <2>1. ReturnToMenu(curr)
    BY <1>0, <1>2, Zenon DEF Exit
  <2>2. KeptIn(battery', Left(battery')) /\ shell'.state = "MENU"
    BY <1>0, <2>1, HostReturns
  <2> QED
    BY <1>0, <2>2, Zenon DEF HostEnds, KeepRoms
<1>3. ASSUME UNCHANGED <<menu, saveMenu, nes, battery>>,
             shell' = [shell EXCEPT !.prev = curr,
                  !.exitLatched = @ /\ ExitCombo \subseteq curr,
                  !.saveLatched = @ /\ (HasStore => SaveCombo \subseteq curr)]
      PROVE  HostStays
  <2>1. shell'.state = shell.state /\ shell'.running = shell.running
    BY <1>3
  <2> QED
    BY <1>0, <1>3, <2>1, Zenon DEF HostStays, KeepRoms
<1> QED
  BY <1>0, <1>2, <1>3, Zenon DEF InGame

LEMMA SameFaulty ==
  ASSUME setup' = setup
  PROVE  Lossy' = Lossy /\ FirstRoms' = FirstRoms
BY DEF Lossy, Faulty, FirstRoms

LEMMA HostFrame ==
  ASSUME HostOK, setup' = setup, HostStays \/ HostStarts \/ HostEnds, ghost'.left = LeftWith
  PROVE  HostOK'
<1>1. Lossy' = Lossy /\ FirstRoms' = FirstRoms
  BY SameFaulty
<1>2. CASE HostStays
  <2>1. ghost'.left = ghost.left
    BY <1>2 DEF HostStays, LeftWith
  <2> QED
    BY <1>1, <1>2, <2>1 DEF HostStays, HostOK, KeptIn
<1>3. CASE HostStarts
  <2>1. ghost'.left = ghost.left
    BY <1>3 DEF HostStarts, LeftWith
  <2> QED
    BY <1>1, <1>3, <2>1 DEF HostStarts, HostOK, KeptIn
<1>4. CASE HostEnds
  <2>1. ghost'.left = Left(battery')
    BY <1>4 DEF HostEnds, LeftWith
  <2>2. KeptIn(battery', ghost'.left)
    BY <1>4, <2>1 DEF HostEnds
  <2> QED
    BY <1>1, <1>4, <2>2 DEF HostEnds, HostOK, KeptIn
<1> QED
  BY <1>2, <1>3, <1>4

HostKinds == HostStays \/ HostStarts \/ HostEnds

LEMMA HostBegin ==
  ASSUME HostOK, RomsOK, ImageOK, Platform = "host", NEW curr, Begin(curr)
  PROVE  HostKinds /\ ghost'.left = LeftWith
<1>1. ghost'.left = LeftWith
  BY RememberFields, Zenon DEF Begin
<1>2. InMenu(curr) \/ InGame(curr)
  BY DEF Begin, ConfirmErase, ConfirmClear, ConfirmDelete, InSaveMenu, InImport, HostOK
<1> QED
  BY <1>1, <1>2, HostMenu, HostGame DEF HostKinds

(* A new start of the process.                                             *)
LEMMA HostAnew ==
  ASSUME HostOK, RomsOK, Platform = "host", setup' = setup, NEW b, NEW left, KeptIn(b, left),
         Restart(b, left)
  PROVE  HostOK'
<1>1. Lossy' = Lossy /\ FirstRoms' = FirstRoms
  BY SameFaulty
<1>2. /\ battery' = [b EXCEPT !.failed = FALSE] /\ ghost' = [NoHistory EXCEPT !.left = left]
      /\ roms' = Listed(flash) /\ shell' = NewShell(Listed(flash))
      /\ flash' = flash
  BY Zenon DEF Restart
<1>3. battery'.ram = b.ram /\ ghost'.left = left
  BY <1>2 DEF NoHistory
<1>4. Listed(flash) = FirstRoms
  <2>1. FirstRoms \in Seq(Roms) /\ flash = FirstRoms
    BY SetupLists DEF RomsOK, HostOK
  <2>2. Listed(flash) = [i \in DOMAIN flash |-> flash[i]]
    BY DEF Listed
  <2> QED
    BY <2>1, <2>2
<1>5. shell'.state = "MENU"
  <2>1. NewShell(Listed(flash)).state = Decided(Listed(flash))
    BY DEF NewShell
  <2> QED
    BY <1>2, <2>1, HostHas
<1> QED
  BY <1>1, <1>2, <1>3, <1>4, <1>5 DEF HostOK, KeptIn

LEMMA BatteryStart == ShellInit => BatteryOK
<1> SUFFICES ASSUME ShellInit, Platform = "host" PROVE HostOK
  BY DEF BatteryOK
<1>1. shell.state = "MENU"
  <2>1. NewShell(FirstRoms).state = Decided(FirstRoms)
    BY DEF NewShell
  <2> QED
    BY <2>1, HostHas DEF ShellInit
<1>2. /\ battery = [ram |-> [v \in Savs |-> Blank], failed |-> FALSE]
      /\ ghost.left = [v \in Savs |-> {Blank}]
  BY DEF ShellInit, NoHistory
<1>3. KeptIn(battery, ghost.left)
  BY <1>2 DEF KeptIn
<1> QED
  BY <1>1, <1>3 DEF ShellInit, HostOK

LEMMA BatteryStep ==
  ASSUME ShellSound, BatteryOK, [ShellNext]_allVars
  PROVE  BatteryOK'
<1>0. setup' = setup /\ Platform' = Platform /\ RomsOK /\ ImageOK
  BY DEF ShellNext, allVars, shellVars, Platform, ShellSound
<1> SUFFICES ASSUME Platform = "host", HostOK PROVE HostOK'
  BY <1>0 DEF BatteryOK
<1>a. Lossy' = Lossy /\ FirstRoms' = FirstRoms
  BY <1>0, SameFaulty
<1>1. ASSUME UNCHANGED <<shell, battery, roms, flash, ghost>>, nes'.cart = nes.cart
      PROVE  HostOK'
  BY <1>a, <1>1 DEF HostOK, KeptIn
<1>2. ASSUME NEW curr, Begin(curr)
      PROVE  HostOK'
  BY <1>0, <1>2, HostBegin, HostFrame DEF HostKinds
<1>3. CASE UNCHANGED allVars
  BY <1>1, <1>3, Zenon DEF allVars, shellVars, vars
<1>4. CASE Step
  <2>1. nes'.cart = nes.cart
    BY <1>4 DEF Step
  <2> QED
    BY <1>1, <1>4, <2>1, Zenon DEF Step, KeepRoms, KeepStore
<1>5. CASE RequestReset
  BY <1>5 DEF RequestReset
<1>6. CASE \E curr : Poll(curr)
  BY <1>1, <1>6, Zenon DEF Poll, KeepRoms, KeepStore
<1>7. CASE RequestMenu
  <2>1. shell.state = "RUNNING"
    BY <1>7 DEF RequestMenu, HostOK
  <2>2. PICK u \in Unload(Here) :
          /\ shell' = [u.shell EXCEPT !.status = Other, !.state = Decided(roms),
                                      !.exitLatched = FALSE]
          /\ battery' = u.battery
          /\ ghost' = [ghost EXCEPT !.seen = Buttons, !.left = Left(u.battery)]
    BY <1>7, Zenon DEF RequestMenu
  <2> DEFINE l == Left(u.battery)
  <2> HIDE DEF l
  <2>3. ghost' = [ghost EXCEPT !.seen = Buttons, !.left = l]
    BY <2>2 DEF l
  <2>4. shell'.state = "MENU" /\ ghost'.left = l
    <3>1. Decided(roms) = "MENU"
      BY HostHas
    <3>2. shell'.state = Decided(roms)
      BY <2>2
    <3>3. ghost'.left = l
      BY <2>3
    <3> QED
      BY <3>1, <3>2, <3>3
  <2>5. KeptIn(battery', ghost'.left)
    BY <1>0, <2>1, <2>2, <2>4, HostUnload DEF l
  <2>6. UNCHANGED <<roms, flash>>
    BY <1>7, Zenon DEF RequestMenu, KeepRoms
  <2> QED
    BY <1>a, <2>4, <2>5, <2>6 DEF HostOK, KeptIn
<1>8. CASE PowerCut
  <2>1. KeptIn(battery, ghost.left)
    BY DEF HostOK
  <2> QED
    BY <1>0, <1>8, <2>1, HostAnew DEF PowerCut
<1>9. CASE KilledInWrite
  <2> DEFINE sav == SavOf[roms[shell.running]]
             some == {Blank, Torn, nes.ram}
  <2>1. PICK x \in some :
          Restart([battery EXCEPT !.ram[sav] = x], [ghost.left EXCEPT ![sav] = some])
    BY <1>9, Zenon DEF KilledInWrite
  <2>2. sav \in Savs
    BY <1>0, <1>9, HostFile DEF KilledInWrite
  <2> HIDE DEF sav, some
  <2> DEFINE b == [battery EXCEPT !.ram[sav] = x]
  <2>3. b.ram = [battery.ram EXCEPT ![sav] = x]
    OBVIOUS
  <2> HIDE DEF b
  <2>4. KeptIn(b, [ghost.left EXCEPT ![sav] = some])
    BY <2>1, <2>2, <2>3 DEF HostOK, KeptIn
  <2> QED
    BY <1>0, <2>1, <2>4, HostAnew DEF b
<1>10. CASE Quit
  <2>1. PICK u \in Unload(Here) : Restart(u.battery, Left(u.battery))
    BY <1>10 DEF Quit
  <2>2. KeptIn(u.battery, Left(u.battery))
    BY <1>0, <1>10, <2>1, HostUnload DEF Quit
  <2> QED
    BY <1>0, <2>1, <2>2, HostAnew
<1> QED
  BY <1>2, <1>3, <1>4, <1>5, <1>6, <1>7, <1>8, <1>9, <1>10, Zenon DEF ShellNext

(* On the host a game with a battery starts with the RAM that the last     *)
(* game of its .sav file was left with, whichever ROMs share that file: by *)
(* an exit, a request for the menu or an orderly end.  A kill leaves the   *)
(* file as the last of these did, unless it comes in the middle of the     *)
(* write; then all, some or none of that RAM is there.  Where files can    *)
(* fail some or none of it may be there as well, never another RAM.        *)
THEOREM BatteryGoesOn == ShellSpec => ContinuesWhereLeft
<1> DEFINE A == /\ Platform = "host" /\ nes'.cart \in BatteryRoms
                /\ shell.state # "RUNNING" /\ shell'.state = "RUNNING"
                => nes'.ram \in ghost.left[SavOf[roms[shell'.running]]]
                                  \cup (IF Faulty THEN {Blank, Torn} ELSE {})
           I == ShellSound /\ BatteryOK
<1>1. ASSUME I, [ShellNext]_allVars, Platform = "host", nes'.cart \in BatteryRoms,
             shell.state # "RUNNING", shell'.state = "RUNNING"
      PROVE  nes'.ram \in ghost.left[SavOf[roms[shell'.running]]] \cup Lossy
  <2>1. RomsOK /\ ImageOK /\ HostOK
    BY <1>1 DEF ShellSound, BatteryOK
  <2>2. PICK curr : Begin(curr)
    BY <1>1, Outside, Zenon DEF OutsideFrames
  <2>3. HostStarts
    BY <1>1, <2>1, <2>2, HostBegin, Zenon DEF HostKinds, HostStays, HostEnds
  <2>4. SavOf[roms[shell'.running]] \in Savs
    <3>1. Starts(curr)
      <4>1. ~Stays(curr)
        BY <1>1 DEF Stays, InLists
      <4> QED
        BY <1>1, <2>2, <4>1, FrameKinds, Zenon DEF GoesOn, Ends
    <3>2. shell'.running \in DOMAIN roms /\ roms \in Seq(Roms)
      BY <2>1, <3>1, SetupLists DEF Starts, HostOK, RomsOK
    <3> QED
      BY <3>2, ShellAssumption
  <2> QED
    BY <1>1, <2>1, <2>3, <2>4 DEF HostStarts, HostOK, KeptIn
<1>2. I /\ [ShellNext]_allVars => A
  BY <1>1 DEF Lossy
<1>3. ShellInit => I
  BY SoundStart, BatteryStart
<1>4. I /\ [ShellNext]_allVars => I'
  BY SoundStep, BatteryStep
<1> HIDE DEF I
<1> QED
  BY <1>2, <1>3, <1>4, PTL DEF ShellSpec, ContinuesWhereLeft

-----------------------------------------------------------------------------
(* Lists and their windows (rom_menu.c): a step moves the selection within *)
(* the items and keeps it on a row that is drawn.                          *)
LEMMA ShownWithin ==
  ASSUME NEW m \in Menu, NEW n \in Nat, Shown(m, n)
  PROVE  m.top <= m.sel /\ m.sel <= n /\ (n # 0 => m.sel < n)
BY MenusAssumption DEF Shown, Menu

LEMMA ScrollShown ==
  ASSUME NEW m \in Menu, NEW n \in Nat, m.sel < n
  PROVE  /\ Scroll(m, n) \in Menu /\ Shown(Scroll(m, n), n) /\ Scroll(m, n).sel = m.sel
         /\ Scroll(m, n).dir = m.dir /\ Scroll(m, n).frames = m.frames
<1> DEFINE t == IF m.sel < m.top THEN m.sel
                ELSE IF m.sel >= m.top + VisibleRows THEN m.sel - (VisibleRows - 1) ELSE m.top
           c == Clamp(t, 0, MaxTop(n))
<1>1. VisibleRows \in Nat \ {0} /\ m.sel \in Nat /\ m.top \in Nat /\ m.sel < n
  BY MenusAssumption DEF Menu
<1>2. t \in Nat /\ t <= m.sel /\ m.sel < t + VisibleRows
  BY <1>1
<1>3. MaxTop(n) \in Nat /\ (n > VisibleRows => MaxTop(n) = n - VisibleRows)
      /\ (n <= VisibleRows => MaxTop(n) = 0)
  BY <1>1 DEF MaxTop
<1> HIDE DEF t
<1>4. c \in Nat /\ c <= m.sel /\ m.sel < c + VisibleRows
  <2>1. c = IF t > MaxTop(n) THEN MaxTop(n) ELSE t
    BY <1>2 DEF Clamp
  <2> QED
    BY <1>1, <1>2, <1>3, <2>1
<1>5. Scroll(m, n) = [m EXCEPT !.top = c]
  BY DEF Scroll, t
<1> HIDE DEF c
<1> QED
  BY <1>1, <1>4, <1>5 DEF Menu, Shown

LEMMA MoveShown ==
  ASSUME NEW m \in Menu, NEW n \in Nat, NEW d \in {-1, 1}
  PROVE  Move(m, n, d) \in Menu /\ Shown(Move(m, n, d), n)
<1>1. CASE n = 0
  <2>1. Move(m, n, d) = [m EXCEPT !.sel = 0, !.top = 0]
    BY <1>1 DEF Move
  <2> QED
    BY <1>1, <2>1 DEF Menu, Shown
<1>2. CASE n > 0
  <2> DEFINE next == m.sel + d
             k == [m EXCEPT !.sel = IF next < 0 THEN n - 1 ELSE IF next >= n THEN 0 ELSE next]
  <2>1. k \in Menu /\ k.sel < n
    BY <1>2 DEF Menu
  <2>2. Move(m, n, d) = Scroll(k, n)
    BY <1>2 DEF Move
  <2> HIDE DEF k
  <2> QED
    BY <2>1, <2>2, ScrollShown
<1> QED
  BY <1>1, <1>2

(* A held direction repeats before its count leaves the range.             *)
LEMMA RepeatsInTime ==
  ASSUME NEW f \in Nat, f <= HoldDelay + HoldRate,
         ~(f >= HoldDelay /\ (f - HoldDelay) % HoldRate = 0)
  PROVE  f <= HoldDelay + HoldRate - 1
<1>1. HoldRate \in Nat \ {0} /\ HoldDelay \in Nat
  BY MenusAssumption
<1>2. HoldRate % HoldRate = 0
  BY <1>1
<1>3. f = HoldDelay + HoldRate => f - HoldDelay = HoldRate
  BY <1>1
<1> QED
  BY <1>1, <1>2, <1>3

PutAt(m, s, t)  == [m EXCEPT !.sel = s, !.top = t]
Facing(m, d, g) == [m EXCEPT !.dir = d, !.frames = g]

LEMMA Placed ==
  ASSUME NEW m \in Menu, NEW s \in Nat, NEW t \in Nat
  PROVE  PutAt(m, s, t) \in Menu /\ PutAt(m, s, t).sel = s /\ PutAt(m, s, t).top = t
BY DEF Menu, PutAt

LEMMA Timed ==
  ASSUME NEW m \in Menu, NEW d \in {-1, 0, 1}, NEW g \in {0, 1}
  PROVE  /\ Facing(m, d, g) \in Menu
         /\ Facing(m, d, g).sel = m.sel /\ Facing(m, d, g).top = m.top
<1>1. g \in 0 .. HoldDelay + HoldRate - 1
  BY MenusAssumption
<1> QED
  BY <1>1 DEF Menu, Facing

LEMMA HoldShown ==
  ASSUME NEW m \in Menu, NEW n \in Nat, NEW curr
  PROVE  /\ Hold(m, n, curr) \in Menu
         /\ Shown(m, n) => Shown(Hold(m, n, curr), n)
<1> DEFINE d == Direction(curr)
           f == m.frames + 1
           repeats == f >= HoldDelay /\ (f - HoldDelay) % HoldRate = 0
           k == Move(m, n, d)
<1>1. HoldDelay \in Nat \ {0, 1} /\ HoldRate \in Nat \ {0}
  BY MenusAssumption
<1>2. d \in {-1, 0, 1}
  BY DEF Direction
<1>3. d # 0 => k \in Menu /\ Shown(k, n)
  BY <1>2, MoveShown
<1>4. f \in Nat /\ f <= HoldDelay + HoldRate
  BY <1>1 DEF Menu
<1>5. ~repeats => f <= HoldDelay + HoldRate - 1
  BY <1>4, RepeatsInTime
<1>6. \/ d = 0 /\ Hold(m, n, curr) = Facing(m, 0, 0)
      \/ d # 0 /\ Hold(m, n, curr) = Facing(k, d, 1)
      \/ d # 0 /\ Hold(m, n, curr) = [k EXCEPT !.frames = HoldDelay]
      \/ ~repeats /\ Hold(m, n, curr) = [m EXCEPT !.frames = f]
  BY Zenon DEF Hold, Facing
<1> HIDE DEF d, f, repeats, k
<1>7. CASE Hold(m, n, curr) = Facing(m, 0, 0)
  BY <1>7, Timed DEF Shown
<1>8. CASE d # 0 /\ Hold(m, n, curr) = Facing(k, d, 1)
  <2>1. 1 \in {0, 1}
    OBVIOUS
  <2>2. k \in Menu /\ Shown(k, n)
    BY <1>3, <1>8
  <2>3. /\ Hold(m, n, curr) \in Menu /\ Hold(m, n, curr).sel = k.sel
        /\ Hold(m, n, curr).top = k.top
    BY <1>2, <1>8, <2>1, <2>2, Timed
  <2> QED
    BY <2>2, <2>3 DEF Shown
<1>9. CASE d # 0 /\ Hold(m, n, curr) = [k EXCEPT !.frames = HoldDelay]
  BY <1>1, <1>3, <1>9 DEF Menu, Shown
<1>10. CASE ~repeats /\ Hold(m, n, curr) = [m EXCEPT !.frames = f]
  BY <1>1, <1>4, <1>5, <1>10 DEF Menu, Shown
<1> QED
  BY <1>6, <1>7, <1>8, <1>9, <1>10

LEMMA ConfineShown ==
  ASSUME NEW m \in Menu, NEW n \in Nat
  PROVE  /\ Confine(m, n) \in Menu
         /\ n # 0 => Confine(m, n).sel < n /\ Confine(m, n).top < n
         /\ Shown(m, n) => Shown(Confine(m, n), n)
<1>1. CASE n = 0
  <2>1. Confine(m, n) = PutAt(m, 0, 0)
    BY <1>1 DEF Confine, PutAt
  <2> QED
    <3>1. Confine(m, n) \in Menu /\ Confine(m, n).sel = 0 /\ Confine(m, n).top = 0
      <4>1. 0 \in Nat
        OBVIOUS
      <4> QED
        BY <2>1, <4>1, Placed
    <3> QED
      BY <1>1, <3>1 DEF Shown
<1>2. CASE n > 0
  <2> DEFINE s == Clamp(m.sel, 0, n - 1)
             t == Clamp(m.top, 0, MaxTop(n))
  <2>1. Confine(m, n) = PutAt(m, s, t)
    BY <1>2 DEF Confine, PutAt
  <2>2. VisibleRows \in Nat \ {0} /\ m.sel \in Nat /\ m.top \in Nat
    BY MenusAssumption DEF Menu
  <2>3. s = IF m.sel > n - 1 THEN n - 1 ELSE m.sel
    BY <1>2, <2>2 DEF Clamp
  <2>4. MaxTop(n) \in Nat /\ MaxTop(n) < n /\ n <= MaxTop(n) + VisibleRows
    BY <1>2, <2>2 DEF MaxTop
  <2>5. t = IF m.top > MaxTop(n) THEN MaxTop(n) ELSE m.top
    BY <2>2 DEF Clamp
  <2> HIDE DEF s, t
  <2>6. s \in 0 .. n - 1 /\ t \in 0 .. n - 1
    BY <1>2, <2>2, <2>3, <2>4, <2>5
  <2>7. m.sel \in 0 .. n - 1 /\ m.sel \in m.top .. m.top + VisibleRows - 1 =>
          s \in t .. t + VisibleRows - 1
    BY <1>2, <2>2, <2>3, <2>4, <2>5
  <2>8. s \in Nat /\ t \in Nat
    BY <2>6
  <2>9. Confine(m, n) \in Menu /\ Confine(m, n).sel = s /\ Confine(m, n).top = t
    <3>1. PutAt(m, s, t) \in Menu /\ PutAt(m, s, t).sel = s /\ PutAt(m, s, t).top = t
      BY <2>8, Placed
    <3> QED
      BY <2>1, <3>1, Zenon
  <2> QED
    BY <1>2, <2>6, <2>7, <2>9 DEF Shown
<1> QED
  BY <1>1, <1>2

LEMMA StepShown ==
  ASSUME NEW m \in Menu, NEW n \in Nat, NEW curr
  PROVE  /\ MenuStep(m, n, curr) \in Menu
         /\ n # 0 => MenuStep(m, n, curr).sel < n /\ MenuStep(m, n, curr).top < n
         /\ Shown(m, n) => Shown(MenuStep(m, n, curr), n)
BY HoldShown, ConfineShown DEF MenuStep

LEMMA InitShown ==
  ASSUME NEW n \in Nat
  PROVE  MenuInit \in Menu /\ Shown(MenuInit, n) /\ MenuInit.sel = 0 /\ MenuInit.top = 0
BY MenusAssumption DEF MenuInit, Menu, Shown

LEMMA SelectShown ==
  ASSUME NEW m \in Menu, NEW n \in Nat, NEW k \in Nat, k <= n, NEW i \in Int
  PROVE  MenuSelect(m, n, k, i) \in Menu /\ Shown(MenuSelect(m, n, k, i), n)
<1>1. CASE n = 0
  BY <1>1, InitShown DEF MenuSelect
<1>2. CASE n > 0
  <2> DEFINE s == Clamp(i, 0, IF k > 0 THEN k - 1 ELSE 0)
             x == [m EXCEPT !.sel = s, !.dir = 0, !.frames = 0]
  <2>1. s \in Nat /\ s < n
    BY <1>2 DEF Clamp
  <2>2. MenuSelect(m, n, k, i) = Scroll(x, n)
    BY <1>2 DEF MenuSelect
  <2> HIDE DEF s
  <2>3. x \in Menu /\ x.sel < n
    <3> DEFINE y == [m EXCEPT !.sel = s]
    <3>1. y \in Menu /\ y.sel = s
      BY <2>1 DEF Menu
    <3>2. x = Facing(y, 0, 0)
      BY DEF Menu, Facing
    <3> HIDE DEF x, y
    <3>3. x \in Menu /\ x.sel = y.sel
      BY <3>1, <3>2, Timed
    <3> QED
      BY <2>1, <3>1, <3>3
  <2> HIDE DEF x
  <2> QED
    BY <2>2, <2>3, ScrollShown
<1> QED
  BY <1>1, <1>2

(* The entry with that time, when the list has it.                         *)
LEMMA TimeShown ==
  ASSUME NEW list \in Seq(Names), NEW t,
         \A i, j \in DOMAIN list : i < j => list[i] > list[j]
  PROVE  /\ SelectTime(list, t) \in Menu /\ Shown(SelectTime(list, t), Len(list) + 2)
         /\ t \in ToSet(list) => list[SelectTime(list, t).sel + 1] = t
<1> DEFINE at == {i \in DOMAIN list : list[i] = t}
           first == CHOOSE i \in at : \A j \in at : i <= j
           s == IF at = {} THEN 0 ELSE first - 1
           x == [MenuInit EXCEPT !.sel = s]
<1>1. at # {} => first \in at
  <2>1. at \in SUBSET Nat
    OBVIOUS
  <2>2. at # {} => \E i \in at : \A j \in at : i <= j
    BY <2>1, LeastNatural
  <2> QED
    BY <2>2, Zenon
<1>2. s \in Nat /\ s < Len(list) + 2 /\ (at # {} => list[s + 1] = t)
  <2> HIDE DEF first
  <2>1. CASE at = {}
    BY <2>1
  <2>2. CASE at # {}
    <3>1. first \in 1 .. Len(list) /\ list[first] = t
      BY <1>1, <2>2
    <3> HIDE DEF at
    <3> QED
      BY <2>2, <3>1
  <2> QED
    BY <2>1, <2>2
<1>3. SelectTime(list, t) = Scroll(x, Len(list) + 2)
  BY DEF SelectTime
<1>4. t \in ToSet(list) => at # {}
  BY DEF ToSet
<1> HIDE DEF at, s
<1>5. x \in Menu /\ x.sel = s /\ x.sel < Len(list) + 2
  BY <1>2, InitShown DEF Menu, MenuInit
<1> HIDE DEF x
<1>6. Len(list) + 2 \in Nat
  OBVIOUS
<1> QED
  BY <1>2, <1>3, <1>4, <1>5, <1>6, ScrollShown

(* A direction that counts as held does not move the selection.            *)
LEMMA HeldShown ==
  ASSUME NEW m \in Menu, NEW n, NEW curr
  PROVE  /\ Seeded(m, curr) \in Menu /\ Seeded(m, curr).sel = m.sel
         /\ Seeded(m, curr).top = m.top
         /\ Absorb(m, curr) \in Menu
         /\ Shown(m, n) => Shown(Seeded(m, curr), n) /\ Shown(Absorb(m, curr), n)
<1>1. Direction(curr) \in {-1, 0, 1} /\ 1 \in 0 .. HoldDelay + HoldRate - 1
      /\ 0 \in 0 .. HoldDelay + HoldRate - 1
  BY MenusAssumption DEF Direction
<1>2. \/ Seeded(m, curr) = m
      \/ \E d \in {-1, 1} : Seeded(m, curr) = [m EXCEPT !.dir = d, !.frames = 1]
  BY DEF Seeded
<1>3. \E g \in {0, 1} : Absorb(m, curr) = [m EXCEPT !.dir = Direction(curr), !.frames = g]
  BY DEF Absorb
<1>4. Seeded(m, curr) \in Menu /\ Seeded(m, curr).sel = m.sel /\ Seeded(m, curr).top = m.top
  BY <1>1, <1>2 DEF Menu
<1>5. Absorb(m, curr) \in Menu /\ Absorb(m, curr).sel = m.sel /\ Absorb(m, curr).top = m.top
  BY <1>1, <1>3 DEF Menu
<1> QED
  BY <1>4, <1>5 DEF Shown

-----------------------------------------------------------------------------
(* What the shell, the console and the battery files hold.                 *)
Amounts == Games \cup {Blank, Torn}

Statuses == {Other, "save write failed"}

ShellFine(s) == /\ s.prev \subseteq Buttons /\ s.status \in Statuses
                /\ s.loadedTime \in Names /\ s.buf \in Places

(* What a game's RAM holds; a console with save states can only hold what  *)
(* a save can.                                                             *)
NesFine(n) == n.ram \in Amounts /\ n.time \in 0 .. MaxTime /\ (HasStore => n.ram \in Games)

BatteryFine(b) == b.ram \in [Savs -> Amounts]

WorldFine(w) == ShellFine(w.shell) /\ NesFine(w.nes) /\ BatteryFine(w.battery)

(* The list of ROMs, and on a host the directory, have a ROM at every      *)
(* place; only with an SD card is there a copy to ask for.                 *)
RomsListed ==
  /\ roms \in Seq(Roms)
  /\ Platform # "pico" => flash \in Seq(Roms)
  /\ shell.state = "IMPORT" => HasImport

LEMMA StatusFine ==
  ASSUME NEW s, ShellFine(s), NEW st \in Statuses
  PROVE  ShellFine(WithStatus(s, st))
BY DEF ShellFine, WithStatus

LEMMA ReleasedFine ==
  ASSUME NEW s, ShellFine(s)
  PROVE  ShellFine(Released(s)) /\ Released(s).status = s.status
BY DEF ShellFine, Released, Places

LEMMA LentFine ==
  ASSUME NEW s, ShellFine(s)
  PROVE  ShellFine(Lend(s)) /\ ShellFine(GiveBack(Lend(s)))
BY DEF ShellFine, Lend, GiveBack

LEMMA StartedFine ==
  ASSUME NEW s, ShellFine(s), NEW i, NEW image \in Places
  PROVE  ShellFine(Started(s, i, image))
<1>1. 0 \in Names
  BY StoreAssumption DEF Names
<1>2. /\ Started(s, i, image).prev = s.prev /\ Started(s, i, image).status = Other
      /\ Started(s, i, image).loadedTime = 0 /\ Started(s, i, image).buf = image
  BY DEF Started
<1> QED
  BY <1>1, <1>2 DEF ShellFine, Statuses

LEMMA NoCartFine == NesFine(NoCart)
BY ShellAssumption, StoreAssumption DEF NesFine, NoCart, Amounts

LEMMA UnloadFine ==
  ASSUME roms \in Seq(Roms), NEW w, WorldFine(w),
         w.shell.running # 0 => w.shell.running \in DOMAIN roms,
         NEW u \in Unload(w)
  PROVE  WorldFine(u)
<1> DEFINE sav == SavOf[roms[w.shell.running]]
<1>1. /\ ShellFine(w.shell) /\ NesFine(w.nes) /\ BatteryFine(w.battery)
      /\ w.shell.status \in Statuses
  BY DEF WorldFine, ShellFine
<1>2. ASSUME w.shell.running # 0, NEW b \in BatteryWrites(w)
      PROVE  BatteryFine(b)
  <2>1. sav \in Savs
    BY <1>2, ShellAssumption
  <2> DEFINE ram == w.battery.ram
  <2>2. \/ b = [w.battery EXCEPT !.failed = TRUE]
        \/ b = Holding(ram, sav, w.nes.ram, FALSE) \/ b = Holding(ram, sav, ram[sav], TRUE)
        \/ \E x \in {Blank, Torn}, fails \in BOOLEAN : b = Holding(ram, sav, x, fails)
    BY DEF BatteryWrites, Holding
  <2> HIDE DEF sav
  <2>3. /\ {w.nes.ram, Blank, Torn} \subseteq Amounts
        /\ w.battery.ram \in [Savs -> Amounts]
    BY <1>1 DEF NesFine, BatteryFine, Amounts
  <2> HIDE DEF ram
  <2>4. ram[sav] \in Amounts /\ ram \in [Savs -> Amounts]
    BY <2>1, <2>3 DEF ram
  <2>5. CASE b = [w.battery EXCEPT !.failed = TRUE]
    BY <1>1, <2>5 DEF BatteryFine
  <2>6. ASSUME NEW x \in Amounts, NEW fails, b = Holding(ram, sav, x, fails)
        PROVE  BatteryFine(b)
    BY <2>4, <2>6 DEF BatteryFine, Holding
  <2> QED
    BY <2>2, <2>3, <2>4, <2>5, <2>6
<1>3. \E b, st : /\ u = [shell |-> WithStatus(Released(w.shell), st),
                         nes |-> NoCart, battery |-> b, ok |-> TRUE]
                 /\ b = w.battery \/ (w.shell.running # 0 /\ b \in BatteryWrites(w))
                 /\ st \in {w.shell.status, "save write failed"}
  BY DEF Unload, WithStatus
<1>4. PICK b, st : /\ u = [shell |-> WithStatus(Released(w.shell), st),
                            nes |-> NoCart, battery |-> b, ok |-> TRUE]
                   /\ b = w.battery \/ (w.shell.running # 0 /\ b \in BatteryWrites(w))
                   /\ st \in {w.shell.status, "save write failed"}
  BY <1>3, Zenon
<1>5. u.shell = WithStatus(Released(w.shell), st) /\ u.nes = NoCart /\ u.battery = b
  BY <1>4
<1>6. BatteryFine(b) /\ st \in Statuses
  BY <1>1, <1>2, <1>4 DEF Statuses
<1>7. ShellFine(u.shell)
  BY <1>1, <1>5, <1>6, ReleasedFine, StatusFine
<1> QED
  BY <1>5, <1>6, <1>7, NoCartFine DEF WorldFine

LEMMA ImageFine ==
  ASSUME RomsOK, NEW i
  PROVE  Image(i) \in Places
BY DEF RomsOK, Image, Places

LEMMA StartRamFine ==
  ASSUME roms \in Seq(Roms), NEW b, BatteryFine(b), NEW i \in DOMAIN roms, NEW image,
         NEW r \in StartRam(b, i, image)
  PROVE  r \in Amounts /\ (HasStore => r \in Games)
<1>1. roms[i] \in Roms /\ b.ram[SavOf[roms[i]]] \in Amounts
  BY ShellAssumption DEF BatteryFine
<1>2. Blank \in Games
  BY ShellAssumption
<1> QED
  BY <1>1, <1>2 DEF StartRam, Amounts, HasStore

LEMMA LaunchFine ==
  ASSUME RomsOK, roms \in Seq(Roms), WorldFine(Here), NEW i, NEW x \in Launch(Here, i)
  PROVE  WorldFine(x)
<1>0. ShellFine(shell) /\ NesFine(nes) /\ BatteryFine(battery)
  BY DEF WorldFine, Here
<1>1. Other \in Statuses
  BY DEF Statuses
<1>2. ASSUME NEW s, ShellFine(s), NEW n, NesFine(n),
             x = [shell |-> WithStatus(s, Other), nes |-> n, battery |-> battery, ok |-> FALSE]
      PROVE  WorldFine(x)
  <2>1. x.shell = WithStatus(s, Other) /\ x.nes = n /\ x.battery = battery
    BY <1>2
  <2> QED
    BY <1>0, <1>1, <1>2, <2>1, StatusFine DEF WorldFine
<1>3. CASE i \notin DOMAIN roms
  <2>1. x = [shell |-> WithStatus(shell, Other), nes |-> nes, battery |-> battery, ok |-> FALSE]
    BY <1>3 DEF Launch, Here, WithStatus
  <2> QED
    BY <1>0, <1>2, <2>1
<1>4. ASSUME i \in DOMAIN roms, NEW r \in StartRam(battery, i, Image(i)),
             x = [shell |-> Started(Lend(shell), i, Image(i)),
                  nes |-> [cart |-> Image(i), ram |-> r, time |-> 0],
                  battery |-> battery, ok |-> TRUE]
      PROVE  WorldFine(x)
  <2>1. /\ x.shell = Started(Lend(shell), i, Image(i)) /\ x.battery = battery
        /\ x.nes.ram = r /\ x.nes.time = 0
    BY <1>4
  <2>2. ShellFine(x.shell)
    BY <1>0, <2>1, LentFine, StartedFine, ImageFine
  <2>3. r \in Amounts /\ (HasStore => r \in Games)
    BY <1>0, <1>4, StartRamFine
  <2>4. NesFine(x.nes)
    BY <2>1, <2>3, StoreAssumption DEF NesFine
  <2> QED
    BY <1>0, <2>1, <2>2, <2>4 DEF WorldFine
<1>5. CASE i \in DOMAIN roms
  <2>1. \/ \E s \in {shell, GiveBack(Lend(shell))} :
             x = [shell |-> WithStatus(s, Other), nes |-> NoCart, battery |-> battery, ok |-> FALSE]
        \/ \E r \in StartRam(battery, i, Image(i)) :
             x = [shell |-> Started(Lend(shell), i, Image(i)),
                  nes |-> [cart |-> Image(i), ram |-> r, time |-> 0],
                  battery |-> battery, ok |-> TRUE]
    BY <1>5 DEF Launch, Here, WithStatus, Lend, GiveBack
  <2>2. ShellFine(GiveBack(Lend(shell)))
    BY <1>0, LentFine
  <2> QED
    BY <1>0, <1>2, <1>4, <1>5, <2>1, <2>2, NoCartFine
<1> QED
  BY <1>3, <1>5

WorldOK == WorldFine(Here) /\ pad \subseteq Buttons /\ phase \in {"shell", "step"}

(* A frame leaves the world as it should be, in terms of the setup it had. *)
WorldNext == /\ ShellFine(shell') /\ NesFine(nes') /\ BatteryFine(battery')
             /\ pad' \subseteq Buttons /\ phase' \in {"shell", "step"}

LEMMA WorldParts ==
  ASSUME WorldOK
  PROVE  /\ ShellFine(shell) /\ NesFine(nes) /\ BatteryFine(battery) /\ pad \subseteq Buttons
         /\ shell.prev \subseteq Buttons /\ shell.status \in Statuses /\ Other \in Statuses
         /\ shell.loadedTime \in Names /\ shell.buf \in Places
BY DEF WorldOK, WorldFine, Here, ShellFine, Statuses

(* A frame after which no game starts or ends.                             *)
LEMMA QuietFrame ==
  ASSUME WorldOK, NEW curr \in SUBSET Buttons, shell'.prev = curr,
         shell'.status \in {shell.status, Other}, shell'.loadedTime = shell.loadedTime,
         shell'.buf = shell.buf, KeepNes, InMenus
  PROVE  WorldNext
<1>1. ShellFine(shell')
  BY WorldParts DEF ShellFine
<1> QED
  BY <1>1, WorldParts DEF WorldNext, KeepNes, InMenus

LEMMA AnsweredWorld ==
  ASSUME NEW s, NEW p, NEW st, NEW x, NEW n
  PROVE  /\ Answered(s, p, st, x).prev = p /\ Answered(s, p, st, x).status = x
         /\ Answered(s, p, st, x).loadedTime = s.loadedTime
         /\ Answered(s, p, st, x).buf = s.buf
         /\ AnsweredTo(s, p, st, x, n).prev = p /\ AnsweredTo(s, p, st, x, n).status = x
         /\ AnsweredTo(s, p, st, x, n).loadedTime = s.loadedTime
         /\ AnsweredTo(s, p, st, x, n).buf = s.buf
BY DEF Answered, AnsweredTo

LEMMA DialogWorld ==
  ASSUME WorldOK, NEW curr \in SUBSET Buttons,
         ConfirmErase(curr) \/ ConfirmClear(curr) \/ ConfirmDelete(curr)
  PROVE  WorldNext
<1> DEFINE x == IF "B" \in Pressed(curr) THEN Other ELSE shell.status
<1>1. KeepNes /\ InMenus
  BY Zenon DEF ConfirmErase, ConfirmClear, ConfirmDelete
<1>2. \/ FreshRoms(<<>>, curr, Other)
      \/ \E st : shell' = Answered(shell, curr, st, x)
      \/ shell' = [shell EXCEPT !.fromSave = FALSE, !.status = Other,
                                !.state = Decided(roms), !.prev = curr]
      \/ shell' = [shell EXCEPT !.status = Other, !.state = "SAVE_MENU",
                                !.pending = 0, !.prev = curr]
      \/ \E st, n : shell' = AnsweredTo(shell, curr, st, x, n)
  BY Zenon DEF ConfirmErase, ConfirmClear, ConfirmDelete, Answered, AnsweredTo
<1>3. x \in {shell.status, Other}
  OBVIOUS
<1> HIDE DEF x
<1>4. CASE FreshRoms(<<>>, curr, Other)
  <2>1. /\ shell'.prev = curr /\ shell'.status = Other
        /\ shell'.loadedTime = shell.loadedTime /\ shell'.buf = shell.buf
    BY <1>4 DEF FreshRoms
  <2> QED
    BY <1>1, <2>1, QuietFrame
<1>5. ASSUME NEW st, shell' = Answered(shell, curr, st, x)
      PROVE  WorldNext
  BY <1>1, <1>3, <1>5, AnsweredWorld, QuietFrame
<1>6. CASE shell' = [shell EXCEPT !.fromSave = FALSE, !.status = Other,
                                  !.state = Decided(roms), !.prev = curr]
  <2>1. /\ shell'.prev = curr /\ shell'.status = Other
        /\ shell'.loadedTime = shell.loadedTime /\ shell'.buf = shell.buf
    BY <1>6
  <2> QED
    BY <1>1, <2>1, QuietFrame
<1>7. CASE shell' = [shell EXCEPT !.status = Other, !.state = "SAVE_MENU",
                                  !.pending = 0, !.prev = curr]
  <2>1. /\ shell'.prev = curr /\ shell'.status = Other
        /\ shell'.loadedTime = shell.loadedTime /\ shell'.buf = shell.buf
    BY <1>7
  <2> QED
    BY <1>1, <2>1, QuietFrame
<1>8. ASSUME NEW st, NEW n, shell' = AnsweredTo(shell, curr, st, x, n)
      PROVE  WorldNext
  BY <1>1, <1>3, <1>8, AnsweredWorld, QuietFrame
<1> QED
  BY <1>2, <1>4, <1>5, <1>6, <1>7, <1>8

LEMMA LaunchedNes ==
  ASSUME NEW i, NEW x \in Launch(Here, i), x.ok
  PROVE  \E c, r : x.nes = [cart |-> c, ram |-> r, time |-> 0]
<1>1. i \in DOMAIN roms
  BY DEF Launch, Here
<1>2. \/ \E s \in {shell, GiveBack(Lend(shell))} :
           x = [shell |-> WithStatus(s, Other), nes |-> NoCart, battery |-> battery, ok |-> FALSE]
      \/ \E r : x = [shell |-> Started(Lend(shell), i, Image(i)),
                    nes |-> [cart |-> Image(i), ram |-> r, time |-> 0],
                    battery |-> battery, ok |-> TRUE]
  BY <1>1 DEF Launch, Here, WithStatus, Lend, GiveBack
<1>3. ASSUME NEW s, x = [shell |-> s, nes |-> NoCart, battery |-> battery, ok |-> FALSE]
      PROVE  FALSE
  <2>1. x.ok = FALSE
    BY <1>3
  <2> QED
    BY <2>1
<1>4. PICK r : x = [shell |-> Started(Lend(shell), i, Image(i)),
                    nes |-> [cart |-> Image(i), ram |-> r, time |-> 0],
                    battery |-> battery, ok |-> TRUE]
  BY <1>2, <1>3, Zenon
<1>5. x.nes = [cart |-> Image(i), ram |-> r, time |-> 0]
  BY <1>4
<1> QED
  BY <1>5

(* The game that is launched for a save, and what the save makes of it.    *)
LEMMA LoadedWorld ==
  ASSUME WorldOK, RomsOK, ImageOK, roms \in Seq(Roms), shell.state = "SAVE_MENU",
         Fine(disk, store),
         NEW i, NEW m, NEW curr \in SUBSET Buttons, LoadSave(i, m, curr)
  PROVE  WorldNext
<1>a. PICK l \in LoadOutcomes(disk, store, i, blob) :
        \E w \in IF l.ok THEN Launch(Here, shell.saveRom) ELSE {[Here EXCEPT !.ok = FALSE]} :
             Loaded(l.blob, w, m, curr)
  BY Zenon DEF LoadSave
<1>1. PICK w \in IF l.ok THEN Launch(Here, shell.saveRom) ELSE {[Here EXCEPT !.ok = FALSE]} :
        Loaded(l.blob, w, m, curr)
  BY <1>a
<1>2. Idle(shell, nes) /\ WorldFine(Here)
  BY DEF ImageOK, WorldOK
<1>3. CASE w = [Here EXCEPT !.ok = FALSE]
  <2>1. w.shell = shell /\ w.nes = nes /\ w.battery = battery /\ ~w.ok
    BY <1>3 DEF Here
  <2>2. WorldFine(w)
    BY <2>1, WorldParts DEF WorldFine
  <2>3. /\ shell' = [w.shell EXCEPT !.status = Other, !.prev = curr]
        /\ nes' = w.nes /\ battery' = w.battery /\ InMenus /\ UNCHANGED pad
    BY <1>1, <2>1, Zenon DEF Loaded
  <2>4. /\ shell'.prev = curr /\ shell'.status = Other
        /\ shell'.loadedTime = shell.loadedTime /\ shell'.buf = shell.buf
    BY <2>1, <2>3
  <2>5. KeepNes
    BY <2>1, <2>3 DEF KeepNes
  <2> QED
    BY <2>3, <2>4, <2>5, QuietFrame
<1>4. CASE l.ok /\ w \in Launch(Here, shell.saveRom)
  <2>1. /\ WorldFine(w) /\ ShellFine(w.shell) /\ NesFine(w.nes) /\ BatteryFine(w.battery)
        /\ w.shell.loadedTime \in Names /\ w.shell.buf \in Places /\ Other \in Statuses
        /\ w.shell.status \in Statuses
    BY <1>2, <1>4, LaunchFine DEF WorldFine, ShellFine, Statuses
  <2>2. l.blob \in Blobs /\ l.blob.time \in Names /\ l.blob.game \in Games
    <3>1. l.blob \in Blobs
      BY <1>4, LoadFound
    <3> QED
      BY <3>1 DEF Blobs
  <2>3. \/ w.ok /\ Busy(w.shell, w.nes) /\ Launched(w.shell)
        \/ ~w.ok /\ Idle(w.shell, w.nes)
    BY <1>2, <1>4, LaunchOutcome
  <2>4. ASSUME w.ok,
               shell' = [w.shell EXCEPT !.fromSave = TRUE, !.loadedTime = l.blob.time,
                                        !.prev = curr],
               NEW t \in 0 .. MaxTime, nes' = [w.nes EXCEPT !.ram = l.blob.game, !.time = t],
               battery' = w.battery, Runs({})
        PROVE  WorldNext
    <3>1. /\ shell'.prev = curr /\ shell'.status = w.shell.status
          /\ shell'.loadedTime = l.blob.time /\ shell'.buf = w.shell.buf
      BY <2>4
    <3>2. \E n \in {w.nes} : nes' = [n EXCEPT !.ram = l.blob.game, !.time = t]
      BY <2>4
    <3>3. \E c, r : w.nes = [cart |-> c, ram |-> r, time |-> 0]
      BY <1>4, <2>4, LaunchedNes
    <3>4. nes'.ram = l.blob.game /\ nes'.time = t
      BY <3>2, <3>3
    <3>5. ShellFine(shell')
      BY <2>1, <2>2, <3>1 DEF ShellFine
    <3>6. NesFine(nes')
      BY <2>2, <3>4 DEF NesFine, Amounts
    <3>7. pad' = {} /\ phase' = "step"
      BY <2>4 DEF Runs
    <3> QED
      BY <2>1, <2>4, <3>5, <3>6, <3>7 DEF WorldNext
  <2>5. ASSUME w.ok, NEW u \in Unload(w),
               shell' = [u.shell EXCEPT !.state = "SAVE_MENU", !.status = Other, !.prev = curr],
               nes' = u.nes, battery' = u.battery, InMenus, UNCHANGED pad
        PROVE  WorldNext
    <3>1. w.shell.running \in DOMAIN roms
      BY <2>3, <2>5 DEF Launched
    <3>2. WorldFine(u)
      BY <2>1, <2>5, <3>1, UnloadFine
    <3>3. ShellFine(u.shell) /\ NesFine(u.nes) /\ BatteryFine(u.battery)
      BY <3>2 DEF WorldFine
    <3>4. /\ shell'.prev = curr /\ shell'.status = Other
          /\ shell'.loadedTime = u.shell.loadedTime /\ shell'.buf = u.shell.buf
      BY <2>5
    <3>5. ShellFine(shell')
      BY <2>1, <3>3, <3>4 DEF ShellFine
    <3> QED
      BY <2>5, <3>3, <3>5, WorldParts DEF WorldNext, InMenus
  <2>6. ASSUME ~w.ok, shell' = [w.shell EXCEPT !.status = Other, !.prev = curr],
               nes' = w.nes, battery' = w.battery, InMenus, UNCHANGED pad
        PROVE  WorldNext
    <3>1. /\ shell'.prev = curr /\ shell'.status = Other
          /\ shell'.loadedTime = w.shell.loadedTime /\ shell'.buf = w.shell.buf
      BY <2>6
    <3>2. ShellFine(shell')
      BY <2>1, <3>1 DEF ShellFine
    <3> QED
      BY <2>1, <2>6, <3>2, WorldParts DEF WorldNext, InMenus
  <2> QED
    BY <1>1, <2>4, <2>5, <2>6, Zenon DEF Loaded
<1> QED
  BY <1>1, <1>3, <1>4

LEMMA SaveMenuWorld ==
  ASSUME WorldOK, RomsOK, ImageOK, roms \in Seq(Roms), Fine(disk, store),
         NEW curr \in SUBSET Buttons, InSaveMenu(curr)
  PROVE  WorldNext
<1> DEFINE m == MenuStep(saveMenu, Len(store.list) + 2, curr)
           r == SaveChoice(m, Len(store.list), Pressed(curr))
<1>0. shell.state = "SAVE_MENU"
  BY DEF InSaveMenu
<1>1. CASE LoadSave(m.sel + 1, m, curr)
  BY <1>0, <1>1, LoadedWorld
<1>2. ASSUME KeepNes, InMenus,
             shell' = [shell EXCEPT !.prev = curr,
                  !.pending = IF r = "delete" THEN m.sel + 1 ELSE @,
                  !.status = IF r = "back" THEN Other ELSE @,
                  !.state = CASE r = "delete" -> "CONFIRM_DELETE_SAVE"
                              [] r = "clear" -> "CONFIRM_CLEAR_SAVES"
                              [] r = "back" -> Decided(roms)
                              [] OTHER -> @]
      PROVE  WorldNext
  <2> HIDE DEF m, r
  <2>1. /\ shell'.prev = curr /\ shell'.status \in {shell.status, Other}
        /\ shell'.loadedTime = shell.loadedTime /\ shell'.buf = shell.buf
    BY <1>2
  <2> QED
    BY <1>2, <2>1, QuietFrame
<1> QED
  BY <1>1, <1>2, Zenon DEF InSaveMenu

LEMMA CopyWorld ==
  ASSUME WorldOK, NEW m, NEW curr \in SUBSET Buttons, Copy(curr, m), KeepNes, InMenus
  PROVE  WorldNext
<1>1. CASE FreshRoms(SdRoms, curr, Other)
  <2>1. /\ shell'.prev = curr /\ shell'.status = Other
        /\ shell'.loadedTime = shell.loadedTime /\ shell'.buf = shell.buf
    BY <1>1 DEF FreshRoms
  <2> QED
    BY <2>1, QuietFrame
<1>2. CASE shell' = [shell EXCEPT !.status = Other, !.prev = curr]
  <2>1. /\ shell'.prev = curr /\ shell'.status = Other
        /\ shell'.loadedTime = shell.loadedTime /\ shell'.buf = shell.buf
    BY <1>2
  <2> QED
    BY <2>1, QuietFrame
<1> QED
  BY <1>1, <1>2, Zenon DEF Copy

LEMMA ImportWorld ==
  ASSUME WorldOK, NEW curr \in SUBSET Buttons, InImport(curr)
  PROVE  WorldNext
<1>0. KeepNes /\ InMenus
  BY Zenon DEF InImport
<1>1. CASE Copy(curr, menu)
  BY <1>0, <1>1, CopyWorld
<1>2. CASE shell' = [shell EXCEPT !.prev = curr]
  <2>1. /\ shell'.prev = curr /\ shell'.status = shell.status
        /\ shell'.loadedTime = shell.loadedTime /\ shell'.buf = shell.buf
    BY <1>2
  <2> QED
    BY <1>0, <2>1, QuietFrame
<1> QED
  BY <1>1, <1>2, Zenon DEF InImport

LEMMA MenuWorld ==
  ASSUME WorldOK, RomsOK, roms \in Seq(Roms), NEW curr \in SUBSET Buttons, InMenu(curr)
  PROVE  WorldNext
<1> DEFINE m == MenuStep(menu, Items(roms), curr)
           r == RomChoice(m, Len(roms), FlashActions, Pressed(curr))
<1>1. ASSUME shell' = [shell EXCEPT !.state = "CONFIRM_ERASE", !.prev = curr],
             KeepNes, InMenus
      PROVE  WorldNext
  <2>1. /\ shell'.prev = curr /\ shell'.status = shell.status
        /\ shell'.loadedTime = shell.loadedTime /\ shell'.buf = shell.buf
    BY <1>1
  <2> QED
    BY <1>1, <2>1, QuietFrame
<1>2. CASE Copy(curr, m) /\ KeepNes /\ InMenus
  BY <1>2, CopyWorld
<1>3. ASSUME NEW w \in Launch(Here, m.sel + 1),
             shell' = [w.shell EXCEPT !.prev = curr], nes' = w.nes, battery' = w.battery,
             IF w.ok THEN Runs({}) ELSE InMenus /\ UNCHANGED pad
      PROVE  WorldNext
  <2>1. WorldFine(Here)
    BY DEF WorldOK
  <2>2. ShellFine(w.shell) /\ NesFine(w.nes) /\ BatteryFine(w.battery)
    BY <1>3, <2>1, LaunchFine DEF WorldFine
  <2>3. /\ shell'.prev = curr /\ shell'.status = w.shell.status
        /\ shell'.loadedTime = w.shell.loadedTime /\ shell'.buf = w.shell.buf
    BY <1>3
  <2>4. ShellFine(shell')
    BY <2>2, <2>3 DEF ShellFine
  <2>5. pad' \in {{}, pad} /\ phase' \in {"shell", "step"}
    BY <1>3 DEF Runs, InMenus
  <2> QED
    BY <1>3, <2>2, <2>4, <2>5, WorldParts DEF WorldNext
<1>4. ASSUME KeepNes, InMenus,
             shell' = [shell EXCEPT !.prev = curr,
                  !.status = IF r = "launch" THEN Other
                             ELSE IF Pressed(curr) \cap {"Up", "Down"} # {} THEN Other ELSE @]
      PROVE  WorldNext
  <2> HIDE DEF m, r
  <2>1. /\ shell'.prev = curr /\ shell'.status \in {shell.status, Other}
        /\ shell'.loadedTime = shell.loadedTime /\ shell'.buf = shell.buf
    BY <1>4
  <2> QED
    BY <1>4, <2>1, QuietFrame
<1> QED
  BY <1>1, <1>2, <1>3, <1>4, Zenon DEF InMenu

(* A game that ends, whichever list follows it.                            *)
LEMMA ExitWorld ==
  ASSUME WorldOK, ImageOK, roms \in Seq(Roms), shell.state = "RUNNING",
         NEW curr \in SUBSET Buttons, Exit(curr)
  PROVE  WorldNext
<1>1. UNCHANGED pad /\ InMenus
  BY Zenon DEF Exit
<1>2. ReturnToMenu(curr) \/ \E list : ToSaveMenu(list, curr)
  BY Zenon DEF Exit
<1>3. PICK u \in Unload(Here) :
        /\ nes' = u.nes /\ battery' = u.battery
        /\ \/ shell' = [u.shell EXCEPT !.status = Other, !.state = Decided(roms), !.prev = curr]
           \/ shell' = [u.shell EXCEPT !.status = Other, !.state = "SAVE_MENU",
                                       !.saveRom = shell.running, !.prev = curr]
  BY <1>2, Zenon DEF ReturnToMenu, ToSaveMenu
<1>4. WorldFine(u)
  <2>1. WorldFine(Here) /\ Here.shell = shell
    BY DEF WorldOK, Here
  <2>2. shell.running \in DOMAIN roms
    BY DEF ImageOK
  <2> QED
    BY <2>1, <2>2, UnloadFine
<1>5. ShellFine(u.shell) /\ NesFine(u.nes) /\ BatteryFine(u.battery)
  BY <1>4 DEF WorldFine
<1>6. /\ shell'.prev = curr /\ shell'.status = Other
      /\ shell'.loadedTime = u.shell.loadedTime /\ shell'.buf = u.shell.buf
  <2>1. CASE shell' = [u.shell EXCEPT !.status = Other, !.state = Decided(roms), !.prev = curr]
    BY <2>1
  <2>2. CASE shell' = [u.shell EXCEPT !.status = Other, !.state = "SAVE_MENU",
                                      !.saveRom = shell.running, !.prev = curr]
    BY <2>2
  <2> QED
    BY <1>3, <2>1, <2>2, Zenon
<1>7. ShellFine(shell')
  BY <1>5, <1>6 DEF ShellFine, Statuses
<1> QED
  BY <1>1, <1>3, <1>5, <1>7, WorldParts DEF WorldNext, InMenus

LEMMA StoredWorld ==
  ASSUME NEW s, NEW x, NEW p, NEW f, NEW tm
  PROVE  /\ Stored(s, x, p, f, tm).prev = p /\ Stored(s, x, p, f, tm).status = Other
         /\ Stored(s, x, p, f, tm).loadedTime = tm /\ Stored(s, x, p, f, tm).buf = s.buf
BY DEF Stored

LEMMA TickedWorld ==
  ASSUME NEW s, NEW p, NEW x, NEW y
  PROVE  /\ Ticked(s, p, x, y).prev = p /\ Ticked(s, p, x, y).status = s.status
         /\ Ticked(s, p, x, y).loadedTime = s.loadedTime /\ Ticked(s, p, x, y).buf = s.buf
BY DEF Ticked

(* The capture of a game is one that a store can keep.                     *)
Capture == [time |-> nes.time, rom |-> shell.buf, game |-> nes.ram, whole |-> TRUE]

LEMMA CaptureFine ==
  ASSUME WorldOK, ImageOK, shell.state = "RUNNING", HasStore
  PROVE  Capture \in Captures
<1>1. nes.time \in 0 .. MaxTime /\ nes.ram \in Games /\ shell.buf \in Places
  BY WorldParts DEF NesFine
<1>2. shell.buf \in Roms
  BY <1>1 DEF ImageOK, Busy, Places
<1>3. nes.time \in Names /\ nes.time <= MaxTime
  BY <1>1, StoreAssumption DEF Names
<1> QED
  BY <1>1, <1>2, <1>3 DEF Capture, Captures, Blobs

(* What the store makes of it.                                             *)
Kept(r, q) ==
  /\ Refreshed(disk, roms[shell.running], r) /\ Saved(r.disk, r.store, Capture, q)

LEMMA CreateKeeps ==
  ASSUME WorldOK, ImageOK, roms \in Seq(Roms), shell.state = "RUNNING", HasStore,
         DiskFine(disk),
         NEW r \in RefreshOutcomes(disk, roms[shell.running]),
         NEW q \in SaveOutcomes(r.disk, r.store, Capture)
  PROVE  Kept(r, q)
<1>1. roms[shell.running] \in Roms
  BY DEF ImageOK
<1>2. Refreshed(disk, roms[shell.running], r)
  BY <1>1, RefreshSound
<1>3. Fine(r.disk, r.store)
  BY <1>2 DEF Refreshed
<1>4. Saved(r.disk, r.store, Capture, q)
  BY <1>3, CaptureFine, SaveSound
<1> QED
  BY <1>2, <1>4 DEF Kept

TimeOf(q) == IF q.ok THEN q.blob.time ELSE shell.loadedTime

LEMMA Created ==
  ASSUME NEW curr, CreateSave(curr)
  PROVE  \E r \in RefreshOutcomes(disk, roms[shell.running]) :
         \E q \in SaveOutcomes(r.disk, r.store, Capture) :
           /\ disk' = q.disk /\ store' = q.store
           /\ \E x, f : shell' = Stored(shell, x, curr, f, TimeOf(q))
           /\ Runs(curr \ SaveCombo)
<1> DEFINE x == shell.exitLatched /\ ExitCombo \subseteq curr
           From(q) == IF q.ok THEN TRUE ELSE shell.fromSave
<1>1. PICK r \in RefreshOutcomes(disk, roms[shell.running]) :
        \E q \in SaveOutcomes(r.disk, r.store, Capture) :
          /\ disk' = q.disk /\ store' = q.store
          /\ shell' = Stored(shell, x, curr, From(q), TimeOf(q))
          /\ Runs(curr \ SaveCombo)
  BY Zenon DEF CreateSave, Stored, Capture, TimeOf
<1> HIDE DEF x, From
<1> QED
  BY <1>1, Zenon

LEMMA CreateWorld ==
  ASSUME WorldOK, ImageOK, roms \in Seq(Roms), shell.state = "RUNNING", HasStore,
         DiskFine(disk), UNCHANGED <<nes, battery>>,
         NEW curr \in SUBSET Buttons, CreateSave(curr)
  PROVE  WorldNext
<1>1. PICK r \in RefreshOutcomes(disk, roms[shell.running]) :
         \E q \in SaveOutcomes(r.disk, r.store, Capture) :
           /\ disk' = q.disk /\ store' = q.store
           /\ \E x, f : shell' = Stored(shell, x, curr, f, TimeOf(q))
           /\ Runs(curr \ SaveCombo)
  BY Created, Zenon
<1>2. PICK q \in SaveOutcomes(r.disk, r.store, Capture) :
           /\ disk' = q.disk /\ store' = q.store
           /\ \E x, f : shell' = Stored(shell, x, curr, f, TimeOf(q))
           /\ Runs(curr \ SaveCombo)
  BY <1>1, Zenon
<1>3. PICK x, f : shell' = Stored(shell, x, curr, f, TimeOf(q))
  BY <1>2, Zenon
<1>4. q.blob \in Blobs
  BY CreateKeeps DEF Kept, Saved
<1>5. TimeOf(q) \in Names
  BY <1>4, WorldParts DEF TimeOf, Blobs
<1>6. ShellFine(shell')
  BY <1>3, <1>5, StoredWorld, WorldParts DEF ShellFine
<1>7. pad' \subseteq Buttons /\ phase' = "step"
  BY <1>2 DEF Runs
<1> QED
  BY <1>6, <1>7, WorldParts DEF WorldNext

LEMMA GameWorld ==
  ASSUME WorldOK, ImageOK, roms \in Seq(Roms), DiskFine(disk),
         NEW curr \in SUBSET Buttons, InGame(curr)
  PROVE  WorldNext
<1>0. shell.state = "RUNNING"
  BY DEF InGame
<1>1. CASE Exit(curr)
  BY <1>0, <1>1, ExitWorld
<1>2. CASE HasStore /\ CreateSave(curr) /\ UNCHANGED <<menu, saveMenu, nes, battery>>
  BY <1>0, <1>2, CreateWorld
<1>3. ASSUME NEW x, NEW y, shell' = Ticked(shell, curr, x, y),
             Runs(Stripped(curr)), UNCHANGED <<menu, saveMenu, nes, battery>>
      PROVE  WorldNext
  <2>1. ShellFine(shell')
    BY <1>3, TickedWorld, WorldParts DEF ShellFine
  <2>2. pad' = Stripped(curr) /\ phase' = "step" /\ nes' = nes /\ battery' = battery
    BY <1>3 DEF Runs
  <2>3. Stripped(curr) \subseteq Buttons
    BY DEF Stripped
  <2> QED
    BY <2>1, <2>2, <2>3, WorldParts DEF WorldNext
<1>4. \/ Exit(curr)
      \/ HasStore /\ CreateSave(curr) /\ UNCHANGED <<menu, saveMenu, nes, battery>>
      \/ /\ \E x, y : shell' = Ticked(shell, curr, x, y)
         /\ Runs(Stripped(curr)) /\ UNCHANGED <<menu, saveMenu, nes, battery>>
  BY Zenon DEF InGame, Ticked
<1> QED
  BY <1>1, <1>2, <1>3, <1>4, Zenon

(* Only where there is a card to copy from is the copy offered.            *)
LEMMA DecidedImport ==
  ASSUME NEW list
  PROVE  Decided(list) \in {"MENU", "IMPORT"} /\ (Decided(list) = "IMPORT" => HasImport)
BY DEF Decided

LEMMA AsksImport ==
  ASSUME ImageOK, RomsListed, NEW curr, Begin(curr), shell'.state = "IMPORT"
  PROVE  HasImport
<1>1. CASE ConfirmErase(curr)
  <2>1. CASE FreshRoms(<<>>, curr, Other)
    BY <2>1, FreshLists, DecidedImport
  <2>2. CASE FreshRoms(<<>>, curr, Other) = FALSE
    <3>1. shell' = [shell EXCEPT !.prev = curr,
                !.state = IF "B" \in Pressed(curr) THEN "MENU" ELSE @,
                !.status = IF "B" \in Pressed(curr) THEN Other ELSE @]
      BY <1>1, <2>2, Zenon DEF ConfirmErase
    <3>2. shell'.state \in {"MENU", shell.state}
      BY <3>1
    <3> QED
      BY <1>1, <3>2 DEF ConfirmErase
  <2> QED
    BY <2>1, <2>2 DEF FreshRoms
<1>2. CASE ConfirmClear(curr)
  <2>1. \/ shell' = [shell EXCEPT !.fromSave = FALSE, !.status = Other,
                                  !.state = Decided(roms), !.prev = curr]
        \/ \E st, x : /\ shell' = Answered(shell, curr, st, x)
                      /\ st = IF "B" \in Pressed(curr) THEN "SAVE_MENU" ELSE shell.state
    BY <1>2, Zenon DEF ConfirmClear, Answered
  <2>2. CASE shell' = [shell EXCEPT !.fromSave = FALSE, !.status = Other,
                                    !.state = Decided(roms), !.prev = curr]
    <3>1. shell'.state = Decided(roms)
      BY <2>2
    <3> QED
      BY <3>1, DecidedImport
  <2>3. ASSUME NEW st, NEW x, shell' = Answered(shell, curr, st, x),
               st = IF "B" \in Pressed(curr) THEN "SAVE_MENU" ELSE shell.state
        PROVE  HasImport
    BY <1>2, <2>3, AnsweredFields DEF ConfirmClear
  <2> QED
    BY <2>1, <2>2, <2>3, Zenon
<1>3. CASE ConfirmDelete(curr)
  <2>1. \/ shell' = [shell EXCEPT !.status = Other, !.state = "SAVE_MENU",
                                  !.pending = 0, !.prev = curr]
        \/ \E st, x, n : /\ shell' = AnsweredTo(shell, curr, st, x, n)
                         /\ st = IF "B" \in Pressed(curr) THEN "SAVE_MENU" ELSE shell.state
    BY <1>3, Zenon DEF ConfirmDelete, AnsweredTo
  <2>2. CASE shell' = [shell EXCEPT !.status = Other, !.state = "SAVE_MENU",
                                    !.pending = 0, !.prev = curr]
    BY <2>2
  <2>3. ASSUME NEW st, NEW x, NEW n, shell' = AnsweredTo(shell, curr, st, x, n),
               st = IF "B" \in Pressed(curr) THEN "SAVE_MENU" ELSE shell.state
        PROVE  HasImport
    BY <1>3, <2>3, AnsweredToFields DEF ConfirmDelete
  <2> QED
    BY <2>1, <2>2, <2>3, Zenon
<1>4. CASE InSaveMenu(curr)
  <2> DEFINE m == MenuStep(saveMenu, Len(store.list) + 2, curr)
             r == SaveChoice(m, Len(store.list), Pressed(curr))
  <2>0. shell.state = "SAVE_MENU" /\ KeepRoms
    BY <1>4 DEF InSaveMenu
  <2>1. CASE LoadSave(m.sel + 1, m, curr)
    BY <2>0, <2>1, LoadFrame DEF Starts
  <2>2. ASSUME shell' = [shell EXCEPT !.prev = curr,
                  !.pending = IF r = "delete" THEN m.sel + 1 ELSE @,
                  !.status = IF r = "back" THEN Other ELSE @,
                  !.state = CASE r = "delete" -> "CONFIRM_DELETE_SAVE"
                              [] r = "clear" -> "CONFIRM_CLEAR_SAVES"
                              [] r = "back" -> Decided(roms)
                              [] OTHER -> @]
        PROVE  HasImport
    <3> HIDE DEF m, r
    <3>1. shell'.state = CASE r = "delete" -> "CONFIRM_DELETE_SAVE"
                           [] r = "clear" -> "CONFIRM_CLEAR_SAVES"
                           [] r = "back" -> Decided(roms)
                           [] OTHER -> shell.state
      BY <2>2
    <3> QED
      BY <2>0, <3>1, DecidedImport
  <2> QED
    BY <1>4, <2>1, <2>2, Zenon DEF InSaveMenu
<1>5. CASE InImport(curr)
  BY <1>5 DEF InImport, RomsListed
<1>6. CASE InMenu(curr)
  <2> DEFINE m == MenuStep(menu, Items(roms), curr)
             r == RomChoice(m, Len(roms), FlashActions, Pressed(curr))
  <2>0. shell.state = "MENU" /\ Idle(shell, nes)
    BY <1>6 DEF InMenu, ImageOK
  <2>1. CASE shell' = [shell EXCEPT !.state = "CONFIRM_ERASE", !.prev = curr]
    BY <2>1
  <2>2. CASE HasImport
    BY <2>2
  <2>3. ASSUME NEW w \in Launch(Here, m.sel + 1), shell' = [w.shell EXCEPT !.prev = curr]
        PROVE  HasImport
    <3>1. w.shell.state \in {"RUNNING", shell.state}
      BY <2>0, <2>3, LaunchOutcome DEF Launched
    <3>2. shell'.state = w.shell.state
      BY <2>3
    <3> QED
      BY <2>0, <3>1, <3>2
  <2>4. ASSUME shell' = [shell EXCEPT !.prev = curr,
                    !.status = IF r = "launch" THEN Other
                               ELSE IF Pressed(curr) \cap {"Up", "Down"} # {} THEN Other ELSE @]
        PROVE  HasImport
    BY <2>0, <2>4
  <2> QED
    BY <1>6, <2>1, <2>2, <2>3, <2>4, Zenon DEF InMenu
<1>7. CASE InGame(curr)
  <2>0. shell.state = "RUNNING" /\ KeepRoms
    BY <1>7 DEF InGame
  <2>1. ASSUME NEW u, shell' = [u.shell EXCEPT !.status = Other, !.state = Decided(roms),
                                               !.prev = curr]
        PROVE  HasImport
    <3>1. shell'.state = Decided(roms)
      BY <2>1
    <3> QED
      BY <3>1, DecidedImport
  <2>2. CASE ReturnToMenu(curr)
    BY <2>1, <2>2, Zenon DEF ReturnToMenu
  <2>3. ASSUME NEW list, ToSaveMenu(list, curr)
        PROVE  HasImport
    BY <2>0, <2>3, ToSaveMenuFrame
  <2>4. CASE Exit(curr)
    BY <2>2, <2>3, <2>4, Zenon DEF Exit
  <2>5. CASE CreateSave(curr) /\ nes' = nes
    BY <2>0, <2>5, SaveFrame DEF GoesOn
  <2>6. ASSUME NEW x, NEW y, shell' = Ticked(shell, curr, x, y)
        PROVE  HasImport
    BY <2>0, <2>6, TickedFields
  <2>7. \/ Exit(curr) \/ (CreateSave(curr) /\ nes' = nes)
        \/ \E x, y : shell' = Ticked(shell, curr, x, y)
    BY <1>7, Zenon DEF InGame, Ticked
  <2> QED
    BY <2>4, <2>5, <2>6, <2>7, Zenon
<1> QED
  BY <1>1, <1>2, <1>3, <1>4, <1>5, <1>6, <1>7, Zenon DEF Begin

(* The list of ROMs after a frame.                                         *)
LEMMA ListingFrame ==
  ASSUME RomsOK, ImageOK, RomsListed, setup' = setup, NEW curr, Begin(curr)
  PROVE  RomsListed'
<1>0. HasImport' = HasImport /\ Platform' = Platform /\ SdRoms \in Seq(Roms)
  BY SetupLists DEF HasImport, Platform, SdCard, RomsOK
<1>1. shell'.state = "IMPORT" => HasImport
  BY AsksImport
<1>2. CASE KeepRoms
  BY <1>0, <1>1, <1>2 DEF KeepRoms, RomsListed
<1>3. ASSUME flash' = <<>>, roms' = <<>>
      PROVE  RomsListed'
  BY <1>0, <1>1, <1>3 DEF RomsListed
<1>4. ASSUME HasImport, NEW m, Copy(curr, m)
      PROVE  RomsListed'
  <2>1. roms' = SdRoms \/ roms' = roms
    BY <1>4 DEF Copy, FreshRoms
  <2> QED
    BY <1>0, <1>1, <1>4, <2>1 DEF RomsListed, HasImport
<1>5. CASE ConfirmErase(curr)
  BY <1>2, <1>3, <1>5, Zenon DEF ConfirmErase, FreshRoms
<1>6. CASE ConfirmClear(curr) \/ ConfirmDelete(curr) \/ InSaveMenu(curr) \/ InGame(curr)
  BY <1>2, <1>6, Zenon DEF ConfirmClear, ConfirmDelete, InSaveMenu, InGame
<1>7. CASE InImport(curr)
  BY <1>2, <1>4, <1>7, Zenon DEF InImport, RomsListed
<1>8. CASE InMenu(curr)
  BY <1>2, <1>4, <1>8, Zenon DEF InMenu
<1> QED
  BY <1>5, <1>6, <1>7, <1>8 DEF Begin

-----------------------------------------------------------------------------
(* The list of ROMs on the screen.                                         *)
MenuOK == menu \in Menu /\ Shown(menu, Items(roms))

LEMMA ItemsCounted ==
  ASSUME NEW list \in Seq(Roms)
  PROVE  Items(list) \in Nat /\ Len(list) \in Nat /\ Len(list) <= Items(list)
         /\ Items(list) <= Len(list) + 2 /\ (Items(list) = 0 <=> Len(list) = 0)
BY DEF Items

LEMMA FirstShown ==
  ASSUME NEW m \in Menu, NEW n \in Nat
  PROVE  PutAt(m, 0, 0) \in Menu /\ Shown(PutAt(m, 0, 0), n)
<1>1. PutAt(m, 0, 0) \in Menu /\ PutAt(m, 0, 0).sel = 0 /\ PutAt(m, 0, 0).top = 0
  BY Placed
<1> QED
  BY <1>1, MenusAssumption DEF Shown

Reselected(i) == MenuSelect(menu, Items(roms), Len(roms), i - 1)

(* Where a frame leaves the selection.                                     *)
Moved(curr) ==
  {menu, MenuStep(menu, Items(roms), curr), PutAt(menu, 0, 0),
   Absorb(Reselected(shell.running), curr), Reselected(shell.running)}

LEMMA MovedShown ==
  ASSUME roms \in Seq(Roms), MenuOK, shell.running \in Int,
         NEW curr, NEW m,
         m \in Moved(curr) \/ (m = BackToMenu /\ shell.saveRom \in Int)
  PROVE  m \in Menu /\ Shown(m, Items(roms))
<1>1. /\ Items(roms) \in Nat /\ Len(roms) \in Nat /\ Len(roms) <= Items(roms)
      /\ menu \in Menu /\ Shown(menu, Items(roms))
  BY ItemsCounted DEF MenuOK
<1>2. \A i \in Int : Reselected(i) \in Menu /\ Shown(Reselected(i), Items(roms))
  <2>1. ASSUME NEW i \in Int
        PROVE  Reselected(i) \in Menu /\ Shown(Reselected(i), Items(roms))
    <3>1. i - 1 \in Int
      OBVIOUS
    <3> QED
      BY <1>1, <3>1, SelectShown DEF Reselected
  <2> QED
    BY <2>1
<1>3. BackToMenu \in {Reselected(shell.saveRom), menu}
  BY DEF BackToMenu, Reselected
<1>4. /\ MenuStep(menu, Items(roms), curr) \in Menu
      /\ Shown(MenuStep(menu, Items(roms), curr), Items(roms))
  BY <1>1, StepShown
<1>5. PutAt(menu, 0, 0) \in Menu /\ Shown(PutAt(menu, 0, 0), Items(roms))
  BY <1>1, FirstShown
<1>6. /\ Absorb(Reselected(shell.running), curr) \in Menu
      /\ Shown(Absorb(Reselected(shell.running), curr), Items(roms))
  BY <1>2, HeldShown
<1> QED
  BY <1>1, <1>2, <1>3, <1>4, <1>5, <1>6 DEF Moved

LEMMA MenuMoves ==
  ASSUME NEW curr, Begin(curr)
  PROVE  \/ menu' = MenuInit
         \/ /\ roms' = roms
            /\ \/ menu' \in Moved(curr)
               \/ menu' = BackToMenu /\ shell.state \in SaveStates
<1>1. CASE ConfirmErase(curr)
  BY <1>1, Zenon DEF ConfirmErase, FreshRoms, KeepRoms, Moved
<1>2. CASE ConfirmClear(curr)
  BY <1>2, Zenon DEF ConfirmClear, KeepRoms, Moved, SaveStates
<1>3. CASE ConfirmDelete(curr)
  BY <1>3, Zenon DEF ConfirmDelete, KeepRoms, Moved
<1>4. CASE InSaveMenu(curr)
  BY <1>4, Zenon DEF InSaveMenu, LoadSave, KeepRoms, Moved, SaveStates
<1>5. CASE InImport(curr)
  BY <1>5, Zenon DEF InImport, Copy, FreshRoms, KeepRoms, Moved, PutAt
<1>6. CASE InMenu(curr)
  BY <1>6, Zenon DEF InMenu, Copy, FreshRoms, KeepRoms, Moved
<1>7. CASE InGame(curr)
  BY <1>7, Zenon DEF InGame, Exit, ReturnToMenu, ToSaveMenu, KeepRoms, Moved, Reselected
<1> QED
  BY <1>1, <1>2, <1>3, <1>4, <1>5, <1>6, <1>7, Zenon DEF Begin

-----------------------------------------------------------------------------
(* The list of saves on the screen.                                        *)
Within(m, n) == m \in Menu /\ m.sel < n /\ m.top < n

SavesOK ==
  /\ Within(saveMenu, Cap + 2) /\ DiskFine(disk)
  /\ shell.state \in SaveStates =>
       /\ Fine(disk, store)
       /\ Roomy /\ disk.faults = 0 => Shown(saveMenu, Len(store.list) + 2)
  /\ shell.state = "CONFIRM_DELETE_SAVE" =>
       shell.pending = saveMenu.sel + 1 /\ shell.pending \in DOMAIN store.list

(* A list has as many entries as times, since no two are the same.         *)
LEMMA EntriesCount ==
  ASSUME NEW l, EntriesOK(l)
  PROVE  IsFiniteSet(ToSet(l)) /\ Cardinality(ToSet(l)) = Len(l)
<1> DEFINE D == 1 .. Len(l)
           T == ToSet(l)
<1>0. l \in Seq(Names)
  BY DEF EntriesOK
<1>1. Len(l) \in Nat /\ DOMAIN l = D /\ \A i \in D : l[i] \in Int
  <2>1. Len(l) \in Nat /\ DOMAIN l = D /\ \A i \in D : l[i] \in Names
    BY <1>0
  <2>2. \A x \in Names : x \in Int
    BY NamesAreNaturals
  <2> HIDE DEF D
  <2> QED
    BY <2>1, <2>2, Zenon
<1>2. T = {l[i] : i \in D}
  BY <1>1 DEF ToSet
<1>3. l \in [D -> T]
  BY <1>1, <1>2 DEF EntriesOK
<1>4. \A i, j \in D : l[i] = l[j] => i = j
  BY <1>1 DEF EntriesOK
<1>5. l \in Surjection(D, T) /\ l \in Injection(D, T)
  BY <1>2, <1>3, <1>4 DEF Surjection, Injection, IsInjective
<1>6. IsFiniteSet(D) /\ Cardinality(D) = Len(l)
  BY <1>1, FS_Interval
<1> HIDE DEF D, T
<1>7. IsFiniteSet(T) /\ Cardinality(T) = Cardinality(D)
  BY <1>5, <1>6, FS_Surjection
<1> QED
  BY <1>6, <1>7 DEF T

LEMMA OneLess ==
  ASSUME NEW l, EntriesOK(l), NEW k, EntriesOK(k), NEW t, ToSet(l) \ {t} \subseteq ToSet(k)
  PROVE  Len(l) <= Len(k) + 1
<1>1. /\ IsFiniteSet(ToSet(l)) /\ Cardinality(ToSet(l)) = Len(l)
      /\ IsFiniteSet(ToSet(k)) /\ Cardinality(ToSet(k)) = Len(k)
  BY EntriesCount
<1>2. Len(l) \in Nat /\ Len(k) \in Nat
  BY DEF EntriesOK
<1>3. /\ IsFiniteSet(ToSet(l) \ {t})
      /\ Cardinality(ToSet(l) \ {t}) = IF t \in ToSet(l) THEN Len(l) - 1 ELSE Len(l)
  BY <1>1, FS_RemoveElement
<1>4. Cardinality(ToSet(l) \ {t}) <= Len(k)
  BY <1>1, FS_Subset
<1> QED
  BY <1>2, <1>3, <1>4

(* What is shown is within the list, and the first row is.                 *)
LEMMA ShownIn ==
  ASSUME NEW m \in Menu, NEW l, EntriesOK(l), m.sel < Len(l) + 2, m.top < Len(l) + 2
  PROVE  Within(m, Cap + 2)
BY StoreAssumption DEF Within, EntriesOK, Menu

LEMMA InitIn ==
  /\ Within(MenuInit, Cap + 2)
  /\ \A n \in Nat : Shown(MenuInit, n)
BY InitShown, StoreAssumption DEF Within

(* A frame that leads away from the saves.                                 *)
LEMMA SavesAway ==
  ASSUME DiskFine(disk'), Within(saveMenu', Cap + 2), shell'.state \notin SaveStates
  PROVE  SavesOK'
BY DEF SavesOK, SaveStates

(* One that keeps them, and what is deleted, as they are.                  *)
LEMMA SavesKept ==
  ASSUME SavesOK, KeepStore, saveMenu' = saveMenu, shell.state \in SaveStates,
         shell'.state \in SaveStates,
         shell'.state = "CONFIRM_DELETE_SAVE" =>
           shell.state = "CONFIRM_DELETE_SAVE" /\ shell'.pending = shell.pending
  PROVE  SavesOK'
BY Zenon DEF SavesOK, KeepStore

LEMMA ClearSaves ==
  ASSUME SavesOK, NEW curr, ConfirmClear(curr)
  PROVE  SavesOK'
<1>0. shell.state = "CONFIRM_CLEAR_SAVES"
  BY DEF ConfirmClear
<1>1. CASE "A" \in Pressed(curr)
  <2>1. PICK q \in ClearOutcomes(disk, store) : disk' = q.disk /\ store' = q.store
    BY <1>1, Zenon DEF ConfirmClear
  <2>2. Fine(disk, store)
    BY <1>0 DEF SavesOK, SaveStates
  <2>3. DiskFine(disk')
    BY <2>1, <2>2, ClearSound DEF Cleared, Removed, Fine
  <2>4. /\ saveMenu' = MenuInit
        /\ shell' = [shell EXCEPT !.fromSave = FALSE, !.status = Other,
                                  !.state = Decided(roms), !.prev = curr]
    BY <1>1, Zenon DEF ConfirmClear
  <2>5. shell'.state = Decided(roms)
    BY <2>4
  <2> QED
    BY <2>3, <2>4, <2>5, DecidedLists, InitIn, SavesAway DEF SaveStates
<1>2. CASE "A" \notin Pressed(curr)
  <2>1. PICK st, x : /\ shell' = Answered(shell, curr, st, x)
                     /\ st = IF "B" \in Pressed(curr) THEN "SAVE_MENU" ELSE shell.state
    BY <1>2, Zenon DEF ConfirmClear, Answered
  <2>2. KeepStore /\ saveMenu' = saveMenu
    BY <1>2, Zenon DEF ConfirmClear
  <2> QED
    BY <1>0, <2>1, <2>2, AnsweredFields, SavesKept DEF SaveStates
<1> QED
  BY <1>1, <1>2

(* The list is at most one entry shorter, so the selection stays in it.    *)
LEMMA DeletedShown ==
  ASSUME Fine(disk, store), Shown(saveMenu, Len(store.list) + 2), saveMenu \in Menu,
         shell.pending = saveMenu.sel + 1, shell.pending \in DOMAIN store.list,
         NEW q \in DeleteOutcomes(disk, store, shell.pending),
         Roomy, q.disk.faults = 0
  PROVE  /\ Shown(saveMenu, Len(q.store.list) + 2)
         /\ saveMenu.top <= saveMenu.sel
<1>1. Removed(disk, store, q)
  BY DeleteSound
<1>2. /\ Fine(q.disk, q.store) /\ disk.faults = 0
  BY <1>1 DEF Removed
<1>3. TakesOut(disk, store.dir, {store.list[shell.pending]}, q.disk) /\ q.store.dir = store.dir
  <2>1. DOMAIN disk.files = Dirs /\ store.dir \in Dirs
    BY DEF Fine, DiskFine, StoreFine
  <2>2. Deleted(disk, store, shell.pending, q)
    BY <2>1, DeleteOutcome
  <2> QED
    BY <2>2 DEF Deleted
<1>4. /\ ToSet(store.list) = TimesIn(disk.files[store.dir])
      /\ ToSet(q.store.list) = TimesIn(q.disk.files[store.dir])
  BY <1>2, <1>3 DEF Fine, Known
<1>5. ToSet(store.list) \ {store.list[shell.pending]} \subseteq ToSet(q.store.list)
  BY <1>3, <1>4 DEF TakesOut
<1>6. EntriesOK(store.list) /\ EntriesOK(q.store.list)
  BY <1>2 DEF Fine, StoreFine
<1>7. Len(store.list) <= Len(q.store.list) + 1
  BY <1>5, <1>6, OneLess
<1>8. Len(store.list) \in Nat /\ Len(q.store.list) \in Nat /\ DOMAIN store.list = 1 .. Len(store.list)
  BY <1>6 DEF EntriesOK
<1>9. /\ saveMenu.sel \in Nat /\ saveMenu.top \in Nat /\ VisibleRows \in Nat \ {0}
      /\ saveMenu.sel + 1 <= Len(store.list)
  BY <1>8, MenusAssumption DEF Menu
<1>10. saveMenu.sel \in saveMenu.top .. saveMenu.top + VisibleRows - 1
  BY <1>8 DEF Shown
<1>11. saveMenu.sel \in 0 .. (Len(q.store.list) + 2) - 1
  BY <1>7, <1>8, <1>9
<1> QED
  BY <1>8, <1>9, <1>10, <1>11 DEF Shown

LEMMA DeleteSaves ==
  ASSUME SavesOK, NEW curr, ConfirmDelete(curr)
  PROVE  SavesOK'
<1>0. /\ shell.state = "CONFIRM_DELETE_SAVE" /\ Fine(disk, store)
      /\ Roomy /\ disk.faults = 0 => Shown(saveMenu, Len(store.list) + 2)
      /\ shell.pending = saveMenu.sel + 1 /\ shell.pending \in DOMAIN store.list
      /\ Within(saveMenu, Cap + 2) /\ saveMenu \in Menu
  BY DEF ConfirmDelete, SavesOK, SaveStates, Within
<1>1. CASE "A" \in Pressed(curr)
  <2>1. PICK q \in DeleteOutcomes(disk, store, shell.pending) : disk' = q.disk /\ store' = q.store
    BY <1>1, Zenon DEF ConfirmDelete
  <2>2. Fine(disk', store') /\ DiskFine(disk') /\ (disk'.faults = 0 => disk.faults = 0)
    BY <1>0, <2>1, DeleteSound DEF Removed, Fine
  <2>3. /\ saveMenu' = [saveMenu EXCEPT !.top = IF @ > saveMenu.sel THEN saveMenu.sel ELSE @]
        /\ shell' = [shell EXCEPT !.status = Other, !.state = "SAVE_MENU",
                                  !.pending = 0, !.prev = curr]
    BY <1>1, Zenon DEF ConfirmDelete
  <2>4. /\ saveMenu' \in Menu /\ saveMenu'.sel = saveMenu.sel
        /\ saveMenu'.top = IF saveMenu.top > saveMenu.sel THEN saveMenu.sel ELSE saveMenu.top
    BY <1>0, <2>3 DEF Menu
  <2>5. Within(saveMenu', Cap + 2)
    BY <1>0, <2>4 DEF Within
  <2>6. ASSUME Roomy, disk'.faults = 0
        PROVE  Shown(saveMenu', Len(store'.list) + 2)
    <3>1. /\ Shown(saveMenu, Len(store'.list) + 2) /\ saveMenu.top <= saveMenu.sel
      BY <1>0, <2>1, <2>2, <2>6, DeletedShown
    <3>2. saveMenu.top \in Nat /\ saveMenu.sel \in Nat
      BY <1>0 DEF Menu
    <3> QED
      BY <2>4, <3>1, <3>2 DEF Shown
  <2>7. shell'.state = "SAVE_MENU"
    BY <2>3
  <2> QED
    BY <2>2, <2>5, <2>6, <2>7 DEF SavesOK
<1>2. CASE "A" \notin Pressed(curr)
  <2>1. PICK st, x, n : /\ shell' = AnsweredTo(shell, curr, st, x, n)
                        /\ st = IF "B" \in Pressed(curr) THEN "SAVE_MENU" ELSE shell.state
                        /\ n = IF "B" \in Pressed(curr) THEN 0 ELSE shell.pending
    BY <1>2, Zenon DEF ConfirmDelete, AnsweredTo
  <2>2. KeepStore /\ saveMenu' = saveMenu
    BY <1>2, Zenon DEF ConfirmDelete
  <2> QED
    BY <1>0, <2>1, <2>2, AnsweredToFields, SavesKept DEF SaveStates
<1> QED
  BY <1>1, <1>2

(* What the keys ask of the list of saves.                                 *)
LEMMA SaveMenuSaves ==
  ASSUME SavesOK, ImageOK, NEW curr, InSaveMenu(curr)
  PROVE  SavesOK'
<1> DEFINE m == MenuStep(saveMenu, Len(store.list) + 2, curr)
           r == SaveChoice(m, Len(store.list), Pressed(curr))
<1>0. /\ shell.state = "SAVE_MENU" /\ KeepRoms /\ Fine(disk, store)
      /\ Roomy /\ disk.faults = 0 => Shown(saveMenu, Len(store.list) + 2)
      /\ Within(saveMenu, Cap + 2) /\ saveMenu \in Menu
  BY DEF InSaveMenu, SavesOK, SaveStates, Within
<1>1. EntriesOK(store.list) /\ Len(store.list) \in Nat
      /\ DOMAIN store.list = 1 .. Len(store.list)
  BY <1>0 DEF Fine, StoreFine, EntriesOK
<1>2. /\ m \in Menu /\ m.sel < Len(store.list) + 2 /\ m.top < Len(store.list) + 2
      /\ Shown(saveMenu, Len(store.list) + 2) => Shown(m, Len(store.list) + 2)
  <2>1. Len(store.list) + 2 \in Nat /\ Len(store.list) + 2 # 0
    BY <1>1
  <2> QED
    BY <1>0, <2>1, StepShown
<1> HIDE DEF m
<1>3. Within(m, Cap + 2)
  BY <1>1, <1>2, ShownIn
<1>4. ASSUME saveMenu' \in {MenuInit, m}
      PROVE  /\ Within(saveMenu', Cap + 2)
             /\ Shown(saveMenu, Len(store.list) + 2) => Shown(saveMenu', Len(store.list) + 2)
  <2>1. Len(store.list) + 2 \in Nat
    BY <1>1
  <2> QED
    BY <1>2, <1>3, <1>4, <2>1, InitIn
<1>5. CASE LoadSave(m.sel + 1, m, curr)
  <2>1. PICK l \in LoadOutcomes(disk, store, m.sel + 1, blob) : disk' = l.disk /\ store' = store
    BY <1>5, Zenon DEF LoadSave
  <2>2. Reads(disk, l.disk) /\ Fine(l.disk, store)
    BY <1>0, LoadFound
  <2>3. saveMenu' \in {MenuInit, m}
    BY <1>5, Zenon DEF LoadSave, Loaded
  <2>4. disk'.faults = 0 => disk.faults = 0
    BY <1>0, <2>1, <2>2, ReadsFine DEF Fine
  <2>5. shell'.state \in {"RUNNING", "SAVE_MENU"}
    BY <1>0, <1>5, LoadFrame DEF Starts
  <2> QED
    BY <1>0, <1>4, <2>1, <2>2, <2>3, <2>4, <2>5 DEF SavesOK, Fine
<1>6. ASSUME KeepStore, saveMenu' = IF r = "back" THEN MenuInit ELSE m,
             shell' = [shell EXCEPT !.prev = curr,
                  !.pending = IF r = "delete" THEN m.sel + 1 ELSE @,
                  !.status = IF r = "back" THEN Other ELSE @,
                  !.state = CASE r = "delete" -> "CONFIRM_DELETE_SAVE"
                              [] r = "clear" -> "CONFIRM_CLEAR_SAVES"
                              [] r = "back" -> Decided(roms)
                              [] OTHER -> @]
      PROVE  SavesOK'
  <2>1. r = "delete" => m.sel < Len(store.list)
    BY DEF SaveChoice
  <2> HIDE DEF r
  <2>2. /\ shell'.pending = IF r = "delete" THEN m.sel + 1 ELSE shell.pending
        /\ shell'.state = CASE r = "delete" -> "CONFIRM_DELETE_SAVE"
                            [] r = "clear" -> "CONFIRM_CLEAR_SAVES"
                            [] r = "back" -> Decided(roms)
                            [] OTHER -> shell.state
    BY <1>6
  <2>3. disk' = disk /\ store' = store
    BY <1>6 DEF KeepStore
  <2>4. shell'.state = "CONFIRM_DELETE_SAVE" => r = "delete"
    BY <1>0, <2>2, DecidedLists
  <2>5. m.sel \in Nat
    BY <1>2 DEF Menu
  <2>6. saveMenu' \in {MenuInit, m}
    BY <1>6
  <2>7. shell'.state = "CONFIRM_DELETE_SAVE" =>
          shell'.pending = saveMenu'.sel + 1 /\ shell'.pending \in DOMAIN store.list
    BY <1>1, <1>6, <2>1, <2>2, <2>4, <2>5
  <2> QED
    BY <1>0, <1>4, <2>3, <2>6, <2>7 DEF SavesOK, Fine
<1> QED
  BY <1>5, <1>6, Zenon DEF InSaveMenu, m

(* The list that follows a game.                                           *)
LEMMA ExitSaves ==
  ASSUME SavesOK, ImageOK, roms \in Seq(Roms), shell.state = "RUNNING", KeepRoms,
         NEW curr, Exit(curr)
  PROVE  SavesOK'
<1>0. Within(saveMenu, Cap + 2) /\ DiskFine(disk)
  BY DEF SavesOK
<1>1. ASSUME ReturnToMenu(curr), DiskFine(disk')
      PROVE  SavesOK'
  <2>1. shell'.state \notin SaveStates
    BY <1>1, ReturnFrame DEF Ends, SaveStates
  <2>2. saveMenu' = saveMenu
    BY <1>1, Zenon DEF ReturnToMenu
  <2> QED
    BY <1>0, <1>1, <2>1, <2>2, SavesAway
<1>2. CASE ~HasStore
  <2>1. ReturnToMenu(curr) /\ UNCHANGED <<disk, store>>
    BY <1>2, Zenon DEF Exit
  <2> QED
    BY <1>0, <1>1, <2>1
<1>3. CASE HasStore
  <2>1. PICK r \in RefreshOutcomes(disk, roms[shell.running]) :
          /\ disk' = r.disk /\ store' = r.store
          /\ ReturnToMenu(curr) \/ ToSaveMenu(r.store.list, curr)
    BY <1>3, Zenon DEF Exit
  <2>2. roms[shell.running] \in Roms
    BY DEF ImageOK
  <2>3. Fine(disk', store') /\ DiskFine(disk')
    BY <1>0, <2>1, <2>2, RefreshSound DEF Refreshed, Fine
  <2>4. CASE ToSaveMenu(r.store.list, curr)
    <3> DEFINE list == store'.list
               x == IF shell.fromSave THEN SelectTime(list, shell.loadedTime) ELSE MenuInit
    <3>1. EntriesOK(list) /\ Len(list) \in Nat
      BY <2>3 DEF Fine, StoreFine, EntriesOK
    <3>2. saveMenu' = Seeded(x, curr)
      BY <2>1, <2>4, Zenon DEF ToSaveMenu
    <3>3. x \in Menu /\ Shown(x, Len(list) + 2)
      <4>1. Len(list) + 2 \in Nat
        BY <3>1
      <4>2. list \in Seq(Names) /\ \A i, j \in DOMAIN list : i < j => list[i] > list[j]
        BY <3>1 DEF EntriesOK
      <4>3. /\ SelectTime(list, shell.loadedTime) \in Menu
            /\ Shown(SelectTime(list, shell.loadedTime), Len(list) + 2)
        BY <4>2, TimeShown
      <4> QED
        BY <4>1, <4>3, InitShown
    <3> HIDE DEF x
    <3>4. saveMenu' \in Menu /\ Shown(saveMenu', Len(list) + 2)
      BY <3>2, <3>3, HeldShown
    <3>5. saveMenu'.sel < Len(list) + 2 /\ saveMenu'.top < Len(list) + 2
      <4>1. Len(list) + 2 \in Nat /\ Len(list) + 2 # 0
        BY <3>1
      <4>2. saveMenu'.sel \in Nat /\ saveMenu'.top \in Nat
        BY <3>4 DEF Menu
      <4> QED
        BY <3>4, <4>1, <4>2, ShownWithin
    <3>6. Within(saveMenu', Cap + 2)
      BY <3>1, <3>4, <3>5, ShownIn
    <3>7. shell'.state = "SAVE_MENU"
      BY <2>4, ToSaveMenuFrame
    <3> QED
      BY <2>3, <3>4, <3>6, <3>7 DEF SavesOK
  <2> QED
    BY <1>1, <2>1, <2>3, <2>4
<1> QED
  BY <1>2, <1>3

LEMMA GameSaves ==
  ASSUME WorldOK, SavesOK, ImageOK, roms \in Seq(Roms), NEW curr, InGame(curr)
  PROVE  SavesOK'
<1>0. /\ shell.state = "RUNNING" /\ KeepRoms
      /\ Within(saveMenu, Cap + 2) /\ DiskFine(disk)
  BY DEF InGame, SavesOK
<1>1. CASE Exit(curr)
  BY <1>0, <1>1, ExitSaves
<1>2. CASE HasStore /\ CreateSave(curr) /\ UNCHANGED <<menu, saveMenu, nes, battery>>
  <2>1. PICK r \in RefreshOutcomes(disk, roms[shell.running]) :
           \E q \in SaveOutcomes(r.disk, r.store, Capture) : disk' = q.disk
    BY <1>2, Created, Zenon
  <2>2. PICK q \in SaveOutcomes(r.disk, r.store, Capture) : disk' = q.disk
    BY <2>1, Zenon
  <2>3. DiskFine(disk')
    BY <1>0, <1>2, <2>2, CreateKeeps DEF Kept, Saved, Fine
  <2>4. shell'.state = "RUNNING"
    BY <1>0, <1>2, SaveFrame DEF GoesOn
  <2> QED
    BY <1>0, <1>2, <2>3, <2>4, SavesAway DEF SaveStates
<1>3. ASSUME NEW x, NEW y, shell' = Ticked(shell, curr, x, y), KeepStore,
             UNCHANGED <<menu, saveMenu, nes, battery>>
      PROVE  SavesOK'
  <2>1. shell'.state = "RUNNING"
    BY <1>0, <1>3, TickedFields
  <2>2. disk' = disk /\ saveMenu' = saveMenu
    BY <1>3 DEF KeepStore
  <2> QED
    BY <1>0, <2>1, <2>2, SavesAway DEF SaveStates
<1>4. \/ Exit(curr)
      \/ HasStore /\ CreateSave(curr) /\ UNCHANGED <<menu, saveMenu, nes, battery>>
      \/ /\ \E x, y : shell' = Ticked(shell, curr, x, y)
         /\ KeepStore /\ UNCHANGED <<menu, saveMenu, nes, battery>>
  BY Zenon DEF InGame, Ticked
<1> QED
  BY <1>1, <1>2, <1>3, <1>4, Zenon

(* The frames of the other lists do not touch the saves.                   *)
LEMMA OtherSaves ==
  ASSUME SavesOK, ImageOK, NEW curr,
         ConfirmErase(curr) \/ InImport(curr) \/ InMenu(curr)
  PROVE  SavesOK'
<1>1. /\ disk' = disk /\ saveMenu' = saveMenu
      /\ shell.state \in {"CONFIRM_ERASE", "IMPORT", "MENU"}
  BY DEF ConfirmErase, InImport, InMenu, KeepStore
<1>2. Stays(curr) \/ Starts(curr)
  BY EraseStays, ImportFrame, MenuFrame
<1>3. shell'.state \notin SaveStates
  BY <1>1, <1>2 DEF Stays, Starts, SaveStates
<1> QED
  BY <1>1, <1>3, SavesAway DEF SavesOK

-----------------------------------------------------------------------------
(* The lists over every step.                                              *)
ListsInv == shell.state \in States /\ RomsListed /\ WorldOK /\ MenuOK /\ SavesOK

LEMMA KeptParts ==
  ASSUME ShellKept
  PROVE  RomsOK /\ ImageOK /\ ListOK
BY Zenon DEF ShellKept, ShellSound

LEMMA ListsParts ==
  ASSUME ListsInv
  PROVE  /\ RomsListed /\ roms \in Seq(Roms)
         /\ (Platform # "pico" => flash \in Seq(Roms))
         /\ WorldOK /\ MenuOK /\ SavesOK /\ DiskFine(disk)
         /\ shell.state \in SaveStates => Fine(disk, store)
BY Zenon DEF ListsInv, RomsListed, SavesOK

LEMMA HeldButtons ==
  ASSUME RomsOK, NEW curr \in Inputs
  PROVE  curr \in SUBSET Buttons
BY ShellAssumption DEF RomsOK, Inputs

LEMMA RunningListed ==
  ASSUME ImageOK
  PROVE  shell.running # 0 => shell.running \in DOMAIN roms
BY DEF ImageOK, Idle

LEMMA WorldFrame ==
  ASSUME ShellKept, ListsInv, setup' = setup, NEW curr \in SUBSET Buttons, Begin(curr)
  PROVE  WorldOK'
<1>1. /\ RomsOK /\ ImageOK /\ WorldOK /\ roms \in Seq(Roms) /\ DiskFine(disk)
      /\ shell.state = "SAVE_MENU" => Fine(disk, store)
  BY KeptParts, ListsParts DEF SaveStates
<1>2. WorldNext
  <2>1. CASE ConfirmErase(curr) \/ ConfirmClear(curr) \/ ConfirmDelete(curr)
    BY <1>1, <2>1, DialogWorld
  <2>2. CASE InSaveMenu(curr)
    <3>1. shell.state = "SAVE_MENU"
      BY <2>2 DEF InSaveMenu
    <3> QED
      BY <1>1, <2>2, <3>1, SaveMenuWorld
  <2>3. CASE InImport(curr)
    BY <1>1, <2>3, ImportWorld
  <2>4. CASE InMenu(curr)
    BY <1>1, <2>4, MenuWorld
  <2>5. CASE InGame(curr)
    BY <1>1, <2>5, GameWorld
  <2> QED
    BY <2>1, <2>2, <2>3, <2>4, <2>5, Zenon DEF Begin
<1>3. HasStore' = HasStore
  BY DEF HasStore, Platform, SdCard
<1> QED
  BY <1>2, <1>3 DEF WorldNext, WorldOK, WorldFine, Here, ShellFine, NesFine, BatteryFine

LEMMA MenuShown ==
  ASSUME ShellKept, ListsInv, setup' = setup, RomsListed', NEW curr, Begin(curr)
  PROVE  MenuOK'
<1>0. \A list : Items(list)' = Items(list')
  BY DEF Items, FlashActions, Platform
<1>1. Items(roms)' = Items(roms') /\ roms' \in Seq(Roms) /\ Items(roms') \in Nat
  <2>1. roms' \in Seq(Roms)
    BY Zenon DEF RomsListed
  <2>2. Items(roms)' = Items(roms')
    BY DEF Items, FlashActions, Platform
  <2> QED
    BY <2>1, <2>2, ItemsCounted
<1>2. CASE menu' = MenuInit
  <2>1. Items(roms)' \in Nat
    BY <1>1
  <2> QED
    BY <1>2, <2>1, InitShown DEF MenuOK
<1>3. CASE /\ roms' = roms
           /\ \/ menu' \in Moved(curr)
              \/ menu' = BackToMenu /\ shell.state \in SaveStates
  <2>1. roms \in Seq(Roms) /\ MenuOK /\ ImageOK /\ ListOK
    BY KeptParts, ListsParts
  <2>2. shell.running \in Int
    BY <2>1, RunningListed
  <2>3. shell.state \in SaveStates => shell.saveRom \in Int
    BY <2>1 DEF ListOK
  <2>4. menu' \in Menu /\ Shown(menu', Items(roms))
    BY <1>3, <2>1, <2>2, <2>3, MovedShown
  <2>5. Items(roms)' = Items(roms)
    BY <1>3 DEF Items, FlashActions, Platform
  <2> QED
    BY <2>4, <2>5 DEF MenuOK
<1> QED
  BY <1>2, <1>3, MenuMoves

LEMMA SavesFrame ==
  ASSUME ShellKept, ListsInv, NEW curr, Begin(curr)
  PROVE  SavesOK'
<1>1. ImageOK /\ WorldOK /\ SavesOK /\ roms \in Seq(Roms)
  BY KeptParts, ListsParts
<1>2. CASE ConfirmErase(curr) \/ InImport(curr) \/ InMenu(curr)
  BY <1>1, <1>2, OtherSaves
<1>3. CASE ConfirmClear(curr)
  BY <1>1, <1>3, ClearSaves
<1>4. CASE ConfirmDelete(curr)
  BY <1>1, <1>4, DeleteSaves
<1>5. CASE InSaveMenu(curr)
  BY <1>1, <1>5, SaveMenuSaves
<1>6. CASE InGame(curr)
  BY <1>1, <1>6, GameSaves
<1> QED
  BY <1>2, <1>3, <1>4, <1>5, <1>6, Zenon DEF Begin

LEMMA ListsFrame ==
  ASSUME ShellKept, ListsInv, setup' = setup, NEW curr \in SUBSET Buttons, Begin(curr)
  PROVE  ListsInv'
<1>1. ShellSound /\ RomsOK /\ ImageOK /\ RomsListed
  BY DEF ShellKept, ShellSound, ListsInv
<1>2. RomsListed'
  BY <1>1, ListingFrame
<1>3. shell'.state \in States
  BY <1>1, FrameKinds DEF Stays, InLists, Starts, GoesOn, Ends, States, Dialogs
<1> QED
  BY <1>2, <1>3, WorldFrame, MenuShown, SavesFrame DEF ListsInv

(* A shell that starts, and what it starts with.                           *)
LEMMA NewShellFine ==
  ASSUME NEW list
  PROVE  /\ ShellFine(NewShell(list)) /\ NewShell(list).state = Decided(list)
         /\ NewShell(list).state \in States \ SaveStates
<1>1. 0 \in Names
  BY StoreAssumption DEF Names
<1>2. /\ NewShell(list).prev = Buttons /\ NewShell(list).status = Other
      /\ NewShell(list).loadedTime = 0 /\ NewShell(list).buf = NotRom
      /\ NewShell(list).state = Decided(list)
  BY DEF NewShell
<1> QED
  BY <1>1, <1>2, DecidedLists DEF ShellFine, Statuses, Places, States, SaveStates

LEMMA ListsStart == ShellInit => ListsInv
<1> SUFFICES ASSUME ShellInit PROVE ListsInv
  OBVIOUS
<1>1. FirstRoms \in Seq(Roms) /\ roms = FirstRoms /\ flash = FirstRoms
      /\ shell = NewShell(FirstRoms)
  BY SetupLists DEF ShellInit
<1>2. RomsListed /\ shell.state \in States \ SaveStates
  <2>1. shell.state = Decided(FirstRoms)
    BY <1>1, NewShellFine
  <2> QED
    BY <1>1, <2>1, NewShellFine, DecidedImport DEF RomsListed
<1>3. WorldOK
  <2>1. nes = NoCart /\ pad = {} /\ phase = "shell"
    BY DEF ShellInit
  <2>2. BatteryFine(battery)
    <3>1. battery.ram = [v \in Savs |-> Blank]
      BY DEF ShellInit
    <3> QED
      BY <3>1 DEF BatteryFine, Amounts
  <2> QED
    BY <1>1, <2>1, <2>2, NewShellFine, NoCartFine DEF WorldOK, WorldFine, Here
<1>4. MenuOK
  BY <1>1, ItemsCounted, InitShown DEF MenuOK, ShellInit
<1>5. SavesOK
  <2>1. DiskFine(disk)
    <3>1. PICK backend \in Backends : disk = EmptyDisk(backend)
      BY DEF ShellInit
    <3>2. /\ disk.files = NoFiles /\ disk.made = {} /\ disk.backend = backend
          /\ disk.faults = 0
      BY <3>1 DEF EmptyDisk
    <3>3. \A d \in Dirs : FilesOK(NoFiles[d]) /\ NoFiles[d] = <<>>
      BY DEF FilesOK, NoFiles
    <3>4. MaxFaults[backend] \in Nat /\ DOMAIN NoFiles = Dirs
      BY StoreAssumption DEF NoFiles
    <3> QED
      BY <3>2, <3>3, <3>4 DEF DiskFine
  <2> QED
    BY <1>2, <2>1, InitIn DEF SavesOK, ShellInit, SaveStates
<1> QED
  BY <1>2, <1>3, <1>4, <1>5 DEF ListsInv

(* Outside the frames: the game's own steps, and the shell started anew.   *)
LEMMA StepLists ==
  ASSUME RomsOK, ListsInv, setup' = setup,
         UNCHANGED <<shell, menu, saveMenu, roms, flash, disk, store, battery>>,
         NesFine(nes'), pad' \subseteq Buttons, phase' \in {"shell", "step"}
  PROVE  ListsInv'
<1>1. HasStore' = HasStore /\ HasImport' = HasImport /\ Platform' = Platform
  BY DEF HasStore, HasImport, Platform, SdCard
<1>2. Items(roms)' = Items(roms)
  BY DEF Items, FlashActions, Platform
<1>3. WorldOK'
  BY <1>1 DEF ListsInv, WorldOK, WorldFine, Here, ShellFine, NesFine, BatteryFine
<1>4. SavesOK'
  BY DEF ListsInv, SavesOK
<1>5. MenuOK' /\ RomsListed' /\ shell'.state \in States
  BY <1>1, <1>2 DEF ListsInv, MenuOK, RomsListed
<1> QED
  BY <1>3, <1>4, <1>5 DEF ListsInv

LEMMA AskedLists ==
  ASSUME ShellKept, ListsInv, setup' = setup, RequestMenu
  PROVE  ListsInv'
<1>0. /\ RomsOK /\ ImageOK /\ WorldOK /\ roms \in Seq(Roms) /\ RomsListed /\ SavesOK /\ MenuOK
  BY KeptParts, ListsParts
<1>1. HasStore' = HasStore /\ HasImport' = HasImport /\ Platform' = Platform
  BY DEF HasStore, HasImport, Platform, SdCard
<1>2. Items(roms)' = Items(roms')
  BY DEF Items, FlashActions, Platform
<1>3. PICK u \in Unload(Here) :
        /\ shell' = [u.shell EXCEPT !.status = Other, !.state = Decided(roms),
                                    !.exitLatched = FALSE]
        /\ nes' = u.nes /\ battery' = u.battery
  BY Zenon DEF RequestMenu
<1>4. /\ KeepRoms /\ KeepStore /\ saveMenu' = saveMenu /\ pad' = pad /\ phase' = phase
      /\ menu' \in {menu, Reselected(shell.running)}
  BY Zenon DEF RequestMenu, Reselected
<1>5. /\ shell'.state = Decided(roms) /\ shell'.status = Other
      /\ shell'.prev = u.shell.prev /\ shell'.loadedTime = u.shell.loadedTime
      /\ shell'.buf = u.shell.buf
  BY <1>3
<1>6. WorldOK'
  <2>1. WorldFine(Here) /\ Here.shell = shell /\ Other \in Statuses
    BY <1>0 DEF WorldOK, Here, Statuses
  <2>2. WorldFine(u)
    BY <1>0, <2>1, RunningListed, UnloadFine
  <2>3. ShellFine(u.shell) /\ NesFine(u.nes) /\ BatteryFine(u.battery)
    BY <2>2 DEF WorldFine
  <2>4. ShellFine(shell')
    BY <1>5, <2>1, <2>3 DEF ShellFine
  <2> QED
    BY <1>0, <1>1, <1>3, <1>4, <2>3, <2>4
       DEF WorldOK, WorldFine, Here, ShellFine, NesFine, BatteryFine
<1>7. MenuOK'
  <2>1. menu' \in Moved({})
    BY <1>4 DEF Moved
  <2>2. shell.running \in Int
    BY <1>0, RunningListed
  <2>3. menu' \in Menu /\ Shown(menu', Items(roms))
    BY <1>0, <2>1, <2>2, MovedShown
  <2> QED
    BY <1>2, <1>4, <2>3 DEF MenuOK, KeepRoms
<1>8. SavesOK' /\ shell'.state \in States
  BY <1>0, <1>4, <1>5, DecidedLists, SavesAway DEF SavesOK, KeepStore, SaveStates, States
<1>9. RomsListed'
  BY <1>0, <1>1, <1>4, <1>5, DecidedImport DEF RomsListed, KeepRoms
<1> QED
  BY <1>6, <1>7, <1>8, <1>9 DEF ListsInv

LEMMA AnewLists ==
  ASSUME RomsOK, ListsInv, setup' = setup, NEW b, BatteryFine(b), NEW left, Restart(b, left)
  PROVE  ListsInv'
<1>1. HasStore' = HasStore /\ HasImport' = HasImport /\ Platform' = Platform
  BY DEF HasStore, HasImport, Platform, SdCard
<1>2. Items(roms)' = Items(roms')
  BY DEF Items, FlashActions, Platform
<1>3. /\ battery' = [b EXCEPT !.failed = FALSE] /\ roms' = Listed(flash)
      /\ shell' = NewShell(Listed(flash)) /\ menu' = MenuInit /\ saveMenu' = MenuInit
      /\ nes' = NoCart /\ pad' = {} /\ phase' = "shell" /\ flash' = flash /\ disk' = disk
  BY DEF Restart
<1>4. Listed(flash) \in Seq(Roms)
  <2>1. CASE Platform = "pico"
    BY <2>1, ListedRoms
  <2>2. CASE Platform # "pico"
    <3>1. flash \in Seq(Roms)
      BY <2>2, ListsParts
    <3>2. Listed(flash) = [i \in DOMAIN flash |-> flash[i]]
      BY <2>2 DEF Listed
    <3> QED
      BY <3>1, <3>2
  <2> QED
    BY <2>1, <2>2
<1>5. shell'.state = Decided(Listed(flash)) /\ shell'.state \in States \ SaveStates
  BY <1>3, NewShellFine
<1>6. RomsListed'
  BY <1>1, <1>3, <1>4, <1>5, DecidedImport DEF ListsInv, RomsListed
<1>7. WorldOK'
  <2>1. BatteryFine(battery')
    BY <1>3 DEF BatteryFine
  <2>2. ShellFine(shell') /\ NesFine(nes')
    BY <1>3, NewShellFine, NoCartFine
  <2> QED
    BY <1>1, <1>3, <2>1, <2>2 DEF WorldOK, WorldFine, Here, ShellFine, NesFine, BatteryFine
<1>8. MenuOK'
  <2>1. Items(roms') \in Nat
    BY <1>3, <1>4, ItemsCounted
  <2> QED
    BY <1>2, <1>3, <2>1, InitShown DEF MenuOK
<1>9. SavesOK'
  BY <1>3, <1>5, InitIn, SavesAway DEF ListsInv, SavesOK
<1> QED
  BY <1>5, <1>6, <1>7, <1>8, <1>9 DEF ListsInv

LEMMA ListsStep == ShellKept /\ ListsInv /\ [ShellNext]_allVars => ListsInv'
<1> SUFFICES ASSUME ShellKept, ListsInv, [ShellNext]_allVars PROVE ListsInv'
  OBVIOUS
<1>0. setup' = setup
  BY Zenon DEF ShellNext, allVars, shellVars
<1>1. RomsOK /\ ImageOK /\ WorldOK /\ roms \in Seq(Roms)
  BY KeptParts, ListsParts
<1>2. /\ NesFine(nes) /\ BatteryFine(battery) /\ pad \subseteq Buttons
      /\ phase \in {"shell", "step"} /\ WorldFine(Here)
  BY <1>1, WorldParts DEF WorldOK
<1>3. CASE UNCHANGED allVars
  <2>1. /\ UNCHANGED <<shell, menu, saveMenu, roms, flash, disk, store, battery>>
        /\ nes' = nes /\ pad' = pad /\ phase' = phase
    BY <1>3, Zenon DEF allVars, shellVars, vars
  <2> QED
    BY <1>0, <1>1, <1>2, <2>1, StepLists
<1>4. ASSUME NEW curr \in Inputs, Begin(curr)
      PROVE  ListsInv'
  <2>1. curr \in SUBSET Buttons
    BY <1>1, HeldButtons
  <2> QED
    BY <1>0, <1>4, <2>1, ListsFrame
<1>5. ASSUME NEW curr \in Inputs, Poll(curr)
      PROVE  ListsInv'
  <2>1. curr \in SUBSET Buttons
    BY <1>1, HeldButtons
  <2>2. /\ UNCHANGED <<shell, menu, saveMenu, roms, flash, disk, store, battery>>
        /\ nes' = nes /\ pad' = curr /\ phase' = phase
    BY <1>5, Zenon DEF Poll, KeepRoms, KeepStore
  <2> QED
    BY <1>0, <1>1, <1>2, <2>1, <2>2, StepLists
<1>6. CASE Step
  <2>1. /\ UNCHANGED <<shell, menu, saveMenu, roms, flash, disk, store, battery>>
        /\ pad' = pad /\ phase' = "shell"
    BY <1>6, Zenon DEF Step, KeepRoms, KeepStore
  <2>2. PICK r \in Written \cup {nes.ram} : \E t \in {nes.time, nes.time + 1} :
          t <= MaxTime /\ nes' = [nes EXCEPT !.ram = r, !.time = t]
    BY <1>6, Zenon DEF Step
  <2>3. PICK t \in {nes.time, nes.time + 1} :
          t <= MaxTime /\ nes' = [nes EXCEPT !.ram = r, !.time = t]
    BY <2>2, Zenon
  <2>4. nes'.ram = r /\ nes'.time = t
    BY <2>3
  <2>5. r \in Amounts /\ (HasStore => r \in Games)
    <3>1. Written \subseteq Games
      BY <1>1, ShellAssumption DEF RomsOK, Written
    <3> QED
      BY <1>2, <3>1 DEF NesFine, Amounts
  <2>6. t \in 0 .. MaxTime
    BY <1>2, <2>3, StoreAssumption DEF NesFine
  <2>7. NesFine(nes')
    BY <2>4, <2>5, <2>6 DEF NesFine
  <2> QED
    BY <1>0, <1>1, <1>2, <2>1, <2>7, StepLists
<1>7. CASE RequestReset
  <2>1. /\ UNCHANGED <<shell, menu, saveMenu, roms, flash, disk, store, battery>>
        /\ pad' = pad /\ phase' = phase /\ nes' = [nes EXCEPT !.ram = Blank, !.time = 0]
    BY <1>7, Zenon DEF RequestReset, KeepRoms, KeepStore
  <2>2. nes'.ram = Blank /\ nes'.time = 0
    BY <2>1
  <2>3. NesFine(nes')
    BY <2>2, ShellAssumption, StoreAssumption DEF NesFine, Amounts
  <2> QED
    BY <1>0, <1>1, <1>2, <2>1, <2>3, StepLists
<1>8. CASE RequestMenu
  BY <1>0, <1>8, AskedLists
<1>9. CASE PowerCut
  BY <1>0, <1>1, <1>2, <1>9, AnewLists DEF PowerCut
<1>10. CASE Quit
  <2>1. PICK u \in Unload(Here) : Restart(u.battery, Left(u.battery))
    BY <1>10, Zenon DEF Quit
  <2>2. Here.shell = shell
    BY DEF Here
  <2>3. BatteryFine(u.battery)
    BY <1>1, <1>2, <2>2, RunningListed, UnloadFine DEF WorldFine
  <2> QED
    BY <1>0, <1>1, <2>1, <2>3, AnewLists
<1>11. CASE KilledInWrite
  <2> DEFINE sav == SavOf[roms[shell.running]]
             some == {Blank, Torn, nes.ram}
  <2>1. PICK x \in some :
          Restart([battery EXCEPT !.ram[sav] = x], [ghost.left EXCEPT ![sav] = some])
    BY <1>11, Zenon DEF KilledInWrite
  <2>2. x \in Amounts
    BY <1>2 DEF NesFine, Amounts
  <2> HIDE DEF sav, some
  <2> DEFINE b == [battery EXCEPT !.ram[sav] = x]
  <2>3. b.ram = [battery.ram EXCEPT ![sav] = x]
    OBVIOUS
  <2> HIDE DEF b
  <2>4. BatteryFine(b)
    BY <1>2, <2>2, <2>3 DEF BatteryFine
  <2> QED
    BY <1>0, <1>1, <2>1, <2>4, AnewLists DEF b
<1> QED
  BY <1>3, <1>4, <1>5, <1>6, <1>7, <1>8, <1>9, <1>10, <1>11, Zenon DEF ShellNext

LEMMA MenuTyped ==
  ASSUME NEW m \in Menu, NEW n \in Nat, m.sel < n, m.top < n
  PROVE  m \in [sel : 0 .. n - 1, top : 0 .. n - 1, dir : {-1, 0, 1},
                frames : 0 .. HoldDelay + HoldRate - 1]
BY DEF Menu

LEMMA MenuBounds ==
  ASSUME MenuOK, roms \in Seq(Roms)
  PROVE  menu.sel < Len(roms) + 2 /\ menu.top < Len(roms) + 2
<1>1. /\ Items(roms) \in Nat /\ Len(roms) \in Nat /\ Items(roms) <= Len(roms) + 2
      /\ menu \in Menu /\ Shown(menu, Items(roms))
  BY ItemsCounted DEF MenuOK
<1>2. menu.sel \in Nat /\ menu.top \in Nat
  BY <1>1 DEF Menu
<1>3. CASE Items(roms) = 0
  BY <1>1, <1>2, <1>3, MenusAssumption DEF Shown
<1>4. CASE Items(roms) # 0
  <2>1. menu.sel < Items(roms) /\ menu.top < Items(roms)
    BY <1>1, <1>2, <1>4, ShownWithin
  <2> QED
    BY <1>1, <1>2, <2>1
<1> QED
  BY <1>3, <1>4

LEMMA ListsTyped ==
  ASSUME ShellKept, ListsInv
  PROVE  ShellTypeOK /\ SaveMenuOfRom
<1>1. /\ RomsOK /\ ImageOK /\ ListOK /\ WorldOK /\ MenuOK /\ SavesOK
      /\ roms \in Seq(Roms) /\ shell.state \in States
  BY KeptParts, ListsParts DEF ListsInv
<1>2. /\ shell.prev \subseteq Buttons /\ shell.status \in {Other, "save write failed"}
      /\ shell.loadedTime \in Names /\ shell.buf \in Roms \cup {NotRom}
      /\ pad \subseteq Buttons /\ phase \in {"shell", "step"}
      /\ nes.ram \in Games \cup {Blank, Torn} /\ nes.time \in 0 .. MaxTime
  BY <1>1, WorldParts DEF WorldOK, NesFine, Amounts, Statuses, Places
<1>3. shell.running \in 0 .. Len(roms) /\ shell.lent \in {0, 1}
  BY <1>1 DEF ImageOK, Idle, Busy
<1>4. menu \in [sel : 0 .. Len(roms) + 1, top : 0 .. Len(roms) + 1, dir : {-1, 0, 1},
                frames : 0 .. HoldDelay + HoldRate - 1]
  <2>1. Len(roms) + 2 \in Nat /\ Len(roms) + 2 - 1 = Len(roms) + 1 /\ menu \in Menu
    BY <1>1 DEF MenuOK
  <2> QED
    BY <1>1, <2>1, MenuBounds, MenuTyped
<1>5. saveMenu \in [sel : 0 .. Cap + 1, top : 0 .. Cap + 1, dir : {-1, 0, 1},
                    frames : 0 .. HoldDelay + HoldRate - 1]
  <2> DEFINE n == Cap + 2
  <2>1. n \in Nat /\ n - 1 = Cap + 1
    BY StoreAssumption
  <2>2. saveMenu \in Menu /\ saveMenu.sel < n /\ saveMenu.top < n
    BY <1>1 DEF SavesOK, Within
  <2> HIDE DEF n
  <2>3. saveMenu \in [sel : 0 .. n - 1, top : 0 .. n - 1, dir : {-1, 0, 1},
                      frames : 0 .. HoldDelay + HoldRate - 1]
    BY <2>1, <2>2, MenuTyped
  <2> QED
    BY <2>1, <2>3
<1>6. ShellTypeOK
  BY <1>1, <1>2, <1>3, <1>4, <1>5, Zenon DEF ShellTypeOK
<1>7. SaveMenuOfRom
  BY <1>1, Zenon DEF SaveMenuOfRom, ListOK, SavesOK, SaveStates
<1> QED
  BY <1>6, <1>7

LEMMA ListsSeen ==
  ASSUME ListsInv, Roomy, disk.faults = 0
  PROVE  CursorVisible
BY ListsParts DEF CursorVisible, MenuOK, SavesOK, SaveStates

(* Type correctness of the shell, and the list of saves is that of the ROM *)
(* it was opened for, with the deletion a dialog asks about one of its     *)
(* entries (app_shell.c, shell_enter_save_menu and the dialogs).           *)
THEOREM ShellTyped == ShellSpec => [](ShellTypeOK /\ SaveMenuOfRom)
<1>1. ShellInit => ShellKept /\ ListsInv
  BY KeptStart, ListsStart
<1>2. ShellKept /\ ListsInv /\ [ShellNext]_allVars => ShellKept' /\ ListsInv'
  BY KeptStep, ListsStep
<1>3. ShellKept /\ ListsInv => ShellTypeOK /\ SaveMenuOfRom
  BY ListsTyped
<1> QED
  BY <1>1, <1>2, <1>3, PTL DEF ShellSpec

(* Whatever a frame did, the list on the screen is the one its title says  *)
(* and its selection is an item of it and on a row that is drawn (the      *)
(* menus of app_shell.c and rom_menu.c), for as long as the card has not   *)
(* failed and a directory cannot hold more saves than are listed.          *)
THEOREM ListsAreTrue ==
  ASSUME Roomy
  PROVE  ShellSpec => [](disk.faults = 0 => ListsOK)
<1>1. ShellInit => ShellKept /\ ListsInv
  BY KeptStart, ListsStart
<1>2. ShellKept /\ ListsInv /\ [ShellNext]_allVars => ShellKept' /\ ListsInv'
  BY KeptStep, ListsStep
<1>3. ShellKept /\ ListsInv => (disk.faults = 0 => ListsOK)
  BY ListsTyped, ListsSeen, Zenon DEF ListsOK
<1> QED
  BY <1>1, <1>2, <1>3, PTL DEF ShellSpec
=============================================================================
