------------------------------- MODULE Menus -------------------------------
(***************************************************************************)
(* The two lists of src/common/rom_menu.c as operators on a menu record:   *)
(* sel and top index from 0, dir is the direction held (-1, 0, 1) and      *)
(* frames the frames it has been held.  frames grows without bound in the  *)
(* code and is only compared and divided, so here it starts again at       *)
(* HoldDelay after each repetition.                                        *)
(***************************************************************************)
EXTENDS Integers, Sequences, FiniteSets

CONSTANTS
  VisibleRows,  \* MENU_VISIBLE_ROWS (21)
  HoldDelay,    \* MENU_HOLD_INITIAL_DELAY (18)
  HoldRate      \* MENU_HOLD_REPEAT_RATE (4)

ASSUME MenusAssumption ==
  VisibleRows \in Nat \ {0} /\ HoldDelay \in Nat \ {0, 1} /\ HoldRate \in Nat \ {0}

Buttons == {"A", "B", "Select", "Start", "Up", "Down"}

Menu == [sel : Nat, top : Nat, dir : {-1, 0, 1}, frames : 0 .. HoldDelay + HoldRate - 1]

MenuInit == [sel |-> 0, top |-> 0, dir |-> 0, frames |-> 0]

Direction(curr) ==
  IF "Up" \in curr /\ "Down" \notin curr THEN -1
  ELSE IF "Down" \in curr /\ "Up" \notin curr THEN 1 ELSE 0

Clamp(x, low, high) == IF x < low THEN low ELSE IF x > high THEN high ELSE x

MaxTop(n) == IF n > VisibleRows THEN n - VisibleRows ELSE 0

\* The window follows the selection.
Scroll(m, n) ==
  LET t == IF m.sel < m.top THEN m.sel
           ELSE IF m.sel >= m.top + VisibleRows THEN m.sel - (VisibleRows - 1) ELSE m.top
  IN  [m EXCEPT !.top = Clamp(t, 0, MaxTop(n))]

Move(m, n, d) ==
  IF n <= 0 THEN [m EXCEPT !.sel = 0, !.top = 0]
  ELSE LET next == m.sel + d
       IN  Scroll([m EXCEPT !.sel = IF next < 0 THEN n - 1
                                    ELSE IF next >= n THEN 0 ELSE next], n)

\* A fresh direction moves at once, a held one after the delay and then at
\* the repeat rate.
Hold(m, n, curr) ==
  LET d == Direction(curr)
      f == m.frames + 1
      repeats == f >= HoldDelay /\ (f - HoldDelay) % HoldRate = 0
  IN  IF d = 0 THEN [m EXCEPT !.dir = 0, !.frames = 0]
      ELSE IF d # m.dir THEN [Move(m, n, d) EXCEPT !.dir = d, !.frames = 1]
      ELSE IF repeats THEN [Move(m, n, d) EXCEPT !.frames = HoldDelay]
      ELSE [m EXCEPT !.frames = f]

\* The list may have shrunk since the last frame.
Confine(m, n) ==
  IF n <= 0 THEN [m EXCEPT !.sel = 0, !.top = 0]
  ELSE [m EXCEPT !.sel = Clamp(@, 0, n - 1), !.top = Clamp(@, 0, MaxTop(n))]

MenuStep(m, n, curr) == Confine(Hold(m, n, curr), n)

\* rom_menu_select: n items, the first roms of them ROMs.
MenuSelect(m, n, roms, i) ==
  IF n <= 0 THEN MenuInit
  ELSE Scroll([m EXCEPT !.sel = Clamp(i, 0, IF roms > 0 THEN roms - 1 ELSE 0),
                        !.dir = 0, !.frames = 0], n)

(* Mutant: the first entry that is older is taken.                        *)
SelectOlder(list, t) ==
  LET at == {i \in DOMAIN list : list[i] < t}
      sel == IF at = {} THEN 0 ELSE (CHOOSE i \in at : \A j \in at : i <= j) - 1
  IN  Scroll([MenuInit EXCEPT !.sel = sel], Len(list) + 2)

\* save_menu_select_elapsed: the entry with that time, or the first.
SelectTime(list, t) ==
  LET at == {i \in DOMAIN list : list[i] = t}
      sel == IF at = {} THEN 0 ELSE (CHOOSE i \in at : \A j \in at : i <= j) - 1
  IN  Scroll([MenuInit EXCEPT !.sel = sel], Len(list) + 2)

\* A direction held since before the menu was shown counts as held.
Absorb(m, curr) ==
  [m EXCEPT !.dir = Direction(curr), !.frames = IF Direction(curr) = 0 THEN 0 ELSE 1]

\* What a press asks of the ROM menu (roms entries, then erase and copy if
\* flash) and of the save menu (saves entries, then clear and back).
RomChoice(m, roms, flash, pressed) ==
  LET n == roms + (IF flash /\ roms > 0 THEN 2 ELSE 0)
  IN  IF pressed \cap {"Start", "A"} = {} \/ n = 0 THEN "none"
      ELSE IF flash /\ m.sel = roms THEN "erase"
      ELSE IF flash /\ m.sel = roms + 1 THEN "import" ELSE "launch"

SaveChoice(m, saves, pressed) ==
  IF pressed \cap {"Start", "A"} # {}
  THEN IF m.sel = saves THEN "clear" ELSE IF m.sel = saves + 1 THEN "back" ELSE "load"
  ELSE IF "B" \in pressed THEN "back"
  ELSE IF "Select" \in pressed /\ m.sel < saves THEN "delete" ELSE "none"

\* The selected row is one of the rows drawn, and is an item of the list.
Shown(m, n) ==
  IF n = 0 THEN m.sel = 0 /\ m.top = 0
  ELSE m.sel \in 0 .. n - 1 /\ m.sel \in m.top .. m.top + VisibleRows - 1
=============================================================================
