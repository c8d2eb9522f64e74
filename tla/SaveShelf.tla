----------------------------- MODULE SaveShelf -----------------------------
(***************************************************************************)
(* What a save-state store promises about the saves it keeps, call by call *)
(* and answer by answer: one shelf per directory; a save never changes     *)
(* once it stands there; a new one takes a free place, and replaces        *)
(* another only when Tries neighbouring places are all taken, or when the  *)
(* store could not see the whole shelf; what leaves a shelf was named by   *)
(* a call to delete it.  The exceptions are those of a call that the file  *)
(* system failed: ask.quiet is FALSE.                                      *)
(***************************************************************************)
EXTENDS Integers, FiniteSets

CONSTANTS Dirs,   \* the directories, one per ROM name of eight characters
          Saves,  \* everything a file can hold, with its time
          Cap,    \* saves that the listing of a shelf has room for (64)
          Tries   \* places a new save tries (60)

VARIABLES
  shelf,
  ask,     \* the last call, its answer, the times it was about, and whether
           \* all its reads and writes succeeded
  at,      \* the shelf that it was about
  direct   \* whether the store looks for a free place on the shelf (POSIX),
           \* or in the listing of it (SD)

Init == shelf \in [Dirs -> {{}}]

Place(t) == {s \in shelf[at'] : s.time = t}
Asked == {s \in shelf[at'] : s.time \in ask'.of}

Crowded(t) == \A n \in t - Tries + 1 .. t : Place(n) # {}
Blind == ~direct /\ (~ask'.quiet \/ Cardinality(shelf[at']) > Cap)

Look == ask'.call \in {"refresh", "load"} /\ shelf' = shelf

\* Some of a save that failed may be there, under a name that was free for it.
Add ==
  /\ ask'.call = "save"
  /\ \E s \in shelf'[at'] :
       /\ ask'.of = {s.time} /\ s.whole = ask'.ok /\ (ask'.ok \/ ~ask'.quiet)
       /\ Place(s.time) = {} \/ Crowded(s.time) \/ Blind
       /\ shelf'[at'] = (shelf[at'] \ Place(s.time)) \cup {s}

Refuse == ask'.call \in {"save", "delete"} /\ ~ask'.ok /\ shelf' = shelf

Remove ==
  /\ ask'.call = "delete" /\ ask'.ok
  /\ \/ shelf'[at'] = shelf[at'] \ Asked
     \/ ~ask'.quiet /\ shelf' = shelf

Spoil ==
  /\ ask'.call = "delete" /\ ~ask'.ok /\ ~ask'.quiet
  /\ shelf'[at'] = (shelf[at'] \ Asked) \cup {[s EXCEPT !.whole = FALSE] : s \in Asked}

\* Of what is cleared at most what the listing had no room for remains.
ClearAll ==
  /\ ask'.call = "clear_all" /\ (ask'.ok \/ ~ask'.quiet)
  /\ shelf'[at'] \subseteq shelf[at']
  /\ ask'.ok /\ ask'.quiet => \A s \in shelf'[at'] : ~direct /\ s.time \in ask'.of

Next ==
  /\ Look \/ Add \/ Refuse \/ Remove \/ Spoil \/ ClearAll
  /\ shelf' \in [Dirs -> SUBSET Saves] /\ at' \in Dirs /\ direct' = direct
  /\ \A d \in Dirs \ {at'} : shelf'[d] = shelf[d]

Spec == Init /\ [][Next]_<<shelf, ask, at, direct>>
=============================================================================
