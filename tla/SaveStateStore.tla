--------------------------- MODULE SaveStateStore ---------------------------
(***************************************************************************)
(* The save-state stores of src/pico/save_state_store_sd.c and             *)
(* src/host/save_state_store_posix.c: the saves of a ROM are the files     *)
(* "<elapsed seconds>.SAV" of the directory its name maps to, and the      *)
(* store keeps the listing of the directory it was last refreshed for.     *)
(*                                                                         *)
(* Each call is an operator that returns the set of its outcomes, so that  *)
(* AppShell makes the same calls.  A file is [time, rom, game, whole]: the *)
(* time is its name and the time in its header, rom and game stand for the *)
(* rest, and whole is FALSE when its bytes are not those of one capture.   *)
(* A directory maps its occupied slots to files; FAT lists them by slot.   *)
(***************************************************************************)
EXTENDS Integers, Sequences, FiniteSets, FiniteSetsExt, SequencesExt, Functions

CONSTANTS
  Roms,      \* display names
  Dirs,      \* 8.3 directory names
  DirOf,     \* the directory of each ROM
  Games,     \* what a save can hold besides its time and its ROM
  Backends,  \* which of "sd" and "posix" there are
  Slots,     \* the slots a directory can have
  Cap,       \* SAVE_STATE_STORE_MAX_ENTRIES (64)
  Tries,     \* names tried for a new save (60)
  MaxTime,   \* bound: elapsed seconds of a capture
  MaxFaults  \* bound: I/O errors in a behaviour, for each backend

ASSUME StoreAssumption ==
  /\ DirOf \in [Roms -> Dirs]
  /\ Backends \subseteq {"sd", "posix"}
  /\ Slots \subseteq Nat /\ IsFiniteSet(Slots)
  /\ Cap \in Nat \ {0} /\ Tries \in Nat \ {0}
  /\ MaxTime \in Nat /\ MaxFaults \in [Backends -> Nat]

VARIABLES
  disk,   \* files: the directories; made: those that exist; backend: whose
          \* they are; faults so far
  store,  \* dir: rom_dir_name; there: rom_dir_cluster # 0; list: entries
  blob,   \* the caller's SaveStateBlob
  last    \* the last call: its answer; the times it was about; and whether it
          \* met no error

vars == <<disk, store, blob, last>>

Names == 0 .. MaxTime + Tries - 1
Blobs == [time : Names, rom : Roms, game : Games, whole : BOOLEAN]

TimesIn(f) == {f[i].time : i \in DOMAIN f}
SlotOf(f, t) == CHOOSE i \in DOMAIN f : f[i].time = t
Leading(I, n) == {i \in I : Cardinality({j \in I : j <= i}) <= n}

CanFail(dk) == dk.faults < MaxFaults[dk.backend]
Fail(dk) == [dk EXCEPT !.faults = @ + 1]

-----------------------------------------------------------------------------
(* Listing a directory. *)

Newest(f, I) ==
  LET T == {f[i].time : i \in I}
  IN  CHOOSE l \in [1 .. Cardinality(T) -> T] : \A i, j \in DOMAIN l : i < j => l[i] > l[j]

\* The files one pass over the directory meets before the table is full:
\* by slot on FAT, in any order on POSIX.
Pass(dk, f) ==
  IF dk.backend = "sd" THEN {Leading(DOMAIN f, Cap)}
  ELSE kSubset(Min({Cap, Cardinality(DOMAIN f)}), DOMAIN f)

\* A read error ends the pass as the end of the directory would.
CutShort(f) == {Leading(DOMAIN f, n) : n \in 0 .. Cap}

Rescan(dk, s) ==
  LET f == IF s.there THEN dk.files[s.dir] ELSE <<>>
  IN  {[disk |-> dk, store |-> [s EXCEPT !.list = Newest(f, I)]] : I \in Pass(dk, f)}
      \cup {[disk |-> Fail(dk), store |-> [s EXCEPT !.list = Newest(f, I)]] :
               I \in {J \in CutShort(f) : CanFail(dk)}}

RefreshOutcomes(dk, rom) ==
  LET s == [dir |-> DirOf[rom], there |-> DirOf[rom] \in dk.made, list |-> <<>>]
  IN  Rescan(dk, s)
      \cup {[disk |-> Fail(dk), store |-> [s EXCEPT !.there = FALSE]] :
               x \in {y \in {1} : CanFail(dk)}}

-----------------------------------------------------------------------------
(* Saving. *)

\* SD asks the listing whether a name is taken, POSIX the directory.
Taken(dk, s, t) ==
  IF dk.backend = "sd" THEN t \in ToSet(s.list) ELSE t \in TimesIn(dk.files[s.dir])

(* Mutant: the name is not looked for before it is written.               *)
CandidateFirst(dk, s, t) == t

Candidate(dk, s, t) ==
  LET untaken == {n \in t .. t + Tries - 1 : ~Taken(dk, s, n)}
  IN  IF untaken = {} THEN t + Tries - 1 ELSE Min(untaken)

Room(f, t) == t \in TimesIn(f) \/ Slots \ DOMAIN f # {}

Put(f, b) ==
  IF b.time \in TimesIn(f) THEN [f EXCEPT ![SlotOf(f, b.time)] = b]
  ELSE [i \in DOMAIN f \cup {Min(Slots \ DOMAIN f)} |->
          IF i \in DOMAIN f THEN f[i] ELSE b]

\* A write that fails leaves everything as it was, or a file of that name
\* spoilt: on SD only one that was there, its clusters are freed first.
Spoiling(dk, f, b) ==
  {f} \cup (IF b.time \in TimesIn(f) \/ (dk.backend = "posix" /\ Room(f, b.time))
            THEN {Put(f, [b EXCEPT !.whole = FALSE])} ELSE {})

SaveOutcomes(dk, s, b) ==
  LET c    == [b EXCEPT !.time = Candidate(dk, s, b.time)]
      f    == dk.files[s.dir]
      made == [dk EXCEPT !.made = @ \cup {s.dir}]
      t    == [s EXCEPT !.there = TRUE]
      written == Rescan([made EXCEPT !.files[s.dir] = Put(f, c)], t)
      no(dk2, s2, b2) == [disk |-> dk2, store |-> s2, blob |-> b2, ok |-> FALSE]
  IN  (IF Room(f, c.time)
       THEN {[disk |-> r.disk, store |-> r.store, blob |-> c, ok |-> TRUE] : r \in written}
       ELSE {no(made, t, c)})
      \cup (IF CanFail(dk)
            THEN {no(Fail(dk), s, b)}
                 \cup {no(Fail([made EXCEPT !.files[s.dir] = g]), t, c) : g \in Spoiling(dk, f, c)}
            ELSE {})

-----------------------------------------------------------------------------
(* Loading, deleting one, deleting all; index 1 is the first entry. *)

Spoilt(b) == [b EXCEPT !.whole = FALSE]

LoadOutcomes(dk, s, i, b) ==
  LET f == dk.files[s.dir]
      found == s.there /\ i \in DOMAIN s.list /\ s.list[i] \in TimesIn(f)
      file == f[SlotOf(f, s.list[i])]
      no(dk2, b2) == [disk |-> dk2, blob |-> b2, ok |-> FALSE]
  IN  IF ~found THEN {no(dk, b)}
      ELSE (IF file.whole \/ dk.backend = "sd"
            THEN {[disk |-> dk, blob |-> file, ok |-> TRUE]} ELSE {})
           \cup (IF file.whole THEN {} ELSE {no(dk, Spoilt(b))})
           \cup (IF CanFail(dk) THEN {no(Fail(dk), b), no(Fail(dk), Spoilt(b))} ELSE {})

(* Mutant: the pass over the directory ends at the first file found.      *)
WithoutFirst(f, T) ==
  LET found == {i \in DOMAIN f : f[i].time \in T}
  IN  IF found = {} THEN f ELSE Restrict(f, DOMAIN f \ {Min(found)})

Without(f, T) == Restrict(f, {i \in DOMAIN f : f[i].time \notin T})

\* fat32_delete_file takes a read error for "no such file": success.  The
\* clusters are freed before the entry is.
SpoilIn(f, t) == [i \in DOMAIN f |-> [f[i] EXCEPT !.whole = @ /\ f[i].time # t]]

DeleteOutcomes(dk, s, i) ==
  LET t == s.list[i]
      exists == t \in TimesIn(dk.files[s.dir])
      gone == [dk EXCEPT !.files[s.dir] = Without(@, {t})]
      no(dk2) == [disk |-> dk2, store |-> s, ok |-> FALSE]
      yes(dk2) == {[disk |-> r.disk, store |-> r.store, ok |-> TRUE] : r \in Rescan(dk2, s)}
  IN  IF ~s.there \/ i \notin DOMAIN s.list THEN {no(dk)}
      ELSE (IF exists \/ dk.backend = "sd" THEN yes(gone) ELSE {no(dk)})
           \cup (IF CanFail(dk)
                 THEN {no(Fail(dk))}
                      \cup (IF dk.backend = "sd"
                            THEN yes(Fail(dk))
                                 \cup {no([Fail(dk) EXCEPT !.files[s.dir] = SpoilIn(@, t)])}
                            ELSE {})
                 ELSE {})

\* SD deletes what is listed and stops at an error; POSIX deletes what is in
\* the directory and takes no notice of errors.
ClearOutcomes(dk, s) ==
  LET all  == IF dk.backend = "posix" THEN TimesIn(dk.files[s.dir])
              ELSE IF s.there THEN ToSet(s.list) ELSE {}
      gone(dk2, T) == [dk2 EXCEPT !.files[s.dir] = Without(@, T)]
      yes(dk2) == [disk |-> dk2, store |-> [s EXCEPT !.list = <<>>], ok |-> TRUE]
  IN  {yes(gone(dk, all))}
      \cup (IF CanFail(dk)
            THEN {yes(gone(Fail(dk), all \ {t})) : t \in all}
                 \cup (IF dk.backend = "sd" /\ s.there
                       THEN {[disk |-> gone(Fail(dk), ToSet(SubSeq(s.list, 1, n))),
                              store |-> s, ok |-> FALSE] : n \in 0 .. Len(s.list) - 1}
                       ELSE {})
            ELSE {})

-----------------------------------------------------------------------------
(* A caller that refreshes the store before it uses it. *)

NoFiles == [d \in Dirs |-> <<>>]

NoAnswer == [call |-> "none", ok |-> FALSE, of |-> {}, quiet |-> TRUE]

\* dk: the disk after the call.
Answer(call, ok, times, dk) ==
  [call |-> call, ok |-> ok, of |-> times, quiet |-> dk.faults = disk.faults]

Folder == disk.files[store.dir]
Unlisted == TimesIn(Folder) \ ToSet(store.list)

EmptyDisk(backend) == [files |-> NoFiles, made |-> {}, backend |-> backend, faults |-> 0]

Init ==
  /\ \E backend \in Backends : disk = EmptyDisk(backend)
  /\ \E rom \in Roms : store = [dir |-> DirOf[rom], there |-> FALSE, list |-> <<>>]
  /\ blob \in {b \in Blobs : b.time = 0 /\ ~b.whole}
  /\ last = NoAnswer

Refresh(rom) ==
  \E r \in RefreshOutcomes(disk, rom) :
    /\ disk' = r.disk /\ store' = r.store
    /\ last' = Answer("refresh", TRUE, {}, r.disk)
    /\ UNCHANGED blob

\* The shell captures, refreshes for the running ROM, and saves.
Save(b) ==
  \E r \in RefreshOutcomes(disk, b.rom) : \E q \in SaveOutcomes(r.disk, r.store, b) :
    /\ disk' = q.disk /\ store' = q.store /\ blob' = q.blob
    /\ last' = Answer("save", q.ok, {q.blob.time}, q.disk)

Load(i) ==
  \E q \in LoadOutcomes(disk, store, i, blob) :
    /\ disk' = q.disk /\ blob' = q.blob
    /\ last' = Answer("load", q.ok, {store.list[i]}, q.disk)
    /\ UNCHANGED store

Delete(i) ==
  \E q \in DeleteOutcomes(disk, store, i) :
    /\ disk' = q.disk /\ store' = q.store
    /\ last' = Answer("delete", q.ok, {store.list[i]}, q.disk)
    /\ UNCHANGED blob

ClearAll ==
  \E q \in ClearOutcomes(disk, store) :
    /\ disk' = q.disk /\ store' = q.store
    /\ last' = Answer("clear_all", q.ok, Unlisted, q.disk)
    /\ UNCHANGED blob

Captures == {b \in Blobs : b.time <= MaxTime /\ b.whole}

Next ==
  \/ \E rom \in Roms : Refresh(rom)
  \/ \E b \in Captures : Save(b)
  \/ \E i \in DOMAIN store.list : Load(i) \/ Delete(i)
  \/ ClearAll

Spec == Init /\ [][Next]_vars

-----------------------------------------------------------------------------
(* Type invariant: every file has its own name and lies in a directory     *)
(* that exists; the listing holds at most Cap entries.                     *)
TypeOK ==
  /\ disk.faults \in 0 .. MaxFaults[disk.backend] /\ disk.made \subseteq Dirs
  /\ DOMAIN disk.files = Dirs
  /\ \A d \in Dirs : LET f == disk.files[d] IN
       /\ DOMAIN f \subseteq Slots /\ \A i \in DOMAIN f : f[i] \in Blobs /\ DirOf[f[i].rom] = d
       /\ IsInjective([i \in DOMAIN f |-> f[i].time])
       /\ f # <<>> => d \in disk.made
  /\ store.dir \in Dirs /\ store.there \in BOOLEAN
  /\ Len(store.list) <= Cap /\ ToSet(store.list) \subseteq Names
  /\ blob \in Blobs

(* The saves on the disk are kept as SaveShelf promises, call by call and  *)
(* whatever it answers, whichever ROMs share a directory and however full  *)
(* it is: a save is written over only as the last resort of sd_ss_save and *)
(* posix_ss_save, or where sd_ss_save looked for it in a listing that an   *)
(* error or the size of the table had cut short.                           *)
Shelf == INSTANCE SaveShelf WITH Saves <- Blobs,
           shelf <- [d \in Dirs |-> {disk.files[d][i] : i \in DOMAIN disk.files[d]}],
           ask <- last, at <- store.dir, direct <- disk.backend = "posix"
KeptOnShelf == Shelf!Spec

\* The listing is of saves that are there, the newest first, and of as many
\* as there are and it has room for.
ListingIsTrue ==
  last.ok /\ last.call \in {"refresh", "save", "delete"} =>
    /\ \A i, j \in DOMAIN store.list : i < j => store.list[i] > store.list[j]
    /\ ToSet(store.list) \subseteq TimesIn(Folder)
    /\ last.quiet => Len(store.list) = Min({Cap, Cardinality(DOMAIN Folder)})

\* A save that succeeded is there, whole, and has the time that the store
\* left in the blob, which is what app_shell.c selects in the listing.
SaveIsTrue ==
  last.ok /\ last.call = "save" =>
    /\ blob.whole /\ \E i \in DOMAIN Folder : Folder[i] = blob
    /\ last.quiet /\ Cardinality(DOMAIN Folder) <= Cap => blob.time \in ToSet(store.list)

\* What was loaded is the save of the entry that was asked for.
LoadIsTrue ==
  last.ok /\ last.call = "load" =>
    /\ last.of = {blob.time} /\ \E i \in DOMAIN Folder : Folder[i] = blob
    /\ disk.backend = "posix" => blob.whole

DeleteIsTrue ==
  last.ok /\ last.quiet /\ last.call = "delete" => last.of \cap TimesIn(Folder) = {}

\* On SD, what the listing had no room for is not cleared.
ClearIsTrue ==
  last.ok /\ last.quiet /\ last.call = "clear_all" =>
    /\ store.list = <<>>
    /\ TimesIn(Folder) = IF disk.backend = "posix" THEN {} ELSE last.of

(* The answers of a store are true, with every error that it can meet and  *)
(* directories of any size: what it answers TRUE to has been done as far   *)
(* as the conjuncts say, and the listing is of saves that are there.       *)
StoreOK ==
  /\ TypeOK
  /\ ListingIsTrue /\ SaveIsTrue /\ LoadIsTrue /\ DeleteIsTrue /\ ClearIsTrue

(* clear_all that succeeded has left no save behind in the directory, as   *)
(* save_state_store.h:70 says, "Delete all save states for the ROM named   *)
(* in the most recent refresh()", unless the file system failed.           *)
ClearedIsEmpty ==
  last.ok /\ last.quiet /\ last.call = "clear_all" => Folder = <<>>
=============================================================================
