------------------------ MODULE SaveStateStoreProofs ------------------------
(***************************************************************************)
(* The save-state stores for every card, directory, capture and error: a   *)
(* listing is the times of the files it met, the newest first; what a call *)
(* answers is true; and the saves of a directory are kept as SaveShelf     *)
(* promises.  MCStorage checks the same on two ROMs and three slots.       *)
(***************************************************************************)
EXTENDS SaveStateStore, NumberFacts, TLAPS

-----------------------------------------------------------------------------
(* The store, call by call: which directory it is at, and which saves are  *)
(* on the disk afterwards.                                                 *)
DiskOK == DOMAIN disk.files = Dirs

SameFiles(dk, dk2) == dk2.files = dk.files

(* Nothing changes but the directory d, which becomes g.                   *)
OnlyIn(dk, d, g, dk2) ==
  /\ DOMAIN dk2.files = Dirs
  /\ \A e \in Dirs : dk2.files[e] = IF e = d THEN g ELSE dk.files[e]

At(dk, d, g) == [dk EXCEPT !.files[d] = g]

LEMMA AtOnly ==
  ASSUME NEW dk, DOMAIN dk.files = Dirs, NEW d \in Dirs, NEW g
  PROVE  OnlyIn(dk, d, g, At(dk, d, g))
BY DEF OnlyIn, At

LEMMA FailFiles ==
  ASSUME NEW dk
  PROVE  SameFiles(dk, Fail(dk))
BY DEF SameFiles, Fail

LEMMA RescanOutcome ==
  ASSUME NEW dk, NEW s, NEW r \in Rescan(dk, s)
  PROVE  r.disk \in {dk, Fail(dk)} /\ r.store.dir = s.dir
<1>1. PICK list : \/ r = [disk |-> dk, store |-> [s EXCEPT !.list = list]]
                  \/ r = [disk |-> Fail(dk), store |-> [s EXCEPT !.list = list]]
  BY Zenon DEF Rescan
<1>2. [s EXCEPT !.list = list].dir = s.dir
  OBVIOUS
<1>3. r.disk \in {dk, Fail(dk)} /\ r.store = [s EXCEPT !.list = list]
  BY <1>1
<1> QED
  BY <1>2, <1>3

LEMMA RefreshOutcome ==
  ASSUME NEW dk, NEW rom, NEW r \in RefreshOutcomes(dk, rom)
  PROVE  SameFiles(dk, r.disk) /\ r.store.dir = DirOf[rom]
<1> DEFINE s == [dir |-> DirOf[rom], there |-> DirOf[rom] \in dk.made, list |-> <<>>]
<1>1. \/ r \in Rescan(dk, s)
      \/ r = [disk |-> Fail(dk), store |-> [s EXCEPT !.there = FALSE]]
  BY Zenon DEF RefreshOutcomes
<1>2. CASE r \in Rescan(dk, s)
  BY <1>2, RescanOutcome, FailFiles DEF SameFiles
<1>3. CASE r = [disk |-> Fail(dk), store |-> [s EXCEPT !.there = FALSE]]
  <2>1. r.disk = Fail(dk) /\ r.store.dir = DirOf[rom]
    BY <1>3
  <2> QED
    BY <2>1, FailFiles
<1> QED
  BY <1>1, <1>2, <1>3

LEMMA LoadOutcome ==
  ASSUME NEW dk, NEW s, NEW i, NEW b, NEW l \in LoadOutcomes(dk, s, i, b)
  PROVE  SameFiles(dk, l.disk)
<1>1. \E b2, ok : l \in {[disk |-> dk, blob |-> b2, ok |-> ok],
                        [disk |-> Fail(dk), blob |-> b2, ok |-> ok]}
  BY Zenon DEF LoadOutcomes
<1>2. l.disk \in {dk, Fail(dk)}
  BY <1>1
<1> QED
  BY <1>2, FailFiles DEF SameFiles

(* Saves written are there; others stay.                                   *)
LEMMA PutKeeps ==
  ASSUME NEW f, NEW b
  PROVE  TimesIn(f) \subseteq TimesIn(Put(f, b))
<1> SUFFICES ASSUME NEW i \in DOMAIN f
             PROVE  \E j \in DOMAIN Put(f, b) : Put(f, b)[j].time = f[i].time
  BY Zenon DEF TimesIn
<1>1. CASE b.time \in TimesIn(f)
  <2>1. SlotOf(f, b.time) \in DOMAIN f /\ f[SlotOf(f, b.time)].time = b.time
    BY <1>1, Zenon DEF TimesIn, SlotOf
  <2>2. Put(f, b) = [f EXCEPT ![SlotOf(f, b.time)] = b]
    BY <1>1, Zenon DEF Put
  <2>3. CASE i = SlotOf(f, b.time)
    BY <2>1, <2>2, <2>3
  <2>4. CASE i # SlotOf(f, b.time)
    BY <2>1, <2>2, <2>4
  <2> QED
    BY <2>3, <2>4
<1>2. CASE b.time \notin TimesIn(f)
  <2> DEFINE new == Min(Slots \ DOMAIN f)
  <2>1. Put(f, b) = [j \in DOMAIN f \cup {new} |-> IF j \in DOMAIN f THEN f[j] ELSE b]
    BY <1>2, Zenon DEF Put
  <2> HIDE DEF new
  <2> QED
    BY <2>1
<1> QED
  BY <1>1, <1>2

LEMMA SaveOutcome ==
  ASSUME NEW dk, DOMAIN dk.files = Dirs, NEW s, s.dir \in Dirs, NEW b,
         NEW q \in SaveOutcomes(dk, s, b)
  PROVE  /\ q.store.dir = s.dir /\ DOMAIN q.disk.files = Dirs
         /\ \A d \in Dirs : TimesIn(dk.files[d]) \subseteq TimesIn(q.disk.files[d])
<1> DEFINE c == [b EXCEPT !.time = Candidate(dk, s, b.time)]
           f == dk.files[s.dir]
           made == [dk EXCEPT !.made = @ \cup {s.dir}]
           t == [s EXCEPT !.there = TRUE]
           WithFile(g) == [made EXCEPT !.files[s.dir] = g]
<1>1. /\ made.files = dk.files /\ t.dir = s.dir
      /\ \A g : OnlyIn(dk, s.dir, g, WithFile(g))
  <2>1. made.files = dk.files /\ t.dir = s.dir
    OBVIOUS
  <2> HIDE DEF made
  <2>2. ASSUME NEW g PROVE OnlyIn(made, s.dir, g, WithFile(g))
    BY <2>1, AtOnly DEF At
  <2> QED
    BY <2>1, <2>2 DEF OnlyIn
<1>2. \/ \E r \in Rescan(WithFile(Put(f, c)), t) :
             q = [disk |-> r.disk, store |-> r.store, blob |-> c, ok |-> TRUE]
      \/ q = [disk |-> made, store |-> t, blob |-> c, ok |-> FALSE]
      \/ q = [disk |-> Fail(dk), store |-> s, blob |-> b, ok |-> FALSE]
      \/ \E g \in Spoiling(dk, f, c) :
             q = [disk |-> Fail(WithFile(g)), store |-> t, blob |-> c, ok |-> FALSE]
  BY Zenon DEF SaveOutcomes
<1>3. \A g \in Spoiling(dk, f, c) : TimesIn(f) \subseteq TimesIn(g)
  BY PutKeeps, Zenon DEF Spoiling
<1>4. TimesIn(f) \subseteq TimesIn(Put(f, c))
  BY PutKeeps
<1> HIDE DEF c, made, t, WithFile
<1>5. /\ q.store.dir = s.dir
      /\ \/ SameFiles(dk, q.disk)
         \/ \E g : TimesIn(f) \subseteq TimesIn(g) /\ SameFiles(WithFile(g), q.disk)
  <2>1. ASSUME NEW r \in Rescan(WithFile(Put(f, c)), t),
               q = [disk |-> r.disk, store |-> r.store, blob |-> c, ok |-> TRUE]
        PROVE  q.store.dir = s.dir /\ SameFiles(WithFile(Put(f, c)), q.disk)
    <3>1. r.disk \in {WithFile(Put(f, c)), Fail(WithFile(Put(f, c)))} /\ r.store.dir = t.dir
      BY RescanOutcome
    <3>2. SameFiles(WithFile(Put(f, c)), r.disk)
      BY <3>1, FailFiles DEF SameFiles
    <3> QED
      BY <1>1, <2>1, <3>1, <3>2
  <2>2. CASE q = [disk |-> made, store |-> t, blob |-> c, ok |-> FALSE]
    BY <1>1, <2>2 DEF SameFiles
  <2>3. CASE q = [disk |-> Fail(dk), store |-> s, blob |-> b, ok |-> FALSE]
    BY <2>3, FailFiles
  <2>4. ASSUME NEW g \in Spoiling(dk, f, c),
               q = [disk |-> Fail(WithFile(g)), store |-> t, blob |-> c, ok |-> FALSE]
        PROVE  q.store.dir = s.dir /\ SameFiles(WithFile(g), q.disk)
    BY <1>1, <2>4, FailFiles
  <2> QED
    BY <1>2, <1>3, <1>4, <2>1, <2>2, <2>3, <2>4, Zenon
<1>6. ASSUME NEW g, TimesIn(f) \subseteq TimesIn(g), SameFiles(WithFile(g), q.disk)
      PROVE  /\ DOMAIN q.disk.files = Dirs
             /\ \A d \in Dirs : TimesIn(dk.files[d]) \subseteq TimesIn(q.disk.files[d])
  <2>1. OnlyIn(dk, s.dir, g, q.disk)
    BY <1>1, <1>6 DEF SameFiles, OnlyIn
  <2> QED
    BY <1>6, <2>1, Zenon DEF OnlyIn
<1> QED
  BY <1>5, <1>6, Zenon DEF SameFiles

(* Saves deleted are gone; others stay.                                    *)
LEMMA WithoutTimes ==
  ASSUME NEW f, NEW T
  PROVE  TimesIn(Without(f, T)) = TimesIn(f) \ T
<1> DEFINE I == {i \in DOMAIN f : f[i].time \notin T}
<1>1. Without(f, T) = [i \in I |-> f[i]]
  BY DEF Without, Restrict
<1>2. TimesIn(Without(f, T)) = {f[i].time : i \in I}
  BY <1>1 DEF TimesIn
<1> QED
  BY <1>2 DEF TimesIn

Wholeness(b, x) == [b EXCEPT !.whole = x]

LEMMA WholenessTime ==
  ASSUME NEW b, NEW x
  PROVE  Wholeness(b, x).time = b.time
BY DEF Wholeness

LEMMA SpoilTimes ==
  ASSUME NEW f, NEW t
  PROVE  TimesIn(SpoilIn(f, t)) = TimesIn(f)
<1>1. SpoilIn(f, t) = [i \in DOMAIN f |-> Wholeness(f[i], f[i].whole /\ f[i].time # t)]
  BY Zenon DEF SpoilIn, Wholeness
<1>2. DOMAIN SpoilIn(f, t) = DOMAIN f
  BY <1>1
<1>3. ASSUME NEW i \in DOMAIN f
      PROVE  SpoilIn(f, t)[i].time = f[i].time
  <2>1. SpoilIn(f, t)[i] = Wholeness(f[i], f[i].whole /\ f[i].time # t)
    BY <1>1, Zenon
  <2> QED
    BY <2>1, WholenessTime, Zenon
<1> QED
  BY <1>2, <1>3, Zenon DEF TimesIn

(* A call that takes saves out of the directory d, of those in T.          *)
TakesOut(dk, d, T, dk2) ==
  /\ DOMAIN dk2.files = Dirs
  /\ \A e \in Dirs \ {d} : dk2.files[e] = dk.files[e]
  /\ TimesIn(dk2.files[d]) \subseteq TimesIn(dk.files[d])
  /\ TimesIn(dk.files[d]) \ TimesIn(dk2.files[d]) \subseteq T

LEMMA TakesNone ==
  ASSUME NEW dk, DOMAIN dk.files = Dirs, NEW d, NEW T, NEW dk2, SameFiles(dk, dk2)
  PROVE  TakesOut(dk, d, T, dk2)
BY DEF SameFiles, TakesOut

LEMMA TakesSome ==
  ASSUME NEW dk, DOMAIN dk.files = Dirs, NEW d \in Dirs, NEW T, NEW dk2, NEW g,
         OnlyIn(dk, d, g, dk2),
         TimesIn(g) \subseteq TimesIn(dk.files[d]), TimesIn(dk.files[d]) \ T \subseteq TimesIn(g)
  PROVE  TakesOut(dk, d, T, dk2)
<1>1. dk2.files[d] = g
  BY DEF OnlyIn
<1>2. \A e \in Dirs \ {d} : dk2.files[e] = dk.files[e]
  BY DEF OnlyIn
<1>3. TimesIn(dk.files[d]) \ TimesIn(g) \subseteq T
  OBVIOUS
<1> QED
  BY <1>1, <1>2, <1>3, Zenon DEF OnlyIn, TakesOut

Deleted(dk, s, i, q) == TakesOut(dk, s.dir, {s.list[i]}, q.disk) /\ q.store.dir = s.dir

LEMMA DeleteOutcome ==
  ASSUME NEW dk, DOMAIN dk.files = Dirs, NEW s, s.dir \in Dirs, NEW i,
         NEW q \in DeleteOutcomes(dk, s, i)
  PROVE  Deleted(dk, s, i, q)
<1> DEFINE t == s.list[i]
           f == dk.files[s.dir]
           Gone == At(dk, s.dir, Without(f, {t}))
           Spoiled == At(Fail(dk), s.dir, SpoilIn(Fail(dk).files[s.dir], t))
<1>1. /\ OnlyIn(dk, s.dir, Without(f, {t}), Gone)
      /\ OnlyIn(dk, s.dir, SpoilIn(f, t), Spoiled)
  <2>1. Fail(dk).files = dk.files
    BY FailFiles DEF SameFiles
  <2>2. OnlyIn(Fail(dk), s.dir, SpoilIn(f, t), Spoiled)
    BY <2>1, AtOnly
  <2> QED
    BY <2>1, <2>2, AtOnly DEF OnlyIn
<1>2. \/ \E dk2 \in {dk, Fail(dk), Spoiled} : q = [disk |-> dk2, store |-> s, ok |-> FALSE]
      \/ \E dk2 \in {Gone, Fail(dk)} : \E r \in Rescan(dk2, s) :
            q = [disk |-> r.disk, store |-> r.store, ok |-> TRUE]
  BY Zenon DEF DeleteOutcomes, At
<1>3. TimesIn(Without(f, {t})) = TimesIn(f) \ {t} /\ TimesIn(SpoilIn(f, t)) = TimesIn(f)
  BY WithoutTimes, SpoilTimes
<1> HIDE DEF Gone, Spoiled
<1>4. /\ q.store.dir = s.dir
      /\ \E dk2 \in {dk, Fail(dk), Spoiled, Gone} : SameFiles(dk2, q.disk)
  <2>1. ASSUME NEW dk2 \in {dk, Fail(dk), Spoiled},
               q = [disk |-> dk2, store |-> s, ok |-> FALSE]
        PROVE  q.store.dir = s.dir /\ SameFiles(dk2, q.disk)
    BY <2>1 DEF SameFiles
  <2>2. ASSUME NEW dk2 \in {Gone, Fail(dk)}, NEW r \in Rescan(dk2, s),
               q = [disk |-> r.disk, store |-> r.store, ok |-> TRUE]
        PROVE  q.store.dir = s.dir /\ SameFiles(dk2, q.disk)
    <3>1. r.disk \in {dk2, Fail(dk2)} /\ r.store.dir = s.dir
      BY RescanOutcome
    <3>2. SameFiles(dk2, r.disk)
      BY <3>1, FailFiles DEF SameFiles
    <3> QED
      BY <2>2, <3>1, <3>2
  <2> QED
    BY <1>2, <2>1, <2>2, Zenon
<1>5. CASE SameFiles(dk, q.disk) \/ SameFiles(Fail(dk), q.disk)
  <2>1. SameFiles(dk, q.disk)
    BY <1>5, FailFiles DEF SameFiles
  <2> QED
    BY <1>4, <2>1, TakesNone DEF Deleted
<1>6. CASE SameFiles(Gone, q.disk)
  <2>1. OnlyIn(dk, s.dir, Without(f, {t}), q.disk)
    BY <1>1, <1>6 DEF SameFiles, OnlyIn
  <2> QED
    BY <1>3, <1>4, <2>1, TakesSome DEF Deleted
<1>7. CASE SameFiles(Spoiled, q.disk)
  <2>1. OnlyIn(dk, s.dir, SpoilIn(f, t), q.disk)
    BY <1>1, <1>7 DEF SameFiles, OnlyIn
  <2> QED
    BY <1>3, <1>4, <2>1, TakesSome DEF Deleted
<1> QED
  BY <1>4, <1>5, <1>6, <1>7

LEMMA ClearOutcome ==
  ASSUME NEW dk, DOMAIN dk.files = Dirs, NEW s, s.dir \in Dirs,
         NEW q \in ClearOutcomes(dk, s)
  PROVE  (\E T : TakesOut(dk, s.dir, T, q.disk)) /\ q.store.dir = s.dir
<1> DEFINE Gone(dk2, T) == [dk2 EXCEPT !.files[s.dir] = Without(@, T)]
<1>a. \/ \E T : \E dk2 \in {dk, Fail(dk)} :
            q = [disk |-> Gone(dk2, T), store |-> [s EXCEPT !.list = <<>>], ok |-> TRUE]
      \/ \E T : q = [disk |-> Gone(Fail(dk), T), store |-> s, ok |-> FALSE]
  BY Zenon DEF ClearOutcomes
<1>1. PICK T, ok, t, dk2 :
        /\ q = [disk |-> Gone(dk2, T), store |-> t, ok |-> ok]
        /\ dk2 \in {dk, Fail(dk)} /\ t \in {s, [s EXCEPT !.list = <<>>]}
  BY <1>a, Zenon
<1>2. dk2.files = dk.files /\ t.dir = s.dir
  <2>1. [s EXCEPT !.list = <<>>].dir = s.dir
    OBVIOUS
  <2>2. Fail(dk).files = dk.files
    BY FailFiles DEF SameFiles
  <2> QED
    BY <1>1, <2>1, <2>2, Zenon
<1>3. OnlyIn(dk2, s.dir, Without(dk.files[s.dir], T), Gone(dk2, T))
  BY <1>2, AtOnly DEF At
<1>4. OnlyIn(dk, s.dir, Without(dk.files[s.dir], T), q.disk) /\ q.store.dir = s.dir
  BY <1>1, <1>2, <1>3 DEF OnlyIn
<1>5. TimesIn(Without(dk.files[s.dir], T)) = TimesIn(dk.files[s.dir]) \ T
  BY WithoutTimes
<1> QED
  BY <1>4, <1>5, TakesSome

(* A save is of what was captured, under the name that was found for it.   *)
Named(b, t) == [b EXCEPT !.time = t]

LEMMA SavedBlob ==
  ASSUME NEW dk, NEW s, NEW b, NEW q \in SaveOutcomes(dk, s, b)
  PROVE  q.blob \in {b, Named(b, Candidate(dk, s, b.time))}
<1>1. \E d, t, ok : \E k \in {b, Named(b, Candidate(dk, s, b.time))} :
        q = [disk |-> d, store |-> t, blob |-> k, ok |-> ok]
  BY Zenon DEF SaveOutcomes, Named
<1> QED
  BY <1>1

-----------------------------------------------------------------------------
(* Listings.                                                               *)
LEMMA EmptyDirectory ==
  ASSUME NEW f, f = [i \in DOMAIN f |-> f[i]]
  PROVE  f = <<>> <=> DOMAIN f = {}
BY SMT

(* Of naturals no more than n are among the first n, and all are if they   *)
(* are no more.                                                            *)
LEMMA LeadingFew ==
  ASSUME NEW I \in SUBSET Nat, IsFiniteSet(I), NEW n \in Nat
  PROVE  /\ Leading(I, n) \in SUBSET I /\ Cardinality(Leading(I, n)) <= n
         /\ Cardinality(I) <= n => Leading(I, n) = I
<1> DEFINE J == Leading(I, n)
<1>1. J \in SUBSET I /\ IsFiniteSet(J)
  BY FS_Subset DEF Leading
<1>2. Cardinality(J) <= n
  <2>1. CASE J = {}
    BY <2>1, FS_EmptySet
  <2>2. CASE J # {}
    <3>1. PICK l : l \in Falling(J)
      BY <1>1, FallingExist
    <3>2. Cardinality(J) \in Nat \ {0}
      BY <1>1, <2>2, FS_CardinalityType, FS_EmptySet
    <3>3. l[1] \in J /\ \A i \in DOMAIN l : l[i] <= l[1]
      <4>1. /\ DOMAIN l = 1 .. Cardinality(J) /\ 1 \in DOMAIN l
            /\ \A i \in DOMAIN l : l[i] \in J
            /\ \A i, j \in DOMAIN l : i < j => l[i] > l[j]
        BY <3>1, <3>2 DEF Falling
      <4>2. \A i \in DOMAIN l : l[i] \in Nat
        BY <1>1, <4>1
      <4> HIDE DEF J
      <4> QED
        BY <3>2, <4>1, <4>2
    <3>4. \A j \in J : j <= l[1]
      BY <1>1, <3>1, <3>3, FallingOnto
    <3> DEFINE K == {j \in I : j <= l[1]}
    <3>5. Cardinality(K) <= n
      BY <3>3 DEF Leading
    <3>6. K \in SUBSET I /\ IsFiniteSet(K) /\ J \in SUBSET K
      BY <1>1, <3>4, FS_Subset
    <3>7. Cardinality(J) <= Cardinality(K)
      BY <3>6, FS_Subset
    <3> QED
      BY <1>1, <3>5, <3>6, <3>7, FS_CardinalityType
  <2> QED
    BY <2>1, <2>2
<1>3. ASSUME Cardinality(I) <= n
      PROVE  J = I
  <2>1. ASSUME NEW i \in I
        PROVE  Cardinality({j \in I : j <= i}) <= n
    <3>1. {j \in I : j <= i} \in SUBSET I
      OBVIOUS
    <3> HIDE DEF J
    <3>2. Cardinality({j \in I : j <= i}) <= Cardinality(I) /\ IsFiniteSet({j \in I : j <= i})
      BY <3>1, FS_Subset
    <3>3. Cardinality({j \in I : j <= i}) \in Nat /\ Cardinality(I) \in Nat
      BY <3>2, FS_CardinalityType
    <3> QED
      BY <1>3, <3>2, <3>3
  <2> QED
    BY <2>1 DEF Leading
<1> QED
  BY <1>1, <1>2, <1>3

(* A directory as the store keeps it: its files lie in its slots, and each *)
(* has a name of its own.                                                  *)
FilesOK(f) ==
  /\ f = [i \in DOMAIN f |-> f[i]]
  /\ DOMAIN f \subseteq Slots /\ \A i \in DOMAIN f : f[i] \in Blobs
  /\ \A i, j \in DOMAIN f : f[i].time = f[j].time => i = j

(* Whose saves are in it; at home they are of the ROMs of the directory.   *)
RomsIn(f) == {f[i].rom : i \in DOMAIN f}

AtHome(dk) == \A d \in Dirs : \A r \in RomsIn(dk.files[d]) : DirOf[r] = d

EntriesOK(l) == l \in Seq(Names) /\ Len(l) <= Cap /\ \A i, j \in DOMAIN l : i < j => l[i] > l[j]

LEMMA NamesAreNaturals == Names \subseteq Nat
BY StoreAssumption DEF Names

LEMMA NewestList ==
  ASSUME NEW f, FilesOK(f), NEW I \in SUBSET DOMAIN f, Cardinality(I) <= Cap
  PROVE  EntriesOK(Newest(f, I)) /\ ToSet(Newest(f, I)) = {f[i].time : i \in I}
<1> DEFINE T == {f[i].time : i \in I}
           g == [i \in I |-> f[i].time]
           l == Newest(f, I)
<1>1. IsFiniteSet(I) /\ Cardinality(I) \in Nat
  BY FS_Subset, FS_CardinalityType, StoreAssumption DEF FilesOK
<1>2. T \subseteq Names
  BY DEF FilesOK, Blobs
<1>3. g \in Surjection(I, T)
  BY DEF Surjection
<1> HIDE DEF g
<1>4. IsFiniteSet(T) /\ Cardinality(T) <= Cardinality(I) /\ Cardinality(T) \in Nat
  BY <1>1, <1>3, FS_Surjection, FS_CardinalityType
<1>5. l \in Falling(T)
  <2>1. \E e : e \in Falling(T)
    BY <1>2, <1>4, FallingExist, NamesAreNaturals
  <2>2. l = CHOOSE k \in [1 .. Cardinality(T) -> T] : \A i, j \in DOMAIN k : i < j => k[i] > k[j]
    BY DEF Newest
  <2> HIDE DEF l, T
  <2> QED
    BY <2>1, <2>2, Zenon DEF Falling
<1> HIDE DEF l
<1>6. ToSet(l) = T
  BY <1>2, <1>4, <1>5, FallingOnto, NamesAreNaturals DEF ToSet
<1> HIDE DEF T
<1>7. l \in [1 .. Cardinality(T) -> Names] /\ \A i, j \in DOMAIN l : i < j => l[i] > l[j]
  BY <1>2, <1>5 DEF Falling
<1>8. l \in Seq(Names) /\ Len(l) = Cardinality(T)
  BY <1>4, <1>7
<1> QED
  BY <1>1, <1>4, <1>6, <1>7, <1>8, StoreAssumption DEF EntriesOK, T, l

-----------------------------------------------------------------------------
(* What always holds of a disk, and of a store.                            *)
DiskFine(dk) ==
  /\ dk.backend \in Backends /\ dk.faults \in 0 .. MaxFaults[dk.backend]
  /\ dk.made \subseteq Dirs /\ DOMAIN dk.files = Dirs
  /\ \A d \in Dirs : /\ FilesOK(dk.files[d])
                     /\ dk.files[d] # <<>> => d \in dk.made

StoreFine(s) == s.dir \in Dirs /\ s.there \in BOOLEAN /\ EntriesOK(s.list)

(* A listing has room for every file a directory can hold.                 *)
Roomy == IsFiniteSet(Slots) /\ Cardinality(Slots) <= Cap

(* What the store knows of its directory, as long as nothing failed.       *)
Known(dk, s) ==
  dk.faults = 0 => /\ s.there <=> s.dir \in dk.made
                   /\ ToSet(s.list) = TimesIn(dk.files[s.dir])

Fine(dk, s) == DiskFine(dk) /\ StoreFine(s) /\ (Roomy => Known(dk, s))

Made(dk, d) == [dk EXCEPT !.made = @ \cup {d}]
WithList(s, l) == [s EXCEPT !.list = l]

LEMMA FailFields ==
  ASSUME NEW dk
  PROVE  /\ Fail(dk).files = dk.files /\ Fail(dk).made = dk.made
         /\ Fail(dk).backend = dk.backend /\ Fail(dk).faults = dk.faults + 1
BY DEF Fail

LEMMA AtFields ==
  ASSUME NEW dk, NEW d, NEW g
  PROVE  /\ At(dk, d, g).made = dk.made /\ At(dk, d, g).backend = dk.backend
         /\ At(dk, d, g).faults = dk.faults
BY DEF At

LEMMA MadeFields ==
  ASSUME NEW dk, NEW d
  PROVE  /\ Made(dk, d).files = dk.files /\ Made(dk, d).made = dk.made \cup {d}
         /\ Made(dk, d).backend = dk.backend /\ Made(dk, d).faults = dk.faults
BY DEF Made

LEMMA ListFields ==
  ASSUME NEW s, NEW l
  PROVE  /\ WithList(s, l).list = l /\ WithList(s, l).dir = s.dir
         /\ WithList(s, l).there = s.there
BY DEF WithList

LEMMA FaultsCounted ==
  ASSUME NEW dk, DiskFine(dk)
  PROVE  dk.faults \in Nat /\ MaxFaults[dk.backend] \in Nat
<1>1. dk.backend \in Backends /\ MaxFaults \in [Backends -> Nat]
  BY StoreAssumption DEF DiskFine
<1>2. MaxFaults[dk.backend] \in Nat
  BY <1>1
<1> QED
  BY <1>2 DEF DiskFine

LEMMA FailFine ==
  ASSUME NEW dk, DiskFine(dk), CanFail(dk)
  PROVE  DiskFine(Fail(dk)) /\ Fail(dk).faults # 0
<1>1. Fail(dk).faults \in 0 .. MaxFaults[dk.backend] /\ Fail(dk).faults # 0
  BY FailFields, FaultsCounted DEF DiskFine, CanFail
<1> QED
  BY <1>1, FailFields DEF DiskFine

LEMMA MadeFine ==
  ASSUME NEW dk, DiskFine(dk), NEW d \in Dirs
  PROVE  DiskFine(Made(dk, d))
BY MadeFields DEF DiskFine

LEMMA AtFine ==
  ASSUME NEW dk, DiskFine(dk), NEW d \in Dirs, NEW g, FilesOK(g),
         g # <<>> => d \in dk.made
  PROVE  DiskFine(At(dk, d, g))
<1> DEFINE k == At(dk, d, g)
<1>2. OnlyIn(dk, d, g, k)
  BY AtOnly DEF DiskFine
<1>f. k.made = dk.made /\ k.backend = dk.backend /\ k.faults = dk.faults
  BY AtFields
<1> HIDE DEF k
<1>3. /\ k.backend \in Backends /\ k.faults \in 0 .. MaxFaults[k.backend]
      /\ k.made \subseteq Dirs /\ DOMAIN k.files = Dirs
  BY <1>2, <1>f DEF DiskFine, OnlyIn
<1>4. ASSUME NEW e \in Dirs
      PROVE  FilesOK(k.files[e]) /\ (k.files[e] # <<>> => e \in k.made)
  <2>1. k.made = dk.made /\ k.files[e] = IF e = d THEN g ELSE dk.files[e]
    BY <1>2, <1>f DEF OnlyIn
  <2>2. CASE e = d
    BY <2>1, <2>2
  <2>3. CASE e # d
    BY <2>1, <2>3 DEF DiskFine
  <2> QED
    BY <2>2, <2>3
<1> QED
  BY <1>3, <1>4 DEF DiskFine, k

(* The files of a store's directory, as a pass over it finds them.         *)
Seen(dk, s) == IF s.there THEN dk.files[s.dir] ELSE <<>>

LEMMA SeenFine ==
  ASSUME NEW dk, DiskFine(dk), NEW s, s.dir \in Dirs, s.there \in BOOLEAN
  PROVE  FilesOK(Seen(dk, s)) /\ IsFiniteSet(DOMAIN Seen(dk, s))
         /\ (Roomy => Cardinality(DOMAIN Seen(dk, s)) <= Cap)
<1>1. FilesOK(Seen(dk, s))
  <2>1. CASE s.there = TRUE
    BY <2>1 DEF Seen, DiskFine
  <2>2. CASE s.there = FALSE
    <3>1. Seen(dk, s) = <<>>
      BY <2>2 DEF Seen
    <3>2. DOMAIN <<>> = {} /\ <<>> = [i \in {} |-> <<>>[i]]
      OBVIOUS
    <3> QED
      BY <3>1, <3>2 DEF FilesOK
  <2> QED
    BY <2>1, <2>2
<1>2. DOMAIN Seen(dk, s) \in SUBSET Slots
  BY <1>1 DEF FilesOK
<1>3. IsFiniteSet(DOMAIN Seen(dk, s)) /\ Cardinality(DOMAIN Seen(dk, s)) <= Cardinality(Slots)
  BY <1>2, FS_Subset, StoreAssumption
<1>4. Cardinality(DOMAIN Seen(dk, s)) \in Nat /\ Cardinality(Slots) \in Nat
  BY <1>3, FS_CardinalityType, StoreAssumption
<1> QED
  BY <1>1, <1>3, <1>4, StoreAssumption DEF Roomy

LEMMA PassFew ==
  ASSUME NEW dk, NEW f, FilesOK(f), NEW I \in Pass(dk, f)
  PROVE  /\ I \in SUBSET DOMAIN f /\ Cardinality(I) <= Cap
         /\ Cardinality(DOMAIN f) <= Cap => I = DOMAIN f
<1> DEFINE D == DOMAIN f
<1>1. D \in SUBSET Nat /\ IsFiniteSet(D) /\ Cardinality(D) \in Nat /\ Cap \in Nat
  BY FS_Subset, FS_CardinalityType, StoreAssumption DEF FilesOK
<1>2. CASE dk.backend = "sd"
  BY <1>1, <1>2, LeadingFew DEF Pass
<1>3. CASE dk.backend # "sd"
  <2> DEFINE m == Min({Cap, Cardinality(D)})
  <2>1. m \in {Cap, Cardinality(D)} /\ m <= Cap /\ m <= Cardinality(D)
    <3>1. \E x \in {Cap, Cardinality(D)} : \A y \in {Cap, Cardinality(D)} : x <= y
      BY <1>1
    <3> QED
      BY <3>1, Zenon DEF Min
  <2>2. I \in SUBSET D /\ Cardinality(I) = m
    BY <1>3 DEF Pass, kSubset
  <2> HIDE DEF m
  <2>3. ASSUME Cardinality(D) <= Cap
        PROVE  I = D
    <3>1. m = Cardinality(D)
      BY <1>1, <2>1, <2>3
    <3> QED
      BY <1>1, <2>2, <3>1, FS_Subset
  <2> QED
    BY <2>1, <2>2, <2>3
<1> QED
  BY <1>2, <1>3

LEMMA CutShortFew ==
  ASSUME NEW f, FilesOK(f), NEW I \in CutShort(f)
  PROVE  I \in SUBSET DOMAIN f /\ Cardinality(I) <= Cap
<1>1. DOMAIN f \in SUBSET Nat /\ IsFiniteSet(DOMAIN f)
  BY FS_Subset, StoreAssumption DEF FilesOK
<1>2. PICK n \in 0 .. Cap : I = Leading(DOMAIN f, n)
  BY DEF CutShort
<1>3. n \in Nat /\ n <= Cap /\ Cap \in Nat
  BY StoreAssumption
<1>4. I \in SUBSET DOMAIN f /\ Cardinality(I) <= n
  BY <1>1, <1>2, <1>3, LeadingFew
<1>5. Cardinality(I) \in Nat
  BY <1>1, <1>4, FS_Subset, FS_CardinalityType
<1> QED
  BY <1>3, <1>4, <1>5

(* How a disk relates to the one before a call that read it only.          *)
Reads(dk, dk2) ==
  /\ dk2.files = dk.files /\ dk2.made = dk.made /\ dk2.backend = dk.backend
  /\ dk2.faults \in {dk.faults, dk.faults + 1}
  /\ dk2.faults # dk.faults => CanFail(dk)

LEMMA FailReads ==
  ASSUME NEW dk, CanFail(dk)
  PROVE  Reads(dk, Fail(dk))
BY FailFields DEF Reads

LEMMA ReadsFine ==
  ASSUME NEW dk, DiskFine(dk), NEW dk2, Reads(dk, dk2)
  PROVE  DiskFine(dk2) /\ (dk2.faults = 0 => dk.faults = 0)
<1>1. dk2.faults \in 0 .. MaxFaults[dk2.backend] /\ (dk2.faults = 0 => dk.faults = 0)
  BY FaultsCounted DEF DiskFine, Reads, CanFail
<1> QED
  BY <1>1 DEF DiskFine, Reads

Rescanned(dk, s, r) ==
  /\ Reads(dk, r.disk) /\ StoreFine(r.store)
  /\ r.store.dir = s.dir /\ (r.store.there <=> s.there)
  /\ Roomy /\ r.disk.faults = 0 => ToSet(r.store.list) = TimesIn(Seen(dk, s))

LEMMA RescanList ==
  ASSUME NEW dk, DiskFine(dk), NEW s, s.dir \in Dirs, s.there \in BOOLEAN,
         NEW r \in Rescan(dk, s)
  PROVE  Rescanned(dk, s, r)
<1> DEFINE f == Seen(dk, s)
<1>1. FilesOK(f) /\ (Roomy => Cardinality(DOMAIN f) <= Cap)
  BY SeenFine
<1>2. ASSUME NEW I \in SUBSET DOMAIN f, Cardinality(I) <= Cap, NEW t, t = WithList(s, Newest(f, I))
      PROVE  /\ StoreFine(t) /\ t.dir = s.dir /\ (t.there <=> s.there)
             /\ ToSet(t.list) = {f[i].time : i \in I}
  <2>1. t.list = Newest(f, I) /\ t.dir = s.dir /\ t.there = s.there
    BY <1>2, ListFields
  <2>2. EntriesOK(Newest(f, I)) /\ ToSet(Newest(f, I)) = {f[i].time : i \in I}
    BY <1>1, <1>2, NewestList
  <2> QED
    BY <2>1, <2>2 DEF StoreFine
<1>3. \/ \E I \in Pass(dk, f) : r = [disk |-> dk, store |-> WithList(s, Newest(f, I))]
      \/ /\ CanFail(dk)
         /\ \E I \in CutShort(f) : r = [disk |-> Fail(dk), store |-> WithList(s, Newest(f, I))]
  BY Zenon DEF Rescan, Seen, WithList
<1> HIDE DEF f
<1>4. ASSUME NEW I \in Pass(dk, f), r = [disk |-> dk, store |-> WithList(s, Newest(f, I))]
      PROVE  Rescanned(dk, s, r)
  <2>1. r.disk = dk /\ r.store = WithList(s, Newest(f, I))
    BY <1>4
  <2>2. /\ I \in SUBSET DOMAIN f /\ Cardinality(I) <= Cap
        /\ Roomy => I = DOMAIN f
    BY <1>1, <1>4, PassFew
  <2>3. /\ StoreFine(r.store) /\ r.store.dir = s.dir /\ (r.store.there <=> s.there)
        /\ ToSet(r.store.list) = {f[i].time : i \in I}
    BY <1>2, <2>1, <2>2
  <2>4. Reads(dk, r.disk)
    BY <2>1 DEF Reads
  <2> QED
    BY <2>2, <2>3, <2>4 DEF Rescanned, TimesIn, f
<1>5. ASSUME CanFail(dk), NEW I \in CutShort(f),
             r = [disk |-> Fail(dk), store |-> WithList(s, Newest(f, I))]
      PROVE  Rescanned(dk, s, r)
  <2>1. r.disk = Fail(dk) /\ r.store = WithList(s, Newest(f, I))
    BY <1>5
  <2>2. I \in SUBSET DOMAIN f /\ Cardinality(I) <= Cap
    BY <1>1, <1>5, CutShortFew
  <2>3. StoreFine(r.store) /\ r.store.dir = s.dir /\ (r.store.there <=> s.there)
    BY <1>2, <2>1, <2>2
  <2>4. Reads(dk, r.disk) /\ r.disk.faults # 0
    BY <1>5, <2>1, FailReads, FailFine
  <2> QED
    BY <2>3, <2>4 DEF Rescanned
<1> QED
  BY <1>3, <1>4, <1>5

(* A pass tells the store all there is to know.                            *)
LEMMA RescannedFine ==
  ASSUME NEW dk, DiskFine(dk), NEW s, s.dir \in Dirs, s.there \in BOOLEAN,
         Roomy /\ dk.faults = 0 => (s.there <=> s.dir \in dk.made),
         NEW r, Rescanned(dk, s, r)
  PROVE  Fine(r.disk, r.store)
<1>1. DiskFine(r.disk) /\ (r.disk.faults = 0 => dk.faults = 0)
  BY ReadsFine DEF Rescanned
<1>2. ASSUME Roomy, r.disk.faults = 0
      PROVE  /\ r.store.there <=> r.store.dir \in r.disk.made
             /\ ToSet(r.store.list) = TimesIn(r.disk.files[r.store.dir])
  <2>1. s.there <=> s.dir \in dk.made
    BY <1>1, <1>2
  <2>2. /\ r.disk.files = dk.files /\ r.disk.made = dk.made /\ r.store.dir = s.dir
        /\ (r.store.there <=> s.there) /\ ToSet(r.store.list) = TimesIn(Seen(dk, s))
    BY <1>2 DEF Rescanned, Reads
  <2>3. Seen(dk, s) = dk.files[s.dir]
    <3>1. CASE s.there = TRUE
      BY <3>1 DEF Seen
    <3>2. CASE s.there = FALSE
      BY <2>1, <3>2 DEF Seen, DiskFine
    <3> QED
      BY <3>1, <3>2
  <2> QED
    BY <2>1, <2>2, <2>3
<1> QED
  BY <1>1, <1>2 DEF Fine, Known, Rescanned

LEMMA EmptyList == EntriesOK(<<>>) /\ ToSet(<<>>) = {}
BY StoreAssumption DEF EntriesOK, ToSet

Refreshed(dk, rom, r) ==
  Reads(dk, r.disk) /\ Fine(r.disk, r.store) /\ r.store.dir = DirOf[rom]

LEMMA RefreshSound ==
  ASSUME NEW dk, DiskFine(dk), NEW rom \in Roms, NEW r \in RefreshOutcomes(dk, rom)
  PROVE  Refreshed(dk, rom, r)
<1> DEFINE s == [dir |-> DirOf[rom], there |-> DirOf[rom] \in dk.made, list |-> <<>>]
           t == [s EXCEPT !.there = FALSE]
<1>1. /\ DirOf[rom] \in Dirs /\ s.dir = DirOf[rom] /\ s.there \in BOOLEAN
      /\ (s.there <=> s.dir \in dk.made)
  <2>1. DirOf[rom] \in Dirs
    BY StoreAssumption
  <2>2. s.dir = DirOf[rom] /\ s.there = (DirOf[rom] \in dk.made)
    BY Zenon
  <2> HIDE DEF s
  <2>3. s.there \in BOOLEAN
    BY <2>2, SMT
  <2>4. s.there <=> DirOf[rom] \in dk.made
    BY <2>2, Zenon
  <2> QED
    BY <2>1, <2>2, <2>3, <2>4, Zenon
<1>2. t.dir = DirOf[rom] /\ t.there \in BOOLEAN /\ t.list = <<>>
  OBVIOUS
<1>3. \/ r \in Rescan(dk, s)
      \/ CanFail(dk) /\ r = [disk |-> Fail(dk), store |-> t]
  BY Zenon DEF RefreshOutcomes
<1> HIDE DEF s, t
<1>4. CASE r \in Rescan(dk, s)
  <2>1. Rescanned(dk, s, r)
    BY <1>1, <1>4, RescanList
  <2>2. Fine(r.disk, r.store)
    BY <1>1, <2>1, RescannedFine
  <2> QED
    BY <1>1, <2>1, <2>2 DEF Refreshed, Rescanned
<1>5. CASE CanFail(dk) /\ r = [disk |-> Fail(dk), store |-> t]
  <2>1. r.disk = Fail(dk) /\ r.store = t
    BY <1>5
  <2>2. DiskFine(Fail(dk)) /\ Fail(dk).faults # 0 /\ Reads(dk, Fail(dk))
    BY <1>5, FailFine, FailReads
  <2>3. StoreFine(t)
    BY <1>1, <1>2, EmptyList DEF StoreFine
  <2> QED
    BY <1>2, <2>1, <2>2, <2>3 DEF Refreshed, Fine, Known
<1> QED
  BY <1>3, <1>4, <1>5

-----------------------------------------------------------------------------
(* Saving.                                                                 *)
Contents(f) == {f[i] : i \in DOMAIN f}

LEMMA ContentTimes ==
  ASSUME NEW f
  PROVE  TimesIn(f) = {x.time : x \in Contents(f)}
BY DEF TimesIn, Contents

(* What a file of that time does to those that were there.                 *)
PutIn(f, b, g) == /\ TimesIn(g) = TimesIn(f) \cup {b.time}
                  /\ Contents(g) = {x \in Contents(f) : x.time # b.time} \cup {b}

LEMMA PutFine ==
  ASSUME NEW f, FilesOK(f), NEW b \in Blobs, Room(f, b.time)
  PROVE  FilesOK(Put(f, b)) /\ PutIn(f, b, Put(f, b))
<1> DEFINE g == Put(f, b)
<1>f. f = [i \in DOMAIN f |-> f[i]] /\ DOMAIN f \subseteq Slots
  BY DEF FilesOK
<1>1. CASE b.time \in TimesIn(f)
  <2> DEFINE k == SlotOf(f, b.time)
  <2>1. k \in DOMAIN f /\ f[k].time = b.time
    BY <1>1, Zenon DEF TimesIn, SlotOf
  <2> HIDE DEF k
  <2>2. g = [i \in DOMAIN f |-> IF i = k THEN b ELSE f[i]]
    <3>1. g = [f EXCEPT ![k] = b]
      BY <1>1, Zenon DEF Put, k
    <3> QED
      BY <1>f, <2>1, <3>1
  <2> HIDE DEF g
  <2>3. DOMAIN g = DOMAIN f /\ g[k] = b /\ \A i \in DOMAIN f \ {k} : g[i] = f[i]
    BY <2>1, <2>2
  <2>4. \A i \in DOMAIN f \ {k} : f[i].time # b.time
    BY <2>1 DEF FilesOK
  <2>5. FilesOK(g)
    <3>1. g = [i \in DOMAIN g |-> g[i]]
      BY <2>2
    <3>2. \A i \in DOMAIN g : g[i] \in Blobs
      BY <2>3 DEF FilesOK
    <3>3. \A i, j \in DOMAIN g : g[i].time = g[j].time => i = j
      BY <2>3, <2>4 DEF FilesOK
    <3> QED
      BY <1>f, <2>3, <3>1, <3>2, <3>3 DEF FilesOK
  <2>6. Contents(g) = {x \in Contents(f) : x.time # b.time} \cup {b}
    <3>1. ASSUME NEW i \in DOMAIN f
          PROVE  g[i] \in {x \in Contents(f) : x.time # b.time} \cup {b}
      BY <2>3, <2>4 DEF Contents
    <3>2. ASSUME NEW i \in DOMAIN f, f[i].time # b.time
          PROVE  f[i] \in Contents(g)
      BY <2>1, <2>3, <3>2 DEF Contents
    <3>3. b \in Contents(g)
      BY <2>1, <2>3 DEF Contents
    <3>4. Contents(g) = {g[i] : i \in DOMAIN f}
      BY <2>3, Zenon DEF Contents
    <3> QED
      BY <3>1, <3>2, <3>3, <3>4 DEF Contents
  <2>7. TimesIn(g) = TimesIn(f) \cup {b.time}
    <3>1. \A i \in DOMAIN f : g[i].time = f[i].time
      BY <2>1, <2>3
    <3>2. TimesIn(g) = {g[i].time : i \in DOMAIN f} /\ TimesIn(f) = {f[i].time : i \in DOMAIN f}
      BY <2>3 DEF TimesIn
    <3>3. TimesIn(g) = TimesIn(f)
      BY <3>1, <3>2
    <3> QED
      BY <1>1, <3>3
  <2> QED
    BY <2>5, <2>6, <2>7 DEF PutIn, g
<1>2. CASE b.time \notin TimesIn(f)
  <2> DEFINE k == Min(Slots \ DOMAIN f)
  <2>1. k \in Slots \ DOMAIN f
    <3>1. Slots \ DOMAIN f # {} /\ Slots \ DOMAIN f \in SUBSET Nat
      BY <1>2, StoreAssumption DEF Room
    <3>2. \E x \in Slots \ DOMAIN f : \A y \in Slots \ DOMAIN f : x <= y
      BY <3>1, LeastNatural
    <3> QED
      BY <3>2, Zenon DEF Min
  <2> HIDE DEF k
  <2>2. g = [i \in DOMAIN f \cup {k} |-> IF i \in DOMAIN f THEN f[i] ELSE b]
    BY <1>2, Zenon DEF Put, k
  <2> HIDE DEF g
  <2>3. DOMAIN g = DOMAIN f \cup {k} /\ g[k] = b /\ \A i \in DOMAIN f : g[i] = f[i]
    BY <2>1, <2>2
  <2>4. \A i \in DOMAIN f : f[i].time # b.time
    BY <1>2 DEF TimesIn
  <2>5. FilesOK(g)
    <3>1. g = [i \in DOMAIN g |-> g[i]]
      BY <2>2
    <3>2. \A i \in DOMAIN g : g[i] \in Blobs
      BY <2>3 DEF FilesOK
    <3>3. \A i, j \in DOMAIN g : g[i].time = g[j].time => i = j
      BY <2>3, <2>4 DEF FilesOK
    <3> QED
      BY <1>f, <2>1, <2>3, <3>1, <3>2, <3>3 DEF FilesOK
  <2>6. Contents(g) = {x \in Contents(f) : x.time # b.time} \cup {b}
    <3>1. ASSUME NEW i \in DOMAIN g
          PROVE  g[i] \in {x \in Contents(f) : x.time # b.time} \cup {b}
      BY <2>3, <2>4 DEF Contents
    <3>2. ASSUME NEW i \in DOMAIN f
          PROVE  f[i] \in Contents(g)
      BY <2>3, <3>2 DEF Contents
    <3>3. b \in Contents(g)
      BY <2>3 DEF Contents
    <3> QED
      BY <3>1, <3>2, <3>3 DEF Contents
  <2>7. TimesIn(g) = TimesIn(f) \cup {b.time}
    <3>1. \A i \in DOMAIN f : g[i].time = f[i].time
      BY <2>3
    <3>2. TimesIn(g) = {g[i].time : i \in DOMAIN f \cup {k}}
      BY <2>3 DEF TimesIn
    <3> QED
      BY <2>3, <3>1, <3>2 DEF TimesIn
  <2> QED
    BY <2>5, <2>6, <2>7 DEF PutIn, g
<1> QED
  BY <1>1, <1>2

(* The first name that is free, or the last of those tried.                *)
LEMMA CandidateFound ==
  ASSUME NEW dk, NEW s, NEW t \in 0 .. MaxTime
  PROVE  /\ Candidate(dk, s, t) \in t .. t + Tries - 1
         /\ Candidate(dk, s, t) \in Names
         /\ Taken(dk, s, Candidate(dk, s, t)) =>
              /\ Candidate(dk, s, t) = t + Tries - 1
              /\ \A n \in t .. t + Tries - 1 : Taken(dk, s, n)
<1> DEFINE U == {n \in t .. t + Tries - 1 : ~Taken(dk, s, n)}
           c == Candidate(dk, s, t)
<1>0. t \in Nat /\ Tries \in Nat \ {0} /\ MaxTime \in Nat
  BY StoreAssumption
<1>1. CASE U = {}
  <2>1. c = t + Tries - 1
    BY <1>1, Zenon DEF Candidate
  <2> QED
    BY <1>0, <1>1, <2>1 DEF Names
<1>2. CASE U # {}
  <2>1. c = Min(U)
    BY <1>2, Zenon DEF Candidate
  <2>2. U \in SUBSET Nat
    BY <1>0
  <2>3. \E x \in U : \A y \in U : x <= y
    BY <1>2, <2>2, LeastNatural
  <2> HIDE DEF U
  <2>4. c \in U
    BY <2>1, <2>3, Zenon DEF Min
  <2> QED
    BY <1>0, <2>4 DEF U, Names
<1> QED
  BY <1>1, <1>2

WithThere(s) == [s EXCEPT !.there = TRUE]

LEMMA ThereFields ==
  ASSUME NEW s
  PROVE  /\ WithThere(s).dir = s.dir /\ WithThere(s).list = s.list
         /\ WithThere(s).there = TRUE
BY DEF WithThere

LEMMA NamedFields ==
  ASSUME NEW b \in Blobs, NEW t \in Names
  PROVE  /\ Named(b, t) \in Blobs /\ Named(b, t).time = t
         /\ Named(b, t).rom = b.rom
BY DEF Named, Blobs

LEMMA WholenessFields ==
  ASSUME NEW b \in Blobs, NEW x \in BOOLEAN
  PROVE  /\ Wholeness(b, x) \in Blobs /\ Wholeness(b, x).time = b.time
         /\ Wholeness(b, x).rom = b.rom
BY DEF Wholeness, Blobs

(* What a save may do to the disk: the directory as it was, or with one    *)
(* file of the name that was found; and what the answer TRUE says.         *)
Keeps(dk, d, dk2) == \A e \in Dirs \ {d} : dk2.files[e] = dk.files[e]

Adds(dk, s, b, dk2) ==
  /\ Keeps(dk, s.dir, dk2)
  /\ \/ dk2.files[s.dir] = dk.files[s.dir]
     \/ \E x \in Blobs : /\ x.time = Candidate(dk, s, b.time) /\ x.rom = b.rom
                         /\ PutIn(dk.files[s.dir], x, dk2.files[s.dir])

Saved(dk, s, b, q) ==
  /\ Fine(q.disk, q.store) /\ q.blob \in Blobs
  /\ Roomy /\ q.ok /\ q.disk.faults = 0 => q.blob.time \in ToSet(q.store.list)
  /\ Adds(dk, s, b, q.disk)
  /\ q.ok => /\ q.blob.time = Candidate(dk, s, b.time)
             /\ TimesIn(q.disk.files[s.dir]) = TimesIn(dk.files[s.dir]) \cup {q.blob.time}
  /\ ~q.ok /\ ~CanFail(dk) => q.disk.files = dk.files

LEMMA WithFileFine ==
  ASSUME NEW dk, DiskFine(dk), NEW d \in Dirs, NEW g, FilesOK(g),
         NEW k, k = At(Made(dk, d), d, g)
  PROVE  /\ DiskFine(k) /\ d \in k.made /\ k.faults = dk.faults /\ k.backend = dk.backend
         /\ k.files[d] = g /\ Keeps(dk, d, k)
<1> DEFINE m == Made(dk, d)
<1>1. /\ DiskFine(m) /\ d \in m.made /\ m.files = dk.files
      /\ m.faults = dk.faults /\ m.backend = dk.backend
  BY MadeFine, MadeFields
<1> HIDE DEF m
<1>2. k = At(m, d, g)
  BY DEF m
<1>3. DiskFine(k)
  BY <1>1, <1>2, AtFine
<1>4. OnlyIn(m, d, g, k)
  BY <1>1, <1>2, AtOnly DEF DiskFine
<1>5. k.made = m.made /\ k.faults = m.faults /\ k.backend = m.backend
  BY <1>2, AtFields
<1> QED
  BY <1>1, <1>3, <1>4, <1>5 DEF OnlyIn, Keeps

LEMMA SaveSound ==
  ASSUME NEW dk, NEW s, Fine(dk, s), NEW b \in Captures,
         NEW q \in SaveOutcomes(dk, s, b)
  PROVE  Saved(dk, s, b, q)
<1> DEFINE c == Named(b, Candidate(dk, s, b.time))
           f == dk.files[s.dir]
           made == Made(dk, s.dir)
           t == WithThere(s)
           WithFile(g) == At(made, s.dir, g)
<1>a. b \in Blobs /\ b.time \in 0 .. MaxTime
  BY StoreAssumption DEF Captures, Blobs, Names
<1>b. c \in Blobs /\ c.time = Candidate(dk, s, b.time) /\ c.rom = b.rom
  BY <1>a, CandidateFound, NamedFields
<1>c. /\ DiskFine(dk) /\ s.dir \in Dirs /\ FilesOK(f) /\ StoreFine(s)
      /\ Roomy => Known(dk, s)
  BY DEF Fine, StoreFine, DiskFine
<1>d. /\ t.dir = s.dir /\ t.list = s.list /\ t.there = TRUE /\ StoreFine(t)
  BY <1>c, ThereFields DEF StoreFine
<1>1. \/ /\ Room(f, c.time)
         /\ \E r \in Rescan(WithFile(Put(f, c)), t) :
              q = [disk |-> r.disk, store |-> r.store, blob |-> c, ok |-> TRUE]
      \/ ~Room(f, c.time) /\ q = [disk |-> made, store |-> t, blob |-> c, ok |-> FALSE]
      \/ CanFail(dk) /\ q = [disk |-> Fail(dk), store |-> s, blob |-> b, ok |-> FALSE]
      \/ CanFail(dk) /\ \E g \in Spoiling(dk, f, c) :
             q = [disk |-> Fail(WithFile(g)), store |-> t, blob |-> c, ok |-> FALSE]
  BY Zenon DEF SaveOutcomes, Named, Made, WithThere, At
<1>2. ASSUME NEW g, FilesOK(g)
      PROVE  /\ DiskFine(WithFile(g)) /\ s.dir \in WithFile(g).made
             /\ WithFile(g).faults = dk.faults /\ WithFile(g).backend = dk.backend
             /\ WithFile(g).files[s.dir] = g /\ Keeps(dk, s.dir, WithFile(g))
  BY <1>c, <1>2, WithFileFine
<1>3. ASSUME Room(f, c.time)
      PROVE  FilesOK(Put(f, c)) /\ PutIn(f, c, Put(f, c))
  BY <1>b, <1>c, <1>3, PutFine
<1>4. \A g \in Spoiling(dk, f, c) :
        /\ FilesOK(g)
        /\ g = f \/ \E x \in Blobs : x.time = c.time /\ x.rom = c.rom /\ PutIn(f, x, g)
  <2> DEFINE x == Wholeness(c, FALSE)
  <2>1. x \in Blobs /\ x.time = c.time /\ x.rom = c.rom
    BY <1>b, WholenessFields
  <2>2. \A g \in Spoiling(dk, f, c) : g = f \/ (Room(f, c.time) /\ g = Put(f, x))
    BY Zenon DEF Spoiling, Wholeness, Room
  <2> HIDE DEF x, c
  <2>3. Room(f, c.time) => FilesOK(Put(f, x)) /\ PutIn(f, x, Put(f, x))
    BY <1>b, <1>c, <2>1, PutFine
  <2> QED
    BY <1>c, <2>1, <2>2, <2>3
<1>m. DiskFine(made) /\ made.files = dk.files /\ made.faults = dk.faults /\ s.dir \in made.made
  BY <1>c, MadeFine, MadeFields
<1> HIDE DEF c, f, made, t, WithFile
<1>5. ASSUME Room(f, c.time), NEW r \in Rescan(WithFile(Put(f, c)), t),
             q = [disk |-> r.disk, store |-> r.store, blob |-> c, ok |-> TRUE]
      PROVE  Saved(dk, s, b, q)
  <2> DEFINE k == WithFile(Put(f, c))
  <2>1. /\ DiskFine(k) /\ s.dir \in k.made /\ k.files[s.dir] = Put(f, c)
        /\ Keeps(dk, s.dir, k)
    BY <1>2, <1>3, <1>5
  <2>2. q.disk = r.disk /\ q.store = r.store /\ q.blob = c
    BY <1>5
  <2> HIDE DEF k
  <2>3. Rescanned(k, t, r)
    BY <1>5, <1>d, <2>1, RescanList DEF StoreFine, k
  <2>4. Fine(r.disk, r.store)
    BY <1>d, <2>1, <2>3, RescannedFine DEF StoreFine
  <2>5. r.disk.files = k.files
    BY <2>3 DEF Rescanned, Reads
  <2>6. PutIn(f, c, Put(f, c))
    BY <1>3, <1>5
  <2>7. Adds(dk, s, b, q.disk)
    BY <1>b, <2>1, <2>2, <2>5, <2>6 DEF Adds, Keeps, f
  <2>8. ASSUME Roomy, q.disk.faults = 0
        PROVE  q.blob.time \in ToSet(q.store.list)
    <3>1. ToSet(r.store.list) = TimesIn(Seen(k, t))
      BY <2>2, <2>3, <2>8 DEF Rescanned
    <3>2. Seen(k, t) = Put(f, c)
      BY <1>d, <2>1 DEF Seen
    <3> QED
      BY <2>2, <2>6, <3>1, <3>2 DEF PutIn
  <2>9. /\ q.ok = TRUE /\ q.blob.time = Candidate(dk, s, b.time)
        /\ TimesIn(q.disk.files[s.dir]) = TimesIn(dk.files[s.dir]) \cup {q.blob.time}
    <3>1. q.ok = TRUE
      BY <1>5
    <3> QED
      BY <1>b, <2>1, <2>2, <2>5, <2>6, <3>1 DEF PutIn, f
  <2> QED
    BY <1>b, <2>2, <2>4, <2>7, <2>8, <2>9 DEF Saved
<1>6. CASE q = [disk |-> made, store |-> t, blob |-> c, ok |-> FALSE] /\ ~Room(f, c.time)
  <2>1. q.disk = made /\ q.store = t /\ q.blob = c /\ q.ok = FALSE
    BY <1>6
  <2>2. Roomy => Known(made, t)
    BY <1>c, <1>d, <1>m DEF Known
  <2> QED
    BY <1>b, <1>d, <1>m, <2>1, <2>2 DEF Saved, Fine, Adds, Keeps
<1>7. CASE CanFail(dk) /\ q = [disk |-> Fail(dk), store |-> s, blob |-> b, ok |-> FALSE]
  <2>1. q.disk = Fail(dk) /\ q.store = s /\ q.blob = b /\ q.ok = FALSE
    BY <1>7
  <2>2. DiskFine(Fail(dk)) /\ Fail(dk).faults # 0 /\ Fail(dk).files = dk.files
    BY <1>7, <1>c, FailFine, FailFields
  <2> QED
    BY <1>7, <1>a, <1>c, <2>1, <2>2 DEF Saved, Fine, Known, Adds, Keeps
<1>8. ASSUME CanFail(dk), NEW g \in Spoiling(dk, f, c),
             q = [disk |-> Fail(WithFile(g)), store |-> t, blob |-> c, ok |-> FALSE]
      PROVE  Saved(dk, s, b, q)
  <2> DEFINE k == WithFile(g)
  <2>1. /\ DiskFine(k) /\ k.faults = dk.faults /\ k.backend = dk.backend /\ k.files[s.dir] = g
        /\ Keeps(dk, s.dir, k)
    BY <1>2, <1>4, <1>8
  <2>2. q.disk = Fail(k) /\ q.store = t /\ q.blob = c /\ q.ok = FALSE
    BY <1>8
  <2> HIDE DEF k
  <2>3. DiskFine(Fail(k)) /\ Fail(k).faults # 0 /\ Fail(k).files = k.files
    BY <1>8, <2>1, FailFine, FailFields DEF CanFail
  <2>4. Adds(dk, s, b, q.disk)
    BY <1>4, <1>8, <1>b, <2>1, <2>2, <2>3 DEF Adds, Keeps, f
  <2> QED
    BY <1>8, <1>b, <1>d, <2>2, <2>3, <2>4 DEF Saved, Fine, Known
<1> QED
  BY <1>1, <1>5, <1>6, <1>7, <1>8

-----------------------------------------------------------------------------
(* Loading, deleting one, deleting all.                                    *)
LEMMA ReadsKeepFine ==
  ASSUME NEW dk, NEW s, Fine(dk, s), NEW dk2, Reads(dk, dk2)
  PROVE  Fine(dk2, s)
<1>1. DiskFine(dk2) /\ (dk2.faults = 0 => dk.faults = 0)
  BY ReadsFine DEF Fine
<1>2. Known(dk, s) => Known(dk2, s)
  BY <1>1 DEF Known, Reads
<1> QED
  BY <1>1, <1>2 DEF Fine

LEMMA LoadFound ==
  ASSUME NEW dk, NEW s, Fine(dk, s), NEW i, NEW b, NEW q \in LoadOutcomes(dk, s, i, b)
  PROVE  /\ Reads(dk, q.disk) /\ Fine(q.disk, s)
         /\ q.ok => q.blob \in Blobs /\ i \in DOMAIN s.list /\ q.blob.time = s.list[i]
         /\ ~q.ok => q.blob \in {b, Wholeness(b, FALSE)}
<1> DEFINE f == dk.files[s.dir]
           found == s.there /\ i \in DOMAIN s.list /\ s.list[i] \in TimesIn(f)
           file == f[SlotOf(f, s.list[i])]
           lost == Wholeness(b, FALSE)
<1>1. \/ q = [disk |-> dk, blob |-> b, ok |-> FALSE]
      \/ found /\ q = [disk |-> dk, blob |-> file, ok |-> TRUE]
      \/ q = [disk |-> dk, blob |-> lost, ok |-> FALSE]
      \/ CanFail(dk) /\ q = [disk |-> Fail(dk), blob |-> b, ok |-> FALSE]
      \/ CanFail(dk) /\ q = [disk |-> Fail(dk), blob |-> lost, ok |-> FALSE]
  BY Zenon DEF LoadOutcomes, Spoilt, Wholeness
<1>3. found => file \in Blobs /\ file.time = s.list[i] /\ i \in DOMAIN s.list
  <2>1. found => SlotOf(f, s.list[i]) \in DOMAIN f /\ file.time = s.list[i]
    BY Zenon DEF SlotOf, TimesIn
  <2>2. s.dir \in Dirs /\ FilesOK(f)
    BY DEF Fine, StoreFine, DiskFine
  <2> QED
    BY <2>1, <2>2 DEF FilesOK
<1>4. Reads(dk, dk) /\ (CanFail(dk) => Reads(dk, Fail(dk)))
  BY FailReads DEF Reads
<1> HIDE DEF found, file, lost
<1>5. /\ Reads(dk, q.disk)
      /\ q.ok => q.blob \in Blobs /\ i \in DOMAIN s.list /\ q.blob.time = s.list[i]
      /\ ~q.ok => q.blob \in {b, lost}
  BY <1>1, <1>3, <1>4
<1> QED
  BY <1>5, ReadsKeepFine DEF lost

LEMMA LoadSound ==
  ASSUME NEW dk, NEW s, Fine(dk, s), NEW i, NEW b \in Blobs, NEW q \in LoadOutcomes(dk, s, i, b)
  PROVE  Reads(dk, q.disk) /\ Fine(q.disk, s) /\ q.blob \in Blobs
BY LoadFound, WholenessFields

LEMMA WithoutFine ==
  ASSUME NEW f, FilesOK(f), NEW T
  PROVE  /\ FilesOK(Without(f, T)) /\ Contents(Without(f, T)) \subseteq Contents(f)
         /\ RomsIn(Without(f, T)) \subseteq RomsIn(f)
         /\ Without(f, T) # <<>> => f # <<>>
<1> DEFINE I == {i \in DOMAIN f : f[i].time \notin T}
           g == Without(f, T)
<1>1. g = [i \in I |-> f[i]]
  BY DEF Without, Restrict
<1> HIDE DEF g
<1>2. DOMAIN g = I /\ I \subseteq DOMAIN f /\ \A i \in I : g[i] = f[i]
  BY <1>1
<1>3. g = [i \in DOMAIN g |-> g[i]]
  BY <1>1
<1>4. FilesOK(g)
  BY <1>2, <1>3 DEF FilesOK
<1>5. Contents(g) \subseteq Contents(f) /\ RomsIn(g) \subseteq RomsIn(f)
  BY <1>2 DEF Contents, RomsIn
<1>6. g # <<>> => f # <<>>
  BY <1>2, <1>4, EmptyDirectory DEF FilesOK
<1> QED
  BY <1>4, <1>5, <1>6 DEF g

LEMMA SpoilFine ==
  ASSUME NEW f, FilesOK(f), NEW t
  PROVE  /\ FilesOK(SpoilIn(f, t)) /\ (SpoilIn(f, t) # <<>> => f # <<>>)
         /\ RomsIn(SpoilIn(f, t)) \subseteq RomsIn(f)
<1> DEFINE g == SpoilIn(f, t)
           sound(i) == f[i].whole /\ f[i].time # t
<1>1. g = [i \in DOMAIN f |-> Wholeness(f[i], sound(i))]
  BY Zenon DEF SpoilIn, Wholeness
<1> HIDE DEF g
<1>2. DOMAIN g = DOMAIN f /\ g = [i \in DOMAIN g |-> g[i]]
  BY <1>1
<1>3. ASSUME NEW i \in DOMAIN f
      PROVE  g[i] \in Blobs /\ g[i].time = f[i].time /\ g[i].rom = f[i].rom
  <2>1. g[i] = Wholeness(f[i], sound(i))
    BY <1>1, Zenon
  <2>2. f[i] \in Blobs /\ sound(i) \in BOOLEAN
    BY DEF FilesOK, Blobs
  <2> HIDE DEF sound
  <2> QED
    BY <2>1, <2>2, WholenessFields
<1>4. FilesOK(g)
  BY <1>2, <1>3 DEF FilesOK
<1>5. g # <<>> => f # <<>>
  BY <1>2, <1>4, EmptyDirectory DEF FilesOK
<1>6. RomsIn(g) \subseteq RomsIn(f)
  BY <1>2, <1>3 DEF RomsIn
<1> QED
  BY <1>4, <1>5, <1>6 DEF g

(* What a call that deletes may do: other directories stay as they are,    *)
(* and what is left in the store's was there; that is, unless an SD card   *)
(* fails between the clusters of a file and its entry.                     *)
Drops(dk, s, dk2) ==
  /\ Keeps(dk, s.dir, dk2)
  /\ RomsIn(dk2.files[s.dir]) \subseteq RomsIn(dk.files[s.dir])
  /\ dk.backend # "sd" \/ ~CanFail(dk) =>
        Contents(dk2.files[s.dir]) \subseteq Contents(dk.files[s.dir])

Removed(dk, s, q) == /\ Fine(q.disk, q.store) /\ Drops(dk, s, q.disk)
                     /\ q.disk.faults = 0 => dk.faults = 0

LEMMA DeleteSound ==
  ASSUME NEW dk, NEW s, Fine(dk, s), NEW i, NEW q \in DeleteOutcomes(dk, s, i)
  PROVE  Removed(dk, s, q)
<1> DEFINE t == s.list[i]
           f == dk.files[s.dir]
           gone == At(dk, s.dir, Without(f, {t}))
           spoiled == At(Fail(dk), s.dir, SpoilIn(Fail(dk).files[s.dir], t))
<1>a. /\ DiskFine(dk) /\ s.dir \in Dirs /\ FilesOK(f) /\ StoreFine(s)
      /\ f # <<>> => s.dir \in dk.made
      /\ Roomy => Known(dk, s)
  BY DEF Fine, StoreFine, DiskFine
<1>b. /\ DiskFine(gone) /\ gone.faults = dk.faults /\ gone.made = dk.made
      /\ OnlyIn(dk, s.dir, Without(f, {t}), gone)
  <2>1. DiskFine(gone)
    BY <1>a, WithoutFine, AtFine
  <2> QED
    BY <1>a, <2>1, AtFields, AtOnly DEF DiskFine
<1>c. CanFail(dk) => /\ DiskFine(Fail(dk)) /\ Fail(dk).faults # 0 /\ Fail(dk).files = dk.files
                     /\ Reads(dk, Fail(dk))
  BY <1>a, FailFine, FailFields, FailReads
<1>d. CanFail(dk) => /\ DiskFine(spoiled) /\ spoiled.faults # 0
                     /\ OnlyIn(dk, s.dir, SpoilIn(f, t), spoiled)
  <2> SUFFICES ASSUME CanFail(dk)
               PROVE  /\ DiskFine(spoiled) /\ spoiled.faults # 0
                      /\ OnlyIn(dk, s.dir, SpoilIn(f, t), spoiled)
    OBVIOUS
  <2>1. spoiled = At(Fail(dk), s.dir, SpoilIn(f, t)) /\ Fail(dk).made = dk.made
    BY <1>c, FailFields
  <2>2. DiskFine(spoiled)
    BY <1>a, <1>c, <2>1, SpoilFine, AtFine
  <2>3. OnlyIn(Fail(dk), s.dir, SpoilIn(f, t), spoiled)
    BY <1>a, <1>c, <2>1, AtOnly DEF DiskFine
  <2>4. spoiled.faults = Fail(dk).faults
    BY AtFields
  <2> QED
    BY <1>c, <2>2, <2>3, <2>4 DEF OnlyIn
<1>1. \/ q = [disk |-> dk, store |-> s, ok |-> FALSE]
      \/ s.there /\ \E r \in Rescan(gone, s) : q = [disk |-> r.disk, store |-> r.store, ok |-> TRUE]
      \/ CanFail(dk) /\ q = [disk |-> Fail(dk), store |-> s, ok |-> FALSE]
      \/ /\ CanFail(dk) /\ \E r \in Rescan(Fail(dk), s) :
                              q = [disk |-> r.disk, store |-> r.store, ok |-> TRUE]
      \/ CanFail(dk) /\ dk.backend = "sd" /\ q = [disk |-> spoiled, store |-> s, ok |-> FALSE]
  BY Zenon DEF DeleteOutcomes, At
<1>2. /\ Contents(Without(f, {t})) \subseteq Contents(f)
      /\ RomsIn(Without(f, {t})) \subseteq RomsIn(f) /\ RomsIn(SpoilIn(f, t)) \subseteq RomsIn(f)
  BY <1>a, WithoutFine, SpoilFine
<1> HIDE DEF gone, spoiled
<1>3. CASE q = [disk |-> dk, store |-> s, ok |-> FALSE]
  <2>1. q.disk = dk /\ q.store = s
    BY <1>3
  <2> QED
    BY <2>1 DEF Removed, Drops, Keeps
<1>4. ASSUME s.there, NEW r \in Rescan(gone, s), q = [disk |-> r.disk, store |-> r.store, ok |-> TRUE]
      PROVE  Removed(dk, s, q)
  <2>1. q.disk = r.disk /\ q.store = r.store
    BY <1>4
  <2>2. Rescanned(gone, s, r)
    BY <1>4, <1>a, <1>b, RescanList DEF StoreFine
  <2>3. Roomy /\ gone.faults = 0 => (s.there <=> s.dir \in gone.made)
    BY <1>a, <1>b DEF Known
  <2>4. Fine(r.disk, r.store)
    BY <1>a, <1>b, <2>2, <2>3, RescannedFine DEF StoreFine
  <2>5. r.disk.files = gone.files
    BY <2>2 DEF Rescanned, Reads
  <2>6. r.disk.faults = 0 => dk.faults = 0
    BY <1>b, <2>2, ReadsFine DEF Rescanned
  <2> QED
    BY <1>2, <1>a, <1>b, <2>1, <2>4, <2>5, <2>6 DEF Removed, Drops, Keeps, OnlyIn
<1>5. CASE CanFail(dk) /\ q = [disk |-> Fail(dk), store |-> s, ok |-> FALSE]
  <2>1. q.disk = Fail(dk) /\ q.store = s
    BY <1>5
  <2> QED
    BY <1>5, <1>a, <1>c, <2>1, ReadsKeepFine DEF Removed, Drops, Keeps, f
<1>6. ASSUME CanFail(dk), NEW r \in Rescan(Fail(dk), s),
             q = [disk |-> r.disk, store |-> r.store, ok |-> TRUE]
      PROVE  Removed(dk, s, q)
  <2>1. q.disk = r.disk /\ q.store = r.store
    BY <1>6
  <2>2. Rescanned(Fail(dk), s, r)
    BY <1>6, <1>a, <1>c, RescanList DEF StoreFine
  <2>3. Fine(r.disk, r.store)
    BY <1>6, <1>a, <1>c, <2>2, RescannedFine DEF StoreFine
  <2>4. r.disk.files = dk.files
    BY <1>6, <1>c, <2>2 DEF Rescanned, Reads
  <2>5. r.disk.faults # 0
    BY <1>6, <1>c, <2>2, ReadsFine DEF Rescanned
  <2> QED
    BY <2>1, <2>3, <2>4, <2>5 DEF Removed, Drops, Keeps
<1>7. CASE CanFail(dk) /\ dk.backend = "sd" /\ q = [disk |-> spoiled, store |-> s, ok |-> FALSE]
  <2>1. q.disk = spoiled /\ q.store = s
    BY <1>7
  <2> QED
    BY <1>2, <1>7, <1>a, <1>d, <2>1 DEF Removed, Drops, Keeps, OnlyIn, Fine, Known
<1> QED
  BY <1>1, <1>3, <1>4, <1>5, <1>6, <1>7

(* All saves are gone when the store says so and nothing failed.           *)
Cleared(dk, s, q) ==
  /\ Removed(dk, s, q) /\ q.store.dir = s.dir
  /\ Roomy /\ q.disk.faults = 0 /\ q.ok => q.disk.files[s.dir] = <<>>

LEMMA ClearSound ==
  ASSUME NEW dk, NEW s, Fine(dk, s), NEW q \in ClearOutcomes(dk, s)
  PROVE  Cleared(dk, s, q)
<1> DEFINE f == dk.files[s.dir]
           all == IF dk.backend = "posix" THEN TimesIn(f)
                  ELSE IF s.there THEN ToSet(s.list) ELSE {}
           Gone(k, T) == At(k, s.dir, Without(k.files[s.dir], T))
           t == WithList(s, <<>>)
<1>a. /\ DiskFine(dk) /\ s.dir \in Dirs /\ FilesOK(f) /\ StoreFine(s)
      /\ f # <<>> => s.dir \in dk.made
      /\ Roomy => Known(dk, s)
  BY DEF Fine, StoreFine, DiskFine
<1>b. t.dir = s.dir /\ t.there = s.there /\ t.list = <<>> /\ StoreFine(t)
  BY <1>a, ListFields, EmptyList DEF StoreFine
<1>c. CanFail(dk) => DiskFine(Fail(dk)) /\ Fail(dk).faults # 0
  BY <1>a, FailFine
<1>d. ASSUME NEW k, DiskFine(k), k.files = dk.files, k.made = dk.made, NEW T
      PROVE  /\ DiskFine(Gone(k, T)) /\ Gone(k, T).faults = k.faults /\ Gone(k, T).made = dk.made
             /\ Gone(k, T).files[s.dir] = Without(f, T) /\ Drops(dk, s, Gone(k, T))
  <2>1. k.files[s.dir] = f
    BY <1>d
  <2>2. Gone(k, T) = At(k, s.dir, Without(f, T))
    BY <2>1
  <2>3. DiskFine(Gone(k, T))
    BY <1>a, <1>d, <2>2, WithoutFine, AtFine
  <2>4. OnlyIn(k, s.dir, Without(f, T), Gone(k, T))
    BY <1>a, <1>d, <2>2, AtOnly DEF DiskFine
  <2>5. Gone(k, T).faults = k.faults /\ Gone(k, T).made = k.made
    BY AtFields
  <2>6. Contents(Without(f, T)) \subseteq Contents(f) /\ RomsIn(Without(f, T)) \subseteq RomsIn(f)
    BY <1>a, WithoutFine
  <2> HIDE DEF Gone
  <2> QED
    BY <1>a, <1>d, <2>3, <2>4, <2>5, <2>6 DEF OnlyIn, Drops, Keeps
<1>1. \/ q = [disk |-> Gone(dk, all), store |-> t, ok |-> TRUE]
      \/ /\ CanFail(dk)
         /\ \E T : \/ q = [disk |-> Gone(Fail(dk), T), store |-> t, ok |-> TRUE]
                   \/ q = [disk |-> Gone(Fail(dk), T), store |-> s, ok |-> FALSE]
  BY Zenon DEF ClearOutcomes, At, WithList
<1>2. CASE q = [disk |-> Gone(dk, all), store |-> t, ok |-> TRUE]
  <2> DEFINE k == Gone(dk, all)
  <2>1. /\ DiskFine(k) /\ k.faults = dk.faults /\ k.made = dk.made
        /\ k.files[s.dir] = Without(f, all) /\ Drops(dk, s, k)
    BY <1>a, <1>d
  <2>2. q.disk = k /\ q.store = t /\ q.ok = TRUE
    BY <1>2
  <2> HIDE DEF k
  <2>3. ASSUME Roomy, k.faults = 0
        PROVE  k.files[s.dir] = <<>> /\ TimesIn(k.files[s.dir]) = {} /\ Known(k, t)
    <3>1. (s.there <=> s.dir \in dk.made) /\ ToSet(s.list) = TimesIn(f)
      BY <1>a, <2>1, <2>3 DEF Known
    <3>2. all = TimesIn(f)
      <4>1. CASE s.there = TRUE
        BY <3>1, <4>1
      <4>2. CASE s.there = FALSE
        <5>1. f = <<>>
          BY <1>a, <3>1, <4>2
        <5>2. TimesIn(f) = {}
          BY <5>1 DEF TimesIn
        <5> QED
          BY <4>2, <5>2
      <4> QED
        BY <1>a, <4>1, <4>2 DEF StoreFine
    <3>3. TimesIn(Without(f, all)) = {}
      BY <3>2, WithoutTimes
    <3>4. DOMAIN Without(f, all) = {}
      BY <3>3 DEF TimesIn
    <3>5. Without(f, all) = <<>>
      BY <3>4, <1>a, WithoutFine, EmptyDirectory DEF FilesOK
    <3> HIDE DEF all
    <3>6. Known(k, t)
      BY <1>b, <2>1, <3>1, <3>3, EmptyList DEF Known
    <3> QED
      BY <2>1, <3>3, <3>5, <3>6
  <2>4. Roomy => Known(k, t)
    BY <2>3 DEF Known
  <2> QED
    BY <1>b, <2>1, <2>2, <2>3, <2>4 DEF Cleared, Removed, Fine
<1>3. ASSUME CanFail(dk), NEW T, NEW u \in {s, t}, NEW ok \in BOOLEAN,
             q = [disk |-> Gone(Fail(dk), T), store |-> u, ok |-> ok]
      PROVE  Cleared(dk, s, q)
  <2> DEFINE k == Gone(Fail(dk), T)
  <2>0. Fail(dk).files = dk.files /\ Fail(dk).made = dk.made
    BY FailFields
  <2>1. DiskFine(k) /\ k.faults # 0 /\ Drops(dk, s, k)
    BY <1>3, <1>c, <1>d, <2>0
  <2>2. q.disk = k /\ q.store = u /\ StoreFine(u) /\ u.dir = s.dir
    BY <1>3, <1>a, <1>b
  <2> HIDE DEF k
  <2> QED
    BY <2>1, <2>2 DEF Cleared, Removed, Fine, Known
<1> HIDE DEF all, Gone, t
<1> QED
  BY <1>1, <1>2, <1>3

-----------------------------------------------------------------------------
(* What the answers of the store say, whatever fails and however full a    *)
(* directory is.                                                           *)
LEMMA ListLength ==
  ASSUME NEW l, EntriesOK(l)
  PROVE  /\ IsFiniteSet(ToSet(l)) /\ Cardinality(ToSet(l)) = Len(l)
         /\ Len(l) = 0 => l = <<>>
<1>1. /\ l \in Seq(Names) /\ Len(l) \in Nat /\ DOMAIN l = 1 .. Len(l)
      /\ \A i, j \in DOMAIN l : i < j => l[i] > l[j]
  BY DEF EntriesOK
<1>2. \A i \in DOMAIN l : l[i] \in Nat
  <2>1. \A i \in 1 .. Len(l) : l[i] \in Names
    BY <1>1
  <2> QED
    BY <1>1, <2>1, NamesAreNaturals
<1>3. \A i, j \in DOMAIN l : l[i] = l[j] => i = j
  BY <1>1, <1>2
<1>4. l \in [1 .. Len(l) -> ToSet(l)]
  BY <1>1 DEF ToSet
<1>5. l \in Bijection(1 .. Len(l), ToSet(l))
  <2>1. l \in Injection(1 .. Len(l), ToSet(l))
    BY <1>1, <1>3, <1>4 DEF Injection, IsInjective
  <2>2. l \in Surjection(1 .. Len(l), ToSet(l))
    BY <1>1, <1>4 DEF Surjection, ToSet
  <2> QED
    BY <2>1, <2>2 DEF Bijection
<1>6. IsFiniteSet(1 .. Len(l)) /\ Cardinality(1 .. Len(l)) = Len(l)
  BY <1>1, FS_Interval
<1> QED
  BY <1>1, <1>5, <1>6, FS_Bijection DEF ExistsBijection

LEMMA FileTimes ==
  ASSUME NEW f, FilesOK(f), NEW I \in SUBSET DOMAIN f
  PROVE  /\ IsFiniteSet(I) /\ IsFiniteSet({f[i].time : i \in I})
         /\ Cardinality({f[i].time : i \in I}) = Cardinality(I) /\ Cardinality(I) \in Nat
<1> DEFINE g == [i \in I |-> f[i].time]
           T == {f[i].time : i \in I}
<1>1. IsFiniteSet(I) /\ Cardinality(I) \in Nat
  BY FS_Subset, FS_CardinalityType, StoreAssumption DEF FilesOK
<1>2. g \in Bijection(I, T)
  <2>1. g \in [I -> T] /\ \A i, j \in I : g[i] = g[j] => i = j
    BY DEF FilesOK
  <2>2. g \in Surjection(I, T)
    BY DEF Surjection
  <2> QED
    BY <2>1, <2>2 DEF Bijection, Injection, IsInjective
<1> QED
  BY <1>1, <1>2, FS_Bijection DEF ExistsBijection

(* The first n of more than n are n.                                       *)
LEMMA LeadingSize ==
  ASSUME NEW I \in SUBSET Nat, IsFiniteSet(I), NEW n \in Nat, n < Cardinality(I)
  PROVE  Cardinality(Leading(I, n)) = n
<1> DEFINE J == Leading(I, n)
<1>1. /\ J \in SUBSET I /\ Cardinality(J) <= n /\ IsFiniteSet(J)
      /\ Cardinality(J) \in Nat /\ Cardinality(I) \in Nat
  BY LeadingFew, FS_Subset, FS_CardinalityType
<1>2. ASSUME Cardinality(J) < n
      PROVE  FALSE
  <2>1. I \ J # {} /\ I \ J \in SUBSET Nat
    <3>1. J # I
      BY <1>1, <1>2
    <3> QED
      BY <1>1, <3>1
  <2>2. PICK m \in I \ J : \A j \in I \ J : m <= j
    BY <2>1, LeastNatural
  <2> DEFINE K == {j \in I : j <= m}
  <2>3. K \in SUBSET (J \cup {m}) /\ m \notin J
    <3>1. ASSUME NEW j \in I, j <= m, j \notin J
          PROVE  j = m
      <4>1. m <= j /\ j \in Nat /\ m \in Nat
        BY <2>1, <2>2, <3>1
      <4> QED
        BY <3>1, <4>1
    <3> HIDE DEF J
    <3> QED
      BY <2>2, <3>1
  <2>4. IsFiniteSet(J \cup {m}) /\ Cardinality(J \cup {m}) = Cardinality(J) + 1
    BY <1>1, <2>3, FS_AddElement
  <2>5. Cardinality(K) <= Cardinality(J) + 1 /\ Cardinality(K) \in Nat
    BY <2>3, <2>4, FS_Subset, FS_CardinalityType
  <2>6. Cardinality(K) <= n
    BY <1>1, <1>2, <2>5
  <2>7. m \in Leading(I, n)
    BY <2>2, <2>6 DEF Leading
  <2> QED
    BY <2>2, <2>7
<1> QED
  BY <1>1, <1>2

(* As many as there are and the listing has room for.                      *)
ListRoom(f) == Min({Cap, Cardinality(DOMAIN f)})

LEMMA ListRoomIs ==
  ASSUME NEW f, FilesOK(f)
  PROVE  /\ ListRoom(f) = IF Cardinality(DOMAIN f) <= Cap THEN Cardinality(DOMAIN f) ELSE Cap
         /\ Cardinality(DOMAIN f) \in Nat /\ IsFiniteSet(DOMAIN f) /\ DOMAIN f \in SUBSET Nat
<1>1. Cardinality(DOMAIN f) \in Nat /\ IsFiniteSet(DOMAIN f) /\ DOMAIN f \in SUBSET Nat
  BY FileTimes, StoreAssumption DEF FilesOK
<1>2. Cap \in Nat
  BY StoreAssumption
<1>3. \E x \in {Cap, Cardinality(DOMAIN f)} : \A y \in {Cap, Cardinality(DOMAIN f)} : x <= y
  BY <1>1, <1>2
<1>4. /\ ListRoom(f) \in {Cap, Cardinality(DOMAIN f)}
      /\ \A y \in {Cap, Cardinality(DOMAIN f)} : ListRoom(f) <= y
  BY <1>3, Zenon DEF ListRoom, Min
<1> QED
  BY <1>1, <1>2, <1>4

LEMMA PassSize ==
  ASSUME NEW dk, NEW f, FilesOK(f), NEW I \in Pass(dk, f)
  PROVE  Cardinality(I) = ListRoom(f)
<1>1. CASE dk.backend = "sd"
  <2>1. I = Leading(DOMAIN f, Cap)
    BY <1>1 DEF Pass
  <2> QED
    BY <2>1, ListRoomIs, LeadingFew, LeadingSize, StoreAssumption
<1>2. CASE dk.backend # "sd"
  BY <1>2 DEF Pass, kSubset, ListRoom
<1> QED
  BY <1>1, <1>2

(* The listing l of the files f; all of them if quiet.                     *)
Lists(f, l, quiet) ==
  /\ EntriesOK(l) /\ ToSet(l) \subseteq TimesIn(f)
  /\ quiet => Len(l) = ListRoom(f)

LEMMA NewestLists ==
  ASSUME NEW f, FilesOK(f), NEW I \in SUBSET DOMAIN f, Cardinality(I) <= Cap
  PROVE  Lists(f, Newest(f, I), Cardinality(I) = ListRoom(f))
<1>1. EntriesOK(Newest(f, I)) /\ ToSet(Newest(f, I)) = {f[i].time : i \in I}
  BY NewestList
<1>2. Len(Newest(f, I)) = Cardinality(I)
  <2>1. Len(Newest(f, I)) = Cardinality({f[i].time : i \in I})
    BY <1>1, ListLength
  <2> QED
    BY <2>1, FileTimes
<1>3. {f[i].time : i \in I} \subseteq TimesIn(f)
  BY DEF TimesIn
<1> QED
  BY <1>1, <1>2, <1>3 DEF Lists

(* A listing of all has every name.                                        *)
LEMMA FullList ==
  ASSUME NEW f, FilesOK(f), NEW l, Lists(f, l, TRUE), Cardinality(DOMAIN f) <= Cap
  PROVE  ToSet(l) = TimesIn(f)
<1>1. Cardinality(ToSet(l)) = Cardinality(DOMAIN f)
  BY ListLength, ListRoomIs DEF Lists
<1>2. IsFiniteSet(TimesIn(f)) /\ Cardinality(TimesIn(f)) = Cardinality(DOMAIN f)
  BY FileTimes DEF TimesIn
<1> QED
  BY <1>1, <1>2, FS_Subset DEF Lists

(* A call after which nothing is known to have failed.                     *)
Quiet(dk, dk2) == dk2.faults = dk.faults

(* A directory that is not there has no listing.                           *)
Absent(s) == ~s.there => s.list = <<>>

(* What every call leaves as it is.                                        *)
Tells(dk, s, dk2, s2) ==
  /\ s2.dir = s.dir /\ dk2.backend = dk.backend /\ dk2.faults \in Nat /\ dk.faults <= dk2.faults
  /\ Keeps(dk, s.dir, dk2) /\ (Absent(s) => Absent(s2))

ListsHere(dk, s, quiet) == Lists(dk.files[s.dir], s.list, quiet)

LEMMA EmptyLists ==
  ASSUME NEW f
  PROVE  Lists(f, <<>>, FALSE)
BY EmptyList DEF Lists

LEMMA RescanTells ==
  ASSUME NEW dk, DiskFine(dk), NEW s, s.dir \in Dirs, s.there \in BOOLEAN,
         NEW r \in Rescan(dk, s)
  PROVE  /\ Tells(dk, s, r.disk, r.store) /\ r.disk.files = dk.files
         /\ s.there \/ s.dir \notin dk.made => ListsHere(r.disk, r.store, Quiet(dk, r.disk))
         /\ Absent(r.store)
<1> DEFINE f == Seen(dk, s)
           h == dk.files[s.dir]
<1>1. Rescanned(dk, s, r)
  BY RescanList
<1>2. /\ FilesOK(f) /\ FilesOK(h) /\ dk.faults \in Nat
      /\ s.there \/ s.dir \notin dk.made => f = h
  <2>1. s.there \/ s.dir \notin dk.made => f = h
    BY Zenon DEF Seen, DiskFine
  <2> QED
    BY <2>1, SeenFine, FaultsCounted DEF DiskFine
<1>3. \/ \E I \in Pass(dk, f) : r = [disk |-> dk, store |-> WithList(s, Newest(f, I))]
      \/ /\ CanFail(dk)
         /\ \E I \in CutShort(f) : r = [disk |-> Fail(dk), store |-> WithList(s, Newest(f, I))]
  BY Zenon DEF Rescan, Seen, WithList
<1>4. \E I \in SUBSET DOMAIN f : /\ Cardinality(I) <= Cap /\ r.store.list = Newest(f, I)
                                 /\ Cardinality(I) = ListRoom(f) \/ ~Quiet(dk, r.disk)
  <2> HIDE DEF f
  <2>1. ASSUME NEW I \in Pass(dk, f), r = [disk |-> dk, store |-> WithList(s, Newest(f, I))]
        PROVE  /\ I \in SUBSET DOMAIN f /\ Cardinality(I) <= Cap /\ r.store.list = Newest(f, I)
               /\ Cardinality(I) = ListRoom(f)
    BY <1>2, <2>1, PassFew, PassSize, ListFields
  <2>2. ASSUME CanFail(dk), NEW I \in CutShort(f),
               r = [disk |-> Fail(dk), store |-> WithList(s, Newest(f, I))]
        PROVE  /\ I \in SUBSET DOMAIN f /\ Cardinality(I) <= Cap /\ r.store.list = Newest(f, I)
               /\ ~Quiet(dk, r.disk)
    BY <1>2, <2>2, CutShortFew, ListFields, FailFields DEF Quiet
  <2> QED
    BY <1>3, <2>1, <2>2
<1>5. Lists(f, r.store.list, Quiet(dk, r.disk))
  <2>1. PICK I \in SUBSET DOMAIN f : /\ Cardinality(I) <= Cap /\ r.store.list = Newest(f, I)
                                     /\ Cardinality(I) = ListRoom(f) \/ ~Quiet(dk, r.disk)
    BY <1>4
  <2> HIDE DEF f
  <2>2. Lists(f, Newest(f, I), Cardinality(I) = ListRoom(f))
    BY <1>2, <2>1, NewestLists
  <2> QED
    BY <2>1, <2>2 DEF Lists
<1>6. Absent(r.store)
  <2>1. ASSUME ~s.there
        PROVE  r.store.list = <<>>
    <3>1. TimesIn(f) = {}
      BY <2>1 DEF Seen, TimesIn
    <3> HIDE DEF f
    <3>2. ToSet(r.store.list) = {} /\ EntriesOK(r.store.list)
      BY <1>5, <3>1 DEF Lists
    <3>3. Len(r.store.list) = 0
      BY <3>2, ListLength, FS_EmptySet
    <3> QED
      BY <3>2, <3>3, ListLength
  <2> QED
    BY <1>1, <2>1 DEF Absent, Rescanned
<1> HIDE DEF f, h
<1>7. /\ r.disk.files = dk.files /\ r.store.dir = s.dir /\ r.disk.backend = dk.backend
      /\ r.disk.faults \in Nat /\ dk.faults <= r.disk.faults
  BY <1>1, <1>2 DEF Rescanned, Reads
<1> QED
  BY <1>2, <1>5, <1>6, <1>7 DEF Tells, ListsHere, Keeps, h

LEMMA RefreshTells ==
  ASSUME NEW dk, DiskFine(dk), NEW rom \in Roms, NEW r \in RefreshOutcomes(dk, rom)
  PROVE  /\ r.disk.files = dk.files /\ r.disk.backend = dk.backend /\ r.store.dir \in Dirs
         /\ r.disk.faults \in Nat /\ dk.faults <= r.disk.faults
         /\ ListsHere(r.disk, r.store, Quiet(dk, r.disk)) /\ Absent(r.store)
<1> DEFINE s == [dir |-> DirOf[rom], there |-> DirOf[rom] \in dk.made, list |-> <<>>]
           t == [s EXCEPT !.there = FALSE]
<1>1. /\ DirOf[rom] \in Dirs /\ s.dir = DirOf[rom] /\ s.there \in BOOLEAN
      /\ (s.there <=> s.dir \in dk.made) /\ dk.faults \in Nat
  <2>1. DirOf[rom] \in Dirs /\ dk.faults \in Nat
    BY StoreAssumption, FaultsCounted
  <2>2. s.dir = DirOf[rom] /\ s.there = (DirOf[rom] \in dk.made)
    BY Zenon
  <2> HIDE DEF s
  <2>3. s.there \in BOOLEAN
    BY <2>2, SMT
  <2>4. s.there <=> DirOf[rom] \in dk.made
    BY <2>2, Zenon
  <2> QED
    BY <2>1, <2>2, <2>3, <2>4, Zenon
<1>2. t.dir = DirOf[rom] /\ t.list = <<>>
  OBVIOUS
<1>3. \/ r \in Rescan(dk, s)
      \/ CanFail(dk) /\ r = [disk |-> Fail(dk), store |-> t]
  BY Zenon DEF RefreshOutcomes
<1> HIDE DEF s, t
<1>4. CASE r \in Rescan(dk, s)
  BY <1>1, <1>4, RescanTells DEF Tells
<1>5. CASE CanFail(dk) /\ r = [disk |-> Fail(dk), store |-> t]
  <2>1. r.disk = Fail(dk) /\ r.store = t
    BY <1>5
  <2>2. /\ r.disk.files = dk.files /\ r.disk.backend = dk.backend
        /\ r.disk.faults = dk.faults + 1
    BY <2>1, FailFields
  <2>3. ListsHere(r.disk, r.store, Quiet(dk, r.disk))
    BY <1>1, <1>2, <2>1, <2>2, EmptyLists DEF ListsHere, Lists, Quiet
  <2> QED
    BY <1>1, <1>2, <2>1, <2>2, <2>3 DEF Absent
<1> QED
  BY <1>3, <1>4, <1>5

(* What a save does to the directory f: nothing, or one file is put, whole *)
(* if it is answered TRUE.                                                 *)
SaveDoes(dk, s, b, q) ==
  \/ ~q.ok /\ q.disk.files[s.dir] = dk.files[s.dir] /\ q.store.dir = s.dir
  \/ /\ q.ok \/ ~Quiet(dk, q.disk)
     /\ \E x \in Blobs :
          /\ x.time = Candidate(dk, s, b.time) /\ q.blob.time = x.time
          /\ (x.whole <=> q.ok) /\ (q.ok => q.blob = x)
          /\ PutIn(dk.files[s.dir], x, q.disk.files[s.dir])

LEMMA SaveTells ==
  ASSUME NEW dk, NEW s, Fine(dk, s), NEW b \in Captures, NEW q \in SaveOutcomes(dk, s, b)
  PROVE  /\ Tells(dk, s, q.disk, q.store) /\ SaveDoes(dk, s, b, q) /\ q.ok \in BOOLEAN
         /\ q.ok => ListsHere(q.disk, q.store, Quiet(dk, q.disk))
<1> DEFINE c == Named(b, Candidate(dk, s, b.time))
           f == dk.files[s.dir]
           made == Made(dk, s.dir)
           t == WithThere(s)
           WithFile(g) == At(made, s.dir, g)
<1>a. b \in Blobs /\ b.time \in 0 .. MaxTime /\ b.whole = TRUE
  BY StoreAssumption DEF Captures, Blobs, Names
<1>b. c \in Blobs /\ c.time = Candidate(dk, s, b.time) /\ c.whole = TRUE
  <2>1. c \in Blobs /\ c.time = Candidate(dk, s, b.time)
    BY <1>a, CandidateFound, NamedFields
  <2> QED
    BY <1>a, <2>1 DEF Named
<1>c. DiskFine(dk) /\ s.dir \in Dirs /\ FilesOK(f) /\ dk.faults \in Nat
  BY FaultsCounted DEF Fine, StoreFine, DiskFine
<1>d. t.dir = s.dir /\ t.list = s.list /\ t.there = TRUE /\ Absent(t)
  BY ThereFields DEF Absent
<1>1. \/ /\ Room(f, c.time)
         /\ \E r \in Rescan(WithFile(Put(f, c)), t) :
              q = [disk |-> r.disk, store |-> r.store, blob |-> c, ok |-> TRUE]
      \/ ~Room(f, c.time) /\ q = [disk |-> made, store |-> t, blob |-> c, ok |-> FALSE]
      \/ CanFail(dk) /\ q = [disk |-> Fail(dk), store |-> s, blob |-> b, ok |-> FALSE]
      \/ CanFail(dk) /\ \E g \in Spoiling(dk, f, c) :
             q = [disk |-> Fail(WithFile(g)), store |-> t, blob |-> c, ok |-> FALSE]
  BY Zenon DEF SaveOutcomes, Named, Made, WithThere, At
<1>2. ASSUME NEW g, FilesOK(g)
      PROVE  /\ DiskFine(WithFile(g)) /\ s.dir \in WithFile(g).made
             /\ WithFile(g).faults = dk.faults /\ WithFile(g).backend = dk.backend
             /\ WithFile(g).files[s.dir] = g /\ Keeps(dk, s.dir, WithFile(g))
  BY <1>c, <1>2, WithFileFine
<1>3. ASSUME Room(f, c.time)
      PROVE  FilesOK(Put(f, c)) /\ PutIn(f, c, Put(f, c))
  BY <1>b, <1>c, <1>3, PutFine
<1>4. \A g \in Spoiling(dk, f, c) :
        /\ FilesOK(g)
        /\ g = f \/ \E x \in Blobs : x.time = c.time /\ x.whole = FALSE /\ PutIn(f, x, g)
  <2> DEFINE x == Wholeness(c, FALSE)
  <2>1. x \in Blobs /\ x.time = c.time /\ x.whole = FALSE
    <3>1. x \in Blobs /\ x.time = c.time
      BY <1>b, WholenessFields
    <3> QED
      BY <1>b, <3>1 DEF Wholeness, Blobs
  <2>2. \A g \in Spoiling(dk, f, c) : g = f \/ (Room(f, c.time) /\ g = Put(f, x))
    BY Zenon DEF Spoiling, Wholeness, Room
  <2> HIDE DEF x, c
  <2>3. Room(f, c.time) => FilesOK(Put(f, x)) /\ PutIn(f, x, Put(f, x))
    BY <1>b, <1>c, <2>1, PutFine
  <2> QED
    BY <1>c, <2>1, <2>2, <2>3
<1>m. made.files = dk.files /\ made.faults = dk.faults /\ made.backend = dk.backend
  BY MadeFields
<1> HIDE DEF c, f, made, t, WithFile
<1>5. ASSUME Room(f, c.time), NEW r \in Rescan(WithFile(Put(f, c)), t),
             q = [disk |-> r.disk, store |-> r.store, blob |-> c, ok |-> TRUE]
      PROVE  /\ Tells(dk, s, q.disk, q.store) /\ SaveDoes(dk, s, b, q) /\ q.ok = TRUE
             /\ ListsHere(q.disk, q.store, Quiet(dk, q.disk))
  <2> DEFINE k == WithFile(Put(f, c))
  <2>1. /\ DiskFine(k) /\ k.files[s.dir] = Put(f, c) /\ k.faults = dk.faults
        /\ k.backend = dk.backend /\ Keeps(dk, s.dir, k)
    BY <1>2, <1>3, <1>5
  <2>2. q.disk = r.disk /\ q.store = r.store /\ q.blob = c /\ q.ok = TRUE
    BY <1>5
  <2> HIDE DEF k
  <2>3. /\ Tells(k, t, r.disk, r.store) /\ r.disk.files = k.files
        /\ ListsHere(r.disk, r.store, Quiet(k, r.disk)) /\ Absent(r.store)
    BY <1>5, <1>c, <1>d, <2>1, RescanTells DEF k
  <2>4. PutIn(f, c, Put(f, c))
    BY <1>3, <1>5
  <2>5. SaveDoes(dk, s, b, q)
    BY <1>b, <2>1, <2>2, <2>3, <2>4 DEF SaveDoes, f
  <2>6. Tells(dk, s, q.disk, q.store)
    BY <1>d, <2>1, <2>2, <2>3 DEF Tells, Keeps
  <2> QED
    BY <2>1, <2>2, <2>3, <2>5, <2>6 DEF Quiet
<1>6. CASE q = [disk |-> made, store |-> t, blob |-> c, ok |-> FALSE] /\ ~Room(f, c.time)
  <2>1. q.disk = made /\ q.store = t /\ q.blob = c /\ q.ok = FALSE
    BY <1>6
  <2>2. SaveDoes(dk, s, b, q)
    BY <1>d, <1>m, <2>1, Zenon DEF SaveDoes
  <2>3. q.store.dir = s.dir /\ q.disk.files = dk.files /\ Absent(q.store) /\ q.ok = FALSE
        /\ dk.faults <= q.disk.faults /\ q.disk.faults \in Nat /\ q.disk.backend = dk.backend
    BY <1>c, <1>d, <1>m, <2>1
  <2>4. Tells(dk, s, q.disk, q.store)
    BY <1>c, <2>3, Zenon DEF Tells, Keeps
  <2> QED
    BY <2>2, <2>3, <2>4
<1>7. CASE CanFail(dk) /\ q = [disk |-> Fail(dk), store |-> s, blob |-> b, ok |-> FALSE]
  <2>1. q.disk = Fail(dk) /\ q.store = s /\ q.ok = FALSE
    BY <1>7
  <2>2. /\ Fail(dk).files = dk.files /\ Fail(dk).faults = dk.faults + 1
        /\ Fail(dk).backend = dk.backend
    BY FailFields
  <2>3. SaveDoes(dk, s, b, q)
    BY <2>1, <2>2, Zenon DEF SaveDoes
  <2>4. q.store = s /\ q.disk.files = dk.files /\ q.ok = FALSE
        /\ q.disk.faults = dk.faults + 1 /\ q.disk.backend = dk.backend
    BY <2>1, <2>2
  <2>5. Tells(dk, s, q.disk, q.store)
    BY <1>c, <2>4 DEF Tells, Keeps
  <2> QED
    BY <2>3, <2>4, <2>5
<1>8. ASSUME CanFail(dk), NEW g \in Spoiling(dk, f, c),
             q = [disk |-> Fail(WithFile(g)), store |-> t, blob |-> c, ok |-> FALSE]
      PROVE  Tells(dk, s, q.disk, q.store) /\ SaveDoes(dk, s, b, q) /\ q.ok = FALSE
  <2> DEFINE k == WithFile(g)
  <2>1. /\ k.faults = dk.faults /\ k.backend = dk.backend /\ k.files[s.dir] = g
        /\ Keeps(dk, s.dir, k)
    BY <1>2, <1>4, <1>8
  <2>2. q.disk = Fail(k) /\ q.store = t /\ q.blob = c /\ q.ok = FALSE
    BY <1>8
  <2> HIDE DEF k
  <2>3. q.disk.faults = dk.faults + 1 /\ q.disk.files = k.files /\ q.disk.backend = dk.backend
    BY <2>1, <2>2, FailFields
  <2>4. g = f \/ \E x \in Blobs : x.time = c.time /\ x.whole = FALSE /\ PutIn(f, x, g)
    BY <1>4, <1>8
  <2>5. SaveDoes(dk, s, b, q)
    <3>1. CASE g = f
      BY <1>d, <2>1, <2>2, <2>3, <3>1 DEF SaveDoes, f
    <3>2. ASSUME NEW x \in Blobs, x.time = c.time, x.whole = FALSE, PutIn(f, x, g)
          PROVE  SaveDoes(dk, s, b, q)
      BY <1>b, <1>c, <2>1, <2>2, <2>3, <3>2 DEF SaveDoes, Quiet, f
    <3> QED
      BY <2>4, <3>1, <3>2
  <2> QED
    BY <1>c, <1>d, <2>1, <2>2, <2>3, <2>5 DEF Tells, Keeps
<1> QED
  BY <1>1, <1>5, <1>6, <1>7, <1>8

LEMMA LoadTells ==
  ASSUME NEW dk, NEW s, Fine(dk, s), NEW i, NEW b, NEW q \in LoadOutcomes(dk, s, i, b)
  PROVE  /\ q.disk.files = dk.files /\ q.disk.backend = dk.backend
         /\ q.ok => /\ q.blob.time = s.list[i] /\ \E j \in DOMAIN dk.files[s.dir] : dk.files[s.dir][j] = q.blob
                    /\ q.disk.backend = "posix" => q.blob.whole
<1> DEFINE f == dk.files[s.dir]
           found == s.there /\ i \in DOMAIN s.list /\ s.list[i] \in TimesIn(f)
           file == f[SlotOf(f, s.list[i])]
           lost == Wholeness(b, FALSE)
<1>1. \/ q = [disk |-> dk, blob |-> b, ok |-> FALSE]
      \/ found /\ q = [disk |-> dk, blob |-> file, ok |-> TRUE] /\ (file.whole \/ dk.backend = "sd")
      \/ q = [disk |-> dk, blob |-> lost, ok |-> FALSE]
      \/ CanFail(dk) /\ q = [disk |-> Fail(dk), blob |-> b, ok |-> FALSE]
      \/ CanFail(dk) /\ q = [disk |-> Fail(dk), blob |-> lost, ok |-> FALSE]
  BY Zenon DEF LoadOutcomes, Spoilt, Wholeness
<1>2. found => (\E j \in DOMAIN f : f[j] = file) /\ file.time = s.list[i]
  <2>1. found => SlotOf(f, s.list[i]) \in DOMAIN f /\ file.time = s.list[i]
    BY Zenon DEF SlotOf, TimesIn
  <2> QED
    BY <2>1, Zenon
<1>3. /\ Fail(dk).files = dk.files /\ Fail(dk).backend = dk.backend
  BY FailFields
<1> HIDE DEF found, file, lost, f
<1> QED
  BY <1>1, <1>2, <1>3 DEF f

(* What is left without the times T, or spoilt at the time t.              *)
LEMMA WithoutContents ==
  ASSUME NEW f, NEW T
  PROVE  Contents(Without(f, T)) = {x \in Contents(f) : x.time \notin T}
<1> DEFINE g == Without(f, T)
           I == {i \in DOMAIN f : f[i].time \notin T}
<1>1. g = [i \in I |-> f[i]]
  BY DEF Without, Restrict
<1> HIDE DEF g
<1>2. DOMAIN g = I /\ \A i \in I : g[i] = f[i]
  BY <1>1
<1>3. Contents(g) = {f[i] : i \in I}
  BY <1>2 DEF Contents
<1> QED
  BY <1>3 DEF Contents, g

LEMMA SpoilContents ==
  ASSUME NEW f, FilesOK(f), NEW t
  PROVE  Contents(SpoilIn(f, t)) = {x \in Contents(f) : x.time # t}
                                     \cup {[x EXCEPT !.whole = FALSE] : x \in {y \in Contents(f) : y.time = t}}
<1> DEFINE g == SpoilIn(f, t)
<1>1. ASSUME NEW i \in DOMAIN f
      PROVE  [f[i] EXCEPT !.whole = @ /\ f[i].time # t]
               = IF f[i].time = t THEN [f[i] EXCEPT !.whole = FALSE] ELSE f[i]
  <2>1. f[i] \in Blobs
    BY DEF FilesOK
  <2>2. f[i].whole \in BOOLEAN
    BY <2>1 DEF Blobs
  <2>3. CASE f[i].time = t
    <3>1. (f[i].whole /\ f[i].time # t) = FALSE
      BY <2>3
    <3> QED
      BY <2>3, <3>1
  <2>4. CASE f[i].time # t
    <3>1. (f[i].whole /\ f[i].time # t) = f[i].whole
      BY <2>2, <2>4
    <3>2. [f[i] EXCEPT !.whole = f[i].whole] = f[i]
      BY <2>1 DEF Blobs
    <3> QED
      BY <2>4, <3>1, <3>2
  <2> QED
    BY <2>3, <2>4
<1>2. g = [i \in DOMAIN f |-> IF f[i].time = t THEN [f[i] EXCEPT !.whole = FALSE] ELSE f[i]]
  BY <1>1 DEF SpoilIn
<1> HIDE DEF g
<1>3. Contents(g) = {IF f[i].time = t THEN [f[i] EXCEPT !.whole = FALSE] ELSE f[i] : i \in DOMAIN f}
  BY <1>2 DEF Contents
<1>4. ASSUME NEW x
      PROVE  x \in Contents(g) <=> \E i \in DOMAIN f :
               x = IF f[i].time = t THEN [f[i] EXCEPT !.whole = FALSE] ELSE f[i]
  BY <1>3
<1>5. ASSUME NEW x
      PROVE  x \in Contents(g) <=> \/ \E i \in DOMAIN f : f[i].time # t /\ x = f[i]
                                   \/ \E i \in DOMAIN f : f[i].time = t /\ x = [f[i] EXCEPT !.whole = FALSE]
  BY <1>4, Zenon
<1>6. ASSUME NEW x
      PROVE  /\ x \in {y \in Contents(f) : y.time # t} <=> \E i \in DOMAIN f : f[i].time # t /\ x = f[i]
             /\ x \in {[z EXCEPT !.whole = FALSE] : z \in {y \in Contents(f) : y.time = t}}
                  <=> \E i \in DOMAIN f : f[i].time = t /\ x = [f[i] EXCEPT !.whole = FALSE]
  BY Zenon DEF Contents
<1> DEFINE A == {y \in Contents(f) : y.time # t}
           B == {[z EXCEPT !.whole = FALSE] : z \in {y \in Contents(f) : y.time = t}}
<1>7. \A x : x \in Contents(g) <=> x \in A \/ x \in B
  BY <1>5, <1>6, Zenon
<1> HIDE DEF A, B
<1>8. Contents(g) = A \cup B
  BY <1>7
<1> QED
  BY <1>8 DEF g, A, B

(* What a call to delete the save of the time t does to its directory.     *)
Removes(dk, s, t, q) ==
  LET f == dk.files[s.dir]
      g == q.disk.files[s.dir]
  IN  IF q.ok THEN g = Without(f, {t}) \/ (~Quiet(dk, q.disk) /\ g = f)
      ELSE g = f \/ (~Quiet(dk, q.disk) /\ g = SpoilIn(f, t))

LEMMA DeleteTells ==
  ASSUME NEW dk, NEW s, Fine(dk, s), NEW i, NEW q \in DeleteOutcomes(dk, s, i)
  PROVE  /\ Tells(dk, s, q.disk, q.store) /\ Removes(dk, s, s.list[i], q) /\ q.ok \in BOOLEAN
         /\ q.ok => ListsHere(q.disk, q.store, Quiet(dk, q.disk))
<1> DEFINE t == s.list[i]
           f == dk.files[s.dir]
           gone == At(dk, s.dir, Without(f, {t}))
           spoiled == At(Fail(dk), s.dir, SpoilIn(Fail(dk).files[s.dir], t))
<1>a. /\ DiskFine(dk) /\ s.dir \in Dirs /\ s.there \in BOOLEAN /\ FilesOK(f) /\ dk.faults \in Nat
      /\ f # <<>> => s.dir \in dk.made
  BY FaultsCounted DEF Fine, StoreFine, DiskFine
<1>b. /\ DiskFine(gone) /\ gone.faults = dk.faults /\ gone.backend = dk.backend
      /\ gone.files[s.dir] = Without(f, {t}) /\ Keeps(dk, s.dir, gone)
  <2>1. DiskFine(gone)
    BY <1>a, WithoutFine, AtFine
  <2>2. OnlyIn(dk, s.dir, Without(f, {t}), gone)
    BY <1>a, AtOnly DEF DiskFine
  <2>3. gone.faults = dk.faults /\ gone.backend = dk.backend
    BY AtFields
  <2> HIDE DEF gone, f
  <2> QED
    BY <1>a, <2>1, <2>2, <2>3 DEF OnlyIn, Keeps
<1>c. /\ Fail(dk).files = dk.files /\ Fail(dk).faults = dk.faults + 1
      /\ Fail(dk).backend = dk.backend /\ (CanFail(dk) => DiskFine(Fail(dk)))
  BY <1>a, FailFine, FailFields
<1>d. /\ spoiled.faults = dk.faults + 1 /\ spoiled.backend = dk.backend
      /\ spoiled.files[s.dir] = SpoilIn(f, t) /\ Keeps(dk, s.dir, spoiled)
  <2>1. spoiled = At(Fail(dk), s.dir, SpoilIn(f, t))
    BY <1>c
  <2>2. OnlyIn(Fail(dk), s.dir, SpoilIn(f, t), spoiled)
    BY <1>a, <1>c, <2>1, AtOnly DEF DiskFine
  <2>3. spoiled.faults = dk.faults + 1 /\ spoiled.backend = dk.backend
    BY <1>c, AtFields
  <2> HIDE DEF spoiled, f
  <2> QED
    BY <1>a, <1>c, <2>2, <2>3 DEF OnlyIn, Keeps
<1>1. \/ q = [disk |-> dk, store |-> s, ok |-> FALSE]
      \/ s.there /\ \E r \in Rescan(gone, s) : q = [disk |-> r.disk, store |-> r.store, ok |-> TRUE]
      \/ CanFail(dk) /\ q = [disk |-> Fail(dk), store |-> s, ok |-> FALSE]
      \/ /\ CanFail(dk) /\ s.there
         /\ \E r \in Rescan(Fail(dk), s) : q = [disk |-> r.disk, store |-> r.store, ok |-> TRUE]
      \/ CanFail(dk) /\ dk.backend = "sd" /\ q = [disk |-> spoiled, store |-> s, ok |-> FALSE]
  BY Zenon DEF DeleteOutcomes, At
<1> HIDE DEF gone, spoiled, f
<1>3. CASE q = [disk |-> dk, store |-> s, ok |-> FALSE]
  <2>1. q.disk = dk /\ q.store = s /\ q.ok = FALSE
    BY <1>3
  <2>2. Removes(dk, s, t, q)
    BY <2>1 DEF Removes
  <2>3. Tells(dk, s, q.disk, q.store)
    BY <1>a, <2>1 DEF Tells, Keeps
  <2> QED
    BY <2>1, <2>2, <2>3
<1>4. ASSUME s.there, NEW r \in Rescan(gone, s), q = [disk |-> r.disk, store |-> r.store, ok |-> TRUE]
      PROVE  /\ Tells(dk, s, q.disk, q.store) /\ Removes(dk, s, t, q) /\ q.ok = TRUE
             /\ ListsHere(q.disk, q.store, Quiet(dk, q.disk))
  <2>1. q.disk = r.disk /\ q.store = r.store /\ q.ok = TRUE
    BY <1>4
  <2>2. /\ Tells(gone, s, r.disk, r.store) /\ r.disk.files = gone.files
        /\ ListsHere(r.disk, r.store, Quiet(gone, r.disk))
    BY <1>4, <1>a, <1>b, RescanTells
  <2>3. Removes(dk, s, t, q)
    BY <1>b, <2>1, <2>2 DEF Removes, f
  <2>4. Tells(dk, s, q.disk, q.store)
    BY <1>b, <2>1, <2>2 DEF Tells, Keeps
  <2> QED
    BY <1>b, <2>1, <2>2, <2>3, <2>4 DEF Quiet
<1>5. CASE CanFail(dk) /\ q = [disk |-> Fail(dk), store |-> s, ok |-> FALSE]
  <2>1. q.disk = Fail(dk) /\ q.store = s /\ q.ok = FALSE
    BY <1>5
  <2>2. Removes(dk, s, t, q)
    BY <1>c, <2>1 DEF Removes
  <2>3. Tells(dk, s, q.disk, q.store)
    BY <1>a, <1>c, <2>1 DEF Tells, Keeps
  <2> QED
    BY <2>1, <2>2, <2>3
<1>6. ASSUME CanFail(dk), s.there, NEW r \in Rescan(Fail(dk), s),
             q = [disk |-> r.disk, store |-> r.store, ok |-> TRUE]
      PROVE  /\ Tells(dk, s, q.disk, q.store) /\ Removes(dk, s, t, q) /\ q.ok = TRUE
             /\ ListsHere(q.disk, q.store, Quiet(dk, q.disk))
  <2>1. q.disk = r.disk /\ q.store = r.store /\ q.ok = TRUE
    BY <1>6
  <2>2. /\ Tells(Fail(dk), s, r.disk, r.store) /\ r.disk.files = dk.files
        /\ ListsHere(r.disk, r.store, Quiet(Fail(dk), r.disk))
    BY <1>6, <1>a, <1>c, RescanTells
  <2>3. ~Quiet(dk, q.disk) /\ dk.faults <= q.disk.faults /\ q.disk.faults \in Nat
    BY <1>a, <1>c, <2>1, <2>2 DEF Tells, Quiet
  <2>4. Removes(dk, s, t, q)
    BY <2>1, <2>2, <2>3 DEF Removes
  <2>5. Tells(dk, s, q.disk, q.store)
    BY <1>c, <2>1, <2>2, <2>3 DEF Tells, Keeps
  <2>6. ListsHere(q.disk, q.store, Quiet(dk, q.disk))
    BY <2>1, <2>2, <2>3 DEF ListsHere, Lists
  <2> QED
    BY <2>1, <2>4, <2>5, <2>6
<1>7. CASE CanFail(dk) /\ dk.backend = "sd" /\ q = [disk |-> spoiled, store |-> s, ok |-> FALSE]
  <2>1. q.disk = spoiled /\ q.store = s /\ q.ok = FALSE
    BY <1>7
  <2>2. Removes(dk, s, t, q)
    BY <1>a, <1>d, <2>1 DEF Removes, Quiet, f
  <2>3. Tells(dk, s, q.disk, q.store)
    BY <1>a, <1>d, <2>1 DEF Tells
  <2> QED
    BY <2>1, <2>2, <2>3
<1> QED
  BY <1>1, <1>3, <1>4, <1>5, <1>6, <1>7

(* What a call to delete all does: on SD it deletes what is listed.        *)
Clears(dk, s, q) ==
  LET f == dk.files[s.dir]
      g == q.disk.files[s.dir]
  IN  /\ \E T : g = Without(f, T)
      /\ q.ok => q.store.list = <<>>
      /\ q.ok \/ ~Quiet(dk, q.disk)
      /\ q.ok /\ Quiet(dk, q.disk) =>
           g = Without(f, IF dk.backend = "posix" THEN TimesIn(f) ELSE ToSet(s.list))

LEMMA ClearTells ==
  ASSUME NEW dk, NEW s, Fine(dk, s), Absent(s), NEW q \in ClearOutcomes(dk, s)
  PROVE  Tells(dk, s, q.disk, q.store) /\ Clears(dk, s, q)
<1> DEFINE f == dk.files[s.dir]
           listed == IF dk.backend = "posix" THEN TimesIn(f) ELSE ToSet(s.list)
           all == IF dk.backend = "posix" THEN TimesIn(f)
                  ELSE IF s.there THEN ToSet(s.list) ELSE {}
           Gone(k, T) == At(k, s.dir, Without(k.files[s.dir], T))
           t == WithList(s, <<>>)
<1>a. /\ s.dir \in Dirs /\ DOMAIN dk.files = Dirs /\ dk.faults \in Nat
  BY FaultsCounted DEF Fine, StoreFine, DiskFine
<1>b. t.dir = s.dir /\ t.list = <<>> /\ Absent(t)
  BY ListFields DEF Absent
<1>c. all = listed
  BY EmptyList DEF Absent
<1>d. ASSUME NEW k, k.files = dk.files, NEW T
      PROVE  /\ Gone(k, T).faults = k.faults /\ Gone(k, T).backend = k.backend
             /\ Gone(k, T).files[s.dir] = Without(f, T) /\ Keeps(dk, s.dir, Gone(k, T))
  <2>1. Gone(k, T) = At(k, s.dir, Without(f, T))
    BY <1>d
  <2>2. OnlyIn(k, s.dir, Without(f, T), Gone(k, T))
    BY <1>a, <1>d, <2>1, AtOnly
  <2>3. Gone(k, T).faults = k.faults /\ Gone(k, T).backend = k.backend
    BY AtFields
  <2> HIDE DEF Gone, f
  <2> QED
    BY <1>a, <1>d, <2>2, <2>3 DEF OnlyIn, Keeps
<1>1. \/ q = [disk |-> Gone(dk, all), store |-> t, ok |-> TRUE]
      \/ \E T : \/ q = [disk |-> Gone(Fail(dk), T), store |-> t, ok |-> TRUE]
                \/ q = [disk |-> Gone(Fail(dk), T), store |-> s, ok |-> FALSE]
  BY Zenon DEF ClearOutcomes, At, WithList
<1> HIDE DEF all, Gone, t
<1>2. CASE q = [disk |-> Gone(dk, all), store |-> t, ok |-> TRUE]
  <2> DEFINE k == Gone(dk, all)
  <2>1. /\ k.faults = dk.faults /\ k.backend = dk.backend
        /\ k.files[s.dir] = Without(f, listed) /\ Keeps(dk, s.dir, k)
    BY <1>c, <1>d
  <2>2. q.disk = k /\ q.store = t /\ q.ok = TRUE
    BY <1>2
  <2> HIDE DEF k
  <2>3. Clears(dk, s, q)
    BY <1>b, <2>1, <2>2, Zenon DEF Clears
  <2> QED
    BY <1>a, <1>b, <2>1, <2>2, <2>3 DEF Tells
<1>3. ASSUME NEW T, NEW u \in {s, t}, NEW ok \in BOOLEAN, ok => u = t,
             q = [disk |-> Gone(Fail(dk), T), store |-> u, ok |-> ok]
      PROVE  Tells(dk, s, q.disk, q.store) /\ Clears(dk, s, q)
  <2> DEFINE k == Gone(Fail(dk), T)
  <2>0. Fail(dk).files = dk.files /\ Fail(dk).faults = dk.faults + 1 /\ Fail(dk).backend = dk.backend
    BY FailFields
  <2>1. /\ k.faults = dk.faults + 1 /\ k.backend = dk.backend
        /\ k.files[s.dir] = Without(f, T) /\ Keeps(dk, s.dir, k)
    BY <1>d, <2>0
  <2>2. q.disk = k /\ q.store = u /\ q.ok = ok
    BY <1>3
  <2> HIDE DEF k
  <2>3. ~Quiet(dk, q.disk)
    BY <1>a, <2>1, <2>2 DEF Quiet
  <2>4. Clears(dk, s, q)
    BY <1>3, <1>b, <2>1, <2>2, <2>3, Zenon DEF Clears
  <2>5. u.dir = s.dir /\ (Absent(s) => Absent(u))
    BY <1>b
  <2> QED
    BY <1>a, <2>1, <2>2, <2>4, <2>5 DEF Tells
<1> QED
  BY <1>1, <1>2, <1>3

-----------------------------------------------------------------------------
(* What holds in every state; TypeOK and the answers follow from it.       *)
AnswersOK == ListingIsTrue /\ SaveIsTrue /\ LoadIsTrue /\ DeleteIsTrue /\ ClearIsTrue

StoreInv ==
  /\ Fine(disk, store) /\ AtHome(disk) /\ blob \in Blobs
  /\ Absent(store) /\ AnswersOK

(* Saves stay in the directory of their ROM.                               *)
LEMMA HomeRead ==
  ASSUME NEW dk, AtHome(dk), NEW dk2, dk2.files = dk.files
  PROVE  AtHome(dk2)
BY DEF AtHome

LEMMA HomeKept ==
  ASSUME NEW dk, AtHome(dk), NEW s, s.dir \in Dirs, NEW dk2, Drops(dk, s, dk2)
  PROVE  AtHome(dk2)
BY DEF AtHome, Drops, Keeps

LEMMA HomeAdded ==
  ASSUME NEW dk, AtHome(dk), NEW s, s.dir \in Dirs, NEW b, DirOf[b.rom] = s.dir,
         NEW dk2, Adds(dk, s, b, dk2)
  PROVE  AtHome(dk2)
<1>1. ASSUME NEW x, x.rom = b.rom, PutIn(dk.files[s.dir], x, dk2.files[s.dir])
      PROVE  \A r \in RomsIn(dk2.files[s.dir]) : DirOf[r] = s.dir
  <2> DEFINE f == dk.files[s.dir]
             g == dk2.files[s.dir]
  <2>1. \A r \in RomsIn(f) : DirOf[r] = s.dir
    BY DEF AtHome
  <2>2. Contents(g) \subseteq Contents(f) \cup {x}
    BY <1>1 DEF PutIn
  <2> HIDE DEF f, g
  <2>3. RomsIn(g) \subseteq RomsIn(f) \cup {x.rom}
    BY <2>2 DEF RomsIn, Contents
  <2> QED
    BY <1>1, <2>1, <2>3 DEF g
<1>2. \A r \in RomsIn(dk2.files[s.dir]) : DirOf[r] = s.dir
  BY <1>1 DEF Adds, AtHome
<1> QED
  BY <1>2 DEF AtHome, Adds, Keeps

LEMMA FineTyped == Fine(disk, store) /\ AtHome(disk) /\ blob \in Blobs => TypeOK
<1> SUFFICES ASSUME Fine(disk, store), AtHome(disk), blob \in Blobs
             PROVE  TypeOK
  OBVIOUS
<1>1. DiskFine(disk) /\ StoreFine(store)
  BY DEF Fine
<1>2. ASSUME NEW d \in Dirs
      PROVE  /\ DOMAIN disk.files[d] \subseteq Slots
             /\ \A i \in DOMAIN disk.files[d] :
                  disk.files[d][i] \in Blobs /\ DirOf[disk.files[d][i].rom] = d
             /\ IsInjective([i \in DOMAIN disk.files[d] |-> disk.files[d][i].time])
             /\ disk.files[d] # <<>> => d \in disk.made
  <2> DEFINE f == disk.files[d]
  <2>1. FilesOK(f) /\ (f # <<>> => d \in disk.made)
    BY <1>1 DEF DiskFine
  <2>2. \A r \in RomsIn(f) : DirOf[r] = d
    BY DEF AtHome
  <2> HIDE DEF f
  <2>3. \A i \in DOMAIN f : DirOf[f[i].rom] = d
    BY <2>2 DEF RomsIn
  <2>4. IsInjective([i \in DOMAIN f |-> f[i].time])
    BY <2>1 DEF FilesOK, IsInjective
  <2> QED
    BY <2>1, <2>3, <2>4 DEF FilesOK, f
<1>3. Len(store.list) <= Cap /\ ToSet(store.list) \subseteq Names
  BY <1>1 DEF StoreFine, EntriesOK, ToSet
<1> QED
  BY <1>1, <1>2, <1>3 DEF TypeOK, DiskFine, StoreFine

LEMMA StoreStart == Init => StoreInv
<1> SUFFICES ASSUME Init
             PROVE  StoreInv
  OBVIOUS
<1>1. PICK backend \in Backends : disk = EmptyDisk(backend)
  BY DEF Init
<1>2. /\ disk.files = NoFiles /\ disk.made = {} /\ disk.backend = backend /\ disk.faults = 0
  BY <1>1 DEF EmptyDisk
<1>3. PICK rom \in Roms : store = [dir |-> DirOf[rom], there |-> FALSE, list |-> <<>>]
  BY DEF Init
<1>4. store.dir \in Dirs /\ store.there = FALSE /\ store.list = <<>>
  BY <1>3, StoreAssumption
<1>5. MaxFaults[backend] \in Nat
  BY StoreAssumption
<1>6. DOMAIN <<>> = {} /\ <<>> = [i \in {} |-> <<>>[i]]
  OBVIOUS
<1>7. DOMAIN disk.files = Dirs /\ \A d \in Dirs : disk.files[d] = <<>>
  BY <1>2 DEF NoFiles
<1>8. DiskFine(disk)
  <2>1. ASSUME NEW d \in Dirs
        PROVE  FilesOK(disk.files[d])
    BY <1>6, <1>7 DEF FilesOK
  <2>2. ASSUME NEW d \in Dirs, disk.files[d] # <<>>
        PROVE  d \in disk.made
    BY <1>7, <2>2
  <2>3. disk.faults \in 0 .. MaxFaults[disk.backend] /\ disk.made \subseteq Dirs
    BY <1>2, <1>5
  <2>4. DOMAIN disk.files = Dirs /\ disk.backend \in Backends
    BY <1>2, <1>7
  <2> QED
    BY <2>1, <2>2, <2>3, <2>4, Zenon DEF DiskFine
<1>9. StoreFine(store) /\ Known(disk, store)
  <2>1. TimesIn(<<>>) = {}
    BY <1>6 DEF TimesIn
  <2> QED
    BY <1>2, <1>4, <1>7, <2>1, EmptyList DEF StoreFine, Known
<1>10. blob \in Blobs /\ AnswersOK
  BY DEF Init, NoAnswer, AnswersOK, ListingIsTrue, SaveIsTrue, LoadIsTrue, DeleteIsTrue, ClearIsTrue
<1>11. AtHome(disk)
  BY <1>6, <1>7 DEF AtHome, RomsIn
<1> QED
  BY <1>4, <1>8, <1>9, <1>10, <1>11 DEF StoreInv, Fine, Absent

LEMMA AnswerFields ==
  ASSUME NEW call, NEW ok, NEW times, NEW dk
  PROVE  /\ Answer(call, ok, times, dk).call = call /\ Answer(call, ok, times, dk).ok = ok
         /\ Answer(call, ok, times, dk).of = times
         /\ Answer(call, ok, times, dk).quiet <=> Quiet(disk, dk)
BY DEF Answer, Quiet

LEMMA ListedTrue ==
  ASSUME ListsHere(disk', store', last'.quiet)
  PROVE  ListingIsTrue'
BY DEF ListsHere, Lists, EntriesOK, ListRoom, ListingIsTrue, Folder

(* Answers, call by call.                                                  *)
LEMMA RefreshAnswered ==
  ASSUME StoreInv, NEW rom \in Roms, Refresh(rom)
  PROVE  AnswersOK' /\ Absent(store')
<1>1. PICK r \in RefreshOutcomes(disk, rom) : /\ disk' = r.disk /\ store' = r.store
                                              /\ last' = Answer("refresh", TRUE, {}, r.disk)
  BY Zenon DEF Refresh
<1>2. ListsHere(r.disk, r.store, Quiet(disk, r.disk)) /\ Absent(r.store)
  BY RefreshTells DEF StoreInv, Fine
<1>3. last'.call = "refresh" /\ (last'.quiet <=> Quiet(disk, r.disk))
  BY <1>1 DEF Answer, Quiet
<1>4. ListingIsTrue'
  <2>1. ListsHere(disk', store', last'.quiet)
    BY <1>1, <1>2, <1>3 DEF ListsHere, Lists
  <2> QED
    BY <2>1, ListedTrue
<1> QED
  BY <1>1, <1>2, <1>3, <1>4 DEF AnswersOK, SaveIsTrue, LoadIsTrue, DeleteIsTrue, ClearIsTrue

(* The two outcomes of a save: how the store saw the directory, and what   *)
(* was done.                                                               *)
LEMMA SaveSees ==
  ASSUME StoreInv, NEW b \in Captures, Save(b)
  PROVE  \E dk, s, q :
           /\ disk' = q.disk /\ store' = q.store /\ blob' = q.blob
           /\ last'.call = "save" /\ last'.ok = q.ok /\ last'.of = {q.blob.time}
           /\ last'.quiet <=> Quiet(disk, q.disk)
           /\ last'.quiet => Quiet(disk, dk) /\ Quiet(dk, q.disk)
           /\ dk.files = disk.files /\ dk.backend = disk.backend /\ Fine(dk, s)
           /\ ListsHere(dk, s, Quiet(disk, dk)) /\ Absent(s)
           /\ Tells(dk, s, q.disk, q.store) /\ SaveDoes(dk, s, b, q) /\ q.ok \in BOOLEAN
           /\ q.ok => ListsHere(q.disk, q.store, Quiet(dk, q.disk))
           /\ Fine(q.disk, q.store)
<1>1. PICK r \in RefreshOutcomes(disk, b.rom) : \E q \in SaveOutcomes(r.disk, r.store, b) :
        /\ disk' = q.disk /\ store' = q.store /\ blob' = q.blob
        /\ last' = Answer("save", q.ok, {q.blob.time}, q.disk)
  BY Zenon DEF Save
<1>2. PICK q \in SaveOutcomes(r.disk, r.store, b) :
        /\ disk' = q.disk /\ store' = q.store /\ blob' = q.blob
        /\ last' = Answer("save", q.ok, {q.blob.time}, q.disk)
  BY <1>1, Zenon
<1>3. b.rom \in Roms /\ DiskFine(disk) /\ disk.faults \in Nat
  BY FaultsCounted DEF Captures, Blobs, StoreInv, Fine
<1>4. Refreshed(disk, b.rom, r)
  BY <1>3, RefreshSound
<1>5. /\ r.disk.files = disk.files /\ r.disk.backend = disk.backend
      /\ r.disk.faults \in Nat /\ disk.faults <= r.disk.faults
      /\ ListsHere(r.disk, r.store, Quiet(disk, r.disk)) /\ Absent(r.store)
  BY <1>3, RefreshTells
<1>6. /\ Tells(r.disk, r.store, q.disk, q.store) /\ SaveDoes(r.disk, r.store, b, q) /\ q.ok \in BOOLEAN
      /\ q.ok => ListsHere(q.disk, q.store, Quiet(r.disk, q.disk))
      /\ Fine(r.disk, r.store) /\ Fine(q.disk, q.store)
  BY <1>4, SaveTells, SaveSound DEF Refreshed, Saved
<1>7. /\ last'.call = "save" /\ last'.ok = q.ok /\ last'.of = {q.blob.time}
      /\ last'.quiet <=> Quiet(disk, q.disk)
  BY <1>2, AnswerFields
<1>8. last'.quiet => Quiet(disk, r.disk) /\ Quiet(r.disk, q.disk)
  BY <1>3, <1>5, <1>6, <1>7 DEF Quiet, Tells
<1> QED
  BY <1>2, <1>5, <1>6, <1>7, <1>8

LEMMA SaveAnswered ==
  ASSUME StoreInv, NEW b \in Captures, Save(b)
  PROVE  AnswersOK' /\ Absent(store')
<1>1. PICK dk, s, q :
        /\ disk' = q.disk /\ store' = q.store /\ blob' = q.blob
        /\ last'.call = "save" /\ last'.ok = q.ok /\ last'.of = {q.blob.time}
        /\ last'.quiet <=> Quiet(disk, q.disk)
        /\ last'.quiet => Quiet(disk, dk) /\ Quiet(dk, q.disk)
        /\ dk.files = disk.files /\ dk.backend = disk.backend /\ Fine(dk, s)
        /\ ListsHere(dk, s, Quiet(disk, dk)) /\ Absent(s)
        /\ Tells(dk, s, q.disk, q.store) /\ SaveDoes(dk, s, b, q) /\ q.ok \in BOOLEAN
        /\ q.ok => ListsHere(q.disk, q.store, Quiet(dk, q.disk))
        /\ Fine(q.disk, q.store)
  BY SaveSees
<1>2. Absent(store')
  BY <1>1 DEF Tells
<1>3. ASSUME last'.ok
      PROVE  /\ ListsHere(disk', store', last'.quiet)
             /\ blob'.whole /\ (\E i \in DOMAIN Folder' : Folder'[i] = blob')
  <2> DEFINE g == q.disk.files[s.dir]
  <2>1. ListsHere(q.disk, q.store, last'.quiet)
    BY <1>1, <1>3 DEF ListsHere, Lists
  <2>2. PICK x \in Blobs : /\ x.whole <=> q.ok
                           /\ q.ok => q.blob = x
                           /\ PutIn(dk.files[s.dir], x, g)
    BY <1>1, <1>3 DEF SaveDoes
  <2>3. Folder' = g
    BY <1>1 DEF Folder, Tells
  <2> HIDE DEF g
  <2>4. x \in Contents(g)
    BY <2>2 DEF PutIn
  <2>5. \E i \in DOMAIN g : g[i] = x
    BY <2>4 DEF Contents
  <2> QED
    BY <1>1, <1>3, <2>1, <2>2, <2>3, <2>5
<1>4. ASSUME last'.ok, last'.quiet, Cardinality(DOMAIN Folder') <= Cap
      PROVE  blob'.time \in ToSet(store'.list)
  <2>1. FilesOK(Folder')
    BY <1>1 DEF Fine, DiskFine, StoreFine, Folder
  <2>2. ToSet(store'.list) = TimesIn(Folder')
    BY <1>3, <1>4, <2>1, FullList DEF ListsHere, Folder, Lists
  <2> QED
    BY <1>3, <1>4, <2>2 DEF TimesIn
<1>5. ListingIsTrue'
  BY <1>3, ListedTrue DEF ListingIsTrue
<1>6. SaveIsTrue'
  BY <1>3, <1>4 DEF SaveIsTrue
<1> QED
  BY <1>1, <1>2, <1>5, <1>6 DEF AnswersOK, LoadIsTrue, DeleteIsTrue, ClearIsTrue

LEMMA LoadAnswered ==
  ASSUME StoreInv, NEW i, Load(i)
  PROVE  AnswersOK' /\ Absent(store')
<1>1. PICK q \in LoadOutcomes(disk, store, i, blob) :
        /\ disk' = q.disk /\ blob' = q.blob /\ store' = store
        /\ last' = Answer("load", q.ok, {store.list[i]}, q.disk)
  BY Zenon DEF Load
<1>2. /\ q.disk.files = disk.files
      /\ q.ok => /\ q.blob.time = store.list[i]
                 /\ \E j \in DOMAIN disk.files[store.dir] : disk.files[store.dir][j] = q.blob
                 /\ q.disk.backend = "posix" => q.blob.whole
  BY LoadTells DEF StoreInv
<1>3. last'.call = "load" /\ last'.ok = q.ok /\ last'.of = {store.list[i]}
  BY <1>1, AnswerFields
<1>4. LoadIsTrue'
  BY <1>1, <1>2, <1>3 DEF LoadIsTrue, Folder
<1> QED
  BY <1>1, <1>3, <1>4 DEF StoreInv, AnswersOK, ListingIsTrue, SaveIsTrue, DeleteIsTrue, ClearIsTrue

LEMMA DeleteAnswered ==
  ASSUME StoreInv, NEW i, Delete(i)
  PROVE  AnswersOK' /\ Absent(store')
<1>1. PICK q \in DeleteOutcomes(disk, store, i) :
        /\ disk' = q.disk /\ store' = q.store
        /\ last' = Answer("delete", q.ok, {store.list[i]}, q.disk)
  BY Zenon DEF Delete
<1>2. /\ Tells(disk, store, q.disk, q.store) /\ Removes(disk, store, store.list[i], q)
      /\ q.ok => ListsHere(q.disk, q.store, Quiet(disk, q.disk))
  BY DeleteTells DEF StoreInv
<1>3. /\ last'.call = "delete" /\ last'.ok = q.ok /\ last'.of = {store.list[i]}
      /\ last'.quiet <=> Quiet(disk, q.disk)
  BY <1>1, AnswerFields
<1>4. ListingIsTrue'
  <2>1. last'.ok => ListsHere(disk', store', last'.quiet)
    BY <1>1, <1>2, <1>3 DEF ListsHere, Lists
  <2> QED
    BY <2>1, ListedTrue DEF ListingIsTrue
<1>5. DeleteIsTrue'
  <2> SUFFICES ASSUME last'.ok, last'.quiet
               PROVE  store.list[i] \notin TimesIn(Folder')
    BY <1>3 DEF DeleteIsTrue
  <2>1. Folder' = Without(disk.files[store.dir], {store.list[i]})
    BY <1>1, <1>2, <1>3 DEF Folder, Tells, Removes
  <2> QED
    BY <2>1, WithoutTimes
<1>6. Absent(store')
  BY <1>1, <1>2 DEF StoreInv, Tells
<1> QED
  BY <1>3, <1>4, <1>5, <1>6 DEF AnswersOK, SaveIsTrue, LoadIsTrue, ClearIsTrue

LEMMA ClearAnswered ==
  ASSUME StoreInv, ClearAll
  PROVE  AnswersOK' /\ Absent(store')
<1>1. PICK q \in ClearOutcomes(disk, store) :
        /\ disk' = q.disk /\ store' = q.store
        /\ last' = Answer("clear_all", q.ok, Unlisted, q.disk)
  BY Zenon DEF ClearAll
<1>2. Tells(disk, store, q.disk, q.store) /\ Clears(disk, store, q)
  BY ClearTells DEF StoreInv
<1>3. /\ last'.call = "clear_all" /\ last'.ok = q.ok /\ last'.of = Unlisted
      /\ last'.quiet <=> Quiet(disk, q.disk)
  BY <1>1, AnswerFields
<1>4. ClearIsTrue'
  <2> SUFFICES ASSUME last'.ok, last'.quiet
               PROVE  /\ store'.list = <<>>
                      /\ TimesIn(Folder') = IF disk'.backend = "posix" THEN {} ELSE last'.of
    BY DEF ClearIsTrue
  <2>1. /\ store'.list = <<>> /\ disk'.backend = disk.backend
        /\ Folder' = Without(Folder, IF disk.backend = "posix" THEN TimesIn(Folder) ELSE ToSet(store.list))
    BY <1>1, <1>2, <1>3 DEF Folder, Tells, Clears
  <2> DEFINE T == IF disk.backend = "posix" THEN TimesIn(Folder) ELSE ToSet(store.list)
  <2>2. TimesIn(Folder') = TimesIn(Folder) \ T
    BY <2>1, WithoutTimes
  <2> QED
    BY <1>3, <2>1, <2>2 DEF Unlisted
<1>5. Absent(store')
  BY <1>1, <1>2 DEF StoreInv, Tells
<1> QED
  BY <1>3, <1>4, <1>5 DEF AnswersOK, ListingIsTrue, SaveIsTrue, LoadIsTrue, DeleteIsTrue

LEMMA StoreStep == StoreInv /\ [Next]_vars => StoreInv'
<1> SUFFICES ASSUME StoreInv, [Next]_vars
             PROVE  StoreInv'
  OBVIOUS
<1>0. /\ Fine(disk, store) /\ blob \in Blobs /\ DiskFine(disk) /\ StoreFine(store)
      /\ AtHome(disk) /\ store.dir \in Dirs
  BY DEF StoreInv, Fine, StoreFine
<1>1. ASSUME NEW rom \in Roms, Refresh(rom)
      PROVE  StoreInv'
  <2>1. PICK r \in RefreshOutcomes(disk, rom) : disk' = r.disk /\ store' = r.store /\ blob' = blob
    BY <1>1, Zenon DEF Refresh
  <2>2. Refreshed(disk, rom, r)
    BY <1>0, RefreshSound
  <2>3. AtHome(disk')
    BY <1>0, <2>1, <2>2, HomeRead DEF Refreshed, Reads
  <2>4. AnswersOK' /\ Absent(store')
    BY <1>1, RefreshAnswered
  <2> QED
    BY <1>0, <2>1, <2>2, <2>3, <2>4 DEF StoreInv, Refreshed
<1>2. ASSUME NEW b \in Captures, Save(b)
      PROVE  StoreInv'
  <2>1. PICK r \in RefreshOutcomes(disk, b.rom) : \E q \in SaveOutcomes(r.disk, r.store, b) :
          disk' = q.disk /\ store' = q.store /\ blob' = q.blob
    BY <1>2, Zenon DEF Save
  <2>2. PICK q \in SaveOutcomes(r.disk, r.store, b) :
          disk' = q.disk /\ store' = q.store /\ blob' = q.blob
    BY <2>1, Zenon
  <2>3. b.rom \in Roms
    BY DEF Captures, Blobs
  <2>4. Refreshed(disk, b.rom, r)
    BY <1>0, <2>3, RefreshSound
  <2>5. Saved(r.disk, r.store, b, q)
    BY <2>4, SaveSound DEF Refreshed
  <2>6. AtHome(r.disk) /\ r.store.dir = DirOf[b.rom] /\ r.store.dir \in Dirs
    BY <1>0, <2>4, HomeRead DEF Refreshed, Reads, Fine, StoreFine
  <2>7. AtHome(disk')
    BY <2>2, <2>5, <2>6, HomeAdded DEF Saved
  <2>8. AnswersOK' /\ Absent(store')
    BY <1>2, SaveAnswered
  <2> QED
    BY <2>2, <2>5, <2>7, <2>8 DEF StoreInv, Saved
<1>3. ASSUME NEW i, Load(i)
      PROVE  StoreInv'
  <2>1. PICK q \in LoadOutcomes(disk, store, i, blob) :
          disk' = q.disk /\ blob' = q.blob /\ store' = store
    BY <1>3, Zenon DEF Load
  <2>2. Fine(q.disk, store) /\ q.blob \in Blobs /\ q.disk.files = disk.files
    BY <1>0, LoadSound DEF Reads
  <2>3. AtHome(disk')
    BY <1>0, <2>1, <2>2, HomeRead
  <2>4. AnswersOK' /\ Absent(store')
    BY <1>3, LoadAnswered
  <2> QED
    BY <2>1, <2>2, <2>3, <2>4 DEF StoreInv
<1>4. ASSUME NEW i, Delete(i)
      PROVE  StoreInv'
  <2>1. PICK q \in DeleteOutcomes(disk, store, i) :
          disk' = q.disk /\ store' = q.store /\ blob' = blob
    BY <1>4, Zenon DEF Delete
  <2>2. Removed(disk, store, q)
    BY <1>0, DeleteSound
  <2>3. AtHome(disk')
    BY <1>0, <2>1, <2>2, HomeKept DEF Removed
  <2>4. AnswersOK' /\ Absent(store')
    BY <1>4, DeleteAnswered
  <2> QED
    BY <1>0, <2>1, <2>2, <2>3, <2>4 DEF StoreInv, Removed
<1>5. ASSUME ClearAll
      PROVE  StoreInv'
  <2>1. PICK q \in ClearOutcomes(disk, store) :
          disk' = q.disk /\ store' = q.store /\ blob' = blob
    BY <1>5, Zenon DEF ClearAll
  <2>2. Cleared(disk, store, q)
    BY <1>0, ClearSound
  <2>3. AtHome(disk')
    BY <1>0, <2>1, <2>2, HomeKept DEF Cleared, Removed
  <2>4. AnswersOK' /\ Absent(store')
    BY <1>5, ClearAnswered
  <2> QED
    BY <1>0, <2>1, <2>2, <2>3, <2>4 DEF StoreInv, Cleared, Removed
<1>6. CASE UNCHANGED vars
  <2>1. disk' = disk /\ store' = store /\ blob' = blob /\ last' = last
    BY <1>6 DEF vars
  <2>2. AnswersOK'
    BY <2>1 DEF StoreInv, AnswersOK, ListingIsTrue, SaveIsTrue, LoadIsTrue, DeleteIsTrue,
                ClearIsTrue, Folder
  <2> QED
    BY <2>1, <2>2 DEF StoreInv
<1> QED
  BY <1>1, <1>2, <1>3, <1>4, <1>5, <1>6, Zenon DEF Next

(* Every file has its own name, lies in a directory of its ROM that exists *)
(* and is of its slots, whatever fails: sd_ss_save and posix_ss_save never *)
(* leave two files of one name, however often one is written over.         *)
THEOREM StoreTyped == Spec => []TypeOK
<1>1. StoreInv => TypeOK
  BY FineTyped DEF StoreInv
<1> QED
  BY <1>1, StoreStart, StoreStep, PTL DEF Spec

(* The answers of a store are true with any number of errors, and however  *)
(* many more saves a directory holds than a listing has room for           *)
(* (SAVE_STATE_STORE_MAX_ENTRIES): after each call that answers TRUE the   *)
(* listing is of saves that are there, newest first, and complete if no    *)
(* read failed; what was saved is there, whole, and listed if there is     *)
(* room; what was loaded is the file of the entry that was named; and what *)
(* was deleted, one save or all that were listed, is gone.                 *)
THEOREM AnswersAreTrue == Spec => []StoreOK
<1>1. StoreInv => StoreOK
  BY FineTyped DEF StoreInv, StoreOK, AnswersOK
<1> QED
  BY <1>1, StoreStart, StoreStep, PTL DEF Spec

-----------------------------------------------------------------------------
(* The shelf that a disk is: what the refinement maps it to.               *)
ShelfOf(dk) == [d \in Dirs |-> {dk.files[d][i] : i \in DOMAIN dk.files[d]}]

LEMMA ShelfFields ==
  ASSUME NEW dk
  PROVE  /\ DOMAIN ShelfOf(dk) = Dirs
         /\ \A d \in Dirs : ShelfOf(dk)[d] = Contents(dk.files[d])
BY DEF ShelfOf, Contents

LEMMA ShelfFine ==
  ASSUME NEW dk, DiskFine(dk)
  PROVE  ShelfOf(dk) \in [Dirs -> SUBSET Blobs]
<1>1. ASSUME NEW d \in Dirs
      PROVE  Contents(dk.files[d]) \in SUBSET Blobs
  <2>1. \A i \in DOMAIN dk.files[d] : dk.files[d][i] \in Blobs
    BY DEF DiskFine, FilesOK
  <2> QED
    BY <2>1 DEF Contents
<1> QED
  BY <1>1 DEF ShelfOf, Contents

LEMMA ShelfSame ==
  ASSUME NEW dk, NEW dk2, DOMAIN dk2.files = DOMAIN dk.files,
         NEW d \in Dirs, Keeps(dk, d, dk2), dk2.files[d] = dk.files[d]
  PROVE  ShelfOf(dk2) = ShelfOf(dk)
BY DEF ShelfOf, Keeps

LEMMA ContentsSize ==
  ASSUME NEW f, FilesOK(f)
  PROVE  Cardinality(Contents(f)) = Cardinality(DOMAIN f)
<1> DEFINE g == [i \in DOMAIN f |-> f[i]]
<1>1. IsFiniteSet(DOMAIN f)
  BY ListRoomIs
<1>2. g \in [DOMAIN f -> Contents(f)] /\ \A i, j \in DOMAIN f : g[i] = g[j] => i = j
  BY DEF FilesOK, Contents
<1>3. g \in Surjection(DOMAIN f, Contents(f))
  BY DEF Surjection, Contents
<1>4. g \in Bijection(DOMAIN f, Contents(f))
  BY <1>2, <1>3 DEF Bijection, Injection, IsInjective
<1> QED
  BY <1>1, <1>4, FS_Bijection DEF ExistsBijection

(* A step of the abstract store on the shelf p, which becomes p2, with the *)
(* answer a.                                                               *)
Moves(p, p2, a, direct) ==
  LET Place(t) == {x \in p : x.time = t}
      asked == {x \in p : x.time \in a.of}
  IN  \/ a.call \in {"refresh", "load"} /\ p2 = p
      \/ /\ a.call = "save"
         /\ \E x \in p2 :
              /\ a.of = {x.time} /\ x.whole = a.ok /\ (a.ok \/ ~a.quiet)
              /\ \/ Place(x.time) = {}
                 \/ \A n \in x.time - Tries + 1 .. x.time : Place(n) # {}
                 \/ ~direct /\ (~a.quiet \/ Cardinality(p) > Cap)
              /\ p2 = (p \ Place(x.time)) \cup {x}
      \/ a.call \in {"save", "delete"} /\ ~a.ok /\ p2 = p
      \/ a.call = "delete" /\ a.ok /\ (p2 = p \ asked \/ (~a.quiet /\ p2 = p))
      \/ /\ a.call = "delete" /\ ~a.ok /\ ~a.quiet
         /\ p2 = (p \ asked) \cup {[x EXCEPT !.whole = FALSE] : x \in asked}
      \/ /\ a.call = "clear_all" /\ p2 \subseteq p /\ (a.ok \/ ~a.quiet)
         /\ a.ok /\ a.quiet => \A x \in p2 : ~direct /\ x.time \in a.of

(* What a call does to the shelf of the directory it was about.            *)
Shelved(d, dk, dk2, a) ==
  /\ d \in Dirs /\ Keeps(dk, d, dk2) /\ dk2.backend = dk.backend
  /\ Moves(Contents(dk.files[d]), Contents(dk2.files[d]), a, dk.backend = "posix")

(* Such a step is one of the abstract store.                               *)
LEMMA ShelvedStep ==
  ASSUME DiskFine(disk), DiskFine(disk'), Shelved(store'.dir, disk, disk', last')
  PROVE  Shelf!Next
<1> DEFINE sh == ShelfOf(disk)
           sh2 == ShelfOf(disk')
           d == store'.dir
<1>1. sh2 \in [Dirs -> SUBSET Blobs] /\ d \in Dirs /\ (disk'.backend = "posix") = (disk.backend = "posix")
  BY ShelfFine DEF Shelved
<1>2. /\ \A e \in Dirs : sh[e] = Contents(disk.files[e]) /\ sh2[e] = Contents(disk'.files[e])
      /\ DOMAIN sh = Dirs /\ DOMAIN sh2 = Dirs
  BY ShelfFields
<1>3. \A e \in Dirs \ {d} : sh2[e] = sh[e]
  BY <1>1, <1>2 DEF Shelved, Keeps
<1>4. Moves(sh[d], sh2[d], last', disk.backend = "posix")
  BY <1>1, <1>2 DEF Shelved
<1>5. sh2[d] = sh[d] => sh2 = sh
  BY <1>1, <1>2, <1>3 DEF ShelfOf
<1> DEFINE Place(t) == {x \in sh[d] : x.time = t}
           asked == {x \in sh[d] : x.time \in last'.of}
           direct == disk.backend = "posix"
<1>6. ASSUME last'.call \in {"refresh", "load"}, sh2[d] = sh[d]
      PROVE  Shelf!Look
  BY <1>5, <1>6, Zenon DEF ShelfOf, Shelf!Look
<1>7. ASSUME last'.call = "save", NEW x \in sh2[d],
             last'.of = {x.time} /\ x.whole = last'.ok /\ (last'.ok \/ ~last'.quiet),
             \/ Place(x.time) = {}
             \/ \A n \in x.time - Tries + 1 .. x.time : Place(n) # {}
             \/ ~direct /\ (~last'.quiet \/ Cardinality(sh[d]) > Cap),
             sh2[d] = (sh[d] \ Place(x.time)) \cup {x}
      PROVE  Shelf!Add
  <2>1. \A t : Shelf!Place(t) = Place(t)
    BY Zenon DEF ShelfOf, Shelf!Place
  <2>2. Shelf!Crowded(x.time) = \A n \in x.time - Tries + 1 .. x.time : Place(n) # {}
    BY <2>1, Zenon DEF Shelf!Crowded
  <2>3. Shelf!Blind <=> (~direct /\ (~last'.quiet \/ Cardinality(sh[d]) > Cap))
    BY Zenon DEF ShelfOf, Shelf!Blind, Shelf!Cardinality, Cardinality
  <2>4. Shelf!Place(x.time) = {} \/ Shelf!Crowded(x.time) \/ Shelf!Blind
    <3> HIDE DEF Place, sh, d, direct
    <3> QED
      BY <1>7, <2>1, <2>2, <2>3, Zenon
  <2>5. sh2[d] = (sh[d] \ Shelf!Place(x.time)) \cup {x}
    BY <1>7, <2>1, Zenon
  <2> HIDE DEF Place
  <2> QED
    BY <1>7, <2>4, <2>5, Zenon DEF ShelfOf, Shelf!Add
<1>8. ASSUME last'.call \in {"save", "delete"}, ~last'.ok, sh2[d] = sh[d]
      PROVE  Shelf!Refuse
  BY <1>5, <1>8, Zenon DEF ShelfOf, Shelf!Refuse
<1>9. ASSUME last'.call = "delete", last'.ok, sh2[d] = sh[d] \ asked \/ (~last'.quiet /\ sh2[d] = sh[d])
      PROVE  Shelf!Remove
  BY <1>5, <1>9, Zenon DEF ShelfOf, Shelf!Remove, Shelf!Asked
<1>10. ASSUME last'.call = "delete", ~last'.ok, ~last'.quiet,
              sh2[d] = (sh[d] \ asked) \cup {[x EXCEPT !.whole = FALSE] : x \in asked}
       PROVE  Shelf!Spoil
  BY <1>10, Zenon DEF ShelfOf, Shelf!Spoil, Shelf!Asked
<1>11. ASSUME last'.call = "clear_all", last'.ok \/ ~last'.quiet, sh2[d] \subseteq sh[d],
              last'.ok /\ last'.quiet => \A x \in sh2[d] : ~direct /\ x.time \in last'.of
       PROVE  Shelf!ClearAll
  BY <1>11, Zenon DEF ShelfOf, Shelf!ClearAll
<1>12. \/ Shelf!Look \/ Shelf!Add \/ Shelf!Refuse \/ Shelf!Remove \/ Shelf!Spoil \/ Shelf!ClearAll
  BY <1>4, <1>6, <1>7, <1>8, <1>9, <1>10, <1>11, Zenon DEF Moves
<1> QED
  BY <1>1, <1>3, <1>12, Zenon DEF ShelfOf, Shelf!Next


LEMMA ShelfStart == Init => Shelf!Init
<1> SUFFICES ASSUME Init
             PROVE  Shelf!Init
  OBVIOUS
<1>1. PICK backend \in Backends : disk = EmptyDisk(backend)
  BY DEF Init
<1>2. \A d \in Dirs : disk.files[d] = <<>>
  BY <1>1 DEF EmptyDisk, NoFiles
<1>3. ASSUME NEW d \in Dirs
      PROVE  {disk.files[d][i] : i \in DOMAIN disk.files[d]} = {}
  BY <1>2
<1> QED
  BY <1>3 DEF Shelf!Init

(* A name that is not free in the directory has been taken for free only   *)
(* where the listing is not all of it.                                     *)
LEMMA UnseenIsBlind ==
  ASSUME NEW dk, NEW s, Fine(dk, s), NEW quiet, quiet \in BOOLEAN,
         quiet => Lists(dk.files[s.dir], s.list, TRUE),
         NEW n, n \in TimesIn(dk.files[s.dir]), ~Taken(dk, s, n)
  PROVE  dk.backend # "posix" /\ (~quiet \/ Cardinality(Contents(dk.files[s.dir])) > Cap)
<1> DEFINE f == dk.files[s.dir]
<1>1. FilesOK(f) /\ dk.backend \in {"sd", "posix"}
  BY StoreAssumption DEF Fine, DiskFine, StoreFine
<1>2. dk.backend = "sd" /\ n \notin ToSet(s.list)
  BY <1>1 DEF Taken
<1>3. ASSUME quiet
      PROVE  Cardinality(Contents(f)) > Cap
  <2>1. ~(Cardinality(DOMAIN f) <= Cap)
    BY <1>1, <1>2, <1>3, FullList
  <2>2. Cardinality(DOMAIN f) \in Nat /\ Cap \in Nat
    BY <1>1, ListRoomIs, StoreAssumption
  <2> HIDE DEF f
  <2> QED
    BY <1>1, <2>1, <2>2, ContentsSize
<1> QED
  BY <1>2, <1>3

LEMMA SaveShelved ==
  ASSUME StoreInv, NEW b \in Captures, Save(b)
  PROVE  Shelved(store'.dir, disk, disk', last')
<1>1. PICK dk, s, q :
        /\ disk' = q.disk /\ store' = q.store /\ blob' = q.blob
        /\ last'.call = "save" /\ last'.ok = q.ok /\ last'.of = {q.blob.time}
        /\ last'.quiet <=> Quiet(disk, q.disk)
        /\ last'.quiet => Quiet(disk, dk) /\ Quiet(dk, q.disk)
        /\ dk.files = disk.files /\ dk.backend = disk.backend /\ Fine(dk, s)
        /\ ListsHere(dk, s, Quiet(disk, dk)) /\ Absent(s)
        /\ Tells(dk, s, q.disk, q.store) /\ SaveDoes(dk, s, b, q) /\ q.ok \in BOOLEAN
        /\ q.ok => ListsHere(q.disk, q.store, Quiet(dk, q.disk))
        /\ Fine(q.disk, q.store)
  BY SaveSees
<1> DEFINE d == s.dir
           p == Contents(disk.files[d])
           p2 == Contents(disk'.files[d])
           Place(t) == {x \in p : x.time = t}
           quiet == Quiet(disk, q.disk)
<1>2. /\ d \in Dirs /\ store'.dir = d /\ Keeps(disk, d, disk') /\ disk'.backend = disk.backend
      /\ DOMAIN disk.files = Dirs
  BY <1>1 DEF Tells, Keeps, Fine, StoreFine, DiskFine
<1>3. CASE ~q.ok /\ q.disk.files[d] = dk.files[d]
  <2>1. p2 = p
    BY <1>1, <1>3
  <2> QED
    BY <1>1, <1>2, <1>3, <2>1 DEF Shelved, Moves
<1>4. ASSUME q.ok \/ ~Quiet(dk, q.disk), NEW x \in Blobs,
             x.time = Candidate(dk, s, b.time) /\ q.blob.time = x.time,
             x.whole <=> q.ok, PutIn(dk.files[d], x, q.disk.files[d])
      PROVE  Shelved(store'.dir, disk, disk', last')
  <2> DEFINE c == x.time
             free == Place(c) = {}
             crowded == \A n \in c - Tries + 1 .. c : Place(n) # {}
             blind == disk.backend # "posix" /\ (~quiet \/ Cardinality(p) > Cap)
  <2>1. b.time \in 0 .. MaxTime /\ b.time \in Nat /\ Tries \in Nat \ {0}
    BY StoreAssumption DEF Captures, Blobs, Names
  <2>2. ASSUME NEW n, Place(n) # {}, ~Taken(dk, s, n)
        PROVE  blind
    <3>1. n \in TimesIn(dk.files[d])
      BY <1>1, <2>2, ContentTimes
    <3>2. quiet => Lists(dk.files[d], s.list, TRUE)
      BY <1>1 DEF ListsHere, Lists
    <3> QED
      BY <1>1, <2>2, <3>1, <3>2, UnseenIsBlind DEF Quiet
  <2>3. ASSUME NEW n, Taken(dk, s, n)
        PROVE  Place(n) # {} \/ blind
    <3>1. dk.backend \in {"sd", "posix"}
      BY <1>1, StoreAssumption DEF Fine, DiskFine
    <3>2. n \in TimesIn(dk.files[d])
      <4>1. ToSet(s.list) \subseteq TimesIn(dk.files[d])
        BY <1>1 DEF ListsHere, Lists
      <4> QED
        BY <2>3, <3>1, <4>1 DEF Taken
    <3> QED
      BY <1>1, <3>2, ContentTimes
  <2>4. free \/ crowded \/ blind
    <3>1. CASE Taken(dk, s, c)
      <4>1. c = b.time + Tries - 1 /\ \A n \in b.time .. b.time + Tries - 1 : Taken(dk, s, n)
        BY <1>4, <2>1, <3>1, CandidateFound
      <4>2. c - Tries + 1 .. c = b.time .. b.time + Tries - 1
        BY <2>1, <4>1
      <4> QED
        BY <2>3, <4>1, <4>2
    <3> HIDE DEF Place
    <3> QED
      BY <2>2, <3>1 DEF free
  <2>5. p2 = (p \ Place(c)) \cup {x} /\ x \in p2
    BY <1>1, <1>4 DEF PutIn
  <2>6. /\ last'.call = "save" /\ last'.of = {c} /\ x.whole = last'.ok
        /\ last'.ok \/ ~last'.quiet
    BY <1>1, <1>4 DEF Blobs
  <2>7. last'.quiet <=> quiet
    BY <1>1
  <2> HIDE DEF p, p2, quiet
  <2>8. \E y \in p2 :
          /\ last'.of = {y.time} /\ y.whole = last'.ok /\ (last'.ok \/ ~last'.quiet)
          /\ \/ Place(y.time) = {}
             \/ \A n \in y.time - Tries + 1 .. y.time : Place(n) # {}
             \/ ~(disk.backend = "posix") /\ (~last'.quiet \/ Cardinality(p) > Cap)
          /\ p2 = (p \ Place(y.time)) \cup {y}
    BY <2>4, <2>5, <2>6, <2>7, Zenon
  <2>9. Moves(p, p2, last', disk.backend = "posix")
    BY <2>6, <2>8, Zenon DEF Moves
  <2> QED
    BY <1>2, <2>9 DEF Shelved, p, p2
<1> QED
  BY <1>1, <1>3, <1>4 DEF SaveDoes

LEMMA ReadShelved ==
  ASSUME StoreInv, store'.dir \in Dirs, disk'.files = disk.files, disk'.backend = disk.backend,
         last'.call \in {"refresh", "load"}
  PROVE  Shelved(store'.dir, disk, disk', last')
BY DEF Shelved, Keeps, Moves

LEMMA DeleteShelved ==
  ASSUME StoreInv, NEW i, Delete(i)
  PROVE  Shelved(store'.dir, disk, disk', last')
<1>1. PICK q \in DeleteOutcomes(disk, store, i) :
        /\ disk' = q.disk /\ store' = q.store
        /\ last' = Answer("delete", q.ok, {store.list[i]}, q.disk)
  BY Zenon DEF Delete
<1>2. Tells(disk, store, q.disk, q.store) /\ Removes(disk, store, store.list[i], q) /\ q.ok \in BOOLEAN
  BY DeleteTells DEF StoreInv
<1>3. /\ last'.call = "delete" /\ last'.ok = q.ok /\ last'.of = {store.list[i]}
      /\ last'.quiet <=> Quiet(disk, q.disk)
  BY <1>1, AnswerFields
<1> DEFINE d == store.dir
           f == disk.files[d]
           g == q.disk.files[d]
           p == Contents(f)
           t == store.list[i]
           asked == {x \in p : x.time \in last'.of}
<1>4. d \in Dirs /\ FilesOK(f) /\ store'.dir = d /\ Keeps(disk, d, disk') /\ disk'.backend = disk.backend
  BY <1>1, <1>2 DEF StoreInv, Fine, StoreFine, DiskFine, Tells
<1>5. asked = {x \in p : x.time = t}
  BY <1>3
<1>6. Contents(Without(f, {t})) = p \ asked
  <2>1. Contents(Without(f, {t})) = {x \in p : x.time \notin {t}}
    BY WithoutContents
  <2> QED
    BY <1>5, <2>1
<1>7. Contents(SpoilIn(f, t)) = (p \ asked) \cup {[x EXCEPT !.whole = FALSE] : x \in asked}
  <2>1. Contents(SpoilIn(f, t)) = {x \in p : x.time # t}
                                     \cup {[x EXCEPT !.whole = FALSE] : x \in {y \in p : y.time = t}}
    BY <1>4, SpoilContents
  <2>2. {x \in p : x.time # t} = p \ asked
    BY <1>5
  <2> HIDE DEF asked, p
  <2> QED
    BY <1>5, <2>1, <2>2
<1>8. IF q.ok THEN g = Without(f, {t}) \/ (~Quiet(disk, q.disk) /\ g = f)
      ELSE g = f \/ (~Quiet(disk, q.disk) /\ g = SpoilIn(f, t))
  BY <1>2 DEF Removes
<1>9. Moves(p, Contents(g), last', disk.backend = "posix")
  <2> HIDE DEF f, g, t
  <2> QED
    BY <1>3, <1>6, <1>7, <1>8, Zenon DEF Moves
<1> QED
  BY <1>1, <1>4, <1>9 DEF Shelved

LEMMA ClearShelved ==
  ASSUME StoreInv, ClearAll
  PROVE  Shelved(store'.dir, disk, disk', last')
<1>1. PICK q \in ClearOutcomes(disk, store) :
        /\ disk' = q.disk /\ store' = q.store
        /\ last' = Answer("clear_all", q.ok, Unlisted, q.disk)
  BY Zenon DEF ClearAll
<1>2. Tells(disk, store, q.disk, q.store) /\ Clears(disk, store, q)
  BY ClearTells DEF StoreInv
<1>3. /\ last'.call = "clear_all" /\ last'.ok = q.ok /\ last'.of = Unlisted
      /\ last'.quiet <=> Quiet(disk, q.disk)
  BY <1>1, AnswerFields
<1> DEFINE d == store.dir
           f == disk.files[d]
           p == Contents(f)
           p2 == Contents(q.disk.files[d])
<1>4. d \in Dirs /\ store'.dir = d /\ Keeps(disk, d, disk') /\ disk'.backend = disk.backend
  BY <1>1, <1>2 DEF StoreInv, Fine, StoreFine, Tells
<1>5. p2 \subseteq p
  BY <1>2, WithoutContents DEF Clears
<1>5a. last'.ok \/ ~last'.quiet
  BY <1>2, <1>3 DEF Clears
<1>6. ASSUME last'.ok, last'.quiet, NEW x \in p2
      PROVE  ~(disk.backend = "posix") /\ x.time \in last'.of
  <2> DEFINE T == IF disk.backend = "posix" THEN TimesIn(f) ELSE ToSet(store.list)
  <2>1. q.disk.files[d] = Without(f, T)
    BY <1>2, <1>3, <1>6 DEF Clears
  <2>2. x \in p /\ x.time \notin T
    BY <1>6, <2>1, WithoutContents
  <2>3. x.time \in TimesIn(f)
    BY <2>2, ContentTimes
  <2> QED
    BY <1>3, <2>2, <2>3 DEF Unlisted, Folder
<1> HIDE DEF p, p2
<1>7. Moves(p, p2, last', disk.backend = "posix")
  BY <1>3, <1>5, <1>5a, <1>6, Zenon DEF Moves
<1> QED
  BY <1>1, <1>4, <1>7 DEF Shelved, p, p2

LEMMA ShelfStep ==
  StoreInv /\ StoreInv' /\ [Next]_vars =>
    [Shelf!Next]_<<[d \in Dirs |-> {disk.files[d][i] : i \in DOMAIN disk.files[d]}],
                   last, store.dir, disk.backend = "posix">>
<1> SUFFICES ASSUME StoreInv, StoreInv', Next
             PROVE  Shelf!Next
  BY DEF vars
<1>0. /\ Fine(disk, store) /\ DiskFine(disk) /\ DiskFine(disk') /\ store'.dir \in Dirs /\ store.dir \in Dirs
  BY DEF StoreInv, Fine, StoreFine
<1> SUFFICES Shelved(store'.dir, disk, disk', last')
  BY <1>0, ShelvedStep
<1>1. ASSUME NEW rom \in Roms, Refresh(rom)
      PROVE  Shelved(store'.dir, disk, disk', last')
  <2>1. PICK r \in RefreshOutcomes(disk, rom) : disk' = r.disk /\ last' = Answer("refresh", TRUE, {}, r.disk)
    BY <1>1, Zenon DEF Refresh
  <2>2. disk'.files = disk.files /\ disk'.backend = disk.backend
    BY <1>0, <2>1, RefreshTells
  <2>3. last'.call = "refresh"
    BY <2>1 DEF Answer
  <2> QED
    BY <1>0, <2>2, <2>3, ReadShelved
<1>2. ASSUME NEW i, Load(i)
      PROVE  Shelved(store'.dir, disk, disk', last')
  <2>1. PICK q \in LoadOutcomes(disk, store, i, blob) :
          disk' = q.disk /\ last' = Answer("load", q.ok, {store.list[i]}, q.disk)
    BY <1>2, Zenon DEF Load
  <2>2. disk'.files = disk.files /\ disk'.backend = disk.backend
    BY <1>0, <2>1, LoadTells
  <2>3. last'.call = "load"
    BY <2>1, AnswerFields
  <2> QED
    BY <1>0, <2>2, <2>3, ReadShelved
<1> QED
  BY <1>1, <1>2, SaveShelved, DeleteShelved, ClearShelved, Zenon DEF Next

(* The stores are shelves as SaveShelf has them, call by call, with any    *)
(* number of errors and directories of any size: a call changes only the   *)
(* directory it is about; refresh and load change nothing; a save that is  *)
(* answered TRUE adds one whole save, and replaces one only where every    *)
(* name that sd_ss_save or posix_ss_save tries is taken, or where          *)
(* sd_ss_save looked for the name in a listing that an error, or more      *)
(* saves than it holds, had cut short; delete takes the one save it was    *)
(* asked for; clear_all takes saves only, and without an error leaves at   *)
(* most those that were not listed; and a call that is answered FALSE      *)
(* changes nothing unless the file system failed.                          *)
THEOREM SavesAreKept == Spec => KeptOnShelf
<1> QED
  BY ShelfStart, ShelfStep, StoreStart, StoreStep, PTL DEF Spec, KeptOnShelf, Shelf!Spec
=============================================================================
