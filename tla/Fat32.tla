------------------------------- MODULE Fat32 -------------------------------
(***************************************************************************)
(* The write half of src/pico/fat32.c on a FAT32 volume.  A call reads the *)
(* volume and then writes sector after sector; nothing else touches the    *)
(* card, so that the sectors it will write (todo) are known when it starts *)
(* and power may fail, or a write be refused, at each of them.             *)
(*                                                                         *)
(* A cluster is one sector of SlotsPer directory slots; file data fill it  *)
(* with one value.  The second copy of the FAT is never read by the code   *)
(* and is left out, and a write that is refused leaves the sector alone.   *)
(***************************************************************************)
EXTENDS Integers, Sequences, FiniteSets, FiniteSetsExt, SequencesExt

CONSTANTS
  LastCluster,  \* clusters 2 .. LastCluster (total_clusters + 1)
  SlotsPer,     \* directory entries of a cluster (16 per sector)
  Size,         \* clusters of a file: all are one SaveStateBlob long
  FileNames, DirNames,
  MaxMishaps    \* bound: reads and writes that fail, and power failures

Root == 2
Clusters == 2 .. LastCluster
Free == 0
EOF == -1

ASSUME Fat32Assumption ==
  /\ LastCluster \in Nat /\ LastCluster > Root
  /\ SlotsPer \in Nat \ {0, 1} /\ Size \in Nat \ {0}
  /\ FileNames \cap DirNames = {}
  /\ MaxMishaps \in Nat

VARIABLES
  vol,   \* fat: the table; data: the clusters as directory slots
  hint,  \* next_free_hint
  call,  \* the call in progress: its writes to come, and what it returns
  bad    \* faults and power failures so far; torn: one of them fell into a call
         \* that replaces or deletes, and the run ends

vars == <<vol, hint, call, bad>>

Entry(name, first, isDir) == [name |-> name, first |-> first, dir |-> isDir]
End == Entry("end", 0, FALSE)
Deleted == Entry("deleted", 0, FALSE)
Payloads == 1 .. 2
Filled(e) == [i \in 1 .. SlotsPer |-> e]
Data(p) == Filled(Entry("data", p, FALSE))

-----------------------------------------------------------------------------
(* Reading the volume. *)

\* The clusters from first on; whatever is no cluster ends a chain.
Chain(fat, first) ==
  LET at[k \in 0 .. LastCluster] ==
        IF k = 0 THEN first ELSE IF at[k - 1] \in Clusters THEN fat[at[k - 1]] ELSE EOF
  IN  [k \in 1 .. Cardinality({j \in DOMAIN at : at[j] \in Clusters}) |-> at[k - 1]]

Slots(v, d) == LET ch == Chain(v.fat, d)
               IN  [j \in 1 .. Len(ch) * SlotsPer |->
                      <<ch[1 + (j - 1) \div SlotsPer], 1 + ((j - 1) % SlotsPer)>>]

At(v, p) == v.data[p[1]][p[2]]

\* The slots in front of the end marker, and the first with a name.
Read(v, d) ==
  LET ps == Slots(v, d)
      ends == {j \in DOMAIN ps : At(v, ps[j]) = End}
  IN  SubSeq(ps, 1, IF ends = {} THEN Len(ps) ELSE Min(ends) - 1)

Find(v, d, name) == SelectSeq(Read(v, d), LAMBDA p : At(v, p).name = name)

Vacant(v, d) == SelectSeq(Slots(v, d), LAMBDA p : At(v, p) \in {End, Deleted})

(* Mutant: the hint is taken for a free cluster.                           *)
PickHint(fat, from, n) ==
  [k \in 1 .. n |-> IF from + k - 1 \in Clusters THEN from + k - 1 ELSE k + 2]

\* The next n free clusters from the hint on, around the end; fewer if full.
Pick(fat, from, n) ==
  LET turn(c) == (c - from) % (LastCluster - 1)
      free == {c \in Clusters : fat[c] = Free}
  IN  [k \in 1 .. Min({n, Cardinality(free)}) |->
         CHOOSE c \in free : Cardinality({x \in free : turn(x) < turn(c)}) = k - 1]

-----------------------------------------------------------------------------
(* Sector writes.  When one fails the call frees the chain "undo" starts,  *)
(* and returns false; "hint" is next_free_hint after it.                   *)

Set(c, v, undo, part, h) ==
  [at |-> "fat", c |-> c, v |-> v, undo |-> undo, part |-> part, hint |-> h]
Fill(c, s, undo, part, h) ==
  [at |-> "sector", c |-> c, s |-> s, undo |-> undo, part |-> part, hint |-> h]
Patch(p, e, undo, h) ==
  [at |-> "slot", c |-> p[1], i |-> p[2], e |-> e, undo |-> undo, part |-> "entry", hint |-> h]

Applied(v, w) ==
  CASE w.at = "fat" -> [v EXCEPT !.fat[w.c] = w.v]
    [] w.at = "sector" -> [v EXCEPT !.data[w.c] = w.s]
    [] w.at = "slot" -> [v EXCEPT !.data[w.c][w.i] = w.e]

HintAfter(cs, h) == IF cs = <<>> THEN h ELSE Min({h, cs[1]})

(* Mutant: only the first cluster is freed.                                *)
FreeFirst(cs, h) == [i \in 1 .. Min({1, Len(cs)}) |-> Set(cs[i], Free, 0, "free", HintAfter(cs, h))]

\* free_cluster_chain
FreeChain(cs, h) == [i \in DOMAIN cs |-> Set(cs[i], Free, 0, "free", HintAfter(cs, h))]

\* alloc_cluster_chain: what is linked so far is freed when a step fails.
AllocChain(cs, undo) ==
  FlattenSeq([i \in DOMAIN cs |->
    LET u == IF i > 1 THEN cs[1] ELSE undo
        h == cs[i] + 1
    IN  <<Fill(cs[i], Filled(End), u, "alloc", h), Set(cs[i], EOF, u, "alloc", h)>>
        \o (IF i = 1 THEN <<>> ELSE <<Set(cs[i - 1], cs[i], u, "alloc", h)>>)])

Linked(fat, cs) ==
  [c \in Clusters |-> IF c \in ToSet(cs)
                      THEN LET i == CHOOSE i \in DOMAIN cs : cs[i] = c
                           IN  IF i = Len(cs) THEN EOF ELSE cs[i + 1]
                      ELSE fat[c]]

(* Mutant: the cluster a full directory gets is not linked to it.          *)
AddEntryNoLink(v, d, fat, h, e, first, undo) ==
  LET ext == Pick(fat, h, 1)
  IN  IF Vacant(v, d) # <<>> THEN [todo |-> <<Patch(Vacant(v, d)[1], e, undo, h)>>, ok |-> TRUE]
      ELSE IF ext = <<>> THEN [todo |-> FreeChain(Chain(fat, first), h), ok |-> FALSE]
      ELSE [todo |-> AllocChain(ext, first) \o <<Patch(<<ext[1], 1>>, e, undo, ext[1] + 1)>>,
            ok |-> TRUE]

\* dir_find_free_slot and write_dir_slot, for the file or directory at first:
\* a full directory grows by a cluster.
AddEntry(v, d, fat, h, e, first, undo) ==
  LET ext == Pick(fat, h, 1)
      last == Chain(v.fat, d)[Len(Chain(v.fat, d))]
  IN  IF Vacant(v, d) # <<>> THEN [todo |-> <<Patch(Vacant(v, d)[1], e, undo, h)>>, ok |-> TRUE]
      ELSE IF ext = <<>> THEN [todo |-> FreeChain(Chain(fat, first), h), ok |-> FALSE]
      ELSE [todo |-> AllocChain(ext, first)
                     \o <<Set(last, ext[1], first, "link", ext[1] + 1),
                          Patch(<<ext[1], 1>>, e, undo, ext[1] + 1)>>, ok |-> TRUE]

-----------------------------------------------------------------------------
(* The calls, as the writes they make and what they return.  A read that   *)
(* fails is taken for "not found" (lookup), for the end of a chain (free   *)
(* and data), or ends the call (slot).                                     *)

Refused == [todo |-> <<>>, ok |-> FALSE]
Success == [todo |-> <<>>, ok |-> TRUE]
ReadFaults == {"lookup", "free", "data", "slot"}

Cut(s, fault, kind) == IF fault = kind THEN SubSeq(s, 1, 1) ELSE s

\* fat32_write_file
WriteFile(d, name, p, fault) ==
  LET found == IF fault = "lookup" THEN <<>> ELSE Find(vol, d, name)
      old == IF found = <<>> THEN <<>>
             ELSE Cut(Chain(vol.fat, At(vol, found[1]).first), fault, "free")
      freed == [c \in Clusters |-> IF c \in ToSet(old) THEN Free ELSE vol.fat[c]]
      h == HintAfter(old, hint)
      cs == Pick(freed, h, Size)
      first == cs[1]
      h2 == cs[Len(cs)] + 1
      e == Entry(name, first, FALSE)
      data == Cut([i \in DOMAIN cs |-> Fill(cs[i], Data(p), first, "data", h2)], fault, "data")
      entry == IF found # <<>> THEN [todo |-> <<Patch(found[1], e, 0, h2)>>, ok |-> TRUE]
               ELSE IF fault = "slot" THEN [todo |-> FreeChain(cs, h2), ok |-> FALSE]
               ELSE AddEntry(vol, d, Linked(freed, cs), h2, e, first, 0)
      start == FreeChain(old, hint) \o AllocChain(cs, 0)
  IN  IF found # <<>> /\ At(vol, found[1]).dir THEN Refused
      ELSE IF Len(cs) < Size THEN [todo |-> start \o FreeChain(cs, h2), ok |-> FALSE]
      ELSE [todo |-> start \o data \o entry.todo, ok |-> entry.ok]

\* fat32_delete_file
DeleteFile(d, name, fault) ==
  LET found == IF fault = "lookup" THEN <<>> ELSE Find(vol, d, name)
      old == Cut(Chain(vol.fat, At(vol, found[1]).first), fault, "free")
  IN  IF found = <<>> THEN Success
      ELSE IF At(vol, found[1]).dir THEN Refused
      ELSE [todo |-> FreeChain(old, hint) \o <<Patch(found[1], Deleted, 0, HintAfter(old, hint))>>,
            ok |-> TRUE]

\* fat32_find_or_create_dir
MakeDir(d, name, fault) ==
  LET found == IF fault = "lookup" THEN <<>> ELSE Find(vol, d, name)
      cs == Pick(vol.fat, hint, 1)
      dots == [i \in 1 .. SlotsPer |->
                 IF i = 1 THEN Entry(".", cs[1], TRUE) ELSE IF i = 2 THEN Entry("..", 0, TRUE) ELSE End]
      entry == IF fault = "slot" THEN [todo |-> FreeChain(cs, cs[1] + 1), ok |-> FALSE]
               ELSE AddEntry(vol, d, Linked(vol.fat, cs), cs[1] + 1, Entry(name, cs[1], TRUE),
                             cs[1], cs[1])
  IN  IF found # <<>> THEN [todo |-> <<>>, ok |-> At(vol, found[1]).dir]
      ELSE IF cs = <<>> THEN Refused
      ELSE [todo |-> AllocChain(cs, 0) \o <<Fill(cs[1], dots, cs[1], "data", cs[1] + 1)>>
                     \o entry.todo, ok |-> entry.ok]

-----------------------------------------------------------------------------
(* The volume at work. *)

Idle == [op |-> "none", dir |-> 0, name |-> "", value |-> 0, todo |-> <<>>, ok |-> TRUE,
         over |-> FALSE]

Live(v, d) == {p \in ToSet(Read(v, d)) : At(v, p) # Deleted}
SubDirs(v) == {At(v, p).first : p \in {q \in Live(v, Root) : At(v, q).dir}}
AllDirs(v) == {Root} \cup SubDirs(v)

CanFail == bad.faults + bad.cuts < MaxMishaps

Begin(op, d, name, value, plan) ==
  /\ call' = [op |-> op, dir |-> d, name |-> name, value |-> value, todo |-> plan.todo,
              ok |-> plan.ok, over |-> Find(vol, d, name) # <<>>]
  /\ UNCHANGED <<vol, hint>>

Start(fault) ==
  /\ call = Idle
  /\ fault = "none" \/ CanFail
  /\ \E d \in AllDirs(vol) :
       \/ \E name \in FileNames, p \in Payloads :
            Begin("write", d, name, p, WriteFile(d, name, p, fault))
       \/ \E name \in FileNames :
            Begin("delete", d, name, 0, DeleteFile(d, name, fault))
       \/ \E name \in DirNames :
            d = Root /\ Begin("mkdir", d, name, 0, MakeDir(d, name, fault))
  /\ bad' = IF fault = "none" THEN bad
            ELSE [bad EXCEPT !.faults = @ + 1, !.torn = call'.over]

Write ==
  /\ call.todo # <<>>
  /\ vol' = Applied(vol, Head(call.todo)) /\ hint' = Head(call.todo).hint
  /\ call' = [call EXCEPT !.todo = Tail(@)] /\ UNCHANGED bad

\* The card refuses a write.
WriteFails ==
  /\ call.todo # <<>> /\ CanFail
  /\ LET w == Head(call.todo)
         h == IF w.part = "alloc" THEN w.hint ELSE hint
     IN  /\ call' = [call EXCEPT !.todo = FreeChain(Chain(vol.fat, w.undo), h), !.ok = FALSE]
         /\ hint' = h
  /\ bad' = [bad EXCEPT !.faults = @ + 1, !.torn = call.over] /\ UNCHANGED vol

Return == call # Idle /\ call.todo = <<>> /\ call' = Idle /\ UNCHANGED <<vol, hint, bad>>

\* Power fails between two writes; the card is mounted again.
PowerCut ==
  /\ call # Idle /\ CanFail
  /\ call' = Idle /\ hint' = 2 /\ bad' = [bad EXCEPT !.cuts = @ + 1, !.torn = call.over]
  /\ UNCHANGED vol

\* fat32_mount of a freshly formatted card
Init ==
  /\ vol = [fat |-> [c \in Clusters |-> IF c = Root THEN EOF ELSE Free],
            data |-> [c \in Clusters |-> Filled(End)]]
  /\ hint = 2 /\ call = Idle /\ bad = [faults |-> 0, cuts |-> 0, torn |-> FALSE]

Next ==
  /\ ~bad.torn
  /\ (\E fault \in ReadFaults \cup {"none"} : Start(fault))
     \/ Write \/ WriteFails \/ Return \/ PowerCut

Spec == Init /\ [][Next]_vars

-----------------------------------------------------------------------------
(* What the volume holds: the files with what is in their clusters.        *)

FilesAt(v, d) == {p \in Live(v, d) : ~At(v, p).dir}
Content(v, p) == LET ch == Chain(v.fat, At(v, p).first) IN [k \in DOMAIN ch |-> v.data[ch[k]]]
Files(v) == UNION {{<<d, At(v, p).name, Content(v, p)>> : p \in FilesAt(v, d)} : d \in AllDirs(v)}

\* The chains in use: directories and files, but not the file that a call is
\* about to replace or delete, whose clusters are freed before its entry.
Heads(v) == AllDirs(v) \cup
  UNION {{At(v, p).first : p \in {q \in FilesAt(v, d) : ~(call.over /\ d = call.dir
                                                         /\ At(v, q).name = call.name)}} :
           d \in AllDirs(v)}
Owned(v) == [f \in Heads(v) |-> ToSet(Chain(v.fat, f))]

(* Type invariant: names occur once, and the hint may be past the end.     *)
TypeOK ==
  /\ vol.fat \in [Clusters -> Clusters \cup {Free, EOF}] /\ hint \in 2 .. LastCluster + 1
  /\ bad.torn \/ \A d \in AllDirs(vol) :
       \A p, q \in Live(vol, d) : At(vol, p).name = At(vol, q).name => p = q
  /\ bad \in [faults : 0 .. MaxMishaps, cuts : 0 .. MaxMishaps, torn : BOOLEAN]

(* No two files or directories share a cluster, and none runs into one     *)
(* that is free, at every write of every call; power failures and refused  *)
(* writes may interrupt the calls that create something, at any of them.   *)
NoCrossLink ==
  ~bad.torn =>
    LET owned == Owned(vol)
    IN  \A f \in DOMAIN owned :
          /\ \A c \in owned[f] : vol.fat[c] # Free
          /\ \A g \in DOMAIN owned : f # g => owned[f] \cap owned[g] = {}

(* Between calls every cluster that is not free belongs to a file or a     *)
(* directory: fill and empty the card as you like, no space is lost unless *)
(* a call was interrupted.                                                 *)
NoLeak ==
  call = Idle /\ bad.faults + bad.cuts = 0 =>
    {c \in Clusters : vol.fat[c] # Free} = UNION Range(Owned(vol))

(* A call changes no file but the one it names, at none of its writes, and *)
(* a power failure changes none.                                           *)
OnlyTheNamed ==
  [][LET was == Files(vol)  is == Files(vol')
     IN  \A f \in (was \ is) \cup (is \ was) : f[1] = call.dir /\ f[2] = call.name]_vol

(* A call that returns TRUE has done what fat32.h says: the file has what  *)
(* was written to it, whole and found by its name; a file deleted is not   *)
(* found.                                                                  *)
DoneIsDone ==
  call.todo = <<>> /\ call.ok /\ bad.faults = 0 =>
    LET found == Find(vol, call.dir, call.name)
    IN  /\ call.op = "delete" => found = <<>>
        /\ call.op = "write" =>
             found # <<>> /\ Content(vol, found[1]) = [k \in 1 .. Size |-> Data(call.value)]

(* The volume is one that any FAT32 reader takes: in every sector that is  *)
(* written its chains stay disjoint, and complete where no call is under   *)
(* way.                                                                    *)
VolumeOK == TypeOK /\ NoCrossLink /\ NoLeak
=============================================================================
