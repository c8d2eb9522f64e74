----------------------------- MODULE SdListing -----------------------------
(***************************************************************************)
(* The ROMs of an SD card (src/pico/rom_source_sd.c) and the reading half  *)
(* of src/pico/fat32.c below them: finding the volume, walking the root    *)
(* directory and the directory "roms", reading a header of each ROM, and   *)
(* loading a ROM whole or piece by piece.  Any sector may be unreadable.   *)
(*                                                                         *)
(* A name is a sequence of chunks, the 13 characters one directory slot    *)
(* holds of a long name, and a chunk is a number; those in NesChunks end   *)
(* in ".nes".  Byte i of cluster c is the pair <<c, i>>.  Nothing writes   *)
(* to the card, and it stays in its slot.                                  *)
(***************************************************************************)
EXTENDS CartLoad, Sequences, FiniteSetsExt, SequencesExt

CONSTANTS Volumes,      \* the cards, see VolumeOf
          SectorBytes,  \* bytes of a sector
          FatPer,       \* entries of the table in a sector of it
          HeaderBytes,  \* of an iNES header
          ListMax,      \* SD_ROM_LIST_MAX
          NesChunks,
          RomsName,     \* the name "roms"
          MaxUnreadable,  \* bound: the sectors that cannot be read in a behaviour
          MaxRequests   \* bound: the refreshes and loads of a behaviour

ASSUME ListingAssumption ==
    /\ SectorBytes \in Nat \ {0} /\ FatPer \in Nat \ {0} /\ HeaderBytes \in 1 .. SectorBytes
    /\ ListMax \in Nat /\ MaxUnreadable \in Nat /\ MaxRequests \in Nat

VARIABLES vol,   \* the card
          cached, \* the sector of the table in fat_cache, or -1
          scan,  \* the walk of a directory: the iterator, the pass, where "roms" is
          list,  \* the entries of the source
          file,  \* the open file: what is still wanted of it and what was delivered
          req    \* what the source is doing, and how it went; n, faults: so far
listingVars == <<vol, cached, scan, list, file, req>>

NUL == -1
EOF == -1

----------------------------------------------------------------------------
(* Finding the volume.                                                     *)

(* fat32_mount: the boot sector is the volume's own, or one of the first   *)
(* four partitions is; refused holds the sectors that cannot be read.      *)
Mounts(v, refused) ==
    /\ 0 \notin refused /\ v.boot # "unsigned"
    /\ \/ v.boot = "volume"
       \/ \E p \in 1 .. 4 : v.parts[p] = "fat32" /\ p \notin refused

----------------------------------------------------------------------------
(* The table and the directories.                                          *)
FatOf(v, c) == IF c \in DOMAIN v.fat THEN v.fat[c] ELSE EOF

(* fat_entry: a sector that cannot be read ends the chain and empties the  *)
(* cache; one that is in the cache is not read again.                      *)
NextOf(c, fails) ==
    IF cached = c \div FatPer THEN [next |-> FatOf(vol, c), cached |-> cached]
    ELSE IF fails THEN [next |-> EOF, cached |-> -1]
    ELSE [next |-> FatOf(vol, c), cached |-> c \div FatPer]

(* The sectors of a directory; in front of the clusters lies the unused    *)
(* end of the table, which reads as the end of a directory.                *)
SlotEnd == [kind |-> "end"]
SectorOf(v, c, s) == IF c \in DOMAIN v.dir THEN v.dir[c][s + 1] ELSE <<SlotEnd>>

OpenDir(c) == [cluster |-> c, sector |-> 0, entry |-> 1, buf |-> <<>>, pending |-> FALSE,
               lfn |-> [k \in 1 .. 3 |-> NUL]]

(* advance_iter.  At the end of the last cluster the buffer stays loaded.  *)
Advance(it, fails) ==
    LET fat == NextOf(it.cluster, fails)
        at(c, s) == [it EXCEPT !.cluster = c, !.sector = s, !.entry = 1, !.buf = <<>>]
    IN  IF it.entry < Len(it.buf) THEN [it |-> [it EXCEPT !.entry = @ + 1], more |-> TRUE, cached |-> cached]
        ELSE IF it.sector + 1 < vol.perCluster
        THEN [it |-> at(it.cluster, it.sector + 1), more |-> TRUE, cached |-> cached]
        ELSE [it |-> IF fat.next = EOF THEN [it EXCEPT !.sector = 0, !.entry = 1] ELSE at(fat.next, 0),
              more |-> fat.next # EOF, cached |-> fat.cached]

(* The pieces of a long name come last first; the last one ends it.        *)
Forget(it) == [it EXCEPT !.pending = FALSE, !.lfn[1] = NUL]
PutChunk(it, e) ==
    [it EXCEPT !.pending = TRUE,
               !.lfn = [k \in DOMAIN @ |-> IF k = e.order THEN e.chunk
                                           ELSE IF k = e.order + 1 /\ e.last THEN NUL ELSE @[k]]]
LongName(lfn) == LET ends == {k \in DOMAIN lfn : lfn[k] = NUL}
                 IN  SubSeq(lfn, 1, IF ends = {} THEN Len(lfn) ELSE Min(ends) - 1)
NameOf(it, e) == IF it.pending /\ it.lfn[1] # NUL THEN LongName(it.lfn) ELSE <<e.short>>

IsRom(name) == Last(name) \in NesChunks

----------------------------------------------------------------------------
(* The listing.                                                            *)
Walk(pass, dir, roms) == [it |-> OpenDir(dir), pass |-> pass, roms |-> roms]
Closed == [how |-> "none", entry |-> 0, cluster |-> 0, byte |-> 0, want |-> 0, got |-> <<>>,
           out |-> <<>>, ok |-> FALSE]

MayFail == req.faults < MaxUnreadable
Counted(fails) == req' = [req EXCEPT !.faults = @ + IF fails THEN 1 ELSE 0]

(* rom_source_sd_init: the card and the volume, then the first listing.    *)
Open ==
    /\ req.at = "off"
    /\ \E refused \in SUBSET {0, 1} :
         req' = [req EXCEPT !.at = IF Mounts(vol, refused) THEN "scan" ELSE "gone"]
    /\ scan' = Walk(1, vol.root, 0)
    /\ UNCHANGED <<vol, cached, list, file>>

(* sd_refresh, on a volume that stays mounted for good.                    *)
SdRefresh ==
    /\ req.at = "idle" /\ req.n < MaxRequests
    /\ list' = <<>> /\ file' = Closed
    /\ scan' = Walk(1, vol.root, 0)
    /\ req' = [req EXCEPT !.at = "scan", !.n = @ + 1]
    /\ UNCHANGED <<vol, cached>>

(* An entry of the list; its header is read when the file is long enough,  *)
(* and when that fails the entry stays blank.                              *)
Blank == [mapper |-> 0, supported |-> FALSE, battery |-> FALSE, prg |-> 0, chr |-> 0]
RomEntry(name, e, read) ==
    [name |-> name, first |-> e.first, size |-> e.size, meta |-> IF read THEN Listed(e.header) ELSE Blank]

(* One turn of the loop of fat32_dir_next, and what scan_dir_for_nes does  *)
(* with the entry it returns.  fault: the sector of the directory, of the  *)
(* table or of the header that cannot be read.                             *)
Slot(it, e, fault) ==
    LET step  == Advance(CASE e.kind = "lfn" -> PutChunk(it, e) [] OTHER -> Forget(it), fault = "fat")
        name  == NameOf(it, e)
    IN  CASE e.kind = "end" -> scan' = [scan EXCEPT !.it = it, !.pass = -@] /\ UNCHANGED <<cached, list>>
          [] e.kind \in {"deleted", "volume", "lfn"} ->
               /\ scan' = [scan EXCEPT !.it = step.it, !.pass = IF step.more THEN @ ELSE -@]
               /\ cached' = step.cached /\ list' = list
          [] e.kind \in {"dir", "file"} ->
               /\ cached' = step.cached
               /\ scan' = [scan EXCEPT !.it = IF step.more THEN step.it ELSE [step.it EXCEPT !.cluster = 0],
                            !.roms = IF e.kind = "dir" /\ scan.pass = 1 /\ @ = 0 /\ name = RomsName
                                     THEN e.first ELSE @]
               /\ list' = IF e.kind = "dir" \/ ~IsRom(name) THEN list
                          ELSE Append(list, RomEntry(name, e, e.size >= HeaderBytes /\ fault # "header"))

ScanSlot ==
    /\ req.at = "scan" /\ scan.pass > 0 /\ Len(list) < ListMax
    /\ LET it == IF scan.it.buf # <<>> THEN scan.it
                 ELSE [scan.it EXCEPT !.buf = SectorOf(vol, scan.it.cluster, scan.it.sector)]
       IN  \E fault \in {"none", "fat", "header"} :
             /\ fault # "none" => MayFail
             /\ Counted(fault # "none")
             /\ Slot(it, it.buf[it.entry], fault)
    /\ UNCHANGED <<vol, file>>

(* A sector that cannot be read ends the directory, and so does a list     *)
(* that is full.                                                           *)
ScanStops ==
    /\ req.at = "scan" /\ scan.pass > 0
    /\ \/ Len(list) = ListMax /\ Counted(FALSE)
       \/ Len(list) < ListMax /\ scan.it.buf = <<>> /\ MayFail /\ Counted(TRUE)
    /\ scan' = [scan EXCEPT !.pass = -@]
    /\ UNCHANGED <<vol, cached, list, file>>

(* After the root comes "roms"; then the list is sorted by name.           *)
Before(a, b) == \E k \in 1 .. Len(b) : /\ \A j \in 1 .. k - 1 : j <= Len(a) /\ a[j] = b[j]
                                       /\ k > Len(a) \/ a[k] < b[k]
ByName(s) == SortSeq(s, LAMBDA a, b : Before(a.name, b.name))

PassEnds ==
    /\ req.at = "scan" /\ scan.pass < 0
    /\ IF scan.pass = -1 /\ scan.roms # 0
       THEN scan' = Walk(2, scan.roms, scan.roms) /\ UNCHANGED <<list, req>>
       ELSE /\ list' = ByName(list) /\ req' = [req EXCEPT !.at = "idle"]
            /\ scan' = Walk(1, vol.root, 0)
    /\ UNCHANGED <<vol, cached, file>>

----------------------------------------------------------------------------
(* Loading.                                                                *)
(* What the next fat32_read is asked for: everything, or a sector of it.   *)
Wants(how, size, done) ==
    IF how = "whole" \/ size - done < SectorBytes THEN size - done ELSE SectorBytes

(* sd_load, when there is memory, and sd_load_stream.                      *)
SdLoad ==
    /\ req.at = "idle" /\ req.n < MaxRequests
    /\ \E i \in DOMAIN list, how \in {"whole", "stream"} :
         /\ file' = [Closed EXCEPT !.how = how, !.entry = i, !.cluster = list[i].first,
                                   !.want = Wants(how, list[i].size, 0)]
         /\ req' = [req EXCEPT !.at = "load", !.n = @ + 1]
    /\ UNCHANGED <<vol, cached, scan, list>>

Ends(f, ok) == file' = [f EXCEPT !.ok = ok] /\ req' = [req EXCEPT !.at = "idle"]

(* The loop of fat32_read: on to the next cluster where one is used up,    *)
(* then as much of a sector as is wanted.                                  *)
ReadSector(fault) ==
    LET full == file.byte >= vol.perCluster * SectorBytes
        fat  == NextOf(file.cluster, fault = "fat")
        c    == IF full THEN fat.next ELSE file.cluster
        from == IF full THEN 0 ELSE file.byte
        left == SectorBytes - (from % SectorBytes)
        n    == IF file.want < left THEN file.want ELSE left
    IN  /\ cached' = IF full THEN fat.cached ELSE cached
        /\ IF c = EOF \/ c < 2 \/ fault = "data"
           THEN file' = [file EXCEPT !.want = 0]
           ELSE file' = [file EXCEPT !.cluster = c, !.byte = from + n, !.want = @ - n,
                                     !.got = @ \o [k \in 1 .. n |-> <<c, from + k - 1>>]]

Read ==
    /\ req.at = "load" /\ file.want > 0
    /\ \E fault \in {"none", "fat", "data"} :
         /\ fault # "none" => MayFail
         /\ Counted(fault # "none")
         /\ ReadSector(fault)
    /\ UNCHANGED <<vol, scan, list>>

(* A whole file that came short is thrown away.  A stream goes on with     *)
(* what it got, until nothing comes or its taker refuses it.               *)
ReadReturns ==
    /\ req.at = "load" /\ file.want = 0
    /\ LET size == list[file.entry].size
           out  == file.out \o file.got
           f    == [file EXCEPT !.got = <<>>, !.out = out]
       IN  \/ file.how = "whole" /\ Ends(f, Len(file.got) = size)
           \/ file.how = "stream" /\ Len(file.out) = size /\ Ends(file, TRUE)
           \/ /\ file.how = "stream" /\ Len(file.out) < size /\ file.got = <<>>
              /\ Ends(file, FALSE)
           \/ /\ file.how = "stream" /\ file.got # <<>>
              /\ \/ Ends(f, FALSE)
                 \/ Len(out) = size /\ Ends(f, TRUE)
                 \/ /\ Len(out) < size
                    /\ file' = [f EXCEPT !.want = Wants("stream", size, Len(out))]
                    /\ req' = req
    /\ UNCHANGED <<vol, cached, scan, list>>

----------------------------------------------------------------------------
ListingInit ==
    /\ vol \in Volumes
    /\ cached = -1 /\ scan = Walk(1, vol.root, 0)
    /\ list = <<>> /\ file = Closed
    /\ req = [at |-> "off", n |-> 0, faults |-> 0]

ListingNext == Open \/ SdRefresh \/ ScanSlot \/ ScanStops \/ PassEnds \/ SdLoad \/ Read \/ ReadReturns

----------------------------------------------------------------------------
(* What the card holds, told without the program.                          *)
ChainOf(v, first) ==
    LET at[k \in 0 .. Cardinality(DOMAIN v.fat)] ==
          IF k = 0 THEN first ELSE IF at[k - 1] = EOF THEN EOF ELSE FatOf(v, at[k - 1])
    IN  SelectSeq([k \in 1 .. Cardinality(DOMAIN v.fat) |-> at[k - 1]], LAMBDA c : c # EOF)
SlotsOf(v, first) ==
    FlattenSeq([k \in 1 .. Len(ChainOf(v, first)) |-> FlattenSeq(v.dir[ChainOf(v, first)[k]])])
BytesOf(v, first) ==
    FlattenSeq([k \in 1 .. Len(ChainOf(v, first)) |->
                  [i \in 1 .. v.perCluster * SectorBytes |-> <<ChainOf(v, first)[k], i - 1>>]])

(* The slots in front of the end, and the name of the file in slot j: the  *)
(* pieces right in front of it, or its short name.                         *)
LiveSlots(v, first) ==
    LET s == SlotsOf(v, first)
    IN  SubSeq(s, 1, Min({j \in DOMAIN s : s[j] = SlotEnd} \union {Len(s) + 1}) - 1)
TrueName(s, j) ==
    LET n == Max({k \in 0 .. j - 1 : \A i \in 1 .. k : s[j - i].kind = "lfn"})
    IN  IF n = 0 THEN <<s[j].short>> ELSE [i \in 1 .. n |-> s[j - i].chunk]
RomsIn(v, first) ==
    LET s == LiveSlots(v, first)
    IN  {[e |-> s[j], name |-> TrueName(s, j)] : j \in {k \in DOMAIN s : s[k].kind = "file"}}
RomsDir(v) ==
    LET s == LiveSlots(v, v.root)
        ds == {j \in DOMAIN s : s[j].kind = "dir" /\ TrueName(s, j) = RomsName}
    IN  IF ds = {} THEN 0 ELSE s[Min(ds)].first
RomsOn(v) ==
    {r \in RomsIn(v, v.root) \union (IF RomsDir(v) = 0 THEN {} ELSE RomsIn(v, RomsDir(v))) :
       IsRom(r.name)}
EntriesOf(v) ==
    {RomEntry(r.name, r.e, r.e.size >= HeaderBytes) : r \in RomsOn(v)}

(* A directory that fills its clusters has no end marker.                  *)
Brimful(v) == \E d \in {v.root, RomsDir(v)} \ {0} : LiveSlots(v, d) = SlotsOf(v, d)

(* Whatever cannot be read, the list holds ROMs of the card only, under    *)
(* their names, in the order of the names, each with what its header says  *)
(* or blank; when everything can be read and no directory is brim-full,    *)
(* it holds every one of them once, as far as the list goes.               *)
ListedAsOnCard ==
    /\ \A i \in DOMAIN list :
         \E e \in EntriesOf(vol) : list[i] \in {e, [e EXCEPT !.meta = Blank]}
    /\ req.at = "idle" =>
         /\ \A i \in 1 .. Len(list) - 1 : ~Before(list[i + 1].name, list[i].name)
         /\ req.faults = 0 /\ ~Brimful(vol) =>
              /\ Len(list) = Min({ListMax, Cardinality(RomsOn(vol))})
              /\ IsInjective(list) /\ ToSet(list) \subseteq EntriesOf(vol)

(* A ROM that is said to be loaded was delivered byte for byte, all of it, *)
(* whole or in pieces; what was delivered is never anything else.          *)
LoadedWhole ==
    file.how # "none" /\ req.at \in {"load", "idle"} /\ file.entry \in DOMAIN list =>
      LET e == list[file.entry]
          bytes == BytesOf(vol, e.first)
      IN  /\ req.at = "load" => IsPrefix(file.out \o file.got, bytes)
          /\ file.ok /\ req.at = "idle" => file.out = SubSeq(bytes, 1, e.size)

ListingOK == ListedAsOnCard /\ LoadedWhole
=============================================================================
