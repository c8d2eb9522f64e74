----------------------------- MODULE FlashRoms -----------------------------
(***************************************************************************)
(* ROMs in the Pico's flash.  Two users of the same region, one of which a *)
(* build has:                                                              *)
(*   fs     the flash file system: a directory, then the images, copied    *)
(*          from the SD card (src/pico/rom_source_flash_fs.c);             *)
(*   cache  one image, the ROM launched last, compared with the card and   *)
(*          written again if it differs (rom_source_flash_cache.c).        *)
(* The SD card's listing and its stream are rom_source_sd.c.               *)
(*                                                                         *)
(* A unit of flash is erased, or holds data, or junk.  Erasing works on    *)
(* sectors or blocks, programming on pages and clears bits only: a unit    *)
(* programmed twice is junk.  Power may fail in either, which then has     *)
(* reached some of the units, each of them wholly or not at all.  (The     *)
(* fields of an entry are in one page, but for reserved bytes.)            *)
(***************************************************************************)
EXTENDS Integers, Sequences, FiniteSets, SequencesExt

CONSTANTS Users,       \* a subset of {"fs", "cache"}
          Cards,       \* what may be on the card: sequences of [name, size]
          RegionSize,  \* the region, in units
          PageSize, SectorSize, BlockSize,
          MaxRoms,     \* entries of the directory
          AllOnes,     \* the word that erased flash reads as, 2^32 - 1
          MaxJobs      \* bound: copies or launches in a behaviour

ASSUME FlashAssumption ==
    /\ {PageSize, SectorSize, BlockSize, RegionSize} \subseteq Nat \ {0}
    /\ MaxRoms \in Nat /\ MaxJobs \in Nat
    /\ SectorSize % PageSize = 0 /\ BlockSize % SectorSize = 0 /\ RegionSize % BlockSize = 0
    /\ 2 * SectorSize <= BlockSize /\ MaxRoms + 1 <= 2 * SectorSize
    /\ AllOnes \in Nat /\ AllOnes > RegionSize
    /\ Users \subseteq {"fs", "cache"}
    /\ Cards \subseteq Seq([name : STRING, size : Nat])

VARIABLES user,     \* who uses the region
          cardRoms, \* the listing of the card in the slot
          region,   \* the units of the region
          listing,  \* the directory as it was last read
          job       \* the copy or the launch in progress, or the last one
flashVars == <<user, cardRoms, region, listing, job>>

Units == 0 .. RegionSize - 1
DirSize == 2 * SectorSize
AlignUp(n, a) == ((n + a - 1) \div a) * a
FF == <<"ff">>
Junk == <<"junk">>
Unit(rom, k) == <<rom.name, k>>

----------------------------------------------------------------------------
(* The flash.                                                              *)
Erased(from, n) == [u \in Units |-> IF u \in from .. from + n - 1 THEN FF ELSE region[u]]

Programmed(from, page) ==
    [u \in Units |->
       IF u \notin from .. from + Len(page) - 1 THEN region[u]
       ELSE IF region[u] = FF THEN page[u - from + 1] ELSE Junk]

(* An operation on n units goes through and leaves the region so, or power *)
(* fails in it: the units before or behind some place are done.            *)
InFlash(done, from, n, next) ==
    LET Reached(S) == [u \in Units |-> IF u \in S THEN done[u] ELSE region[u]]
    IN  \/ region' = done /\ job' = next
        \/ /\ \E m \in 0 .. n : \/ region' = Reached(from .. from + m - 1)
                                \/ region' = Reached(from + m .. from + n - 1)
           /\ job' = [next EXCEPT !.at = "dark", !.result = "power"]

----------------------------------------------------------------------------
(* The directory: a head with the number of entries, then the entries.     *)
(* What is behind the last entry is written too, and not read.  An entry   *)
(* that is still erased is listed and lent like the others: a ROM of       *)
(* AllOnes bytes that begins AllOnes behind the start of the region, which *)
(* is the byte in front of it.  Its second byte is the first of the head,  *)
(* so that no cartridge is made of it.                                     *)
NoEntry == [name |-> "?", size |-> AllOnes, offset |-> AllOnes]
HeaderValid == region[0][1] = "MNES"
Entry(i) == IF region[i][1] = "entry" THEN region[i][2] ELSE NoEntry
Directory == IF HeaderValid THEN [i \in 1 .. region[0][2] |-> Entry(i)] ELSE <<>>

(* The entries of a copy: the ROMs of the card in order, without the empty *)
(* ones, as long as they fit; each image begins a sector.                  *)
WithImage(plan, rom) ==
    LET need == AlignUp(rom.size, SectorSize)
    IN  IF plan.full \/ rom.size = 0 THEN plan
        ELSE IF plan.cursor + need > RegionSize THEN [plan EXCEPT !.full = TRUE]
        ELSE [plan EXCEPT !.cursor = @ + need,
                          !.entries = Append(@, [name |-> rom.name, size |-> rom.size,
                                                 offset |-> plan.cursor])]
Planned ==
    FoldLeft(WithImage, [cursor |-> DirSize, entries |-> <<>>, full |-> FALSE],
             SubSeq(cardRoms, 1, IF Len(cardRoms) > MaxRoms THEN MaxRoms ELSE Len(cardRoms)))

----------------------------------------------------------------------------
(* Jobs.                                                                   *)
Ended(result) == [job EXCEPT !.at = "idle", !.result = result]
BeginJob == [n |-> job.n + 1, result |-> "busy", at |-> "erase", from |-> 0, end |-> 0,
          entries |-> <<>>, rom |-> 0, k |-> 0, page |-> <<>>]

(* Mutant of StartCopy: the last, partial block is not erased.             *)
StartCopyFloor ==
    /\ user = "fs" /\ job.at = "idle" /\ job.n < MaxJobs
    /\ job' = IF cardRoms = <<>> \/ Planned.entries = <<>>
              THEN [Ended("nothing") EXCEPT !.n = @ + 1]
              ELSE [BeginJob EXCEPT !.entries = Planned.entries,
                                 !.end = (Planned.cursor \div BlockSize) * BlockSize]
    /\ UNCHANGED <<user, cardRoms, region, listing>>

(* rom_source_flash_fs_copy_from, up to the erasing.                       *)
StartCopy ==
    /\ user = "fs" /\ job.at = "idle" /\ job.n < MaxJobs
    /\ job' = IF cardRoms = <<>> \/ Planned.entries = <<>>
              THEN [Ended("nothing") EXCEPT !.n = @ + 1]
              ELSE [BeginJob EXCEPT !.entries = Planned.entries,
                                 !.end = AlignUp(Planned.cursor, BlockSize)]
    /\ UNCHANGED <<user, cardRoms, region, listing>>

(* cached_load: the image is streamed against the flash.  The same: done.  *)
(* The card cannot be read and nothing differed: failed.  Otherwise it is  *)
(* written.                                                                *)
StartLaunch(i) ==
    /\ user = "cache" /\ job.at = "idle" /\ job.n < MaxJobs
    /\ i \in 1 .. Len(cardRoms)
    /\ LET rom    == cardRoms[i]
           entry  == [name |-> rom.name, size |-> rom.size, offset |-> 0]
           differ == {k \in 0 .. rom.size - 1 : region[k] # Unit(rom, k)}
           begin  == [BeginJob EXCEPT !.entries = <<entry>>]
       IN  job' \in
             IF rom.size = 0 \/ rom.size > RegionSize
             THEN {[begin EXCEPT !.at = "idle", !.result = "refused"]}
             ELSE {[begin EXCEPT !.at = "idle", !.result = "failed"]} \union
                  IF differ = {} THEN {[begin EXCEPT !.at = "idle", !.result = "ok"]}
                  ELSE {[begin EXCEPT !.end = AlignUp(rom.size, SectorSize)]}
    /\ UNCHANGED <<user, cardRoms, region, listing>>

(* Erasing goes upwards: the directory goes first.                         *)
Erase ==
    /\ job.at = "erase"
    /\ LET n == IF user = "fs" THEN BlockSize ELSE SectorSize
           done == job.from + n >= job.end
       IN  InFlash(Erased(job.from, n), job.from, n,
                   [job EXCEPT !.at = IF ~done THEN "erase"
                                      ELSE IF user = "fs" THEN "header" ELSE "stream",
                               !.from = IF done THEN 0 ELSE @ + n,
                               !.rom = IF done THEN 1 ELSE 0])
    /\ UNCHANGED <<user, cardRoms, listing>>

(* The directory is written before the images.                             *)
HeaderUnits == <<<<"MNES", Len(job.entries)>>>>
                   \o [i \in 1 .. Len(job.entries) |-> <<"entry", job.entries[i]>>]
WriteHeader ==
    /\ job.at = "header"
    /\ LET done == job.from + PageSize >= Len(HeaderUnits)
           page == SubSeq(HeaderUnits, job.from + 1,
                          IF done THEN Len(HeaderUnits) ELSE job.from + PageSize)
       IN  InFlash(Programmed(job.from, page), job.from, Len(page),
                   [job EXCEPT !.at = IF done THEN "stream" ELSE "header",
                               !.from = IF done THEN job.entries[1].offset ELSE @ + PageSize])
    /\ UNCHANGED <<user, cardRoms, listing>>

(* The image comes from the card in pieces, here of a unit, and is written *)
(* page by page; what is left of the last page is flushed.                 *)
Current == job.entries[job.rom]
ReadUnit ==
    /\ job.at = "stream" /\ job.k < Current.size /\ Len(job.page) < PageSize
    /\ job' = [job EXCEPT !.page = Append(@, Unit(Current, job.k)), !.k = @ + 1]
    /\ UNCHANGED <<user, cardRoms, region, listing>>

WritePage ==
    /\ job.at = "stream" /\ job.page # <<>>
    /\ Len(job.page) = PageSize \/ job.k = Current.size
    /\ InFlash(Programmed(job.from, job.page), job.from, Len(job.page),
               [job EXCEPT !.page = <<>>, !.from = @ + PageSize])
    /\ UNCHANGED <<user, cardRoms, listing>>

NextImage ==
    /\ job.at = "stream" /\ job.k = Current.size /\ job.page = <<>>
    /\ IF job.rom < Len(job.entries)
       THEN /\ job' = [job EXCEPT !.rom = @ + 1, !.k = 0,
                                  !.from = job.entries[job.rom + 1].offset]
            /\ listing' = listing
       ELSE /\ job' = Ended("ok")
            /\ listing' = IF user = "fs" THEN Directory ELSE listing
    /\ UNCHANGED <<user, cardRoms, region>>

(* The card cannot be read: the job fails and leaves the flash as it is.   *)
ReadFails ==
    /\ job.at = "stream" /\ job.k < Current.size
    /\ job' = Ended("failed")
    /\ UNCHANGED <<user, cardRoms, region, listing>>

(* rom_source_flash_fs_erase: the sectors of the directory one after the   *)
(* other, which is then read again.                                        *)
EraseDirectory ==
    /\ user = "fs" /\ job.at = "idle" /\ job.n < MaxJobs
    /\ job' = [BeginJob EXCEPT !.at = "clear", !.end = DirSize]
    /\ UNCHANGED <<user, cardRoms, region, listing>>

EraseDirSector ==
    /\ job.at = "clear"
    /\ InFlash(Erased(job.from, SectorSize), job.from, SectorSize,
               IF job.from + SectorSize >= job.end THEN Ended("erased")
               ELSE [job EXCEPT !.from = @ + SectorSize])
    /\ listing' = IF job'.at = "idle" THEN Directory' ELSE listing
    /\ UNCHANGED <<user, cardRoms>>

(* The power comes back: the directory is read.                            *)
PowerOn ==
    /\ job.at = "dark"
    /\ listing' = IF user = "fs" THEN Directory ELSE <<>>
    /\ job' = [job EXCEPT !.at = "idle"]
    /\ UNCHANGED <<user, cardRoms, region>>

ChangeRoms ==
    /\ job.at = "idle" /\ job.n < MaxJobs
    /\ cardRoms' \in Cards \ {cardRoms}
    /\ job' = Ended("changed")
    /\ UNCHANGED <<user, region, listing>>

----------------------------------------------------------------------------
FlashInit ==
    /\ user \in Users /\ cardRoms \in Cards
    /\ region \in {[u \in Units |-> FF], [u \in Units |-> Junk]}
    /\ listing = <<>>
    /\ job = [n |-> 0, result |-> "none", at |-> "idle", from |-> 0, end |-> 0,
              entries |-> <<>>, rom |-> 0, k |-> 0, page |-> <<>>]

FlashNext ==
    \/ StartCopy \/ \E i \in 1..2 : StartLaunch(i)
    \/ Erase \/ WriteHeader \/ ReadUnit \/ WritePage \/ NextImage \/ ReadFails
    \/ EraseDirectory \/ EraseDirSector \/ PowerOn \/ ChangeRoms

----------------------------------------------------------------------------
(* A copy or a launch that reports success has left every image it was     *)
(* asked for, unit by unit; and whenever the directory is valid, also      *)
(* after power has failed in the middle of a copy, an entry of it is still *)
(* erased, or it names a place behind the directory and inside the region  *)
(* that holds its own data or none: never what another image left there.   *)
ImagesAreOwn ==
    /\ job.at = "idle" /\ job.result = "ok" =>
         /\ user = "fs" => Directory = job.entries /\ listing = job.entries
         /\ \A i \in 1 .. Len(job.entries) : \A k \in 0 .. job.entries[i].size - 1 :
              region[job.entries[i].offset + k] = Unit(job.entries[i], k)
    /\ user = "fs" /\ HeaderValid =>
         \A i \in 1 .. Len(Directory) :
           LET e == Directory[i]
           IN  \/ e = NoEntry
               \/ /\ e.offset >= DirSize /\ e.offset + e.size <= RegionSize
                  /\ \A k \in 0 .. e.size - 1 : region[e.offset + k] \in {FF, Unit(e, k)}
=============================================================================
