----------------------------- MODULE MCStorage -----------------------------
(***************************************************************************)
(* The parts around stored files for TLC: the stores of saved states, the  *)
(* driver of the SD card, the ROMs in flash, the loading of a cartridge,   *)
(* and the ROMs of a card.  A behaviour is of one of them.                 *)
(***************************************************************************)
EXTENDS SaveStateStore, SdSpi, FlashRoms, SdListing

VARIABLE part

(* SaveStateStore: two ROMs whose names share their first eight characters *)
(* and with them a directory, which has three slots, one more than a       *)
(* listing has room for.                                                   *)
MCRoms == {"zelda1", "zelda2"}
MCDirs == {"ZELDA"}
MCDirOf == [r \in MCRoms |-> "ZELDA"]
MCGames == {"g"}
MCSlots == 1 .. 3
Both == {"sd", "posix"}
OneFault == [sd |-> 1, posix |-> 1]
NoFaults == [sd |-> 0, posix |-> 0]

SavesRest ==
    /\ Init
    /\ disk.backend = "sd" /\ blob.rom = "zelda1"

(* SdSpi: a card of each kind, two blocks, two things they may hold.       *)
MCKinds == {"none", "v1", "sc", "hc"}
MCLbas == {0, 1}
MCValues == {"a", "b"}
SdRest == SdInit /\ card.kind = "none" /\ card.blocklen = 2 /\ \A l \in MCLbas : card.blocks[l] = "a"

(* FlashRoms: a card of which everything fits, in a directory of two pages *)
(* and with the last image in half a block; one with more ROMs than the    *)
(* directory has room for and an empty file; and one with an image that    *)
(* does not fit.                                                           *)
Rom(name, size) == [name |-> name, size |-> size]
MCCards == {<<Rom("a", 3), Rom("b", 3), Rom("i", 1)>>,
            <<Rom("c", 7), Rom("e", 0), Rom("d", 2), Rom("f", 2)>>,
            <<Rom("g", 5), Rom("h", 9), Rom("d", 2)>>}
MCUsers == {"fs", "cache"}
FlashRest == FlashInit /\ user = "fs" /\ cardRoms[1].name = "a" /\ \A u \in Units : region[u] = FF

(* CartLoad: ROMs that are taken, of mappers with two, three and four kinds*)
(* of pointers, with and without CHR RAM, small and large; and one for     *)
(* each reason to refuse it.                                               *)
INes == [nes |-> TRUE, nes2 |-> FALSE, mapper |-> 0, mapperHigh |-> 0, submapper |-> 0,
         four |-> FALSE, battery |-> FALSE, prg |-> 1, prgHigh |-> 0, chr |-> 1, chrHigh |-> 0,
         whole |-> TRUE]
Nes2 == [INes EXCEPT !.nes2 = TRUE, !.mapper = 1]
MCImages ==
    {INes, [INes EXCEPT !.mapper = 40, !.prg = 4, !.battery = TRUE],
     [INes EXCEPT !.mapper = 40, !.chr = 0],
     [INes EXCEPT !.mapper = 4, !.prg = 2, !.chr = 0],
     [INes EXCEPT !.mapper = 1, !.mapperHigh = 4, !.chr = 2],
     [INes EXCEPT !.mapper = 9, !.chrHigh = 3, !.prgHigh = 15],
     [Nes2 EXCEPT !.submapper = 5, !.battery = TRUE],
     [INes EXCEPT !.nes = FALSE], [INes EXCEPT !.prg = 3], [INes EXCEPT !.whole = FALSE],
     [INes EXCEPT !.mapper = 5], [INes EXCEPT !.mapper = 66, !.four = TRUE],
     [Nes2 EXCEPT !.submapper = 3], [Nes2 EXCEPT !.mapperHigh = 1],
     [Nes2 EXCEPT !.prgHigh = 15], [Nes2 EXCEPT !.chrHigh = 1]}
MCPlatforms == {"host", "device"}
CartRest == CartInit /\ platform = "host" /\ load.rom = INes

(* SdListing: a card without a partition table, whose root takes three     *)
(* clusters and whose files lie scattered; one whose root fills its only   *)
(* cluster, behind a partition that is broken; one with more ROMs than are *)
(* listed, a chain that is too short, and a "roms" that is nowhere; and    *)
(* one that holds no volume.                                               *)
Piece(k, chunk, ends) == [kind |-> "lfn", order |-> k, chunk |-> chunk, last |-> ends]
Gone == [kind |-> "deleted"]
Label == [kind |-> "volume"]
File(short, first, size, header) ==
    [kind |-> "file", short |-> short, first |-> first, size |-> size, header |-> header]
Dir(short, first) == [kind |-> "dir", short |-> short, first |-> first]
Others == <<"other", "other", "other", "other">>
MCVolumes ==
    {[boot |-> "volume", parts |-> Others, perCluster |-> 1, root |-> 2,
      fat |-> 2 :> 5 @@ 5 :> 9 @@ 9 :> EOF @@ 3 :> EOF @@ 4 :> 8 @@ 8 :> 6 @@ 6 :> EOF @@ 7 :> EOF,
      dir |-> 2 :> <<<<Label, Piece(2, 51, TRUE), Piece(1, 9, FALSE), File(90, 4, 9, INes)>>>>
           @@ 5 :> <<<<Piece(1, 53, TRUE), Gone, File(60, 7, 1, INes), Dir(7, 3)>>>>
           @@ 9 :> <<<<SlotEnd>>>>
           @@ 3 :> <<<<Dir(1, 3), File(55, 0, 0, INes), SlotEnd>>>>],
     [boot |-> "other", parts |-> [Others EXCEPT ![1] = "broken", ![3] = "fat32"],
      perCluster |-> 2, root |-> 4, fat |-> 4 :> EOF @@ 5 :> 3 @@ 3 :> EOF @@ 6 :> EOF,
      dir |-> 4 :> <<<<File(70, 5, 13, [INes EXCEPT !.mapper = 40]), Piece(3, 52, TRUE), Piece(2, 2, FALSE)>>,
                     <<Piece(1, 1, FALSE), File(91, 6, 9, Nes2), Piece(1, 54, TRUE), File(8, 6, 2, INes)>>>>],
     [boot |-> "other", parts |-> [Others EXCEPT ![1] = "fat32"], perCluster |-> 1, root |-> 2,
      fat |-> [c \in 2 .. 4 |-> EOF],
      dir |-> 2 :> <<<<File(53, 3, 4, INes), File(52, 4, 5, INes), Dir(7, 0),
                       File(51, 3, 2, [INes EXCEPT !.nes = FALSE]), File(50, 4, 1, INes), SlotEnd>>>>],
     [boot |-> "unsigned", parts |-> Others, perCluster |-> 1, root |-> 2, fat |-> 2 :> EOF,
      dir |-> 2 :> <<<<SlotEnd>>>>]}
MCNesChunks == 50 .. 99
MCRomsName == <<7>>
ListingRest == ListingInit /\ vol.boot = "unsigned"

StorageInit ==
    \/ part = "saves" /\ Init /\ SdRest /\ FlashRest /\ CartRest /\ ListingRest
    \/ part = "card"  /\ SavesRest /\ SdInit /\ FlashRest /\ CartRest /\ ListingRest
    \/ part = "flash" /\ SavesRest /\ SdRest /\ FlashInit /\ CartRest /\ ListingRest
    \/ part = "cart"  /\ SavesRest /\ SdRest /\ FlashRest /\ CartInit /\ ListingRest
    \/ part = "list"  /\ SavesRest /\ SdRest /\ FlashRest /\ CartRest /\ ListingInit
StorageNext ==
    /\ \/ part = "saves" /\ Next        /\ UNCHANGED <<sdVars, flashVars, cartVars, listingVars>>
       \/ part = "card"  /\ SdNext      /\ UNCHANGED <<vars, flashVars, cartVars, listingVars>>
       \/ part = "flash" /\ FlashNext   /\ UNCHANGED <<vars, sdVars, cartVars, listingVars>>
       \/ part = "cart"  /\ CartNext    /\ UNCHANGED <<vars, sdVars, flashVars, listingVars>>
       \/ part = "list"  /\ ListingNext /\ UNCHANGED <<vars, sdVars, flashVars, cartVars>>
    /\ part' = part
StorageSpec == StorageInit /\ [][StorageNext]_<<part, vars, sdVars, flashVars, cartVars, listingVars>>

-----------------------------------------------------------------------------
(* The ROMs of a card are listed as the card has them, whatever of it can  *)
(* be read, and delivered whole; and a ROM that loads as a cartridge was   *)
(* listed as what the cartridge is.                                        *)
RomsAsOnCard == ListingOK /\ ListedAsLoaded
=============================================================================
