------------------------------ MODULE CartLoad ------------------------------
(***************************************************************************)
(* Loading a cartridge: the iNES header, read by the cartridge             *)
(* (src/common/cart.c) and by the two listings of ROMs (rom_source_sd.c,   *)
(* rom_source_posix.c); and the memory a cartridge holds, points into and  *)
(* gives back, when any of its allocations may fail.                       *)
(*                                                                         *)
(* A block of memory is named for what it is allocated for.  A pointer is  *)
(* the block it points into, None, or Caller: the image of the caller,     *)
(* which stays until the cartridge is unloaded.                            *)
(***************************************************************************)
EXTENDS Integers, FiniteSets

CONSTANTS Images,         \* the headers, see Listed; whole: the image holds what they announce
          Platforms,    \* a subset of {"host", "device"}
          PrgCopyMax,   \* MICRONES_PICO_PRG_SRAM_COPY_MAX, in banks
          RowCacheMax,  \* MICRONES_CHR_ROW_CACHE_MAX_BYTES, in banks
          MaxLoads      \* bound: the loads of a behaviour

ASSUME CartAssumption ==
    /\ Platforms \subseteq {"host", "device"}
    /\ PrgCopyMax \in Nat /\ RowCacheMax \in Nat /\ MaxLoads \in Nat

VARIABLES platform, \* "device" copies PRG ROM into RAM
          cart,     \* the NesCartridge struct
          heap,     \* live: the blocks allocated; twice: one was freed that is not
          load      \* the last load: its ROM and how it went; n: the loads so far
cartVars == <<platform, cart, heap, load>>

None == "none"
Caller == "caller"

----------------------------------------------------------------------------
(* The header.                                                             *)
MapperOf(h) == h.mapper + IF h.nes2 THEN 256 * h.mapperHigh ELSE 0
PrgBanks(h) == h.prg + IF h.nes2 THEN 256 * h.prgHigh ELSE 0
ChrBanks(h) == h.chr + IF h.nes2 THEN 256 * h.chrHigh ELSE 0
Supported == {0, 1, 2, 3, 4, 7, 9, 11, 40, 66}

(* Mutant of Listed: the high digits are read as if every ROM had them.    *)
ListedBlind(h) ==
    IF ~h.nes THEN [mapper |-> 65535, supported |-> FALSE, battery |-> FALSE, prg |-> 0, chr |-> 0]
    ELSE [mapper |-> h.mapper + 256 * h.mapperHigh,
          supported |-> h.mapper + 256 * h.mapperHigh \in Supported,
          battery |-> h.battery, prg |-> PrgBanks(h), chr |-> ChrBanks(h)]

(* parse_ines_header of the two listings.                                  *)
Listed(h) ==
    IF ~h.nes THEN [mapper |-> 65535, supported |-> FALSE, battery |-> FALSE, prg |-> 0, chr |-> 0]
    ELSE [mapper |-> MapperOf(h), supported |-> MapperOf(h) \in Supported,
          battery |-> h.battery, prg |-> PrgBanks(h), chr |-> ChrBanks(h)]

Unloaded == [mapper |-> 0, battery |-> FALSE, prgBanks |-> 0, chrBanks |-> 0, image |-> None,
             prg |-> None, chr |-> None, chrRam |-> FALSE, rows |-> None, windows |-> <<>>]

(* cart_parse_ines_image as far as the header goes: whether the ROM is     *)
(* taken, and what a cartridge that refuses it is left with.               *)
TakesMapper(h) ==
    /\ MapperOf(h) \in Supported
    /\ h.nes2 /\ MapperOf(h) = 1 => h.submapper \in {0, 5}
TakesBanks(h) ==
    /\ ~h.four
    /\ h.nes2 => h.prgHigh # 15 /\ h.chrHigh # 15
    /\ PrgBanks(h) <= 255 /\ ChrBanks(h) <= 255
Takes(h) == /\ h.nes /\ TakesMapper(h) /\ TakesBanks(h)
            /\ MapperOf(h) = 0 => PrgBanks(h) \in {1, 2}
            /\ h.whole
Header(h) ==
    IF ~h.nes THEN Unloaded
    ELSE IF MapperOf(h) > 255 THEN [Unloaded EXCEPT !.battery = h.battery]
    ELSE LET c == [Unloaded EXCEPT !.battery = h.battery, !.mapper = MapperOf(h)]
         IN  IF ~TakesMapper(h) \/ ~TakesBanks(h) THEN c
             ELSE [c EXCEPT !.prgBanks = PrgBanks(h), !.chrBanks = ChrBanks(h)]

----------------------------------------------------------------------------
(* Memory.                                                                 *)
Free(hp, b) == IF b = None THEN hp
               ELSE [live |-> hp.live \ {b}, twice |-> hp.twice \/ b \notin hp.live]
Allocate(hp, b) == [hp EXCEPT !.live = @ \union {b}]

(* cart_unload *)
Unload(s) ==
    [cart |-> Unloaded,
     heap |-> Free(Free(Free(s.heap, s.cart.rows), IF s.cart.chrRam THEN s.cart.chr ELSE None),
                   s.cart.image)]

(* The pointers to banks that the mapper sets up, all into PRG ROM.        *)
BankWindows(mapper, b) ==
    [w \in {"low", "high"} \union (IF mapper \in {4, 9, 40} THEN {"banks8k"} ELSE {})
                           \union (IF mapper = 40 THEN {"at6000"} ELSE {}) |-> b]

(* The rest of cart_parse_ines_image: CHR RAM for a cartridge without CHR  *)
(* ROM, the bank pointers, and the rows of the patterns; refuses is the    *)
(* set of allocations that fail.                                           *)
Parse(h, b, own, hp, refuses) ==
    LET c1 == [Header(h) EXCEPT !.image = IF own THEN b ELSE None, !.prg = b]
        ram == c1.chrBanks = 0
        c2 == [c1 EXCEPT !.chrRam = ram, !.chrBanks = IF ram THEN 1 ELSE @,
                         !.chr = IF ~ram THEN b ELSE IF "chr" \in refuses THEN None ELSE "chr"]
        s2 == [cart |-> c2, heap |-> IF c2.chr = "chr" THEN Allocate(hp, "chr") ELSE hp]
        s3 == [s2 EXCEPT !.cart.windows = BankWindows(c2.mapper, b)]
        s4 == [s3 EXCEPT !.cart.rows = "rows", !.heap = Allocate(@, "rows")]
    IN  IF ~Takes(h) THEN [ok |-> FALSE, s |-> [cart |-> Header(h), heap |-> hp]]
        ELSE IF c2.chr = None THEN [ok |-> FALSE, s |-> Unload(s2)]
        ELSE IF c2.chrBanks > RowCacheMax THEN [ok |-> TRUE, s |-> s3]
        ELSE IF "rows" \in refuses THEN [ok |-> FALSE, s |-> Unload(s3)]
        ELSE [ok |-> TRUE, s |-> s4]

(* Mutant of Rebased: the fifth window of mapper 40 is forgotten.          *)
RebasedLate(c) ==
    [w \in DOMAIN c.windows |->
       IF w \in {"low", "high"} \/ (w = "banks8k" /\ c.mapper \in {4, 9, 40}) THEN "prg"
       ELSE c.windows[w]]

(* The bank pointers after PRG ROM was copied.                             *)
Rebased(c) ==
    [w \in DOMAIN c.windows |->
       IF \/ w \in {"low", "high"}
          \/ w = "banks8k" /\ c.mapper \in {4, 9, 40}
          \/ w = "at6000" /\ c.mapper = 40 THEN "prg"
       ELSE c.windows[w]]

----------------------------------------------------------------------------
(* The calls; the behaviour ends where a block is freed twice.             *)
Ready == load.n < MaxLoads /\ ~heap.twice
Returns(h, how, ok) == load' = [n |-> load.n + 1, rom |-> h, how |-> how, ok |-> ok]
Becomes(s) == cart' = s.cart /\ heap' = s.heap

(* cart_load_ines_file and cart_load_ines_memory: the image is copied into *)
(* a block of its own, which the caller of the parser frees when it fails. *)
LoadOwned(h, refuses) ==
    /\ Ready
    /\ LET u == Unload([cart |-> cart, heap |-> heap])
           p == Parse(h, "image", TRUE, Allocate(u.heap, "image"), refuses)
       IN  IF "image" \in refuses THEN Becomes(u) /\ Returns(h, "owned", FALSE)
           ELSE IF p.ok THEN Becomes(p.s) /\ Returns(h, "owned", TRUE)
           ELSE /\ cart' = p.s.cart /\ heap' = Free(p.s.heap, "image")
                /\ Returns(h, "owned", FALSE)
    /\ UNCHANGED platform

(* cart_load_ines_const_memory: everything points into the caller's image; *)
(* on a device PRG ROM is copied, if it is small enough and there is room. *)
LoadConst(h, refuses) ==
    /\ Ready
    /\ LET u == Unload([cart |-> cart, heap |-> heap])
           p == Parse(h, Caller, FALSE, u.heap, refuses)
           copies == /\ platform = "device" /\ p.ok
                     /\ p.s.cart.prgBanks <= PrgCopyMax /\ "prg" \notin refuses
       IN  /\ IF copies
              THEN Becomes([cart |-> [p.s.cart EXCEPT !.prg = "prg", !.image = "prg",
                                                      !.windows = Rebased(p.s.cart)],
                            heap |-> Allocate(p.s.heap, "prg")])
              ELSE Becomes(p.s)
           /\ Returns(h, "const", p.ok)
    /\ UNCHANGED platform

Destroy ==
    /\ Ready
    /\ Becomes(Unload([cart |-> cart, heap |-> heap]))
    /\ load' = [load EXCEPT !.n = @ + 1, !.ok = FALSE]
    /\ UNCHANGED platform

CartInit ==
    /\ platform \in Platforms
    /\ cart = Unloaded
    /\ heap = [live |-> {}, twice |-> FALSE]
    /\ \E h \in Images : load = [n |-> 0, rom |-> h, how |-> None, ok |-> FALSE]

CartNext ==
    \/ \E h \in Images : \/ \E r \in SUBSET {"image", "chr", "rows"} : LoadOwned(h, r)
                         \/ \E r \in SUBSET {"chr", "rows", "prg"} : LoadConst(h, r)
    \/ Destroy

----------------------------------------------------------------------------
(* Whatever was refused on the way, between two calls the cartridge owns   *)
(* every block that is allocated, and points into these and the caller's   *)
(* image only; and all its bank pointers are into the PRG ROM it has now,  *)
(* copied or not.                                                          *)
PointersLive ==
    ~heap.twice =>
      /\ heap.live = {cart.image, cart.rows, IF cart.chrRam THEN cart.chr ELSE None} \ {None}
      /\ {cart.prg, cart.chr} \subseteq heap.live \union {Caller, None}
      /\ load.ok <=> cart.prg # None
      /\ \A w \in DOMAIN cart.windows : cart.windows[w] = cart.prg

(* A ROM that loads is listed as supported, and the listings tell of it    *)
(* what the cartridge does: three parsers of the same header agree.        *)
ListedAsLoaded ==
    load.ok => LET l == Listed(load.rom)
               IN  /\ l.supported /\ l.mapper = cart.mapper /\ l.battery = cart.battery
                   /\ l.prg = cart.prgBanks
                   /\ l.chr = IF cart.chrRam THEN 0 ELSE cart.chrBanks

(* No block is freed twice.                                                *)
FreedOnce == ~heap.twice
=============================================================================
