--------------------------------- MODULE Bus ---------------------------------
(***************************************************************************)
(* What the processor sees: nes_cpu_bus_read_fast, nes_cpu_bus_write_fast  *)
(* and the cache of bank pointers in src/common/nes.h, with the            *)
(* controllers of src/common/input.c.                                      *)
(*                                                                         *)
(* The console m holds the cartridge's pointers a second time, lo and hi,  *)
(* with the number of banks that mirror each other (mask, 0 if none do).   *)
(* A ROM is a record: its header, its bytes (data) and what the bytes      *)
(* mean as instructions (code), both by bank and offset, and the bytes of  *)
(* buttons that its player presses.                                        *)
(***************************************************************************)
EXTENDS Ppu

CONSTANT Roms   \* function from the names of ROMs to ROMs

\* nes_sync_prg_cache.
Sync(m) ==
  [m EXCEPT !.lo = m.cart.lo, !.hi = m.cart.hi,
            !.mask = IF m.cart.mapper = 0 THEN m.cart.size ELSE 0]

\* The bank and offset that an address of the ROM is read from.
Locate(m, addr) ==
  LET slot == (addr - 32768) \div 8192
      bank == CASE m.mask > 0 -> m.lo + (slot % m.mask)
                [] m.mask = 0 /\ Eights(m.cart) -> m.cart.win8[slot + 1]
                [] OTHER -> IF slot < 2 THEN m.lo + slot ELSE m.hi + (slot - 2)
  IN  <<bank, addr % 8192>>

RomByte(m, place) == At(Roms[m.rom].data, place)

-----------------------------------------------------------------------------
(* The controllers, 1 and 2: eight buttons in a byte each. *)

Released == [live |-> 0, shift |-> 0, strobe |-> FALSE]

PadSet(pad, buttons) ==
  [pad EXCEPT !.live = buttons, !.shift = IF pad.strobe THEN buttons ELSE @]

PadStrobe(pad, v) ==
  [pad EXCEPT !.shift = IF v % 2 = 1 \/ pad.strobe THEN pad.live ELSE @,
              !.strobe = v % 2 = 1]

PadReset(pad) == [pad EXCEPT !.shift = pad.live, !.strobe = FALSE]

(* Mutant: zeros follow the eight buttons.                                 *)
PadShiftedIn0(pad) == IF pad.strobe THEN pad ELSE [pad EXCEPT !.shift = @ \div 2]

PadShifted(pad) == IF pad.strobe THEN pad ELSE [pad EXCEPT !.shift = 128 + (@ \div 2)]

PadValue(pad) == 64 + ((IF pad.strobe THEN pad.live ELSE pad.shift) % 2)

-----------------------------------------------------------------------------
\* The audio registers ($4000-$4017) are not modelled: writes are lost.
BusRead(m, addr) ==
  CASE addr >= 32768 -> Result(m, RomByte(m, Locate(m, addr)))
    [] addr < 8192 -> Result(m, At(m.ram, addr % 2048))
    [] 8192 <= addr /\ addr < 16384 -> PpuRead(m, addr % 8)
    [] addr \in {16406, 16407} ->
         LET n == addr - 16405
         IN  Result([m EXCEPT !.pads[n] = PadShifted(@)], PadValue(m.pads[n]))
    [] 24576 <= addr /\ addr < 32768 ->
         Result(m, IF m.cart.mapper = 40 THEN RomByte(m, <<m.cart.low, addr % 8192>>)
                   ELSE At(m.wram, addr % 8192))
    [] OTHER -> Result(m, 0)

\* A page copied to the sprites, from the sprite address on.  That reading a
\* page of registers would change them is left out: no program copies one.
CopySprites(m, page) ==
  LET NonZero(f) == [k \in {k \in DOMAIN f : f[k] # 0} |-> f[k]]
  IN  [m EXCEPT !.ppu.oam =
         NonZero([k \in Byte |-> BusRead(m, (256 * page) + ((k - m.ppu.oamAddr) % 256)).v])]

(* Mutant: the write that switches banks leaves the cached pointers.       *)
MapperWriteNoSync(m, addr, v) == [m EXCEPT !.cart = CartWrite(@, addr, v)]

MapperWrite(m, addr, v) ==
  LET Synced(written) == IF m.cart.mapper \in {0, 3} THEN written ELSE Sync(written)
  IN  Synced([m EXCEPT !.cart = CartWrite(@, addr, v)])

BusWrite(m, addr, v) ==
  CASE addr < 8192 -> [m EXCEPT !.ram = Put(@, addr % 2048, v)]
    [] 8192 <= addr /\ addr < 16384 -> PpuWrite(m, addr % 8, v)
    [] addr = 16404 -> CopySprites(m, v)
    [] addr = 16406 -> [m EXCEPT !.pads = [n \in 1 .. 2 |-> PadStrobe(@[n], v)]]
    [] 24576 <= addr /\ addr < 32768 -> [m EXCEPT !.wram = Put(@, addr % 8192, v)]
    [] addr >= 32768 -> MapperWrite(m, addr, v)
    [] OTHER -> m
=============================================================================
