------------------------------ MODULE Mappers ------------------------------
(***************************************************************************)
(* The cartridges of src/common: what each mapper maps where, and its      *)
(* interrupts.  A cartridge is a record; the ROM itself is its size.       *)
(*                                                                         *)
(* Pointers into PRG ROM are numbers of 8 KiB banks: lo and hi begin the   *)
(* windows of 16 KiB at $8000 and $C000, win8 are the four windows of      *)
(* 8 KiB that mappers 4, 9 and 40 use instead, low that of mapper 40 at    *)
(* $6000.  CHR addresses are numbers of 1 KiB banks.                       *)
(***************************************************************************)
EXTENDS Integers

CONSTANT Period   \* MAPPER40_IRQ_PERIOD (4096)

Bit(v, n) == (v \div 2^n) % 2
Field(v, n, width) == (v \div 2^n) % 2^width
Byte == 0 .. 255

Eights(cart) == cart.mapper \in {4, 9, 40}
FromEnd(cart, n) == (cart.size - 1 - n) % cart.size
LoHi(cart, lo, hi) == [cart EXCEPT !.lo = lo, !.hi = hi]

Within(bank, width, size) == IF bank + width > size THEN bank % size ELSE bank

\* A cartridge whose image has been parsed and no mapper set up.
Parsed(rom) ==
  [mapper |-> rom.mapper, size |-> rom.size, chrSize |-> rom.chrSize,
   chrRam |-> rom.chrRam, mirror |-> rom.mirror,
   lo |-> 0, hi |-> 0, win8 |-> <<0, 0, 0, 0>>, low |-> 0, irq |-> FALSE,
   shift |-> 0, shifted |-> 0, control |-> 0, chr0 |-> 0, chr1 |-> 0, prg |-> 0,
   select |-> 0, data |-> <<0, 0, 0, 0, 0, 0, 0, 0>>,
   latch |-> 0, counter |-> 0, reload |-> FALSE, enabled |-> FALSE,
   chrBank |-> 0,
   fd0 |-> 0, fe0 |-> 0, fd1 |-> 0, fe1 |-> 0, latch0 |-> FALSE, latch1 |-> FALSE,
   ticking |-> FALSE, ticks |-> 0]

-----------------------------------------------------------------------------
(* MMC1 (mapper 1). *)

Mmc1Banks(cart) ==
  LET mode == Field(cart.control, 2, 2)
      bank == Field(cart.prg, 0, 4)
  IN  CASE mode \in {0, 1} -> LoHi(cart, 4 * (bank \div 2), 4 * (bank \div 2) + 2)
        [] mode = 2 -> LoHi(cart, 0, 2 * bank)
        [] OTHER -> LoHi(cart, 2 * bank, cart.size - 2)

Mmc1Init(cart) ==
  Mmc1Banks([cart EXCEPT !.shift = 0, !.shifted = 0, !.control = 12,
                         !.chr0 = 0, !.chr1 = 0, !.prg = 0])

Mirrors == <<"lower", "upper", "vertical", "horizontal">>

Mmc1Commit(cart, addr, v) ==
  LET c == [cart EXCEPT !.shift = 0, !.shifted = 0]
      reg == Field(addr, 13, 2)
  IN  CASE reg = 0 -> Mmc1Banks([c EXCEPT !.control = v, !.mirror = Mirrors[1 + (v % 4)]])
        [] reg = 1 -> [c EXCEPT !.chr0 = v]
        [] reg = 2 -> [c EXCEPT !.chr1 = v]
        [] OTHER -> Mmc1Banks([c EXCEPT !.prg = v])

Mmc1Write(cart, addr, v) ==
  LET shift == cart.shift + (v % 2) * 2^cart.shifted
  IN  IF Bit(v, 7) = 1
      THEN Mmc1Banks([cart EXCEPT !.shift = 0, !.shifted = 0,
             !.control = (@ % 4) + 12 + (16 * Bit(@, 4))])
      ELSE IF cart.shifted < 4
      THEN [cart EXCEPT !.shift = shift, !.shifted = @ + 1]
      ELSE Mmc1Commit(cart, addr, shift)

-----------------------------------------------------------------------------
(* MMC3 (mapper 4). *)

Mmc3Banks(cart) ==
  LET six == cart.data[7] % cart.size
      seven == cart.data[8] % cart.size
      second == cart.size - 2
      w == IF Bit(cart.select, 6) = 0
           THEN <<six, seven, second, cart.size - 1>>
           ELSE <<second, seven, six, cart.size - 1>>
  IN  LoHi([cart EXCEPT !.win8 = w], w[1], w[3])

Mmc3Init(cart) ==
  Mmc3Banks([cart EXCEPT !.select = 0, !.latch = 0, !.counter = 0, !.reload = FALSE,
               !.enabled = FALSE, !.irq = FALSE, !.data = <<0, 2, 4, 5, 6, 7, 0, 1>>])

Mmc3Write(cart, addr, v) ==
  LET reg == <<Field(addr, 13, 2), addr % 2>>
  IN  CASE reg = <<0, 0>> -> Mmc3Banks([cart EXCEPT !.select = v])
        [] reg = <<0, 1>> -> Mmc3Banks([cart EXCEPT !.data[1 + (cart.select % 8)] = v])
        [] reg = <<1, 0>> -> [cart EXCEPT !.mirror = IF v % 2 = 1 THEN "horizontal" ELSE "vertical"]
        [] reg = <<1, 1>> -> cart
        [] reg = <<2, 0>> -> [cart EXCEPT !.latch = v]
        [] reg = <<2, 1>> -> [cart EXCEPT !.counter = 0, !.reload = TRUE]
        [] reg = <<3, 0>> -> [cart EXCEPT !.enabled = FALSE, !.irq = FALSE]
        [] OTHER -> [cart EXCEPT !.enabled = TRUE]

(* Mutant: the line that reloads the counter also counts.                  *)
Mmc3TickEarly(cart) ==
  LET count == IF cart.counter = 0 \/ cart.reload
               THEN IF cart.latch = 0 THEN 0 ELSE cart.latch - 1
               ELSE cart.counter - 1
  IN  [cart EXCEPT !.counter = count, !.reload = FALSE,
         !.irq = @ \/ (count = 0 /\ cart.enabled)]

Mmc3Tick(cart) ==
  LET count == IF cart.counter = 0 \/ cart.reload THEN cart.latch ELSE cart.counter - 1
  IN  [cart EXCEPT !.counter = count, !.reload = FALSE,
         !.irq = @ \/ (count = 0 /\ cart.enabled)]

-----------------------------------------------------------------------------
(* MMC2 (mapper 9) and the pirate board of mapper 40. *)

Mmc2Init(cart) ==
  LET w == <<0, cart.size - 3, cart.size - 2, cart.size - 1>>
  IN  LoHi([cart EXCEPT !.fd0 = 0, !.fe0 = 0, !.fd1 = 0, !.fe1 = 0,
              !.latch0 = TRUE, !.latch1 = TRUE, !.win8 = w], w[1], w[3])

Mmc2Write(cart, addr, v) ==
  LET reg == Field(addr, 12, 4)
      bank == Within(v % 16, 1, cart.size)
  IN  CASE reg = 10 -> [cart EXCEPT !.win8[1] = bank, !.lo = bank]
        [] reg = 11 -> [cart EXCEPT !.fd0 = v % 32]
        [] reg = 12 -> [cart EXCEPT !.fe0 = v % 32]
        [] reg = 13 -> [cart EXCEPT !.fd1 = v % 32]
        [] reg = 14 -> [cart EXCEPT !.fe1 = v % 32]
        [] reg = 15 -> [cart EXCEPT !.mirror = IF v % 2 = 1 THEN "horizontal" ELSE "vertical"]
        [] OTHER -> cart

Mmc2Latch(cart, addr) ==
  LET tile == Field(addr, 4, 8)
      known == tile \in {253, 254}
  IN  IF addr < 4096
      THEN [cart EXCEPT !.latch0 = IF known THEN tile = 253 ELSE @]
      ELSE [cart EXCEPT !.latch1 = IF known THEN tile = 253 ELSE @]

Mapper40Init(cart) ==
  LET w == <<FromEnd(cart, 3), FromEnd(cart, 2), 0, FromEnd(cart, 0)>>
  IN  LoHi([cart EXCEPT !.ticking = FALSE, !.ticks = 0, !.irq = FALSE,
              !.low = FromEnd(cart, 1), !.win8 = w], w[1], w[3])

Mapper40Write(cart, addr, v) ==
  LET reg == Field(addr, 13, 2)
      bank == (v % 8) % cart.size
  IN  CASE reg = 0 -> [cart EXCEPT !.ticking = FALSE, !.irq = FALSE, !.ticks = 0]
        [] reg = 1 -> [cart EXCEPT !.ticking = TRUE, !.ticks = 0]
        [] reg = 3 -> [cart EXCEPT !.win8[3] = bank, !.hi = bank]
        [] OTHER -> cart

\* The interrupt leaves the count where it is and stops counting.
Mapper40Tick(cart, cycles) ==
  IF ~cart.ticking THEN cart
  ELSE [cart EXCEPT !.ticks = @ + cycles,
          !.irq = @ \/ cart.ticks + cycles >= Period,
          !.ticking = cart.ticks + cycles < Period]

-----------------------------------------------------------------------------
(* The mappers without registers of their own. *)

UxromWrite(cart, v) == [cart EXCEPT !.lo = Within(2 * (v % 16), 2, cart.size)]

CnromWrite(cart, v) ==
  IF cart.chrSize >= 8 THEN [cart EXCEPT !.chrBank = v % (cart.chrSize \div 8)] ELSE cart

AxromBanks(cart, bank) ==
  LET b == Within(4 * (bank % 8), 4, cart.size) IN LoHi(cart, b, b + 2)

AxromWrite(cart, v) ==
  [AxromBanks(cart, v) EXCEPT !.mirror = IF Bit(v, 4) = 1 THEN "upper" ELSE "lower"]

\* ColorDreams and GxROM: banks of 32 KiB of PRG and 8 KiB of CHR.
PairWrite(cart, prg, chr) ==
  LET b == Within(4 * prg, 4, cart.size) IN LoHi([cart EXCEPT !.chrBank = chr], b, b + 2)

-----------------------------------------------------------------------------
CartInit(cart) ==
  CASE cart.mapper \in {0, 3} -> LoHi(cart, 0, IF cart.size = 2 THEN 0 ELSE 2)
    [] cart.mapper = 1 -> Mmc1Init(cart)
    [] cart.mapper = 2 -> LoHi(cart, 0, cart.size - 2)
    [] cart.mapper = 4 -> Mmc3Init(cart)
    [] cart.mapper = 7 -> [AxromBanks(cart, 0) EXCEPT !.mirror = "lower"]
    [] cart.mapper = 9 -> Mmc2Init(cart)
    [] cart.mapper \in {11, 66} -> LoHi(cart, 0, 2)
    [] cart.mapper = 40 -> Mapper40Init(cart)

\* A write to $8000-$FFFF.
CartWrite(cart, addr, v) ==
  CASE cart.mapper = 0 -> cart
    [] cart.mapper = 1 -> Mmc1Write(cart, addr, v)
    [] cart.mapper = 2 -> UxromWrite(cart, v)
    [] cart.mapper = 3 -> CnromWrite(cart, v)
    [] cart.mapper = 4 -> Mmc3Write(cart, addr, v)
    [] cart.mapper = 7 -> AxromWrite(cart, v)
    [] cart.mapper = 9 -> Mmc2Write(cart, addr, v)
    [] cart.mapper = 11 -> PairWrite(cart, v % 4, Field(v, 4, 4))
    [] cart.mapper = 40 -> Mapper40Write(cart, addr, v)
    [] cart.mapper = 66 -> PairWrite(cart, Field(v, 4, 2), v % 4)

\* The mappers that nes_reset sets up again.
CartReset(cart) ==
  CASE cart.mapper = 1 -> Mmc1Init(cart)
    [] cart.mapper = 4 -> Mmc3Init(cart)
    [] OTHER -> cart

\* The bank of 1 KiB that a pattern address is read from.
ChrBankOf(cart, addr) ==
  LET slot == Field(addr, 10, 3)
      four == slot % 4
      d == cart.data
      Even(b) == b - (b % 2)
      bank ==
        CASE cart.mapper = 1 -> IF Bit(cart.control, 4) = 0 THEN 4 * Even(cart.chr0 % 32) + slot
                                ELSE 4 * (IF slot < 4 THEN cart.chr0 ELSE cart.chr1) + four
          [] cart.mapper \in {3, 11, 66} -> 8 * cart.chrBank + slot
          [] cart.mapper = 4 -> IF (slot < 4) = (Bit(cart.select, 7) = 0)
                                THEN Even(d[1 + (four \div 2)]) + (four % 2)
                                ELSE d[3 + four]
          [] cart.mapper = 9 -> 4 * (IF slot < 4 THEN IF cart.latch0 THEN cart.fd0 ELSE cart.fe0
                                     ELSE IF cart.latch1 THEN cart.fd1 ELSE cart.fe1) + four
          [] OTHER -> slot
  IN  bank % cart.chrSize
=============================================================================
