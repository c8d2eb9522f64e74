---------------------------- MODULE ConsoleProofs ----------------------------
(***************************************************************************)
(* The console for every set of ROMs, every program in them, every host    *)
(* and every picture: three dots pass for each cycle, a host that takes    *)
(* lines is given them in order, the cached bank pointers are those of the *)
(* cartridge, and a state applied gives back the console it was captured   *)
(* from.  MCNes checks the same with fourteen programs and three rows.     *)
(***************************************************************************)
EXTENDS Nes, NumberFacts, TLAPS

-----------------------------------------------------------------------------
(* The inductive invariant.                                                *)

MachineFields == {"rom", "ram", "wram", "chr", "ppu", "cart", "pads", "lo", "hi", "mask",
                  "pending", "cpu"}
PpuFields == {"scanline", "cycle", "rem", "frame", "frameReady", "lineReady", "nmi", "ctrl",
              "mask", "status", "oamAddr", "buffer", "fineX", "w", "v", "t", "rv", "rx",
              "oam", "nt", "pal", "line", "fb"}

Record(r, fields) == r = [f \in fields |-> r[f]]

(* What a machine is made of; a cartridge has more than is said here.      *)
CartFields == {"mapper", "size", "chrRam", "lo", "hi"}
WellFormed(m) ==
  /\ Record(m, MachineFields) /\ Record(m.ppu, PpuFields)
  /\ CartFields \subseteq DOMAIN m.cart

(* The cached pointers are those of the cartridge.                         *)
InStep(m) ==
  /\ m.lo = m.cart.lo /\ m.hi = m.cart.hi
  /\ m.mask = IF m.cart.mapper = 0 THEN m.cart.size ELSE 0

(* The cartridge is that of the ROM, and without CHR memory none is used.  *)
Inserted(m) ==
  /\ m.rom \in DOMAIN Roms
  /\ m.cart.mapper = Roms[m.rom].mapper /\ m.cart.size = Roms[m.rom].size
  /\ m.cart.chrRam = Roms[m.rom].chrRam
  /\ Roms[m.rom].chrRam \/ m.chr = << >>

OnClock(ppu) ==
  ppu.scanline \in 0 .. LastLine /\ ppu.rem \in 0 .. DotsPerLine - 1 /\ ppu.frame \in Nat

Sound(m) ==
  WellFormed(m) /\ InStep(m) /\ Inserted(m) /\ OnClock(m.ppu) /\ m.pending \in Nat

HostFields == {"mode", "phase", "calls", "inFrame", "token", "target", "restores", "saved"}
HostOK ==
  /\ Record(host, HostFields) /\ host.restores \in Nat /\ host.calls \in 0 .. Height - 1
  /\ host.phase \in {"between", "stepping", "stopped"}
  /\ host.phase = "between" => nes.pending = 0

(* Where a host that takes lines finds the picture: before its first call  *)
(* of a frame below the last row, and before the others at their row.  In  *)
(* a call no line is ready, and the token is that of the line before.      *)
InOrder ==
  host.mode = "line" =>
    LET ppu == nes.ppu
        calls == host.calls
    IN  /\ host.phase = "between" =>
             IF calls = 0 THEN ppu.scanline >= Height
             ELSE /\ ppu.scanline = calls
                  /\ ppu.line = [y |-> calls - 1, frame |-> ppu.frame, ready |-> TRUE]
        /\ host.phase = "stepping" =>
             /\ ppu.lineReady = FALSE
             /\ IF calls = 0
                THEN \/ ppu.scanline >= Height /\ ppu.frame = host.token[1]
                     \/ ppu.scanline = 0 /\ ppu.frame = host.token[1] + 1
                ELSE ppu.scanline = calls /\ host.token = <<ppu.frame, calls - 1>>

(* The captured state is that of the saved console, between two frames.    *)
SavedOK ==
  blob # NoBlob =>
    LET m == host.saved.nes
    IN  /\ Sound(m) /\ m.pending = 0 /\ m.rom = nes.rom
        /\ m = Essence(m) /\ blob = Captured(m)
        /\ "dots" \in DOMAIN host.saved.history /\ Dots(m.ppu) = host.saved.history.dots
        /\ host.mode = "line" => m.ppu.scanline >= Height

IInv ==
  /\ Sound(nes) /\ "dots" \in DOMAIN history
  /\ ClockExact /\ HostOK /\ InOrder /\ SavedOK

-----------------------------------------------------------------------------
(* What the processor and its bus leave as it was.                         *)

PpuKept(p, q) ==
  /\ Record(q, PpuFields)
  /\ q.scanline = p.scanline /\ q.rem = p.rem /\ q.frame = p.frame
  /\ q.line = p.line /\ q.lineReady = p.lineReady
CartKept(c, d) ==
  /\ CartFields \subseteq DOMAIN d
  /\ d.mapper = c.mapper /\ d.size = c.size /\ d.chrRam = c.chrRam
Kept(m, n) ==
  /\ Record(n, MachineFields) /\ PpuKept(m.ppu, n.ppu) /\ CartKept(m.cart, n.cart)
  /\ n.rom = m.rom /\ n.pending = m.pending
  /\ m.cart.chrRam \/ n.chr = m.chr
  /\ InStep(m) => InStep(n)

LEMMA KeptSelf == ASSUME NEW m, WellFormed(m) PROVE Kept(m, m)
  BY DEF Kept, WellFormed, PpuKept, CartKept

LEMMA KeptWellFormed == ASSUME NEW m, NEW n, Kept(m, n) PROVE WellFormed(n)
  BY DEF Kept, WellFormed, PpuKept, CartKept

LEMMA KeptThrough ==
  ASSUME NEW l, NEW m, NEW n, Kept(l, m), Kept(m, n) PROVE Kept(l, n)
  BY DEF Kept, PpuKept, CartKept

LEMMA KeptCpu ==
  ASSUME NEW m, WellFormed(m), NEW c PROVE Kept(m, [m EXCEPT !.cpu = c])
  BY DEF Kept, WellFormed, PpuKept, CartKept, Record, MachineFields, InStep

LEMMA KeptRam ==
  ASSUME NEW m, WellFormed(m), NEW r PROVE Kept(m, [m EXCEPT !.ram = r])
  BY DEF Kept, WellFormed, PpuKept, CartKept, Record, MachineFields, InStep

LEMMA KeptPpu ==
  ASSUME NEW m, WellFormed(m), NEW q, PpuKept(m.ppu, q) PROVE Kept(m, [m EXCEPT !.ppu = q])
  BY DEF Kept, WellFormed, PpuKept, CartKept, Record, MachineFields, InStep

LEMMA KeptCart ==
  ASSUME NEW m, WellFormed(m), NEW d, CartKept(m.cart, d), d.lo = m.cart.lo, d.hi = m.cart.hi
  PROVE  Kept(m, [m EXCEPT !.cart = d])
  BY DEF Kept, WellFormed, PpuKept, CartKept, Record, MachineFields, InStep

(* The registers of the picture unit.                                      *)
LEMMA AdvanceKept == ASSUME NEW p, Record(p, PpuFields) PROVE PpuKept(p, Advance(p))
  BY DEF PpuKept, Record, PpuFields, Advance

LEMMA PpuKeptThrough ==
  ASSUME NEW o, NEW p, NEW q, PpuKept(o, p), PpuKept(p, q) PROVE PpuKept(o, q)
  BY DEF PpuKept

LEMMA PpuKeptRecord == ASSUME NEW p, NEW q, PpuKept(p, q) PROVE Record(q, PpuFields)
  BY DEF PpuKept

LEMMA PpuKeptSelf == ASSUME NEW p, Record(p, PpuFields) PROVE PpuKept(p, p)
  BY DEF PpuKept

LEMMA ScrollKept ==
  ASSUME NEW p, Record(p, PpuFields)
  PROVE  /\ PpuKept(p, CopyHorizontal(p)) /\ PpuKept(p, CopyVertical(p))
         /\ PpuKept(p, LatchRender(p))
  BY DEF PpuKept, Record, PpuFields, CopyHorizontal, CopyVertical, LatchRender

LEMMA RefreshedKept == ASSUME NEW p, Record(p, PpuFields) PROVE PpuKept(p, Refreshed(p))
  <1>1. PpuKept(p, LatchRender(CopyHorizontal(p)))
    <2>1. PpuKept(p, CopyHorizontal(p))
      BY ScrollKept
    <2>2. PpuKept(CopyHorizontal(p), LatchRender(CopyHorizontal(p)))
      BY <2>1, PpuKeptRecord, ScrollKept
    <2> QED
      BY <2>1, <2>2, PpuKeptThrough
  <1> QED
    BY <1>1, PpuKeptSelf DEF Refreshed

LEMMA WriteCtrlKept ==
  ASSUME NEW p, Record(p, PpuFields), NEW v PROVE PpuKept(p, WriteCtrl(p, v))
  <1> DEFINE t == (p.t - 1024 * Field(p.t, 10, 2)) + 1024 * (v % 4)
             q == [p EXCEPT !.ctrl = v, !.t = t]
  <1>1. PpuKept(p, q)
    <2> HIDE DEF t
    <2> QED
      BY DEF PpuKept, Record, PpuFields
  <1>2. WriteCtrl(p, v) = Refreshed(q)
    BY DEF WriteCtrl, Record, PpuFields
  <1> QED
    BY <1>1, <1>2, PpuKeptRecord, RefreshedKept, PpuKeptThrough

LEMMA WriteScrollKept ==
  ASSUME NEW p, Record(p, PpuFields), NEW v PROVE PpuKept(p, WriteScroll(p, v))
  <1> DEFINE first == TRUE
             second == FALSE
             x == (p.t - (p.t % 32)) + (v \div 8)
             y == (p.t - (32 * CoarseY(p.t) + 4096 * FineY(p.t))) + (32 * (v \div 8) + 4096 * (v % 8))
             fine == v % 8
             q == [p EXCEPT !.w = first, !.fineX = fine, !.t = x]
             r == [p EXCEPT !.w = second, !.t = y]
  <1>1. PpuKept(p, q) /\ PpuKept(p, r)
    <2> HIDE DEF first, second, x, y, fine
    <2> QED
      BY DEF PpuKept, Record, PpuFields
  <1>2. WriteScroll(p, v) = Refreshed(q) \/ WriteScroll(p, v) = Refreshed(r)
    BY DEF WriteScroll, Record, PpuFields
  <1> HIDE DEF first, second, x, y, fine, q, r
  <1> QED
    BY <1>1, <1>2, PpuKeptRecord, RefreshedKept, PpuKeptThrough

LEMMA WriteAddrKept ==
  ASSUME NEW p, Record(p, PpuFields), NEW v PROVE PpuKept(p, WriteAddr(p, v))
  <1> DEFINE first == TRUE
             second == FALSE
             t == 256 * (p.t \div 256) + v
             x == (p.t % 256) + 256 * (v % 64)
             q == [p EXCEPT !.w = first, !.t = x]
             r == [p EXCEPT !.w = second, !.t = t, !.v = t]
  <1>1. PpuKept(p, q) /\ PpuKept(p, r)
    <2> HIDE DEF first, second, t, x
    <2> QED
      BY DEF PpuKept, Record, PpuFields
  <1>2. WriteAddr(p, v) = Refreshed(q) \/ WriteAddr(p, v) = Refreshed(r)
    BY DEF WriteAddr, Record, PpuFields
  <1> HIDE DEF first, second, t, x, q, r
  <1> QED
    BY <1>1, <1>2, PpuKeptRecord, RefreshedKept, PpuKeptThrough

(* The video memory.                                                       *)
LEMMA KeptChr ==
  ASSUME NEW m, WellFormed(m), m.cart.chrRam, NEW r PROVE Kept(m, [m EXCEPT !.chr = r])
  BY DEF Kept, WellFormed, PpuKept, CartKept, Record, MachineFields, InStep

LEMMA KeptNames ==
  ASSUME NEW m, WellFormed(m), NEW x PROVE Kept(m, [m EXCEPT !.ppu.nt = x])
  <1>1. PpuKept(m.ppu, [m.ppu EXCEPT !.nt = x])
    BY DEF WellFormed, PpuKept, Record, PpuFields
  <1> QED
    BY <1>1, KeptPpu

LEMMA KeptPalette ==
  ASSUME NEW m, WellFormed(m), NEW x PROVE Kept(m, [m EXCEPT !.ppu.pal = x])
  <1>1. PpuKept(m.ppu, [m.ppu EXCEPT !.pal = x])
    BY DEF WellFormed, PpuKept, Record, PpuFields
  <1> QED
    BY <1>1, KeptPpu

LEMMA VramWriteKept ==
  ASSUME NEW m, WellFormed(m), NEW addr, NEW v PROVE Kept(m, VramWrite(m, addr, v))
  BY KeptChr, KeptNames, KeptPalette, KeptSelf DEF VramWrite

LEMMA Mmc2LatchKept ==
  ASSUME NEW c, CartFields \subseteq DOMAIN c, NEW addr
  PROVE  LET d == Mmc2Latch(c, addr) IN CartKept(c, d) /\ d.lo = c.lo /\ d.hi = c.hi
  <1> DEFINE tile == Field(addr, 4, 8)
             known == tile \in {253, 254}
             first == IF known THEN tile = 253 ELSE c.latch0
             second == IF known THEN tile = 253 ELSE c.latch1
             d == [c EXCEPT !.latch0 = first]
             e == [c EXCEPT !.latch1 = second]
  <1>1. /\ CartKept(c, d) /\ d.lo = c.lo /\ d.hi = c.hi
        /\ CartKept(c, e) /\ e.lo = c.lo /\ e.hi = c.hi
    <2> HIDE DEF first, second
    <2> QED
      BY DEF CartKept, CartFields
  <1>2. Mmc2Latch(c, addr) = d \/ Mmc2Latch(c, addr) = e
    BY DEF Mmc2Latch
  <1> HIDE DEF first, second, d, e
  <1> QED
    BY <1>1, <1>2

LEMMA VramTouchKept ==
  ASSUME NEW m, WellFormed(m), NEW addr PROVE Kept(m, VramTouch(m, addr))
  <1> DEFINE d == Mmc2Latch(m.cart, addr % 16384)
  <1>1. CartKept(m.cart, d) /\ d.lo = m.cart.lo /\ d.hi = m.cart.hi
    BY Mmc2LatchKept DEF WellFormed
  <1>2. VramTouch(m, addr) = m \/ VramTouch(m, addr) = [m EXCEPT !.cart = d]
    BY DEF VramTouch
  <1> HIDE DEF d
  <1> QED
    BY <1>1, <1>2, KeptSelf, KeptCart

(* The registers.                                                          *)
Buffered(at, v) == [at EXCEPT !.ppu = [Advance(@) EXCEPT !.buffer = v]]

LEMMA BufferedKept ==
  ASSUME NEW m, WellFormed(m), NEW v PROVE Kept(m, Buffered(m, v))
  <1> DEFINE q == [Advance(m.ppu) EXCEPT !.buffer = v]
  <1>1. PpuKept(m.ppu, Advance(m.ppu)) /\ Record(Advance(m.ppu), PpuFields)
    BY AdvanceKept, PpuKeptRecord DEF WellFormed
  <1>2. PpuKept(Advance(m.ppu), q)
    BY <1>1 DEF PpuKept, Record, PpuFields
  <1>3. PpuKept(m.ppu, q)
    BY <1>1, <1>2, PpuKeptThrough
  <1> QED
    BY <1>3, KeptPpu DEF Buffered

LEMMA ReadDataKept == ASSUME NEW m, WellFormed(m) PROVE Kept(m, ReadData(m).m)
  <1> DEFINE below == (m.ppu.v + 61440) % 65536
             touched == VramTouch(m, m.ppu.v)
             further == VramTouch(touched, below)
             v == VramRead(m, m.ppu.v)
             w == VramRead(touched, below)
  <1>1. Kept(m, touched) /\ WellFormed(touched)
    BY VramTouchKept, KeptWellFormed
  <1>2. Kept(touched, further) /\ WellFormed(further)
    BY <1>1, VramTouchKept, KeptWellFormed
  <1>3. Kept(touched, Buffered(touched, v)) /\ Kept(further, Buffered(further, w))
    BY <1>1, <1>2, BufferedKept
  <1>4. \/ ReadData(m) = Result(Buffered(further, w), v)
        \/ ReadData(m) = Result(Buffered(touched, v), m.ppu.buffer)
    BY DEF ReadData, Buffered
  <1>5. ReadData(m).m \in {Buffered(further, w), Buffered(touched, v)}
    BY <1>4 DEF Result
  <1> HIDE DEF below, touched, further, v, w
  <1> QED
    BY <1>1, <1>2, <1>3, <1>5, KeptThrough

LEMMA StatusReadKept ==
  ASSUME NEW m, WellFormed(m), NEW x PROVE Kept(m, [m EXCEPT !.ppu.status = x, !.ppu.w = FALSE])
  <1> DEFINE second == FALSE
             q == [m.ppu EXCEPT !.status = x, !.w = second]
  <1>1. PpuKept(m.ppu, q)
    <2> HIDE DEF second
    <2> QED
      BY DEF WellFormed, PpuKept, Record, PpuFields
  <1>2. [m EXCEPT !.ppu.status = x, !.ppu.w = FALSE] = [m EXCEPT !.ppu = q]
    BY DEF WellFormed, Record, MachineFields
  <1> HIDE DEF q
  <1> QED
    BY <1>1, <1>2, KeptPpu

LEMMA PpuReadKept ==
  ASSUME NEW m, WellFormed(m), NEW reg PROVE Kept(m, PpuRead(m, reg).m)
  <1> DEFINE x == m.ppu.status % 128
             read == [m EXCEPT !.ppu.status = x, !.ppu.w = FALSE]
  <1>1. Kept(m, read)
    <2> HIDE DEF x
    <2> QED
      BY StatusReadKept
  <1>2. PpuRead(m, reg).m \in {m, read, ReadData(m).m}
    BY DEF PpuRead, Result
  <1> HIDE DEF read
  <1> QED
    BY <1>1, <1>2, KeptSelf, ReadDataKept

LEMMA KeptFields ==
  ASSUME NEW m, WellFormed(m), NEW x, NEW y
  PROVE  /\ Kept(m, [m EXCEPT !.ppu.mask = x])
         /\ Kept(m, [m EXCEPT !.ppu.oamAddr = x])
         /\ Kept(m, [m EXCEPT !.ppu.oam = x])
         /\ Kept(m, [m EXCEPT !.ppu = [@ EXCEPT !.oam = x, !.oamAddr = y]])
  <1>1. /\ PpuKept(m.ppu, [m.ppu EXCEPT !.mask = x])
        /\ PpuKept(m.ppu, [m.ppu EXCEPT !.oamAddr = x])
        /\ PpuKept(m.ppu, [m.ppu EXCEPT !.oam = x])
        /\ PpuKept(m.ppu, [m.ppu EXCEPT !.oam = x, !.oamAddr = y])
    BY DEF WellFormed, PpuKept, Record, PpuFields
  <1> QED
    BY <1>1, KeptPpu

LEMMA PpuWriteKept ==
  ASSUME NEW m, WellFormed(m), NEW reg, NEW v PROVE Kept(m, PpuWrite(m, reg, v))
  <1>1. /\ Kept(m, [m EXCEPT !.ppu = WriteCtrl(@, v)])
        /\ Kept(m, [m EXCEPT !.ppu = WriteScroll(@, v)])
        /\ Kept(m, [m EXCEPT !.ppu = WriteAddr(@, v)])
    BY WriteCtrlKept, WriteScrollKept, WriteAddrKept, KeptPpu DEF WellFormed
  <1> DEFINE x == Put(m.ppu.oam, m.ppu.oamAddr, v)
             y == (m.ppu.oamAddr + 1) % 256
             written == [m EXCEPT !.ppu.oam = Put(@, m.ppu.oamAddr, v),
                                  !.ppu.oamAddr = (@ + 1) % 256]
  <1>2. Kept(m, written)
    <2>1. written = [m EXCEPT !.ppu = [@ EXCEPT !.oam = x, !.oamAddr = y]]
      BY DEF WellFormed, Record, MachineFields, PpuFields
    <2> HIDE DEF x, y, written
    <2> QED
      BY <2>1, KeptFields
  <1> DEFINE into == VramWrite(m, m.ppu.v, v)
             stored == [into EXCEPT !.ppu = Advance(@)]
  <1>3. Kept(m, stored)
    <2>1. Kept(m, into) /\ WellFormed(into)
      BY VramWriteKept, KeptWellFormed
    <2> HIDE DEF into
    <2>2. Kept(into, [into EXCEPT !.ppu = Advance(@)])
      BY <2>1, AdvanceKept, KeptPpu DEF WellFormed
    <2> QED
      BY <2>1, <2>2, KeptThrough
  <1>4. /\ Kept(m, [m EXCEPT !.ppu.mask = v])
        /\ Kept(m, [m EXCEPT !.ppu.oamAddr = v])
    BY KeptFields
  <1>5. Kept(m, m)
    BY KeptSelf
  <1> QED
    BY <1>1, <1>2, <1>3, <1>4, <1>5 DEF PpuWrite

-----------------------------------------------------------------------------
(* The cartridge: a write to it changes neither what it is nor, where the  *)
(* bank pointers are not cached again, which banks it shows.               *)

Banked(c, d) == CartKept(c, d) /\ d.lo = c.lo /\ d.hi = c.hi

LEMMA CartKeptThrough ==
  ASSUME NEW c, NEW d, NEW e, CartKept(c, d), CartKept(d, e) PROVE CartKept(c, e)
  BY DEF CartKept

LEMMA LoHiKept ==
  ASSUME NEW c, CartFields \subseteq DOMAIN c, NEW l, NEW h PROVE CartKept(c, LoHi(c, l, h))
  BY DEF CartKept, CartFields, LoHi

LEMMA Mmc1BanksKept ==
  ASSUME NEW c, CartFields \subseteq DOMAIN c PROVE CartKept(c, Mmc1Banks(c))
  BY LoHiKept DEF Mmc1Banks

LEMMA Mmc1Fields ==
  ASSUME NEW c, CartFields \subseteq DOMAIN c, NEW x, NEW y
  PROVE  /\ CartKept(c, [c EXCEPT !.shift = x, !.shifted = y])
         /\ CartKept(c, [c EXCEPT !.chr0 = x]) /\ CartKept(c, [c EXCEPT !.chr1 = x])
         /\ CartKept(c, [c EXCEPT !.prg = x]) /\ CartKept(c, [c EXCEPT !.control = x])
         /\ CartKept(c, [c EXCEPT !.control = x, !.mirror = y])
  BY DEF CartKept, CartFields

LEMMA CartKeptFields == ASSUME NEW c, NEW d, CartKept(c, d) PROVE CartFields \subseteq DOMAIN d
  BY DEF CartKept

LEMMA Mmc1CommitKept ==
  ASSUME NEW c, CartFields \subseteq DOMAIN c, NEW addr, NEW v
  PROVE  CartKept(c, Mmc1Commit(c, addr, v))
  <1> DEFINE b == [c EXCEPT !.shift = 0, !.shifted = 0]
             mirror == Mirrors[1 + (v % 4)]
  <1>1. CartKept(c, b) /\ CartFields \subseteq DOMAIN b
    BY Mmc1Fields, CartKeptFields
  <1>2. /\ Mmc1Commit(c, addr, v) \in
             {Mmc1Banks([b EXCEPT !.control = v, !.mirror = mirror]), [b EXCEPT !.chr0 = v],
              [b EXCEPT !.chr1 = v], Mmc1Banks([b EXCEPT !.prg = v])}
    BY DEF Mmc1Commit
  <1> HIDE DEF b, mirror
  <1>3. /\ CartKept(b, [b EXCEPT !.control = v, !.mirror = mirror])
        /\ CartKept(b, [b EXCEPT !.chr0 = v]) /\ CartKept(b, [b EXCEPT !.chr1 = v])
        /\ CartKept(b, [b EXCEPT !.prg = v])
    BY <1>1, Mmc1Fields
  <1>4. /\ CartKept(b, Mmc1Banks([b EXCEPT !.control = v, !.mirror = mirror]))
        /\ CartKept(b, Mmc1Banks([b EXCEPT !.prg = v]))
    BY <1>3, Mmc1BanksKept, CartKeptFields, CartKeptThrough
  <1> QED
    BY <1>1, <1>2, <1>3, <1>4, CartKeptThrough

LEMMA Mmc1WriteKept ==
  ASSUME NEW c, CartFields \subseteq DOMAIN c, NEW addr, NEW v
  PROVE  CartKept(c, Mmc1Write(c, addr, v))
  <1> DEFINE shift == c.shift + (v % 2) * 2^c.shifted
             b == [c EXCEPT !.shift = 0, !.shifted = 0]
             control == (b.control % 4) + 12 + (16 * Bit(b.control, 4))
             n == c.shifted + 1
  <1>1. Mmc1Write(c, addr, v) \in
          {Mmc1Banks([b EXCEPT !.control = control]),
           [c EXCEPT !.shift = shift, !.shifted = n], Mmc1Commit(c, addr, shift)}
    BY DEF Mmc1Write
  <1>2. CartKept(c, b) /\ CartFields \subseteq DOMAIN b
    BY Mmc1Fields, CartKeptFields
  <1> HIDE DEF shift, control, n, b
  <1>3. CartKept(b, [b EXCEPT !.control = control])
    BY <1>2, Mmc1Fields
  <1>4. CartKept(b, Mmc1Banks([b EXCEPT !.control = control]))
    BY <1>3, Mmc1BanksKept, CartKeptFields, CartKeptThrough
  <1>5. CartKept(c, [c EXCEPT !.shift = shift, !.shifted = n])
    BY Mmc1Fields
  <1> QED
    BY <1>1, <1>2, <1>4, <1>5, Mmc1CommitKept, CartKeptThrough

LEMMA Mmc3BanksKept ==
  ASSUME NEW c, CartFields \subseteq DOMAIN c PROVE CartKept(c, Mmc3Banks(c))
  <1>1. ASSUME NEW w PROVE CartKept(c, LoHi([c EXCEPT !.win8 = w], w[1], w[3]))
    BY DEF CartKept, CartFields, LoHi
  <1> QED
    BY <1>1 DEF Mmc3Banks

LEMMA Mmc3Fields ==
  ASSUME NEW c, CartFields \subseteq DOMAIN c, NEW x, NEW y
  PROVE  /\ CartKept(c, [c EXCEPT !.select = x]) /\ CartKept(c, [c EXCEPT !.data = x])
         /\ CartKept(c, [c EXCEPT !.mirror = x]) /\ CartKept(c, [c EXCEPT !.latch = x])
         /\ CartKept(c, [c EXCEPT !.counter = x, !.reload = y])
         /\ CartKept(c, [c EXCEPT !.enabled = x, !.irq = y])
         /\ CartKept(c, [c EXCEPT !.enabled = x])
  BY DEF CartKept, CartFields

LEMMA Mmc3WriteKept ==
  ASSUME NEW c, CartFields \subseteq DOMAIN c, NEW addr, NEW v
  PROVE  CartKept(c, Mmc3Write(c, addr, v))
  <1> DEFINE on == TRUE
             off == FALSE
             data == [c.data EXCEPT ![1 + (c.select % 8)] = v]
             mirror == IF v % 2 = 1 THEN "horizontal" ELSE "vertical"
  <1>1. Mmc3Write(c, addr, v) \in
          {Mmc3Banks([c EXCEPT !.select = v]), Mmc3Banks([c EXCEPT !.data = data]),
           [c EXCEPT !.mirror = mirror], c, [c EXCEPT !.latch = v],
           [c EXCEPT !.counter = 0, !.reload = on],
           [c EXCEPT !.enabled = off, !.irq = off], [c EXCEPT !.enabled = on]}
    BY DEF Mmc3Write
  <1> HIDE DEF on, off, data, mirror
  <1>2. /\ CartKept(c, Mmc3Banks([c EXCEPT !.select = v]))
        /\ CartKept(c, Mmc3Banks([c EXCEPT !.data = data]))
    BY Mmc3Fields, Mmc3BanksKept, CartKeptFields, CartKeptThrough
  <1>3. /\ CartKept(c, [c EXCEPT !.mirror = mirror]) /\ CartKept(c, [c EXCEPT !.latch = v])
        /\ CartKept(c, [c EXCEPT !.counter = 0, !.reload = on])
        /\ CartKept(c, [c EXCEPT !.enabled = off, !.irq = off])
        /\ CartKept(c, [c EXCEPT !.enabled = on]) /\ CartKept(c, c)
    BY Mmc3Fields DEF CartKept
  <1> QED
    BY <1>1, <1>2, <1>3

LEMMA Mmc2WriteKept ==
  ASSUME NEW c, CartFields \subseteq DOMAIN c, NEW addr, NEW v
  PROVE  CartKept(c, Mmc2Write(c, addr, v))
  <1>1. ASSUME NEW x, NEW y
        PROVE  /\ CartKept(c, [c EXCEPT !.win8 = y, !.lo = x])
               /\ CartKept(c, [c EXCEPT !.fd0 = x]) /\ CartKept(c, [c EXCEPT !.fe0 = x])
               /\ CartKept(c, [c EXCEPT !.fd1 = x]) /\ CartKept(c, [c EXCEPT !.fe1 = x])
               /\ CartKept(c, [c EXCEPT !.mirror = x]) /\ CartKept(c, c)
    BY DEF CartKept, CartFields
  <1> DEFINE bank == Within(v % 16, 1, c.size)
             win8 == [c.win8 EXCEPT ![1] = bank]
             x == v % 32
             mirror == IF v % 2 = 1 THEN "horizontal" ELSE "vertical"
  <1>2. Mmc2Write(c, addr, v) \in
          {[c EXCEPT !.win8 = win8, !.lo = bank], [c EXCEPT !.fd0 = x], [c EXCEPT !.fe0 = x],
           [c EXCEPT !.fd1 = x], [c EXCEPT !.fe1 = x], [c EXCEPT !.mirror = mirror], c}
    BY DEF Mmc2Write
  <1> HIDE DEF bank, win8, x, mirror
  <1>3. /\ CartKept(c, [c EXCEPT !.win8 = win8, !.lo = bank])
        /\ CartKept(c, [c EXCEPT !.fd0 = x]) /\ CartKept(c, [c EXCEPT !.fe0 = x])
        /\ CartKept(c, [c EXCEPT !.fd1 = x]) /\ CartKept(c, [c EXCEPT !.fe1 = x])
        /\ CartKept(c, [c EXCEPT !.mirror = mirror]) /\ CartKept(c, c)
    BY <1>1
  <1> QED
    BY <1>2, <1>3

LEMMA Mapper40WriteKept ==
  ASSUME NEW c, CartFields \subseteq DOMAIN c, NEW addr, NEW v
  PROVE  CartKept(c, Mapper40Write(c, addr, v))
  <1>1. ASSUME NEW x, NEW y, NEW z
        PROVE  /\ CartKept(c, [c EXCEPT !.ticking = x, !.irq = y, !.ticks = z])
               /\ CartKept(c, [c EXCEPT !.ticking = x, !.ticks = z])
               /\ CartKept(c, [c EXCEPT !.win8 = x, !.hi = y]) /\ CartKept(c, c)
    BY DEF CartKept, CartFields
  <1> DEFINE on == TRUE
             off == FALSE
             bank == (v % 8) % c.size
             win8 == [c.win8 EXCEPT ![3] = bank]
  <1>2. Mapper40Write(c, addr, v) \in
          {[c EXCEPT !.ticking = off, !.irq = off, !.ticks = 0],
           [c EXCEPT !.ticking = on, !.ticks = 0], [c EXCEPT !.win8 = win8, !.hi = bank], c}
    BY DEF Mapper40Write
  <1> HIDE DEF on, off, bank, win8
  <1>3. /\ CartKept(c, [c EXCEPT !.ticking = off, !.irq = off, !.ticks = 0])
        /\ CartKept(c, [c EXCEPT !.ticking = on, !.ticks = 0])
        /\ CartKept(c, [c EXCEPT !.win8 = win8, !.hi = bank]) /\ CartKept(c, c)
    BY <1>1
  <1> QED
    BY <1>2, <1>3

LEMMA CnromWriteBanked ==
  ASSUME NEW c, CartFields \subseteq DOMAIN c, NEW v PROVE Banked(c, CnromWrite(c, v))
  <1> DEFINE x == v % (c.chrSize \div 8)
  <1>1. CnromWrite(c, v) \in {c, [c EXCEPT !.chrBank = x]}
    BY DEF CnromWrite
  <1> HIDE DEF x
  <1>2. Banked(c, [c EXCEPT !.chrBank = x]) /\ Banked(c, c)
    BY DEF Banked, CartKept, CartFields
  <1> QED
    BY <1>1, <1>2

LEMMA PlainWritesKept ==
  ASSUME NEW c, CartFields \subseteq DOMAIN c, NEW v, NEW x
  PROVE  /\ CartKept(c, UxromWrite(c, v)) /\ CartKept(c, AxromWrite(c, v))
         /\ CartKept(c, PairWrite(c, v, x))
  <1>1. ASSUME NEW l, NEW h
        PROVE  /\ CartKept(c, [c EXCEPT !.lo = l])
               /\ CartKept(c, [LoHi(c, l, h) EXCEPT !.mirror = x])
               /\ CartKept(c, LoHi([c EXCEPT !.chrBank = x], l, h))
    BY DEF CartKept, CartFields, LoHi
  <1>2. CartKept(c, UxromWrite(c, v))
    BY <1>1 DEF UxromWrite
  <1>3. CartKept(c, AxromWrite(c, v))
    <2> DEFINE b == Within(4 * (v % 8), 4, c.size)
               mirror == IF Bit(v, 4) = 1 THEN "upper" ELSE "lower"
    <2>1. AxromWrite(c, v) = [LoHi(c, b, b + 2) EXCEPT !.mirror = mirror]
      BY DEF AxromWrite, AxromBanks
    <2> HIDE DEF b, mirror
    <2> QED
      BY <2>1 DEF CartKept, CartFields, LoHi
  <1>4. CartKept(c, PairWrite(c, v, x))
    BY <1>1 DEF PairWrite
  <1> QED
    BY <1>2, <1>3, <1>4

MapperNumbers == {0, 1, 2, 3, 4, 7, 9, 11, 40, 66}

LEMMA CartWriteKept ==
  ASSUME NEW c, CartFields \subseteq DOMAIN c, c.mapper \in MapperNumbers, NEW addr, NEW v
  PROVE  /\ CartKept(c, CartWrite(c, addr, v))
         /\ c.mapper \in {0, 3} => Banked(c, CartWrite(c, addr, v))
  <1>1. CASE c.mapper \in {0, 3}
    <2>1. CartWrite(c, addr, v) \in {c, CnromWrite(c, v)}
      BY <1>1 DEF CartWrite
    <2> QED
      BY <2>1, CnromWriteBanked DEF Banked, CartKept
  <1>2. CASE c.mapper \in MapperNumbers \ {0, 3}
    <2>1. CartWrite(c, addr, v) \in
            {Mmc1Write(c, addr, v), UxromWrite(c, v), Mmc3Write(c, addr, v), AxromWrite(c, v),
             Mmc2Write(c, addr, v), PairWrite(c, v % 4, Field(v, 4, 4)),
             Mapper40Write(c, addr, v), PairWrite(c, Field(v, 4, 2), v % 4)}
      BY <1>2 DEF CartWrite, MapperNumbers
    <2> DEFINE x == v % 4
               y == Field(v, 4, 4)
               z == Field(v, 4, 2)
    <2>2. CartKept(c, PairWrite(c, x, y)) /\ CartKept(c, PairWrite(c, z, x))
      BY PlainWritesKept
    <2> QED
      BY <1>2, <2>1, <2>2, Mmc1WriteKept, Mmc3WriteKept, Mmc2WriteKept, Mapper40WriteKept,
         PlainWritesKept
  <1> QED
    BY <1>1, <1>2

-----------------------------------------------------------------------------
(* The bus.                                                                *)

(* A machine that has the ROMs' mappers only.                              *)
Usable(m) == WellFormed(m) /\ m.cart.mapper \in MapperNumbers

LEMMA KeptUsable == ASSUME NEW m, NEW n, Usable(m), Kept(m, n) PROVE Usable(n)
  BY KeptWellFormed DEF Usable, Kept, CartKept

LEMMA SyncFresh ==
  ASSUME NEW m, Record(m, MachineFields)
  PROVE  LET s == Sync(m)
         IN  /\ Record(s, MachineFields) /\ InStep(s)
             /\ \A f \in MachineFields \ {"lo", "hi", "mask"} : s[f] = m[f]
  BY DEF Sync, Record, MachineFields, InStep

LEMMA MapperWriteKept ==
  ASSUME NEW m, Usable(m), NEW addr, NEW v PROVE Kept(m, MapperWrite(m, addr, v))
  <1> DEFINE d == CartWrite(m.cart, addr, v)
             written == [m EXCEPT !.cart = d]
  <1>1. CartKept(m.cart, d) /\ (m.cart.mapper \in {0, 3} => Banked(m.cart, d))
    BY CartWriteKept DEF Usable, WellFormed
  <1>2. CASE m.cart.mapper \in {0, 3}
    <2>1. MapperWrite(m, addr, v) = written
      BY <1>2 DEF MapperWrite
    <2> HIDE DEF d
    <2> QED
      BY <1>1, <1>2, <2>1, KeptCart DEF Usable, Banked
  <1>3. CASE m.cart.mapper \notin {0, 3}
    <2>1. MapperWrite(m, addr, v) = Sync(written)
      BY <1>3 DEF MapperWrite
    <2> HIDE DEF d
    <2>2. /\ Record(written, MachineFields) /\ written.cart = d
          /\ \A f \in MachineFields \ {"cart"} : written[f] = m[f]
      BY DEF Usable, WellFormed, Record, MachineFields
    <2> HIDE DEF written
    <2>3. LET s == Sync(written)
          IN  /\ Record(s, MachineFields) /\ InStep(s)
              /\ \A f \in MachineFields \ {"lo", "hi", "mask"} : s[f] = written[f]
      BY <2>2, SyncFresh
    <2> QED
      BY <1>1, <2>1, <2>2, <2>3 DEF Kept, Usable, WellFormed, PpuKept, MachineFields
  <1> QED
    BY <1>2, <1>3

LEMMA KeptPads ==
  ASSUME NEW m, WellFormed(m), NEW x
  PROVE  Kept(m, [m EXCEPT !.pads = x]) /\ Kept(m, [m EXCEPT !.wram = x])
  BY DEF Kept, WellFormed, PpuKept, CartKept, Record, MachineFields, InStep

LEMMA BusReadKept == ASSUME NEW m, WellFormed(m), NEW addr PROVE Kept(m, BusRead(m, addr).m)
  <1> DEFINE n == addr - 16405
             pads == [m.pads EXCEPT ![n] = PadShifted(@)]
             reg == addr % 8
  <1>1. BusRead(m, addr).m \in {m, PpuRead(m, reg).m, [m EXCEPT !.pads = pads]}
    BY DEF BusRead, Result
  <1> HIDE DEF n, pads, reg
  <1>2. Kept(m, m) /\ Kept(m, PpuRead(m, reg).m) /\ Kept(m, [m EXCEPT !.pads = pads])
    BY KeptSelf, PpuReadKept, KeptPads
  <1> QED
    BY <1>1, <1>2

LEMMA CopySpritesKept ==
  ASSUME NEW m, WellFormed(m), NEW page PROVE Kept(m, CopySprites(m, page))
  BY KeptFields DEF CopySprites

LEMMA BusWriteKept ==
  ASSUME NEW m, Usable(m), NEW addr, NEW v PROVE Kept(m, BusWrite(m, addr, v))
  <1> DEFINE ram == Put(m.ram, addr % 2048, v)
             wram == Put(m.wram, addr % 8192, v)
             pads == [n \in 1 .. 2 |-> PadStrobe(m.pads[n], v)]
             reg == addr % 8
  <1>1. BusWrite(m, addr, v) \in
          {[m EXCEPT !.ram = ram], PpuWrite(m, reg, v), CopySprites(m, v),
           [m EXCEPT !.pads = pads], [m EXCEPT !.wram = wram], MapperWrite(m, addr, v), m}
    BY DEF BusWrite
  <1> HIDE DEF ram, wram, pads, reg
  <1>2. WellFormed(m)
    BY DEF Usable
  <1>3. /\ Kept(m, [m EXCEPT !.ram = ram]) /\ Kept(m, [m EXCEPT !.pads = pads])
        /\ Kept(m, [m EXCEPT !.wram = wram]) /\ Kept(m, m)
    BY <1>2, KeptRam, KeptPads, KeptSelf
  <1>4. /\ Kept(m, PpuWrite(m, reg, v)) /\ Kept(m, CopySprites(m, v))
        /\ Kept(m, MapperWrite(m, addr, v))
    BY <1>2, PpuWriteKept, CopySpritesKept, MapperWriteKept
  <1> QED
    BY <1>1, <1>3, <1>4

-----------------------------------------------------------------------------
(* The processor: what it does between two steps of the picture unit.      *)

LEMMA KeptPc ==
  ASSUME NEW m, WellFormed(m), NEW x, NEW y
  PROVE  /\ Kept(m, [m EXCEPT !.cpu.pc = x]) /\ Kept(m, [m EXCEPT !.cpu.sp = x])
         /\ Kept(m, [m EXCEPT !.cpu.p = x])
         /\ Kept(m, [m EXCEPT !.cpu.pc = x, !.cpu.p = y])
  <1>1. /\ Kept(m, [m EXCEPT !.cpu.pc = x]) /\ Kept(m, [m EXCEPT !.cpu.sp = x])
        /\ Kept(m, [m EXCEPT !.cpu.p = x])
    BY KeptCpu
  <1>2. Kept(m, [m EXCEPT !.cpu.pc = x, !.cpu.p = y])
    <2> DEFINE n == [m EXCEPT !.cpu.pc = x]
    <2>1. Kept(m, n) /\ WellFormed(n)
      BY <1>1, KeptWellFormed
    <2>2. [m EXCEPT !.cpu.pc = x, !.cpu.p = y] = [n EXCEPT !.cpu.p = y]
      OBVIOUS
    <2> HIDE DEF n
    <2> QED
      BY <2>1, <2>2, KeptCpu, KeptThrough
  <1> QED
    BY <1>1, <1>2

LEMMA PushKept == ASSUME NEW m, WellFormed(m), NEW v PROVE Kept(m, Push(m, v))
  <1> DEFINE ram == Put(m.ram, 256 + m.cpu.sp, v)
             n == [m EXCEPT !.ram = ram]
             sp == (m.cpu.sp - 1) % 256
  <1>1. Kept(m, n) /\ WellFormed(n) /\ n.cpu = m.cpu
    BY KeptRam, KeptWellFormed DEF WellFormed, Record, MachineFields
  <1>2. Push(m, v) = [n EXCEPT !.cpu.sp = sp]
    BY DEF Push, WellFormed, Record, MachineFields
  <1> HIDE DEF n, sp
  <1> QED
    BY <1>1, <1>2, KeptPc, KeptThrough

LEMMA PushWordKept == ASSUME NEW m, WellFormed(m), NEW v PROVE Kept(m, PushWord(m, v))
  BY PushKept, KeptWellFormed, KeptThrough DEF PushWord

LEMMA DropKept == ASSUME NEW m, WellFormed(m), NEW n PROVE Kept(m, Drop(m, n))
  BY KeptPc DEF Drop

LEMMA JumpToKept ==
  ASSUME NEW m, WellFormed(m), NEW lo, NEW hi PROVE Kept(m, JumpTo(ReadWord(m, lo, hi)))
  <1> DEFINE first == BusRead(m, lo)
             second == BusRead(first.m, hi)
             to == first.v + 256 * second.v
  <1>1. Kept(m, first.m) /\ WellFormed(first.m)
    BY BusReadKept, KeptWellFormed
  <1>2. Kept(first.m, second.m) /\ WellFormed(second.m)
    BY <1>1, BusReadKept, KeptWellFormed
  <1>3. ReadWord(m, lo, hi) = Result(second.m, to)
    BY DEF ReadWord
  <1>4. JumpTo(ReadWord(m, lo, hi)) = [second.m EXCEPT !.cpu.pc = to]
    BY <1>3 DEF JumpTo, Result
  <1> HIDE DEF first, second, to
  <1> QED
    BY <1>1, <1>2, <1>4, KeptPc, KeptThrough

(* What an instruction leaves, and the time it takes.                      *)
Done(m, done, fewest, most) == Kept(m, done.m) /\ done.cycles \in fewest .. most

LEMMA TookDone ==
  ASSUME NEW m, NEW n, Kept(m, n), NEW cycles \in 2 .. 8 PROVE Done(m, Took(n, cycles), 2, 8)
  BY DEF Done, Took

LEMMA DoStackDone ==
  ASSUME NEW m, WellFormed(m), NEW i, i.op \in StackOps PROVE Done(m, DoStack(m, i), 2, 8)
  <1>1. CASE i.op = "JSR"
    <2> DEFINE from == (m.cpu.pc - 1) % 65536
               pushed == PushWord(m, from)
               to == i.arg
    <2>1. Kept(m, pushed) /\ WellFormed(pushed)
      BY PushWordKept, KeptWellFormed
    <2>2. DoStack(m, i) = Took([pushed EXCEPT !.cpu.pc = to], 6)
      BY <1>1 DEF DoStack
    <2> HIDE DEF pushed, to
    <2>3. Kept(m, [pushed EXCEPT !.cpu.pc = to])
      BY <2>1, KeptPc, KeptThrough
    <2> QED
      BY <2>2, <2>3, TookDone
  <1>2. CASE i.op = "RTS"
    <2> DEFINE dropped == Drop(m, 2)
               to == (TopWord(m, 1) + 1) % 65536
    <2>1. Kept(m, dropped) /\ WellFormed(dropped)
      BY DropKept, KeptWellFormed
    <2>2. DoStack(m, i) = Took([dropped EXCEPT !.cpu.pc = to], 6)
      BY <1>2 DEF DoStack
    <2> HIDE DEF dropped, to
    <2>3. Kept(m, [dropped EXCEPT !.cpu.pc = to])
      BY <2>1, KeptPc, KeptThrough
    <2> QED
      BY <2>2, <2>3, TookDone
  <1>3. CASE i.op = "RTI"
    <2> DEFINE dropped == Drop(m, 3)
               to == TopWord(m, 2)
               p == PulledFlags(Top(m, 1))
    <2>1. Kept(m, dropped) /\ WellFormed(dropped)
      BY DropKept, KeptWellFormed
    <2>2. DoStack(m, i) = Took([dropped EXCEPT !.cpu.pc = to, !.cpu.p = p], 6)
      BY <1>3 DEF DoStack, Returned
    <2> HIDE DEF dropped, to, p
    <2>3. Kept(m, [dropped EXCEPT !.cpu.pc = to, !.cpu.p = p])
      BY <2>1, KeptPc, KeptThrough
    <2> QED
      BY <2>2, <2>3, TookDone
  <1>4. CASE i.op = "PHA"
    <2>1. DoStack(m, i) = Took(Push(m, m.cpu.a), 3)
      BY <1>4 DEF DoStack
    <2>2. Kept(m, Push(m, m.cpu.a))
      BY PushKept
    <2> QED
      BY <2>1, <2>2, TookDone
  <1>5. CASE i.op = "PHP"
    <2> DEFINE v == PackFlags(m.cpu.p \union {"B", "U"})
    <2>1. DoStack(m, i) = Took(Push(m, v), 3)
      BY <1>5 DEF DoStack
    <2>2. Kept(m, Push(m, v))
      BY PushKept
    <2> HIDE DEF v
    <2> QED
      BY <2>1, <2>2, TookDone
  <1>6. CASE i.op = "PLA"
    <2> DEFINE dropped == Drop(m, 1)
               c == LoadA(dropped.cpu, Top(m, 1))
    <2>1. Kept(m, dropped) /\ WellFormed(dropped)
      BY DropKept, KeptWellFormed
    <2>2. DoStack(m, i) = Took([dropped EXCEPT !.cpu = c], 4)
      BY <1>6 DEF DoStack
    <2> HIDE DEF dropped, c
    <2>3. Kept(m, [dropped EXCEPT !.cpu = c])
      BY <2>1, KeptCpu, KeptThrough
    <2> QED
      BY <2>2, <2>3, TookDone
  <1>7. CASE i.op = "PLP"
    <2> DEFINE dropped == Drop(m, 1)
               p == PulledFlags(Top(m, 1))
    <2>1. Kept(m, dropped) /\ WellFormed(dropped)
      BY DropKept, KeptWellFormed
    <2>2. DoStack(m, i) = Took([dropped EXCEPT !.cpu.p = p], 4)
      BY <1>7 DEF DoStack
    <2> HIDE DEF dropped, p
    <2>3. Kept(m, [dropped EXCEPT !.cpu.p = p])
      BY <2>1, KeptPc, KeptThrough
    <2> QED
      BY <2>2, <2>3, TookDone
  <1> QED
    BY <1>1, <1>2, <1>3, <1>4, <1>5, <1>6, <1>7 DEF StackOps

(* The modes of an operation tell how long it takes.                       *)
MemoryModes == {"zp", "zpx", "zpy", "abs", "absx", "absy", "indx", "indy"}

LEMMA StoreModes ==
  ASSUME NEW op \in StoreOps PROVE ModesOf(op) \subseteq MemoryModes
  BY DEF StoreOps, ModesOf, MemoryModes, AllLoads, Branches, Registers, SetsFlag, ClearsFlag

LEMMA ChangeModes ==
  ASSUME NEW op \in ChangeOps PROVE ModesOf(op) \subseteq MemoryModes \union {"acc"}
  BY DEF ChangeOps, ModesOf, MemoryModes, AllLoads, Branches, Registers, SetsFlag, ClearsFlag

LEMMA LoadModes ==
  ASSUME NEW op \in LoadOps PROVE ModesOf(op) \subseteq MemoryModes \union {"imm", "imp"}
  BY DEF LoadOps, ModesOf, MemoryModes, AllLoads, Branches, Registers, SetsFlag, ClearsFlag

LEMMA RegisterModes ==
  ASSUME NEW op \in Registers PROVE ModesOf(op) = {"imp"}
  BY DEF Registers, SetsFlag, ClearsFlag, ModesOf, Branches

LEMMA StoreCyclesRange ==
  ASSUME NEW mode \in MemoryModes \union {"imm", "acc"}
  PROVE  StoreCycles(mode) \in 2 .. 6 /\ (mode \in Indexed => StoreCycles(mode) \in 5 .. 6)
  BY DEF StoreCycles, MemoryModes, Indexed

LEMMA LoadCyclesRange ==
  ASSUME NEW m, NEW i, i.mode \in MemoryModes \union {"imm"} PROVE LoadCycles(m, i) \in 2 .. 8
  <1>1. LoadCycles(m, i) = StoreCycles(i.mode)
        \/ (i.mode \in Indexed /\ LoadCycles(m, i) = StoreCycles(i.mode) - 1)
    BY DEF LoadCycles
  <1> QED
    BY <1>1, StoreCyclesRange

LEMMA DoLoadDone ==
  ASSUME NEW m, WellFormed(m), NEW i, i.mode \in MemoryModes \union {"imm"}
  PROVE  Done(m, DoLoad(m, i), 2, 8)
  <1> DEFINE read == CASE i.mode = "imm" -> Result(m, i.arg)
                       [] i.mode # "imm" /\ i.op = "NOP" -> Result(m, 0)
                       [] OTHER -> BusRead(m, Address(m, i))
             c == Loads(read.m.cpu, i.op, read.v)
  <1>1. read.m \in {m, BusRead(m, Address(m, i)).m}
    BY DEF Result
  <1>2. DoLoad(m, i) = Took([read.m EXCEPT !.cpu = c], LoadCycles(m, i))
    BY DEF DoLoad
  <1> HIDE DEF c, read
  <1>3. Kept(m, m) /\ Kept(m, BusRead(m, Address(m, i)).m)
    BY KeptSelf, BusReadKept
  <1>4. Kept(m, read.m) /\ WellFormed(read.m)
    BY <1>1, <1>3, KeptWellFormed
  <1>5. Kept(m, [read.m EXCEPT !.cpu = c])
    BY <1>4, KeptCpu, KeptThrough
  <1> QED
    BY <1>2, <1>5, LoadCyclesRange, TookDone

LEMMA DoStoreDone ==
  ASSUME NEW m, Usable(m), NEW i, i.mode \in MemoryModes PROVE Done(m, DoStore(m, i), 2, 8)
  <1>1. StoreCycles(i.mode) \in 2 .. 8
    BY StoreCyclesRange
  <1> QED
    BY <1>1, BusWriteKept, TookDone DEF DoStore

LEMMA DoChangeDone ==
  ASSUME NEW m, Usable(m), NEW i, i.mode \in MemoryModes \union {"acc"}
  PROVE  Done(m, DoChange(m, i), 2, 8)
  <1>1. ChangeCycles(i.mode) \in 2 .. 8
    <2>1. StoreCycles(i.mode) \in 2 .. 6
      BY StoreCyclesRange
    <2> QED
      BY <2>1 DEF ChangeCycles
  <1>2. WellFormed(m)
    BY DEF Usable
  <1>3. CASE i.mode = "acc"
    <2> DEFINE done == Changes(m.cpu, i.op, m.cpu.a)
               c == [done.c EXCEPT !.a = done.v]
    <2>1. DoChange(m, i) = Took([m EXCEPT !.cpu = c], ChangeCycles(i.mode))
      BY <1>3 DEF DoChange
    <2> HIDE DEF c
    <2>2. Kept(m, [m EXCEPT !.cpu = c])
      BY <1>2, KeptCpu
    <2> QED
      BY <1>1, <2>1, <2>2, TookDone
  <1>4. CASE i.mode # "acc"
    <2> DEFINE at == BusRead(m, Address(m, i)).m
               done == Changes(at.cpu, i.op, BusRead(m, Address(m, i)).v)
               c == done.c
               changed == [at EXCEPT !.cpu = c]
               v == done.v
               written == BusWrite(changed, Address(m, i), v)
    <2>1. DoChange(m, i) = Took(written, ChangeCycles(i.mode))
      BY <1>4 DEF DoChange
    <2>2. Kept(m, at) /\ WellFormed(at)
      BY <1>2, BusReadKept, KeptWellFormed
    <2> HIDE DEF at, c, v
    <2>3. Kept(m, changed) /\ Usable(changed)
      BY <2>2, KeptCpu, KeptThrough, KeptUsable
    <2> HIDE DEF changed
    <2>4. Kept(m, written)
      BY <2>3, BusWriteKept, KeptThrough
    <2> HIDE DEF written
    <2> QED
      BY <1>1, <2>1, <2>4, TookDone
  <1> QED
    BY <1>3, <1>4

LEMMA DoBranchDone ==
  ASSUME NEW m, WellFormed(m), NEW i PROVE Done(m, DoBranch(m, i), 2, 8)
  <1> DEFINE to == (m.cpu.pc + i.arg) % 65536
             cycles == IF to \div 256 = m.cpu.pc \div 256 THEN 3 ELSE 4
  <1>1. \/ DoBranch(m, i) = Took(m, 2)
        \/ DoBranch(m, i) = Took([m EXCEPT !.cpu.pc = to], cycles)
    BY DEF DoBranch
  <1>2. cycles \in 2 .. 8
    OBVIOUS
  <1> HIDE DEF to, cycles
  <1>3. Kept(m, m) /\ Kept(m, [m EXCEPT !.cpu.pc = to])
    BY KeptSelf, KeptPc
  <1> QED
    BY <1>1, <1>2, <1>3, TookDone

LEMMA DoJumpDone ==
  ASSUME NEW m, WellFormed(m), NEW i PROVE Done(m, DoJump(m, i), 2, 8)
  <1> DEFINE next == IF i.arg % 256 = 255 THEN i.arg - 255 ELSE i.arg + 1
             to == i.arg
             jumped == JumpTo(ReadWord(m, to, next))
  <1>1. \/ DoJump(m, i) = Took([m EXCEPT !.cpu.pc = to], 3)
        \/ DoJump(m, i) = Took(jumped, 5)
    BY DEF DoJump
  <1> HIDE DEF next
  <1>2. Kept(m, jumped)
    BY JumpToKept
  <1> HIDE DEF to, jumped
  <1>3. Kept(m, [m EXCEPT !.cpu.pc = to])
    BY KeptPc
  <1> QED
    BY <1>1, <1>2, <1>3, TookDone

LEMMA ImpliedDone ==
  ASSUME NEW m, WellFormed(m), NEW i
  PROVE  Done(m, Took([m EXCEPT !.cpu = Implied(@, i.op)], 2), 2, 8)
  BY KeptCpu, TookDone

LEMMA ExecuteDone ==
  ASSUME NEW m, Usable(m), NEW i, i.op \in Operations \ {"BRK", "JAM"}, i.mode \in ModesOf(i.op)
  PROVE  Done(m, Execute(m, i), 2, 8)
  <1>1. WellFormed(m)
    BY DEF Usable
  <1> USE DEF Execute
  <1>2. CASE i.op \in StackOps
    <2>1. Execute(m, i) = DoStack(m, i)
      BY <1>2 DEF StackOps, Branches, StoreOps, ChangeOps
    <2> QED
      BY <1>1, <1>2, <2>1, DoStackDone
  <1>3. CASE i.op = "JMP"
    <2>1. Execute(m, i) = DoJump(m, i)
      BY <1>3 DEF StackOps, Branches, StoreOps, ChangeOps, ModesOf, Registers, SetsFlag, ClearsFlag
    <2> QED
      BY <1>1, <2>1, DoJumpDone
  <1>4. CASE i.op \in Branches
    <2>1. i.mode = "rel"
      BY <1>4 DEF Branches, ModesOf, Registers, SetsFlag, ClearsFlag
    <2>2. Execute(m, i) = DoBranch(m, i)
      BY <1>4, <2>1 DEF StackOps, Branches, StoreOps, ChangeOps
    <2> QED
      BY <1>1, <2>2, DoBranchDone
  <1>5. CASE i.op \in StoreOps
    <2>1. i.mode \in MemoryModes
      BY <1>5, StoreModes
    <2>2. Execute(m, i) = DoStore(m, i)
      BY <1>5, <2>1 DEF StackOps, Branches, StoreOps, ChangeOps, MemoryModes
    <2> QED
      BY <2>1, <2>2, DoStoreDone
  <1>6. CASE i.op \in ChangeOps
    <2>1. i.mode \in MemoryModes \union {"acc"}
      BY <1>6, ChangeModes
    <2>2. Execute(m, i) = DoChange(m, i)
      BY <1>6, <2>1 DEF StackOps, Branches, StoreOps, ChangeOps, MemoryModes
    <2> QED
      BY <2>1, <2>2, DoChangeDone
  <1>7. CASE i.op \in Registers
    <2>1. i.mode = "imp"
      BY <1>7, RegisterModes
    <2>2. Execute(m, i) = Took([m EXCEPT !.cpu = Implied(@, i.op)], 2)
      BY <1>7, <2>1 DEF StackOps, Branches, StoreOps, ChangeOps, Registers, SetsFlag, ClearsFlag
    <2> QED
      BY <1>1, <2>2, ImpliedDone
  <1>8. CASE i.op \in LoadOps
    <2>1. i.mode \in MemoryModes \union {"imm", "imp"}
      BY <1>8, LoadModes
    <2>2. CASE i.mode = "imp"
      <3>1. Execute(m, i) = Took([m EXCEPT !.cpu = Implied(@, i.op)], 2)
        BY <1>8, <2>2 DEF StackOps, Branches, StoreOps, ChangeOps, LoadOps
      <3> QED
        BY <1>1, <3>1, ImpliedDone
    <2>3. CASE i.mode # "imp"
      <3>1. Execute(m, i) = DoLoad(m, i)
        BY <1>8, <2>3 DEF StackOps, Branches, StoreOps, ChangeOps, LoadOps
      <3> QED
        BY <1>1, <2>1, <2>3, <3>1, DoLoadDone
    <2> QED
      BY <2>2, <2>3
  <1> QED
    BY <1>2, <1>3, <1>4, <1>5, <1>6, <1>7, <1>8 DEF Operations

-----------------------------------------------------------------------------
(* The stepping of dots.                                                   *)

LEMMA Geometry ==
  /\ {DotsPerLine, DrawnDots, Height, VBlankLine, LastLine} \subseteq Nat
  /\ 24 < DotsPerLine /\ 0 < Height /\ Height < VBlankLine /\ VBlankLine < LastLine
  BY GeometryAssumption DEF LongestStep

(* The first dot of a line only makes lines not ready, in the last line.   *)
Begins(p, q) ==
  /\ Record(q, PpuFields)
  /\ q.scanline = p.scanline /\ q.rem = p.rem /\ q.frame = p.frame
  /\ q.lineReady = p.lineReady \/ q.lineReady = FALSE
  /\ p.scanline # LastLine => q.line = p.line /\ q.lineReady = p.lineReady

LEMMA KeptBegins == ASSUME NEW p, NEW q, PpuKept(p, q) PROVE Begins(p, q)
  BY DEF PpuKept, Begins

LEMMA BeginLineBegins ==
  ASSUME NEW p, Record(p, PpuFields), p.scanline \in 0 .. LastLine PROVE Begins(p, BeginLine(p))
  <1> DEFINE top == IF Showing(p) /\ p.scanline = 0 THEN CopyVertical(p) ELSE p
             left == IF Showing(p) THEN CopyHorizontal(top) ELSE top
             on == TRUE
             off == FALSE
             status == 128 + (p.status % 128)
             nmi == p.nmi \/ Bit(p.ctrl, 7) = 1
             blank == [p EXCEPT !.status = status, !.frameReady = on, !.nmi = nmi]
             kept == 32 * Bit(p.status, 5) + (p.status % 32)
             line == [p.line EXCEPT !.ready = off]
             last == [p EXCEPT !.status = kept, !.frameReady = off, !.lineReady = off, !.line = line]
  <1>1. PpuKept(p, LatchRender(left))
    <2>1. PpuKept(p, top)
      BY ScrollKept, PpuKeptSelf
    <2> HIDE DEF top
    <2>2. PpuKept(p, left)
      BY <2>1, ScrollKept, PpuKeptRecord, PpuKeptThrough
    <2> HIDE DEF left
    <2> QED
      BY <2>2, ScrollKept, PpuKeptRecord, PpuKeptThrough
  <1>2. Begins(p, blank)
    <2> HIDE DEF on, off, status, nmi
    <2>1. PpuKept(p, blank)
      BY DEF PpuKept, Record, PpuFields
    <2> QED
      BY <2>1, KeptBegins
  <1>3. p.scanline = LastLine => Begins(p, last)
    <2> off = FALSE
      OBVIOUS
    <2> HIDE DEF on, off, kept, line
    <2> QED
      BY DEF Begins, Record, PpuFields
  <1>4. CASE Drawing(p)
    <2>1. BeginLine(p) = LatchRender(left)
      BY <1>4, Geometry DEF BeginLine, Drawing
    <2> QED
      BY <1>1, <2>1, KeptBegins
  <1>5. CASE p.scanline = VBlankLine
    <2>1. BeginLine(p) = blank
      BY <1>5, Geometry DEF BeginLine, Drawing, Record, PpuFields
    <2> QED
      BY <1>2, <2>1
  <1>6. CASE p.scanline = LastLine
    <2>1. BeginLine(p) = last
      BY <1>6, Geometry DEF BeginLine, Drawing, Record, PpuFields
    <2> QED
      BY <1>3, <1>6, <2>1
  <1>7. CASE ~Drawing(p) /\ p.scanline # VBlankLine /\ p.scanline # LastLine
    <2>1. BeginLine(p) = p
      BY <1>7 DEF BeginLine
    <2> QED
      BY <2>1, KeptBegins, PpuKeptSelf
  <1> QED
    BY <1>4, <1>5, <1>6, <1>7

(* Where a line ends: the next one, and if it was drawn it is ready.       *)
Ends(p, q) ==
  /\ Record(q, PpuFields)
  /\ IF p.scanline < LastLine THEN q.scanline = p.scanline + 1 /\ q.frame = p.frame
     ELSE q.scanline = 0 /\ q.frame = p.frame + 1
  /\ IF p.scanline < Height
     THEN q.lineReady = TRUE /\ q.line = [y |-> p.scanline, frame |-> p.frame, ready |-> TRUE]
     ELSE q.lineReady = p.lineReady

LEMMA RenderedReady ==
  ASSUME NEW p, Record(p, PpuFields), NEW hit
  PROVE  LET q == Rendered(p, hit)
         IN  /\ Record(q, PpuFields) /\ q.scanline = p.scanline /\ q.frame = p.frame
             /\ q.lineReady = TRUE
             /\ q.line = [y |-> p.scanline, frame |-> p.frame, ready |-> TRUE]
  <1> DEFINE on == TRUE
             line == [y |-> p.scanline, frame |-> p.frame, ready |-> TRUE]
             fb == [p.fb EXCEPT ![p.scanline] = p.frame]
             status == IF hit /\ MayHit(p) /\ Bit(p.status, 6) = 0 THEN p.status + 64 ELSE p.status
             q == [p EXCEPT !.line = line, !.lineReady = on, !.fb = fb, !.status = status]
  <1>1. Rendered(p, hit) = q
    BY DEF Rendered, Record, PpuFields
  <1>2. on = TRUE
    OBVIOUS
  <1> HIDE DEF on, line, fb, status
  <1>3. /\ Record(q, PpuFields) /\ q.scanline = p.scanline /\ q.frame = p.frame
        /\ q.lineReady = on /\ q.line = line
    BY DEF Record, PpuFields
  <1> QED
    BY <1>1, <1>2, <1>3 DEF line

LEMMA NextScanlineFields ==
  ASSUME NEW p, Record(p, PpuFields)
  PROVE  LET q == NextScanline(p)
         IN  /\ Record(q, PpuFields) /\ q.lineReady = p.lineReady /\ q.line = p.line
             /\ IF p.scanline < LastLine THEN q.scanline = p.scanline + 1 /\ q.frame = p.frame
                ELSE q.scanline = 0 /\ q.frame = p.frame + 1
  <1> DEFINE y == p.scanline + 1
             frame == p.frame + 1
             within == [p EXCEPT !.scanline = y]
             top == [p EXCEPT !.scanline = 0, !.frame = frame]
  <1>1. NextScanline(p) = IF p.scanline < LastLine THEN within ELSE LatchRender(top)
    BY DEF NextScanline, Record, PpuFields
  <1> HIDE DEF y, frame
  <1>2. /\ Record(within, PpuFields) /\ within.lineReady = p.lineReady /\ within.line = p.line
        /\ within.scanline = y /\ within.frame = p.frame
    BY DEF Record, PpuFields
  <1>3. /\ Record(top, PpuFields) /\ top.lineReady = p.lineReady /\ top.line = p.line
        /\ top.scanline = 0 /\ top.frame = frame
    BY DEF Record, PpuFields
  <1> HIDE DEF within, top
  <1>4. PpuKept(top, LatchRender(top))
    BY <1>3, ScrollKept
  <1> QED
    BY <1>1, <1>2, <1>3, <1>4 DEF PpuKept, y, frame

LEMMA EndLineEnds ==
  ASSUME NEW m, WellFormed(m), m.ppu.scanline \in 0 .. LastLine, NEW hit
  PROVE  LET s == EndLine(m, hit)
         IN  /\ Record(s, MachineFields) /\ Ends(m.ppu, s.ppu) /\ Banked(m.cart, s.cart)
             /\ \A f \in MachineFields \ {"ppu", "cart"} : s[f] = m[f]
  <1> DEFINE p == m.ppu
             drawn == Rendered(p, hit)
             v == IncrementY(drawn.v)
             moved == [drawn EXCEPT !.v = v]
             down == IF Showing(drawn) THEN CopyHorizontal(moved) ELSE drawn
             from == IF Drawing(p) THEN down ELSE p
             q == NextScanline(from)
             ticks == Drawing(p) /\ Showing(p) /\ m.cart.mapper = 4
             d == IF ticks THEN Mmc3Tick(m.cart) ELSE m.cart
  <1>1. /\ Record(drawn, PpuFields) /\ drawn.scanline = p.scanline /\ drawn.frame = p.frame
        /\ drawn.lineReady = TRUE
        /\ drawn.line = [y |-> p.scanline, frame |-> p.frame, ready |-> TRUE]
    BY RenderedReady DEF WellFormed
  <1>2. PpuKept(drawn, down)
    <2> HIDE DEF v, drawn
    <2>1. PpuKept(drawn, moved)
      BY <1>1 DEF PpuKept, Record, PpuFields
    <2> HIDE DEF moved
    <2> QED
      BY <1>1, <2>1, ScrollKept, PpuKeptRecord, PpuKeptThrough, PpuKeptSelf
  <1>3. /\ Record(from, PpuFields) /\ from.scanline = p.scanline /\ from.frame = p.frame
        /\ IF p.scanline < Height
           THEN from.lineReady = TRUE /\ from.line = [y |-> p.scanline, frame |-> p.frame, ready |-> TRUE]
           ELSE from.lineReady = p.lineReady
    <2> HIDE DEF drawn, down
    <2> QED
      BY <1>1, <1>2 DEF PpuKept, Drawing, WellFormed
  <1>4. Ends(p, q)
    <2> HIDE DEF from
    <2> QED
      BY <1>3, NextScanlineFields DEF Ends
  <1>5. Banked(m.cart, d)
    <2>1. Banked(m.cart, Mmc3Tick(m.cart))
      <3> DEFINE count == IF m.cart.counter = 0 \/ m.cart.reload THEN m.cart.latch
                          ELSE m.cart.counter - 1
                 off == FALSE
                 irq == m.cart.irq \/ (count = 0 /\ m.cart.enabled)
                 e == [m.cart EXCEPT !.counter = count, !.reload = off, !.irq = irq]
      <3>1. Mmc3Tick(m.cart) = [[m.cart EXCEPT !.counter = count, !.reload = off] EXCEPT
                                  !.irq = @ \/ (count = 0 /\ m.cart.enabled)]
        BY DEF Mmc3Tick
      <3> HIDE DEF count, off
      <3>2. \A x : Banked(m.cart, [[m.cart EXCEPT !.counter = count, !.reload = off] EXCEPT !.irq = x])
        BY DEF Banked, CartKept, CartFields, WellFormed
      <3> QED
        BY <3>1, <3>2
    <2>2. Banked(m.cart, m.cart)
      BY DEF Banked, CartKept, WellFormed
    <2> QED
      BY <2>1, <2>2
  <1>6. EndLine(m, hit) = [m EXCEPT !.ppu = q, !.cart = d]
    BY DEF EndLine, WellFormed, Record, MachineFields
  <1> HIDE DEF q, d
  <1>7. LET s == [m EXCEPT !.ppu = q, !.cart = d]
        IN  /\ Record(s, MachineFields) /\ s.ppu = q /\ s.cart = d
            /\ \A f \in MachineFields \ {"ppu", "cart"} : s[f] = m[f]
    BY DEF WellFormed, Record, MachineFields
  <1> QED
    BY <1>4, <1>5, <1>6, <1>7

LEMMA PositionedFields ==
  ASSUME NEW p, Record(p, PpuFields), NEW cycle
  PROVE  LET q == Positioned(p, cycle)
         IN  /\ Record(q, PpuFields) /\ q.rem = IF cycle = 0 THEN 0 ELSE DotsPerLine - cycle
             /\ q.scanline = p.scanline /\ q.frame = p.frame
             /\ q.lineReady = p.lineReady /\ q.line = p.line
  <1> DEFINE rem == IF cycle = 0 THEN 0 ELSE DotsPerLine - cycle
  <1>1. Positioned(p, cycle) = [p EXCEPT !.cycle = cycle, !.rem = rem]
    BY DEF Positioned
  <1> HIDE DEF rem
  <1>2. LET q == [p EXCEPT !.cycle = cycle, !.rem = rem]
        IN  /\ Record(q, PpuFields) /\ q.rem = rem
            /\ q.scanline = p.scanline /\ q.frame = p.frame
            /\ q.lineReady = p.lineReady /\ q.line = p.line
    BY DEF Record, PpuFields
  <1> QED
    BY <1>1, <1>2 DEF rem

(* The lines since the reset, of which Dots makes dots.                    *)
LinesPast(ppu) == ppu.frame * (LastLine + 1) + ppu.scanline
Into(rem) == IF rem = 0 THEN 0 ELSE DotsPerLine - rem

LEMMA DotsOfLines ==
  ASSUME NEW p, NEW n \in Nat, LinesPast(p) = n PROVE Dots(p) = n * DotsPerLine + Into(p.rem)
  BY DEF Dots, LinesPast, Into

LEMMA LinesNatural == ASSUME NEW p, OnClock(p) PROVE LinesPast(p) \in Nat
  <1>1. \A f, l, y \in Nat : f * (l + 1) + y \in Nat
    OBVIOUS
  <1> QED
    BY <1>1, Geometry DEF LinesPast, OnClock

LEMMA EndCounts ==
  ASSUME NEW p, NEW q, OnClock(p), Ends(p, q) PROVE LinesPast(q) = LinesPast(p) + 1
  <1>1. \A f, l \in Nat : /\ (f + 1) * (l + 1) + 0 = f * (l + 1) + l + 1
                          /\ f * (l + 1) \in Nat
    OBVIOUS
  <1>2. p.frame \in Nat /\ LastLine \in Nat /\ p.scanline \in 0 .. LastLine
    BY Geometry DEF OnClock
  <1>3. CASE p.scanline < LastLine
    <2>1. q.scanline = p.scanline + 1 /\ q.frame = p.frame
      BY <1>3 DEF Ends
    <2> QED
      BY <1>1, <1>2, <2>1 DEF LinesPast
  <1>4. CASE ~(p.scanline < LastLine)
    <2>1. q.scanline = 0 /\ q.frame = p.frame + 1 /\ p.scanline = LastLine
      BY <1>2, <1>4 DEF Ends
    <2> QED
      BY <1>1, <1>2, <2>1 DEF LinesPast
  <1> QED
    BY <1>3, <1>4

LEMMA LineLonger == ASSUME NEW n \in Nat PROVE (n + 1) * DotsPerLine = n * DotsPerLine + DotsPerLine
  BY Geometry

(* Where the picture is after a step that ends at most one line.           *)
Onward(p, q) ==
  \/ /\ q.scanline = p.scanline /\ q.frame = p.frame
     /\ q.lineReady = p.lineReady \/ q.lineReady = FALSE
  \/ /\ p.scanline < Height /\ q.scanline = p.scanline + 1 /\ q.frame = p.frame
     /\ q.lineReady = TRUE /\ q.line = [y |-> p.scanline, frame |-> p.frame, ready |-> TRUE]
  \/ /\ p.scanline >= Height /\ p.scanline < LastLine
     /\ q.scanline = p.scanline + 1 /\ q.frame = p.frame
     /\ q.lineReady = p.lineReady \/ q.lineReady = FALSE
  \/ /\ p.scanline = LastLine /\ q.scanline = 0 /\ q.frame = p.frame + 1
     /\ q.lineReady = p.lineReady \/ q.lineReady = FALSE

Apart(m, s) ==
  /\ Record(s, MachineFields) /\ Record(s.ppu, PpuFields) /\ Banked(m.cart, s.cart)
  /\ \A f \in MachineFields \ {"ppu", "cart"} : s[f] = m[f]

Stepped(m, s, n) ==
  Apart(m, s) /\ OnClock(s.ppu) /\ Dots(s.ppu) = Dots(m.ppu) + n /\ Onward(m.ppu, s.ppu)

LEMMA WithPpu ==
  ASSUME NEW m, WellFormed(m), NEW q, Record(q, PpuFields)
  PROVE  LET s == [m EXCEPT !.ppu = q] IN Apart(m, s) /\ s.ppu = q /\ s.cart = m.cart
  BY DEF WellFormed, Record, MachineFields, Apart, Banked, CartKept

LEMMA ApartThrough ==
  ASSUME NEW l, NEW m, NEW n, Apart(l, m), Apart(m, n) PROVE Apart(l, n)
  BY DEF Apart, Banked, CartKept

LEMMA ApartWellFormed == ASSUME NEW m, NEW s, Apart(m, s) PROVE WellFormed(s)
  BY DEF Apart, WellFormed, Banked, CartKept

LEMMA StayedOnLine ==
  ASSUME NEW p, NEW q, OnClock(p), OnClock(q), q.scanline = p.scanline, q.frame = p.frame,
         NEW n \in Nat, Into(q.rem) = Into(p.rem) + n
  PROVE  Dots(q) = Dots(p) + n
  <1>1. LinesPast(p) \in Nat /\ LinesPast(q) = LinesPast(p)
    BY LinesNatural DEF LinesPast
  <1> DEFINE k == LinesPast(p)
             x == k * DotsPerLine
  <1>2. Dots(p) = x + Into(p.rem) /\ Dots(q) = x + Into(q.rem)
    BY <1>1, DotsOfLines
  <1>3. x \in Nat /\ Into(p.rem) \in Nat
    BY <1>1, Geometry DEF OnClock, Into
  <1> HIDE DEF x
  <1> QED
    BY <1>2, <1>3

LEMMA BegunFields ==
  ASSUME NEW m, WellFormed(m), OnClock(m.ppu)
  PROVE  LET b == Begun(m) IN Apart(m, b) /\ Begins(m.ppu, b.ppu) /\ OnClock(b.ppu)
  <1> DEFINE q == BeginLine(m.ppu)
             s == [m EXCEPT !.ppu = q]
  <1>1. Begins(m.ppu, q) /\ Record(q, PpuFields)
    BY BeginLineBegins DEF WellFormed, OnClock, Begins
  <1>2. Begins(m.ppu, m.ppu) /\ Apart(m, m)
    BY KeptBegins, PpuKeptSelf DEF WellFormed, Apart, Banked, CartKept
  <1>3. Begun(m) = IF m.ppu.rem = 0 THEN s ELSE m
    BY DEF Begun
  <1>4. Apart(m, s) /\ s.ppu = q
    <2> HIDE DEF q
    <2> QED
      BY <1>1, WithPpu
  <1> HIDE DEF q, s
  <1> QED
    BY <1>1, <1>2, <1>3, <1>4 DEF Begins, OnClock

LEMMA MovedWithin ==
  ASSUME NEW m, WellFormed(m), OnClock(m.ppu), NEW over \in 1 - DotsPerLine .. -1, NEW hit
  PROVE  LET s == Moved(m, over, hit)
         IN  /\ Apart(m, s) /\ OnClock(s.ppu) /\ Into(s.ppu.rem) = DotsPerLine + over
             /\ s.ppu.scanline = m.ppu.scanline /\ s.ppu.frame = m.ppu.frame
             /\ s.ppu.lineReady = m.ppu.lineReady
  <1> DEFINE cycle == DotsPerLine + over
             q == Positioned(m.ppu, cycle)
             s == [m EXCEPT !.ppu = q]
  <1>1. Moved(m, over, hit) = s
    BY Geometry DEF Moved
  <1>2. /\ Record(q, PpuFields) /\ q.rem = IF cycle = 0 THEN 0 ELSE DotsPerLine - cycle
        /\ q.scanline = m.ppu.scanline /\ q.frame = m.ppu.frame /\ q.lineReady = m.ppu.lineReady
    <2> HIDE DEF cycle
    <2> QED
      BY PositionedFields DEF WellFormed
  <1>3. q.rem \in 1 .. DotsPerLine - 1 /\ DotsPerLine - q.rem = cycle
    BY <1>2, Geometry
  <1>4. Apart(m, s) /\ s.ppu = q
    <2> HIDE DEF q
    <2> QED
      BY <1>2, WithPpu
  <1> HIDE DEF q, s
  <1> QED
    BY <1>1, <1>2, <1>3, <1>4, Geometry DEF OnClock, Into

(* The end of a line, with what the first dot of the next one does.        *)
Passed(p, r) ==
  \E q : /\ Ends(p, q) /\ r.scanline = q.scanline /\ r.frame = q.frame
         /\ r.lineReady = q.lineReady \/ r.lineReady = FALSE
         /\ q.scanline # LastLine => r.line = q.line /\ r.lineReady = q.lineReady

LEMMA MovedOn ==
  ASSUME NEW m, WellFormed(m), OnClock(m.ppu), NEW over \in 0 .. 24, NEW hit
  PROVE  LET s == Moved(m, over, hit)
         IN  /\ Apart(m, s) /\ OnClock(s.ppu) /\ Into(s.ppu.rem) = over
             /\ LinesPast(s.ppu) = LinesPast(m.ppu) + 1 /\ Passed(m.ppu, s.ppu)
  <1> DEFINE e == EndLine(m, hit)
             b == IF over = 0 THEN e.ppu ELSE BeginLine(e.ppu)
             q == Positioned(b, over)
             s == [e EXCEPT !.ppu = q]
  <1>1. /\ Apart(m, e) /\ Ends(m.ppu, e.ppu)
    BY EndLineEnds DEF OnClock, Apart, Ends
  <1>2. WellFormed(e)
    BY <1>1, ApartWellFormed
  <1>3. e.ppu.scanline \in 0 .. LastLine /\ e.ppu.frame \in Nat
    BY <1>1, Geometry DEF Ends, OnClock
  <1>4. Moved(m, over, hit) = s
    BY DEF Moved
  <1> HIDE DEF e
  <1>5. Begins(e.ppu, b)
    BY <1>2, <1>3, BeginLineBegins, KeptBegins, PpuKeptSelf DEF WellFormed
  <1> HIDE DEF b
  <1>6. /\ Record(q, PpuFields) /\ q.rem = IF over = 0 THEN 0 ELSE DotsPerLine - over
        /\ q.scanline = b.scanline /\ q.frame = b.frame
        /\ q.lineReady = b.lineReady /\ q.line = b.line
    BY <1>5, PositionedFields DEF Begins
  <1> HIDE DEF q
  <1>7. Apart(e, s) /\ s.ppu = q
    BY <1>2, <1>6, WithPpu
  <1> HIDE DEF s
  <1>8. Apart(m, s) /\ OnClock(q) /\ Into(q.rem) = over
    <2>1. Apart(m, s)
      BY <1>1, <1>7, ApartThrough
    <2>2. q.rem \in 0 .. DotsPerLine - 1 /\ Into(q.rem) = over
      BY <1>6, Geometry DEF Into
    <2> QED
      BY <1>3, <1>5, <1>6, <2>1, <2>2 DEF OnClock, Begins
  <1>9. LinesPast(q) = LinesPast(m.ppu) + 1
    BY <1>1, <1>5, <1>6, EndCounts DEF LinesPast, Begins
  <1>10. /\ q.scanline = e.ppu.scanline /\ q.frame = e.ppu.frame
         /\ q.lineReady = e.ppu.lineReady \/ q.lineReady = FALSE
         /\ e.ppu.scanline # LastLine => q.line = e.ppu.line /\ q.lineReady = e.ppu.lineReady
    BY <1>5, <1>6 DEF Begins
  <1>11. Passed(m.ppu, q)
    BY <1>1, <1>10 DEF Passed
  <1> QED
    BY <1>4, <1>7, <1>8, <1>9, <1>11

LEMMA SlowStepsStepped ==
  ASSUME NEW m, WellFormed(m), OnClock(m.ppu), NEW n \in 1 .. 24, NEW hit
  PROVE  Stepped(m, SlowSteps(m, n, hit), n)
  <1> DEFINE p == m.ppu
             b == Begun(m)
             left == IF p.rem = 0 THEN DotsPerLine ELSE p.rem
             over == n - left
             s == Moved(b, over, hit)
  <1>1. Apart(m, b) /\ Begins(p, b.ppu) /\ OnClock(b.ppu) /\ WellFormed(b)
    BY BegunFields, ApartWellFormed
  <1>2. left \in 1 .. DotsPerLine /\ Into(p.rem) = DotsPerLine - left
    BY Geometry DEF OnClock, Into
  <1>3. over \in Int /\ over + left = n /\ over <= 24 /\ over >= 1 - DotsPerLine
    BY <1>2, Geometry
  <1>4. SlowSteps(m, n, hit) = s
    BY DEF SlowSteps
  <1> HIDE DEF b, left, over
  <1>5. CASE over < 0
    <2>1. over \in 1 - DotsPerLine .. -1
      BY <1>3, <1>5, Geometry
    <2>2. /\ Apart(b, s) /\ OnClock(s.ppu) /\ Into(s.ppu.rem) = DotsPerLine + over
          /\ s.ppu.scanline = b.ppu.scanline /\ s.ppu.frame = b.ppu.frame
          /\ s.ppu.lineReady = b.ppu.lineReady
      BY <1>1, <2>1, MovedWithin
    <2> HIDE DEF s
    <2>3. Apart(m, s)
      BY <1>1, <2>2, ApartThrough
    <2>4. /\ s.ppu.scanline = p.scanline /\ s.ppu.frame = p.frame
          /\ s.ppu.lineReady = p.lineReady \/ s.ppu.lineReady = FALSE
      BY <1>1, <2>2 DEF Begins
    <2>5. Into(s.ppu.rem) = Into(p.rem) + n
      BY <1>2, <1>3, <2>2, Geometry
    <2>6. Dots(s.ppu) = Dots(p) + n
      BY <2>2, <2>4, <2>5, StayedOnLine
    <2> QED
      BY <1>4, <2>2, <2>3, <2>4, <2>6 DEF Stepped, Onward
  <1>6. CASE over >= 0
    <2>1. over \in 0 .. 24
      BY <1>3, <1>6
    <2>2. /\ Apart(b, s) /\ OnClock(s.ppu) /\ Into(s.ppu.rem) = over
          /\ LinesPast(s.ppu) = LinesPast(b.ppu) + 1 /\ Passed(b.ppu, s.ppu)
      BY <1>1, <2>1, MovedOn
    <2> HIDE DEF s
    <2>4. Apart(m, s)
      BY <1>1, <2>2, ApartThrough
    <2>5. PICK q : /\ Ends(b.ppu, q) /\ s.ppu.scanline = q.scanline /\ s.ppu.frame = q.frame
                   /\ s.ppu.lineReady = q.lineReady \/ s.ppu.lineReady = FALSE
                   /\ q.scanline # LastLine =>
                        s.ppu.line = q.line /\ s.ppu.lineReady = q.lineReady
      BY <2>2 DEF Passed
    <2>6. Onward(p, s.ppu)
      BY <1>1, <2>5, Geometry DEF Onward, Ends, Begins, OnClock
    <2>7. Dots(s.ppu) = Dots(p) + n
      <3> DEFINE k == LinesPast(p)
                 x == k * DotsPerLine
      <3>1. k \in Nat /\ LinesPast(s.ppu) = k + 1
        BY <1>1, <2>2, LinesNatural DEF LinesPast, Begins
      <3>2. Dots(p) = x + (DotsPerLine - left)
        BY <1>2, <3>1, DotsOfLines
      <3>3. Dots(s.ppu) = (k + 1) * DotsPerLine + over
        BY <2>2, <3>1, DotsOfLines
      <3>4. (k + 1) * DotsPerLine = x + DotsPerLine /\ x \in Nat
        BY <3>1, LineLonger, Geometry
      <3> HIDE DEF x
      <3> QED
        BY <1>2, <1>3, <3>2, <3>3, <3>4, Geometry
    <2> QED
      BY <1>4, <2>2, <2>4, <2>6, <2>7 DEF Stepped
  <1> QED
    BY <1>3, <1>5, <1>6

LEMMA StepsStepped ==
  ASSUME NEW m, WellFormed(m), OnClock(m.ppu), NEW n \in 1 .. 24, NEW hit
  PROVE  Stepped(m, Steps(m, n, hit), n)
  <1>1. CASE m.ppu.rem > n
    <2> DEFINE rem == m.ppu.rem - n
               q == [m.ppu EXCEPT !.rem = rem]
               s == [m EXCEPT !.ppu = q]
    <2>1. Steps(m, n, hit) = s
      BY <1>1 DEF Steps
    <2>2. rem \in 1 .. DotsPerLine - 1 /\ Into(rem) = Into(m.ppu.rem) + n
      BY <1>1, Geometry DEF OnClock, Into
    <2> HIDE DEF rem
    <2>3. /\ Record(q, PpuFields) /\ q.rem = rem /\ q.scanline = m.ppu.scanline
          /\ q.frame = m.ppu.frame /\ q.lineReady = m.ppu.lineReady
      BY DEF WellFormed, Record, PpuFields
    <2> HIDE DEF q
    <2>4. Apart(m, s) /\ s.ppu = q
      BY <2>3, WithPpu
    <2> HIDE DEF s
    <2>5. OnClock(q)
      BY <2>2, <2>3 DEF OnClock
    <2>6. Dots(q) = Dots(m.ppu) + n
      BY <2>2, <2>3, <2>5, StayedOnLine
    <2> QED
      BY <2>1, <2>3, <2>4, <2>5, <2>6 DEF Stepped, Onward
  <1>2. CASE ~(m.ppu.rem > n)
    BY <1>2, SlowStepsStepped DEF Steps
  <1> QED
    BY <1>1, <1>2

-----------------------------------------------------------------------------
(* One call of cpu6502_step.                                               *)

Ran(m, s, cycles) ==
  /\ Sound(s) /\ s.rom = m.rom /\ cycles \in Nat /\ s.pending = m.pending + cycles
  /\ Dots(s.ppu) = Dots(m.ppu) + 3 * cycles /\ Onward(m.ppu, s.ppu)

LEMMA KeptSound == ASSUME NEW m, NEW n, Sound(m), Kept(m, n) PROVE Sound(n)
  <1>1. WellFormed(n) /\ InStep(n)
    BY KeptWellFormed DEF Sound, Kept
  <1>2. Inserted(n)
    BY DEF Sound, Kept, Inserted, CartKept
  <1> QED
    BY <1>1, <1>2 DEF Sound, Kept, PpuKept, OnClock

LEMMA CountedSound ==
  ASSUME NEW m, Sound(m), NEW cycles \in Nat
  PROVE  LET n == [m EXCEPT !.pending = @ + cycles]
         IN  /\ Sound(n) /\ n.rom = m.rom /\ n.pending = m.pending + cycles
             /\ n.ppu = m.ppu /\ n.cart = m.cart
  <1> DEFINE pending == m.pending + cycles
             n == [m EXCEPT !.pending = pending]
  <1>1. pending \in Nat
    BY DEF Sound
  <1>2. [m EXCEPT !.pending = @ + cycles] = n
    OBVIOUS
  <1> HIDE DEF pending
  <1>3. /\ Record(n, MachineFields) /\ n.pending = pending
        /\ \A f \in MachineFields \ {"pending"} : n[f] = m[f]
    BY DEF Sound, WellFormed, Record, MachineFields
  <1>4. /\ n.rom = m.rom /\ n.ppu = m.ppu /\ n.cart = m.cart /\ n.chr = m.chr
        /\ n.lo = m.lo /\ n.hi = m.hi /\ n.mask = m.mask
    BY <1>3 DEF MachineFields
  <1> HIDE DEF n
  <1>5. Sound(n)
    BY <1>1, <1>3, <1>4 DEF Sound, WellFormed, InStep, Inserted
  <1> QED
    BY <1>2, <1>3, <1>4, <1>5 DEF pending

LEMMA SteppedSound ==
  ASSUME NEW l, NEW s, NEW n, Sound(l), Stepped(l, s, n)
  PROVE  Sound(s) /\ s.rom = l.rom /\ s.pending = l.pending
  <1>1. /\ s.rom = l.rom /\ s.pending = l.pending /\ s.chr = l.chr
        /\ s.lo = l.lo /\ s.hi = l.hi /\ s.mask = l.mask
    BY DEF Stepped, Apart, MachineFields
  <1>2. WellFormed(s)
    BY ApartWellFormed DEF Stepped
  <1>3. InStep(s) /\ Inserted(s)
    BY <1>1 DEF Sound, Stepped, Apart, Banked, CartKept, InStep, Inserted
  <1> QED
    BY <1>1, <1>2, <1>3 DEF Sound, Stepped

LEMMA SamePlace ==
  ASSUME NEW p, NEW q, PpuKept(p, q), NEW r
  PROVE  Dots(q) = Dots(p) /\ (Onward(q, r) => Onward(p, r))
  BY DEF PpuKept, Dots, Onward

LEMMA InterruptRan ==
  ASSUME NEW m, Sound(m), NEW vector, NEW break, NEW hit
  PROVE  Ran(m, Interrupt(m, vector, break, hit), 7)
  <1> DEFINE flags == IF break THEN m.cpu.p \union {"B", "U"} ELSE (m.cpu.p \union {"U"}) \ {"B"}
             byte == PackFlags(flags)
             first == PushWord(m, m.cpu.pc)
             pushed == Push(first, byte)
             p == pushed.cpu.p \union {"I"}
             barred == [pushed EXCEPT !.cpu.p = p]
             masked == [barred EXCEPT !.pending = @ + 7]
             high == vector + 1
             jumped == JumpTo(ReadWord(masked, vector, high))
             s == SlowSteps(jumped, 21, hit)
  <1>1. Interrupt(m, vector, break, hit) = s
    BY DEF Interrupt
  <1>2. WellFormed(m)
    BY DEF Sound
  <1>3. Kept(m, first) /\ WellFormed(first)
    BY <1>2, PushWordKept, KeptWellFormed
  <1> HIDE DEF first, byte
  <1>4. Kept(m, pushed) /\ WellFormed(pushed)
    BY <1>3, PushKept, KeptThrough, KeptWellFormed
  <1> HIDE DEF pushed, p
  <1>5. Kept(m, barred) /\ Sound(barred)
    BY <1>4, KeptPc, KeptThrough, KeptSound
  <1> HIDE DEF barred
  <1>6. /\ Sound(masked) /\ masked.rom = barred.rom /\ masked.pending = barred.pending + 7
        /\ masked.ppu = barred.ppu
    BY <1>5, CountedSound
  <1> HIDE DEF masked, high
  <1>7. Kept(masked, jumped) /\ Sound(jumped)
    BY <1>6, JumpToKept, KeptSound DEF Sound
  <1> HIDE DEF jumped
  <1>8. Stepped(jumped, s, 21)
    BY <1>7, SlowStepsStepped DEF Sound
  <1> HIDE DEF s
  <1>9. Sound(s) /\ s.rom = jumped.rom /\ s.pending = jumped.pending
    BY <1>7, <1>8, SteppedSound
  <1>10. PpuKept(m.ppu, jumped.ppu)
    BY <1>5, <1>6, <1>7, PpuKeptThrough DEF Kept
  <1>11. Dots(s.ppu) = Dots(m.ppu) + 21 /\ Onward(m.ppu, s.ppu)
    BY <1>8, <1>10, SamePlace DEF Stepped
  <1> QED
    BY <1>1, <1>5, <1>6, <1>7, <1>9, <1>11 DEF Ran, Kept

LEMMA SoundWellFormed == ASSUME NEW m, Sound(m) PROVE WellFormed(m) /\ OnClock(m.ppu)
  BY DEF Sound

LEMMA KeptRan ==
  ASSUME NEW m, NEW n, Kept(m, n), NEW s, NEW cycles, Ran(n, s, cycles) PROVE Ran(m, s, cycles)
  BY SamePlace DEF Kept, Ran

LEMMA JamRan == ASSUME NEW m, Sound(m) PROVE Ran(m, Jam(m), 0)
  <1>1. Kept(m, Jam(m))
    <2> DEFINE n == [m EXCEPT !.cpu.jammed = TRUE]
               pc == (m.cpu.pc + 1) % 65536
    <2>1. Kept(m, n)
      <3>1. \A c : Kept(m, [m EXCEPT !.cpu = c])
        BY SoundWellFormed, KeptCpu
      <3> QED
        BY <3>1
    <2>2. Jam(m) = [n EXCEPT !.cpu.pc = pc]
      BY DEF Jam
    <2> HIDE DEF n, pc
    <2>3. Kept(n, [n EXCEPT !.cpu.pc = pc])
      BY <2>1, SoundWellFormed, KeptWellFormed, KeptPc
    <2> QED
      BY <2>1, <2>2, <2>3, KeptThrough
  <1>2. Sound(Jam(m))
    BY <1>1, KeptSound
  <1>3. Dots(m.ppu) = Dots(m.ppu) + 3 * 0 /\ m.pending = m.pending + 0
    <2>1. LinesPast(m.ppu) \in Nat
      BY LinesNatural DEF Sound
    <2> DEFINE n == LinesPast(m.ppu)
    <2>2. Dots(m.ppu) = n * DotsPerLine + Into(m.ppu.rem)
      BY <2>1, DotsOfLines
    <2>3. n * DotsPerLine \in Nat /\ Into(m.ppu.rem) \in Nat
      BY <2>1, Geometry DEF Sound, OnClock, Into
    <2> QED
      BY <2>2, <2>3 DEF Sound
  <1> QED
    BY <1>1, <1>2, <1>3 DEF Ran, Kept, PpuKept, Onward, Dots

LEMMA InstructionRan ==
  ASSUME NEW m, Sound(m), NEW i, i.op \in Operations, i.mode \in ModesOf(i.op), NEW hit
  PROVE  \E cycles \in Nat : Ran(m, Instruction(m, i, hit), cycles)
  <1>1. CASE i.op = "JAM"
    <2>1. Instruction(m, i, hit) = Jam(m)
      BY <1>1 DEF Instruction
    <2> QED
      BY <2>1, JamRan
  <1>2. CASE i.op = "BRK"
    <2> DEFINE pc == (m.cpu.pc + 2) % 65536
               n == [m EXCEPT !.cpu.pc = pc]
               s == Interrupt(n, VectorIrq, TRUE, hit)
    <2>1. Instruction(m, i, hit) = s
      BY <1>2 DEF Instruction
    <2> HIDE DEF pc
    <2>2. Kept(m, n) /\ Sound(n)
      BY KeptPc, KeptSound, SoundWellFormed
    <2> HIDE DEF n
    <2>3. Ran(n, s, 7)
      BY <2>2, InterruptRan
    <2> HIDE DEF s
    <2>4. Ran(m, s, 7)
      BY <2>2, <2>3, KeptRan
    <2> QED
      BY <2>1, <2>4
  <1>3. CASE i.op \in Operations \ {"BRK", "JAM"}
    <2> DEFINE past == Past(m, i)
               done == Execute(past, i)
               n == done.m
               cycles == done.cycles
               counted == [n EXCEPT !.pending = @ + cycles]
               s == Steps(counted, 3 * cycles, hit)
    <2>1. Instruction(m, i, hit) = s
      <3>1. i.op # "JAM" /\ i.op # "BRK"
        BY <1>3
      <3> QED
        BY <3>1 DEF Instruction
    <2>2. Kept(m, past) /\ Sound(past) /\ Usable(past)
      <3> DEFINE pc == (m.cpu.pc + Length(i.mode)) % 65536
      <3>0. past = [m EXCEPT !.cpu.pc = pc]
        BY DEF Past
      <3> HIDE DEF pc, past
      <3>1. Kept(m, past) /\ Sound(past)
        BY <3>0, KeptPc, KeptSound, SoundWellFormed
      <3> QED
        BY <3>1, RomsAssumption DEF Usable, Sound, Inserted, MapperNumbers
    <2> HIDE DEF past
    <2>3. Kept(past, n) /\ cycles \in 2 .. 8
      BY <1>3, <2>2, ExecuteDone DEF Done
    <2> HIDE DEF done
    <2>4. Kept(m, n) /\ Sound(n)
      BY <2>2, <2>3, KeptThrough, KeptSound
    <2> HIDE DEF n, cycles
    <2>5. /\ Sound(counted) /\ counted.rom = n.rom /\ counted.pending = n.pending + cycles
          /\ counted.ppu = n.ppu
      BY <2>3, <2>4, CountedSound
    <2> HIDE DEF counted
    <2>6. 3 * cycles \in 1 .. 24
      BY <2>3
    <2>7. Stepped(counted, s, 3 * cycles)
      BY <2>5, <2>6, StepsStepped DEF Sound
    <2> HIDE DEF s
    <2>8. Sound(s) /\ s.rom = counted.rom /\ s.pending = counted.pending
      BY <2>5, <2>7, SteppedSound
    <2>9. Ran(n, s, cycles)
      BY <2>3, <2>5, <2>7, <2>8 DEF Ran, Stepped
    <2> QED
      BY <2>1, <2>3, <2>4, <2>9, KeptRan
  <1> QED
    BY <1>1, <1>2, <1>3

-----------------------------------------------------------------------------
(* A launch and a reset.                                                   *)

LEMMA InitFields ==
  ASSUME NEW c, CartFields \subseteq DOMAIN c, NEW x, NEW y, NEW z, NEW w
  PROVE  /\ CartKept(c, [c EXCEPT !.shift = x, !.shifted = x, !.control = y,
                                  !.chr0 = x, !.chr1 = x, !.prg = x])
         /\ CartKept(c, [c EXCEPT !.select = x, !.latch = x, !.counter = x, !.reload = y,
                                  !.enabled = y, !.irq = y, !.data = z])
         /\ CartKept(c, [c EXCEPT !.fd0 = x, !.fe0 = x, !.fd1 = x, !.fe1 = x,
                                  !.latch0 = y, !.latch1 = y, !.win8 = z])
         /\ CartKept(c, [c EXCEPT !.ticking = y, !.ticks = x, !.irq = y, !.low = w, !.win8 = z])
         /\ CartKept(c, [c EXCEPT !.mirror = x])
  BY DEF CartKept, CartFields

LEMMA Mmc1InitKept ==
  ASSUME NEW c, CartFields \subseteq DOMAIN c PROVE CartKept(c, Mmc1Init(c))
  <1> DEFINE x == 0
             y == 12
             d == [c EXCEPT !.shift = x, !.shifted = x, !.control = y, !.chr0 = x, !.chr1 = x,
                            !.prg = x]
  <1>1. Mmc1Init(c) = Mmc1Banks(d)
    BY DEF Mmc1Init
  <1> HIDE DEF x, y
  <1>2. CartKept(c, d)
    BY InitFields
  <1> HIDE DEF d
  <1> QED
    BY <1>1, <1>2, Mmc1BanksKept, CartKeptFields, CartKeptThrough

LEMMA Mmc3InitKept ==
  ASSUME NEW c, CartFields \subseteq DOMAIN c PROVE CartKept(c, Mmc3Init(c))
  <1> DEFINE x == 0
             y == FALSE
             z == <<0, 2, 4, 5, 6, 7, 0, 1>>
             d == [c EXCEPT !.select = x, !.latch = x, !.counter = x, !.reload = y,
                            !.enabled = y, !.irq = y, !.data = z]
  <1>1. Mmc3Init(c) = Mmc3Banks(d)
    BY DEF Mmc3Init
  <1> HIDE DEF x, y, z
  <1>2. CartKept(c, d)
    BY InitFields
  <1> HIDE DEF d
  <1> QED
    BY <1>1, <1>2, Mmc3BanksKept, CartKeptFields, CartKeptThrough

LEMMA Mmc2InitKept ==
  ASSUME NEW c, CartFields \subseteq DOMAIN c PROVE CartKept(c, Mmc2Init(c))
  <1> DEFINE x == 0
             y == TRUE
             z == <<0, c.size - 3, c.size - 2, c.size - 1>>
             d == [c EXCEPT !.fd0 = x, !.fe0 = x, !.fd1 = x, !.fe1 = x, !.latch0 = y,
                            !.latch1 = y, !.win8 = z]
             l == z[1]
             h == z[3]
  <1>1. Mmc2Init(c) = LoHi(d, l, h)
    BY DEF Mmc2Init
  <1> HIDE DEF x, y, z, l, h
  <1>2. CartKept(c, d)
    BY InitFields
  <1> HIDE DEF d
  <1> QED
    BY <1>1, <1>2, LoHiKept, CartKeptFields, CartKeptThrough

LEMMA Mapper40InitKept ==
  ASSUME NEW c, CartFields \subseteq DOMAIN c PROVE CartKept(c, Mapper40Init(c))
  <1> DEFINE x == 0
             y == FALSE
             z == <<FromEnd(c, 3), FromEnd(c, 2), 0, FromEnd(c, 0)>>
             w == FromEnd(c, 1)
             d == [c EXCEPT !.ticking = y, !.ticks = x, !.irq = y, !.low = w, !.win8 = z]
             l == z[1]
             h == z[3]
  <1>1. Mapper40Init(c) = LoHi(d, l, h)
    BY DEF Mapper40Init
  <1> HIDE DEF x, y, z, w, l, h
  <1>2. CartKept(c, d)
    BY InitFields
  <1> HIDE DEF d
  <1> QED
    BY <1>1, <1>2, LoHiKept, CartKeptFields, CartKeptThrough

LEMMA CartInitKept ==
  ASSUME NEW c, CartFields \subseteq DOMAIN c, c.mapper \in MapperNumbers
  PROVE  CartKept(c, CartInit(c))
  <1> DEFINE hi == IF c.size = 2 THEN 0 ELSE 2
             last == c.size - 2
             b == Within(4 * (0 % 8), 4, c.size)
             further == b + 2
             banks == LoHi(c, b, further)
             lower == [banks EXCEPT !.mirror = "lower"]
  <1>1. CartInit(c) \in {LoHi(c, 0, hi), Mmc1Init(c), LoHi(c, 0, last), Mmc3Init(c), lower,
                         Mmc2Init(c), LoHi(c, 0, 2), Mapper40Init(c)}
    BY DEF CartInit, MapperNumbers, AxromBanks
  <1> HIDE DEF hi, last, b, further
  <1>2. CartKept(c, banks)
    BY LoHiKept
  <1> HIDE DEF banks
  <1>3. CartKept(c, lower)
    BY <1>2, InitFields, CartKeptFields, CartKeptThrough
  <1> HIDE DEF lower
  <1>4. CartKept(c, LoHi(c, 0, hi)) /\ CartKept(c, LoHi(c, 0, last)) /\ CartKept(c, LoHi(c, 0, 2))
    BY LoHiKept
  <1> QED
    BY <1>1, <1>3, <1>4, Mmc1InitKept, Mmc3InitKept, Mmc2InitKept, Mapper40InitKept

LEMMA CartResetKept ==
  ASSUME NEW c, CartFields \subseteq DOMAIN c PROVE CartKept(c, CartReset(c))
  BY Mmc1InitKept, Mmc3InitKept DEF CartReset, CartKept

LEMMA ParsedKept ==
  ASSUME NEW r
  PROVE  LET c == Parsed(r)
         IN  /\ CartFields \subseteq DOMAIN c /\ c.mapper = r.mapper /\ c.size = r.size
             /\ c.chrRam = r.chrRam
  BY DEF Parsed, CartFields

LEMMA PpuResetFields ==
  /\ Record(PpuReset, PpuFields) /\ PpuReset.scanline = LastLine
  /\ PpuReset.rem = 0 /\ PpuReset.frame = 0
  BY DEF PpuReset, Record, PpuFields

LEMMA ResetOnClock ==
  OnClock(PpuReset) /\ Dots(PpuReset) = LastLine * DotsPerLine /\ PpuReset.scanline >= Height
  <1>1. OnClock(PpuReset) /\ PpuReset.scanline >= Height
    BY PpuResetFields, Geometry DEF OnClock
  <1>2. LinesPast(PpuReset) = LastLine
    BY PpuResetFields, Geometry DEF LinesPast
  <1>3. Dots(PpuReset) = LastLine * DotsPerLine + 0
    BY <1>2, PpuResetFields, DotsOfLines, Geometry DEF Into
  <1>4. LastLine * DotsPerLine \in Nat
    BY Geometry
  <1> QED
    BY <1>1, <1>3, <1>4

(* A machine without a picture that goes on, before its pointers are       *)
(* cached: nes_reset makes it a sound one.                                 *)
Fitted(m, rom) ==
  /\ Record(m, MachineFields) /\ m.ppu = PpuReset /\ CartFields \subseteq DOMAIN m.cart
  /\ m.rom = rom /\ m.pending = 0 /\ Inserted(m)

LEMMA Reset6502Kept == ASSUME NEW m, WellFormed(m) PROVE Kept(m, Reset6502(m))
  <1> DEFINE c == [a |-> 0, x |-> 0, y |-> 0, sp |-> 253, p |-> {"I", "U"}, pc |-> 0,
                   jammed |-> FALSE]
             n == [m EXCEPT !.cpu = c]
             high == VectorReset + 1
  <1>1. Reset6502(m) = JumpTo(ReadWord(n, VectorReset, high))
    BY DEF Reset6502
  <1> HIDE DEF c, high
  <1>2. Kept(m, n) /\ WellFormed(n)
    BY KeptCpu, KeptWellFormed
  <1> HIDE DEF n
  <1> QED
    BY <1>1, <1>2, JumpToKept, KeptThrough

(* What both leave: a sound console whose picture was reset.               *)
FromReset(m, rom) ==
  /\ Sound(m) /\ m.rom = rom /\ m.pending = 0 /\ PpuKept(PpuReset, m.ppu)

LEMMA ResetSound ==
  ASSUME NEW m, NEW rom, Fitted(m, rom) PROVE FromReset(Reset6502(Sync(m)), rom)
  <1> DEFINE s == Sync(m)
  <1>1. /\ Record(s, MachineFields) /\ InStep(s)
        /\ \A f \in MachineFields \ {"lo", "hi", "mask"} : s[f] = m[f]
    BY SyncFresh DEF Fitted
  <1> HIDE DEF s
  <1>2. /\ s.rom = rom /\ s.pending = 0 /\ s.ppu = PpuReset /\ s.cart = m.cart /\ s.chr = m.chr
        /\ m.rom = rom
    BY <1>1 DEF Fitted, MachineFields
  <1>3. WellFormed(s) /\ Inserted(s)
    BY <1>1, <1>2, PpuResetFields DEF Fitted, WellFormed, Inserted
  <1>4. Sound(s)
    BY <1>1, <1>2, <1>3, ResetOnClock DEF Sound
  <1>5. Kept(s, Reset6502(s))
    BY <1>3, Reset6502Kept
  <1> QED
    BY <1>2, <1>4, <1>5, KeptSound DEF FromReset, Kept, s

LEMMA LaunchedFromReset ==
  ASSUME NEW rom \in DOMAIN Roms PROVE FromReset(Launched(rom), rom)
  <1> DEFINE cart == CartInit(Parsed(Roms[rom]))
             pads == <<Released, Released>>
             cpu == [a |-> 0, x |-> 0, y |-> 0, sp |-> 253, p |-> {"I", "U"}, pc |-> 0,
                     jammed |-> FALSE]
             m == [rom |-> rom, ram |-> << >>, wram |-> << >>, chr |-> << >>, ppu |-> PpuReset,
                   cart |-> cart, pads |-> pads, lo |-> 0, hi |-> 0, mask |-> 0, pending |-> 0,
                   cpu |-> cpu]
  <1>1. Launched(rom) = Reset6502(Sync(m))
    BY DEF Launched
  <1>2. CartKept(Parsed(Roms[rom]), cart)
    <2>1. Parsed(Roms[rom]).mapper \in MapperNumbers
      BY ParsedKept, RomsAssumption DEF MapperNumbers
    <2> QED
      BY <2>1, ParsedKept, CartInitKept
  <1> HIDE DEF cart, pads, cpu
  <1>3. /\ Record(m, MachineFields) /\ m.ppu = PpuReset /\ m.cart = cart /\ m.rom = rom
        /\ m.pending = 0 /\ m.chr = << >>
    BY DEF Record, MachineFields
  <1> HIDE DEF m
  <1>4. Fitted(m, rom)
    BY <1>2, <1>3, ParsedKept DEF Fitted, Inserted, CartKept
  <1> QED
    BY <1>1, <1>4, ResetSound

LEMMA RestartedFromReset ==
  ASSUME NEW m, Sound(m), m.pending = 0 PROVE FromReset(Restarted(m), m.rom)
  <1> DEFINE cart == CartReset(m.cart)
             pads == [n \in 1 .. 2 |-> PadReset(m.pads[n])]
             n == [m EXCEPT !.ram = << >>, !.wram = << >>, !.ppu = PpuReset, !.cart = cart,
                            !.pads = pads]
  <1>1. Restarted(m) = Reset6502(Sync(n))
    BY DEF Restarted, Sound, WellFormed, Record, MachineFields
  <1>2. CartKept(m.cart, cart)
    BY CartResetKept DEF Sound, WellFormed
  <1> HIDE DEF cart, pads
  <1>3. /\ Record(n, MachineFields) /\ n.ppu = PpuReset /\ n.cart = cart /\ n.rom = m.rom
        /\ n.pending = 0 /\ n.chr = m.chr
    BY DEF Record, MachineFields, Sound, WellFormed
  <1> HIDE DEF n
  <1>4. Fitted(n, m.rom)
    BY <1>2, <1>3 DEF Fitted, Inserted, CartKept, Sound
  <1> QED
    BY <1>1, <1>4, ResetSound

-----------------------------------------------------------------------------
(* What the calls of the host and the interrupts do to a sound console.    *)

LEMMA WithCart ==
  ASSUME NEW m, Sound(m), NEW d, CartKept(m.cart, d), d.lo = m.cart.lo, d.hi = m.cart.hi
  PROVE  /\ Kept(m, [m EXCEPT !.cart = d]) /\ Sound([m EXCEPT !.cart = d])
         /\ [m EXCEPT !.cart = d].ppu = m.ppu
  <1>1. Kept(m, [m EXCEPT !.cart = d])
    BY SoundWellFormed, KeptCart
  <1>2. [m EXCEPT !.cart = d].ppu = m.ppu
    BY DEF Sound, WellFormed, Record, MachineFields
  <1> QED
    BY <1>1, <1>2, KeptSound

LEMMA TickFields ==
  ASSUME NEW c, CartFields \subseteq DOMAIN c, NEW x, NEW y, NEW z
  PROVE  Banked(c, [c EXCEPT !.ticks = x, !.irq = y, !.ticking = z])
  BY DEF Banked, CartKept, CartFields

LEMMA TickedBanked ==
  ASSUME NEW c, CartFields \subseteq DOMAIN c, NEW n PROVE Banked(c, Mapper40Tick(c, n))
  <1> DEFINE ticks == c.ticks + n
             irq == c.irq \/ c.ticks + n >= Period
             ticking == c.ticks + n < Period
             d == [c EXCEPT !.ticks = ticks, !.irq = irq, !.ticking = ticking]
  <1>1. Mapper40Tick(c, n) = IF ~c.ticking THEN c ELSE d
    BY DEF Mapper40Tick
  <1> HIDE DEF ticks, irq, ticking
  <1>2. Banked(c, c) /\ Banked(c, d)
    BY TickFields DEF Banked, CartKept
  <1> HIDE DEF d
  <1> QED
    BY <1>1, <1>2

LEMMA FlushedSound ==
  ASSUME NEW s, Sound(s)
  PROVE  LET f == Flushed(s)
         IN  Sound(f) /\ f.rom = s.rom /\ f.pending = 0 /\ f.ppu = s.ppu
  <1> DEFINE d == IF s.cart.mapper = 40 THEN Mapper40Tick(s.cart, s.pending) ELSE s.cart
             counted == [s EXCEPT !.cart = d]
             f == [counted EXCEPT !.pending = 0]
  <1>1. Banked(s.cart, d)
    BY TickedBanked DEF Sound, WellFormed, Banked, CartKept
  <1>2. Flushed(s) = f
    BY DEF Flushed, Sound, WellFormed, Record, MachineFields
  <1> HIDE DEF d
  <1>3. Kept(s, counted) /\ Sound(counted) /\ counted.ppu = s.ppu
    BY <1>1, WithCart DEF Banked
  <1> HIDE DEF counted
  <1>4. /\ Record(f, MachineFields) /\ f.pending = 0
        /\ \A x \in MachineFields \ {"pending"} : f[x] = counted[x]
    BY <1>3 DEF Sound, WellFormed, Record, MachineFields
  <1>5. /\ f.rom = counted.rom /\ f.ppu = counted.ppu /\ f.cart = counted.cart
        /\ f.chr = counted.chr /\ f.lo = counted.lo /\ f.hi = counted.hi /\ f.mask = counted.mask
    BY <1>4 DEF MachineFields
  <1> HIDE DEF f
  <1>6. Sound(f)
    BY <1>3, <1>4, <1>5 DEF Sound, WellFormed, InStep, Inserted
  <1> QED
    BY <1>2, <1>3, <1>4, <1>5, <1>6 DEF Kept

(* Another picture at the same place.                                      *)
SamePicture(p, q) ==
  Record(q, PpuFields) /\ q.scanline = p.scanline /\ q.rem = p.rem /\ q.frame = p.frame

LEMMA WithPicture ==
  ASSUME NEW m, Sound(m), NEW q, SamePicture(m.ppu, q)
  PROVE  LET n == [m EXCEPT !.ppu = q]
         IN  Sound(n) /\ n.rom = m.rom /\ n.pending = m.pending /\ n.ppu = q
             /\ Dots(q) = Dots(m.ppu)
  <1> DEFINE n == [m EXCEPT !.ppu = q]
  <1>1. /\ Record(n, MachineFields) /\ n.ppu = q
        /\ \A x \in MachineFields \ {"ppu"} : n[x] = m[x]
    BY DEF Sound, WellFormed, Record, MachineFields
  <1>2. /\ n.rom = m.rom /\ n.pending = m.pending /\ n.cart = m.cart
        /\ n.chr = m.chr /\ n.lo = m.lo /\ n.hi = m.hi /\ n.mask = m.mask
    BY <1>1 DEF MachineFields
  <1> HIDE DEF n
  <1>3. Sound(n)
    BY <1>1, <1>2 DEF Sound, WellFormed, InStep, Inserted, OnClock, SamePicture
  <1>4. Dots(q) = Dots(m.ppu)
    BY DEF SamePicture, Dots
  <1> QED
    BY <1>1, <1>2, <1>3, <1>4 DEF n

LEMMA LineCalledSound ==
  ASSUME NEW m, Sound(m)
  PROVE  LET n == LineCalled(m)
         IN  /\ Sound(n) /\ n.rom = m.rom /\ n.pending = m.pending
             /\ SamePicture(m.ppu, n.ppu) /\ n.ppu.lineReady = FALSE
             /\ Dots(n.ppu) = Dots(m.ppu)
  <1> DEFINE off == FALSE
             line == [m.ppu.line EXCEPT !.ready = off]
             q == [m.ppu EXCEPT !.lineReady = off, !.line = line]
             n == [m EXCEPT !.ppu = q]
  <1>1. LineCalled(m) = n
    BY DEF LineCalled, Sound, WellFormed, Record, MachineFields, PpuFields
  <1>2. off = FALSE
    OBVIOUS
  <1> HIDE DEF off, line
  <1>3. SamePicture(m.ppu, q) /\ q.lineReady = off
    BY DEF Sound, WellFormed, Record, PpuFields, SamePicture
  <1> HIDE DEF q
  <1> QED
    BY <1>1, <1>2, <1>3, WithPicture

LEMMA FrameCalledSound ==
  ASSUME NEW m, Sound(m)
  PROVE  LET n == [m EXCEPT !.ppu.frameReady = FALSE]
         IN  /\ Sound(n) /\ n.rom = m.rom /\ n.pending = m.pending
             /\ SamePicture(m.ppu, n.ppu) /\ Dots(n.ppu) = Dots(m.ppu)
  <1> DEFINE off == FALSE
             q == [m.ppu EXCEPT !.frameReady = off]
             n == [m EXCEPT !.ppu = q]
  <1>1. [m EXCEPT !.ppu.frameReady = FALSE] = n
    OBVIOUS
  <1> HIDE DEF off
  <1>2. SamePicture(m.ppu, q)
    BY DEF Sound, WellFormed, Record, PpuFields, SamePicture
  <1> HIDE DEF q
  <1>3. Sound(n) /\ n.rom = m.rom /\ n.pending = m.pending /\ n.ppu = q /\ Dots(q) = Dots(m.ppu)
    BY <1>2, WithPicture
  <1> HIDE DEF n
  <1> QED
    BY <1>1, <1>2, <1>3

LEMMA KeptNmi == ASSUME NEW m, WellFormed(m) PROVE Kept(m, [m EXCEPT !.ppu.nmi = FALSE])
  <1> DEFINE off == FALSE
             q == [m.ppu EXCEPT !.nmi = off]
  <1>1. [m EXCEPT !.ppu.nmi = FALSE] = [m EXCEPT !.ppu = q]
    OBVIOUS
  <1> HIDE DEF off
  <1>2. PpuKept(m.ppu, q)
    BY DEF WellFormed, PpuKept, Record, PpuFields
  <1> HIDE DEF q
  <1> QED
    BY <1>1, <1>2, KeptPpu

LEMMA KeptIrq == ASSUME NEW m, WellFormed(m) PROVE Kept(m, [m EXCEPT !.cart.irq = FALSE])
  <1> DEFINE off == FALSE
             d == [m.cart EXCEPT !.irq = off]
  <1>1. [m EXCEPT !.cart.irq = FALSE] = [m EXCEPT !.cart = d]
    OBVIOUS
  <1> HIDE DEF off
  <1>2. CartKept(m.cart, d) /\ d.lo = m.cart.lo /\ d.hi = m.cart.hi
    BY DEF WellFormed, CartKept, CartFields
  <1> HIDE DEF d
  <1> QED
    BY <1>1, <1>2, KeptCart

-----------------------------------------------------------------------------
(* A captured state, and one applied to a fresh launch.                    *)

Parts == PpuFields \ {"line", "fb"}

LEMMA PartsKept ==
  ASSUME NEW p, Record(p, PpuFields)
  PROVE  DOMAIN PpuPart(p) = Parts /\ \A f \in Parts : PpuPart(p)[f] = p[f]
  BY DEF PpuPart, Parts, PpuFields, Record

(* Two pictures of the same parts are captured alike.                      *)
LEMMA SameParts ==
  ASSUME NEW p, NEW q, Record(p, PpuFields), Record(q, PpuFields), \A f \in Parts : q[f] = p[f]
  PROVE  PpuPart(q) = PpuPart(p)
  BY DEF PpuPart, Parts, PpuFields

LEMMA PictureEqual ==
  ASSUME NEW p, NEW q, Record(p, PpuFields), Record(q, PpuFields),
         \A f \in PpuFields : q[f] = p[f]
  PROVE  q = p
  BY DEF Record

LEMMA MachineEqual ==
  ASSUME NEW m, NEW n, Record(m, MachineFields), Record(n, MachineFields),
         \A f \in MachineFields : n[f] = m[f]
  PROVE  n = m
  BY DEF Record

LEMMA EssenceFields ==
  ASSUME NEW m, WellFormed(m)
  PROVE  LET n == Essence(m)
         IN  /\ Record(n, MachineFields) /\ Record(n.ppu, PpuFields)
             /\ n.ppu.line = NoLine /\ n.ppu.fb = << >>
             /\ \A f \in Parts : n.ppu[f] = m.ppu[f]
             /\ \A f \in MachineFields \ {"ppu"} : n[f] = m[f]
  <1> DEFINE q == [m.ppu EXCEPT !.line = NoLine, !.fb = << >>]
             n == [m EXCEPT !.ppu = q]
  <1>1. Essence(m) = n
    BY DEF Essence, WellFormed, Record, MachineFields
  <1>2. /\ Record(q, PpuFields) /\ q.line = NoLine /\ q.fb = << >>
        /\ \A f \in Parts : q[f] = m.ppu[f]
    BY DEF WellFormed, Record, PpuFields, Parts
  <1> HIDE DEF q
  <1>3. /\ Record(n, MachineFields) /\ n.ppu = q
        /\ \A f \in MachineFields \ {"ppu"} : n[f] = m[f]
    BY DEF WellFormed, Record, MachineFields
  <1> QED
    BY <1>1, <1>2, <1>3

LEMMA EssenceSound ==
  ASSUME NEW m, Sound(m)
  PROVE  LET n == Essence(m)
         IN  /\ Sound(n) /\ n.pending = m.pending /\ n.rom = m.rom
             /\ n.ppu.scanline = m.ppu.scanline /\ Dots(n.ppu) = Dots(m.ppu)
             /\ Essence(n) = n /\ Captured(n) = Captured(m)
  <1> DEFINE n == Essence(m)
  <1>1. /\ Record(n, MachineFields) /\ Record(n.ppu, PpuFields)
        /\ n.ppu.line = NoLine /\ n.ppu.fb = << >>
        /\ \A f \in Parts : n.ppu[f] = m.ppu[f]
        /\ \A f \in MachineFields \ {"ppu"} : n[f] = m[f]
    BY SoundWellFormed, EssenceFields
  <1>2. /\ n.rom = m.rom /\ n.pending = m.pending /\ n.cart = m.cart /\ n.chr = m.chr
        /\ n.lo = m.lo /\ n.hi = m.hi /\ n.mask = m.mask /\ n.cpu = m.cpu
        /\ n.ram = m.ram /\ n.wram = m.wram /\ n.pads = m.pads
    BY <1>1 DEF MachineFields
  <1>3. /\ n.ppu.scanline = m.ppu.scanline /\ n.ppu.rem = m.ppu.rem
        /\ n.ppu.frame = m.ppu.frame
    BY <1>1 DEF Parts, PpuFields
  <1> HIDE DEF n
  <1>4. Sound(n)
    BY <1>1, <1>2, <1>3 DEF Sound, WellFormed, InStep, Inserted, OnClock
  <1>5. Dots(n.ppu) = Dots(m.ppu)
    BY <1>3 DEF Dots
  <1>6. Captured(n) = Captured(m)
    <2>1. PpuPart(n.ppu) = PpuPart(m.ppu)
      BY <1>1, SameParts DEF Sound, WellFormed
    <2> QED
      BY <1>2, <2>1 DEF Captured
  <1>7. Essence(n) = n
    <2> DEFINE e == Essence(n)
    <2>1. /\ Record(e, MachineFields) /\ Record(e.ppu, PpuFields)
          /\ e.ppu.line = NoLine /\ e.ppu.fb = << >>
          /\ \A f \in Parts : e.ppu[f] = n.ppu[f]
          /\ \A f \in MachineFields \ {"ppu"} : e[f] = n[f]
      BY <1>4, SoundWellFormed, EssenceFields
    <2> HIDE DEF e
    <2>2. \A f \in PpuFields : e.ppu[f] = n.ppu[f]
      BY <1>1, <2>1 DEF Parts
    <2>3. e.ppu = n.ppu
      BY <1>1, <2>1, <2>2, PictureEqual
    <2>4. \A f \in MachineFields : e[f] = n[f]
      BY <2>1, <2>3
    <2>5. e = n
      BY <1>1, <2>1, <2>4, MachineEqual
    <2> QED
      BY <2>5 DEF e
  <1> QED
    BY <1>2, <1>3, <1>4, <1>5, <1>6, <1>7 DEF n

LEMMA AppliedSound ==
  ASSUME NEW m, Sound(m), m = Essence(m), m.pending = 0,
         NEW l, Sound(l), l.rom = m.rom, l.pending = 0
  PROVE  LET n == Applied(l, Captured(m))
         IN  /\ Sound(n) /\ n.pending = 0 /\ n.rom = m.rom
             /\ n.ppu.scanline = m.ppu.scanline /\ Dots(n.ppu) = Dots(m.ppu)
             /\ Essence(n) = m
  <1> DEFINE part == PpuPart(m.ppu)
             q == [f \in DOMAIN l.ppu |-> IF f \in DOMAIN part THEN part[f] ELSE l.ppu[f]]
             chr == IF l.cart.chrRam THEN IF m.cart.chrRam THEN m.chr ELSE << >> ELSE l.chr
             w == [l EXCEPT !.cpu = m.cpu, !.ram = m.ram, !.wram = m.wram, !.pads = m.pads,
                            !.ppu = q, !.cart = m.cart, !.chr = chr]
             n == Sync(w)
  <1>1. Applied(l, Captured(m)) = n
    BY DEF Applied, Captured, Sound, WellFormed, Record, MachineFields
  <1>2. Record(q, PpuFields) /\ \A f \in Parts : q[f] = m.ppu[f]
    <2> HIDE DEF part
    <2>1. DOMAIN part = Parts /\ \A f \in Parts : part[f] = m.ppu[f]
      BY PartsKept DEF part, Sound, WellFormed
    <2>2. DOMAIN l.ppu = PpuFields
      BY DEF Sound, WellFormed, Record
    <2> QED
      BY <2>1, <2>2 DEF Record, Parts
  <1>3. chr = m.chr
    BY DEF Sound, Inserted
  <1> HIDE DEF q, chr, part
  <1>4. /\ Record(w, MachineFields) /\ w.cpu = m.cpu /\ w.ram = m.ram /\ w.wram = m.wram
        /\ w.pads = m.pads /\ w.ppu = q /\ w.cart = m.cart /\ w.chr = chr
        /\ w.rom = l.rom /\ w.pending = l.pending
    BY DEF Sound, WellFormed, Record, MachineFields
  <1> HIDE DEF w
  <1>5. /\ Record(n, MachineFields) /\ InStep(n)
        /\ \A f \in MachineFields \ {"lo", "hi", "mask"} : n[f] = w[f]
    BY <1>4, SyncFresh
  <1> HIDE DEF n
  <1>6. /\ n.cpu = m.cpu /\ n.ram = m.ram /\ n.wram = m.wram /\ n.pads = m.pads
        /\ n.ppu = q /\ n.cart = m.cart /\ n.chr = m.chr /\ n.rom = m.rom /\ n.pending = 0
    BY <1>3, <1>4, <1>5 DEF MachineFields
  <1>7. n.lo = m.lo /\ n.hi = m.hi /\ n.mask = m.mask
    BY <1>5, <1>6 DEF InStep, Sound
  <1>8. q.scanline = m.ppu.scanline /\ q.rem = m.ppu.rem /\ q.frame = m.ppu.frame
    BY <1>2 DEF Parts, PpuFields
  <1>9. Sound(n)
    BY <1>2, <1>5, <1>6, <1>7, <1>8 DEF Sound, WellFormed, Inserted, OnClock
  <1>10. Dots(q) = Dots(m.ppu)
    BY <1>8 DEF Dots
  <1>11. Essence(n) = m
    <2> DEFINE e == Essence(n)
    <2>1. /\ Record(e, MachineFields) /\ Record(e.ppu, PpuFields)
          /\ e.ppu.line = NoLine /\ e.ppu.fb = << >>
          /\ \A f \in Parts : e.ppu[f] = n.ppu[f]
          /\ \A f \in MachineFields \ {"ppu"} : e[f] = n[f]
      BY <1>9, SoundWellFormed, EssenceFields
    <2>2. m.ppu.line = NoLine /\ m.ppu.fb = << >>
      BY SoundWellFormed, EssenceFields
    <2> HIDE DEF e
    <2>3. \A f \in PpuFields : e.ppu[f] = m.ppu[f]
      BY <1>2, <1>6, <2>1, <2>2 DEF Parts
    <2>4. e.ppu = m.ppu
      BY <2>1, <2>3, PictureEqual DEF Sound, WellFormed
    <2>5. \A f \in MachineFields : e[f] = m[f]
      BY <1>6, <1>7, <2>1, <2>4 DEF MachineFields
    <2>6. e = m
      BY <2>1, <2>5, MachineEqual DEF Sound, WellFormed
    <2> QED
      BY <2>6 DEF e
  <1> QED
    BY <1>1, <1>6, <1>8, <1>9, <1>10, <1>11

-----------------------------------------------------------------------------
(* A step of a call.                                                       *)

(* Where the picture is in a call, and where a line of it is the next one. *)
Awaited(p, calls, token) ==
  /\ p.lineReady = FALSE
  /\ IF calls = 0
     THEN \/ p.scanline >= Height /\ p.frame = token[1]
          \/ p.scanline = 0 /\ p.frame = token[1] + 1
     ELSE p.scanline = calls /\ token = <<p.frame, calls - 1>>
Given(p, calls) ==
  IF calls = 0 THEN p.scanline >= Height
  ELSE /\ p.scanline = calls
       /\ p.line = [y |-> calls - 1, frame |-> p.frame, ready |-> TRUE]

LEMMA NextLine ==
  ASSUME NEW p, NEW q, OnClock(p), Onward(p, q), NEW calls \in 0 .. Height - 1, NEW token,
         Awaited(p, calls, token)
  PROVE  \/ Awaited(q, calls, token)
         \/ /\ Given(q, (calls + 1) % Height) /\ q.lineReady = TRUE
            /\ <<q.line.frame, q.line.y>> # token
  <1>1. (calls + 1) % Height = IF calls + 1 = Height THEN 0 ELSE calls + 1
    BY WrappingPlus1, Geometry
  <1>2. CASE q.lineReady = TRUE
    <2>1. /\ p.scanline < Height /\ q.scanline = p.scanline + 1 /\ q.frame = p.frame
          /\ q.line = [y |-> p.scanline, frame |-> p.frame, ready |-> TRUE]
      BY <1>2 DEF Onward, Awaited
    <2>2. p.scanline = calls
      BY <2>1, Geometry DEF Awaited, OnClock
    <2>3. Given(q, (calls + 1) % Height)
      <3>1. CASE calls + 1 = Height
        BY <1>1, <2>1, <2>2, <3>1, Geometry DEF Given
      <3>2. CASE calls + 1 # Height
        <4>1. (calls + 1) % Height = calls + 1 /\ (calls + 1) - 1 = calls /\ calls + 1 # 0
          BY <1>1, <3>2
        <4> QED
          BY <2>1, <2>2, <4>1 DEF Given
      <3> QED
        BY <3>1, <3>2
    <2>4. <<q.line.frame, q.line.y>> # token
      <3>1. q.line.frame = p.frame /\ q.line.y = p.scanline
        BY <2>1
      <3> QED
        BY <2>1, <2>2, <3>1, Geometry DEF Awaited, OnClock
    <2> QED
      BY <1>2, <2>3, <2>4
  <1>3. CASE ~(q.lineReady = TRUE)
    <2>1. q.lineReady = FALSE
      BY <1>3 DEF Onward, Awaited
    <2> QED
      BY <1>3, <2>1, Geometry DEF Onward, Awaited, OnClock
  <1> QED
    BY <1>2, <1>3

LEMMA InOrderParts ==
  InOrder <=> (host.mode = "line" =>
                 /\ host.phase = "between" => Given(nes.ppu, host.calls)
                 /\ host.phase = "stepping" => Awaited(nes.ppu, host.calls, host.token))
  BY DEF InOrder, Given, Awaited

(* What After does to the host.                                            *)
LEMMA HostAfter ==
  ASSUME Record(host, HostFields), Running, NEW s, After(s)
  PROVE  /\ Record(host', HostFields)
         /\ host'.mode = host.mode /\ host'.saved = host.saved /\ host'.token = host.token
         /\ host'.restores = host.restores
         /\ \/ host'.phase = "stopped" /\ host'.calls = host.calls
            \/ host'.phase = "between" /\ Delivered(s) /\ s.ppu.lineReady
               /\ host'.calls = IF host.mode = "line" THEN (host.calls + 1) % Height
                                ELSE host.calls
            \/ host'.phase = "stepping" /\ ~Delivered(s) /\ host'.calls = host.calls
  <1> DEFINE calls == IF host.mode = "line" THEN (host.calls + 1) % Height ELSE host.calls
             inFrame == host.inFrame /\ s.ppu.frame < host.target
             stopped == [host EXCEPT !.phase = "stopped"]
             between == [host EXCEPT !.phase = "between", !.calls = calls, !.inFrame = inFrame]
  <1>1. host' = IF s.cpu.jammed THEN stopped ELSE IF Delivered(s) THEN between ELSE host
    BY DEF After
  <1> HIDE DEF inFrame
  <1>2. /\ Record(stopped, HostFields) /\ stopped.mode = host.mode /\ stopped.saved = host.saved
        /\ stopped.token = host.token /\ stopped.restores = host.restores
        /\ stopped.phase = "stopped" /\ stopped.calls = host.calls
    BY DEF Record, HostFields
  <1>3. /\ Record(between, HostFields) /\ between.mode = host.mode /\ between.saved = host.saved
        /\ between.token = host.token /\ between.restores = host.restores
        /\ between.phase = "between" /\ between.calls = calls
    <2> HIDE DEF calls
    <2> QED
      BY DEF Record, HostFields
  <1> HIDE DEF stopped, between
  <1>4. CASE s.cpu.jammed
    BY <1>1, <1>2, <1>4
  <1>5. CASE ~s.cpu.jammed /\ Delivered(s)
    BY <1>1, <1>3, <1>5 DEF Delivered
  <1>6. CASE ~s.cpu.jammed /\ ~Delivered(s)
    BY <1>1, <1>6 DEF Running
  <1> QED
    BY <1>4, <1>5, <1>6

LEMMA NesAfter ==
  ASSUME NEW s, Sound(s), After(s)
  PROVE  /\ Sound(nes') /\ nes'.ppu = s.ppu /\ nes'.rom = s.rom
         /\ Delivered(s) => nes'.pending = 0
  BY FlushedSound DEF After

LEMMA HistoryAfter ==
  ASSUME "dots" \in DOMAIN history, NEW s, NEW i, NEW cycles, history' = Remembered(s, i, cycles)
  PROVE  "dots" \in DOMAIN history' /\ history'.dots = history.dots + 3 * cycles
  <1> DEFINE dots == history.dots + 3 * cycles
             top == TopAfter(s, i)
             ticks == TicksAfter(s, i)
             contexts == ContextsAfter(i)
             pad == PadAfter(i)
             h == [history EXCEPT !.dots = dots, !.top = top, !.ticks = ticks,
                                  !.contexts = contexts, !.pad = pad]
  <1>1. history' = h
    BY DEF Remembered
  <1> HIDE DEF dots, top, ticks, contexts, pad
  <1>2. "dots" \in DOMAIN h /\ h.dots = dots
    OBVIOUS
  <1> HIDE DEF h
  <1> QED
    BY <1>1, <1>2 DEF dots

LEMMA HostStep ==
  ASSUME IInv, Running, NEW s, NEW i, NEW cycles, Ran(nes, s, cycles), After(s),
         history' = Remembered(s, i, cycles)
  PROVE  IInv'
  <1>1. /\ Sound(nes') /\ nes'.ppu = s.ppu /\ nes'.rom = s.rom
        /\ Delivered(s) => nes'.pending = 0
    BY NesAfter DEF Ran
  <1>2. "dots" \in DOMAIN history' /\ history'.dots = history.dots + 3 * cycles
    BY HistoryAfter DEF IInv
  <1>3. ClockExact'
    BY <1>1, <1>2 DEF IInv, ClockExact, Ran
  <1>4. /\ Record(host', HostFields)
        /\ host'.mode = host.mode /\ host'.saved = host.saved /\ host'.token = host.token
        /\ host'.restores = host.restores
        /\ \/ host'.phase = "stopped" /\ host'.calls = host.calls
           \/ host'.phase = "between" /\ Delivered(s) /\ s.ppu.lineReady
              /\ host'.calls = IF host.mode = "line" THEN (host.calls + 1) % Height
                               ELSE host.calls
           \/ host'.phase = "stepping" /\ ~Delivered(s) /\ host'.calls = host.calls
    BY HostAfter DEF IInv, HostOK
  <1>5. host.calls \in 0 .. Height - 1 /\ host.restores \in Nat
    BY DEF IInv, HostOK
  <1>6. HostOK'
    <2>1. (host.calls + 1) % Height \in 0 .. Height - 1
      BY <1>5, WrappingPlus1, Geometry
    <2>2. host'.calls \in 0 .. Height - 1
      BY <1>4, <1>5, <2>1
    <2> QED
      BY <1>1, <1>4, <1>5, <2>2 DEF HostOK
  <1>7. InOrder'
    <2> SUFFICES ASSUME host.mode = "line"
                 PROVE  /\ host'.phase = "between" => Given(nes.ppu, host.calls)'
                        /\ host'.phase = "stepping" => Awaited(nes.ppu, host.calls, host.token)'
      BY <1>4 DEF InOrder, Given, Awaited
    <2>1. Awaited(nes.ppu, host.calls, host.token)
      BY InOrderParts DEF IInv, Running
    <2>2. \/ Awaited(s.ppu, host.calls, host.token)
          \/ /\ Given(s.ppu, (host.calls + 1) % Height) /\ s.ppu.lineReady = TRUE
             /\ <<s.ppu.line.frame, s.ppu.line.y>> # host.token
      BY <1>5, <2>1, NextLine, SoundWellFormed DEF Ran, IInv
    <2>3. ASSUME host'.phase = "between" PROVE Given(nes.ppu, host.calls)'
      <3>1. /\ s.ppu.lineReady /\ host'.calls = (host.calls + 1) % Height
        BY <1>4, <2>3
      <3>2. ~Awaited(s.ppu, host.calls, host.token)
        BY <3>1 DEF Awaited
      <3> QED
        BY <1>1, <2>2, <3>1, <3>2 DEF Given
    <2>4. ASSUME host'.phase = "stepping" PROVE Awaited(nes.ppu, host.calls, host.token)'
      <3>1. ~Delivered(s) /\ host'.calls = host.calls
        BY <1>4, <2>4
      <3>2. Awaited(s.ppu, host.calls, host.token)
        <4>1. CASE s.ppu.lineReady
          BY <2>2, <3>1, <4>1 DEF Delivered
        <4>2. CASE ~s.ppu.lineReady
          BY <2>2, <4>2
        <4> QED
          BY <4>1, <4>2
      <3> QED
        BY <1>1, <1>4, <3>1, <3>2 DEF Awaited
    <2> QED
      BY <2>3, <2>4
  <1>8. SavedOK'
    BY <1>1, <1>4 DEF IInv, SavedOK, Ran, After
  <1> QED
    BY <1>1, <1>2, <1>3, <1>6, <1>7, <1>8 DEF IInv

-----------------------------------------------------------------------------
(* The invariant is kept, action by action.                                *)

LEMMA ResetPlace ==
  ASSUME NEW m, NEW rom, FromReset(m, rom)
  PROVE  m.ppu.scanline >= Height /\ Dots(m.ppu) = LastLine * DotsPerLine
  BY ResetOnClock DEF FromReset, PpuKept, Dots

LEMMA Starts == ASSUME Init PROVE IInv
  <1>1. PICK rom \in DOMAIN Roms : nes = Launched(rom)
    BY DEF Init
  <1>2. FromReset(nes, rom)
    BY <1>1, LaunchedFromReset
  <1>3. PICK mode \in {"line", "frame"} :
          host = [mode |-> mode, phase |-> "between", calls |-> 0, inFrame |-> FALSE,
                  token |-> <<0, 0>>, target |-> 0, restores |-> 0, saved |-> NoBlob]
    BY DEF Init
  <1>4. /\ Record(host, HostFields) /\ host.phase = "between" /\ host.calls = 0
        /\ host.restores = 0
    BY <1>3 DEF Record, HostFields
  <1>5. "dots" \in DOMAIN history /\ history.dots = LastLine * DotsPerLine
    BY DEF Init, Fresh
  <1>6. Sound(nes) /\ ClockExact
    BY <1>2, <1>5, ResetPlace DEF FromReset, ClockExact
  <1>7. HostOK
    BY <1>2, <1>4, Geometry DEF HostOK, FromReset
  <1>8. InOrder
    BY <1>2, <1>4, ResetPlace DEF InOrder
  <1>9. SavedOK
    BY DEF Init, SavedOK
  <1> QED
    BY <1>5, <1>6, <1>7, <1>8, <1>9 DEF IInv

LEMMA ServiceNmiKeeps == ASSUME IInv, ServiceNmi PROVE IInv'
  <1> DEFINE n == [nes EXCEPT !.ppu.nmi = FALSE]
  <1>1. Kept(nes, n) /\ Sound(n)
    BY KeptNmi, KeptSound, SoundWellFormed DEF IInv
  <1>2. PICK hit \in Hits :
          LET s == Interrupt(n, VectorNmi, FALSE, hit)
          IN  After(s) /\ history' = Remembered(s, NoInstruction, 7)
    BY DEF ServiceNmi
  <1> HIDE DEF n
  <1> DEFINE s == Interrupt(n, VectorNmi, FALSE, hit)
  <1>3. Ran(n, s, 7)
    BY <1>1, InterruptRan
  <1>4. Ran(nes, s, 7)
    <2> HIDE DEF s
    <2> QED
      BY <1>1, <1>3, KeptRan
  <1>5. After(s) /\ history' = Remembered(s, NoInstruction, 7) /\ Running
    BY <1>2 DEF ServiceNmi
  <1> HIDE DEF s
  <1> QED
    BY <1>4, <1>5, HostStep

LEMMA ServiceIrqKeeps == ASSUME IInv, ServiceIrq PROVE IInv'
  <1> DEFINE n == [nes EXCEPT !.cart.irq = FALSE]
  <1>1. Kept(nes, n) /\ Sound(n)
    BY KeptIrq, KeptSound, SoundWellFormed DEF IInv
  <1>2. PICK hit \in Hits :
          LET s == Interrupt(n, VectorIrq, FALSE, hit)
          IN  After(s) /\ history' = Remembered(s, NoInstruction, 7)
    BY DEF ServiceIrq
  <1> HIDE DEF n
  <1> DEFINE s == Interrupt(n, VectorIrq, FALSE, hit)
  <1>3. Ran(n, s, 7)
    BY <1>1, InterruptRan
  <1>4. Ran(nes, s, 7)
    <2> HIDE DEF s
    <2> QED
      BY <1>1, <1>3, KeptRan
  <1>5. After(s) /\ history' = Remembered(s, NoInstruction, 7) /\ Running
    BY <1>2 DEF ServiceIrq
  <1> HIDE DEF s
  <1> QED
    BY <1>4, <1>5, HostStep

LEMMA RunInstructionKeeps == ASSUME IInv, RunInstruction PROVE IInv'
  <1>1. PICK i \in Fetched(nes) : \E s \in {Instruction(nes, i, hit) : hit \in Hits} :
          After(s) /\ history' = Remembered(s, i, s.pending - nes.pending)
    BY DEF RunInstruction
  <1>2. PICK hit \in Hits :
          LET s == Instruction(nes, i, hit)
          IN  After(s) /\ history' = Remembered(s, i, s.pending - nes.pending)
    BY <1>1
  <1>3. i.op \in Operations /\ i.mode \in ModesOf(i.op)
    BY RomsAssumption DEF Fetched, IInv, Sound, Inserted
  <1> DEFINE s == Instruction(nes, i, hit)
  <1>4. PICK cycles \in Nat : Ran(nes, s, cycles)
    BY <1>3, InstructionRan DEF IInv
  <1>5. /\ After(s) /\ history' = Remembered(s, i, s.pending - nes.pending) /\ Running
    BY <1>2 DEF RunInstruction
  <1> HIDE DEF s
  <1>6. s.pending - nes.pending = cycles
    BY <1>4 DEF Ran, IInv, Sound
  <1>7. history' = Remembered(s, i, cycles)
    BY <1>5, <1>6
  <1> QED
    BY <1>4, <1>5, <1>7, HostStep

LEMMA CallLineKeeps == ASSUME IInv, CallLine PROVE IInv'
  <1>1. /\ Sound(nes') /\ nes'.rom = nes.rom /\ nes'.pending = nes.pending
        /\ SamePicture(nes.ppu, nes'.ppu) /\ nes'.ppu.lineReady = FALSE
        /\ Dots(nes'.ppu) = Dots(nes.ppu)
    BY LineCalledSound DEF CallLine, IInv
  <1>2. LET h == [host EXCEPT !.phase = "stepping", !.token = Token(nes)]
        IN  /\ Record(h, HostFields) /\ h.phase = "stepping" /\ h.token = Token(nes)
            /\ \A f \in HostFields \ {"phase", "token"} : h[f] = host[f]
    BY DEF IInv, HostOK, Record, HostFields
  <1>3. /\ Record(host', HostFields) /\ host'.phase = "stepping" /\ host'.token = Token(nes)
        /\ host'.mode = host.mode /\ host'.calls = host.calls
        /\ host'.restores = host.restores /\ host'.saved = host.saved
    BY <1>2 DEF CallLine, HostFields
  <1>4. ClockExact' /\ HostOK' /\ SavedOK'
    BY <1>1, <1>3 DEF IInv, ClockExact, HostOK, SavedOK, CallLine
  <1>5. InOrder'
    <2> SUFFICES ASSUME host.mode = "line" PROVE Awaited(nes'.ppu, host.calls, Token(nes))
      BY <1>3 DEF InOrder, Awaited
    <2>1. Given(nes.ppu, host.calls) /\ host.calls \in 0 .. Height - 1
      BY InOrderParts DEF IInv, CallLine, HostOK
    <2>2. Token(nes)[1] = nes.ppu.frame /\ Token(nes) = <<nes.ppu.frame, nes.ppu.line.y>>
      BY DEF Token
    <2>3. nes'.ppu.scanline = nes.ppu.scanline /\ nes'.ppu.frame = nes.ppu.frame
      BY <1>1 DEF SamePicture
    <2>4. host.calls # 0 => nes.ppu.line.y = host.calls - 1
      BY <2>1 DEF Given
    <2> QED
      BY <1>1, <2>1, <2>2, <2>3, <2>4 DEF Given, Awaited
  <1> QED
    BY <1>1, <1>4, <1>5 DEF IInv, CallLine

LEMMA CallFrameKeeps == ASSUME IInv, CallFrame PROVE IInv'
  <1> DEFINE n == [nes EXCEPT !.ppu.frameReady = FALSE]
  <1>1. /\ Sound(n) /\ n.rom = nes.rom /\ n.pending = nes.pending
        /\ Dots(n.ppu) = Dots(nes.ppu)
    BY FrameCalledSound DEF IInv
  <1>2. nes' = LineCalled(n)
    BY DEF CallFrame
  <1> HIDE DEF n
  <1>3. /\ Sound(nes') /\ nes'.rom = nes.rom /\ nes'.pending = nes.pending
        /\ Dots(nes'.ppu) = Dots(nes.ppu)
    BY <1>1, <1>2, LineCalledSound
  <1> DEFINE on == TRUE
             target == nes.ppu.frame + 1
             h == [host EXCEPT !.phase = "stepping", !.token = Token(nes), !.inFrame = on,
                               !.target = target]
  <1>4. host' = h
    BY DEF CallFrame
  <1> HIDE DEF on, target
  <1>5. /\ Record(h, HostFields) /\ h.phase = "stepping"
        /\ \A f \in HostFields \ {"phase", "token", "inFrame", "target"} : h[f] = host[f]
    BY DEF IInv, HostOK, Record, HostFields
  <1> HIDE DEF h
  <1>6. /\ Record(host', HostFields) /\ host'.phase = "stepping" /\ host'.mode = "frame"
        /\ host'.calls = host.calls /\ host'.restores = host.restores
        /\ host'.saved = host.saved /\ host.mode = "frame"
    BY <1>4, <1>5 DEF CallFrame, HostFields
  <1>7. ClockExact' /\ HostOK' /\ SavedOK' /\ InOrder'
    BY <1>3, <1>6 DEF IInv, ClockExact, HostOK, SavedOK, InOrder, CallFrame
  <1> QED
    BY <1>3, <1>7 DEF IInv, CallFrame

LEMMA PollKeeps == ASSUME IInv, Poll PROVE IInv'
  <1>1. PICK b : /\ nes' = [nes EXCEPT !.pads[1] = PadSet(@, b)]
                 /\ history' = IF nes.pads[1].strobe THEN [history EXCEPT !.pad.byte = b]
                               ELSE history
    BY DEF Poll
  <1>2. Kept(nes, nes') /\ Sound(nes') /\ nes'.ppu = nes.ppu
    <2> DEFINE pads == [nes.pads EXCEPT ![1] = PadSet(@, b)]
               n == [nes EXCEPT !.pads = pads]
    <2>1. nes' = n
      BY <1>1
    <2> HIDE DEF pads
    <2>2. Kept(nes, n) /\ n.ppu = nes.ppu
      BY SoundWellFormed, KeptPads DEF IInv, Sound, WellFormed, Record, MachineFields
    <2> HIDE DEF n
    <2> QED
      BY <2>1, <2>2, KeptSound DEF IInv
  <1>3. "dots" \in DOMAIN history' /\ history'.dots = history.dots
    BY <1>1 DEF IInv
  <1>4. ClockExact' /\ HostOK' /\ InOrder' /\ SavedOK'
    BY <1>2, <1>3 DEF IInv, ClockExact, HostOK, InOrder, SavedOK, Poll, Kept
  <1> QED
    BY <1>2, <1>3, <1>4 DEF IInv

LEMMA CaptureKeeps == ASSUME IInv, Capture PROVE IInv'
  <1> DEFINE m == Essence(nes)
  <1>1. /\ Sound(m) /\ m.pending = nes.pending /\ m.rom = nes.rom
        /\ m.ppu.scanline = nes.ppu.scanline /\ Dots(m.ppu) = Dots(nes.ppu)
        /\ Essence(m) = m /\ Captured(m) = Captured(nes)
    BY EssenceSound DEF IInv
  <1> HIDE DEF m
  <1> DEFINE saved == [nes |-> m, history |-> history]
             h == [host EXCEPT !.saved = saved]
  <1>2. host' = h /\ saved.nes = m /\ saved.history = history
    BY DEF Capture, m
  <1> HIDE DEF saved
  <1>3. /\ Record(h, HostFields) /\ h.saved = saved
        /\ \A f \in HostFields \ {"saved"} : h[f] = host[f]
    BY DEF IInv, HostOK, Record, HostFields
  <1> HIDE DEF h
  <1>4. /\ Record(host', HostFields) /\ host'.saved = saved /\ host'.phase = host.phase
        /\ host'.mode = host.mode /\ host'.calls = host.calls /\ host'.token = host.token
        /\ host'.restores = host.restores
    BY <1>2, <1>3 DEF HostFields
  <1>5. ClockExact' /\ HostOK' /\ InOrder'
    BY <1>4 DEF IInv, ClockExact, HostOK, InOrder, Capture
  <1>6. SavedOK'
    <2>1. nes.pending = 0 /\ (host.mode = "line" => nes.ppu.scanline >= Height)
      BY DEF IInv, HostOK, InOrder, Capture, BetweenFrames
    <2> QED
      BY <1>1, <1>2, <1>4, <2>1 DEF SavedOK, Capture, IInv, ClockExact
  <1> QED
    BY <1>5, <1>6 DEF IInv, Capture

(* The console that Restore leaves.                                        *)
LEMMA Restored ==
  ASSUME IInv, Restore
  PROVE  /\ Sound(nes') /\ nes'.pending = 0 /\ nes'.rom = nes.rom
         /\ nes'.ppu.scanline = host.saved.nes.ppu.scanline
         /\ Dots(nes'.ppu) = Dots(host.saved.nes.ppu)
         /\ Essence(nes') = host.saved.nes
  <1> DEFINE m == host.saved.nes
             l == Launched(nes.rom)
  <1>1. /\ Sound(m) /\ m.pending = 0 /\ m.rom = nes.rom /\ m = Essence(m)
        /\ blob = Captured(m)
    BY DEF IInv, SavedOK, Restore
  <1>2. Sound(l) /\ l.rom = nes.rom /\ l.pending = 0
    BY LaunchedFromReset DEF IInv, Sound, Inserted, FromReset
  <1>3. nes' = Applied(l, Captured(m))
    BY <1>1 DEF Restore
  <1> HIDE DEF m, l
  <1>4. LET n == Applied(l, Captured(m))
        IN  /\ Sound(n) /\ n.pending = 0 /\ n.rom = m.rom
            /\ n.ppu.scanline = m.ppu.scanline /\ Dots(n.ppu) = Dots(m.ppu)
            /\ Essence(n) = m
    BY <1>1, <1>2, AppliedSound
  <1> QED
    BY <1>1, <1>3, <1>4 DEF m

LEMMA RestoreKeeps == ASSUME IInv, Restore PROVE IInv'
  <1>1. /\ Sound(nes') /\ nes'.pending = 0 /\ nes'.rom = nes.rom
        /\ nes'.ppu.scanline = host.saved.nes.ppu.scanline
        /\ Dots(nes'.ppu) = Dots(host.saved.nes.ppu)
    BY Restored
  <1> DEFINE off == FALSE
             restores == host.restores + 1
             h == [host EXCEPT !.phase = "between", !.calls = 0, !.inFrame = off,
                               !.restores = restores]
  <1>2. host' = h /\ restores \in Nat
    BY DEF Restore, IInv, HostOK
  <1> HIDE DEF off, restores
  <1>3. /\ Record(h, HostFields) /\ h.phase = "between" /\ h.calls = 0
        /\ h.restores = restores /\ h.mode = host.mode /\ h.saved = host.saved
    BY DEF IInv, HostOK, Record, HostFields
  <1> HIDE DEF h
  <1>4. /\ Record(host', HostFields) /\ host'.phase = "between" /\ host'.calls = 0
        /\ host'.restores \in Nat /\ host'.mode = host.mode /\ host'.saved = host.saved
    BY <1>2, <1>3
  <1>5. "dots" \in DOMAIN history' /\ ClockExact'
    BY <1>1 DEF Restore, IInv, SavedOK, ClockExact
  <1>6. HostOK'
    BY <1>1, <1>4, Geometry DEF HostOK
  <1>7. InOrder'
    BY <1>1, <1>4 DEF InOrder, IInv, SavedOK, Restore
  <1>8. SavedOK'
    BY <1>1, <1>4 DEF IInv, SavedOK, Restore
  <1> QED
    BY <1>1, <1>5, <1>6, <1>7, <1>8 DEF IInv

LEMMA ResetKeeps == ASSUME IInv, Reset PROVE IInv'
  <1>1. FromReset(nes', nes.rom)
    BY RestartedFromReset DEF Reset, BetweenFrames, IInv, HostOK
  <1>2. "dots" \in DOMAIN history' /\ history'.dots = LastLine * DotsPerLine
    <2> DEFINE byte == nes.pads[1].live
               pad == [[byte |-> 0, reads |-> 0] EXCEPT !.byte = byte]
               start == LastLine * DotsPerLine
    <2>1. history' = [dots |-> start, top |-> -1, ticks |-> 0, contexts |-> << >>, pad |-> pad]
      BY DEF Reset, Fresh
    <2> HIDE DEF start
    <2> QED
      BY <2>1 DEF start
  <1>3. Sound(nes') /\ ClockExact'
    BY <1>1, <1>2, ResetPlace DEF FromReset, ClockExact
  <1>4. HostOK' /\ InOrder'
    BY <1>1, ResetPlace DEF HostOK, InOrder, FromReset, Reset, BetweenFrames, IInv
  <1>5. SavedOK'
    BY DEF Reset, SavedOK
  <1> QED
    BY <1>2, <1>3, <1>4, <1>5 DEF IInv

LEMMA InvariantKept == ASSUME IInv, [Next]_vars PROVE IInv'
  <1>1. CASE UNCHANGED vars
    BY <1>1 DEF IInv, ClockExact, HostOK, InOrder, SavedOK, vars
  <1>2. CASE Next
    BY <1>2, CallLineKeeps, CallFrameKeeps, ServiceNmiKeeps, ServiceIrqKeeps,
       RunInstructionKeeps, PollKeeps, CaptureKeeps, RestoreKeeps, ResetKeeps DEF Next
  <1> QED
    BY <1>1, <1>2

LEMMA Invariant == Spec => []IInv
  <1> QED
    BY Starts, InvariantKept, PTL DEF Spec

-----------------------------------------------------------------------------
(* The theorems.                                                           *)

(* Whatever program runs and however the host takes its picture, by lines, *)
(* by frames, with resets and restored states in between, the place in the *)
(* frame is what three dots for each cycle since the reset add up to:      *)
(* neither the fast path of the stepping nor a line end, an interrupt or a *)
(* captured state loses a dot or counts one twice.                         *)
THEOREM ThreeDotsACycle == Spec => []ClockExact
  <1>1. IInv => ClockExact
    BY DEF IInv
  <1> QED
    BY <1>1, Invariant, PTL

(* A host that takes a frame line by line is given row n by its n-th call, *)
(* of one frame, also after a reset or a restored state: the token by      *)
(* which cpu6502_run_scanline knows a new line never takes an old one for  *)
(* it, and no line passes undelivered.                                     *)
THEOREM RowsComeInOrder == Spec => []LinesInOrder
  <1>1. IInv => LinesInOrder
    BY DEF IInv, InOrder, LinesInOrder
  <1> QED
    BY <1>1, Invariant, PTL

(* The bank pointers that every fetch of the processor uses are those of   *)
(* the cartridge, after every write of every mapper, reset and restored    *)
(* state, whatever the program: what the code does not cache again, it has *)
(* not moved (nes_sync_prg_cache).                                         *)
THEOREM PointersAreFresh == Spec => []PrgCacheFresh
  <1>1. ASSUME IInv PROVE PrgCacheFresh
    <2> DEFINE s == Sync(nes)
    <2>1. /\ Record(nes, MachineFields) /\ InStep(nes)
      BY <1>1 DEF IInv, Sound, WellFormed
    <2>2. /\ Record(s, MachineFields) /\ InStep(s)
          /\ \A f \in MachineFields \ {"lo", "hi", "mask"} : s[f] = nes[f]
      BY <2>1, SyncFresh
    <2> HIDE DEF s
    <2>3. s.cart = nes.cart
      BY <2>2 DEF MachineFields
    <2>4. s.lo = nes.lo /\ s.hi = nes.hi /\ s.mask = nes.mask
      BY <2>1, <2>2, <2>3 DEF InStep
    <2>5. \A f \in MachineFields : s[f] = nes[f]
      BY <2>2, <2>4
    <2>6. s = nes
      BY <2>1, <2>2, <2>5, MachineEqual
    <2> QED
      BY <2>6 DEF PrgCacheFresh, s
  <1> QED
    BY <1>1, Invariant, PTL

(* A state applied to a fresh launch of its ROM gives back the console it  *)
(* was captured from, field by field: what save_state_capture leaves out,  *)
(* the launch and nes_sync_prg_cache make as it was.                       *)
THEOREM RestoredAsCaptured == Spec => RestoreExact
  <1>1. ASSUME IInv, [Next]_vars
        PROVE  [host'.restores > host.restores => Essence(nes') = host.saved.nes]_vars
    <2>1. CASE Restore
      BY <1>1, <2>1, Restored
    <2>2. CASE ~Restore
      <3>1. host'.restores = host.restores
        <4>1. \A s : After(s) /\ Running => host'.restores = host.restores
          BY <1>1, HostAfter DEF IInv, HostOK
        <4>2. CASE ServiceNmi \/ ServiceIrq \/ RunInstruction
          BY <4>1, <4>2 DEF ServiceNmi, ServiceIrq, RunInstruction
        <4>3. CASE CallLine \/ Capture
          <5>1. /\ \A x, y : [host EXCEPT !.phase = x, !.token = y].restores = host.restores
                /\ \A x : [host EXCEPT !.saved = x].restores = host.restores
            OBVIOUS
          <5>2. ASSUME CallLine PROVE host'.restores = host.restores
            BY <5>1, <5>2 DEF CallLine
          <5>3. ASSUME Capture PROVE host'.restores = host.restores
            <6> DEFINE saved == [nes |-> Essence(nes), history |-> history]
            <6>1. host' = [host EXCEPT !.saved = saved]
              BY <5>3 DEF Capture
            <6> HIDE DEF saved
            <6> QED
              BY <5>1, <6>1
          <5> QED
            BY <4>3, <5>2, <5>3
        <4>4. CASE CallFrame
          <5> DEFINE on == TRUE
          <5>1. host' = [host EXCEPT !.phase = "stepping", !.token = Token(nes), !.inFrame = on,
                                     !.target = nes.ppu.frame + 1]
            BY <4>4 DEF CallFrame
          <5> HIDE DEF on
          <5> QED
            BY <5>1
        <4>5. CASE Poll \/ Reset \/ UNCHANGED vars
          BY <4>5 DEF Poll, Reset, vars
        <4> QED
          BY <1>1, <2>2, <4>2, <4>3, <4>4, <4>5 DEF Next
      <3>2. ~(host.restores > host.restores)
        BY <1>1 DEF IInv, HostOK
      <3> QED
        BY <3>1, <3>2
    <2> QED
      BY <2>1, <2>2
  <1> QED
    BY <1>1, Invariant, PTL DEF Spec, RestoreExact
=============================================================================
