-------------------------------- MODULE MCNes --------------------------------
(***************************************************************************)
(* Small ROMs for the console, in which some instructions are free, and a  *)
(* picture of three rows.  A place with a jump to itself and something     *)
(* else is a wait of any length.                                           *)
(***************************************************************************)
EXTENDS Nes, TLC

I(op, mode, arg) == [op |-> op, mode |-> mode, arg |-> arg]
One(op, mode, arg) == {I(op, mode, arg)}
Wait(at) == {I("JMP", "abs", at), I("NOP", "abs", 0)}
LoadOf(S) == {I("LDA", "imm", v) : v \in S}
StoreTo(S) == {I("STA", "abs", a) : a \in S}

Rom(mapper, size, chrSize, data, code) ==
  [mapper |-> mapper, size |-> size, chrSize |-> chrSize, chrRam |-> mapper \in {2, 7},
   mirror |-> "vertical", data |-> data, code |-> code, buttons |-> {0}]

\* What stands at some offsets, in each of some banks.
In(banks, what) == [place \in banks \X DOMAIN what |-> what[place[2]]]

\* The vectors in the last bytes of a bank; both interrupts have one handler.
Vectors(start, handler) ==
  LET Word(o, v) == (o :> v % 256) @@ (o + 1 :> v \div 256)
  IN  Word(8186, handler) @@ Word(8188, start) @@ Word(8190, handler)

\* After a wait, three writes to scroll registers, or reads of the status in
\* their place.
ScrollWrite == StoreTo({8197, 8198}) \union One("LDA", "abs", 8194)
ScrollRom ==
  Rom(0, 2, 8, In({1}, Vectors(49152, 49184)),
      In({0}, 0 :> LoadOf({8}) @@ 2 :> StoreTo({8193}) @@ 5 :> Wait(49157)
                 @@ 8 :> LoadOf({239}) @@ 10 :> ScrollWrite
                 @@ 13 :> LoadOf({239, 255}) @@ 15 :> ScrollWrite
                 @@ 18 :> One("JMP", "abs", 49170)))

\* An interrupt every few lines; its handler may acknowledge it, tell the
\* counter to reload, or be interrupted by that of the picture.
IrqRom ==
  Rom(4, 4, 8, In({3}, Vectors(57344, 57376)),
      In({3}, 0 :> LoadOf({136}) @@ 2 :> StoreTo({8193}) @@ 5 :> StoreTo({8192, 8193})
                 @@ 8 :> LoadOf({0, 1}) @@ 10 :> StoreTo({49152}) @@ 13 :> Wait(57357)
                 @@ 16 :> StoreTo({49153, 57345}) @@ 19 :> StoreTo({57345}) @@ 22 :> One("CLI", "imp", 0)
                 @@ 23 :> One("JMP", "abs", 57367)
                 @@ 32 :> One("PHA", "imp", 0) @@ 33 :> StoreTo({57344, 49153})
                 @@ 36 :> {I("SEI", "imp", 0), I("CLI", "imp", 0)}
                 @@ 37 :> StoreTo({57345}) @@ 40 :> One("PLA", "imp", 0) @@ 41 :> One("RTI", "imp", 0)))

\* Strobes and reads of the controller.
PadsRom ==
  [Rom(0, 2, 8, In({1}, Vectors(49152, 49184)),
      In({0}, 0 :> LoadOf({1}) @@ 2 :> StoreTo({16406}) @@ 5 :> Wait(49157)
                 @@ 8 :> LoadOf({0}) @@ 10 :> StoreTo({16406})
                 @@ 13 :> One("LDA", "abs", 16406) @@ 16 :> {I("JMP", "abs", 49165), I("JMP", "abs", 49160)}))
   EXCEPT !.buttons = {0, 165}]

\* Writes to the mapper.  The program and the vectors are in every bank, so
\* that it goes on whatever bank it switches to.
BankRom(mapper, size, writes, values, addresses) ==
  LET rest == 5 * writes
      code == [o \in {5 * n : n \in 0 .. writes} \union {(5 * n) + 2 : n \in 0 .. writes - 1} |->
                 CASE o = rest -> One("JMP", "abs", 57344 + rest)
                   [] o # rest /\ o % 5 = 0 -> LoadOf(values)
                   [] o % 5 = 2 -> StoreTo(addresses)]
      banks == 0 .. size - 1
  IN  Rom(mapper, size, 16, In(banks, Vectors(57344, 57344)), In(banks, code))

\* Each operation once, in each mode, and a stop.
Operand(op, mode) ==
  CASE mode \in {"imp", "acc"} -> {0}
    [] mode = "imm" -> {1, 129}
    [] mode \in {"zp", "zpx", "zpy", "indx", "indy"} -> {16, 255}
    [] mode = "abs" -> IF op \in {"JMP", "JSR"} THEN {49168} ELSE {16, 8196, 8199, 16404}
    [] mode \in {"absx", "absy"} -> {16, 255}
    [] mode = "ind" -> {16, 511}
    [] mode = "rel" -> {2, -6}
AnyOperation == UNION {{I(op, mode, arg) : arg \in Operand(op, mode)} : <<op, mode>> \in
                        {<<o, d>> \in (Operations \ {"RTS", "RTI"}) \X {"imp", "acc", "imm", "zp", "zpx", "zpy", "abs",
                           "absx", "absy", "indx", "indy", "ind", "rel"} : d \in ModesOf(o)}}
OpsRom ==
  Rom(0, 2, 8, In({1}, Vectors(49152, 49168)),
      In({0}, 0 :> LoadOf({1, 192}) @@ 2 :> One("STA", "zp", 16) @@ 4 :> {I("LDX", "imm", x) : x \in {0, 1, 240}}
                 @@ 6 :> {I("SEC", "imp", 0), I("CLC", "imp", 0)}
                 @@ [o \in 7 .. 12 |-> IF o = 7 THEN AnyOperation ELSE One("JAM", "imp", 0)]
                 @@ 16 :> {I("RTS", "imp", 0), I("RTI", "imp", 0)}))

McRoms ==
  [scroll |-> ScrollRom, irq |-> IrqRom, pads |-> PadsRom, ops |-> OpsRom,
   mmc1 |-> BankRom(1, 32, 5, {0, 1}, {32768}),
   mmc1prg |-> BankRom(1, 32, 5, {1, 128}, {57344}),
   uxrom |-> BankRom(2, 8, 2, {0, 5}, {32768}),
   cnrom |-> BankRom(3, 4, 2, {0, 1}, {32768}),
   mmc3 |-> BankRom(4, 8, 3, {6, 70}, {32768, 32769}),
   axrom |-> BankRom(7, 8, 2, {0, 17}, {32768}),
   mmc2 |-> BankRom(9, 8, 2, {0, 3}, {40960, 45056}),
   colordreams |-> BankRom(11, 8, 2, {0, 17}, {32768}),
   pirate |-> BankRom(40, 8, 3, {3}, {32768, 40960, 57344}),
   gxrom |-> BankRom(66, 8, 2, {0, 17}, {32768})]
=============================================================================
