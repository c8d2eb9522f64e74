------------------------------- MODULE SdSpi -------------------------------
(***************************************************************************)
(* The SD card driver of the Pico builds (src/pico/sd_spi.c): bringing a   *)
(* card up, reading and writing a block, over a bus on which a command, an *)
(* answer or a data token may get lost or come garbled.  The card is       *)
(* external, modelled from the commands the driver sends; it is taken to   *)
(* drop what it still had to say when it is deselected.                    *)
(***************************************************************************)
EXTENDS Integers, FiniteSets

CONSTANTS Kinds,      \* the cards: "none", "v1", "sc" or "hc"
          Lbas,       \* the blocks
          Values,     \* what a block may hold
          Cmd0Tries,  \* attempts at the first command (8)
          MaxLosses,  \* bound: faults of the bus in a behaviour
          MaxCalls    \* bound: calls in a behaviour

ASSUME SdAssumption ==
    /\ Kinds \subseteq {"none", "v1", "sc", "hc"}
    /\ Lbas \subseteq Nat /\ Cmd0Tries \in Nat \ {0}
    /\ MaxLosses \in Nat /\ MaxCalls \in Nat

VARIABLES card,   \* the card in the slot
          sd,     \* the driver's state, s_sd
          bus,    \* chip select; whether a byte was clocked since it rose
          call,   \* the call in progress, or the last one
          faults  \* the faults so far
sdVars == <<card, sd, bus, call, faults>>

----------------------------------------------------------------------------
(* The card.                                                               *)
BlockBytes == 2      \* 512 in the program
Fresh(kind, blocks) ==
    {[kind |-> kind, spi |-> FALSE, ready |-> FALSE, blocklen |-> b, blocks |-> blocks] :
       b \in IF kind = "hc" THEN {BlockBytes} ELSE {BlockBytes, 2 * BlockBytes}}

(* The block that an address names: a card of high capacity counts blocks, *)
(* the others bytes.                                                       *)
Named(c, address) == IF c.kind = "hc" THEN address ELSE address \div BlockBytes

(* No card, or one that was not reset since it was put in.                 *)
Deaf(c, cmd) == c.kind = "none" \/ (~c.spi /\ cmd.op # "CMD0")

(* The first byte of the answer to a command, and the card after it.       *)
Reply(c, cmd) ==
    IF Deaf(c, cmd) THEN "none"
    ELSE CASE cmd.op = "CMD0"   -> "idle"
           [] cmd.op = "CMD8"   -> IF c.kind = "v1" THEN "illegal" ELSE "idle"
           [] cmd.op = "ACMD41" -> IF c.kind = "hc" /\ ~cmd.hcs THEN "idle" ELSE "ready"
           [] OTHER             -> IF c.ready THEN "ready" ELSE "idle"
After(c, cmd) ==
    IF Deaf(c, cmd) THEN c
    ELSE CASE cmd.op = "CMD0"   -> [c EXCEPT !.spi = TRUE, !.ready = FALSE]
           [] cmd.op = "ACMD41" -> [c EXCEPT !.ready = Reply(c, cmd) = "ready"]
           [] cmd.op = "CMD16"  -> [c EXCEPT !.blocklen = BlockBytes]
           [] OTHER             -> c

(* send_cmd: the command is carried out and answered; or the command or    *)
(* its answer is lost; or the answer says that the command was garbled.    *)
(* The driver's wait for the card to be ready before it is not looked at.  *)
SendCmd(cmd, r) ==
    \/ r = Reply(card, cmd) /\ card' = After(card, cmd) /\ faults' = faults
    \/ /\ faults < MaxLosses /\ faults' = faults + 1 /\ card.kind # "none"
       /\ \/ r = "none" /\ card' \in {card, After(card, cmd)}
          \/ r = "error" /\ card' = card

Answers == {"none", "idle", "illegal", "ready", "error"}
Op(op) == [op |-> op]

----------------------------------------------------------------------------
(* Leaving a call: the card is deselected and gets one byte of clocks.     *)
Leave(result) ==
    /\ call' = [call EXCEPT !.at = "idle", !.result = result]
    /\ bus' = [low |-> FALSE, clocked |-> TRUE]

Idle == call.at = "idle" /\ call.n < MaxCalls
Deinit == [init |-> FALSE, type |-> "v1", program |-> FALSE, sm |-> FALSE]
BeginCall(at, extra) == [at |-> at, n |-> call.n + 1, result |-> "pending", op |-> extra,
                     tries |-> 0, v2 |-> FALSE, got |-> "nothing", before |-> card.blocks]

(* sd_init up to the first command: everything is given back, the program  *)
(* and a state machine are claimed, if there are any, and the slot is      *)
(* looked at.                                                              *)
Start ==
    /\ Idle
    /\ bus' = [low |-> FALSE, clocked |-> TRUE]
    /\ \/ /\ sd' = Deinit
          /\ call' = [BeginCall("idle", [op |-> "init"]) EXCEPT !.result = "not initialized"]
       \/ /\ sd' = [Deinit EXCEPT !.program = TRUE, !.sm = TRUE]
          /\ call' = IF card.kind = "none"
                     THEN [BeginCall("idle", [op |-> "init"]) EXCEPT !.result = "no card"]
                     ELSE BeginCall("CMD0", [op |-> "init"])
    /\ UNCHANGED <<card, faults>>

GiveUp(result) == sd' = [sd EXCEPT !.init = FALSE] /\ Leave(result)
Goto(at) == call' = [call EXCEPT !.at = at] /\ bus' = [bus EXCEPT !.low = TRUE] /\ sd' = sd

GoIdle ==
    /\ call.at = "CMD0"
    /\ \E r \in Answers :
         /\ SendCmd(Op("CMD0"), r)
         /\ IF r = "idle" THEN Goto("CMD8")
            ELSE IF call.tries + 1 < Cmd0Tries
            THEN /\ call' = [call EXCEPT !.tries = @ + 1]
                 /\ bus' = [bus EXCEPT !.low = TRUE] /\ sd' = sd
            ELSE GiveUp("CMD0")

(* No answer has all its bits set, the one for an illegal command too: it  *)
(* makes the card one of the first version.                                *)
CheckVoltage ==
    /\ call.at = "CMD8"
    /\ \E r \in Answers :
         /\ SendCmd(Op("CMD8"), r)
         /\ CASE r = "idle"                -> /\ call' = [call EXCEPT !.at = "ACMD41", !.v2 = TRUE]
                                              /\ UNCHANGED <<sd, bus>>
              [] r \in {"illegal", "none"} -> Goto("ACMD41")
              [] OTHER                     -> GiveUp("CMD8")

(* The card is polled until it is ready or two seconds have passed.        *)
Poll ==
    /\ call.at = "ACMD41"
    /\ \E r \in Answers :
         /\ SendCmd([op |-> "ACMD41", hcs |-> call.v2], r)
         /\ IF r = "ready" THEN Goto(IF call.v2 THEN "CMD58" ELSE "CMD16")
            ELSE Goto("ACMD41") \/ GiveUp("timeout")

ReadOcr ==
    /\ call.at = "CMD58"
    /\ \E r \in Answers :
         /\ SendCmd(Op("CMD58"), r)
         /\ IF r # "ready" THEN GiveUp("OCR")
            ELSE IF card.kind = "hc"
            THEN /\ sd' = [sd EXCEPT !.type = "hc"]
                 /\ call' = [call EXCEPT !.at = "CMD9"] /\ bus' = bus
            ELSE Goto("CMD16")

(* Mutant of SetBlockLength: a card that says nothing is taken for ready.  *)
SetBlockLengthBlind ==
    /\ call.at = "CMD16"
    /\ \E r \in Answers :
         /\ SendCmd(Op("CMD16"), r)
         /\ IF r = "idle" THEN GiveUp("OCR")
            ELSE /\ sd' = [sd EXCEPT !.type = IF call.v2 THEN "v2" ELSE "v1"]
                 /\ call' = [call EXCEPT !.at = "CMD9"] /\ bus' = bus

SetBlockLength ==
    /\ call.at = "CMD16"
    /\ \E r \in Answers :
         /\ SendCmd(Op("CMD16"), r)
         /\ IF r # "ready" THEN GiveUp("OCR")
            ELSE /\ sd' = [sd EXCEPT !.type = IF call.v2 THEN "v2" ELSE "v1"]
                 /\ call' = [call EXCEPT !.at = "CMD9"] /\ bus' = bus

(* The capacity is asked for; whatever becomes of that, the card is up.    *)
ReadCsd ==
    /\ call.at = "CMD9"
    /\ \E r \in Answers : SendCmd(Op("CMD9"), r)
    /\ sd' = [sd EXCEPT !.init = TRUE]
    /\ Leave("ok")

----------------------------------------------------------------------------
(* A block.                                                                *)
Address(lba) == IF sd.type = "hc" THEN lba ELSE lba * BlockBytes

BeginBlock(op, lba, v) ==
    /\ Idle
    /\ LET c == BeginCall(op, [op |-> op, lba |-> lba, value |-> v])
       IN  IF sd.init THEN call' = c /\ bus' = [low |-> TRUE, clocked |-> FALSE]
           ELSE call' = [c EXCEPT !.at = "idle", !.result = "not initialized"] /\ bus' = bus
    /\ UNCHANGED <<card, sd, faults>>

ReadCommand ==
    /\ call.at = "CMD17"
    /\ \E r \in Answers :
         /\ SendCmd(Op("CMD17"), r)
         /\ IF r = "ready" THEN call' = [call EXCEPT !.at = "token"] /\ bus' = bus
            ELSE Leave("read error")
    /\ sd' = sd

(* The data comes, or never, or something else comes in its place.  What a *)
(* card with another block length sends is no block.                       *)
ReadData ==
    /\ call.at = "token"
    /\ LET named == Named(card, Address(call.op.lba))
       IN  \/ /\ bus' = [low |-> FALSE, clocked |-> TRUE] /\ faults' = faults
              /\ call' = [call EXCEPT !.at = "idle", !.result = "ok",
                            !.got = IF card.blocklen = BlockBytes /\ named \in Lbas
                                    THEN card.blocks[named] ELSE "garbage"]
           \/ /\ faults < MaxLosses /\ faults' = faults + 1
              /\ Leave("read error") \/ Leave("timeout")
    /\ UNCHANGED <<card, sd>>

WriteCommand ==
    /\ call.at = "CMD24"
    /\ \E r \in Answers :
         /\ SendCmd(Op("CMD24"), r)
         /\ IF r = "ready" THEN call' = [call EXCEPT !.at = "data"] /\ bus' = bus
            ELSE Leave("write error")
    /\ sd' = sd

(* The card accepts the block, or not; when its yes is garbled it writes   *)
(* nevertheless.                                                           *)
Written(c) == LET named == Named(c, Address(call.op.lba))
              IN  IF c.blocklen = BlockBytes /\ named \in Lbas
                  THEN [c EXCEPT !.blocks[named] = call.op.value] ELSE c
WriteData ==
    /\ call.at = "data"
    /\ \/ /\ card' = Written(card) /\ faults' = faults
          /\ call' = [call EXCEPT !.at = "busy"] /\ bus' = bus
       \/ /\ faults < MaxLosses /\ faults' = faults + 1
          /\ card' \in {card, Written(card)}
          /\ Leave("write error")
    /\ sd' = sd

(* The card is busy for a while, at most half a second, or too long.       *)
WriteDone ==
    /\ call.at = "busy"
    /\ \/ Leave("ok") /\ faults' = faults
       \/ faults < MaxLosses /\ faults' = faults + 1 /\ Leave("timeout")
    /\ UNCHANGED <<card, sd>>

(* Another card is put in, between two calls.                              *)
SwapCard ==
    /\ call.at = "idle" /\ call.n < MaxCalls
    /\ \E k \in Kinds \ {card.kind} : card' \in Fresh(k, card.blocks)
    /\ call' = [call EXCEPT !.n = @ + 1, !.result = "changed"]
    /\ UNCHANGED <<sd, bus, faults>>

----------------------------------------------------------------------------
SdInit ==
    /\ \E k \in Kinds, blocks \in [Lbas -> Values] : card \in Fresh(k, blocks)
    /\ sd = Deinit /\ faults = 0
    /\ bus = [low |-> FALSE, clocked |-> TRUE]
    /\ call = [at |-> "idle", n |-> 0, result |-> "none", op |-> [op |-> "none"], tries |-> 0,
               v2 |-> FALSE, got |-> "nothing", before |-> card.blocks]

SdNext ==
    \/ Start \/ GoIdle \/ CheckVoltage \/ Poll \/ ReadOcr \/ SetBlockLength \/ ReadCsd
    \/ \E lba \in Lbas : BeginBlock("CMD17", lba, "none")
    \/ \E lba \in Lbas, v \in Values : BeginBlock("CMD24", lba, v)
    \/ ReadCommand \/ ReadData \/ WriteCommand \/ WriteData \/ WriteDone
    \/ SwapCard

----------------------------------------------------------------------------
(* What a call promises when it returns, whatever was lost on the bus and  *)
(* whichever card was put in: a block read is the block that was asked     *)
(* for; a write that reports success has written it; no call writes any    *)
(* other block; the card is deselected and was clocked; and the driver     *)
(* holds a program and a state machine if it is up.                        *)
CallsAreSafe ==
    call.at = "idle" =>
      /\ ~bus.low /\ bus.clocked
      /\ sd.init => sd.program /\ sd.sm
      /\ call.op.op = "CMD17" /\ call.result = "ok" => call.got = card.blocks[call.op.lba]
      /\ call.op.op = "CMD24" /\ call.result = "ok" => card.blocks[call.op.lba] = call.op.value
      /\ call.result \notin {"changed", "none"} =>
           \A b \in Lbas : (call.op.op = "CMD24" => b # call.op.lba)
                             => card.blocks[b] = call.before[b]
=============================================================================
