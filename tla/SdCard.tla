------------------------------- MODULE SdCard -------------------------------
(***************************************************************************)
(* The SD card and its driver: sd_spi.c, the layer diskio.c and            *)
(* user_diskio.c put over it, and the calls FatFS makes of it.             *)
(*                                                                         *)
(* The content of a sector is <<version, sector>>: what a write of that    *)
(* version meant for that sector, version 0 being what was there before.   *)
(***************************************************************************)
EXTENDS Integers

CONSTANTS
  Kinds,      \* kinds of card
  BlockSize,  \* bytes of a sector
  Sectors,    \* sectors of the card
  MaxCount,   \* bound of the model: sectors of a request
  Versions    \* what may be written

CardKinds == {"MMC", "SD1", "SD2", "SDHC"}

ASSUME CardAssumption ==
  /\ Kinds \subseteq CardKinds
  /\ BlockSize \in Nat \ {0} /\ Sectors \in Nat \ {0} /\ MaxCount \in Nat \ {0}
  /\ Versions \subseteq Nat

VARIABLES
  kind,            \* of the card, chosen once
  present,         \* the card is in its slot
  mode,            \* the card: "off" until it is told to use SPI, "idle" until it is ready
  disk,            \* its sectors
  at,              \* the sector it reads or writes next
  programming,     \* the block it is busy to write, holding its output low
  is_initialized,  \* of diskio.c: the driver was called once
  noInit,          \* STA_NOINIT of Stat
  CardType,
  timer,           \* Timer1 has not run down
  step,            \* where the driver is
  request,         \* FatFS's, with whether the card worked when it was made
  pos,             \* the block of the request that is transferred next
  resp,            \* the card took the block, for all the driver knows
  buff,            \* the caller's blocks, and what lies behind them
  garbled,         \* history: the blocks that were changed on their way to the driver
  reply

cardVars  == <<kind, present, mode, disk, at, programming>>
stateVars == <<is_initialized, noInit, CardType>>
callVars  == <<request, pos, resp, buff, garbled, reply>>
vars == <<cardVars, stateVars, timer, step, callVars>>

SectorSet == 0 .. Sectors - 1
Types     == {"none", "MMC", "SD1", "SD2", "SD2+BLOCK"}
InitSteps == {"reset", "ifCond", "hcs", "ocr", "probe", "op", "blockLen"}
Steps     == InitSteps \cup {"idle", "mounted", "command", "token", "stop",
                             "data", "busy", "stopToken", "deselect"}

NoRequest == [op |-> "none", sector |-> 0, count |-> 0, version |-> 0, up |-> FALSE]
NoBlock   == <<>>

Block(i) == <<request.version, request.sector + i - 1>>

\* The card is initialised, and answers.
Working == mode = "ready"

Init ==
  /\ kind \in Kinds
  /\ present \in BOOLEAN /\ mode = "off"
  /\ disk = [s \in SectorSet |-> <<0, s>>]
  /\ at = 0 /\ programming = NoBlock
  /\ is_initialized = FALSE /\ noInit = TRUE /\ CardType = "none"
  /\ timer = FALSE /\ step = "idle"
  /\ request = NoRequest /\ pos = 1 /\ resp = FALSE
  /\ buff = [i \in 1 .. MaxCount + 1 |-> <<"old">>] /\ garbled = {}
  /\ reply = "none"

-----------------------------------------------------------------------------
(* The medium.                                                             *)

\* A card put in speaks no SPI before it got CMD0.
Insert ==
  /\ ~present
  /\ present' = TRUE
  /\ UNCHANGED <<kind, mode, disk, at, programming, stateVars, timer, step, callVars>>

\* Its output goes high; the block it was writing is lost.
Remove ==
  /\ present
  /\ present' = FALSE /\ mode' = "off" /\ programming' = NoBlock
  /\ UNCHANGED <<kind, disk, at, stateVars, timer, step, callVars>>

Program ==
  /\ programming # NoBlock
  /\ disk' = [disk EXCEPT ![at] = programming]
  /\ at' = at + 1
  /\ programming' = NoBlock
  /\ UNCHANGED <<kind, present, mode, stateVars, timer, step, callVars>>

\* SysTick_Handler counts Timer1 down.
Expire ==
  /\ timer /\ timer' = FALSE
  /\ UNCHANGED <<cardVars, stateVars, step, callVars>>

\* The device starts again; the card does too if its supply went.
Restart ==
  /\ is_initialized' = FALSE /\ noInit' = TRUE /\ CardType' = "none"
  /\ timer' = FALSE /\ step' = "idle"
  /\ request' = NoRequest /\ reply' = "none" /\ garbled' = {}
  /\ programming' = NoBlock
  /\ mode' \in {mode, "off"}
  /\ UNCHANGED <<kind, present, disk, at, pos, resp, buff>>

-----------------------------------------------------------------------------
(* A request.  SD_SendCmd may find no answer to a command for many reasons, *)
(* a card that stays busy or is not there among them.                      *)

Mount ==
  /\ step = "idle"
  /\ request' = [NoRequest EXCEPT !.op = "mount", !.up = Working /\ ~noInit]
  /\ reply' = "none"
  /\ step' = IF is_initialized THEN "mounted" ELSE "reset"
  /\ is_initialized' = TRUE
  /\ UNCHANGED <<cardVars, noInit, CardType, timer, pos, resp, buff, garbled>>

Transfer(op, sector, count, version) ==
  /\ step = "idle"
  /\ sector + count <= Sectors
  /\ request' = [op |-> op, sector |-> sector, count |-> count,
                 version |-> version, up |-> Working /\ ~noInit]
  /\ reply' = "none"
  /\ pos' = 1 /\ resp' = FALSE
  /\ buff' = [i \in 1 .. MaxCount + 1 |-> <<"old">>]
  /\ step' = "command"
  /\ UNCHANGED <<cardVars, stateVars, timer, garbled>>

Answer(r) ==
  /\ reply' = r
  /\ request' = NoRequest /\ garbled' = {}
  /\ step' = "idle"

-----------------------------------------------------------------------------
(* SD_disk_initialize.  CardType serves for its local type as well, which  *)
(* nothing else reads meanwhile.                                           *)

\* FatFS asks for the sector size next, which a card that is not ready refuses.
InitDone(type) ==
  /\ CardType' = type
  /\ noInit' = (noInit /\ type = "none")
  /\ Answer(IF noInit' THEN "error" ELSE "ok")

\* disk_initialize of diskio.c does not call the driver a second time.
Mounted ==
  /\ step = "mounted"
  /\ Answer(IF noInit THEN "error" ELSE "ok")
  /\ UNCHANGED <<cardVars, stateVars, timer, pos, resp, buff>>

GoIdle ==
  /\ step = "reset" /\ present
  /\ mode' = "idle"
  /\ timer' = TRUE
  /\ step' = "ifCond"
  /\ UNCHANGED <<kind, present, disk, at, programming, stateVars, callVars>>

GoIdleUnanswered ==
  /\ step = "reset"
  /\ mode' \in {mode} \cup IF present THEN {"idle"} ELSE {}
  /\ InitDone("none")
  /\ UNCHANGED <<kind, present, disk, at, programming, is_initialized, timer,
                 pos, resp, buff>>

\* CMD8: cards of version 2 answer.  The voltage they echo may be wrong.
InterfaceCondition ==
  /\ step = "ifCond" /\ mode = "idle" /\ kind \in {"SD2", "SDHC"}
  /\ step' = "hcs"
  /\ UNCHANGED <<cardVars, stateVars, timer, callVars>>

WrongVoltage ==
  /\ step = "ifCond" /\ mode = "idle" /\ kind \in {"SD2", "SDHC"}
  /\ InitDone("none")
  /\ UNCHANGED <<cardVars, is_initialized, timer, pos, resp, buff>>

NoInterfaceCondition ==
  /\ step = "ifCond"
  /\ step' = "probe"
  /\ UNCHANGED <<cardVars, stateVars, timer, callVars>>

\* ACMD41 with HCS, until it is answered with 0 or the timer has run down.
HostCapacity ==
  /\ step = "hcs"
  /\ \/ mode # "off" /\ mode' = "ready"
     \/ ~timer /\ UNCHANGED mode
  /\ step' = "ocr"
  /\ UNCHANGED <<kind, present, disk, at, programming, stateVars, timer, callVars>>

\* The CCS bit, in the answer to CMD58.
CapacityType == IF kind = "SDHC" THEN "SD2+BLOCK" ELSE "SD2"

ReadOcr ==
  /\ step = "ocr"
  /\ \/ timer /\ Working /\ InitDone(CapacityType)
     \/ InitDone("none")
  /\ UNCHANGED <<cardVars, is_initialized, timer, pos, resp, buff>>

\* SDC V1 or MMC: an MMC refuses CMD55.
Probe ==
  /\ step = "probe"
  /\ \/ mode # "off" /\ kind # "MMC" /\ CardType' = "SD1"
     \/ CardType' = "MMC"
  /\ step' = "op"
  /\ UNCHANGED <<cardVars, is_initialized, noInit, timer, callVars>>

\* ACMD41 or CMD1 until ready: a card of high capacity waits for HCS for ever.
OperatingCondition ==
  /\ step = "op"
  /\ \/ mode # "off" /\ kind # "SDHC" /\ mode' = "ready"
     \/ ~timer /\ UNCHANGED mode
  /\ step' = "blockLen"
  /\ UNCHANGED <<kind, present, disk, at, programming, stateVars, timer, callVars>>

SetBlockLength ==
  /\ step = "blockLen"
  /\ \/ timer /\ Working /\ InitDone(CardType)
     \/ InitDone("none")
  /\ UNCHANGED <<cardVars, is_initialized, timer, pos, resp, buff>>

-----------------------------------------------------------------------------
(* SD_disk_read and SD_disk_write.                                         *)

\* Mutant: every address is converted.
ByteAddress(sector) == sector * BlockSize

\* convert to byte address
Address(sector) ==
  IF CardType \in {"SD2", "SD2+BLOCK"} THEN sector ELSE sector * BlockSize

\* What the card takes the argument of a command for; nothing, if it is no
\* address of a block.
Locate(arg) ==
  {s \in SectorSet : arg = IF kind = "SDHC" THEN s ELSE s * BlockSize}

NotReady ==
  /\ step = "command" /\ noInit
  /\ Answer("error")
  /\ UNCHANGED <<cardVars, stateVars, timer, pos, resp, buff>>

\* CMD17, CMD18, CMD24 or CMD25.
Command ==
  /\ step = "command" /\ ~noInit /\ Working
  /\ \E s \in Locate(Address(request.sector)) : at' = s
  /\ step' = IF request.op = "read" THEN "token" ELSE "data"
  /\ timer' = (timer \/ request.op = "read")
  /\ UNCHANGED <<kind, present, mode, disk, programming, stateVars, callVars>>

CommandUnanswered ==
  /\ step = "command" /\ ~noInit
  /\ step' = "deselect"
  /\ UNCHANGED <<cardVars, stateVars, timer, callVars>>

AfterRead  == IF request.count = 1 THEN "deselect" ELSE "stop"
AfterWrite == IF request.count = 1 THEN "deselect" ELSE "stopToken"

\* Mutant: the blocks are counted after the test.
ReceivedOneMore(block) ==
  /\ buff' = [buff EXCEPT ![pos] = block, ![pos + 1] = <<"crc">>]
  /\ pos' = pos + 1
  /\ step' = IF pos <= request.count THEN "token" ELSE AfterRead
  /\ timer' = TRUE

\* SD_RxDataBlock, which receives one byte more than the block has.  Each block
\* has a timeout of its own.
Received(block) ==
  /\ buff' = [buff EXCEPT ![pos] = block, ![pos + 1] = <<"crc">>]
  /\ pos' = pos + 1
  /\ step' = IF pos < request.count THEN "token" ELSE AfterRead
  /\ timer' = (timer \/ pos < request.count)

ReceiveBlock ==
  /\ step = "token" /\ Working /\ at \in SectorSet
  /\ Received(disk[at])
  /\ at' = at + 1
  /\ UNCHANGED <<kind, present, mode, disk, programming, stateVars, request,
                 resp, garbled, reply>>

\* The block is changed on its way.  Nobody looks at its CRC.
ReceiveGarbled ==
  /\ step = "token" /\ Working /\ at \in SectorSet
  /\ Received(<<"noise">>)
  /\ at' = at + 1
  /\ garbled' = garbled \cup {pos}
  /\ UNCHANGED <<kind, present, mode, disk, programming, stateVars, request,
                 resp, reply>>

\* The card is taken out in the middle of the block.
ReceiveTorn ==
  /\ step = "token" /\ Working
  /\ Received(<<"noise">>)
  /\ present' = FALSE /\ mode' = "off"
  /\ UNCHANGED <<kind, disk, at, programming, stateVars, request, resp, garbled,
                 reply>>

\* Mutant: the block is awaited without a timeout.
AwaitToken ==
  /\ step = "token" /\ Working
  /\ step' = AfterRead
  /\ UNCHANGED <<cardVars, stateVars, timer, callVars>>

\* An error token, or none in time.
NoToken ==
  /\ step = "token" /\ (Working \/ ~timer)
  /\ step' = AfterRead
  /\ UNCHANGED <<cardVars, stateVars, timer, callVars>>

\* CMD12, whose answer is ignored.
StopTransmission ==
  /\ step = "stop"
  /\ step' = "deselect"
  /\ UNCHANGED <<cardVars, stateVars, timer, callVars>>

\* SD_TxDataBlock.  The driver may miss that the card took the block.
SendBlock ==
  /\ step = "data" /\ Working /\ at \in SectorSet
  /\ programming' = Block(pos)
  /\ resp' \in BOOLEAN
  /\ step' = "busy"
  /\ UNCHANGED <<kind, present, mode, disk, at, stateVars, timer, request, pos,
                 buff, garbled, reply>>

\* The card did not get ready in time, or refuses the block.
BlockRefused ==
  /\ step = "data"
  /\ step' = AfterWrite
  /\ UNCHANGED <<cardVars, stateVars, timer, callVars>>

\* Mutant: the driver goes on as soon as the card took the block.
NoBusyWait ==
  /\ step = "busy"
  /\ IF resp THEN pos' = pos + 1 ELSE UNCHANGED pos
  /\ step' = IF resp /\ pos < request.count THEN "data" ELSE AfterWrite
  /\ UNCHANGED <<cardVars, stateVars, timer, request, resp, buff, garbled, reply>>

\* while (SPI_RxByte() == 0);
BusyWait ==
  /\ step = "busy" /\ programming = NoBlock
  /\ IF resp THEN pos' = pos + 1 ELSE UNCHANGED pos
  /\ step' = IF resp /\ pos < request.count THEN "data" ELSE AfterWrite
  /\ UNCHANGED <<cardVars, stateVars, timer, request, resp, buff, garbled, reply>>

\* The response tested is not initialised: all may be written and yet fail.
StopToken ==
  /\ step = "stopToken"
  /\ \/ UNCHANGED pos
     \/ pos' = 1
  /\ step' = "deselect"
  /\ UNCHANGED <<cardVars, stateVars, timer, request, resp, buff, garbled, reply>>

Deselect ==
  /\ step = "deselect"
  /\ Answer(IF pos > request.count THEN "ok" ELSE "error")
  /\ UNCHANGED <<cardVars, stateVars, timer, pos, resp, buff>>

-----------------------------------------------------------------------------

Initialize ==
  \/ Mounted \/ GoIdle \/ GoIdleUnanswered
  \/ InterfaceCondition \/ WrongVoltage \/ NoInterfaceCondition
  \/ HostCapacity \/ ReadOcr \/ Probe \/ OperatingCondition \/ SetBlockLength

Driver ==
  \/ Initialize
  \/ NotReady \/ Command \/ CommandUnanswered
  \/ ReceiveBlock \/ NoToken \/ StopTransmission
  \/ SendBlock \/ BlockRefused \/ BusyWait \/ StopToken
  \/ Deselect

FatFs ==
  \/ Mount
  \/ \E s \in SectorSet, n \in 1 .. MaxCount :
       \/ Transfer("read", s, n, 0)
       \/ \E v \in Versions : Transfer("write", s, n, v)

Card == Insert \/ Remove \/ ReceiveGarbled \/ ReceiveTorn \/ Program

Next == Driver \/ FatFs \/ Card \/ Expire \/ Restart

Spec == Init /\ [][Next]_vars

\* The driver runs on, the tick interrupt comes, and a card that is in its slot
\* finishes what it writes.  Nothing else has to happen.
FairSpec == Spec /\ WF_vars(Driver) /\ WF_vars(Expire) /\ WF_vars(Program)

-----------------------------------------------------------------------------

Contents == (Versions \cup {0}) \X SectorSet
Requests == [op : {"none", "mount", "read", "write"}, sector : SectorSet,
             count : 0 .. MaxCount, version : Versions \cup {0}, up : BOOLEAN]

\* Every variable keeps its type.
TypeOK ==
  /\ kind \in Kinds
  /\ present \in BOOLEAN /\ mode \in {"off", "idle", "ready"}
  /\ disk \in [SectorSet -> Contents]
  /\ at \in 0 .. Sectors
  /\ programming \in Contents \cup {NoBlock}
  /\ is_initialized \in BOOLEAN /\ noInit \in BOOLEAN /\ CardType \in Types
  /\ timer \in BOOLEAN /\ step \in Steps
  /\ request \in Requests
  /\ pos \in 1 .. MaxCount + 1 /\ resp \in BOOLEAN
  /\ buff \in [1 .. MaxCount + 1 -> Contents \cup {<<"old">>, <<"crc">>, <<"noise">>}]
  /\ garbled \subseteq 1 .. MaxCount
  /\ reply \in {"none", "ok", "error"}

\* The card and the driver mean the same sector by an address, once the driver
\* takes the card for ready and while it is: whatever commands of the
\* initialisation went unanswered, and however often the card was taken out and
\* put back (sd_spi.c, lines 302, 366 and 411).
Addressing ==
  ~noInit /\ Working => \A s \in SectorSet : Locate(Address(s)) = {s}

\* The driver shows FatFS a block device: see BlockDevice for what that means.
Medium == INSTANCE BlockDevice WITH
  status <- IF ~is_initialized \/ step \in InitSteps THEN "new"
            ELSE IF ~noInit /\ Working THEN "up" ELSE "down",
  buffer <- buff

MediumSpec == Medium!Spec

\* Every request is answered, whatever becomes of the card, as long as one that
\* is there finishes what it writes: the wait of sd_spi.c:200 has no timeout.
RequestEnds == request # NoRequest ~> request = NoRequest

=============================================================================
