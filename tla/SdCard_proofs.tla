---------------------------- MODULE SdCard_proofs ----------------------------
(***************************************************************************)
(* Proofs about SdCard, for cards of every size and requests of every      *)
(* length: types, the addresses, and that it implements BlockDevice.       *)
(***************************************************************************)
EXTENDS SdCard, TLAPS

USE CardAssumption

TransferSteps == {"command", "token", "stop", "data", "busy", "stopToken", "deselect"}

-----------------------------------------------------------------------------
(* Types.                                                                  *)

\* A request stays as it was made until it is answered; the blocks are counted
\* within it; the card is busy only while the driver waits for it.
CallInv ==
  /\ step = "idle" => request = NoRequest
  /\ step \in InitSteps \cup {"mounted"} => request.op = "mount" /\ is_initialized
  /\ step \in TransferSteps =>
       /\ request.op \in {"read", "write"}
       /\ request.count >= 1 /\ request.sector + request.count <= Sectors
       /\ pos <= request.count + 1
  /\ step \in {"token", "stop"} => request.op = "read"
  /\ step \in {"data", "busy", "stopToken"} => request.op = "write"
  /\ step \in {"token", "data", "busy"} => pos <= request.count
  /\ step = "command" => pos = 1
  /\ programming # NoBlock =>
       /\ step = "busy" /\ Working /\ at \in SectorSet
       /\ programming = Block(pos)

\* A block of the transfer is something a sector may hold.
LEMMA BlockType ==
  ASSUME TypeOK, CallInv, step \in {"data", "busy"}
  PROVE  Block(pos) \in Contents
  <1>1. /\ request.version \in Versions \cup {0}
        /\ request.sector \in 0 .. Sectors - 1 /\ request.count \in 0 .. MaxCount
        /\ pos \in 1 .. MaxCount + 1
    BY DEF TypeOK, Requests, SectorSet
  <1>2. request.sector + pos - 1 \in SectorSet
    BY <1>1 DEF CallInv, TransferSteps, SectorSet
  <1> QED
    BY <1>1, <1>2 DEF Block, Contents

\* No request is one of the requests.
LEMMA NoRequestType == NoRequest \in Requests
  BY DEF NoRequest, Requests, SectorSet

\* What Received leaves, whatever the block.
LEMMA ReceivedType ==
  ASSUME TypeOK, CallInv, step = "token",
         NEW block \in Contents \cup {<<"noise">>}, Received(block)
  PROVE  /\ buff' \in [1 .. MaxCount + 1 -> Contents \cup {<<"old">>, <<"crc">>, <<"noise">>}]
         /\ pos' \in 1 .. MaxCount + 1 /\ pos' <= request.count + 1
         /\ step' \in {"token", "stop", "deselect"}
         /\ step' = "token" => pos' <= request.count
         /\ timer' \in BOOLEAN
  <1>1. /\ request.count \in 0 .. MaxCount /\ pos \in 1 .. MaxCount + 1
        /\ pos <= request.count
    BY DEF TypeOK, CallInv, Requests
  <1>2. buff' \in [1 .. MaxCount + 1 -> Contents \cup {<<"old">>, <<"crc">>, <<"noise">>}]
    BY DEF Received, TypeOK
  <1>3. timer' \in BOOLEAN
    BY DEF Received, TypeOK
  <1> QED
    BY <1>1, <1>2, <1>3 DEF Received, AfterRead

\* The types hold before the first step.
LEMMA TypeInit ==
  ASSUME Init
  PROVE  TypeOK /\ CallInv
  <1>1. SectorSet # {} /\ 0 \in SectorSet /\ 0 \in 0 .. Sectors
    BY DEF SectorSet
  <1>2. request \in Requests /\ request = NoRequest
    BY NoRequestType DEF Init
  <1>3. disk \in [SectorSet -> Contents]
    BY DEF Init, Contents
  <1>4. /\ pos \in 1 .. MaxCount + 1
        /\ buff \in [1 .. MaxCount + 1 -> Contents \cup {<<"old">>, <<"crc">>, <<"noise">>}]
    BY DEF Init
  <1>5. /\ kind \in Kinds /\ mode \in {"off", "idle", "ready"} /\ at \in 0 .. Sectors
        /\ programming \in Contents \cup {NoBlock} /\ CardType \in Types
        /\ step \in Steps /\ reply \in {"none", "ok", "error"}
    BY <1>1 DEF Init, Types, Steps
  <1>6. /\ present \in BOOLEAN /\ is_initialized \in BOOLEAN /\ noInit \in BOOLEAN
        /\ timer \in BOOLEAN /\ resp \in BOOLEAN
    BY Zenon DEF Init
  <1>7. CallInv
    BY <1>2 DEF Init, CallInv, InitSteps, TransferSteps
  <1>8. garbled \subseteq 1 .. MaxCount
    BY DEF Init
  <1> QED
    BY <1>2, <1>3, <1>4, <1>5, <1>6, <1>7, <1>8 DEF TypeOK

\* Every step of the medium, the calls and the driver keeps the types.
LEMMA TypeStep ==
  ASSUME TypeOK, CallInv, [Next]_vars
  PROVE  TypeOK' /\ CallInv'
  <1> USE DEF cardVars, stateVars, callVars, TransferSteps, InitSteps
  <1>1. CASE UNCHANGED vars
    BY <1>1 DEF vars, TypeOK, CallInv, Working, Block
  <1>2. CASE Insert \/ Expire
    <2>1. /\ UNCHANGED <<kind, mode, disk, at, programming, is_initialized, noInit,
                         CardType, step, request, pos, resp, buff, garbled, reply>>
          /\ present' \in BOOLEAN /\ timer' \in BOOLEAN
      BY <1>2 DEF Insert, Expire, TypeOK
    <2> QED
      BY <2>1 DEF TypeOK, CallInv, Working, Block
  <1>3. CASE Remove
    BY <1>3 DEF Remove, TypeOK, CallInv, Working
  <1>4. CASE Program
    <2>1. at \in SectorSet /\ programming \in Contents
      BY <1>4 DEF Program, CallInv, TypeOK
    <2>2. disk' \in [SectorSet -> Contents] /\ at' \in 0 .. Sectors
      BY <1>4, <2>1 DEF Program, TypeOK, SectorSet
    <2> QED
      BY <1>4, <2>2 DEF Program, TypeOK, CallInv, Working
  <1>5. CASE Restart
    BY <1>5, NoRequestType DEF Restart, TypeOK, CallInv, Working, Types, Steps, NoBlock
  <1>6. CASE Mount
    <2>1. request' \in Requests
      BY <1>6, NoRequestType DEF Mount, Requests, Working, TypeOK
    <2> QED
      BY <1>6, <2>1 DEF Mount, TypeOK, CallInv, Working, Steps, NoRequest
  <1>7. ASSUME NEW s \in SectorSet, NEW n \in 1 .. MaxCount, NEW v \in Versions \cup {0},
               NEW op \in {"read", "write"}, Transfer(op, s, n, v)
        PROVE  TypeOK' /\ CallInv'
    <2>1. request' \in Requests
      BY <1>7 DEF Transfer, Requests, Working, TypeOK
    <2>2. buff' \in [1 .. MaxCount + 1 -> Contents \cup {<<"old">>, <<"crc">>, <<"noise">>}]
      BY <1>7 DEF Transfer
    <2>3. resp' \in BOOLEAN
      BY <1>7, Zenon DEF Transfer
    <2>4. pos' \in 1 .. MaxCount + 1
      BY <1>7 DEF Transfer
    <2> QED
      BY <1>7, <2>1, <2>2, <2>3, <2>4 DEF Transfer, TypeOK, CallInv, Working, Steps
  <1>8. ASSUME NEW r \in {"ok", "error"}, Answer(r), step # "busy",
               kind' \in Kinds, present' \in BOOLEAN, UNCHANGED <<disk, at, programming>>,
               mode' \in {"off", "idle", "ready"},
               is_initialized' \in BOOLEAN, noInit' \in BOOLEAN, CardType' \in Types,
               timer' \in BOOLEAN, UNCHANGED <<pos, resp, buff>>
        PROVE  TypeOK' /\ CallInv'
    BY <1>8, NoRequestType DEF Answer, TypeOK, CallInv, Working, Steps
  <1>9. CASE Mounted \/ NotReady \/ Deselect
    <2>1. \E r \in {"ok", "error"} : Answer(r)
      BY <1>9 DEF Mounted, NotReady, Deselect
    <2> QED
      BY <1>8, <1>9, <2>1, Zenon DEF Mounted, NotReady, Deselect, TypeOK
  <1>10. ASSUME NEW type \in Types, InitDone(type), step # "busy",
                UNCHANGED <<kind, present, disk, at, programming, is_initialized,
                            timer, pos, resp, buff>>,
                mode' \in {"off", "idle", "ready"}
         PROVE  TypeOK' /\ CallInv'
    <2>1. noInit' \in BOOLEAN /\ \E r \in {"ok", "error"} : Answer(r)
      BY <1>10 DEF InitDone
    <2> QED
      BY <1>8, <1>10, <2>1 DEF InitDone, TypeOK
  <1>11. CASE GoIdleUnanswered \/ WrongVoltage \/ ReadOcr \/ SetBlockLength
    <2>1. PICK type \in Types : InitDone(type)
      BY <1>11 DEF GoIdleUnanswered, WrongVoltage, ReadOcr, SetBlockLength, Types,
                   CapacityType, TypeOK
    <2> QED
      BY <1>10, <1>11, <2>1 DEF GoIdleUnanswered, WrongVoltage, ReadOcr,
                                SetBlockLength, TypeOK
  <1>12. CASE GoIdle \/ InterfaceCondition \/ NoInterfaceCondition \/ HostCapacity
              \/ Probe \/ OperatingCondition
    <2>1. /\ step \in InitSteps /\ step' \in InitSteps
          /\ mode' \in {"off", "idle", "ready"} /\ CardType' \in Types /\ timer' \in BOOLEAN
          /\ UNCHANGED <<kind, present, disk, at, programming, is_initialized, noInit,
                         request, pos, resp, buff, garbled, reply>>
      BY <1>12 DEF GoIdle, InterfaceCondition, NoInterfaceCondition, HostCapacity,
                   Probe, OperatingCondition, TypeOK, Types
    <2> QED
      BY <2>1 DEF TypeOK, CallInv, Steps, Working
  <1>13. CASE Command
    <2>1. at' \in SectorSet /\ timer' \in BOOLEAN
      BY <1>13 DEF Command, Locate, TypeOK
    <2> QED
      BY <1>13, <2>1 DEF Command, TypeOK, CallInv, Steps, Working, SectorSet
  <1>14. CASE CommandUnanswered \/ NoToken \/ StopTransmission \/ BlockRefused
    <2>1. /\ step \in {"command", "token", "stop", "data"}
          /\ step' \in {"deselect", "stop", "stopToken"}
          /\ step' = "stop" => step = "token"
          /\ step' = "stopToken" => step = "data"
          /\ UNCHANGED <<cardVars, stateVars, timer, callVars>>
      BY <1>14 DEF CommandUnanswered, NoToken, StopTransmission, BlockRefused,
                   AfterRead, AfterWrite
    <2>2. UNCHANGED <<kind, present, mode, disk, at, programming, is_initialized, noInit,
                      CardType, timer, request, pos, resp, buff, garbled, reply>>
      BY <2>1 DEF cardVars, stateVars, callVars
    <2>3. TypeOK'
      BY <2>1, <2>2 DEF TypeOK, Steps
    <2>4. CallInv'
      BY <2>1, <2>2 DEF CallInv, Working, Block, InitSteps, TransferSteps
    <2> QED
      BY <2>3, <2>4
  <1>15. CASE ReceiveBlock
    <2>1. disk[at] \in Contents /\ at' \in 0 .. Sectors
      BY <1>15 DEF ReceiveBlock, TypeOK, SectorSet
    <2> QED
      BY <1>15, <2>1, ReceivedType DEF ReceiveBlock, TypeOK, CallInv, Steps, Working
  <1>16. CASE ReceiveGarbled
    <2>1. at' \in 0 .. Sectors
      BY <1>16 DEF ReceiveGarbled, TypeOK, SectorSet
    <2>2. garbled' \subseteq 1 .. MaxCount
      <3>1. pos \in 1 .. MaxCount
        BY <1>16 DEF ReceiveGarbled, TypeOK, CallInv, Requests
      <3> QED
        BY <1>16, <3>1 DEF ReceiveGarbled, TypeOK
    <2> QED
      BY <1>16, <2>1, <2>2, ReceivedType DEF ReceiveGarbled, TypeOK, CallInv, Steps, Working
  <1>17. CASE ReceiveTorn
    BY <1>17, ReceivedType DEF ReceiveTorn, TypeOK, CallInv, Steps, Working
  <1>18. CASE SendBlock
    <2>1. programming' \in Contents
      BY <1>18, BlockType DEF SendBlock
    <2> QED
      BY <1>18, <2>1 DEF SendBlock, TypeOK, CallInv, Steps, Working, Block
  <1>19. CASE BusyWait
    <2>1. pos' \in 1 .. MaxCount + 1 /\ pos' <= request.count + 1
          /\ (step' = "data" => pos' <= request.count)
          /\ step' \in {"data", "deselect", "stopToken"}
      BY <1>19 DEF BusyWait, TypeOK, CallInv, Requests, AfterWrite
    <2> QED
      BY <1>19, <2>1 DEF BusyWait, TypeOK, CallInv, Steps, Working
  <1>20. CASE StopToken
    <2>1. pos' \in 1 .. MaxCount + 1 /\ pos' <= request.count + 1
      BY <1>20 DEF StopToken, TypeOK, CallInv, Requests
    <2> QED
      BY <1>20, <2>1 DEF StopToken, TypeOK, CallInv, Steps, Working
  <1> QED
    BY <1>1, <1>2, <1>3, <1>4, <1>5, <1>6, <1>7, <1>9, <1>11, <1>12, <1>13, <1>14,
       <1>15, <1>16, <1>17, <1>18, <1>19, <1>20 DEF Next, Card, Driver, Initialize, FatFs

\* The types, and what a call asks for, hold in every state.
LEMMA TypeInvCorrect == Spec => [](TypeOK /\ CallInv)
  <1>1. Init => TypeOK /\ CallInv
    BY TypeInit
  <1>2. TypeOK /\ CallInv /\ [Next]_vars => TypeOK' /\ CallInv'
    BY TypeStep
  <1> QED
    BY <1>1, <1>2, PTL DEF Spec

\* Every variable keeps its type: no block is counted past the buffer, whatever
\* the card leaves unanswered.
THEOREM TypeCorrect == Spec => []TypeOK
  BY TypeInvCorrect, PTL

-----------------------------------------------------------------------------
(* Addresses.                                                              *)

\* The class of addresses the card and the driver use is the same.
SameUnit ==
  \/ CardType \in {"MMC", "SD1"} /\ kind # "SDHC"
  \/ CardType = "SD2+BLOCK" /\ kind = "SDHC"

\* The type is found while STA_NOINIT is set, and once only.  A card of high
\* capacity gets ready only for a driver that knows it as one: the others do not
\* send HCS.
AddressInv ==
  /\ ~noInit => is_initialized
  /\ step \in InitSteps => noInit
  /\ ~noInit /\ Working => SameUnit
  /\ step \in {"hcs", "ocr"} => kind \in {"SD2", "SDHC"}
  /\ step \in {"ifCond", "probe", "op", "blockLen"} => ~(kind = "SDHC" /\ Working)
  /\ step \in {"op", "blockLen"} => CardType \in {"MMC", "SD1"}

\* Every step keeps what the driver may think of the card.
LEMMA AddressStep ==
  ASSUME "SD2" \notin Kinds, TypeOK, CallInv, AddressInv, [Next]_vars
  PROVE  AddressInv'
  <1> USE DEF cardVars, stateVars, callVars, InitSteps, Working
  <1>0. kind # "SD2"
    BY DEF TypeOK
  <1>1. CASE UNCHANGED vars \/ Insert \/ Program \/ Expire \/ Remove
    <2>1. /\ UNCHANGED <<kind, step, is_initialized, noInit, CardType>>
          /\ mode' \in {mode, "off"}
      BY <1>1 DEF vars, Insert, Program, Expire, Remove
    <2> QED
      BY <2>1 DEF AddressInv, SameUnit
  <1>2. CASE Restart
    BY <1>2 DEF Restart, AddressInv
  <1>3. CASE Mount
    BY <1>3 DEF Mount, AddressInv, SameUnit
  <1>4. CASE \/ \E s \in SectorSet, n \in 1 .. MaxCount :
                  \/ Transfer("read", s, n, 0)
                  \/ \E v \in Versions : Transfer("write", s, n, v)
             \/ Mounted \/ NotReady \/ Deselect \/ Command \/ CommandUnanswered
             \/ NoToken \/ StopTransmission \/ ReceiveBlock \/ ReceiveGarbled \/ SendBlock
             \/ BlockRefused \/ BusyWait \/ StopToken
    <2>1. /\ UNCHANGED <<kind, mode, is_initialized, noInit, CardType>>
          /\ step' \notin InitSteps
      BY <1>4 DEF Transfer, Mounted, NotReady, Deselect, Answer, Command,
                  CommandUnanswered, NoToken, StopTransmission, ReceiveBlock,
                  ReceiveGarbled, Received, AfterRead, SendBlock, BlockRefused, AfterWrite, BusyWait,
                  StopToken
    <2> QED
      BY <2>1 DEF AddressInv, SameUnit
  <1>5. CASE ReceiveTorn
    BY <1>5 DEF ReceiveTorn, Received, AfterRead, AddressInv
  <1>6. CASE GoIdle \/ InterfaceCondition \/ NoInterfaceCondition \/ HostCapacity
             \/ Probe \/ OperatingCondition
    <2>1. noInit /\ noInit' /\ UNCHANGED kind
      BY <1>6 DEF GoIdle, InterfaceCondition, NoInterfaceCondition, HostCapacity,
                  Probe, OperatingCondition, AddressInv
    <2> QED
      BY <1>0, <1>6, <2>1 DEF GoIdle, InterfaceCondition, NoInterfaceCondition,
         HostCapacity, Probe, OperatingCondition, AddressInv
  <1>7. CASE GoIdleUnanswered \/ WrongVoltage
    BY <1>7 DEF GoIdleUnanswered, WrongVoltage, InitDone, Answer, AddressInv
  <1>8. CASE ReadOcr
    <2>1. kind = "SDHC"
      BY <1>0, <1>8 DEF ReadOcr, AddressInv
    <2>2. noInit /\ UNCHANGED <<kind, mode, is_initialized>> /\ is_initialized
      BY <1>8 DEF ReadOcr, AddressInv, CallInv
    <2>3. ~noInit' => CardType' = "SD2+BLOCK"
      BY <1>8, <2>1, <2>2 DEF ReadOcr, InitDone, CapacityType
    <2> QED
      BY <1>8, <2>1, <2>2, <2>3 DEF ReadOcr, InitDone, Answer, AddressInv, SameUnit
  <1>9. CASE SetBlockLength
    <2>1. noInit /\ UNCHANGED <<kind, mode, is_initialized>> /\ is_initialized
      BY <1>9 DEF SetBlockLength, AddressInv, CallInv
    <2>2. ~noInit' => /\ CardType' \in {"MMC", "SD1"}
                      /\ Working /\ kind # "SDHC"
      BY <1>9, <2>1 DEF SetBlockLength, InitDone, AddressInv
    <2> QED
      BY <1>9, <2>1, <2>2 DEF SetBlockLength, InitDone, Answer, AddressInv, SameUnit
  <1> QED
    BY <1>1, <1>2, <1>3, <1>4, <1>5, <1>6, <1>7, <1>8, <1>9
       DEF Next, Card, Driver, Initialize, FatFs

\* Sectors are a block apart.
LEMMA Distances ==
  ASSUME NEW s \in Nat, NEW t \in Nat, s * BlockSize = t * BlockSize
  PROVE  s = t
  OBVIOUS

\* Where both count in the same unit, an address means its sector.
LEMMA SameAddress ==
  ASSUME SameUnit, NEW s \in SectorSet
  PROVE  Locate(Address(s)) = {s}
  <1>1. SectorSet \subseteq Nat
    BY DEF SectorSet
  <1>2. CASE CardType = "SD2+BLOCK" /\ kind = "SDHC"
    BY <1>2 DEF Locate, Address
  <1>3. CASE CardType \in {"MMC", "SD1"} /\ kind # "SDHC"
    <2>1. Locate(Address(s)) = {t \in SectorSet : s * BlockSize = t * BlockSize}
      BY <1>3 DEF Locate, Address
    <2> QED
      BY <1>1, <2>1, Distances
  <1> QED
    BY <1>2, <1>3 DEF SameUnit

\* Driver and card fit together in every state.
LEMMA AddressInvCorrect ==
  ASSUME "SD2" \notin Kinds
  PROVE  Spec => []AddressInv
  <1>1. Init => AddressInv
    BY DEF Init, AddressInv, InitSteps
  <1>2. TypeOK /\ CallInv /\ AddressInv /\ [Next]_vars => AddressInv'
    BY AddressStep
  <1> QED
    BY <1>1, <1>2, TypeInvCorrect, PTL DEF Spec

\* Without cards of version 2 and standard capacity, an address always means the
\* same sector to the driver and the card.
THEOREM AddressingCorrect ==
  ASSUME "SD2" \notin Kinds
  PROVE  Spec => []Addressing
  <1>1. AddressInv => Addressing
    BY SameAddress DEF AddressInv, Addressing
  <1> QED
    BY <1>1, AddressInvCorrect, PTL

-----------------------------------------------------------------------------
(* What is transferred.                                                    *)

Writing == step \in {"data", "busy", "stopToken"} \/ (step = "deselect" /\ request.op = "write")
Reading == step \in {"token", "stop"} \/ (step = "deselect" /\ request.op = "read")

\* While the card stays, it is where the driver takes it to be, and the blocks
\* counted so far are where they belong.
ProgressInv ==
  /\ step \in {"token", "stop", "data", "busy", "stopToken"} => ~noInit /\ request.up
  /\ step = "command" /\ ~noInit /\ Working => request.up
  /\ step = "deselect" /\ pos > request.count => request.up
  /\ Working /\ step \in {"token", "data"} => at = request.sector + pos - 1
  /\ Working /\ step = "busy" =>
       IF programming = NoBlock
       THEN /\ at = request.sector + pos
            /\ disk[request.sector + pos - 1] = Block(pos)
       ELSE at = request.sector + pos - 1
  /\ Working /\ Reading =>
       \A i \in 1 .. pos - 1 : buff[i] = disk[request.sector + i - 1] \/ i \in garbled
  /\ Working /\ Writing =>
       \A i \in 1 .. pos - 1 : disk[request.sector + i - 1] = Block(i)

\* The numbers of a request.
LEMMA RequestNumbers ==
  ASSUME TypeOK, CallInv
  PROVE  /\ request.sector \in Nat /\ request.count \in 0 .. MaxCount
         /\ pos \in 1 .. MaxCount + 1
         /\ request.version \in Versions \cup {0}
  BY DEF TypeOK, Requests, SectorSet

\* Every step of a transfer moves as many blocks as it counts.
LEMMA ProgressStep ==
  ASSUME "SD2" \notin Kinds, TypeOK, CallInv, AddressInv, ProgressInv, [Next]_vars
  PROVE  ProgressInv'
  <1> USE DEF cardVars, stateVars, callVars, InitSteps, TransferSteps, Working
  <1>0. /\ request.sector \in Nat /\ request.count \in 0 .. MaxCount
        /\ pos \in 1 .. MaxCount + 1
    BY RequestNumbers
  <1>1. CASE UNCHANGED vars \/ Insert \/ Expire
    <2>1. UNCHANGED <<mode, disk, at, programming, noInit, step, request, pos, buff, garbled>>
      BY <1>1 DEF vars, Insert, Expire
    <2> QED
      BY <2>1 DEF ProgressInv, Reading, Writing, Block
  <1>2. CASE Remove
    BY <1>2 DEF Remove, ProgressInv, Reading, Writing
  <1>3. CASE Program
    <2>1. /\ step = "busy" /\ at \in SectorSet /\ programming = Block(pos)
          /\ at = request.sector + pos - 1 /\ request.op = "write"
      BY <1>3 DEF Program, CallInv, ProgressInv
    <2>2. /\ disk'[request.sector + pos - 1] = Block(pos)
          /\ \A i \in 1 .. pos - 1 : disk'[request.sector + i - 1] = disk[request.sector + i - 1]
      BY <1>0, <1>3, <2>1 DEF Program, TypeOK
    <2> QED
      BY <1>0, <1>3, <2>1, <2>2 DEF Program, ProgressInv, Reading, Writing, Block
  <1>4. CASE step' \in InitSteps \cup {"idle", "mounted"}
    BY <1>4 DEF ProgressInv, Reading, Writing
  <1>5. ASSUME NEW op \in {"read", "write"}, NEW s \in SectorSet, NEW n \in 1 .. MaxCount,
               NEW v \in Versions \cup {0}, Transfer(op, s, n, v)
        PROVE  ProgressInv'
    BY <1>5 DEF Transfer, ProgressInv, Reading, Writing
  <1>6. CASE Command
    <2>1. /\ SameUnit /\ request.up /\ ~noInit /\ step = "command" /\ pos = 1
          /\ request.op \in {"read", "write"}
      BY <1>6 DEF Command, AddressInv, ProgressInv, CallInv
    <2>2. at' = request.sector
      BY <1>6, <2>1, SameAddress DEF Command, TypeOK, Requests
    <2> QED
      BY <1>0, <1>6, <2>1, <2>2 DEF Command, ProgressInv, Reading, Writing
  <1>7. CASE CommandUnanswered
    BY <1>0, <1>7 DEF CommandUnanswered, ProgressInv, Reading, Writing, CallInv
  <1>8. CASE NoToken \/ StopTransmission \/ BlockRefused
    BY <1>0, <1>8 DEF NoToken, StopTransmission, BlockRefused, AfterRead, AfterWrite,
                      ProgressInv, Reading, Writing, CallInv, Block
  <1>9. CASE ReceiveBlock \/ ReceiveGarbled
    <2>1. /\ step = "token" /\ request.op = "read" /\ pos <= request.count
          /\ at = request.sector + pos - 1 /\ request.up /\ ~noInit
      BY <1>9 DEF ReceiveBlock, ReceiveGarbled, CallInv, ProgressInv
    <2>2. /\ pos' = pos + 1 /\ garbled \subseteq garbled'
          /\ buff'[pos] = disk[request.sector + pos - 1] \/ pos \in garbled'
          /\ \A i \in 1 .. pos - 1 : buff'[i] = buff[i]
      BY <1>0, <1>9, <2>1 DEF ReceiveBlock, ReceiveGarbled, Received, TypeOK
    <2>3. \A i \in 1 .. pos' - 1 :
            buff'[i] = disk[request.sector + i - 1] \/ i \in garbled'
      BY <1>0, <1>9, <2>1, <2>2 DEF ReceiveBlock, ReceiveGarbled, ProgressInv, Reading
    <2>4. step' \in {"token", "stop", "deselect"}
      BY <1>9 DEF ReceiveBlock, ReceiveGarbled, Received, AfterRead
    <2> QED
      BY <1>0, <1>9, <2>1, <2>2, <2>3, <2>4
         DEF ReceiveBlock, ReceiveGarbled, ProgressInv, Reading, Writing
  <1>10. CASE ReceiveTorn
    <2>1. step' \in {"token", "stop", "deselect"} /\ request.up /\ ~noInit
      BY <1>10 DEF ReceiveTorn, Received, AfterRead, ProgressInv
    <2> QED
      BY <1>10, <2>1 DEF ReceiveTorn, ProgressInv
  <1>11. CASE SendBlock
    BY <1>0, <1>11 DEF SendBlock, ProgressInv, Reading, Writing, Block, NoBlock
  <1>12. CASE BusyWait
    <2>1. /\ step = "busy" /\ programming = NoBlock /\ request.op = "write"
          /\ request.up /\ ~noInit
      BY <1>12 DEF BusyWait, CallInv, ProgressInv
    <2>2. /\ pos' = pos \/ pos' = pos + 1
          /\ step' \in {"data", "stopToken", "deselect"}
          /\ step' = "data" => pos' = pos + 1
      BY <1>12 DEF BusyWait, AfterWrite
    <2>3. Working => \A i \in 1 .. pos' - 1 : disk[request.sector + i - 1] = Block(i)
      BY <1>0, <2>1, <2>2 DEF ProgressInv, Writing
    <2> QED
      BY <1>0, <1>12, <2>1, <2>2, <2>3 DEF BusyWait, ProgressInv, Reading, Writing, Block
  <1>13. CASE StopToken
    <2>1. request.op = "write" /\ (pos' = pos \/ pos' = 1)
      BY <1>13 DEF StopToken, CallInv
    <2> QED
      BY <1>0, <1>13, <2>1 DEF StopToken, ProgressInv, Reading, Writing, Block
  <1>14. CASE Initialize \/ NotReady \/ Deselect \/ Mount \/ Restart
    <2>1. step' \in InitSteps \cup {"idle", "mounted"}
      BY <1>14 DEF Initialize, NotReady, Deselect, Mount, Restart, Mounted, Answer,
           GoIdle, GoIdleUnanswered, InitDone, InterfaceCondition, WrongVoltage,
           NoInterfaceCondition, HostCapacity, ReadOcr, Probe, OperatingCondition,
           SetBlockLength
    <2> QED
      BY <1>4, <2>1
  <1> QED
    BY <1>1, <1>2, <1>3, <1>5, <1>6, <1>7, <1>8, <1>9, <1>10, <1>11, <1>12, <1>13,
       <1>14 DEF Next, Card, Driver, FatFs

\* All of the invariant holds in every state.
LEMMA ProgressInvCorrect ==
  ASSUME "SD2" \notin Kinds
  PROVE  Spec => [](TypeOK /\ CallInv /\ AddressInv /\ ProgressInv)
  <1>1. Init => ProgressInv
    BY DEF Init, ProgressInv, Reading, Writing
  <1>2. TypeOK /\ CallInv /\ AddressInv /\ ProgressInv /\ [Next]_vars => ProgressInv'
    BY ProgressStep
  <1> QED
    BY <1>1, <1>2, TypeInvCorrect, AddressInvCorrect, PTL DEF Spec

-----------------------------------------------------------------------------
(* The block device.                                                       *)

\* The card starts as a medium that no request was made of.
LEMMA Initial ==
  ASSUME Init
  PROVE  Medium!Init
  BY DEF Init, Medium!Init, NoRequest, Medium!NoRequest

\* What the driver has done when it answers "ok".
LEMMA AnswerStep ==
  ASSUME TypeOK, CallInv, AddressInv, ProgressInv, Deselect
  PROVE  Medium!Answer
  <1> USE DEF stateVars, cardVars, InitSteps, TransferSteps
  <1>1. /\ request.sector \in Nat /\ request.count \in 0 .. MaxCount
        /\ pos \in 1 .. MaxCount + 1
    BY RequestNumbers
  <1>2. /\ step = "deselect" /\ request.op \in {"read", "write"}
        /\ pos <= request.count + 1
        /\ UNCHANGED <<is_initialized, noInit, mode, disk, buff>>
        /\ step' = "idle" /\ request' = NoRequest /\ garbled' = {}
        /\ reply' = IF pos > request.count THEN "ok" ELSE "error"
    BY DEF Deselect, Answer, CallInv
  <1>3. request # NoRequest
    BY <1>2 DEF NoRequest
  <1>4. ASSUME pos > request.count, ~noInit, Working
        PROVE  Medium!Done
    <2>1. pos - 1 = request.count
      BY <1>1, <1>2, <1>4
    <2>2. ASSUME NEW s \in request.sector .. request.sector + request.count - 1
          PROVE  IF request.op = "write" THEN disk[s] = <<request.version, s>>
                 ELSE \/ disk[s] = buff[s - request.sector + 1]
                      \/ s - request.sector + 1 \in garbled
      <3>1. /\ s - request.sector + 1 \in 1 .. pos - 1
            /\ request.sector + (s - request.sector + 1) - 1 = s
        BY <1>1, <2>1, <2>2
      <3> QED
        BY <1>2, <1>4, <3>1 DEF ProgressInv, Reading, Writing, Block
    <2> QED
      BY <2>2 DEF Medium!Done, Medium!Covered, Medium!Content
  <1>5. pos > request.count => request.up
    BY <1>2 DEF ProgressInv
  <1> QED
    BY <1>2, <1>3, <1>4, <1>5 DEF Medium!Answer, NoRequest, Medium!NoRequest, Working

\* A block received changes its place in the buffer and the byte behind it.
LEMMA ReceivedFills ==
  ASSUME TypeOK, CallInv, step = "token", NEW block, Received(block)
  PROVE  Medium!Filled
  <1>1. pos \in 1 .. MaxCount + 1 /\ pos <= request.count /\ request.count \in 0 .. MaxCount
    BY RequestNumbers DEF CallInv
  <1>2. /\ DOMAIN buff = 1 .. MaxCount + 1 /\ DOMAIN buff' = DOMAIN buff
        /\ \A i \in DOMAIN buff : i # pos /\ i # pos + 1 => buff'[i] = buff[i]
    BY DEF Received, TypeOK
  <1>3. ASSUME NEW i \in DOMAIN buff, buff'[i] # buff[i]
        PROVE  i <= request.count + 1
    BY <1>1, <1>2, <1>3
  <1> QED
    BY <1>2, <1>3 DEF Medium!Filled

\* Every step of the card and its driver is one of the block device, or none.
LEMMA MediumStep ==
  ASSUME TypeOK, CallInv, AddressInv, ProgressInv, [Next]_vars
  PROVE  [Medium!Next]_(Medium!vars)
  <1> USE DEF cardVars, stateVars, callVars, InitSteps, TransferSteps, Working,
              Medium!vars
  <1>0. Medium!NoRequest = NoRequest
    BY DEF NoRequest, Medium!NoRequest
  <1>1. CASE UNCHANGED vars \/ Insert \/ Expire
    BY <1>1 DEF vars, Insert, Expire
  <1>2. CASE Remove
    <2>1. Medium!Filled
      BY <1>2 DEF Remove, Medium!Filled
    <2> QED
      BY <1>2, <2>1 DEF Remove, Medium!Next, Medium!GoDown
  <1>3. CASE Program
    <2>1. /\ step = "busy" /\ at \in SectorSet /\ programming = Block(pos)
          /\ at = request.sector + pos - 1 /\ request.op = "write"
          /\ pos <= request.count
      BY <1>3 DEF Program, CallInv, ProgressInv
    <2>2. at \in request.sector .. request.sector + request.count - 1
      BY <2>1, RequestNumbers
    <2>3. disk' = [disk EXCEPT ![at] = <<request.version, at>>]
      BY <1>3, <2>1 DEF Program, Block
    <2>4. Medium!Store
      BY <1>3, <2>1, <2>2, <2>3 DEF Program, Medium!Store, Medium!Covered, Medium!Content
    <2> QED
      BY <2>4 DEF Medium!Next
  <1>4. CASE Restart
    BY <1>0, <1>4 DEF Restart, Medium!Next, Medium!Restart
  <1>5. CASE Mount
    BY <1>0, <1>5 DEF Mount, CallInv, AddressInv, NoRequest, Medium!Next, Medium!Ask
  <1>6. ASSUME NEW op \in {"read", "write"}, NEW s \in SectorSet, NEW n \in 1 .. MaxCount,
               NEW v \in Versions \cup {0}, Transfer(op, s, n, v)
        PROVE  Medium!Ask
    BY <1>0, <1>6 DEF Transfer, CallInv, AddressInv, Medium!Ask
  <1>7. CASE Mounted
    BY <1>0, <1>7 DEF Mounted, Answer, CallInv, NoRequest, Medium!Next, Medium!Answer
  <1>8. CASE NotReady
    BY <1>0, <1>8 DEF NotReady, Answer, CallInv, NoRequest, Medium!Next, Medium!Answer
  <1>9. CASE Deselect
    BY <1>9, AnswerStep DEF Medium!Next
  <1>10. CASE GoIdle \/ InterfaceCondition \/ NoInterfaceCondition \/ HostCapacity
              \/ Probe \/ OperatingCondition
    <2>1. /\ step \in InitSteps /\ step' \in InitSteps
          /\ UNCHANGED <<is_initialized, disk, request, buff, garbled, reply>>
      BY <1>10 DEF GoIdle, InterfaceCondition, NoInterfaceCondition, HostCapacity,
                   Probe, OperatingCondition
    <2> QED
      BY <2>1
  <1>11. CASE GoIdleUnanswered \/ WrongVoltage \/ ReadOcr \/ SetBlockLength
    <2>1. /\ step \in InitSteps /\ request.op = "mount" /\ step' = "idle"
          /\ is_initialized /\ request' = NoRequest /\ garbled' = {}
          /\ UNCHANGED <<is_initialized, disk, buff>>
          /\ reply' \in {"ok", "error"} /\ (~noInit' => reply' = "ok")
      BY <1>11 DEF GoIdleUnanswered, WrongVoltage, ReadOcr, SetBlockLength, InitDone,
                   Answer, CallInv
    <2> QED
      BY <1>0, <2>1 DEF Medium!Next, Medium!Mount
  <1>12. CASE \/ Command \/ CommandUnanswered \/ NoToken \/ StopTransmission \/ SendBlock
              \/ BlockRefused \/ BusyWait \/ StopToken
    <2>1. /\ step \notin InitSteps /\ step' \notin InitSteps
          /\ UNCHANGED <<is_initialized, noInit, mode, disk, request, buff, garbled, reply>>
      BY <1>12 DEF Command, CommandUnanswered, NoToken, StopTransmission, AfterRead,
                   SendBlock, BlockRefused, AfterWrite, BusyWait, StopToken
    <2> QED
      BY <2>1
  <1>13. CASE ReceiveBlock \/ ReceiveGarbled \/ ReceiveTorn
    <2>1. /\ step = "token" /\ request.op = "read" /\ ~noInit /\ is_initialized
          /\ Working /\ step' \in {"token", "stop", "deselect"}
          /\ UNCHANGED <<is_initialized, noInit, disk, request, reply>>
          /\ garbled \subseteq garbled'
      BY <1>13 DEF ReceiveBlock, ReceiveGarbled, ReceiveTorn, Received, AfterRead, CallInv,
                   ProgressInv, AddressInv
    <2>2. Medium!Filled
      BY <1>13, <2>1, ReceivedFills DEF ReceiveBlock, ReceiveGarbled, ReceiveTorn
    <2>3. CASE ReceiveBlock \/ ReceiveGarbled
      <3>1. mode' = mode
        BY <2>3 DEF ReceiveBlock, ReceiveGarbled
      <3> QED
        BY <2>1, <2>2, <3>1 DEF Medium!Next, Medium!Fill
    <2>4. CASE ReceiveTorn
      <3>1. mode' = "off" /\ garbled' = garbled
        BY <2>4 DEF ReceiveTorn
      <3> QED
        BY <2>1, <2>2, <3>1 DEF Medium!Next, Medium!GoDown
    <2> QED
      BY <1>13, <2>3, <2>4
  <1> QED
    BY <1>1, <1>2, <1>3, <1>4, <1>5, <1>6, <1>7, <1>8, <1>9, <1>10, <1>11, <1>12, <1>13
       DEF Next, Card, Driver, Initialize, FatFs, Medium!Next

\* The driver is the block device FatFS is promised: nothing it answers with "ok"
\* is missing or in the wrong place, and no other sector changes, for every card
\* but those of version 2 and standard capacity, wherever it is taken out.
THEOREM Refinement ==
  ASSUME "SD2" \notin Kinds
  PROVE  Spec => MediumSpec
  <1>1. Init => Medium!Init
    BY Initial
  <1>2. TypeOK /\ CallInv /\ AddressInv /\ ProgressInv /\ [Next]_vars
          => [Medium!Next]_(Medium!vars)
    BY MediumStep
  <1> QED
    BY <1>1, <1>2, ProgressInvCorrect, PTL DEF Spec, MediumSpec, Medium!Spec

=============================================================================
