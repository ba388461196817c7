-------------------------- MODULE Measurement_proofs --------------------------
(***************************************************************************)
(* Proofs about Measurement and Clock, for every length of a day, calendar *)
(* and number of ticks.                                                    *)
(***************************************************************************)
EXTENDS Measurement, TLAPS

USE MeasurementAssumption, ClockAssumption

\* What a transfer may come back with.
LEMMA OutcomesType == Outcomes \subseteq {"done", "error", "busy"}
  BY DEF Outcomes

-----------------------------------------------------------------------------
(* The clock.                                                              *)

\* Setting the clock leaves it a time and a date, and moves the date only when
\* it is confirmed, to what was typed in if that is a date.
LEMMA SetClockStep ==
  ASSUME ClockTypeOK, SetClock
  PROVE  ClockTypeOK' /\ (DateAsConfirmed => DateAsConfirmed')
  <1>1. PICK t \in -1 .. Day, d \in Typed :
          IF Parsed(t, d)
          THEN \E timeSet, dateSet \in BOOLEAN :
                 /\ SetTimeAndDate(t, d, timeSet, dateSet)
                 /\ said' = IF timeSet /\ dateSet THEN "configured" ELSE "error"
                 /\ confirmed' = IF said' = "configured" THEN d ELSE confirmed
          ELSE /\ said' = "invalid"
               /\ UNCHANGED <<time, date, confirmed>>
    BY DEF SetClock
  <1>2. CASE ~Parsed(t, d)
    BY <1>1, <1>2 DEF ClockTypeOK, DateAsConfirmed
  <1>3. CASE Parsed(t, d)
    <2>1. PICK timeSet \in BOOLEAN, dateSet \in BOOLEAN :
            /\ SetTimeAndDate(t, d, timeSet, dateSet)
            /\ said' = IF timeSet /\ dateSet THEN "configured" ELSE "error"
            /\ confirmed' = IF said' = "configured" THEN d ELSE confirmed
      BY <1>1, <1>3
    <2>2. time' \in Times /\ date' \in Calendar
      BY <2>1 DEF SetTimeAndDate, Register, ClockTypeOK
    <2>3. ~(timeSet /\ dateSet) => date' = date
      BY <2>1 DEF SetTimeAndDate
    <2>4. timeSet /\ dateSet /\ d \in Calendar => date' = d
      BY <2>1 DEF SetTimeAndDate, Register
    <2> QED
      BY <2>1, <2>2, <2>3, <2>4 DEF ClockTypeOK, DateAsConfirmed
  <1> QED
    BY <1>2, <1>3

\* Midnight moves both dates by one day.
LEMMA ClockTickStep ==
  ASSUME ClockTypeOK, ClockTick
  PROVE  ClockTypeOK' /\ (DateAsConfirmed => DateAsConfirmed')
  BY DEF ClockTypeOK, ClockTick, Times, Calendar, Typed, NextDate, DateAsConfirmed

\* Every step keeps the clock's type and the date.
LEMMA ClockStep ==
  ASSUME ClockTypeOK, [Next]_vars
  PROVE  ClockTypeOK' /\ (DateAsConfirmed => DateAsConfirmed')
  <1>1. CASE Tick
    BY <1>1, ClockTickStep DEF Tick
  <1>2. CASE User
    BY <1>2, SetClockStep DEF User
  <1>3. CASE UNCHANGED clockVars
    BY <1>3 DEF clockVars, ClockTypeOK, DateAsConfirmed
  <1>4. CASE UNCHANGED vars \/ Converted \/ BootStep \/ Hang \/ Hung
             \/ \E t \in {"record", "stream"} : Begin(t)
    BY <1>3, <1>4 DEF vars, Converted, BootStep, OpenChip, SetUpChip, Boot, Begin,
                      Hang, Hung
  <1>5. CASE Reading
    <2>1. UNCHANGED clockVars
      BY <1>5 DEF Reading, NotInited, TransferError, GotNothing, StartVoltage,
                  ReadVoltage, Trigger, ReadStatus, NotReady, ReadData
    <2> QED
      BY <1>3, <2>1
  <1> QED
    BY <1>1, <1>2, <1>4, <1>5 DEF Next

\* The clock starts with the date it shows.
LEMMA ClockInitially == Init => ClockTypeOK /\ DateAsConfirmed
  BY DEF Init, ClockInit, ClockTypeOK, DateAsConfirmed, Times, Calendar, Typed

\* However often setting the clock fails half way, and whatever midnight comes in
\* between, the clock has the date that was typed in when it was last confirmed,
\* unless that was none.
THEOREM DateCorrect == Spec => []DateAsConfirmed
  <1>1. ClockTypeOK /\ DateAsConfirmed /\ [Next]_vars
          => ClockTypeOK' /\ DateAsConfirmed'
    BY ClockStep
  <1> QED
    BY ClockInitially, <1>1, PTL DEF Spec

-----------------------------------------------------------------------------
(* Types.                                                                  *)

ReadingTypeOK ==
  /\ now \in 0 .. MaxTime
  /\ bus \in {"up", "down"} /\ boot \in 0 .. 2 /\ inited \in BOOLEAN
  /\ ready \in 0 .. MaxTime /\ makes \in 0 .. MaxTime \cup {None}
  /\ {adc, conversionRegBuff} \subseteq 0 .. MaxTime \cup {Sentinel}
  /\ task \in {"boot", "idle", "record", "stream"}
  /\ step \in {"init", "setUp", "idle", "start", "voltage", "trigger", "status",
              "data", "hung"}
  /\ field \in Fields
  /\ reading \in Readings

\* A reading stays one with a field more that came back busy, or got a value.
LEMMA ReadingType ==
  ASSUME NEW r \in Readings, NEW f \in Fields, NEW v \in Values, NEW o
  PROVE  /\ [r EXCEPT !.busy = r.busy \cup {f}] \in Readings
         /\ [r EXCEPT !.value[f] = v] \in Readings
  BY DEF Readings

\* Noting a busy transfer leaves a reading.
LEMMA NoteBusyType ==
  ASSUME reading \in Readings, field \in Fields, NEW o
  PROVE  NoteBusy(o) \in Readings
  BY ReadingType DEF NoteBusy, Values

\* A value that was got leaves a reading, and a task that goes on.
LEMMA GotType ==
  ASSUME ReadingTypeOK, NEW v \in Values, NEW r \in Readings, Got(v, r)
  PROVE  /\ reading' \in Readings /\ field' \in Fields
         /\ task' \in {"boot", "idle", "record", "stream"}
         /\ step' \in {"idle", "trigger"}
  BY ReadingType DEF Got, ReadingTypeOK, Fields

\* Every step of the readings keeps their types.
LEMMA TypeStep ==
  ASSUME TypeOK, [Next]_vars
  PROVE  TypeOK'
  <1> USE DEF clockVars, chipVars, busVars, readVars
  <1>0. ClockTypeOK' /\ ReadingTypeOK
    <2>1. ClockTypeOK
      BY DEF TypeOK
    <2> QED
      BY <2>1, ClockStep DEF TypeOK, ReadingTypeOK
  <1> SUFFICES ReadingTypeOK'
    BY <1>0 DEF TypeOK, ReadingTypeOK
  <1>1. CASE UNCHANGED vars
    BY <1>0, <1>1 DEF ReadingTypeOK, vars
  <1>2. CASE Tick \/ Converted \/ User \/ Hang \/ Hung
    BY <1>0, <1>2 DEF ReadingTypeOK, Tick, Converted, User, None, Hang, Hung, vars
  <1>3. CASE BootStep
    <2>1. CASE OpenChip
      <3>1. boot' \in 0 .. 2 /\ bus' \in {"up", "down"} /\ step' \in {"init", "setUp"}
        BY <1>0, <2>1 DEF OpenChip, ReadingTypeOK
      <3> QED
        BY <1>0, <2>1, <3>1 DEF OpenChip, ReadingTypeOK
    <2>2. CASE SetUpChip
      <3>1. PICK failed \in BOOLEAN : /\ inited' = ~failed
                                     /\ bus' = IF failed THEN "down" ELSE bus
        BY <2>2 DEF SetUpChip
      <3> QED
        BY <1>0, <2>2, <3>1 DEF SetUpChip, ReadingTypeOK
    <2>3. CASE Boot
      BY <1>0, <2>3 DEF Boot, ReadingTypeOK
    <2> QED
      BY <1>3, <2>1, <2>2, <2>3 DEF BootStep
  <1>4. ASSUME NEW t \in {"record", "stream"}, Begin(t)
        PROVE  ReadingTypeOK'
    <2>1. NoReading \in Readings /\ now \in 0 .. MaxTime /\ time \in Times
      BY <1>0 DEF NoReading, Readings, Values, Times, ReadingTypeOK, TypeOK, ClockTypeOK
    <2>2. [[NoReading EXCEPT !.began = now] EXCEPT !.time = time] \in Readings
      BY <2>1 DEF Readings
    <2> QED
      BY <1>0, <1>4, <2>2 DEF Begin, ReadingTypeOK, Fields
  <1>5. CASE Reading
    <2>1. ASSUME NEW v \in Values, NEW r \in Readings, Got(v, r),
                 UNCHANGED <<now, ready, makes, adc, bus, boot, inited>>,
                 conversionRegBuff' \in 0 .. MaxTime \cup {Sentinel}
          PROVE  ReadingTypeOK'
      BY <1>0, <2>1, GotType DEF ReadingTypeOK
    <2>2. Sentinel \in Values /\ Garbage \in Values /\ reading \in Readings
          /\ ready \in Values
      BY <1>0 DEF Values, ReadingTypeOK
    <2>3. \A o : NoteBusy(o) \in Readings
      BY <1>0, NoteBusyType DEF ReadingTypeOK
    <2>4. CASE NotInited \/ TransferError
      BY <1>0, <2>1, <2>2, <2>4 DEF NotInited, TransferError, GotNothing, ReadingTypeOK
    <2>5. ASSUME NEW o \in Outcomes, StartVoltage(o) \/ Trigger(o) \/ ReadStatus(o)
          PROVE  ReadingTypeOK'
      BY <1>0, <2>3, <2>5 DEF StartVoltage, Trigger, ReadStatus, ReadingTypeOK
    <2>6. ASSUME NEW o \in Outcomes, ReadVoltage(o)
          PROVE  ReadingTypeOK'
      <3>1. conversionRegBuff' \in 0 .. MaxTime \cup {Sentinel}
        BY <1>0, <2>6 DEF ReadVoltage, ReadingTypeOK
      <3> QED
        BY <2>1, <2>3, <2>6, <3>1 DEF ReadVoltage, Values
    <2>7. ASSUME NEW o \in Outcomes, NotReady(o)
          PROVE  ReadingTypeOK'
      BY <1>0, <2>1, <2>2, <2>3, <2>7 DEF NotReady, ReadingTypeOK
    <2>8. ASSUME NEW o \in Outcomes, ReadData(o)
          PROVE  ReadingTypeOK'
      <3>1. PICK buf \in Values, crc \in BOOLEAN : Got(Checked(buf, crc), NoteBusy(o))
        BY <2>2, <2>8 DEF ReadData
      <3>2. Checked(buf, crc) \in Values
        BY <2>2 DEF Checked
      <3> QED
        BY <1>0, <2>1, <2>3, <2>8, <3>1, <3>2 DEF ReadData, ReadingTypeOK
    <2> QED
      BY <1>5, <2>4, <2>5, <2>6, <2>7, <2>8 DEF Reading
  <1> QED
    BY <1>1, <1>2, <1>3, <1>4, <1>5 DEF Next

\* Every variable keeps its type, for every calendar and however long it runs.
THEOREM TypeCorrect == Spec => []TypeOK
  <1>1. ASSUME Init PROVE TypeOK
    <2>1. NoReading \in Readings
      BY DEF NoReading, Readings, Values, Times
    <2>2. ClockTypeOK
      BY <1>1, ClockInitially
    <2>3. 0 \in 0 .. MaxTime /\ 0 \in 0 .. 2
      BY DEF MeasurementAssumption
    <2>4. {adc, conversionRegBuff} \subseteq 0 .. MaxTime \cup {Sentinel}
      BY <1>1 DEF Init
    <2>5. /\ now \in 0 .. MaxTime /\ ready \in 0 .. MaxTime
          /\ makes \in 0 .. MaxTime \cup {None}
          /\ boot \in 0 .. 2 /\ bus \in {"up", "down"} /\ inited \in BOOLEAN
      BY <1>1, <2>3, Zenon DEF Init
    <2>6. /\ task \in {"boot", "idle", "record", "stream"}
          /\ step \in {"init", "setUp", "idle", "start", "voltage", "trigger",
                       "status", "data", "hung"}
          /\ field \in Fields /\ reading \in Readings
      BY <1>1, <2>1 DEF Init, Fields
    <2> QED
      BY <2>2, <2>4, <2>5, <2>6 DEF TypeOK
  <1>2. TypeOK /\ [Next]_vars => TypeOK'
    BY TypeStep
  <1> QED
    BY <1>1, <1>2, PTL DEF Spec

-----------------------------------------------------------------------------
(* What a reading is made of.                                              *)

\* What is measured now was asked for since the reading began, or the bus was
\* busy when it was asked for.
FreshInv ==
  /\ Fresh
  /\ reading.began <= now
  /\ step = "voltage" => adc \in reading.began .. now \/ field \in reading.busy
  /\ step \in {"status", "data"} =>
       \/ makes \in reading.began .. now
       \/ makes = None /\ ready \in reading.began .. now
       \/ field \in reading.busy
  /\ step = "data" => makes = None \/ field \in reading.busy

\* The values of a reading, and what it noted, in the next state.
LEMMA GotReading ==
  ASSUME ReadingTypeOK, NEW v \in Values, NEW r \in Readings, Got(v, r)
  PROVE  /\ reading'.began = r.began /\ reading'.busy = r.busy
         /\ reading'.value[field] = v
         /\ \A f \in Fields \ {field} : reading'.value[f] = r.value[f]
         /\ step' \in {"idle", "trigger"}
  BY DEF Got, Readings, ReadingTypeOK

\* Noting a busy transfer changes nothing else of the reading.
LEMMA NoteBusyReading ==
  ASSUME ReadingTypeOK, NEW o
  PROVE  /\ NoteBusy(o) \in Readings
         /\ NoteBusy(o).began = reading.began
         /\ NoteBusy(o).value = reading.value
         /\ NoteBusy(o).busy = IF o = "busy" THEN reading.busy \cup {field}
                               ELSE reading.busy
  <1>1. NoteBusy(o) \in Readings
    BY NoteBusyType DEF ReadingTypeOK
  <1> QED
    BY <1>1 DEF NoteBusy, Readings, ReadingTypeOK

\* A value that is fresh leaves the reading fresh.
LEMMA GotFresh ==
  ASSUME ReadingTypeOK, FreshInv, UNCHANGED now,
         NEW v \in Values, NEW r \in Readings, Got(v, r),
         r.began = reading.began, r.value = reading.value,
         reading.busy \subseteq r.busy,
         v \in {Sentinel} \cup reading.began .. now \/ field \in r.busy
  PROVE  FreshInv'
  <1>1. /\ reading'.began = reading.began /\ reading'.busy = r.busy
        /\ reading'.value[field] = v
        /\ \A f \in Fields \ {field} : reading'.value[f] = reading.value[f]
        /\ step' \in {"idle", "trigger"}
    BY GotReading
  <1>2. Fresh'
    BY <1>1 DEF Fresh, FreshInv
  <1> QED
    BY <1>1, <1>2 DEF FreshInv

\* Every step keeps the reading fresh: the chip answers with what it was told to
\* measure since, and what is changed on the way does not pass the CRC.
LEMMA FreshStep ==
  ASSUME TypeOK, FreshInv, [Next]_vars
  PROVE  FreshInv'
  <1> USE DEF clockVars, chipVars, busVars, readVars
  <1>0. ReadingTypeOK
    BY DEF TypeOK, ReadingTypeOK
  <1>1. /\ now \in 0 .. MaxTime /\ reading.began \in 0 .. MaxTime
        /\ ready \in 0 .. MaxTime /\ makes \in 0 .. MaxTime \cup {None}
        /\ adc \in 0 .. MaxTime \cup {Sentinel}
        /\ reading \in Readings /\ field \in Fields
        /\ \A f \in Fields : reading.value[f] \in Values
    BY <1>0 DEF ReadingTypeOK, Readings
  <1>2. \A o : /\ NoteBusy(o) \in Readings
               /\ NoteBusy(o).began = reading.began
               /\ NoteBusy(o).value = reading.value
               /\ NoteBusy(o).busy = IF o = "busy" THEN reading.busy \cup {field}
                                     ELSE reading.busy
    BY <1>0, NoteBusyReading
  <1>3. Sentinel \in Values /\ Garbage \in Values /\ ready \in Values
    BY <1>1 DEF Values
  <1>4. CASE UNCHANGED vars \/ User \/ BootStep \/ Hang \/ Hung
    <2>1. UNCHANGED <<now, ready, makes, adc, reading, field>>
          /\ (UNCHANGED step \/ step' \in {"init", "setUp", "idle", "hung"})
      BY <1>4 DEF vars, User, BootStep, OpenChip, SetUpChip, Boot, Hang, Hung
    <2> QED
      BY <2>1 DEF FreshInv, Fresh
  <1>5. CASE Tick
    BY <1>1, <1>5 DEF Tick, FreshInv, Fresh
  <1>6. CASE Converted
    BY <1>1, <1>6 DEF Converted, FreshInv, Fresh
  <1>7. ASSUME NEW t \in {"record", "stream"}, Begin(t)
        PROVE  FreshInv'
    <2>1. /\ reading'.began = now /\ now' = now
          /\ \A f \in Fields : reading'.value[f] = Sentinel
      BY <1>7 DEF Begin, NoReading
    <2> QED
      BY <1>1, <1>7, <2>1 DEF Begin, FreshInv, Fresh
  <1>8. CASE NotInited \/ TransferError
    <2>1. Got(Sentinel, reading) /\ UNCHANGED now
      BY <1>8 DEF NotInited, TransferError, GotNothing
    <2> QED
      BY <1>0, <1>1, <1>3, <2>1, GotFresh
  <1>9. ASSUME NEW o \in Outcomes, StartVoltage(o) \/ Trigger(o) \/ ReadStatus(o)
        PROVE  FreshInv'
    <2>1. o \in {"done", "busy"} /\ reading' = NoteBusy(o) /\ UNCHANGED <<now, field>>
      BY <1>9, OutcomesType DEF StartVoltage, Trigger, ReadStatus
    <2>2. Fresh' /\ reading'.began <= now'
      BY <1>2, <2>1 DEF FreshInv, Fresh
    <2>3. CASE StartVoltage(o)
      BY <1>1, <1>2, <2>1, <2>2, <2>3 DEF StartVoltage, FreshInv
    <2>4. CASE Trigger(o)
      BY <1>1, <1>2, <2>1, <2>2, <2>4 DEF Trigger, FreshInv
    <2>5. CASE ReadStatus(o)
      BY <1>1, <1>2, <2>1, <2>2, <2>5 DEF ReadStatus, FreshInv
    <2> QED
      BY <1>9, <2>3, <2>4, <2>5
  <1>10. ASSUME NEW o \in Outcomes, ReadVoltage(o)
         PROVE  FreshInv'
    <2>1. Got(conversionRegBuff', NoteBusy(o)) /\ o \in {"done", "busy"}
          /\ conversionRegBuff' = (IF o = "done" THEN adc ELSE conversionRegBuff)
          /\ UNCHANGED now /\ step = "voltage"
      BY <1>10, OutcomesType DEF ReadVoltage
    <2>2. conversionRegBuff' \in Values
      BY <1>0, <2>1 DEF ReadingTypeOK, Values
    <2>3. conversionRegBuff' \in reading.began .. now \/ field \in NoteBusy(o).busy
      BY <1>2, <2>1 DEF FreshInv
    <2> QED
      BY <1>0, <1>2, <2>1, <2>2, <2>3, GotFresh
  <1>11. ASSUME NEW o \in Outcomes, NotReady(o)
         PROVE  FreshInv'
    BY <1>0, <1>2, <1>3, <1>11, GotFresh DEF NotReady
  <1>12. ASSUME NEW o \in Outcomes, ReadData(o)
         PROVE  FreshInv'
    <2>1. PICK buf \in (IF o = "done" THEN {ready, Garbage} ELSE {Garbage}),
               crc \in BOOLEAN :
            /\ o = "done" => crc = (buf = ready)
            /\ Got(Checked(buf, crc), NoteBusy(o))
      BY <1>12 DEF ReadData
    <2>2. Checked(buf, crc) \in Values /\ UNCHANGED now /\ step = "data"
      BY <1>3, <1>12 DEF Checked, ReadData
    <2>3. CASE o = "done"
      <3>1. Checked(buf, crc) \in {Sentinel, ready}
        BY <2>1, <2>3 DEF Checked
      <3>2. ready \in reading.began .. now \/ field \in reading.busy
        BY <1>1, <2>2 DEF FreshInv, None
      <3> QED
        BY <1>0, <1>2, <2>1, <2>2, <2>3, <3>1, <3>2, GotFresh
    <2>4. CASE o = "busy"
      BY <1>0, <1>2, <2>1, <2>2, <2>4, GotFresh
    <2> QED
      BY <1>12, <2>3, <2>4, OutcomesType DEF ReadData
  <1> QED
    BY <1>4, <1>5, <1>6, <1>7, <1>8, <1>9, <1>10, <1>11, <1>12 DEF Next, Reading

\* What is recorded and shown was measured after the reading began, unless a
\* transfer for it came back busy.
THEOREM FreshCorrect == Spec => []Fresh
  <1>1. Init => FreshInv
    BY DEF Init, NoReading, FreshInv, Fresh
  <1>2. TypeOK /\ FreshInv /\ [Next]_vars => FreshInv'
    BY FreshStep
  <1>3. FreshInv => Fresh
    BY DEF FreshInv
  <1> QED
    BY <1>1, <1>2, <1>3, TypeCorrect, PTL DEF Spec

-----------------------------------------------------------------------------
(* A chip that did not come up.                                            *)

\* The bus of a chip that came up is up; only such a chip is told to measure.
\* A bus that is down has been so since the start-up: nothing was received.
ChipInv ==
  /\ LostChipShows
  /\ step \in {"init", "setUp"} => task = "boot"
  /\ task = "boot" => step \in {"init", "setUp", "hung"}
  /\ task = "boot" => /\ conversionRegBuff = Sentinel
                      /\ \A f \in Fields : reading.value[f] = Sentinel
  /\ step = "setUp" \/ inited => bus = "up"
  /\ bus = "down" => conversionRegBuff = Sentinel
  /\ step \in {"status", "data"} => inited
  /\ step \in {"start", "voltage"} => field = "voltage"
  /\ step \in {"trigger", "status", "data"} => field # "voltage"

\* A value leaves what is shown in order if it is the sentinel, or was read from
\* a chip that is there.
LEMMA GotShown ==
  ASSUME ReadingTypeOK, ChipInv, task # "boot", UNCHANGED <<bus, inited>>,
         bus = "down" => conversionRegBuff' = Sentinel,
         NEW v \in Values, NEW r \in Readings, Got(v, r),
         r.value = reading.value,
         bus = "down" \/ (~inited /\ field # "voltage") => v = Sentinel
  PROVE  ChipInv'
  <1>1. /\ reading'.value[field] = v
        /\ \A f \in Fields \ {field} : reading'.value[f] = reading.value[f]
    BY GotReading
  <1>2. LostChipShows'
    BY <1>1 DEF LostChipShows, ChipInv
  <1>3. /\ task' # "boot"
        /\ \/ step' = "idle"
           \/ step' = "trigger" /\ field' # "voltage"
    BY DEF Got, ChipInv
  <1> QED
    BY <1>2, <1>3 DEF ChipInv

\* Every step keeps what is said of the chips and the bus.
LEMMA ChipStep ==
  ASSUME TypeOK, ChipInv, [Next]_vars
  PROVE  ChipInv'
  <1> USE DEF clockVars, chipVars, busVars, readVars
  <1>0. ReadingTypeOK
    BY DEF TypeOK, ReadingTypeOK
  <1>1. \A o : NoteBusy(o) \in Readings /\ NoteBusy(o).value = reading.value
    BY <1>0, NoteBusyReading
  <1>2. Sentinel \in Values /\ Garbage \in Values /\ ready \in Values
        /\ reading \in Readings
    BY <1>0 DEF Values, ReadingTypeOK
  <1>3. CASE UNCHANGED vars \/ User \/ Tick \/ Converted \/ Hang \/ Hung
    <2>1. /\ UNCHANGED <<bus, inited, conversionRegBuff, task, field, reading>>
          /\ UNCHANGED step \/ step' = "hung"
      BY <1>3 DEF vars, User, Tick, Converted, Hang, Hung
    <2> QED
      BY <2>1 DEF ChipInv, LostChipShows
  <1>4. CASE OpenChip
    BY <1>4 DEF OpenChip, ChipInv, LostChipShows
  <1>5. CASE SetUpChip
    <2>1. PICK failed \in BOOLEAN : /\ inited' = ~failed
                                   /\ bus' = IF failed THEN "down" ELSE bus
      BY <1>5 DEF SetUpChip
    <2> QED
      BY <1>5, <2>1 DEF SetUpChip, ChipInv, LostChipShows
  <1>6. CASE Boot
    BY <1>6 DEF Boot, ChipInv, LostChipShows
  <1>7. ASSUME NEW t \in {"record", "stream"}, Begin(t)
        PROVE  ChipInv'
    <2>1. \A f \in Fields : reading'.value[f] = Sentinel
      BY <1>7 DEF Begin, NoReading
    <2> QED
      BY <1>7, <2>1 DEF Begin, ChipInv, LostChipShows
  <1>8. CASE NotInited \/ TransferError
    <2>1. /\ Got(Sentinel, reading) /\ UNCHANGED <<bus, inited, conversionRegBuff>>
          /\ task # "boot"
      BY <1>8 DEF NotInited, TransferError, GotNothing, ChipInv
    <2> QED
      BY <1>0, <1>2, <2>1, GotShown DEF ChipInv
  <1>9. ASSUME NEW o \in Outcomes, StartVoltage(o) \/ Trigger(o) \/ ReadStatus(o)
        PROVE  ChipInv'
    <2>1. /\ reading'.value = reading.value
          /\ UNCHANGED <<bus, inited, conversionRegBuff, task, field>>
      BY <1>1, <1>9 DEF StartVoltage, Trigger, ReadStatus
    <2>2. LostChipShows' /\ task # "boot"
      BY <1>9, <2>1 DEF ChipInv, LostChipShows, StartVoltage, Trigger, ReadStatus
    <2> QED
      BY <1>9, <2>1, <2>2 DEF StartVoltage, Trigger, ReadStatus, ChipInv
  <1>10. ASSUME NEW o \in Outcomes, ReadVoltage(o)
         PROVE  ChipInv'
    <2>1. /\ Got(conversionRegBuff', NoteBusy(o))
          /\ UNCHANGED <<bus, inited>> /\ step = "voltage" /\ task # "boot"
          /\ conversionRegBuff' \in Values
      BY <1>0, <1>10 DEF ReadVoltage, ReadingTypeOK, Values, ChipInv
    <2>2. bus = "down" => conversionRegBuff' = Sentinel
      BY <1>10 DEF ReadVoltage, Outcomes, ChipInv
    <2> QED
      BY <1>0, <1>1, <2>1, <2>2, GotShown DEF ChipInv
  <1>11. ASSUME NEW o \in Outcomes, NotReady(o)
         PROVE  ChipInv'
    <2>1. /\ Got(Sentinel, NoteBusy(o)) /\ task # "boot"
          /\ UNCHANGED <<bus, inited, conversionRegBuff>>
      BY <1>11 DEF NotReady, ChipInv
    <2> QED
      BY <1>0, <1>1, <1>2, <2>1, GotShown DEF ChipInv
  <1>12. ASSUME NEW o \in Outcomes, ReadData(o)
         PROVE  ChipInv'
    <2>1. PICK buf \in Values, crc \in BOOLEAN : Got(Checked(buf, crc), NoteBusy(o))
      BY <1>2, <1>12 DEF ReadData
    <2>2. /\ Checked(buf, crc) \in Values
          /\ inited /\ bus = "up" /\ task # "boot"
          /\ UNCHANGED <<bus, inited, conversionRegBuff>>
      BY <1>2, <1>12 DEF Checked, ReadData, ChipInv
    <2> QED
      BY <1>0, <1>1, <2>1, <2>2, GotShown
  <1> QED
    BY <1>3, <1>4, <1>5, <1>6, <1>7, <1>8, <1>9, <1>10, <1>11, <1>12
       DEF Next, Reading, BootStep

\* A sensor that did not come up, and a bus that is closed, show in every value.
THEOREM LostChipCorrect == Spec => []LostChipShows
  <1>1. Init => ChipInv
    BY DEF Init, NoReading, ChipInv, LostChipShows
  <1>2. TypeOK /\ ChipInv /\ [Next]_vars => ChipInv'
    BY ChipStep
  <1>3. ChipInv => LostChipShows
    BY DEF ChipInv
  <1> QED
    BY <1>1, <1>2, <1>3, TypeCorrect, PTL DEF Spec

=============================================================================
