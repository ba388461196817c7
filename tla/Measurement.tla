----------------------------- MODULE Measurement -----------------------------
(***************************************************************************)
(* Taking measurements: the AHT21 for temperature and humidity             *)
(* (driver_aht21.c, aht21_wrapper.cpp) and the ADS1115 for a voltage       *)
(* (ADS1115.c, ADS1115_wrapper.cpp) on one I2C bus (i2c_drv.c), read by    *)
(* processing_manager.hpp for the record and by the page of the terminal   *)
(* that streams, through sensorService.hpp; and the clock of module Clock. *)
(*                                                                         *)
(* A measurement is the time at which the chip was told to make it.        *)
(***************************************************************************)
EXTENDS Clock

CONSTANT MaxTime  \* bound of the model

ASSUME MeasurementAssumption == MaxTime \in Nat

VARIABLES
  now,
  bus,         \* "up" while the I2C driver is initialised
  boot,        \* how often the AHT21 was initialised
  inited,      \* of the handle of the AHT21
  ready, makes,  \* the AHT21: the measurement to be read, and the one it makes
  adc,         \* the ADS1115: the measurement to be read
  conversionRegBuff,  \* the last one received of it
  task, step,  \* what runs: "boot", "idle", "record" or "stream", and where;
               \* "hung" in a transfer that does not return
  field,       \* what is being read
  reading      \* _timestamp, _temperature, _humidity; voltage, temperature, humidity

chipVars == <<ready, makes, adc, conversionRegBuff>>
busVars  == <<bus, boot, inited>>
readVars == <<task, step, field, reading>>
vars == <<clockVars, now, chipVars, busVars, readVars>>

None     == -1  \* the chip makes no measurement
Sentinel == -2  \* 255, and 0 for a voltage: nothing was read
Garbage  == -3  \* bytes that the chip did not send

Fields == {"voltage", "temperature", "humidity"}

\* began, and which of the fields were read with a transfer that came back busy,
\* are history.
NoReading == [began |-> 0, time |-> 0, busy |-> {}, value |-> [f \in Fields |-> Sentinel]]

Init ==
  /\ ClockInit
  /\ now = 0
  /\ bus = "down" /\ boot = 0 /\ inited = FALSE
  /\ ready = 0 /\ makes = None /\ adc = Sentinel /\ conversionRegBuff = Sentinel
  /\ task = "boot" /\ step = "init"
  /\ field = "temperature"
  /\ reading = NoReading

-----------------------------------------------------------------------------
(* Time, and the chips.                                                    *)

Tick ==
  /\ now < MaxTime
  /\ now' = now + 1
  /\ ClockTick
  /\ UNCHANGED <<chipVars, busVars, readVars>>

\* The AHT21 is through with a measurement, in 85 ms or later.
Converted ==
  /\ makes # None
  /\ ready' = makes /\ makes' = None
  /\ UNCHANGED <<clockVars, now, adc, conversionRegBuff, busVars, readVars>>

\* What i2c_read and the like come to.  HAL_ERROR is reported; HAL_BUSY is not,
\* which is all there is while the bus is down.
Outcomes == IF bus = "up" THEN {"done", "error", "busy"} ELSE {"busy"}

NoteBusy(o) ==
  IF o = "busy" THEN [reading EXCEPT !.busy = reading.busy \cup {field}] ELSE reading

\* Where a transfer is under way; the start-up of the ADS1115 is the last.
Transferring ==
  \/ step \in {"setUp", "start", "voltage", "status", "data"}
  \/ step = "trigger" /\ inited
  \/ step = "init" /\ boot = 2

\* A transfer has HAL_MAX_DELAY, for ever, to come to an end: with a bus that is
\* up and a line held down it does not.
Hang ==
  /\ bus = "up" /\ Transferring
  /\ step' = "hung"
  /\ UNCHANGED <<clockVars, now, chipVars, busVars, task, field, reading>>

Hung == step = "hung" /\ UNCHANGED vars

-----------------------------------------------------------------------------
(* processingManager::init: the one AHT21 is initialised as thermometer and *)
(* as hygrometer, and the results of both are ignored.                     *)

\* Mutant: the handle is not cleared.
OpenAgain ==
  /\ step = "init" /\ boot < 2
  /\ boot' = boot + 1
  /\ \/ bus' = "up" /\ step' = "setUp"
     \/ bus' \in {"up", "down"} /\ UNCHANGED step
  /\ UNCHANGED <<clockVars, now, chipVars, inited, task, field, reading>>

\* Mutant: until it works.
OpenUntilUp ==
  /\ step = "init" /\ (boot < 2 \/ bus = "down")
  /\ boot' = boot + 1
  /\ inited' = FALSE
  /\ \/ bus' = "up" /\ step' = "setUp"
     \/ bus' \in {"up", "down"} /\ UNCHANGED step
  /\ UNCHANGED <<clockVars, now, chipVars, task, field, reading>>

\* The handle is cleared, and the bus initialised, which may fail.
OpenChip ==
  /\ step = "init" /\ boot < 2
  /\ boot' = boot + 1
  /\ inited' = FALSE
  /\ \/ bus' = "up" /\ step' = "setUp"
     \/ bus' \in {"up", "down"} /\ UNCHANGED step
  /\ UNCHANGED <<clockVars, now, chipVars, task, field, reading>>

\* The status is read, and nine more transfers set three registers if it says
\* that the chip is not calibrated.  An error closes the bus.
SetUpChip ==
  /\ step = "setUp"
  /\ \E failed \in BOOLEAN :
       /\ inited' = ~failed
       /\ bus' = IF failed THEN "down" ELSE bus
  /\ step' = "init"
  /\ UNCHANGED <<clockVars, now, chipVars, boot, task, field, reading>>

\* loggerADC.init sends the configuration three times, whatever becomes of it.
Boot ==
  /\ step = "init" /\ boot = 2
  /\ task' = "idle" /\ step' = "idle"
  /\ UNCHANGED <<clockVars, now, chipVars, busVars, field, reading>>

-----------------------------------------------------------------------------
(* One reading: takeMeasurements, or the streamData signal.                *)

Begin(t) ==
  /\ task = "idle"
  /\ task' = t
  /\ reading' = [NoReading EXCEPT !.began = now, !.time = time]
  /\ field' = IF t = "record" THEN "temperature" ELSE "voltage"
  /\ step' = IF t = "record" THEN "trigger" ELSE "start"
  /\ UNCHANGED <<clockVars, now, chipVars, busVars>>

\* The value of a field; the reading is complete with the humidity.
Got(v, r) ==
  /\ reading' = [r EXCEPT !.value[field] = v]
  /\ IF field = "humidity"
     THEN task' = "idle" /\ step' = "idle" /\ UNCHANGED field
     ELSE /\ field' = IF field = "voltage" THEN "temperature" ELSE "humidity"
          /\ step' = "trigger"
          /\ UNCHANGED task

GotNothing ==
  /\ Got(Sentinel, reading)
  /\ UNCHANGED <<clockVars, now, chipVars, busVars>>

\* ADS1115_Start_Single_Measurement: the chip is through within the 10 ms.
StartVoltage(o) ==
  /\ step = "start" /\ o # "error"
  /\ adc' = IF o = "done" THEN now ELSE adc
  /\ reading' = NoteBusy(o)
  /\ step' = "voltage"
  /\ UNCHANGED <<clockVars, now, ready, makes, conversionRegBuff, busVars, task,
                 field>>

\* The ADS1115 sends no CRC.
ReadVoltage(o) ==
  /\ step = "voltage" /\ o # "error"
  /\ conversionRegBuff' = IF o = "done" THEN adc ELSE conversionRegBuff
  /\ Got(conversionRegBuff', NoteBusy(o))
  /\ UNCHANGED <<clockVars, now, ready, makes, adc, busVars>>

NotInited == step = "trigger" /\ ~inited /\ GotNothing

\* The AHT21 is told to measure, and given 85 ms.
Trigger(o) ==
  /\ step = "trigger" /\ inited /\ o # "error"
  /\ makes' = IF o = "done" THEN now ELSE makes
  /\ reading' = NoteBusy(o)
  /\ step' = "status"
  /\ UNCHANGED <<clockVars, now, ready, adc, conversionRegBuff, busVars, task,
                 field>>

\* An error of any transfer.
TransferError ==
  /\ step \in {"start", "voltage", "trigger", "status", "data"}
  /\ step = "trigger" => inited
  /\ "error" \in Outcomes
  /\ GotNothing

\* The status says the data are ready, or what was on the stack does.
ReadStatus(o) ==
  /\ step = "status" /\ o # "error"
  /\ o = "done" => makes = None
  /\ step' = "data"
  /\ reading' = NoteBusy(o)
  /\ UNCHANGED <<clockVars, now, chipVars, busVars, task, field>>

\* Mutant: the chip is told again.
TriggerAgain(o) ==
  /\ step = "status" /\ o # "error"
  /\ o = "done" => makes # None
  /\ step' = "trigger"
  /\ reading' = NoteBusy(o)
  /\ UNCHANGED <<clockVars, now, chipVars, busVars, task, field>>

NotReady(o) ==
  /\ step = "status" /\ o # "error"
  /\ o = "done" => makes # None
  /\ Got(Sentinel, NoteBusy(o))
  /\ UNCHANGED <<clockVars, now, chipVars, busVars>>

\* Mutant: the CRC is not checked.
Unchecked(buf, crc) == buf

Checked(buf, crc) == IF crc THEN buf ELSE Sentinel

\* The data are read: as sent, or changed on the way, or not at all, when they
\* are what was on the stack, and so is their CRC.
ReadData(o) ==
  /\ step = "data" /\ o # "error"
  /\ \E buf \in IF o = "done" THEN {ready, Garbage} ELSE {Garbage}, crc \in BOOLEAN :
       /\ o = "done" => crc = (buf = ready)
       /\ Got(Checked(buf, crc), NoteBusy(o))
  /\ UNCHANGED <<clockVars, now, chipVars, busVars>>

-----------------------------------------------------------------------------

Reading ==
  \/ NotInited \/ TransferError
  \/ \E o \in Outcomes :
       \/ StartVoltage(o) \/ ReadVoltage(o)
       \/ Trigger(o) \/ ReadStatus(o) \/ NotReady(o) \/ ReadData(o)

BootStep == OpenChip \/ SetUpChip \/ Boot

\* A user sets the clock between two passes of the superloop.
User ==
  /\ task = "idle"
  /\ SetClock
  /\ UNCHANGED <<now, chipVars, busVars, readVars>>

Next ==
  \/ Tick \/ Converted
  \/ BootStep
  \/ \E t \in {"record", "stream"} : Begin(t)
  \/ Reading
  \/ Hang \/ Hung
  \/ User

Spec == Init /\ [][Next]_vars

\* A task that runs goes on, unless a transfer hangs; the AHT21 does not have to
\* become ready.
FairSpec == Spec /\ WF_vars(BootStep) /\ WF_vars(Reading)

-----------------------------------------------------------------------------

Values   == 0 .. MaxTime \cup {Sentinel, Garbage}
Readings == [began : 0 .. MaxTime, time : Times, busy : SUBSET Fields,
             value : [Fields -> Values]]

\* Every variable keeps its type.
TypeOK ==
  /\ ClockTypeOK
  /\ now \in 0 .. MaxTime
  /\ bus \in {"up", "down"} /\ boot \in 0 .. 2 /\ inited \in BOOLEAN
  /\ ready \in 0 .. MaxTime /\ makes \in 0 .. MaxTime \cup {None}
  /\ {adc, conversionRegBuff} \subseteq 0 .. MaxTime \cup {Sentinel}
  /\ task \in {"boot", "idle", "record", "stream"}
  /\ step \in {"init", "setUp", "idle", "start", "voltage", "trigger", "status",
              "data", "hung"}
  /\ field \in Fields
  /\ reading \in Readings

\* What is recorded and shown was measured after the reading began, and is not
\* what an earlier one left in a chip or a buffer, or was changed on the way, as
\* long as no transfer for it came back busy: i2c_drv.c:194 takes those for done.
Fresh ==
  \A f \in Fields :
    \/ reading.value[f] \in {Sentinel} \cup reading.began .. now
    \/ f \in reading.busy

\* An AHT21 that did not come up, be it only the second time it is initialised,
\* and a bus that is closed, show in every value: no record passes off as
\* measured what nobody read.
LostChipShows ==
  task # "boot" =>
    \A f \in Fields :
      bus = "down" \/ (~inited /\ f # "voltage") => reading.value[f] = Sentinel

\* Every reading ends, whatever the chips answer and whichever transfers fail, and
\* the record of the period is made, unless a transfer hangs: the code waits for
\* nothing else (driver_aht21.c:421).
ReadingEnds == task \in {"record", "stream"} ~> task = "idle" \/ step = "hung"

=============================================================================
