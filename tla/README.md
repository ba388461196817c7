# genLogger: TLA+ models and proofs

genLogger is a data logger for an STM32F429 (with a host build): a superloop
measures temperature and humidity once per period, appends a line to a file on
an SD card, posts the same record to an HTTP server, and offers a menu on a
serial line whose settings are kept in a file in the internal flash.  This
directory holds models of its core logic, TLC runs that check them on small
instances, and TLAPS proofs for every value of the constants.

Paths are relative to `src/source/` unless they begin with `src/`.

## 1. Inventory

Only three things run concurrently with the superloop: the tick interrupt (a
thread in the host build), the UART's DMA and interrupts (an input thread), and
whatever is at the other end of the network.  Inside the superloop nothing is
preempted by another task; what makes the system hard is state that outlives
one pass: a request in flight, a flag raised by the interrupt, one buffer with
two readers, a structure in RAM against a file in flash.

| component | state | operations | talks to |
|---|---|---|---|
| superloop, `app/main/src/main.cpp` | `runMeasurementTask`, `measurementTaskPeriod` | boot, `configurationTask`, `measurementTask`, `loggerTask`, `networkTask` | everything, by calls; SysTick by the flag |
| tick, `virtualDevices/src/virtualTimer.cpp`, `microcontroller/.../interrupts.c`, `timer.c` | the counter | tick, `getTicks` | raises `runMeasurementTask`; read by the HTTP client |
| processing manager, `app/measurementSubsystem/inc/processing_manager.hpp` | `_sensorInfoBuff`, observers | `takeMeasurements`, `formatData`, `notifyObservers` | `update()` of logger and client |
| logger manager, `app/loggerSubsystem/` | `_availableData`, a pointer to the buffer | `update`, `handler`, `getAvailableDataFlag` | file system wrapper (FatFS), metadata |
| HTTP client, `app/networkSubsystem/*/httpClient.*` | `_availableDataFlag`, `_firstCall`, `_connTimer` | `update`, `postSensorData` | network manager, tick |
| network manager, `app/networkSubsystem/*/networkManager.*` | `_firstCall`, `done`, the connection | `httpConnectPost`, `mgEventHandler` | mongoose, by poll and callback |
| terminal, `app/configurationSubsystem/*/terminal_component.*` | `_activeState`, `_previousSignal`, `_availableSignal` | `handler`, `signalDispacher` | mediator, metadata, clock |
| mediator, `config_manager.*`, `config_mediator.hpp` | pointers | `notify` | internal storage |
| internal storage, `internalStorage_component.*` | `_metadataUpdatedFlag` | `initFS`, `retrieveMetadata`, `storeMetadata` | file system wrapper (littlefs), metadata |
| metadata, `app/loggerMetadata/` | the structure | its getter | terminal, storage, logger, main |
| file system wrapper, `platform/inc/filesystemWrapper.hpp` | one open file | mount, open, read, write, close | littlefs, FatFS, stdio |
| serial handler, `platform/src/serialHandler.cpp`, `uart.c` | line buffers, flags | receive, get, clear | terminal, DMA |
| clock, `virtualDevices/inc/virtualRTC.hpp`, `drivers/rtc/` | the RTC | get and set of time and date | terminal, processing manager |
| sensors, `drivers/AHT21/`, `i2c_drv.c`, simulator | - | init, read | processing manager |
| SD card, `drivers/SDCard/sd_spi.c`, `middleware/FatFS/diskio.c` | card type, timers, status | initialise, block read and write | FatFS |
| FatFS, `middleware/FatFS/ff.c` | the volume, its window, locks, the open file | open, write, close | disk, file system wrapper |
| flash, `drivers/W25Qx/`, `platform/src/littleFSInterface.cpp` | - | read, program, erase | littlefs |
| ADC, `drivers/ADS1115/` | the last conversion received | start, read | terminal's page that streams |
| utilities, debug log, start-up, test server, other vendored libraries | - | - | - |

What makes each of them correct:

- superloop and tick: no period is lost; the buffer of a record is not
  overwritten while a reader still needs it; every record is resolved.
- logger: the file only grows, in order, each record at most once; a record is
  dropped only because storage failed.
- client and manager: one request at a time; each record reaches the server at
  most once and in order; every POST ends; what is reported is what happened.
- terminal, mediator, storage: what is reported as saved is what the next boot
  brings back; a loss of power leaves the old or the new settings; a boot ends in
  the superloop; what the info page shows is what is stored.
- serial line: no line is lost or read half, and none is read twice.
- clock: the date is the one confirmed to the user.
- sensors: a record is made only of what was read, for it.
- card: what is answered "ok" is on the card, in its place; what is not named in
  a request does not change; every request is answered.
- log file on the card: it only grows, by beginnings of lines in order; a line is
  kept whole if no request to the disk failed and the volume is not full.

The hard cases, each at its line, are the `hazards` of `PROJECT.json`.

## 2. Modules

| module | models | role |
|---|---|---|
| `HttpPost` | `httpClient.cpp`, `networkManager.cpp`, `networkTask`, what they see of mongoose and the server | specification |
| `DataLogger` | the superloop, the tick, `logger_manager.cpp`, the processing manager; instantiates `HttpPost` | composition |
| `RecordPipeline` | what both observers promise together | abstract specification of `DataLogger` |
| `Metadata` | the structure, its line of text, the parser | operators |
| `ConfigStore` | `terminal_component.cpp`, `config_manager.cpp`, `internalStorage_component.cpp`, boot and `configurationTask` | specification |
| `DurableConfig` | the stored settings as a durable register | abstract specification of `ConfigStore` |
| `MCConfigStore` | what is typed in the runs | instance for TLC |
| `SerialInput` | `serialHandler.cpp`, `uart.c`, the buffers between them and the terminal | specification |
| `SdCard` | `sd_spi.c` under `diskio.c` and `user_diskio.c`, the card | specification |
| `BlockDevice` | what FatFS may expect of a disk | abstract specification of `SdCard` |
| `FatFile` | `f_open`, `f_write`, `f_close` of `ff.c`, `fatFSHandler`, the logger's handler | specification |
| `AppendLog` | what a reader of the card may expect of the log file | abstract specification of `FatFile` |
| `Clock` | the RTC and how the terminal sets it | part of `Measurement` |
| `Measurement` | the AHT21 and ADS1115 drivers on the I2C bus, their wrappers, a reading | specification |
| `FatChain` | what following the links of any FAT leads to | lemmas for `FatFile_proofs` |
| `*_proofs` | | proofs about the module they are named after |

How they fit together: `DataLogger` composes the superloop with the client; its
log is what `AppendLog` promises, seen per record instead of per byte, and
`FatFile` shows that the code keeps the promise on a disk that `BlockDevice`
allows, which `SdCard` implements.  What `ConfigStore` gets for a signal is what
`SerialInput` hands over.  What a record is made of is `Measurement`.  The state spaces are not
multiplied: the modules meet at their abstract specifications.

### HttpPost

A record is its number; the number 0 stands for an empty buffer.  `mailbox` is
the processing manager's buffer, which the client only points to.  A pass of
`networkTask` is two actions, because the server and the tick may act between
the start of `mg_mgr_poll` and its end: `StartPost` is everything up to
the poll (the timer's first call, the manager's first call with
`mg_http_connect`), `FinishPost` one poll and what the code decides from `done`
and the timer afterwards.  In one poll a connection has at most one event that
`mgEventHandler` acts on: `OnConnect` (MG_EV_CONNECT prints the buffer *as it is
now* into the send buffer), `OnMessage` (MG_EV_HTTP_MSG sets `done` and re-arms
`_firstCall`), or `OnClose` (MG_EV_ERROR, MG_EV_CLOSE, for which the handler has
no branch); `OnWrite` is the socket back end's later write.  `conns` keeps every
connection ever asked for, so a late answer of an old one is possible.

Abstractions: the request of a connection that closes is not received any more
(a server that received it just before is the behaviour in which it received it
and then the connection closed).  The tick is counted modulo `TickModulus`, the
code's counter has 64 bits: `ClockMayAdvance` says that one POST never lasts a
full turn of it.  `attempted`, `sent` and `failed` are history variables: for
which record a connection was asked, what `networkTask` logged.

### DataLogger

The superloop as a program counter `loop`; the tick interrupt `SysTick` between
any two steps.  `MeasurementTask` is the measurement up to `notifyObservers`,
`ClearMeasurementFlag` the assignment after it: a tick may come between the two.
The same buffer serves both observers, so the logger's record is `HttpPost`'s
`mailbox`.  `LoggerTask` covers every branch of `loggerManager::handler`: the
append, the create after an append that was refused, a line cut short, no open at
all, and the branch of CREATE_FILE_A_DAY, which is empty in the code (it is the
default's: until the setting is changed no record is kept).
`ConfigurationTask` only changes what the logger reads of the metadata: any
value of `FileCreationPeriods`, at any pass (the terminal stores the character
'1' or '2', which the default branch takes for one file).  The rest of it is
`ConfigStore`.

`unlogged` is a history variable: which records the logger handled and did not
keep whole.

`RecordPipeline` is the abstract view: `taken` is the number of measurements,
`pending` the logger's flag, `log` and `server` the two sinks.  The refinement
maps `taken <- mailbox`, `pending <- availableData`; everything of the client
but `server` is hidden.

### Metadata and ConfigStore

The stored line is the sequence of its `;` separated tokens; a token is a number
or a text that does not begin with a digit.  `ParseMetadata` and `Serialize` are
the code's, cast to 8 bits included: 256 is stored as 256 and comes back as 0.
A name with `;` in it is several tokens.

In `ConfigStore` the device is off, booting, running or halted (`while (1)`).
Power may go between any two steps; only the file survives.  A step is one
call of `configurationTask` (one signal through the state machine, then the
check of `_metadataUpdatedFlag`), except that creating and storing the file are
two steps each, open and write+close, for a loss of power comes between them.
What opening does differs: stdio's `"w"` truncates at once (`Host`), littlefs
keeps the old contents until close but creates a missing file empty at once.
`Faults` says whether mounts fail (a mount that fails formats), whether the file
may fail to open for reading or to be read, and whether opening it for writing, a
write or a close may fail.  littlefs does not truncate either
(`filesystemWrapper.hpp:207`): a store writes a buffer of fixed size over all that
was there, but the default line leaves the end of a longer one behind it, and its
last number may be read with the digits that follow (`Remains`).

`retrieveMetadata` is one group of operators (`ReadFile`, `ReadFails`, `CreateFile`,
`CreateFails`, `WriteDefault`, `WriteDefaultFails`), which the boot and the info page
both use.  A boot for which it fails ends in `while (1)`; the info page has no result
to look at, for the mediator drops it (`config_manager.cpp:45`): after a failed read it
shows the structure with its edits, after a failed open the defaults replace what was
saved.  `retrieved` is a history variable: what the last retrieval came to.

The signals are the ones the serial line can bring: any, at any time, none
included.  `EntryAgain` is the ENTRY that the state machine gets when a line was
cleared before it was read.  `saved` is a history variable: the metadata that
was last stored (the defaults when a mount formats or an open for reading fails:
nothing else is left).  What
the terminal *prints* after a store is another matter: `close()` is tested the
wrong way round (`internalStorage_component.cpp:187`) and the mediator drops the
result, so "Configuration saved!" appears after a failed store too.

`DurableConfig` maps `stored <- file`: the register changes in one step, only
while the device runs, on the first boot, or on one that cannot read it, and only a
mount that formats takes it away; with something stored and neither kind of fault a
boot ends in the superloop.

### SerialInput

A line is a number and a kind: a key of one character, or a text of two, the
first of which looks like a key, so that half a text can be mistaken for one.
Both builds are in one module (`build`, chosen once).  On the target the
characters come in one by one (`TypeLine`, `NextCharacter`), the DMA stores them
if a reception is started, the idle line raises the flag (`RxEvent`); on the host
the input thread assigns a whole line at once.  `configurationTask` is cut where
the other side can come between: restart of the reception, `strcpy`, `memset`,
the flag, the two reads of `getTerminalSignal`, the payload, the handler,
`clearSerialBuffer`.  Of the terminal there is what outlives a line: the page
that streams and its signal, which stays available once that page was shown.

`handled` is what the terminal got for input, in order.  `exposed` are the lines
that came while another was being taken out, and the ones they came upon.  `swept`
are lines of another kind, on the host only: once the streaming page was shown,
`configurationTask` clears the one buffer on every pass (`main.cpp:252-262`), and a line
that lands between the check for it and the clear is lost although no other line was
there.  `LineHandled` excuses these by name, for the host; the target has a buffer
of its own for reception and loses none to a streaming pass; `HarmNeedsExposure`
does not excuse them.  Of `exposed` lines the
code loses, truncates or mixes such lines (and stays deaf if the event comes
between lines 126 and 127 of `serialHandler.cpp`), which is a known limit of it;
the properties say that nothing else goes wrong, and that even then no character
is taken twice.  Abstractions: at most one line is in the UART at a time; a
line is shorter than the buffer; assignments of the host's string are atomic
(they are made under a mutex, and read without it: a torn string is undefined and
outside of the model).

### SdCard and BlockDevice

The driver is a program counter `step` over one request at a time; the card has
a mode (off, idle, ready), sectors, an address pointer and a block it is busy to
write.  Any command may go unanswered; the card may be taken out between any two
steps and in the middle of a block, and a card put in speaks no SPI before CMD0.
The contents of a sector are which write meant them for which sector, so that
data in the wrong place shows.  `SD_RxDataBlock` writes one byte behind the
block (`sd_spi.c:158`), the driver waits for the busy card without a limit
(line 200) and reads `resp` uninitialised after the stop token (line 204); the
three are modelled as they are.  `is_initialized` of `diskio.c` is set whatever
came of the initialisation.

`BlockDevice` is what FatFS relies on: a request changes no sector it does not
name, "ok" means done, a medium that went down stays down until the restart, and
only the request it goes down under may be answered wrongly.  Nobody looks at the CRC
of a block received (`sd_spi.c:160-162`): `ReceiveGarbled` is a block that was changed on
its way and answered "ok" (`garbled`, a history variable), and `BlockDevice` makes no
promise for those.  Commands and the blocks sent to the card reach it unchanged, or
not at all.  The refinement maps the status from `is_initialized`, `step`,
`noInit` and the card's mode.

### FatFile and AppendLog

`loggerManager::handler` on `fatFSHandler` on `ff.c`, one step per disk request
or decision: mount, directory, the chain of clusters to the end of the file, the
partial sector, `create_chain` with its search from `last_clst` around the end of
the volume, the window with its dirty flag, `f_sync` in `f_close`, and the lock
in `Files[]`.  A request may fail before or after the disk took it; power may go
between any two, and then only `disk` and `data` remain.  Every error path is
the code's: an open that fails late and a close that fails leave the lock (that
is run `locked`), a write that fails is ignored and the file closed.  The disk is
one that `BlockDevice` allows, without the blocks that were changed on their way.  A
cluster is one sector, a line shorter than a sector, one directory sector; FSInfo
suggests any cluster.  The entries of the FAT have 16 or 32 bits, so that each lies in one
sector.  FAT12 is left out: there an entry may straddle two sectors, and `get_fat` and
`put_fat` need two requests for it (`ff.c:1018-1025`, `1093-1105`); a card of fewer than
4085 clusters is formatted with it.

`AppendLog` is mapped from what a reader of the card finds: the file's size and
the chain it follows.

### Clock and Measurement

Both chips on one bus, initialised at boot, the AHT21 twice (as thermometer and
as hygrometer), the results ignored.  A measurement is the time at which the chip
was told to make it; a reading asks for two (record) or three (streaming page)
of them, transfer by transfer.  `i2c_drv.c` takes HAL_BUSY and HAL_TIMEOUT for
success: what follows then is whatever was on the stack (`Garbage`), and `busy`
records which fields it touched.  A CRC of such bytes may fit.  All four transfers wait
with `HAL_MAX_DELAY` (`i2c_drv.c:137`, `156`, `175`, `194`): on a bus that is stuck the call
never returns (`Hang`), and the device stays there (`Hung`).

`Clock` is extended by `Measurement`: time and date as a register each, set one
after the other, either of which may fail; midnight may come before, between
readings and after.  `Parsed` is what `parseTimeAndDate` accepts: no lower bounds but
that of day and month zero, no length of a month, and years of four digits (the range
checks announced in `virtualRTC.hpp:39-40` and `67-68` are not there), so what is no
time or date reaches the register, cut to what it holds, and is confirmed.
`confirmed` is a history variable: the date *as it was typed* when it was last
confirmed, with the midnights since.  `DateAsConfirmed` compares the register with it,
for dates that are dates; for the others there is nothing to compare with.

## 3. Runs

Each passing run's property has a mutant of the code (defined next to the
operator it changes, marked "Mutant") that makes TLC find it violated.

| run | configuration | states | checks |
|---|---|---|---|
| `client` | `HttpPost.cfg`: 4 records, timeout 2, ticks modulo 5 | 47,825 | `TypeOK`, `OneOutstanding`, `ServerInOrder`, `PostResolves` |
| `superloop` | `DataLogger.cfg`: 3 records, timeout 1, period 5, ticks modulo 9, one tick per pass, two file creation periods | 188,308 | `TypeOK`, `LoggerFirst`, `PostSettledBeforeNextRecord`, `PipelineSpec`, `PeriodNeverMissed`, `EveryRecordResolved` |
| `config` | `Config.cfg`: target, 3 boots, numbers 0 and 256 typed, mount, read and write faults | 900,266 | `TypeOK`, `InfoShowsSaved`, `SavedSurvivesReboot`, `PeriodFromSaved`, `EditsNotInUse`, `DurableSpec` |
| `serial` | `SerialInput.cfg`: both builds, 3 lines | 44,439 | `TypeOK`, `TakenOnce`, `HarmNeedsExposure`, `LineHandled` |
| `card` | `SdCard.cfg`: MMC, SD1 and SDHC, 3 sectors, requests of 1 and 2 | 117,688 | `TypeOK`, `Addressing`, `MediumSpec`, `RequestEnds` |
| `measurement` | `Measurement.cfg`: 2 times of day, 2 dates and 4 numbers that are none, one tick | 550,660 | `TypeOK`, `Fresh`, `LostChipShows`, `DateAsConfirmed`, `ReadingEnds` |
| `datafile` | `FatFile.cfg`: 5 records of 2 bytes, 3 clusters of 3 bytes, FAT of 2 entries a sector, every fault | 238,986 | `TypeOK`, `KeptUnlessLocked`, `AppendLogSpec`, `HandlerEnds` |

Bounds and why they are enough.

- `MaxRecords` of `HttpPost`: a connection that outlives its POST, a second record
  that overtakes it and a third that is posted after a late answer need three.
- `TickModulus`: 5 in `client` so that ticks wrap during a POST.  In `superloop`
  9 is no multiple of the period 5, as 2^32 is none of 60000: the counter wraps in
  the middle of a period, and the period before the wrap is a short one of 4.
- `Period` against `Timeout` and `LoopTicks`: `PostSettledBeforeNextRecord`
  needs every period to last `Timeout + 3 * LoopTicks` (the pass that measures,
  the one that notices the timeout, and the one in which the flag is raised).
  The run is at that bound for the shortest period it has (4 = 1 + 3); one tick
  less (`TickModulus` 8) and TLC finds a violation.  `PeriodNeverMissed` needs
  less.  For the program, with a timeout of 5000 ticks, whole minutes as periods
  and 47296 as the smallest remainder of 2^32 by one of them (up to 255
  minutes), that is a pass of the superloop of at most 14 s.  No code enforces a
  limit on the length of a pass: that `LoopTicks` is finite and this small is the
  run's assumption, the only one about real time.
- `SysTick` stops before a period would begin for which no record number is left
  (`RecordLeft`), so that the bound on records is never mistaken for a lost one.
- `MaxBoots`: one boot creates the file, one brings back what was saved, a third
  comes after a store that was cut short; after the last one power stays on.
- `Numbers`: 0, which the terminal accepts, and 256, which comes back as 0; the
  default, 1, is there before anything is typed.  They are the two ways to a period
  of zero, on which the tick handler takes the tick modulo
  (`virtualTimer.cpp:32`, `interrupts.c:202`): the code does nothing against
  either.  `PeriodFromSaved` says that there is no third: the period in use is the one
  saved, cut to 8 bits.  What `from_chars` makes of the digits (it is given the size of a pointer, `terminal_component.cpp:377`: on
  the target three digits of 1440 are read) is input to the model.
- `Remains`: 14, the default 1 with a digit of the old line behind it.
- `MaxLines`: a line, one that comes upon it, and one that finds what both left
  behind.
- `card`: two blocks are the shortest multiple transfer, three sectors leave one
  that no request of two names; `BlockSize` 2 tells byte from sector addresses.
  SD2 cards of standard capacity have the run `misplaced`.
- `datafile`: a line of 2 in sectors of 3 ends in every position of a sector;
  five records are one more than the volume holds (9 bytes), so it runs full with
  a line cut in the middle; the FAT straddles two sectors, so the window moves.
  One entry a sector and six records were checked too (about 0.8 million states).
- `measurement`: one tick tells what was measured before the reading from what was
  measured for it and makes midnight pass.

The runs whose outcome is a violation each show one disagreement of the code
with what the repository says of it:

| run | property | what it shows |
|---|---|---|
| `reported` | `ReportedSentIsDelivered` | `networkManager::done` is never cleared: after one answer every later record is reported as "Data sent to server" at once (`networkManager.cpp:62`) |
| `attempted` | `GivenUpAfterAttempt` | after a timeout or a close nothing re-arms the manager: no POST is attempted any more (`networkManager.cpp:49`) |
| `empty` | `BootReachesSuperloop` | power lost while the file is created leaves an empty one, on which every later boot ends in `while (1)` (`internalStorage_component.cpp:151`) |
| `misplaced` | `Addressing` | a card of version 2 and standard capacity is sent sector numbers where it expects byte addresses (`sd_spi.c:366`) |
| `locked` | `NoErrorNoLoss` | after one failed close the log file stays locked, and records are lost on a disk that works again (`filesystemWrapper.hpp:361`) |

The first two together are why `OneOutstanding` and `ServerInOrder` hold: the
manager opens a second connection only after an answer.  A repair of the second
that re-arms on a timeout without closing the old connection would break both;
the runs are there to notice it.

Other observations made while modelling, which no run is about: with the default
configuration the logger's branch is a todo and no record is kept
(`logger_manager.cpp:94`); a stored change is in use only after the next boot;
the text of the date is cut off by a zero it ends in (`virtualRTC.hpp:97`).

### Fairness

- `WF(Superloop)` (`WF(StartPost)`, `WF(FinishPost)` in `HttpPost`): `while (1)`
  calls the tasks for ever and every call returns.  That is an assumption about the
  buses: a transfer on a stuck I2C bus (`HAL_MAX_DELAY`) and a card that stays busy
  (`sd_spi.c:200`) are waited for without a limit, and stop the superloop.
- `WF(SysTick)` (`WF(Tick)`): the interrupt, or the host's thread, never stops.
  Within a pass it fires at most `LoopTicks` times.
- Nothing is assumed of the server or the network: a POST ends by its timeout.
- `SerialInput`: `WF(ConfigurationTask)`, called by the superloop for ever, and
  `WF(Uart)`, a line that was begun is sent to its end; nobody has to type.
- `SdCard`: `WF(Driver)`, the driver's code runs on; `WF(Expire)`, the tick counts its
  timer down; `WF(Program)`, a card that stays in its slot finishes what it writes.
  The last is an assumption about the card the code cannot do without: the wait of
  `sd_spi.c:200` has no timeout.
- `Measurement`: `WF(BootStep)`, `WF(Reading)`: a task that runs goes on, unless a transfer
  hangs, which may happen in any of them and is not excluded by fairness; `ReadingEnds`
  says that nothing else keeps a reading from its end.  The AHT21 need not become ready.
- `FatFile`: `WF(Handler)`, the steps of the logger's handler, for every disk request ends
  (`RequestEnds` of `SdCard`); neither records nor power have to come.

`PostResolves`, `EveryRecordResolved`, `LineHandled`, `RequestEnds`, `ReadingEnds`
and `HandlerEnds` rest on these.  `ConfigStore` has no liveness property: what
should eventually happen there is up to the user.

Deadlock is checked in every run.  `NoSignal` (no line came), `QuietPass` and `Spin`
(the `while (1)` of a halted device) are steps of the code.

## 4. Theorems

All proofs hold for every value of the constants that the named assumptions
allow (`HttpAssumption`, `LoggerAssumption`, `TextsAssumption`,
`ConfigAssumption`, `SerialAssumption`, `CardAssumption`, `VolumeAssumption`,
`ClockAssumption`, `MeasurementAssumption`), and are checked by `tlapm` to the last
leaf.  Every invariant and every safety property of a passing run is stated by one
of them, some under a condition given below; `PROJECT.json` lists which.

`HttpPost_proofs`: `TypeCorrect`, then `IInv`, the inductive invariant.
`OneOutstanding` is not inductive: `StartPost` appends a connection.  What
excludes a second one is `NoneOnFirstCall` (the manager's first call is only
raised by an answer, so no connection is unanswered then).  `ServerInOrder` needs
that what will be sent is newer than all that was received: `RequestsAreNew` says
so for a request that is written, for the buffer while a connection is being made
(it is printed later, from a buffer that may have moved on: only to newer
records), and for the buffer when a POST is due on the manager's first call.  The
last needs `PostHasRecord`.  `OneOutstandingCorrect` and `ServerInOrderCorrect`
follow.

`DataLogger_proofs`: the client's invariant is inherited (`HttpP`, an instance of
the proof module, gives `HttpPost`'s step lemmas; a step of the superloop is a
step of `HttpPost` or leaves its variables).  `TurnInv` adds whose turn it is: the
logger's flag is up only between the measurement and `loggerTask`, a poll is
inside `networkTask`.  With it `LoggerFirst` is inductive: a request is filled in
only in a poll, when the logger has had its turn.  `LoggerFirstCorrect`,
`ClientCorrect`, `Refinement` (`Spec => PipelineSpec`) and `TypeCorrect` follow for
every period, length of a pass and timeout, those included for which periods are
lost.

Real time comes in with `LongPeriods`: every period, the one that the wrap of the
counter cuts short included, lasts at least `Timeout + 3 * LoopTicks`.  Under it
`SettledCorrect` (`PostSettledBeforeNextRecord`) and `PeriodsCorrect`
(`PeriodNeverMissed`) follow from `TimeInv`, which measures in ticks since the
period began (`Since`, the counter modulo the period, which goes to 0 at the wrap
too).  `DueInv`: a flag that is up was raised in this pass, or late in the last.
`PostInv`: a record that waits was taken no more than a pass ago; a POST that runs
began at most two passes after its period did, and is at most a pass older than its
timeout.  Neither property is inductive without it: that the tick finds the flag
down and no POST under way depends on how long ago each began.  `LongPeriods` holds
in run `superloop` with equality for the period that the wrap cuts short.

`ConfigStore_proofs`: `RoundTrip`, that the parser inverts the format of the line
on `Storable` metadata (one token of name, numbers below 256); `TypeCorrect` for
everything that may be typed and may fail; `PhaseInv`, what the file may be while
it is created or stored; then arguments on top.  `DurableInv` (a running device
has a non-empty file) gives `Refinement` (`Spec => DurableSpec`) for the target
with every fault.  `SavedInv` (the file, unless empty, is the line of `saved`)
gives `SavedSurvives`, `InfoCorrect`, `EditsNotInUseCorrect` and `PeriodCorrect` for
both builds, every fault and everything that may be typed: no assumption beyond
`ConfigAssumption` is left.  What the parser makes of the line of any metadata with a
name of one token is `CutToBytes`; on `Storable` ones, `RoundTrip` says, that is the
metadata.  A name with `;` in it shifts the fields, and the properties say nothing of it.
`InfoInv` adds what is on the page while it is there, `EditsInv` that a flag that is up was
raised by this boot's default file, and nothing was edited since.

`SerialInput_proofs`: `TypeCorrect` with `DmaInv` (the DMA has stored no more than
was sent, so it stays inside its buffer).  `TakenOnceCorrect` by an invariant per
character: `PlaceInv`, what was taken is nowhere any more but in the line about to
be cleared, and only `strcpy` leaves a character in both buffers, for one step;
`SentInv`, what has not been sent is nowhere; `PayloadInv`.  `HarmCorrect`
(`HarmNeedsExposure`) needs to know what every place may hold between two steps:
`FlagInv`, a character that comes while the flag is up belongs to an exposed line,
and the line goes deaf by an exposed one only; `RestInv` and `PrefixInv`, the
reception buffer holds what is left of the line being sent, and its beginning
without a gap unless it is exposed; `CopyInv` and `BufferInv`, what `strcpy` will
take and what it took is a whole line or has a piece of an exposed one in it;
`ShortInv`, the two readings of `getTerminalSignal` agree but for an exposed line.

`SdCard_proofs`: `TypeCorrect` for every kind of card.  `AddressingCorrect` and
`Refinement` (`Spec => MediumSpec`) for all but cards of version 2 and standard
capacity, for which they do not hold (run `misplaced`).  `AddressInv` says what
the driver's idea of the card can be in each step of the initialisation; the
refinement needs `ProgressInv` on top: which blocks are written, or in the
buffer, at each step of a transfer while the card keeps working.

`Measurement_proofs`: `TypeCorrect`; `DateCorrect` (a date is confirmed only when
both registers took it, one of the calendar is not cut, and midnight moves both alike); `FreshCorrect` from `FreshInv`
(what is measured now was asked for since the reading began, or the bus was busy
when it was asked for); `LostChipCorrect` from `ChipInv` (only a chip that came up,
whose bus is up then, is told to measure, and a bus that is down has been so since
the start-up).

`FatChain`: a chain of clusters is a recursive function over the natural numbers, for
any table on any set of clusters.  The induction theorems of the library take an
operator and cannot be used; that `<` is well founded on the natural numbers is a
fact about a relation, and can: what holds along a chain is proved by its least
counterexample (`Least`).  `SamePrefix`: a chain stays as far as its links do.
`PathInjective`: without cross links it never meets a cluster twice.
`PathBounded`: so it is no longer than there are clusters.

`FatFile_proofs` stands on these.  It looks at two file systems, the one on the disk
and the one the volume object sees, the disk with the window on top (`View`), and
`IInv` says that both are well formed at every step (`GoodDisk`, `GoodView`): no
two links lead to one cluster, and the chain of the entry covers its size.  One is not
enough: a loss of power leaves the first, the handler goes on with the second.
`ViewGrown`, the links on the disk are links of the view, makes the chains on the disk
beginnings of those seen, so that writing the window back at any time keeps the
disk well formed.  `WindowInv` and `LockInv` say what an unsaved window may hold:
a sector of the FAT, or the entry of the locked file.  `OpenInv`, `ChainInv`,
`ClustInv` and `SearchInv` place the FIL in its chain and `create_chain` in its search:
the cluster it links in is free and no link leads to it (`probe`, `link`).
`EntryInv`, `DataInv` and `RecInv`: until `f_sync` writes the entry, nothing
`f_write` does is part of the file, neither in the sectors nor in the partial
sector that the buffer writes back; then all of the line is, as far as the
volume went.  `FullInv`: `create_chain` gives up only when it has seen every
cluster taken.  `Invariance`, `TypeCorrect` (no file outgrows its volume),
`KeptCorrect` and `Refinement` (`Spec => AppendLogSpec`) follow for every number of
clusters and of entries of the FAT in a sector (128 on a FAT32 card), sector size,
shorter line, number of records and set of faults.

Model-checked only: liveness (`PostResolves`, `EveryRecordResolved`, `LineHandled`,
`RequestEnds`, `ReadingEnds`, `HandlerEnds`), which is out of reach of the prover,
as is ENABLED.  `PathBounded` is the part of `HandlerEnds` that is a matter of safety:
the walk along the chain cannot go round.

## 5. Not modelled

`PROJECT.json` lists every part with its status.  The map covers the program's own
control flow and the part of the vendored code it runs through; it cannot come
near a third of all lines: 25,000 are mongoose (a TCP/IP stack, TLS, MQTT and
others, of which the program uses one HTTP client), 8,700 a code page table of
FatFS that is not switched on, most of `ff.c` and of mongoose's header options or
functions the program does not call, and the rest of the large files registers and
their set-up.  In particular:

- Flash and littlefs: littlefs is fetched by the build and not in the
  repository, so the results of `littleFSInterface.cpp` and `W25Qx_module.cpp` have
  no consumer they could be checked against; `ConfigStore` models littlefs as the
  code uses it.
- Start-up, clocks, pins, Ethernet and interrupt set-up: state nobody reads later.
  That the tick interrupt starts before its task is set (`init.c:53`) is listed as a
  hazard without a property.
- The read of the 64 bit tick in two halves (`timer.c:20`) is one step.
- The headers `measurement_manager`, anemometer and pluviometer have no users.
- Text: formatting of records, pages of the terminal, logging, paths.
- The sensor simulator, the test server and the tests.

## 6. Plan

Done: the data path (`HttpPost`, `DataLogger`, `RecordPipeline`), the configuration
(`Metadata`, `ConfigStore`, `DurableConfig`), the serial line (`SerialInput`), the
card (`SdCard`, `BlockDevice`), the log file (`FatFile`, `AppendLog`), measurements
and clock (`Measurement`, `Clock`); the type invariants and the safety properties
of all of them proved, as section 4 says.

What is left, in this order:

1. Proofs of what liveness rests on: a measure that every step of the handler, of
   a request to the card and of a POST lowers.
2. The read of the 64 bit tick in two halves against the interrupt, as a module of
   its own under `HttpPost`'s clock: by how much a read may miss.
3. The W25Qx driver, if littlefs is ever vendored.
