----------------------------- MODULE DataLogger -----------------------------
(***************************************************************************)
(* The superloop of main.cpp: the SysTick handler interleaved with         *)
(* configurationTask, measurementTask, loggerTask and networkTask, around  *)
(* the processing manager, the logger manager with its log file on the SD  *)
(* card, and the HTTP client (module HttpPost).                            *)
(*                                                                         *)
(* The number of the last record taken is HttpPost's mailbox: one buffer   *)
(* serves both observers.                                                  *)
(***************************************************************************)
EXTENDS Integers, Sequences

CONSTANTS
  Timeout, TickModulus, MaxRecords,
  Period,               \* measurementTaskPeriod, in ticks
  LoopTicks,            \* the ticks one pass of the superloop takes at most
  CREATE_FILE_A_DAY,    \* loggerMetadataConstants
  FileCreationPeriods   \* the values metadata.fileCreationPeriod takes

ASSUME LoggerAssumption ==
  /\ Timeout \in Nat
  /\ TickModulus \in Nat /\ TickModulus > Timeout + 1
  /\ Period \in Nat \ {0}
  /\ LoopTicks \in Nat
  /\ MaxRecords \in Nat \ {0}
  /\ FileCreationPeriods # {}

VARIABLES
  ticks, mailbox, availableDataFlag, clientFirstCall, connTimer,
  managerFirstCall, done, polling, conns, server, attempted, sent, failed,
  loop,                \* the task the superloop is in
  spent,               \* ticks spent in this pass
  runMeasurementTask,  \* the flag SysTick raises
  availableData,       \* loggerManager::_availableData
  fileCreationPeriod,  \* metadata.fileCreationPeriod
  log,                 \* the log file: its lines, in order
  unlogged             \* history: records the logger handled and did not keep whole

Http == INSTANCE HttpPost

httpVars   == <<ticks, mailbox, availableDataFlag, clientFirstCall, connTimer,
                managerFirstCall, done, polling, conns, server, attempted, sent,
                failed>>
loggerVars == <<availableData, fileCreationPeriod, log, unlogged>>
vars == <<httpVars, loop, spent, runMeasurementTask, loggerVars>>

Tasks == {"configuration", "measurement", "clear flag", "logger", "network"}

Init ==
  /\ Http!Init
  /\ loop = "configuration" /\ spent = 0
  /\ runMeasurementTask = 1
  /\ availableData = FALSE
  /\ fileCreationPeriod \in FileCreationPeriods
  /\ log = <<>> /\ unlogged = {}

-----------------------------------------------------------------------------
(* SysTick_Handler, and myTickHandler of the host build.                   *)

PeriodElapsed == ticks' % Period = 0

\* Bound of the model: time stops before a period would begin for which there
\* is no record number left.
RecordLeft == mailbox + runMeasurementTask < MaxRecords

SysTick ==
  /\ spent < LoopTicks
  /\ Http!Tick
  /\ PeriodElapsed => RecordLeft
  /\ runMeasurementTask' = IF PeriodElapsed THEN 1 ELSE runMeasurementTask
  /\ spent' = spent + 1
  /\ UNCHANGED <<loop, loggerVars>>

-----------------------------------------------------------------------------
(* The tasks.                                                              *)

\* The terminal may change the metadata the logger reads; its other effects
\* are in module ConfigStore.
ConfigurationTask ==
  /\ loop = "configuration"
  /\ fileCreationPeriod' \in FileCreationPeriods
  /\ loop' = "measurement"
  /\ UNCHANGED <<httpVars, spent, runMeasurementTask, availableData, log,
                 unlogged>>

\* takeMeasurements, formatData, and notifyObservers to both observers.
MeasurementTask ==
  /\ loop = "measurement" /\ runMeasurementTask = 1
  /\ Http!RecordReady
  /\ availableData' = TRUE
  /\ loop' = "clear flag"
  /\ UNCHANGED <<spent, runMeasurementTask, fileCreationPeriod, log, unlogged>>

\* The flag is cleared last: a tick that raised it meanwhile is forgotten.
ClearMeasurementFlag ==
  /\ loop = "clear flag"
  /\ runMeasurementTask' = 0
  /\ loop' = "logger"
  /\ UNCHANGED <<httpVars, spent, loggerVars>>

\* Mutant: the pass goes on without a measurement that is due.
SkipMeasurementDue ==
  /\ loop = "measurement"
  /\ loop' = "logger"
  /\ UNCHANGED <<httpVars, spent, runMeasurementTask, loggerVars>>

SkipMeasurement ==
  /\ loop = "measurement" /\ runMeasurementTask # 1
  /\ loop' = "logger"
  /\ UNCHANGED <<httpVars, spent, runMeasurementTask, loggerVars>>

Unlogged == unlogged' = unlogged \cup {mailbox}

\* One write through an opened file: complete, cut short, or refused.
WriteLine(lines) ==
  \/ /\ log' = Append(lines, [rec |-> mailbox, whole |-> TRUE])
     /\ UNCHANGED unlogged
  \/ /\ log' = Append(lines, [rec |-> mailbox, whole |-> FALSE])
     /\ Unlogged
  \/ /\ log' = lines
     /\ Unlogged

\* fsHandler.open(path, 2), FA_OPEN_APPEND: keeps what the file holds.
AppendLine == WriteLine(log)

\* The append was refused and fsHandler.open(path, 1), FA_CREATE_NEW, fails
\* on a file that exists.
CreateLog == log = <<>> /\ WriteLine(<<>>)

\* loggerManager::handler.  Every value but CREATE_FILE_A_DAY reaches the
\* default branch; that one reaches a todo.
HandleRecord ==
  \/ /\ fileCreationPeriod # CREATE_FILE_A_DAY
     /\ AppendLine \/ CreateLog
  \/ \* neither open succeeds, or the day's file is asked for
     UNCHANGED log /\ Unlogged

\* Mutant: getAvailableDataFlag does not reset the flag.
LoggerTaskKeepsFlag ==
  /\ loop = "logger" /\ availableData
  /\ HandleRecord
  /\ loop' = "network"
  /\ UNCHANGED <<httpVars, spent, runMeasurementTask, availableData,
                 fileCreationPeriod>>

LoggerTask ==
  /\ loop = "logger" /\ availableData
  /\ availableData' = FALSE
  /\ HandleRecord
  /\ loop' = "network"
  /\ UNCHANGED <<httpVars, spent, runMeasurementTask, fileCreationPeriod>>

\* Mutant: networkTask may run before a record that is due is logged.
SkipLoggerDue ==
  /\ loop = "logger"
  /\ loop' = "network"
  /\ UNCHANGED <<httpVars, spent, runMeasurementTask, loggerVars>>

SkipLogger ==
  /\ loop = "logger" /\ ~availableData
  /\ loop' = "network"
  /\ UNCHANGED <<httpVars, spent, runMeasurementTask, loggerVars>>

EndPass == loop' = "configuration" /\ spent' = 0

NetworkTask ==
  /\ loop = "network"
  /\ Http!StartPost
  /\ UNCHANGED <<loop, spent, runMeasurementTask, loggerVars>>

FinishNetworkTask ==
  /\ loop = "network"
  /\ Http!FinishPost
  /\ EndPass
  /\ UNCHANGED <<runMeasurementTask, loggerVars>>

SkipNetwork ==
  /\ loop = "network" /\ ~polling /\ ~availableDataFlag
  /\ EndPass
  /\ UNCHANGED <<httpVars, runMeasurementTask, loggerVars>>

Superloop ==
  \/ ConfigurationTask
  \/ MeasurementTask \/ ClearMeasurementFlag \/ SkipMeasurement
  \/ LoggerTask \/ SkipLogger
  \/ NetworkTask \/ FinishNetworkTask \/ SkipNetwork

Server ==
  /\ Http!ServerReceives
  /\ UNCHANGED <<loop, spent, runMeasurementTask, loggerVars>>

Next == SysTick \/ Superloop \/ Server

Spec == Init /\ [][Next]_vars

\* while (1) runs the tasks for ever and the tick interrupt never stops.  That the
\* calls return is taken for granted: i2c_drv.c and sd_spi.c:200 wait for their
\* bus without a limit.
FairSpec == Spec /\ WF_vars(Superloop) /\ WF_vars(SysTick)

-----------------------------------------------------------------------------

\* Every variable keeps its type.
TypeOK ==
  /\ Http!TypeOK
  /\ loop \in Tasks /\ spent \in 0 .. LoopTicks
  /\ runMeasurementTask \in {0, 1}
  /\ availableData \in BOOLEAN
  /\ fileCreationPeriod \in FileCreationPeriods
  /\ log \in Seq([rec : Nat, whole : BOOLEAN])
  /\ unlogged \subseteq Nat

\* A new record never overwrites the buffer of a POST in progress: the POST is
\* over, or timed out, when the next period starts (httpClient.cpp:30 against
\* main.cpp:279-285), for a pass of the superloop that takes LoopTicks at most
\* and ticks that wrap in the middle of a period.
PostSettledBeforeNextRecord ==
  loop = "measurement" /\ runMeasurementTask = 1 => ~availableDataFlag

\* No period is lost: when SysTick raises the flag, the measurement of the
\* period before is over and its flag cleared (main.cpp:287).
PeriodNeverMissed ==
  [][ticks' # ticks /\ PeriodElapsed => runMeasurementTask = 0]_vars

\* Logger and server see what RecordPipeline promises: every record once, in
\* order, and the logger first.
Pipeline == INSTANCE RecordPipeline WITH taken <- mailbox, pending <- availableData

PipelineSpec == Pipeline!Spec

\* What that rests on: the logger's turn comes right after the measurement, a
\* poll is inside networkTask, and no request in flight carries a record that
\* the logger has not handled, although both read the same buffer.
TurnInv ==
  /\ availableData => loop \in {"clear flag", "logger"}
  /\ polling => loop = "network"

LoggerFirst ==
  availableData => \A c \in DOMAIN conns :
    conns[c].state \in {"queued", "written"} => conns[c].rec < mailbox

Logged == {log[i].rec : i \in DOMAIN log}

\* Every record taken is handled by the logger, and networkTask reports what
\* became of it.
EveryRecordResolved ==
  \A r \in 1 .. MaxRecords :
    mailbox = r ~> r \in Logged \cup unlogged /\ r \in sent \cup failed

\* "Data sent to server" (main.cpp:329) is logged only for a record that the
\* server has received.
ReportedSentIsDelivered ==
  \A r \in sent : \E i \in DOMAIN server : server[i] = r

\* "If the HTTP client has data to send, this function attempts to POST it to
\* the configured server" (main.cpp:305): no record is given up for which no
\* connection was asked for, while no connection is left that could carry it.
GivenUpAfterAttempt ==
  [][\A r \in failed' \ failed :
       \/ r \in attempted
       \/ \E c \in DOMAIN conns : conns[c].state \in Http!Pending]_vars

=============================================================================
