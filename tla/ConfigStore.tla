---------------------------- MODULE ConfigStore -----------------------------
(***************************************************************************)
(* The configuration subsystem: the terminal state machine                 *)
(* (terminal_component.cpp), the mediator (config_manager.cpp), the        *)
(* internal storage (internalStorage_component.cpp) with the metadata      *)
(* file, the boot sequence and configurationTask of main.cpp.  The device  *)
(* may lose power between any two steps.                                   *)
(*                                                                         *)
(* The file is the sequence of tokens it holds.  A file that is opened for *)
(* writing is truncated at once by the host's fopen; littlefs keeps the    *)
(* old contents until the file is closed, but creates a missing file, as   *)
(* an empty one, when it is opened.  It does not truncate (LFS_O_TRUNC is  *)
(* not given, filesystemWrapper.hpp:207): a store writes a buffer of fixed *)
(* size, so nothing is left of what was there, but behind the default line *)
(* the end of a longer line stays.                                         *)
(***************************************************************************)
EXTENDS Metadata

CONSTANTS
  DefaultName,  \* "defaultLogger"
  Names,        \* the names typed after N
  Numbers,      \* the values from_chars yields for what is typed after C, M
  Remains,      \* what the last number of the default line may be read as
                \* when the end of an older line follows it
  Host,         \* TRUE for the host build
  Faults,       \* which of "mount", "read" and "write" may fail
  MaxBoots      \* bound of the model: how often the device is switched on

ASSUME ConfigAssumption ==
  /\ DefaultName \in Texts
  /\ Names \subseteq Seq(Token) /\ <<>> \notin Names
  /\ Numbers \subseteq Int
  /\ Host \in BOOLEAN
  /\ Remains \subseteq UINT8
  /\ Faults \subseteq {"mount", "read", "write"}
  /\ MaxBoots \in Nat

VARIABLES
  mode,                   \* what main() is doing, "off" without power
  fileExists, file,       \* the metadata file and its tokens
  storage,                \* the storage call in progress
  meta,                   \* the metadata structure
  metadataUpdatedFlag,    \* internalStorageComponent::_metadataUpdatedFlag
  measurementTaskPeriod,  \* in minutes
  activeState, previousSignal, availableSignal,  \* terminalStateMachine
  retrieved,              \* history: what the last retrieveMetadata came to
  saved,                  \* history: the metadata last stored, or the defaults
                          \* that a mount or an open put in their place
  boots

fileVars     == <<fileExists, file>>
terminalVars == <<activeState, previousSignal, availableSignal>>
ramVars      == <<meta, metadataUpdatedFlag, measurementTaskPeriod,
                  terminalVars, retrieved>>
vars == <<mode, fileVars, storage, ramVars, saved, boots>>

\* The default line with its last number read as n.
DefaultLine(n) == <<DefaultName, 1, 1, 1, n>>

defaultMetadata == DefaultLine(1)

\* The global structure before anything is read into it.
ZeroMetadata ==
  [name |-> <<>>, fileCreationPeriod |-> 2, fileTransmissionPeriod |-> 0,
   generalMeasurementPeriod |-> 0, restRequestPeriod |-> 0]

\* What the default line stands for.
Defaults == ParseMetadata(ZeroMetadata, defaultMetadata)

RamInit ==
  /\ meta = ZeroMetadata
  /\ metadataUpdatedFlag = FALSE /\ measurementTaskPeriod = 1
  /\ activeState = "initState" /\ previousSignal = "none"
  /\ availableSignal = "ENTRY"
  /\ retrieved = "none"

RamReset ==
  /\ meta' = ZeroMetadata
  /\ metadataUpdatedFlag' = FALSE /\ measurementTaskPeriod' = 1
  /\ activeState' = "initState" /\ previousSignal' = "none"
  /\ availableSignal' = "ENTRY"
  /\ retrieved' = "none"

Init ==
  /\ mode = "off"
  /\ fileExists = FALSE /\ file = <<>>
  /\ storage = "idle"
  /\ RamInit
  /\ saved = Defaults
  /\ boots = 0

-----------------------------------------------------------------------------
(* Power.                                                                  *)

PowerOn ==
  /\ mode = "off"
  /\ mode' = "booting"
  /\ boots' = boots + 1
  /\ UNCHANGED <<fileVars, storage, ramVars, saved>>

\* Only the file survives.  Bound of the model: the last boot is left running.
PowerOff ==
  /\ mode # "off" /\ boots < MaxBoots
  /\ mode' = "off"
  /\ storage' = "idle"
  /\ RamReset
  /\ UNCHANGED <<fileVars, saved, boots>>

-----------------------------------------------------------------------------
(* initFS mounts the storage.                                              *)

\* Mutant: the period is read before the metadata is.
EnterSuperloopEarly ==
  /\ mode' = "running"
  /\ measurementTaskPeriod' = meta.generalMeasurementPeriod

\* main() enters the superloop with the period of the metadata.
EnterSuperloop ==
  /\ mode' = "running"
  /\ measurementTaskPeriod' = meta'.generalMeasurementPeriod

\* A mount that fails formats the file system: from here on nothing but the
\* defaults is left to be brought back.
MountFormats ==
  /\ mode = "booting" /\ storage = "idle"
  /\ "mount" \in Faults /\ fileExists
  /\ fileExists' = FALSE /\ file' = <<>>
  /\ saved' = Defaults
  /\ UNCHANGED <<mode, storage, ramVars, boots>>

MountFails ==
  /\ mode = "booting" /\ storage = "idle"
  /\ "mount" \in Faults
  /\ mode' = "halted"
  /\ UNCHANGED <<fileVars, storage, ramVars, saved, boots>>

-----------------------------------------------------------------------------
(* retrieveMetadata, which boot and the info page call.                    *)

\* The file opens for reading and is parsed, ...
ReadFile ==
  /\ fileExists /\ file # <<>>
  /\ meta' = ParseMetadata(meta, file)
  /\ retrieved' = "file"
  /\ UNCHANGED <<fileVars, storage, saved>>

\* ... or is empty, or is not read: the structure stays as it is.
ReadFails ==
  /\ fileExists /\ (file = <<>> \/ "read" \in Faults)
  /\ retrieved' = "failed"
  /\ UNCHANGED <<fileVars, storage, meta, saved>>

\* It does not open for reading, for whatever reason.
NotOpened == ~fileExists \/ "read" \in Faults

\* Then it is opened for writing ...
CreateFile ==
  /\ NotOpened
  /\ fileExists' = TRUE
  /\ file' = IF Host THEN <<>> ELSE file
  /\ storage' = "creating" /\ retrieved' = "none"
  /\ UNCHANGED <<meta, saved>>

\* ... or that fails, too.
CreateFails ==
  /\ NotOpened /\ "write" \in Faults
  /\ retrieved' = "failed"
  /\ UNCHANGED <<fileVars, storage, meta, saved>>

\* The default line is written, over the line that is there, and the file
\* closed ...
WriteDefault ==
  /\ storage = "creating"
  /\ storage' = "idle" /\ retrieved' = "defaults"
  /\ \E n \in IF file = <<>> THEN {1} ELSE {1} \cup Remains :
       /\ file' = DefaultLine(n)
       /\ saved' = [Defaults EXCEPT !.restRequestPeriod = n]
  /\ meta' = ParseMetadata(meta, defaultMetadata)
  /\ UNCHANGED fileExists

\* ... or one of them fails.
WriteDefaultFails ==
  /\ storage = "creating" /\ "write" \in Faults
  /\ storage' = "idle" /\ retrieved' = "failed"
  /\ UNCHANGED <<fileVars, meta, saved>>

-----------------------------------------------------------------------------
(* Boot: main() spins for ever when initFS fails.                          *)

Mounted == mode = "booting" /\ storage = "idle"

BootGoesOn == EnterSuperloop /\ UNCHANGED <<terminalVars, boots>>

BootHalts ==
  /\ mode' = "halted"
  /\ UNCHANGED <<metadataUpdatedFlag, measurementTaskPeriod, terminalVars, boots>>

RetrieveAtBoot ==
  Mounted /\ ReadFile /\ BootGoesOn /\ UNCHANGED metadataUpdatedFlag

RetrieveFailsAtBoot == Mounted /\ (ReadFails \/ CreateFails) /\ BootHalts

CreateAtBoot ==
  /\ Mounted /\ CreateFile
  /\ UNCHANGED <<mode, metadataUpdatedFlag, measurementTaskPeriod,
                 terminalVars, boots>>

DefaultAtBoot ==
  mode = "booting" /\ WriteDefault /\ metadataUpdatedFlag' = TRUE /\ BootGoesOn

DefaultFailsAtBoot == mode = "booting" /\ WriteDefaultFails /\ BootHalts

\* while (1);
Spin == mode = "halted" /\ UNCHANGED vars

-----------------------------------------------------------------------------
(* configurationTask: one signal through the state machine, then the       *)
(* metadata check at its end.                                              *)

Idle == mode = "running" /\ storage = "idle"

\* Mutant: getMetadataUpdatedFlag leaves the flag as it is.
CheckMetadataAgain ==
  /\ measurementTaskPeriod' = IF metadataUpdatedFlag
                              THEN meta'.generalMeasurementPeriod
                              ELSE measurementTaskPeriod
  /\ UNCHANGED metadataUpdatedFlag

CheckMetadataUpdated ==
  /\ measurementTaskPeriod' = IF metadataUpdatedFlag
                              THEN meta'.generalMeasurementPeriod
                              ELSE measurementTaskPeriod
  /\ metadataUpdatedFlag' = FALSE

\* The signal moved the terminal at most.
OnlyTerminal ==
  /\ UNCHANGED <<mode, fileVars, storage, meta, retrieved, saved, boots>>
  /\ CheckMetadataUpdated

Goto(from, to) == activeState = from /\ activeState' = to

\* No signal, or one the state ignores.
NoSignal == Idle /\ OnlyTerminal /\ UNCHANGED terminalVars

\* Mutant: the info page shows the structure as it is.
ShowInfo ==
  UNCHANGED <<fileVars, storage, meta, retrieved, saved>> /\ CheckMetadataUpdated

\* ENTRY of basicDeviceInfo retrieves the metadata: unsaved changes are lost.
RetrieveForInfo == ReadFile /\ CheckMetadataUpdated

\* It has no result to look at: the page shows the structure, with the edits.
RetrieveFailsForInfo == (ReadFails \/ CreateFails) /\ CheckMetadataUpdated

CreateForInfo ==
  CreateFile /\ UNCHANGED <<metadataUpdatedFlag, measurementTaskPeriod>>

EnterInfo ==
  /\ RetrieveForInfo \/ RetrieveFailsForInfo \/ CreateForInfo
  /\ UNCHANGED <<mode, previousSignal, availableSignal, boots>>

PressI == Idle /\ Goto("initState", "basicDeviceInfo") /\ EnterInfo

\* A line that was cleared before it was read has no signal of its own: the
\* state machine gets the available one, the ENTRY that init left behind.
EntryAgain ==
  /\ Idle /\ availableSignal = "ENTRY"
  /\ Goto("basicDeviceInfo", "basicDeviceInfo")
  /\ EnterInfo

\* The same call goes on: the check takes the flag the default file raises.
DefaultForInfo ==
  /\ mode = "running" /\ WriteDefault
  /\ measurementTaskPeriod' = meta'.generalMeasurementPeriod
  /\ metadataUpdatedFlag' = FALSE
  /\ UNCHANGED <<mode, terminalVars, boots>>

DefaultFailsForInfo ==
  /\ mode = "running" /\ WriteDefaultFails
  /\ CheckMetadataUpdated
  /\ UNCHANGED <<mode, terminalVars, boots>>

PressC ==
  /\ Idle /\ Goto("initState", "basicDeviceConfig")
  /\ OnlyTerminal /\ UNCHANGED <<previousSignal, availableSignal>>

\* ENTRY of streamADC leaves streamData behind as the available signal.
PressS ==
  /\ Idle /\ Goto("initState", "streamADC")
  /\ availableSignal' = "streamData"
  /\ OnlyTerminal /\ UNCHANGED previousSignal

PressB ==
  /\ Idle
  /\ \E from \in {"streamADC", "basicDeviceInfo", "basicDeviceConfig"} :
       Goto(from, "initState")
  /\ OnlyTerminal /\ UNCHANGED <<previousSignal, availableSignal>>

Configuring == Idle /\ activeState = "basicDeviceConfig"

\* Mutant: every signal of the menu is remembered.
SelectAny ==
  /\ Configuring
  /\ previousSignal' \in {"T", "N", "F", "C", "M", "Enter"}
  /\ OnlyTerminal /\ UNCHANGED <<activeState, availableSignal>>

SelectField ==
  /\ Configuring
  /\ previousSignal' \in {"T", "N", "F", "C", "M"}
  /\ OnlyTerminal /\ UNCHANGED <<activeState, availableSignal>>

\* pressedKey_Enter with a payload changes the field selected last, in this
\* visit of the menu or an earlier one.
EnterValue ==
  /\ Configuring
  /\ \/ /\ previousSignal = "N"
        /\ \E name \in Names : meta' = [meta EXCEPT !.name = name]
     \/ /\ previousSignal = "F"
        /\ \E char \in {49, 50} :  \* '1', '2'
             meta' = [meta EXCEPT !.fileCreationPeriod = char]
     \/ /\ previousSignal = "C"
        /\ \E value \in Numbers :
             meta' = [meta EXCEPT !.fileTransmissionPeriod = ToUint16(value)]
     \/ /\ previousSignal = "M"
        /\ \E value \in Numbers :
             meta' = [meta EXCEPT !.generalMeasurementPeriod = ToUint16(value)]
  /\ CheckMetadataUpdated
  /\ UNCHANGED <<mode, fileVars, storage, terminalVars, retrieved, saved, boots>>

\* The result, which is wrong, goes no further than the mediator: whatever
\* happened, the terminal says "Configuration saved!".
Stored(wrote) ==
  /\ saved' = IF wrote THEN meta ELSE saved
  /\ UNCHANGED <<mode, meta, terminalVars, retrieved, boots>>
  /\ CheckMetadataUpdated

\* Mutant: opening the file truncates it on the target as well.
StartStoreTruncates ==
  /\ Configuring
  /\ storage' = "storing"
  /\ file' = <<>>
  /\ UNCHANGED <<mode, fileExists, ramVars, saved, boots>>

\* pressedKey_S: storeMetadata opens the file ...
StartStore ==
  /\ Configuring
  /\ storage' = "storing"
  /\ file' = IF Host THEN <<>> ELSE file
  /\ UNCHANGED <<mode, fileExists, ramVars, saved, boots>>

\* ... or fails to ...
StoreNotOpened ==
  /\ Configuring
  /\ "write" \in Faults
  /\ Stored(FALSE)
  /\ UNCHANGED <<storage, fileVars>>

\* ... writes and closes it.
FinishStore ==
  /\ storage = "storing"
  /\ storage' = "idle"
  /\ \/ /\ file' = Serialize(meta)
        /\ Stored(TRUE)
     \/ \* write() or close() fails
        /\ "write" \in Faults
        /\ UNCHANGED file
        /\ Stored(FALSE)
  /\ UNCHANGED fileExists

Next ==
  \/ PowerOn \/ PowerOff
  \/ MountFormats \/ MountFails \/ RetrieveAtBoot \/ RetrieveFailsAtBoot
  \/ CreateAtBoot \/ DefaultAtBoot \/ DefaultFailsAtBoot \/ Spin
  \/ NoSignal \/ PressI \/ EntryAgain \/ DefaultForInfo \/ DefaultFailsForInfo
  \/ PressC \/ PressS \/ PressB
  \/ SelectField \/ EnterValue
  \/ StartStore \/ StoreNotOpened \/ FinishStore

Spec == Init /\ [][Next]_vars

-----------------------------------------------------------------------------

Modes     == {"off", "booting", "running", "halted"}
MenuState == {"initState", "basicDeviceInfo", "basicDeviceConfig", "streamADC"}

\* Every variable keeps its type.
TypeOK ==
  /\ mode \in Modes
  /\ fileExists \in BOOLEAN /\ file \in Seq(Token)
  /\ storage \in {"idle", "creating", "storing"}
  /\ meta \in LoggerMetadata /\ saved \in LoggerMetadata
  /\ metadataUpdatedFlag \in BOOLEAN /\ measurementTaskPeriod \in UINT16
  /\ activeState \in MenuState
  /\ previousSignal \in {"none", "T", "N", "F", "C", "M"}
  /\ availableSignal \in {"ENTRY", "streamData"}
  /\ retrieved \in {"none", "file", "defaults", "failed"}
  /\ boots \in Nat

\* What is left of metadata that went through the file: the parser casts the
\* numbers of 16 bits to 8 (internalStorage_component.cpp:251-257).
CutToBytes(m) ==
  [m EXCEPT !.fileTransmissionPeriod = @ % 256, !.generalMeasurementPeriod = @ % 256,
            !.restRequestPeriod = @ % 256]

\* Whatever numbers the user typed, wherever power was lost and whatever failed,
\* a boot that comes up brings back all of the metadata last stored, each number
\* cut to eight bits (internalStorage_component.cpp:177-190, 223-270), or the
\* defaults as a whole: when the mount had to format the storage
\* (filesystemWrapper.hpp:172-181), which resets saved, or when the file was not
\* there or did not open for reading (internalStorage_component.cpp:116-142).  A
\* name with a ';' in it shifts the fields, and is left out.
SavedSurvivesReboot ==
  [][mode = "booting" /\ mode' = "running" =>
       \/ /\ retrieved' = "file"
          /\ Len(saved.name) = 1 => meta' = CutToBytes(saved)
       \/ /\ retrieved' = "defaults" /\ meta' = Defaults
          /\ file = <<>> \/ "read" \in Faults]_vars

\* The device info page shows what is stored, as a boot would bring it back, and
\* neither edits that were not stored nor those of a store that failed: its ENTRY
\* reads the file again (terminal_component.cpp:225).  Only when that fails does
\* it show the structure as it is.
InfoShowsSaved ==
  activeState = "basicDeviceInfo" =>
    /\ retrieved = "file" /\ Len(saved.name) = 1 => meta = CutToBytes(saved)
    /\ retrieved = "defaults" => meta = Defaults

\* Whenever the period is set, by a boot (main.cpp:194) or by the check at the end
\* of configurationTask (main.cpp:266-269), it is the one that is saved, cut to
\* eight bits.  So the zero that the tick handler would take the tick modulo
\* (virtualTimer.cpp:32, interrupts.c:202) comes from a saved multiple of 256,
\* which the terminal accepts, and from nothing else that may happen.
PeriodFromSaved ==
  [][mode' = "running" =>
       \/ mode = "running" /\ UNCHANGED measurementTaskPeriod
       \/ Len(saved'.name) = 1
            => measurementTaskPeriod' = saved'.generalMeasurementPeriod % 256]_vars

\* No edit comes into use before it was stored, nor before the next boot: the flag
\* that makes main.cpp:266 take over the period of a structure full of edits is
\* still up only when there are none yet (internalStorage_component.cpp:140, 213).
\* Only the default file, written because the old one did not open, changes the
\* period of a running device.
EditsNotInUse ==
  [][mode = "running" /\ mode' = "running" =>
       \/ UNCHANGED measurementTaskPeriod
       \/ storage = "creating" /\ retrieved' = "defaults"]_vars

\* How far a boot, a visit of the info page or a store has got, and what the
\* file is meanwhile.
PhaseInv ==
  /\ ~fileExists => file = <<>> /\ storage = "idle" /\ mode # "running"
  /\ storage = "creating" =>
       \/ mode = "booting"
       \/ mode = "running" /\ activeState = "basicDeviceInfo"
  /\ storage = "storing" => mode = "running" /\ activeState = "basicDeviceConfig"
  /\ storage = "creating" => file = <<>> \/ "read" \in Faults

\* The file is the line of the saved metadata whenever it is not empty: what
\* SavedSurvivesReboot and InfoShowsSaved rest on.
SavedInv == file # <<>> => file = Serialize(saved)

\* The file of a device that is running is never empty, on the target.
DurableInv == mode = "running" => file # <<>>

\* The metadata file is the durable register that DurableConfig describes.
Durable ==
  INSTANCE DurableConfig WITH
    stored <- file, MayFormat <- "mount" \in Faults, MayMisread <- "read" \in Faults

DurableSpec == Durable!Spec

\* "If retrieval fails (e.g., file not found), it creates a default metadata
\* file" (internalStorage_component.cpp:71-72): with a storage that works, no
\* boot ends in main's while (1).
BootReachesSuperloop == mode # "halted"

=============================================================================
