---------------------------- MODULE SerialInput ----------------------------
(***************************************************************************)
(* The serial line: what is typed, the UART with its DMA and interrupt     *)
(* (uart.c) or the input thread of the host build, serialHandler.cpp, the  *)
(* configurationTask of main.cpp that takes the lines out, and the page of *)
(* the terminal that streams.                                              *)
(*                                                                         *)
(* A line is a number and a kind; its characters are the pairs <<line, i>>. *)
(* A key is one character.  A text has two, the first of which is that of  *)
(* a key: half a text can be taken for it.                                 *)
(***************************************************************************)
EXTENDS Integers, Sequences

CONSTANTS
  Builds,    \* the builds looked at: with TARGET_MICRO, and without
  MaxLines   \* bound of the model: lines typed

ASSUME SerialAssumption ==
  /\ Builds \subseteq {"target", "host"}
  /\ MaxLines \in Nat

VARIABLES
  build,            \* chosen once
  typed,            \* the kinds of the lines typed, in order
  wire,             \* characters of the last line that have been sent, 0 when it is idle
  rx, rxPos,        \* uart_rx_buffer, and where the DMA writes next
  receiving,        \* a reception by DMA is started
  dataAvailable,    \* isDataAvailableFlag; new_data_available of the host
  serialBuffer,     \* the line handed over
  task,             \* where configurationTask is
  short, signal,    \* its locals
  payload,          \* the static of serialHandler.cpp
  activeState, availableSignal,  \* the terminal's
  handled,          \* history: what the terminal got from the line, in order
  exposed,          \* history: lines that came while another was being taken out
  swept             \* history: lines that came while a streaming terminal was handled

lineVars == <<typed, wire, exposed, swept>>
uartVars == <<rx, rxPos, receiving>>
termVars == <<activeState, availableSignal>>
vars == <<build, lineVars, uartVars, dataAvailable, serialBuffer, task, short,
          signal, payload, termVars, handled>>

Keys    == {"S", "B"}
Kinds   == Keys \cup {"text"}
Signals == Keys \cup {"NONE", "ENTRY", "Enter", "streamData"}
Tasks   == {"idle", "copy", "wipe", "ack", "length", "compare", "handle", "clear"}

\* The steps after which clearSerialBuffer is still to come.
ClearAhead == {"length", "compare", "handle", "clear"}

NUL == <<>>  \* the character zero

Line(n, kind) == IF kind = "text" THEN <<<<n, 1>>, <<n, 2>>>> ELSE <<<<n, 1>>>>
Characters(n) == Line(n, typed[n])
\* What the character looks like: "B" begins a text, nothing is mapped to its end.
Glyph(p) == IF typed[p[1]] # "text" THEN typed[p[1]]
            ELSE IF p[2] = 1 THEN "B" ELSE "NONE"

Last == Len(typed)

\* The line came out, whole.
HandledLine(n) ==
  n \in DOMAIN typed /\ \E i \in DOMAIN handled : handled[i] = Characters(n)

Init ==
  /\ build \in Builds
  /\ typed = <<>> /\ wire = 0
  /\ rx = [i \in 1 .. 2 |-> NUL] /\ rxPos = 1
  /\ receiving = (build = "target")      \* serialHandlerInit
  /\ dataAvailable = FALSE
  /\ serialBuffer = <<>>
  /\ task = "idle" /\ short = FALSE /\ signal = "NONE"
  /\ payload = FALSE
  /\ activeState = "initState" /\ availableSignal = "ENTRY"
  /\ handled = <<>> /\ exposed = {} /\ swept = {}

-----------------------------------------------------------------------------
(* What is typed.                                                          *)

\* The host's one buffer is about to be cleared by a pass that no line caused, and
\* so is a line that comes now: no other is being taken out.
Sweeping == build = "host" /\ task \in {"handle", "clear"} /\ signal = "streamData"

\* On the target: while the last line has not been taken out of the reception
\* buffer.  On the host: while it waits, or before clearSerialBuffer is through
\* with it.
InTheWay ==
  \/ dataAvailable
  \/ build = "host" /\ task \in ClearAhead /\ ~Sweeping

\* The line that begins, and the one before it if that has not come out yet.
Expose ==
  /\ exposed' = IF ~InTheWay THEN exposed
                ELSE exposed \cup {Last + 1} \cup {n \in {Last} : n > 0 /\ ~HandledLine(n)}
  /\ swept' = IF Sweeping THEN swept \cup {Last + 1} ELSE swept

\* The DMA stores a character if a reception is started.
Receive(p) ==
  IF receiving
  THEN rx' = [rx EXCEPT ![rxPos] = p] /\ rxPos' = rxPos + 1
  ELSE UNCHANGED <<rx, rxPos>>

TypeLine(kind) ==
  /\ build = "target" /\ wire = 0 /\ Last < MaxLines
  /\ typed' = Append(typed, kind)
  /\ wire' = 1
  /\ Receive(<<Last + 1, 1>>)
  /\ Expose
  /\ UNCHANGED <<build, receiving, dataAvailable, serialBuffer, task, short,
                 signal, payload, termVars, handled>>

NextCharacter ==
  /\ wire = 1 /\ Len(Characters(Last)) = 2
  /\ wire' = 2
  /\ Receive(<<Last, 2>>)
  /\ UNCHANGED <<build, typed, exposed, swept, receiving, dataAvailable,
                 serialBuffer, task, short, signal, payload, termVars, handled>>

\* The line is idle after at least one character was stored:
\* HAL_UARTEx_RxEventCallback, and the reception is over (DMA_NORMAL).
RxEvent ==
  /\ wire > 0 /\ wire = Len(Characters(Last))
  /\ wire' = 0
  /\ IF receiving /\ rxPos > 1
     THEN dataAvailable' = TRUE /\ receiving' = FALSE
     ELSE UNCHANGED <<dataAvailable, receiving>>
  /\ UNCHANGED <<build, typed, exposed, swept, rx, rxPos, serialBuffer, task, short,
                 signal, payload, termVars, handled>>

\* The host's input thread: one assignment, under the mutex.
InputThread(kind) ==
  /\ build = "host" /\ Last < MaxLines
  /\ typed' = Append(typed, kind)
  /\ serialBuffer' = Line(Last + 1, kind)
  /\ dataAvailable' = TRUE
  /\ Expose
  /\ UNCHANGED <<build, wire, uartVars, task, short, signal, payload, termVars,
                 handled>>

-----------------------------------------------------------------------------
(* serialHandler.                                                          *)

\* Nothing came.  getSignal is ENTRY, and the pass is over ...
QuietPass ==
  /\ task = "idle" /\ ~dataAvailable /\ availableSignal # "streamData"
  /\ UNCHANGED vars

\* Mutant: a terminal that streams goes before the line.
StreamFirst ==
  /\ task = "idle" /\ availableSignal = "streamData"
  /\ signal' = availableSignal
  /\ task' = "handle"
  /\ UNCHANGED <<build, lineVars, uartVars, dataAvailable, serialBuffer, short,
                 payload, termVars, handled>>

\* ... or streamData, for a terminal that has once shown the page that streams.
StreamPass ==
  /\ task = "idle" /\ ~dataAvailable /\ availableSignal = "streamData"
  /\ signal' = availableSignal
  /\ task' = "handle"
  /\ UNCHANGED <<build, lineVars, uartVars, dataAvailable, serialBuffer, short,
                 payload, termVars, handled>>

TakeNewData ==
  /\ build = "host" /\ task = "idle" /\ dataAvailable
  /\ dataAvailable' = FALSE
  /\ task' = "length"
  /\ UNCHANGED <<build, lineVars, uartVars, serialBuffer, short, signal,
                 payload, termVars, handled>>

\* Mutant: the next reception goes on where the last one stopped.
RestartWithoutReset ==
  /\ build = "target" /\ task = "idle" /\ dataAvailable
  /\ receiving' = TRUE
  /\ task' = "copy"
  /\ UNCHANGED <<build, lineVars, rx, rxPos, dataAvailable, serialBuffer, short,
                 signal, payload, termVars, handled>>

\* uart_start_rx_dma comes first ...
RestartReception ==
  /\ build = "target" /\ task = "idle" /\ dataAvailable
  /\ receiving' = TRUE /\ rxPos' = 1
  /\ task' = "copy"
  /\ UNCHANGED <<build, lineVars, rx, dataAvailable, serialBuffer, short, signal,
                 payload, termVars, handled>>

\* ... then uart_getAvailableData: strcpy up to the first zero, ...
CopyLine ==
  /\ task = "copy"
  /\ serialBuffer' = IF rx[1] = NUL THEN <<>>
                     ELSE IF rx[2] = NUL THEN <<rx[1]>> ELSE <<rx[1], rx[2]>>
  /\ task' = "wipe"
  /\ UNCHANGED <<build, lineVars, uartVars, dataAvailable, short, signal,
                 payload, termVars, handled>>

\* Mutant: no memset.
WipeNothing ==
  /\ task = "wipe" /\ task' = "ack"
  /\ UNCHANGED <<build, lineVars, uartVars, dataAvailable, serialBuffer, short,
                 signal, payload, termVars, handled>>

\* ... memset, ...
WipeBuffer ==
  /\ task = "wipe"
  /\ rx' = [i \in 1 .. 2 |-> NUL]
  /\ task' = "ack"
  /\ UNCHANGED <<build, lineVars, rxPos, receiving, dataAvailable, serialBuffer,
                 short, signal, payload, termVars, handled>>

\* ... and the flag, which an event may have raised again since.
ClearFlag ==
  /\ task = "ack"
  /\ dataAvailable' = FALSE
  /\ task' = "length"
  /\ UNCHANGED <<build, lineVars, uartVars, serialBuffer, short, signal,
                 payload, termVars, handled>>

-----------------------------------------------------------------------------
(* getTerminalSignal reads the buffer twice, without the mutex.            *)

ReadLength ==
  /\ task = "length"
  /\ short' = (Len(serialBuffer) < 2)
  /\ task' = "compare"
  /\ UNCHANGED <<build, lineVars, uartVars, dataAvailable, serialBuffer, signal,
                 payload, termVars, handled>>

\* Mutant: the first character decides, whatever follows it.
AnyKeyPressed == serialBuffer # <<>> /\ Glyph(Head(serialBuffer)) \in Keys

KeyPressed == short /\ serialBuffer # <<>> /\ Glyph(Head(serialBuffer)) \in Keys

\* No key and not empty: Enter, with a payload.  Empty: the terminal's signal.
CompareKeys ==
  /\ task = "compare"
  /\ IF KeyPressed
     THEN /\ signal' = Glyph(Head(serialBuffer))
          /\ handled' = Append(handled, <<Head(serialBuffer)>>)
          /\ UNCHANGED payload
     ELSE /\ signal' = IF serialBuffer # <<>> THEN "Enter" ELSE availableSignal
          /\ payload' = (payload \/ serialBuffer # <<>>)
          /\ UNCHANGED handled
  /\ task' = "handle"
  /\ UNCHANGED <<build, lineVars, uartVars, dataAvailable, serialBuffer, short,
                 termVars>>

-----------------------------------------------------------------------------
(* getSerialBuffer, terminalStateMachine::handler, clearSerialBuffer.      *)

\* The pages but the first and the one that streams ignore streamData; what
\* they do is in module ConfigStore.
Dispatch ==
  LET toStream == activeState = "initState" /\ signal = "S"
      toInit   == activeState = "streamADC" /\ signal = "B"
      entered  == activeState = "streamADC" /\ signal = "ENTRY"
  IN  /\ activeState' = IF toStream THEN "streamADC"
                        ELSE IF toInit THEN "initState" ELSE activeState
      /\ availableSignal' = IF toStream \/ entered THEN "streamData"
                            ELSE availableSignal

\* The payload is what the buffer holds now.
Handle ==
  /\ task = "handle"
  /\ handled' = IF payload THEN Append(handled, serialBuffer) ELSE handled
  /\ payload' = FALSE
  /\ Dispatch
  /\ task' = "clear"
  /\ UNCHANGED <<build, lineVars, uartVars, dataAvailable, serialBuffer, short,
                 signal>>

ClearSerialBuffer ==
  /\ task = "clear"
  /\ serialBuffer' = <<>>
  /\ task' = "idle"
  /\ UNCHANGED <<build, lineVars, uartVars, dataAvailable, short, signal,
                 payload, termVars, handled>>

-----------------------------------------------------------------------------

ConfigurationTask ==
  \/ QuietPass \/ StreamPass
  \/ TakeNewData
  \/ RestartReception \/ CopyLine \/ WipeBuffer \/ ClearFlag
  \/ ReadLength \/ CompareKeys \/ Handle \/ ClearSerialBuffer

Uart == NextCharacter \/ RxEvent

User == \E kind \in Kinds : TypeLine(kind) \/ InputThread(kind)

Next == ConfigurationTask \/ Uart \/ User

Spec == Init /\ [][Next]_vars

\* The superloop calls configurationTask for ever; a line that was begun is
\* sent to its end.  Nobody has to type.
FairSpec == Spec /\ WF_vars(ConfigurationTask) /\ WF_vars(Uart)

-----------------------------------------------------------------------------

Pieces == (1 .. MaxLines) \X {1, 2}

\* Every variable keeps its type.
TypeOK ==
  /\ build \in Builds
  /\ typed \in Seq(Kinds) /\ Last <= MaxLines
  /\ wire \in 0 .. 2
  /\ rx \in [1 .. 2 -> Pieces \cup {NUL}] /\ rxPos \in 1 .. 3
  /\ receiving \in BOOLEAN /\ dataAvailable \in BOOLEAN
  /\ serialBuffer \in Seq(Pieces) /\ Len(serialBuffer) <= 2
  /\ task \in Tasks
  /\ short \in BOOLEAN /\ signal \in Signals /\ payload \in BOOLEAN
  /\ activeState \in {"initState", "streamADC"}
  /\ availableSignal \in {"ENTRY", "streamData"}
  /\ handled \in Seq(Seq(Pieces))
  /\ exposed \subseteq 1 .. MaxLines /\ swept \subseteq 1 .. MaxLines

Taken(p) == {i \in DOMAIN handled : \E k \in DOMAIN handled[i] : handled[i][k] = p}

\* No character is taken for input twice, whatever is typed when: neither a line
\* that comes while another is being taken out (serialHandler.cpp:126,
\* main.cpp:262), nor what an earlier line left in a buffer, nor a terminal that
\* streams makes it come out again.
TakenOnce ==
  \A p \in Pieces : \A i, j \in Taken(p) : i = j

\* The reception is over, and the flag that would start the next one is down:
\* the event came between lines 126 and 127 of serialHandler.cpp.
Deaf == build = "target" /\ ~receiving /\ ~dataAvailable

\* What the terminal takes for a command or a payload is one whole line, and the
\* line stays open, as long as no line came while another was being taken out.
HarmNeedsExposure ==
  /\ Deaf => exposed # {}
  /\ \A i \in DOMAIN handled :
       \/ \E n \in DOMAIN typed : handled[i] = Characters(n)
       \/ \E k \in DOMAIN handled[i] : handled[i][k][1] \in exposed

\* Every line comes out in the end, one typed after any accident to earlier ones
\* included, except one that came while another was being taken out, or after the
\* line went deaf.  The target, which has a buffer for reception of its own, loses
\* none to a terminal that streams; the host does (main.cpp:262).
LineHandled ==
  \A n \in 1 .. MaxLines :
    Last = n ~> \/ HandledLine(n)
                \/ n \in exposed
                \/ build = "host" /\ n \in swept
                \/ Deaf

=============================================================================
