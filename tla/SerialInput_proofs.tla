-------------------------- MODULE SerialInput_proofs --------------------------
(***************************************************************************)
(* Proofs about SerialInput, for both builds and any number of lines.      *)
(***************************************************************************)
EXTENDS SerialInput, SequenceTheorems, TLAPS

USE SerialAssumption

-----------------------------------------------------------------------------
(* Types.                                                                  *)

\* The DMA has stored no more than was sent.
DmaInv ==
  /\ receiving => rxPos <= wire + 1
  /\ build = "host" => wire = 0
  /\ wire > 0 => Last > 0

\* Sequences of one and of two are what they look like.
LEMMA ShortSequences ==
  ASSUME NEW S, NEW a \in S, NEW b \in S
  PROVE  /\ <<a>> \in Seq(S) /\ Len(<<a>>) = 1
         /\ <<a, b>> \in Seq(S) /\ Len(<<a, b>>) = 2
  OBVIOUS

\* A line is at most two characters.
LEMMA LineType ==
  ASSUME NEW n \in 1 .. MaxLines, NEW kind
  PROVE  /\ Line(n, kind) \in Seq(Pieces) /\ Len(Line(n, kind)) <= 2
         /\ <<n, 1>> \in Pieces /\ <<n, 2>> \in Pieces
  <1>1. <<n, 1>> \in Pieces /\ <<n, 2>> \in Pieces
    BY DEF Pieces
  <1> HIDE DEF Pieces
  <1> DEFINE a == <<n, 1>>
             b == <<n, 2>>
  <1>2. Line(n, kind) = IF kind = "text" THEN <<a, b>> ELSE <<a>>
    BY DEF Line
  <1>3. a \in Pieces /\ b \in Pieces
    BY <1>1
  <1> HIDE DEF a, b
  <1>4. Line(n, kind) \in Seq(Pieces) /\ Len(Line(n, kind)) <= 2
    BY <1>2, <1>3, ShortSequences
  <1> QED
    BY <1>1, <1>4

\* The sequence strcpy leaves.
Copied == IF rx[1] = NUL THEN <<>>
          ELSE IF rx[2] = NUL THEN <<rx[1]>> ELSE <<rx[1], rx[2]>>

\* What strcpy leaves is at most two characters.
LEMMA CopyType ==
  ASSUME TypeOK
  PROVE  Copied \in Seq(Pieces) /\ Len(Copied) <= 2
  <1>1. rx[1] \in Pieces \cup {NUL} /\ rx[2] \in Pieces \cup {NUL}
    BY DEF TypeOK
  <1>2. <<>> \in Seq(Pieces) /\ Len(<<>>) = 0
    OBVIOUS
  <1>3. CASE rx[1] # NUL /\ rx[2] # NUL
    BY <1>1, <1>3, ShortSequences DEF Copied
  <1>4. CASE rx[1] # NUL /\ rx[2] = NUL
    BY <1>1, <1>4, ShortSequences DEF Copied
  <1>5. CASE rx[1] = NUL
    BY <1>2, <1>5 DEF Copied
  <1> QED
    BY <1>3, <1>4, <1>5

\* The DMA stays in its buffer.
LEMMA ReceiveType ==
  ASSUME TypeOK, DmaInv, wire \in {0, 1}, NEW p \in Pieces, Receive(p)
  PROVE  rx' \in [1 .. 2 -> Pieces \cup {NUL}] /\ rxPos' \in 1 .. 3
         /\ (receiving => rxPos' <= wire + 2)
  BY DEF TypeOK, DmaInv, Receive

\* Only lines that are typed are exposed, or swept.
LEMMA ExposeType ==
  ASSUME TypeOK, Expose, Last < MaxLines
  PROVE  exposed' \subseteq 1 .. MaxLines /\ swept' \subseteq 1 .. MaxLines
  <1>1. Last \in Nat /\ exposed \subseteq 1 .. MaxLines /\ swept \subseteq 1 .. MaxLines
    <2>1. typed \in Seq(Kinds)
      BY DEF TypeOK
    <2>2. Len(typed) \in Nat
      BY <2>1
    <2> QED
      BY <2>2 DEF TypeOK, Last
  <1>2. ASSUME NEW m \in exposed'
        PROVE  m \in exposed \/ m = Last + 1 \/ (m = Last /\ m > 0)
    BY DEF Expose
  <1>3. MaxLines \in Nat
    BY DEF SerialAssumption
  <1>4. Last + 1 \in 1 .. MaxLines /\ (Last > 0 => Last \in 1 .. MaxLines)
    BY <1>1, <1>3
  <1>5. ASSUME NEW m \in exposed'
        PROVE  m \in 1 .. MaxLines
    BY <1>1, <1>2, <1>4
  <1>6. ASSUME NEW m \in swept'
        PROVE  m \in 1 .. MaxLines
    <2>1. m \in swept \/ m = Last + 1
      BY DEF Expose
    <2> QED
      BY <1>1, <1>4, <2>1
  <1> QED
    BY <1>5, <1>6

\* The types hold before the first step.
LEMMA TypeInit ==
  ASSUME Init
  PROVE  TypeOK /\ DmaInv
  <1>1. \A S : <<>> \in Seq(S) /\ Len(<<>>) = 0
    BY EmptySeq
  <1>2. typed \in Seq(Kinds) /\ Last <= MaxLines
    <2>1. typed = <<>>
      BY DEF Init
    <2> QED
      BY <1>1, <2>1 DEF Last
  <1>6. serialBuffer \in Seq(Pieces) /\ Len(serialBuffer) <= 2
    <2>1. serialBuffer = <<>>
      BY DEF Init
    <2> QED
      BY <1>1, <2>1
  <1>7. handled \in Seq(Seq(Pieces))
    <2>1. handled = <<>>
      BY DEF Init
    <2> QED
      BY <1>1, <2>1
  <1>3. /\ exposed \subseteq 1 .. MaxLines /\ swept \subseteq 1 .. MaxLines
        /\ wire \in 0 .. 2 /\ rx \in [1 .. 2 -> Pieces \cup {NUL}] /\ rxPos \in 1 .. 3
    BY DEF Init
  <1>4. /\ receiving \in BOOLEAN /\ dataAvailable \in BOOLEAN /\ short \in BOOLEAN
        /\ payload \in BOOLEAN
    BY Zenon DEF Init
  <1>5. build \in Builds /\ task \in Tasks /\ signal \in Signals
        /\ activeState \in {"initState", "streamADC"}
        /\ availableSignal \in {"ENTRY", "streamData"}
    BY DEF Init, Tasks, Signals
  <1> QED
    BY <1>2, <1>3, <1>4, <1>5, <1>6, <1>7 DEF TypeOK, DmaInv, Init

\* Every step keeps the types, and the DMA in its buffer.
LEMMA TypeStep ==
  ASSUME TypeOK, DmaInv, [Next]_vars
  PROVE  TypeOK' /\ DmaInv'
  <1> USE DEF lineVars, uartVars, termVars
  <1>a. Last \in Nat /\ MaxLines \in Nat
    BY LenProperties DEF TypeOK, Last, SerialAssumption
  <1>1. ASSUME NEW kind \in Kinds, TypeLine(kind)
        PROVE  TypeOK' /\ DmaInv'
    <2>1. Last + 1 \in 1 .. MaxLines /\ wire = 0 /\ wire \in {0, 1} /\ Last < MaxLines
      BY <1>1, <1>a DEF TypeLine
    <2>2. typed' \in Seq(Kinds) /\ Last' = Last + 1
      BY <1>1, AppendProperties DEF TypeLine, TypeOK, Last
    <2>3. <<Last + 1, 1>> \in Pieces
      BY <2>1, LineType
    <2>4. rx' \in [1 .. 2 -> Pieces \cup {NUL}] /\ rxPos' \in 1 .. 3
          /\ (receiving => rxPos' <= wire + 2)
      BY <1>1, <2>1, <2>3, ReceiveType DEF TypeLine
    <2>5. exposed' \subseteq 1 .. MaxLines /\ swept' \subseteq 1 .. MaxLines
      BY <1>1, <2>1, ExposeType DEF TypeLine
    <2> QED
      BY <1>1, <2>1, <2>2, <2>4, <2>5 DEF TypeLine, TypeOK, DmaInv
  <1>2. CASE NextCharacter
    <2>1. Last \in 1 .. MaxLines /\ wire = 1 /\ wire \in {0, 1}
      BY <1>2, <1>a DEF NextCharacter, DmaInv, TypeOK
    <2>2. <<Last, 2>> \in Pieces
      BY <2>1, LineType
    <2>3. rx' \in [1 .. 2 -> Pieces \cup {NUL}] /\ rxPos' \in 1 .. 3
          /\ (receiving => rxPos' <= wire + 2)
      BY <1>2, <2>1, <2>2, ReceiveType DEF NextCharacter
    <2> QED
      BY <1>2, <2>1, <2>3 DEF NextCharacter, TypeOK, DmaInv, Last
  <1>3. CASE RxEvent
    <2>1. receiving' \in BOOLEAN /\ dataAvailable' \in BOOLEAN
      BY <1>3, Zenon DEF RxEvent, TypeOK
    <2>2. DmaInv'
      BY <1>3 DEF RxEvent, TypeOK, DmaInv, Last
    <2> QED
      BY <1>3, <2>1, <2>2 DEF RxEvent, TypeOK, Last
  <1>4. ASSUME NEW kind \in Kinds, InputThread(kind)
        PROVE  TypeOK' /\ DmaInv'
    <2>1. Last + 1 \in 1 .. MaxLines /\ Last < MaxLines
      BY <1>4, <1>a DEF InputThread
    <2>2. typed' \in Seq(Kinds) /\ Last' = Last + 1
      BY <1>4, AppendProperties DEF InputThread, TypeOK, Last
    <2>3. serialBuffer' \in Seq(Pieces) /\ Len(serialBuffer') <= 2
      <3>1. Line(Last + 1, kind) \in Seq(Pieces) /\ Len(Line(Last + 1, kind)) <= 2
        BY <2>1, LineType
      <3>2. serialBuffer' = Line(Last + 1, kind)
        BY <1>4 DEF InputThread
      <3> QED
        BY <3>1, <3>2
    <2>4. exposed' \subseteq 1 .. MaxLines /\ swept' \subseteq 1 .. MaxLines
      BY <1>4, <2>1, ExposeType DEF InputThread
    <2> QED
      BY <1>4, <2>1, <2>2, <2>3, <2>4 DEF InputThread, TypeOK, DmaInv
  <1>5. CASE QuietPass \/ UNCHANGED vars
    <2>1. UNCHANGED <<build, typed, wire, exposed, swept, rx, rxPos, receiving,
                      dataAvailable, serialBuffer, task, short, signal, payload, activeState,
                      availableSignal, handled>>
      BY <1>5 DEF QuietPass, vars
    <2> QED
      BY <2>1 DEF TypeOK, DmaInv, Last
  <1>6. CASE StreamPass \/ TakeNewData \/ ClearFlag
    <2>1. dataAvailable' \in BOOLEAN
      BY <1>6, Zenon DEF StreamPass, TakeNewData, ClearFlag, TypeOK
    <2>2. task' \in Tasks /\ signal' \in Signals
      BY <1>6 DEF StreamPass, TakeNewData, ClearFlag, TypeOK, Tasks, Signals
    <2>3. UNCHANGED <<build, typed, wire, exposed, swept, rx, rxPos, receiving,
                      serialBuffer, short, payload, activeState, availableSignal, handled>>
      BY <1>6 DEF StreamPass, TakeNewData, ClearFlag
    <2> QED
      BY <2>1, <2>2, <2>3 DEF TypeOK, DmaInv, Last
  <1>7. CASE RestartReception
    BY <1>7 DEF RestartReception, TypeOK, DmaInv, Last, Tasks
  <1>8. CASE CopyLine
    <2>1. serialBuffer' \in Seq(Pieces) /\ Len(serialBuffer') <= 2
      BY <1>8, CopyType DEF CopyLine, Copied
    <2> QED
      BY <1>8, <2>1 DEF CopyLine, TypeOK, DmaInv, Last, Tasks
  <1>9. CASE WipeBuffer
    BY <1>9 DEF WipeBuffer, TypeOK, DmaInv, Last, Tasks
  <1>10. CASE ReadLength
    <2>1. short' \in BOOLEAN
      BY <1>10 DEF ReadLength
    <2> QED
      BY <1>10, <2>1 DEF ReadLength, TypeOK, DmaInv, Last, Tasks
  <1>11. CASE CompareKeys
    <2>1. handled' \in Seq(Seq(Pieces))
      <3>1. CASE KeyPressed
        <4>1. Head(serialBuffer) \in Pieces
          BY <3>1, HeadTailProperties DEF KeyPressed, TypeOK
        <4>2. <<Head(serialBuffer)>> \in Seq(Pieces)
          BY <4>1, ShortSequences
        <4>3. handled' = Append(handled, <<Head(serialBuffer)>>)
          BY <1>11, <3>1 DEF CompareKeys
        <4>4. handled \in Seq(Seq(Pieces))
          BY DEF TypeOK
        <4> QED
          BY <4>2, <4>3, <4>4, AppendProperties
      <3>2. CASE ~KeyPressed
        BY <1>11, <3>2 DEF CompareKeys, TypeOK
      <3> QED
        BY <3>1, <3>2
    <2>2. signal' \in Signals
      BY <1>11 DEF CompareKeys, KeyPressed, TypeOK, Signals
    <2>3. payload' \in BOOLEAN
      BY <1>11, Zenon DEF CompareKeys, TypeOK
    <2> QED
      BY <1>11, <2>1, <2>2, <2>3 DEF CompareKeys, TypeOK, DmaInv, Last, Tasks
  <1>12. CASE Handle
    <2>1. handled' \in Seq(Seq(Pieces))
      BY <1>12, AppendProperties DEF Handle, TypeOK
    <2>2. activeState' \in {"initState", "streamADC"}
          /\ availableSignal' \in {"ENTRY", "streamData"}
      BY <1>12 DEF Handle, Dispatch, TypeOK
    <2> QED
      BY <1>12, <2>1, <2>2 DEF Handle, TypeOK, DmaInv, Last, Tasks
  <1>13. CASE ClearSerialBuffer
    <2>1. serialBuffer' \in Seq(Pieces) /\ Len(serialBuffer') <= 2
      BY <1>13, EmptySeq DEF ClearSerialBuffer
    <2> QED
      BY <1>13, <2>1 DEF ClearSerialBuffer, TypeOK, DmaInv, Last, Tasks
  <1> QED
    BY <1>1, <1>2, <1>3, <1>4, <1>5, <1>6, <1>7, <1>8, <1>9, <1>10, <1>11, <1>12, <1>13
    DEF Next, ConfigurationTask, Uart, User

\* Every reachable state is of its type, with any number of lines and in both
\* builds: the DMA never writes past the end of its buffer.
THEOREM TypeCorrect == Spec => []TypeOK
  <1>1. Init => TypeOK /\ DmaInv
    BY TypeInit
  <1>2. TypeOK /\ DmaInv /\ [Next]_vars => TypeOK' /\ DmaInv'
    BY TypeStep
  <1> QED
    BY <1>1, <1>2, PTL DEF Spec

-----------------------------------------------------------------------------
(* Where a character is.                                                   *)

InRx(p)     == \E i \in 1 .. 2 : rx[i] = p
InBuffer(p) == \E i \in DOMAIN serialBuffer : serialBuffer[i] = p
IsTaken(p)  == Taken(p) # {}

\* What was taken is nowhere any more, but in the line that is about to be
\* cleared; only strcpy leaves a character in both buffers, for one step.
PlaceInv(p) ==
  /\ \A i, j \in Taken(p) : i = j
  /\ IsTaken(p) => ~InRx(p)
  /\ IsTaken(p) /\ InBuffer(p) => task = "clear" \/ (task = "handle" /\ ~payload)
  /\ InRx(p) /\ InBuffer(p) => task = "wipe"

\* What has not been sent is nowhere.
SentInv(p) ==
  IsTaken(p) \/ InRx(p) \/ InBuffer(p) =>
    p[1] <= Last /\ (p = <<Last, 2>> => wire # 1)

\* A payload is announced only to the handler of the same pass.
PayloadInv == payload => task = "handle"

OnceInv == PayloadInv /\ \A p \in Pieces : PlaceInv(p) /\ SentInv(p)

\* A place that does not change has the characters it had.
LEMMA Kept ==
  ASSUME NEW p
  PROVE  /\ rx' = rx => InRx(p)' = InRx(p)
         /\ serialBuffer' = serialBuffer => InBuffer(p)' = InBuffer(p)
         /\ handled' = handled => Taken(p)' = Taken(p) /\ IsTaken(p)' = IsTaken(p)
  BY DEF InRx, InBuffer, Taken, IsTaken

\* What is taken after a line was handled was taken before, or with it.
LEMMA OneMoreTaken ==
  ASSUME NEW p, NEW s, handled \in Seq(Seq(Pieces)), handled' = Append(handled, s),
         NEW i \in Taken(p)'
  PROVE  i \in Taken(p) \/ (i = Len(handled) + 1 /\ \E k \in DOMAIN s : s[k] = p)
  BY AppendProperties DEF Taken

\* What is taken was in the buffer, and neither taken before nor in rx.
LEMMA TakeBuffer ==
  ASSUME TypeOK, NEW s, NEW p \in Pieces, PlaceInv(p), SentInv(p),
         handled' = Append(handled, s), \A k \in DOMAIN s : s[k] = p => InBuffer(p),
         IsTaken(p) => ~InBuffer(p), task # "wipe",
         UNCHANGED <<rx, serialBuffer, typed, wire>>,
         task' = "clear" \/ (task' = "handle" /\ ~payload')
  PROVE  PlaceInv(p)' /\ SentInv(p)'
  <1>1. \A i \in Taken(p)' : i \in Taken(p) \/ (i = Len(handled) + 1 /\ InBuffer(p))
    BY OneMoreTaken DEF TypeOK
  <1>2. IsTaken(p)' => IsTaken(p) \/ InBuffer(p)
    BY <1>1 DEF IsTaken
  <1>3. \A i, j \in Taken(p)' : i = j
    BY <1>1 DEF PlaceInv, IsTaken
  <1>4. InRx(p)' = InRx(p) /\ InBuffer(p)' = InBuffer(p)
    BY Kept
  <1>5. Last' = Last /\ wire' = wire
    BY DEF Last
  <1> QED
    BY <1>2, <1>3, <1>4, <1>5 DEF PlaceInv, SentInv

\* A new character comes into one of the buffers, if at all.
LEMMA NewCharacter ==
  ASSUME NEW p \in Pieces, PlaceInv(p), SentInv(p), handled' = handled,
         NEW q, InRx(p)' => InRx(p) \/ p = q, UNCHANGED <<serialBuffer, task, payload>>,
         p = q => ~InRx(p) /\ ~InBuffer(p) /\ ~IsTaken(p)
  PROVE  PlaceInv(p)'
  BY Kept DEF PlaceInv

\* A payload is announced for the handler of the same pass.
LEMMA PayloadStep ==
  ASSUME PayloadInv, [Next]_vars
  PROVE  PayloadInv'
  BY DEF PayloadInv, Next, ConfigurationTask, Uart, User, QuietPass, StreamPass,
         TakeNewData, RestartReception, CopyLine, WipeBuffer, ClearFlag, ReadLength,
         CompareKeys, Handle, ClearSerialBuffer, NextCharacter, RxEvent, TypeLine,
         InputThread, vars

\* Every step keeps a character in one place, and takes it once.
LEMMA OnceStep ==
  ASSUME TypeOK, DmaInv, OnceInv, [Next]_vars, NEW p \in Pieces
  PROVE  PlaceInv(p)' /\ SentInv(p)'
  <1>a. PlaceInv(p) /\ SentInv(p) /\ PayloadInv
    BY DEF OnceInv
  <1>b. Last \in Nat /\ MaxLines \in Nat /\ p[1] \in 1 .. MaxLines
    BY LenProperties DEF TypeOK, Last, SerialAssumption, Pieces
  <1>1. ASSUME NEW kind \in Kinds, TypeLine(kind)
        PROVE  PlaceInv(p)' /\ SentInv(p)'
    <2>1. Last' = Last + 1 /\ wire' = 1
      BY <1>1, AppendProperties DEF TypeLine, TypeOK, Last
    <2>2. UNCHANGED <<handled, serialBuffer, task, payload>>
      BY <1>1 DEF TypeLine
    <2>3. InRx(p)' => InRx(p) \/ p = <<Last + 1, 1>>
      BY <1>1 DEF TypeLine, Receive, InRx, TypeOK
    <2>4. p = <<Last + 1, 1>> => ~InRx(p) /\ ~InBuffer(p) /\ ~IsTaken(p)
      BY <1>a, <1>b DEF SentInv
    <2>5. PlaceInv(p)'
      BY <1>a, <2>2, <2>3, <2>4, NewCharacter
    <2>6. IsTaken(p)' = IsTaken(p) /\ InBuffer(p)' = InBuffer(p)
      BY <2>2, Kept
    <2>7. SentInv(p)'
      BY <1>a, <1>b, <2>1, <2>3, <2>6 DEF SentInv
    <2> QED
      BY <2>5, <2>7
  <1>2. CASE NextCharacter
    <2>1. UNCHANGED <<handled, serialBuffer, task, payload, typed>> /\ wire = 1 /\ wire' = 2
      BY <1>2 DEF NextCharacter
    <2>2. InRx(p)' => InRx(p) \/ p = <<Last, 2>>
      BY <1>2 DEF NextCharacter, Receive, InRx, TypeOK
    <2>3. p = <<Last, 2>> => ~InRx(p) /\ ~InBuffer(p) /\ ~IsTaken(p)
      BY <1>a, <2>1 DEF SentInv
    <2>4. PlaceInv(p)'
      BY <1>a, <2>1, <2>2, <2>3, NewCharacter
    <2>5. IsTaken(p)' = IsTaken(p) /\ InBuffer(p)' = InBuffer(p) /\ Last' = Last
      BY <2>1, Kept DEF Last
    <2>6. SentInv(p)'
      BY <1>a, <1>b, <2>1, <2>2, <2>5 DEF SentInv
    <2> QED
      BY <2>4, <2>6
  <1>3. ASSUME NEW kind \in Kinds, InputThread(kind)
        PROVE  PlaceInv(p)' /\ SentInv(p)'
    <2>1. Last' = Last + 1 /\ wire' = 0
      BY <1>3, AppendProperties DEF InputThread, TypeOK, Last, DmaInv
    <2>2. UNCHANGED <<handled, rx, task, payload>>
      BY <1>3 DEF InputThread, uartVars
    <2>3. InBuffer(p)' => p[1] = Last + 1
      BY <1>3 DEF InputThread, InBuffer, Line
    <2>4. p[1] = Last + 1 => ~InRx(p) /\ ~IsTaken(p)
      BY <1>a, <1>b DEF SentInv
    <2>5. InRx(p)' = InRx(p) /\ Taken(p)' = Taken(p) /\ IsTaken(p)' = IsTaken(p)
      BY <2>2, Kept
    <2>6. PlaceInv(p)'
      BY <1>a, <2>3, <2>4, <2>5 DEF PlaceInv
    <2>7. SentInv(p)'
      BY <1>a, <1>b, <2>1, <2>3, <2>5 DEF SentInv
    <2> QED
      BY <2>6, <2>7
  <1>4. CASE QuietPass \/ StreamPass \/ TakeNewData \/ RestartReception \/ ClearFlag
             \/ ReadLength \/ RxEvent \/ UNCHANGED vars
    <2>1. /\ UNCHANGED <<handled, serialBuffer, rx, typed, payload>>
          /\ wire' = wire \/ wire' = 0
          /\ task' = task \/ task \notin {"wipe", "handle", "clear"}
      BY <1>4 DEF QuietPass, StreamPass, TakeNewData, RestartReception, ClearFlag,
                  ReadLength, RxEvent, vars, lineVars, uartVars
    <2>2. /\ InRx(p)' = InRx(p) /\ InBuffer(p)' = InBuffer(p)
          /\ Taken(p)' = Taken(p) /\ IsTaken(p)' = IsTaken(p) /\ Last' = Last
      BY <2>1, Kept DEF Last
    <2> QED
      BY <1>a, <2>1, <2>2 DEF PlaceInv, SentInv
  <1>5. CASE CopyLine
    <2>1. UNCHANGED <<handled, rx, typed, wire, payload>> /\ task' = "wipe"
      BY <1>5 DEF CopyLine, lineVars, uartVars
    <2>2. InBuffer(p)' => InRx(p)
      BY <1>5 DEF CopyLine, InBuffer, InRx
    <2>3. /\ InRx(p)' = InRx(p) /\ Taken(p)' = Taken(p) /\ IsTaken(p)' = IsTaken(p)
          /\ Last' = Last
      BY <2>1, Kept DEF Last
    <2> QED
      BY <1>a, <2>1, <2>2, <2>3 DEF PlaceInv, SentInv
  <1>6. CASE WipeBuffer
    <2>1. UNCHANGED <<handled, serialBuffer, typed, wire, payload>> /\ task = "wipe"
      BY <1>6 DEF WipeBuffer, lineVars
    <2>2. ~InRx(p)'
      BY <1>6 DEF WipeBuffer, InRx, NUL, Pieces
    <2>3. /\ InBuffer(p)' = InBuffer(p) /\ Taken(p)' = Taken(p)
          /\ IsTaken(p)' = IsTaken(p) /\ Last' = Last
      BY <2>1, Kept DEF Last
    <2> QED
      BY <1>a, <2>1, <2>2, <2>3 DEF PlaceInv, SentInv
  <1>7. CASE CompareKeys
    <2>1. UNCHANGED <<rx, serialBuffer, typed, wire>> /\ task = "compare" /\ task' = "handle"
      BY <1>7 DEF CompareKeys, lineVars, uartVars
    <2>2. ~payload /\ (IsTaken(p) => ~InBuffer(p))
      BY <1>a, <2>1 DEF PlaceInv, PayloadInv
    <2>3. CASE KeyPressed
      <3> DEFINE s == <<Head(serialBuffer)>>
      <3>1. handled' = Append(handled, s) /\ ~payload'
        BY <1>7, <2>2, <2>3 DEF CompareKeys
      <3>2. serialBuffer \in Seq(Pieces) /\ serialBuffer # <<>>
        BY <2>3 DEF KeyPressed, TypeOK
      <3>3. Head(serialBuffer) = serialBuffer[1] /\ 1 \in DOMAIN serialBuffer
        BY <3>2, HeadTailProperties, EmptySeq, LenProperties
      <3>4. \A k \in DOMAIN s : s[k] = p => InBuffer(p)
        BY <3>3 DEF InBuffer
      <3> HIDE DEF s
      <3> QED
        BY <1>a, <2>1, <2>2, <3>1, <3>4, TakeBuffer
    <2>4. CASE ~KeyPressed
      <3>1. handled' = handled
        BY <1>7, <2>4 DEF CompareKeys
      <3>2. /\ InRx(p)' = InRx(p) /\ InBuffer(p)' = InBuffer(p)
            /\ Taken(p)' = Taken(p) /\ IsTaken(p)' = IsTaken(p) /\ Last' = Last
        BY <2>1, <3>1, Kept DEF Last
      <3> QED
        BY <1>a, <2>1, <2>2, <3>2 DEF PlaceInv, SentInv
    <2> QED
      BY <2>3, <2>4
  <1>8. CASE Handle
    <2>1. UNCHANGED <<rx, serialBuffer, typed, wire>> /\ task = "handle" /\ task' = "clear"
      BY <1>8 DEF Handle, lineVars, uartVars
    <2>2. CASE payload
      <3>1. handled' = Append(handled, serialBuffer)
        BY <1>8, <2>2 DEF Handle
      <3>2. IsTaken(p) => ~InBuffer(p)
        BY <1>a, <2>1, <2>2 DEF PlaceInv
      <3>3. \A k \in DOMAIN serialBuffer : serialBuffer[k] = p => InBuffer(p)
        BY DEF InBuffer
      <3> QED
        BY <1>a, <2>1, <3>1, <3>2, <3>3, TakeBuffer
    <2>3. CASE ~payload
      <3>1. handled' = handled
        BY <1>8, <2>3 DEF Handle
      <3>2. /\ InRx(p)' = InRx(p) /\ InBuffer(p)' = InBuffer(p)
            /\ Taken(p)' = Taken(p) /\ IsTaken(p)' = IsTaken(p) /\ Last' = Last
        BY <2>1, <3>1, Kept DEF Last
      <3> QED
        BY <1>a, <2>1, <3>2 DEF PlaceInv, SentInv
    <2> QED
      BY <2>2, <2>3
  <1>9. CASE ClearSerialBuffer
    <2>1. UNCHANGED <<rx, handled, typed, wire, payload>>
      BY <1>9 DEF ClearSerialBuffer, lineVars, uartVars
    <2>2. ~InBuffer(p)'
      BY <1>9 DEF ClearSerialBuffer, InBuffer
    <2>3. /\ InRx(p)' = InRx(p) /\ Taken(p)' = Taken(p) /\ IsTaken(p)' = IsTaken(p)
          /\ Last' = Last
      BY <2>1, Kept DEF Last
    <2> QED
      BY <1>a, <2>1, <2>2, <2>3 DEF PlaceInv, SentInv
  <1> QED
    BY <1>1, <1>2, <1>3, <1>4, <1>5, <1>6, <1>7, <1>8, <1>9
    DEF Next, ConfigurationTask, Uart, User

\* Before the first step there are no characters.
LEMMA OnceInit ==
  ASSUME Init
  PROVE  OnceInv
  <1>1. ASSUME NEW p \in Pieces
        PROVE  Taken(p) = {} /\ ~InRx(p) /\ ~InBuffer(p)
    BY DEF Init, Taken, InRx, InBuffer, NUL, Pieces
  <1>2. ~payload
    BY DEF Init
  <1> QED
    BY <1>1, <1>2 DEF OnceInv, PayloadInv, PlaceInv, SentInv, IsTaken

\* No character is taken for input twice, with any number of lines, whatever the
\* DMA and the input thread do while configurationTask takes a line out.
THEOREM TakenOnceCorrect == Spec => []TakenOnce
  <1>1. Init => TypeOK /\ DmaInv /\ OnceInv
    BY TypeInit, OnceInit
  <1>2. TypeOK /\ DmaInv /\ OnceInv /\ [Next]_vars => TypeOK' /\ DmaInv' /\ OnceInv'
    <2> SUFFICES ASSUME TypeOK, DmaInv, OnceInv, [Next]_vars
                 PROVE  TypeOK' /\ DmaInv' /\ OnceInv'
      OBVIOUS
    <2>1. TypeOK' /\ DmaInv'
      BY TypeStep
    <2>2. PayloadInv'
      BY PayloadStep DEF OnceInv
    <2>3. Pieces' = Pieces
      BY DEF Pieces
    <2>4. \A p \in Pieces : PlaceInv(p)' /\ SentInv(p)'
      BY OnceStep
    <2> QED
      BY <2>1, <2>2, <2>3, <2>4 DEF OnceInv
  <1>3. OnceInv => TakenOnce
    BY DEF OnceInv, PlaceInv, TakenOnce
  <1> QED
    BY <1>1, <1>2, <1>3, PTL DEF Spec

-----------------------------------------------------------------------------
(* Harm.                                                                   *)

\* A whole line, or something with a piece of an exposed one in it.
WholeOrMixed(s, lines, e) ==
  \/ \E n \in DOMAIN lines : s = Line(n, lines[n])
  \/ \E k \in DOMAIN s : s[k][1] \in e

Sound(s, lines, e) == s = <<>> \/ WholeOrMixed(s, lines, e)

\* A character that comes while the flag is up belongs to an exposed line, and
\* the flag is up while the reception buffer is taken out.
RisingInv == dataAvailable /\ wire > 0 => Last \in exposed
TakingOut == task \in {"copy", "wipe"}
TakingInv == TakingOut \/ task = "ack" => dataAvailable /\ build = "target"
\* The line goes deaf, or is about to, by an exposed line only.
AckInv  == task = "ack" \/ TakingOut => receiving \/ exposed # {}
DeafInv == Deaf => exposed # {}

FlagInv == RisingInv /\ TakingInv /\ AckInv /\ DeafInv

\* What is left in the reception buffer is of the line that is being sent ...
RestInv ==
  receiving /\ ~TakingOut =>
    \A i \in 1 .. 2 : rx[i] = NUL \/ (i < rxPos /\ rx[i][1] = Last)
\* ... and its beginning, unless the line is exposed.
PrefixInv ==
  receiving /\ wire > 0 /\ Last \notin exposed =>
    /\ rxPos = wire + 1
    /\ \A i \in 1 .. 2 : rx[i] = IF i < rxPos THEN <<Last, i>> ELSE NUL

\* What strcpy will take, and what it took.
CopyInv   == build = "target" /\ dataAvailable => Sound(Copied, typed, exposed)
BufferInv == Sound(serialBuffer, typed, exposed)
\* The two readings of getTerminalSignal agree but for an exposed line.
ShortInv ==
  task = "compare" /\ short =>
    Len(serialBuffer) < 2 \/ (serialBuffer # <<>> /\ serialBuffer[1][1] \in exposed)
NotEmptyInv == payload => serialBuffer # <<>>
HandledInv  == \A i \in DOMAIN handled : WholeOrMixed(handled[i], typed, exposed)

HarmInv ==
  /\ PayloadInv /\ FlagInv /\ RestInv /\ PrefixInv
  /\ CopyInv /\ BufferInv /\ ShortInv /\ NotEmptyInv /\ HandledInv

\* Sound things stay so as the history grows.
LEMMA SoundGrows ==
  ASSUME NEW s, NEW lines, NEW more, NEW e, NEW f, e \subseteq f,
         \A n \in DOMAIN lines : n \in DOMAIN more /\ more[n] = lines[n]
  PROVE  /\ WholeOrMixed(s, lines, e) => WholeOrMixed(s, more, f)
         /\ Sound(s, lines, e) => Sound(s, more, f)
  BY Zenon DEF WholeOrMixed, Sound

\* Lines are added, and exposed; none is changed or forgotten.
LEMMA History ==
  ASSUME TypeOK, [Next]_vars
  PROVE  /\ exposed \subseteq exposed'
         /\ \A n \in DOMAIN typed : n \in DOMAIN typed' /\ typed'[n] = typed[n]
  <1>1. ASSUME NEW kind, Expose, typed' = Append(typed, kind), kind \in Kinds
        PROVE  /\ exposed \subseteq exposed'
               /\ \A n \in DOMAIN typed : n \in DOMAIN typed' /\ typed'[n] = typed[n]
    <2>1. exposed \subseteq exposed'
      BY <1>1 DEF Expose
    <2>2. typed \in Seq(Kinds)
      BY DEF TypeOK
    <2>3. \A n \in 1 .. Len(typed) : n \in 1 .. Len(typed') /\ typed'[n] = typed[n]
      BY <1>1, <2>2, AppendProperties
    <2>4. DOMAIN typed = 1 .. Len(typed) /\ DOMAIN typed' = 1 .. Len(typed')
      BY <1>1, <2>2, AppendProperties
    <2> QED
      BY <2>1, <2>3, <2>4
  <1>2. CASE \E kind \in Kinds : TypeLine(kind) \/ InputThread(kind)
    BY <1>1, <1>2 DEF TypeLine, InputThread
  <1>3. CASE ConfigurationTask \/ Uart \/ UNCHANGED vars
    <2>1. UNCHANGED <<typed, exposed>>
      BY <1>3 DEF ConfigurationTask, Uart, QuietPass, StreamPass, TakeNewData,
                  RestartReception, CopyLine, WipeBuffer, ClearFlag, ReadLength,
                  CompareKeys, Handle, ClearSerialBuffer, NextCharacter, RxEvent, vars,
                  lineVars
    <2> QED
      BY <2>1
  <1> QED
    BY <1>2, <1>3 DEF Next, User

\* A line that begins while the flag is up is exposed.
LEMMA NewLineExposed ==
  ASSUME Expose, InTheWay
  PROVE  Last + 1 \in exposed' /\ exposed' # {}
  BY DEF Expose

\* With an exposed character in the reception buffer, what strcpy takes is sound.
LEMMA ExposedCopy ==
  ASSUME NEW j \in 1 .. 2, NEW n, NEW m, n \in exposed', rx \in [1 .. 2 -> Pieces \cup {NUL}],
         rx' = [rx EXCEPT ![j] = <<n, m>>]
  PROVE  Sound(Copied, typed, exposed)'
  <1>1. <<n, m>> # NUL
    BY DEF NUL
  <1>2. CASE j = 1
    <2>1. rx'[1] = <<n, m>>
      BY <1>2
    <2>2. Copied' = <<rx'[1]>> \/ Copied' = <<rx'[1], rx'[2]>>
      BY <1>1, <2>1 DEF Copied
    <2>3. 1 \in DOMAIN Copied' /\ Copied'[1] = <<n, m>>
      BY <2>1, <2>2
    <2> QED
      BY <2>3 DEF Sound, WholeOrMixed
  <1>3. CASE j = 2
    <2>1. rx'[2] = <<n, m>>
      BY <1>3
    <2>2. Copied' = <<>> \/ Copied' = <<rx'[1], rx'[2]>>
      BY <1>1, <2>1 DEF Copied
    <2>3. Copied' = <<>> \/ (2 \in DOMAIN Copied' /\ Copied'[2] = <<n, m>>)
      BY <2>1, <2>2
    <2> QED
      BY <2>3 DEF Sound, WholeOrMixed
  <1> QED
    BY <1>2, <1>3


\* An event ends the reception of a line that came whole, or was exposed.
LEMMA EventCopy ==
  ASSUME TypeOK, DmaInv, HarmInv, receiving, wire > 0, wire = Len(Characters(Last)),
         ~TakingOut
  PROVE  Sound(Copied, typed, exposed)
  <1>1. rx[1] \in Pieces \cup {NUL} /\ rx[2] \in Pieces \cup {NUL}
    BY DEF TypeOK
  <1>2. typed \in Seq(Kinds) /\ Last \in DOMAIN typed
    <2>1. typed \in Seq(Kinds) /\ Last \in Nat /\ Last > 0
      BY LenProperties DEF TypeOK, DmaInv, Last
    <2> QED
      BY <2>1, LenProperties DEF Last
  <1>3. CASE Last \in exposed
    <2>1. CASE rx[1] = NUL
      BY <2>1 DEF Copied, Sound
    <2>2. CASE rx[1] # NUL
      <3>1. rx[1][1] = Last
        BY <2>2 DEF HarmInv, RestInv
      <3>2. Copied = <<rx[1]>> \/ Copied = <<rx[1], rx[2]>>
        BY <2>2 DEF Copied
      <3>3. 1 \in DOMAIN Copied /\ Copied[1] = rx[1]
        BY <3>2
      <3>4. Copied[1][1] \in exposed
        BY <1>3, <3>1, <3>3
      <3> QED
        BY <3>3, <3>4 DEF Sound, WholeOrMixed
    <2> QED
      BY <2>1, <2>2
  <1>4. CASE Last \notin exposed
    <2>1. rxPos = wire + 1 /\ \A i \in 1 .. 2 : rx[i] = IF i < rxPos THEN <<Last, i>> ELSE NUL
      BY <1>4 DEF HarmInv, PrefixInv
    <2>2. <<Last, 1>> # NUL /\ <<Last, 2>> # NUL
      BY DEF NUL
    <2>3. Copied = Characters(Last)
      <3>1. CASE typed[Last] = "text"
        <4>1. Characters(Last) = <<<<Last, 1>>, <<Last, 2>>>>
          BY <3>1 DEF Characters, Line
        <4>2. wire = 2
          BY <4>1
        <4>3. rx[1] = <<Last, 1>> /\ rx[2] = <<Last, 2>>
          BY <2>1, <4>2
        <4> QED
          BY <2>2, <4>1, <4>3 DEF Copied
      <3>2. CASE typed[Last] # "text"
        <4>1. Characters(Last) = <<<<Last, 1>>>>
          BY <3>2 DEF Characters, Line
        <4>2. wire = 1
          BY <4>1
        <4>3. rx[1] = <<Last, 1>> /\ rx[2] = NUL
          BY <2>1, <4>2
        <4> QED
          BY <2>2, <4>1, <4>3 DEF Copied
      <3> QED
        BY <3>1, <3>2
    <2> QED
      BY <1>2, <2>3 DEF Sound, WholeOrMixed, Characters
  <1> QED
    BY <1>3, <1>4

\* The flag goes up and down, and the reception on and off, as FlagInv says.
LEMMA FlagStep ==
  ASSUME TypeOK, DmaInv, HarmInv, [Next]_vars
  PROVE  FlagInv'
  <1>a. /\ RisingInv /\ TakingInv /\ AckInv /\ DeafInv
        /\ exposed \subseteq exposed'
    BY History DEF HarmInv, FlagInv
  <1>1. ASSUME NEW kind \in Kinds, TypeLine(kind)
        PROVE  FlagInv'
    <2>1. UNCHANGED <<build, task, receiving, dataAvailable>> /\ Last' = Last + 1
      BY <1>1, AppendProperties DEF TypeLine, TypeOK, Last
    <2>2. dataAvailable => Last + 1 \in exposed'
      BY <1>1, NewLineExposed, Zenon DEF TypeLine, InTheWay
    <2> QED
      BY <1>a, <2>1, <2>2, Zenon
      DEF FlagInv, RisingInv, TakingInv, AckInv, DeafInv, Deaf, TakingOut
  <1>2. CASE NextCharacter
    <2>1. /\ UNCHANGED <<build, task, receiving, dataAvailable, exposed>>
          /\ Last' = Last /\ wire > 0
      BY <1>2 DEF NextCharacter, Last
    <2> QED
      BY <1>a, <2>1, Zenon DEF FlagInv, RisingInv, TakingInv, AckInv, DeafInv, Deaf, TakingOut
  <1>3. CASE RxEvent
    <2>1. UNCHANGED <<build, task, exposed>> /\ ~(wire' > 0) /\ wire > 0
      BY <1>3 DEF RxEvent
    <2>2. \/ dataAvailable' /\ ~receiving'
          \/ UNCHANGED <<dataAvailable, receiving>>
      BY <1>3, Zenon DEF RxEvent
    <2>3. TakingOut \/ task = "ack" => exposed # {}
      BY <1>a, <2>1, Zenon DEF RisingInv, TakingInv
    <2> QED
      BY <1>a, <2>1, <2>2, <2>3, Zenon
      DEF FlagInv, RisingInv, TakingInv, AckInv, DeafInv, Deaf, TakingOut
  <1>4. ASSUME NEW kind \in Kinds, InputThread(kind)
        PROVE  FlagInv'
    <2>1. UNCHANGED <<task, receiving>> /\ build' = "host" /\ build = "host" /\ ~(wire' > 0)
      BY <1>4 DEF InputThread, DmaInv, uartVars
    <2>2. ~TakingOut /\ task # "ack"
      BY <1>a, <2>1, Zenon DEF TakingInv
    <2> QED
      BY <2>1, <2>2 DEF FlagInv, RisingInv, TakingInv, AckInv, DeafInv, Deaf, TakingOut
  <1>5. CASE RestartReception
    <2>1. /\ UNCHANGED <<build, dataAvailable, wire, exposed>> /\ Last' = Last
          /\ receiving' /\ build = "target" /\ dataAvailable
      BY <1>5, Zenon DEF RestartReception, Last, lineVars
    <2> QED
      BY <1>a, <2>1, Zenon DEF FlagInv, RisingInv, TakingInv, AckInv, DeafInv, Deaf
  <1>6. CASE CopyLine \/ WipeBuffer
    <2>1. /\ UNCHANGED <<build, dataAvailable, wire, exposed, receiving>> /\ Last' = Last
          /\ TakingOut
      BY <1>6 DEF CopyLine, WipeBuffer, Last, lineVars, uartVars, TakingOut
    <2> QED
      BY <1>a, <2>1, Zenon DEF FlagInv, RisingInv, TakingInv, AckInv, DeafInv, Deaf
  <1>7. CASE ClearFlag
    <2>1. /\ UNCHANGED <<build, receiving, exposed>> /\ ~dataAvailable'
          /\ task = "ack" /\ task' = "length"
      BY <1>7, Zenon DEF ClearFlag, lineVars, uartVars
    <2>2. ~TakingOut' /\ task' # "ack"
      BY <2>1 DEF TakingOut
    <2> QED
      BY <1>a, <2>1, <2>2, Zenon DEF FlagInv, RisingInv, TakingInv, AckInv, DeafInv, Deaf
  <1>8. CASE TakeNewData
    <2>1. build' # "target" /\ ~dataAvailable' /\ task' = "length"
      BY <1>8 DEF TakeNewData
    <2>2. ~TakingOut' /\ task' # "ack"
      BY <2>1 DEF TakingOut
    <2> QED
      BY <2>1, <2>2, Zenon DEF FlagInv, RisingInv, TakingInv, AckInv, DeafInv, Deaf
  <1>9. CASE StreamPass \/ ReadLength \/ CompareKeys \/ Handle \/ ClearSerialBuffer
    <2>1. /\ UNCHANGED <<build, dataAvailable, wire, exposed, receiving>> /\ Last' = Last
          /\ task' \in {"handle", "compare", "clear", "idle"}
      BY <1>9 DEF StreamPass, ReadLength, CompareKeys, Handle, ClearSerialBuffer,
                  lineVars, uartVars, Last
    <2>2. ~TakingOut' /\ task' # "ack"
      BY <2>1 DEF TakingOut
    <2> QED
      BY <1>a, <2>1, <2>2, Zenon DEF FlagInv, RisingInv, TakingInv, AckInv, DeafInv, Deaf
  <1>10. CASE QuietPass \/ UNCHANGED vars
    <2>1. UNCHANGED <<build, dataAvailable, wire, exposed, receiving, task>> /\ Last' = Last
      BY <1>10 DEF QuietPass, vars, lineVars, uartVars, Last
    <2> QED
      BY <1>a, <2>1, Zenon DEF FlagInv, RisingInv, TakingInv, AckInv, DeafInv, Deaf, TakingOut
  <1> QED
    BY <1>1, <1>2, <1>3, <1>4, <1>5, <1>6, <1>7, <1>8, <1>9, <1>10
    DEF Next, ConfigurationTask, Uart, User

\* The reception buffer holds what is left of the line that is being sent.
LEMMA RxStep ==
  ASSUME TypeOK, DmaInv, HarmInv, [Next]_vars
  PROVE  RestInv' /\ PrefixInv'
  <1>a. RestInv /\ PrefixInv /\ RisingInv /\ TakingInv /\ exposed \subseteq exposed'
    BY History DEF HarmInv, FlagInv
  <1>b. /\ rx \in [1 .. 2 -> Pieces \cup {NUL}] /\ rxPos \in 1 .. 3 /\ wire \in 0 .. 2
        /\ Last \in Nat
    BY LenProperties DEF TypeOK, Last
  <1>c. receiving /\ wire = 0 => rxPos = 1
    BY <1>b DEF DmaInv
  <1>d. receiving /\ wire = 0 /\ ~TakingOut => rx[1] = NUL /\ rx[2] = NUL
    BY <1>a, <1>c DEF RestInv
  <1>1. ASSUME NEW kind \in Kinds, TypeLine(kind)
        PROVE  RestInv' /\ PrefixInv'
    <2>1. UNCHANGED <<task, receiving>> /\ Last' = Last + 1 /\ wire = 0 /\ wire' = 1
      BY <1>1, AppendProperties DEF TypeLine, TypeOK, Last
    <2>2. TakingOut => Last' \in exposed'
      BY <1>1, <1>a, <2>1, NewLineExposed, Zenon DEF TypeLine, InTheWay, TakingInv
    <2>3. CASE receiving /\ ~TakingOut
      <3>1. rx' = [rx EXCEPT ![1] = <<Last', 1>>] /\ rxPos' = 2
        BY <1>1, <1>c, <2>1, <2>3 DEF TypeLine, Receive
      <3>2. rx'[1] = <<Last', 1>> /\ rx'[2] = NUL
        BY <1>b, <1>d, <2>1, <2>3, <3>1
      <3> QED
        BY <2>1, <3>1, <3>2 DEF RestInv, PrefixInv
    <2>4. CASE ~receiving \/ TakingOut
      <3>1. RestInv'
        BY <2>1, <2>4, Zenon DEF RestInv, TakingOut
      <3>2. PrefixInv'
        BY <2>1, <2>2, <2>4, Zenon DEF PrefixInv
      <3> QED
        BY <3>1, <3>2
    <2> QED
      BY <2>3, <2>4
  <1>2. CASE NextCharacter
    <2>1. UNCHANGED <<task, receiving, exposed>> /\ Last' = Last /\ wire = 1 /\ wire' = 2
      BY <1>2 DEF NextCharacter, Last
    <2>2. CASE ~receiving
      BY <2>1, <2>2, Zenon DEF RestInv, PrefixInv
    <2>3. CASE receiving
      <3>1. rx' = [rx EXCEPT ![rxPos] = <<Last, 2>>] /\ rxPos' = rxPos + 1 /\ rxPos \in 1 .. 2
        BY <1>2, <1>b, <2>1, <2>3 DEF NextCharacter, Receive, DmaInv
      <3>2. \A i \in 1 .. 2 : rx'[i] = IF i = rxPos THEN <<Last, 2>> ELSE rx[i]
        BY <1>b, <3>1
      <3>3. RestInv'
        <4>1. CASE TakingOut
          BY <2>1, <4>1 DEF RestInv, TakingOut
        <4>2. CASE ~TakingOut
          <5>1. \A i \in 1 .. 2 : rx[i] = NUL \/ (i < rxPos /\ rx[i][1] = Last)
            BY <1>a, <2>3, <4>2 DEF RestInv
          <5>2. \A i \in 1 .. 2 : rx'[i] = NUL \/ (i < rxPos' /\ rx'[i][1] = Last)
            BY <3>1, <3>2, <5>1
          <5> QED
            BY <2>1, <5>2 DEF RestInv
        <4> QED
          BY <4>1, <4>2
      <3>4. PrefixInv'
        <4> SUFFICES ASSUME Last \notin exposed
                     PROVE  /\ rxPos' = 3
                            /\ \A i \in 1 .. 2 : rx'[i] = <<Last, i>>
          BY <2>1, <3>1 DEF PrefixInv
        <4>1. /\ rxPos = 2
              /\ \A i \in 1 .. 2 : rx[i] = IF i < rxPos THEN <<Last, i>> ELSE NUL
          BY <1>a, <2>1, <2>3 DEF PrefixInv
        <4> QED
          BY <3>1, <3>2, <4>1
      <3> QED
        BY <3>3, <3>4
    <2> QED
      BY <2>2, <2>3
  <1>3. CASE RxEvent
    <2>1. UNCHANGED <<task, rx, rxPos>> /\ Last' = Last /\ ~(wire' > 0)
      BY <1>3 DEF RxEvent, Last
    <2>2. receiving' => receiving
      BY <1>3, Zenon DEF RxEvent
    <2>3. TakingOut' = TakingOut
      BY <2>1 DEF TakingOut
    <2> QED
      BY <1>a, <2>1, <2>2, <2>3 DEF RestInv, PrefixInv
  <1>4. ASSUME NEW kind \in Kinds, InputThread(kind)
        PROVE  RestInv' /\ PrefixInv'
    <2>1. UNCHANGED <<task, receiving, rx>> /\ ~(wire' > 0) /\ wire = 0
      BY <1>4 DEF InputThread, DmaInv, uartVars
    <2>2. TakingOut' = TakingOut
      BY <2>1 DEF TakingOut
    <2> QED
      BY <1>d, <2>1, <2>2 DEF RestInv, PrefixInv
  <1>5. CASE RestartReception
    <2>1. /\ UNCHANGED <<wire, exposed>> /\ Last' = Last /\ task' = "copy" /\ dataAvailable
      BY <1>5, Zenon DEF RestartReception, Last, lineVars
    <2>2. TakingOut'
      BY <2>1 DEF TakingOut
    <2> QED
      BY <1>a, <2>1, <2>2, Zenon DEF RestInv, PrefixInv, RisingInv
  <1>6. CASE WipeBuffer
    <2>1. /\ UNCHANGED <<wire, exposed>> /\ Last' = Last /\ TakingOut
          /\ \A i \in 1 .. 2 : rx'[i] = NUL
      BY <1>6 DEF WipeBuffer, Last, lineVars, TakingOut
    <2>2. wire > 0 => Last \in exposed
      BY <1>a, <2>1, Zenon DEF RisingInv, TakingInv
    <2> QED
      BY <2>1, <2>2 DEF RestInv, PrefixInv
  <1>7. CASE QuietPass \/ StreamPass \/ TakeNewData \/ CopyLine \/ ClearFlag \/ ReadLength
             \/ CompareKeys \/ Handle \/ ClearSerialBuffer \/ UNCHANGED vars
    <2>1. /\ UNCHANGED <<rx, rxPos, receiving, wire, exposed>> /\ Last' = Last
          /\ TakingOut' = TakingOut
      BY <1>7 DEF QuietPass, StreamPass, TakeNewData, CopyLine, ClearFlag, ReadLength,
                  CompareKeys, Handle, ClearSerialBuffer, vars, lineVars, uartVars, Last,
                  TakingOut
    <2> QED
      BY <1>a, <2>1 DEF RestInv, PrefixInv
  <1> QED
    BY <1>1, <1>2, <1>3, <1>4, <1>5, <1>6, <1>7 DEF Next, ConfigurationTask, Uart, User

\* What strcpy will take is sound.
LEMMA CopyStep ==
  ASSUME TypeOK, DmaInv, HarmInv, [Next]_vars
  PROVE  CopyInv'
  <1>a. CopyInv /\ RisingInv /\ TakingInv
    BY DEF HarmInv, FlagInv
  <1>b. /\ rx \in [1 .. 2 -> Pieces \cup {NUL}] /\ rxPos \in 1 .. 3 /\ wire \in 0 .. 2
        /\ Last \in Nat
    BY LenProperties DEF TypeOK, Last
  <1>c. \A s : Sound(s, typed, exposed) => Sound(s, typed', exposed')
    BY History, SoundGrows
  <1>d. ASSUME UNCHANGED <<rx, build>>, dataAvailable' => dataAvailable
        PROVE  CopyInv'
    <2>1. Copied' = Copied
      BY <1>d DEF Copied
    <2> QED
      BY <1>a, <1>c, <1>d, <2>1, Zenon DEF CopyInv
  <1>1. ASSUME NEW kind \in Kinds, TypeLine(kind), receiving, dataAvailable
        PROVE  CopyInv'
    <2>1. Last + 1 \in exposed'
      BY <1>1, NewLineExposed DEF TypeLine, InTheWay
    <2>2. rx' = [rx EXCEPT ![rxPos] = <<Last + 1, 1>>] /\ rxPos \in 1 .. 2
      BY <1>1, <1>b DEF TypeLine, Receive, DmaInv
    <2> QED
      BY <1>b, <2>1, <2>2, ExposedCopy DEF CopyInv
  <1>2. CASE NextCharacter /\ receiving /\ dataAvailable
    <2>1. Last \in exposed'
      BY <1>2, <1>a DEF NextCharacter, RisingInv
    <2>2. rx' = [rx EXCEPT ![rxPos] = <<Last, 2>>] /\ rxPos \in 1 .. 2
      BY <1>2, <1>b DEF NextCharacter, Receive, DmaInv
    <2> QED
      BY <1>b, <2>1, <2>2, ExposedCopy DEF CopyInv
  <1>3. CASE (\E kind \in Kinds : TypeLine(kind)) \/ NextCharacter
    <2>1. UNCHANGED <<build, dataAvailable>>
      BY <1>3 DEF TypeLine, NextCharacter
    <2>2. CASE ~receiving
      <3>1. UNCHANGED rx
        BY <1>3, <2>2 DEF TypeLine, NextCharacter, Receive
      <3> QED
        BY <1>d, <2>1, <3>1, Zenon
    <2>3. CASE ~dataAvailable
      BY <2>1, <2>3, Zenon DEF CopyInv
    <2> QED
      BY <1>1, <1>2, <1>3, <2>2, <2>3
  <1>4. CASE RxEvent
    <2>1. UNCHANGED <<build, rx, typed, exposed>> /\ wire > 0 /\ wire = Len(Characters(Last))
      BY <1>4 DEF RxEvent
    <2>2. CASE receiving /\ ~dataAvailable
      <3>1. ~TakingOut
        BY <1>a, <2>2, Zenon DEF TakingInv
      <3>2. Sound(Copied, typed, exposed)
        BY <2>1, <2>2, <3>1, EventCopy
      <3>3. Copied' = Copied
        BY <2>1 DEF Copied
      <3> QED
        BY <2>1, <3>2, <3>3 DEF CopyInv
    <2>3. CASE ~receiving \/ dataAvailable
      <3>1. dataAvailable' => dataAvailable
        BY <1>4, <2>3, Zenon DEF RxEvent
      <3> QED
        BY <1>d, <2>1, <3>1
    <2> QED
      BY <2>2, <2>3
  <1>5. ASSUME NEW kind \in Kinds, InputThread(kind)
        PROVE  CopyInv'
    BY <1>5 DEF InputThread, CopyInv
  <1>6. CASE WipeBuffer
    <2>1. Copied' = <<>>
      BY <1>6 DEF WipeBuffer, Copied
    <2> QED
      BY <2>1 DEF CopyInv, Sound
  <1>7. CASE QuietPass \/ StreamPass \/ TakeNewData \/ RestartReception \/ CopyLine
             \/ ClearFlag \/ ReadLength \/ CompareKeys \/ Handle \/ ClearSerialBuffer
             \/ UNCHANGED vars
    <2>1. UNCHANGED <<build, rx>>
      BY <1>7 DEF QuietPass, StreamPass, TakeNewData, RestartReception, CopyLine, ReadLength,
                  CompareKeys, Handle, ClearSerialBuffer, ClearFlag, vars, uartVars
    <2>2. dataAvailable' => dataAvailable
      BY <1>7, Zenon DEF QuietPass, StreamPass, TakeNewData, RestartReception, CopyLine,
                  ReadLength, CompareKeys, Handle, ClearSerialBuffer, ClearFlag, vars
    <2> QED
      BY <1>d, <2>1, <2>2
  <1> QED
    BY <1>3, <1>4, <1>5, <1>6, <1>7 DEF Next, ConfigurationTask, Uart, User

\* So is what it took, or the input thread wrote; and the two readings agree.
LEMMA BufferStep ==
  ASSUME TypeOK, DmaInv, HarmInv, [Next]_vars
  PROVE  BufferInv' /\ ShortInv' /\ NotEmptyInv'
  <1>a. CopyInv /\ BufferInv /\ ShortInv /\ NotEmptyInv /\ PayloadInv /\ TakingInv
        /\ exposed \subseteq exposed'
    BY History DEF HarmInv, FlagInv
  <1>b. \A s : Sound(s, typed, exposed) => Sound(s, typed', exposed')
    BY History, SoundGrows
  <1>1. ASSUME NEW kind \in Kinds, InputThread(kind)
        PROVE  BufferInv' /\ ShortInv' /\ NotEmptyInv'
    <2>1. /\ serialBuffer' = Line(Last + 1, kind) /\ typed' = Append(typed, kind)
          /\ UNCHANGED task /\ build = "host"
      BY <1>1 DEF InputThread
    <2>2. Last + 1 \in DOMAIN typed' /\ typed'[Last + 1] = kind
      BY <2>1, AppendProperties, LenProperties DEF TypeOK, Last
    <2>3. serialBuffer' # <<>> /\ serialBuffer'[1][1] = Last + 1
      <3>1. CASE kind = "text"
        BY <2>1, <3>1 DEF Line
      <3>2. CASE kind # "text"
        BY <2>1, <3>2 DEF Line
      <3> QED
        BY <3>1, <3>2
    <2>4. task = "compare" => Last + 1 \in exposed'
      BY <1>1, <2>1, NewLineExposed DEF InTheWay, Sweeping, ClearAhead, InputThread
    <2> QED
      BY <2>1, <2>2, <2>3, <2>4 DEF BufferInv, Sound, WholeOrMixed, ShortInv, NotEmptyInv
  <1>2. CASE CopyLine
    <2>1. task = "copy" /\ task' = "wipe" /\ serialBuffer' = Copied /\ UNCHANGED payload
      BY <1>2 DEF CopyLine, Copied
    <2>2. Sound(Copied, typed, exposed) /\ ~payload
      BY <1>a, <2>1 DEF CopyInv, TakingInv, TakingOut, PayloadInv
    <2> QED
      BY <1>b, <2>1, <2>2 DEF BufferInv, ShortInv, NotEmptyInv
  <1>3. CASE ClearSerialBuffer
    <2>1. task = "clear" /\ task' = "idle" /\ serialBuffer' = <<>> /\ UNCHANGED payload
      BY <1>3 DEF ClearSerialBuffer
    <2> QED
      BY <1>a, <2>1 DEF BufferInv, Sound, ShortInv, NotEmptyInv, PayloadInv
  <1>4. CASE ReadLength
    <2>1. UNCHANGED <<serialBuffer, payload>> /\ short' = (Len(serialBuffer) < 2)
      BY <1>4 DEF ReadLength
    <2> QED
      BY <1>a, <1>b, <2>1 DEF BufferInv, ShortInv, NotEmptyInv
  <1>5. CASE CompareKeys
    <2>1. /\ UNCHANGED serialBuffer /\ task' = "handle"
          /\ payload' => payload \/ serialBuffer # <<>>
      BY <1>5, Zenon DEF CompareKeys
    <2> QED
      BY <1>a, <1>b, <2>1 DEF BufferInv, ShortInv, NotEmptyInv
  <1>6. CASE Handle
    <2>1. UNCHANGED serialBuffer /\ task' = "clear" /\ ~payload'
      BY <1>6 DEF Handle
    <2> QED
      BY <1>a, <1>b, <2>1 DEF BufferInv, ShortInv, NotEmptyInv
  <1>7. CASE (\E kind \in Kinds : TypeLine(kind)) \/ Uart \/ QuietPass \/ StreamPass
             \/ TakeNewData \/ RestartReception \/ WipeBuffer \/ ClearFlag \/ UNCHANGED vars
    <2>1. /\ UNCHANGED <<serialBuffer, payload, short>>
          /\ task' = "compare" => task = "compare"
      BY <1>7 DEF Uart, QuietPass, StreamPass, TakeNewData, RestartReception, WipeBuffer,
                  ClearFlag, vars, TypeLine, NextCharacter, RxEvent
    <2> QED
      BY <1>a, <1>b, <2>1, Zenon DEF BufferInv, ShortInv, NotEmptyInv
  <1> QED
    BY <1>1, <1>2, <1>3, <1>4, <1>5, <1>6, <1>7 DEF Next, ConfigurationTask, User

\* So is what the terminal took: a whole line, or mixed with an exposed one.
LEMMA HandledStep ==
  ASSUME TypeOK, DmaInv, HarmInv, [Next]_vars
  PROVE  HandledInv'
  <1>a. BufferInv /\ ShortInv /\ NotEmptyInv /\ HandledInv
    BY DEF HarmInv
  <1>b. \A s : WholeOrMixed(s, typed, exposed) => WholeOrMixed(s, typed', exposed')
    BY History, SoundGrows
  <1>c. handled \in Seq(Seq(Pieces)) /\ serialBuffer \in Seq(Pieces)
    BY DEF TypeOK
  <1>1. ASSUME NEW s, WholeOrMixed(s, typed, exposed), handled' = Append(handled, s)
        PROVE  HandledInv'
    <2> SUFFICES ASSUME NEW i \in DOMAIN handled'
                 PROVE  WholeOrMixed(handled'[i], typed, exposed)
      BY <1>b DEF HandledInv
    <2>1. \/ i \in DOMAIN handled /\ handled'[i] = handled[i]
          \/ handled'[i] = s
      BY <1>1, <1>c, AppendProperties
    <2> QED
      BY <1>1, <1>a, <2>1 DEF HandledInv
  <1>2. CASE UNCHANGED handled
    BY <1>2, <1>a, <1>b DEF HandledInv
  <1>3. CASE CompareKeys /\ KeyPressed
    <2> DEFINE s == <<Head(serialBuffer)>>
    <2>1. handled' = Append(handled, s) /\ task = "compare"
      BY <1>3 DEF CompareKeys
    <2>2. serialBuffer # <<>> /\ Head(serialBuffer) = serialBuffer[1]
      BY <1>3, <1>c, HeadTailProperties, EmptySeq, LenProperties DEF KeyPressed
    <2>3. Len(serialBuffer) \in Nat \ {0}
      BY <2>2, <1>c, EmptySeq, LenProperties
    <2>4. CASE Len(serialBuffer) < 2
      <3>1. s = serialBuffer
        <4>1. s \in Seq(Pieces) /\ Len(s) = 1 /\ s[1] = serialBuffer[1]
          BY <1>c, <2>2, ElementOfSeq, ShortSequences
        <4>2. Len(serialBuffer) = 1
          <5>1. \A n \in Nat \ {0} : n < 2 => n = 1
            OBVIOUS
          <5> QED
            BY <2>4, <2>3, <5>1, Zenon
        <4> HIDE DEF s
        <4> QED
          BY <1>c, <4>1, <4>2, SeqEqual
      <3> HIDE DEF s
      <3> QED
        BY <1>1, <1>a, <2>1, <2>2, <3>1 DEF BufferInv, Sound
    <2>5. CASE serialBuffer[1][1] \in exposed
      <3>1. 1 \in DOMAIN s /\ s[1][1] \in exposed
        BY <2>2, <2>5
      <3> HIDE DEF s
      <3>2. WholeOrMixed(s, typed, exposed)
        BY <3>1 DEF WholeOrMixed
      <3> QED
        BY <1>1, <2>1, <3>2
    <2>6. short
      BY <1>3 DEF KeyPressed
    <2> QED
      BY <1>a, <2>1, <2>4, <2>5, <2>6 DEF ShortInv
  <1>4. CASE Handle /\ payload
    <2>1. handled' = Append(handled, serialBuffer)
      BY <1>4 DEF Handle
    <2> QED
      BY <1>1, <1>4, <1>a, <2>1 DEF BufferInv, Sound, NotEmptyInv
  <1>5. CASE (CompareKeys /\ ~KeyPressed) \/ (Handle /\ ~payload)
    BY <1>2, <1>5 DEF CompareKeys, Handle
  <1>6. CASE \/ User \/ Uart \/ QuietPass \/ StreamPass \/ TakeNewData \/ RestartReception
             \/ CopyLine \/ WipeBuffer \/ ClearFlag \/ ReadLength \/ ClearSerialBuffer
             \/ UNCHANGED vars
    BY <1>2, <1>6 DEF User, Uart, TypeLine, InputThread, NextCharacter, RxEvent, QuietPass,
                      StreamPass, TakeNewData, RestartReception, CopyLine, WipeBuffer,
                      ClearFlag, ReadLength, ClearSerialBuffer, vars
  <1> QED
    BY <1>3, <1>4, <1>5, <1>6 DEF Next, ConfigurationTask

\* Before the first step nothing is taken, and nothing exposed.
LEMMA HarmInit ==
  ASSUME Init
  PROVE  HarmInv
  <1>1. PayloadInv /\ NotEmptyInv
    BY DEF Init, PayloadInv, NotEmptyInv
  <1>2. task = "idle" /\ ~(wire > 0) /\ ~dataAvailable
    BY DEF Init
  <1>3. ~Deaf
    BY Zenon DEF Init, Deaf
  <1>4. FlagInv
    BY <1>2, <1>3 DEF FlagInv, RisingInv, TakingInv, TakingOut, AckInv, DeafInv
  <1>5. RestInv /\ PrefixInv
    BY <1>2 DEF Init, RestInv, PrefixInv
  <1>6. CopyInv /\ BufferInv /\ ShortInv /\ HandledInv
    BY <1>2 DEF Init, CopyInv, BufferInv, ShortInv, HandledInv, Sound
  <1> QED
    BY <1>1, <1>4, <1>5, <1>6 DEF HarmInv

\* What the terminal takes is one whole line, and the line stays open, as long as
\* no line came while another was being taken out: with any number of lines, of
\* both builds, wherever the event falls between the steps of serialHandler.
THEOREM HarmCorrect == Spec => []HarmNeedsExposure
  <1>1. Init => TypeOK /\ DmaInv /\ HarmInv
    BY TypeInit, HarmInit
  <1>2. TypeOK /\ DmaInv /\ HarmInv /\ [Next]_vars => TypeOK' /\ DmaInv' /\ HarmInv'
    <2> SUFFICES ASSUME TypeOK, DmaInv, HarmInv, [Next]_vars
                 PROVE  TypeOK' /\ DmaInv' /\ HarmInv'
      OBVIOUS
    <2>1. TypeOK' /\ DmaInv'
      BY TypeStep
    <2>2. PayloadInv'
      BY PayloadStep DEF HarmInv
    <2> QED
      BY <2>1, <2>2, FlagStep, RxStep, CopyStep, BufferStep, HandledStep DEF HarmInv
  <1>3. HarmInv => HarmNeedsExposure
    BY DEF HarmInv, FlagInv, DeafInv, HandledInv, WholeOrMixed, HarmNeedsExposure, Characters
  <1> QED
    BY <1>1, <1>2, <1>3, PTL DEF Spec

=============================================================================
