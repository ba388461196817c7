-------------------------- MODULE DataLogger_proofs --------------------------
(***************************************************************************)
(* The superloop implements RecordPipeline, for every period, timeout,     *)
(* clock width and number of records.  What HttpPost_proofs proves of the  *)
(* HTTP client holds in the superloop, whose steps are steps of HttpPost.  *)
(***************************************************************************)
EXTENDS DataLogger, SequenceTheorems, TLAPS

HttpP == INSTANCE HttpPost_proofs

-----------------------------------------------------------------------------
(* Every step of the superloop is a step of the HTTP client, or leaves it  *)
(* alone.                                                                  *)

\* The poll of the instance in DataLogger is that of the instance whose module
\* holds the proofs.
LEMMA SamePoll == Http!Poll <=> HttpP!Poll
  <1>1. \A c \in DOMAIN conns :
          /\ Http!OnConnect(c) <=> HttpP!OnConnect(c)
          /\ Http!OnWrite(c)   <=> HttpP!OnWrite(c)
          /\ Http!OnMessage(c) <=> HttpP!OnMessage(c)
          /\ Http!OnClose(c)   <=> HttpP!OnClose(c)
    BY DEF Http!OnConnect, HttpP!OnConnect, Http!OnWrite, HttpP!OnWrite,
           Http!OnMessage, HttpP!OnMessage, Http!OnClose, HttpP!OnClose,
           Http!Move, HttpP!Move, Http!Pending, HttpP!Pending
  <1> QED
    BY <1>1 DEF Http!Poll, HttpP!Poll, Http!managerVars, HttpP!managerVars

\* So are its other actions.
LEMMA SameActions ==
  /\ Http!RecordReady    <=> HttpP!RecordReady
  /\ Http!Tick           <=> HttpP!Tick
  /\ Http!StartPost      <=> HttpP!StartPost
  /\ Http!FinishPost     <=> HttpP!FinishPost
  /\ Http!ServerReceives <=> HttpP!ServerReceives
  <1> USE DEF Http!clientVars, HttpP!clientVars, Http!managerVars,
              HttpP!managerVars, Http!reportVars, HttpP!reportVars
  <1>1. Http!RecordReady <=> HttpP!RecordReady
    BY DEF Http!RecordReady, HttpP!RecordReady
  <1>2. Http!Tick <=> HttpP!Tick
    BY DEF Http!Tick, HttpP!Tick, Http!ClockMayAdvance, HttpP!ClockMayAdvance
  <1>3. Http!StartPost <=> HttpP!StartPost
    BY DEF Http!StartPost, HttpP!StartPost, Http!StartTimer, HttpP!StartTimer,
           Http!Connect, HttpP!Connect
  <1>4. Http!FinishPost <=> HttpP!FinishPost
    <2>1. (Http!PostSent \/ Http!PostTimedOut \/ Http!PostUndecided)
            <=> (HttpP!PostSent \/ HttpP!PostTimedOut \/ HttpP!PostUndecided)
      BY DEF Http!PostSent, HttpP!PostSent, Http!PostTimedOut,
             HttpP!PostTimedOut, Http!PostUndecided, HttpP!PostUndecided,
             Http!Elapsed, HttpP!Elapsed
    <2> QED
      BY <2>1, SamePoll DEF Http!FinishPost, HttpP!FinishPost
  <1>5. Http!ServerReceives <=> HttpP!ServerReceives
    BY DEF Http!ServerReceives, HttpP!ServerReceives, Http!Move, HttpP!Move
  <1> QED
    BY <1>1, <1>2, <1>3, <1>4, <1>5

\* The superloop starts with the client in its initial state.
LEMMA HttpInit == Init => HttpP!Init
  BY DEF Init, Http!Init, HttpP!Init

\* Every step of the superloop is a step of the client, or leaves it alone.
LEMMA HttpStep == [Next]_vars => [HttpP!Next]_(HttpP!vars)
  <1> SUFFICES ASSUME [Next]_vars
               PROVE  [HttpP!Next]_(HttpP!vars)
    OBVIOUS
  <1> USE DEF HttpP!Next
  <1>1. ASSUME UNCHANGED httpVars
        PROVE  UNCHANGED HttpP!vars
    BY <1>1 DEF httpVars, HttpP!vars, HttpP!clientVars, HttpP!managerVars,
                HttpP!reportVars
  <1>2. CASE SysTick
    BY <1>2, SameActions DEF SysTick
  <1>3. CASE Superloop
    BY <1>1, <1>3, SameActions
    DEF Superloop, ConfigurationTask, MeasurementTask, ClearMeasurementFlag,
        SkipMeasurement, LoggerTask, SkipLogger, NetworkTask,
        FinishNetworkTask, SkipNetwork
  <1>4. CASE Server
    BY <1>4, SameActions DEF Server
  <1>5. CASE UNCHANGED vars
    BY <1>1, <1>5 DEF vars
  <1> QED
    BY <1>2, <1>3, <1>4, <1>5 DEF Next

-----------------------------------------------------------------------------
(* The invariant.                                                          *)

\* The client's own invariant, whose turn it is, and what is in flight.
Inv ==
  /\ HttpP!TypeOK /\ HttpP!IInv
  /\ availableData \in BOOLEAN
  /\ TurnInv /\ LoggerFirst

\* The invariant holds when main() enters the superloop.
LEMMA InitInv == Init => Inv
  <1> SUFFICES ASSUME Init PROVE Inv
    OBVIOUS
  <1>1. HttpP!TypeOK /\ HttpP!IInv
    BY HttpInit, HttpP!InitTypes, HttpP!InitIInv, LoggerAssumption
  <1>2. polling = FALSE
    BY DEF Init, Http!Init
  <1> QED
    BY <1>1, <1>2 DEF Init, Inv, TurnInv, LoggerFirst

\* Whose turn it is changes with the superloop's own steps only.
LEMMA TurnStep == Inv /\ [Next]_vars => TurnInv'
  <1> SUFFICES ASSUME Inv, [Next]_vars PROVE TurnInv'
    OBVIOUS
  <1>1. /\ polling \in BOOLEAN /\ availableData \in BOOLEAN
        /\ availableData => loop \in {"clear flag", "logger"}
        /\ polling => loop = "network"
    BY DEF Inv, TurnInv, HttpP!TypeOK
  <1>2. ASSUME UNCHANGED <<polling, availableData, loop>>
        PROVE  TurnInv'
    BY <1>1, <1>2 DEF TurnInv
  <1>3. CASE SysTick \/ Server \/ UNCHANGED vars
    BY <1>2, <1>3 DEF SysTick, Http!Tick, Server, Http!ServerReceives, vars,
                      httpVars, loggerVars
  <1>4. CASE ConfigurationTask \/ SkipMeasurement \/ SkipLogger
    <2>1. /\ UNCHANGED <<polling, availableData>>
          /\ \/ loop = "configuration" \/ loop = "measurement"
             \/ ~availableData /\ loop = "logger"
      BY <1>4 DEF ConfigurationTask, SkipMeasurement, SkipLogger, httpVars,
                  loggerVars
    <2> QED
      BY <1>1, <2>1 DEF TurnInv
  <1>5. CASE MeasurementTask
    BY <1>5 DEF MeasurementTask, Http!RecordReady, TurnInv
  <1>6. CASE ClearMeasurementFlag
    BY <1>1, <1>6 DEF ClearMeasurementFlag, httpVars, loggerVars, TurnInv
  <1>7. CASE LoggerTask
    BY <1>1, <1>7 DEF LoggerTask, httpVars, TurnInv
  <1>8. CASE NetworkTask \/ FinishNetworkTask \/ SkipNetwork
    <2>1. loop = "network" /\ UNCHANGED availableData
      BY <1>8 DEF NetworkTask, FinishNetworkTask, SkipNetwork, loggerVars
    <2>2. loop' = "network" \/ polling' = FALSE
      BY <1>1, <1>8 DEF NetworkTask, FinishNetworkTask, SkipNetwork,
                        Http!FinishPost, httpVars
    <2> QED
      BY <1>1, <2>1, <2>2 DEF TurnInv
  <1> QED
    BY <1>3, <1>4, <1>5, <1>6, <1>7, <1>8 DEF Next, Superloop

\* What is in flight when a record is taken is older than that record, and
\* nothing new is put in flight before the logger has had its turn.
LEMMA LoggerFirstStep == Inv /\ [Next]_vars => LoggerFirst'
  <1> SUFFICES ASSUME Inv, [Next]_vars, availableData'
               PROVE  (\A c \in DOMAIN conns :
                         conns[c].state \in {"queued", "written"}
                           => conns[c].rec < mailbox)'
    BY DEF LoggerFirst
  <1>1. mailbox \in Nat
    BY DEF Inv, HttpP!TypeOK
  <1>2. CASE MeasurementTask
    <2>1. conns' = conns /\ mailbox' = mailbox + 1
      BY <1>2 DEF MeasurementTask, Http!RecordReady, Http!managerVars
    <2>2. \A c \in DOMAIN conns :
            conns[c].state \in {"queued", "written"} => conns[c].rec \in 1 .. mailbox
      BY DEF Inv, HttpP!IInv, HttpP!RequestsAreNew
    <2> QED
      BY <1>1, <2>1, <2>2
  <1>3. ASSUME UNCHANGED <<conns, mailbox, availableData>>
        PROVE  (\A c \in DOMAIN conns :
                  conns[c].state \in {"queued", "written"}
                    => conns[c].rec < mailbox)'
    BY <1>3 DEF Inv, LoggerFirst
  <1>4. CASE SysTick
    BY <1>3, <1>4 DEF SysTick, Http!Tick, Http!managerVars, loggerVars
  <1>5. CASE ConfigurationTask \/ ClearMeasurementFlag \/ SkipMeasurement
             \/ SkipLogger \/ SkipNetwork \/ UNCHANGED vars
    BY <1>3, <1>5 DEF ConfigurationTask, ClearMeasurementFlag, SkipMeasurement,
                      SkipLogger, SkipNetwork, httpVars, loggerVars, vars
  <1>6. CASE LoggerTask
    BY <1>6 DEF LoggerTask
  <1>7. CASE NetworkTask \/ FinishNetworkTask
    BY <1>7 DEF NetworkTask, FinishNetworkTask, loggerVars, Inv, TurnInv
  <1>8. CASE Server
    <2>1. availableData /\ mailbox' = mailbox
      BY <1>8 DEF Server, loggerVars, Http!ServerReceives
    <2>2. PICK c \in DOMAIN conns :
            conns[c].state = "written" /\ HttpP!Move(c, "received", conns[c].rec)
      BY <1>8, SameActions DEF Server, HttpP!ServerReceives
    <2>3. \A d \in DOMAIN conns' :
            conns'[d].state \in {"queued", "written"} => conns'[d] = conns[d]
      <3>1. "received" \in HttpP!ConnState /\ conns[c].rec \in Nat
        BY HttpP!Connections, LoggerAssumption
        DEF Inv, HttpP!ConnState, HttpP!Pending
      <3>2. /\ DOMAIN conns' = DOMAIN conns /\ conns'[c].state = "received"
            /\ \A d \in DOMAIN conns : d # c => conns'[d] = conns[d]
        BY <2>2, <3>1, HttpP!MoveProperties, LoggerAssumption DEF Inv
      <3> QED
        BY <3>2
    <2>4. DOMAIN conns' = DOMAIN conns
      BY <2>2 DEF HttpP!Move
    <2> QED
      BY <2>1, <2>3, <2>4 DEF Inv, LoggerFirst
  <1> QED
    BY <1>2, <1>4, <1>5, <1>6, <1>7, <1>8 DEF Next, Superloop

\* No step of the superloop, the tick or the server breaks the invariant.
LEMMA InvStep == Inv /\ [Next]_vars => Inv'
  <1> SUFFICES ASSUME Inv, [Next]_vars PROVE Inv'
    OBVIOUS
  <1>1. HttpP!TypeOK' /\ HttpP!IInv'
    BY HttpStep, HttpP!TypeStep, HttpP!IInvStep, LoggerAssumption DEF Inv, HttpP!IInv
  <1>2. availableData' \in BOOLEAN
    BY DEF Inv, Next, SysTick, Superloop, ConfigurationTask, MeasurementTask,
           ClearMeasurementFlag, SkipMeasurement, LoggerTask, SkipLogger,
           NetworkTask, FinishNetworkTask, SkipNetwork, Server, loggerVars, vars
  <1> QED
    BY <1>1, <1>2, TurnStep, LoggerFirstStep DEF Inv

\* Whose turn it is, what a POST has to send and what is in flight fit
\* together in every state of the superloop.
THEOREM InvCorrect == Spec => []Inv
  BY InitInv, InvStep, PTL DEF Spec

\* Nothing in flight carries a record before the logger has handled it.
THEOREM LoggerFirstCorrect == Spec => []LoggerFirst
  <1>1. Inv => LoggerFirst
    BY DEF Inv
  <1> QED
    BY <1>1, InvCorrect, PTL

\* One unanswered connection and the order at the server, in the superloop.
THEOREM ClientCorrect == Spec => [](Http!OneOutstanding /\ Http!ServerInOrder)
  <1>1. Inv => Http!OneOutstanding /\ Http!ServerInOrder
    BY DEF Inv, HttpP!IInv, HttpP!OneOutstanding, Http!OneOutstanding,
           HttpP!ServerInOrder, Http!ServerInOrder, HttpP!Pending, Http!Pending
  <1> QED
    BY <1>1, InvCorrect, PTL

-----------------------------------------------------------------------------
(* The refinement.                                                         *)

\* The superloop starts as the pipeline does, with nothing taken.
LEMMA PipelineInit == Init => Pipeline!Init
  BY DEF Init, Http!Init, Pipeline!Init

\* Measuring is Take, the logger's turn is Handle, the server's receipt is
\* Serve; every other step stutters.
LEMMA PipelineStep == Inv /\ [Next]_vars => [Pipeline!Next]_(Pipeline!vars)
  <1> SUFFICES ASSUME Inv, [Next]_vars
               PROVE  [Pipeline!Next]_(Pipeline!vars)
    OBVIOUS
  <1>1. ASSUME UNCHANGED <<mailbox, availableData, log, server>>
        PROVE  UNCHANGED Pipeline!vars
    BY <1>1 DEF Pipeline!vars
  <1>2. CASE SysTick
    BY <1>1, <1>2 DEF SysTick, Http!Tick, loggerVars
  <1>3. CASE ConfigurationTask \/ ClearMeasurementFlag \/ SkipMeasurement
             \/ SkipLogger \/ SkipNetwork \/ UNCHANGED vars
    BY <1>1, <1>3 DEF ConfigurationTask, ClearMeasurementFlag, SkipMeasurement,
                      SkipLogger, SkipNetwork, httpVars, loggerVars, vars
  <1>4. CASE NetworkTask \/ FinishNetworkTask
    BY <1>1, <1>4 DEF NetworkTask, FinishNetworkTask, Http!StartPost,
                      Http!FinishPost, loggerVars
  <1>5. CASE MeasurementTask
    <2>1. Pipeline!Take
      BY <1>5 DEF MeasurementTask, Http!RecordReady, Pipeline!Take, Inv, TurnInv
    <2> QED
      BY <2>1 DEF Pipeline!Next
  <1>6. CASE LoggerTask
    <2>1. /\ availableData /\ availableData' = FALSE
          /\ UNCHANGED <<mailbox, server>>
      BY <1>6 DEF LoggerTask, httpVars
    <2>2. \/ \E whole \in BOOLEAN : log' = Append(log, [rec |-> mailbox, whole |-> whole])
          \/ UNCHANGED log
      <3>1. HandleRecord
        BY <1>6 DEF LoggerTask
      <3>2. CASE AppendLine
        BY <3>2 DEF AppendLine, WriteLine
      <3>3. CASE CreateLog
        BY <3>3 DEF CreateLog, WriteLine
      <3> QED
        BY <3>1, <3>2, <3>3 DEF HandleRecord
    <2>3. Pipeline!Handle
      BY <2>1, <2>2 DEF Pipeline!Handle
    <2> QED
      BY <2>3 DEF Pipeline!Next
  <1>7. CASE Server
    <2>1. PICK c \in DOMAIN conns :
            /\ conns[c].state = "written"
            /\ server' = Append(server, conns[c].rec)
      BY <1>7 DEF Server, Http!ServerReceives
    <2>2. UNCHANGED <<mailbox, availableData, log>>
      BY <1>7 DEF Server, Http!ServerReceives, loggerVars
    <2>3. /\ conns[c].rec \in 1 .. mailbox
          /\ \A i \in DOMAIN server : server[i] < conns[c].rec
      BY <2>1 DEF Inv, HttpP!IInv, HttpP!RequestsAreNew, HttpP!NewerThanServer
    <2>4. availableData => conns[c].rec < mailbox
      BY <2>1 DEF Inv, LoggerFirst
    <2>5. Pipeline!Serve
      BY <2>1, <2>2, <2>3, <2>4 DEF Pipeline!Serve
    <2> QED
      BY <2>5 DEF Pipeline!Next
  <1> QED
    BY <1>2, <1>3, <1>4, <1>5, <1>6, <1>7 DEF Next, Superloop

\* The superloop and its interrupt, the logger and the client together do what
\* RecordPipeline promises of the records.
THEOREM Refinement == Spec => PipelineSpec
  <1>1. Init => Pipeline!Init
    BY PipelineInit
  <1>2. Inv /\ [Next]_vars => [Pipeline!Next]_(Pipeline!vars)
    BY PipelineStep
  <1> QED
    BY <1>1, <1>2, InvCorrect, PTL DEF Spec, PipelineSpec, Pipeline!Spec

-----------------------------------------------------------------------------
(* Types.                                                                  *)

\* The client's types, in the superloop's own instance of it.
LEMMA SameTypes == Inv => Http!TypeOK
  BY DEF Inv, HttpP!TypeOK, Http!TypeOK, HttpP!Connection, Http!Connection,
         HttpP!ConnState, Http!ConnState, HttpP!Pending, Http!Pending

\* The types of the superloop's own variables.
LoopTypes ==
  /\ loop \in Tasks /\ spent \in 0 .. LoopTicks
  /\ runMeasurementTask \in {0, 1}
  /\ fileCreationPeriod \in FileCreationPeriods
  /\ log \in Seq([rec : Nat, whole : BOOLEAN])
  /\ unlogged \subseteq Nat

\* One write leaves lines of a record and whether it is whole.
LEMMA WriteLineTypes ==
  ASSUME mailbox \in Nat, unlogged \subseteq Nat,
         NEW lines \in Seq([rec : Nat, whole : BOOLEAN]), WriteLine(lines)
  PROVE  log' \in Seq([rec : Nat, whole : BOOLEAN]) /\ unlogged' \subseteq Nat
  <1>1. /\ [rec |-> mailbox, whole |-> TRUE] \in [rec : Nat, whole : BOOLEAN]
        /\ [rec |-> mailbox, whole |-> FALSE] \in [rec : Nat, whole : BOOLEAN]
    OBVIOUS
  <1>2. ASSUME NEW Lines, lines \in Seq(Lines),
               NEW a \in Lines, NEW b \in Lines,
               log' = Append(lines, a) \/ log' = Append(lines, b) \/ log' = lines
        PROVE  log' \in Seq(Lines)
    BY <1>2, AppendProperties
  <1>3. log' \in Seq([rec : Nat, whole : BOOLEAN])
    BY <1>1, <1>2 DEF WriteLine
  <1>4. unlogged' \subseteq Nat
    BY DEF WriteLine, Unlogged
  <1> QED
    BY <1>3, <1>4

\* Every step keeps the types of the superloop's own variables.
LEMMA LoopTypesStep == Inv /\ LoopTypes /\ [Next]_vars => LoopTypes'
  <1> SUFFICES ASSUME Inv, LoopTypes, [Next]_vars PROVE LoopTypes'
    OBVIOUS
  <1> USE DEF loggerVars
  <1>1. mailbox \in Nat
    BY DEF Inv, HttpP!TypeOK
  <1>2. CASE SysTick
    BY <1>2, LoggerAssumption DEF SysTick, LoopTypes
  <1>3. CASE LoggerTask
    <2>1. <<>> \in Seq([rec : Nat, whole : BOOLEAN])
      BY EmptySeq
    <2>2. log' \in Seq([rec : Nat, whole : BOOLEAN]) /\ unlogged' \subseteq Nat
      BY <1>1, <1>3, <2>1, WriteLineTypes
      DEF LoggerTask, HandleRecord, AppendLine, CreateLog, Unlogged, LoopTypes
    <2> QED
      BY <1>3, <2>2 DEF LoggerTask, LoopTypes, Tasks
  <1>4. CASE Superloop /\ ~LoggerTask
    <2>1. UNCHANGED <<log, unlogged>>
      BY <1>4
      DEF Superloop, ConfigurationTask, MeasurementTask, ClearMeasurementFlag,
          SkipMeasurement, SkipLogger, NetworkTask, FinishNetworkTask, SkipNetwork
    <2>2. /\ loop' \in Tasks /\ spent' \in {0, spent}
          /\ runMeasurementTask' \in {0, runMeasurementTask}
          /\ fileCreationPeriod' \in FileCreationPeriods
      BY <1>4
      DEF Superloop, ConfigurationTask, MeasurementTask, ClearMeasurementFlag,
          SkipMeasurement, SkipLogger, NetworkTask, FinishNetworkTask, SkipNetwork,
          EndPass, LoopTypes, Tasks
    <2> QED
      BY <2>1, <2>2, LoggerAssumption DEF LoopTypes
  <1>5. CASE Server \/ UNCHANGED vars
    BY <1>5 DEF Server, vars, LoopTypes
  <1> QED
    BY <1>2, <1>3, <1>4, <1>5 DEF Next

\* Every reachable state of the superloop is of its type.
THEOREM TypeCorrect == Spec => []TypeOK
  <1>1. Init => Inv /\ LoopTypes
    <2>1. <<>> \in Seq([rec : Nat, whole : BOOLEAN])
      BY EmptySeq
    <2> QED
      BY <2>1, InitInv, LoggerAssumption DEF Init, LoopTypes, Tasks
  <1>2. Inv /\ LoopTypes /\ [Next]_vars => Inv' /\ LoopTypes'
    BY InvStep, LoopTypesStep
  <1>3. Inv /\ LoopTypes => TypeOK
    BY SameTypes DEF Inv, LoopTypes, TypeOK
  <1> QED
    BY <1>1, <1>2, <1>3, PTL DEF Spec

-----------------------------------------------------------------------------
(* Time: a POST is over before the next period begins.                     *)

\* What a period has to leave room for: the pass that takes the record, the
\* timeout with the pass that notices it, and the pass the flag is raised in.
Span == Timeout + 3 * LoopTicks

\* Every period lasts that long, the one that the wrap of the counter cuts
\* short included.
LongPeriods ==
  Period >= Span /\ (TickModulus % Period = 0 \/ TickModulus % Period >= Span)

\* Ticks since the last period began; no more than two passes ago, or one.
Since   == ticks % Period
ThisOrLastPass == Since < spent + LoopTicks \/ Since <= spent

\* A flag that is still up was raised in this pass, or late in the last.
DueInv ==
  /\ runMeasurementTask = 1 => ThisOrLastPass
  /\ runMeasurementTask = 1 /\ loop \in {"logger", "network"} => Since < spent

\* A POST is not much older than its timeout, and its period than that.
YoungPost ==
  /\ Http!Elapsed <= Timeout + spent
  /\ Since < Http!Elapsed + 2 * LoopTicks \/ Since <= Http!Elapsed

\* A POST that has begun did so soon after its period, and is not much older
\* than its timeout; one that has not waits for networkTask in the pass that
\* took its record.
PostInv ==
  /\ ~clientFirstCall => availableDataFlag
  /\ availableDataFlag /\ clientFirstCall =>
       loop \in {"clear flag", "logger", "network"} /\ ~polling /\ ThisOrLastPass
  /\ ~clientFirstCall => YoungPost
  /\ availableDataFlag /\ runMeasurementTask = 1 => loop = "clear flag"

\* The invariant the times add to the others.
TimeInv == Inv /\ LoopTypes /\ DueInv /\ PostInv

\* A remainder is what is left of a multiple.
LEMMA Remainder ==
  ASSUME NEW m \in Nat \ {0}, NEW q \in Nat, NEW r \in Nat, r < m
  PROVE  (q * m + r) % m = r
  OBVIOUS

\* The remainder of the next number.
LEMMA NextRemainder ==
  ASSUME NEW m \in Nat \ {0}, NEW n \in Nat
  PROVE  (n + 1) % m = IF (n % m) + 1 = m THEN 0 ELSE (n % m) + 1
<1> DEFINE q == n \div m
           r == n % m
<1>1. r \in Nat /\ r < m /\ n = m * q + r /\ q \in Nat
  OBVIOUS
<1> HIDE DEF q, r
<1>2. CASE r + 1 = m
  <2>1. n + 1 = (q + 1) * m + 0 /\ q + 1 \in Nat /\ 0 \in Nat /\ 0 < m
    BY <1>1, <1>2
  <2>2. (n + 1) % m = 0
    BY <2>1, Remainder
  <2> QED
    BY <1>2, <2>2 DEF r
<1>3. CASE r + 1 # m
  <2>1. n + 1 = q * m + (r + 1) /\ r + 1 \in Nat /\ r + 1 < m
    BY <1>1, <1>3
  <2>2. (n + 1) % m = r + 1
    BY <1>1, <2>1, Remainder
  <2> QED
    BY <1>3, <2>2 DEF r
<1> QED
  BY <1>2, <1>3

\* A tick is one more since the period began, unless it begins the next one,
\* which is not before the period has lasted its span.
LEMMA TickSince ==
  ASSUME LongPeriods, ticks \in 0 .. TickModulus - 1, Http!Tick
  PROVE  /\ Since \in Nat
         /\ Since' = IF PeriodElapsed THEN 0 ELSE Since + 1
         /\ PeriodElapsed => Since + 1 >= Span
<1>0. /\ ticks' = (ticks + 1) % TickModulus
      /\ ticks \in Nat /\ ticks < TickModulus /\ TickModulus \in Nat \ {0} /\ Period \in Nat \ {0}
      /\ Span \in Nat
  BY LoggerAssumption DEF Http!Tick, Span
<1>1. Since \in 0 .. Period - 1
  BY <1>0 DEF Since
<1>2. (ticks + 1) % Period = IF Since + 1 = Period THEN 0 ELSE Since + 1
  BY <1>0, NextRemainder DEF Since
<1>3. CASE ticks + 1 < TickModulus
  <2>1. ticks' = ticks + 1
    BY <1>0, <1>3
  <2>2. Since' = (ticks + 1) % Period /\ (PeriodElapsed <=> Since' = 0)
    BY <2>1 DEF Since, PeriodElapsed
  <2> QED
    BY <1>0, <1>1, <1>2, <2>2 DEF LongPeriods
<1>4. CASE ticks + 1 = TickModulus
  <2>1. ticks' = 0
    BY <1>0, <1>4
  <2>2. Since' = 0 /\ PeriodElapsed
    BY <1>0, <2>1 DEF Since, PeriodElapsed
  <2>3. TickModulus % Period = IF Since + 1 = Period THEN 0 ELSE Since + 1
    BY <1>2, <1>4
  <2> QED
    BY <1>0, <1>1, <2>2, <2>3 DEF LongPeriods
<1> QED
  BY <1>0, <1>3, <1>4

\* Nor does the counter go all the way round during a POST.
LEMMA TickElapsed ==
  ASSUME ticks \in 0 .. TickModulus - 1, connTimer \in 0 .. TickModulus - 1, Http!Tick
  PROVE  /\ Http!Elapsed \in Nat
         /\ ~clientFirstCall => Http!Elapsed' = Http!Elapsed + 1
<1>0. /\ ticks' = (ticks + 1) % TickModulus /\ connTimer' = connTimer
      /\ ticks \in Nat /\ connTimer \in Nat /\ ticks < TickModulus /\ connTimer < TickModulus
      /\ TickModulus \in Nat \ {0}
      /\ ~clientFirstCall => ticks' # connTimer
  BY LoggerAssumption DEF Http!Tick, Http!ClockMayAdvance, Http!clientVars
<1>1. ticks' = IF ticks + 1 = TickModulus THEN 0 ELSE ticks + 1
  BY <1>0
<1>2. ASSUME NEW a \in 0 .. TickModulus - 1, NEW b \in 0 .. TickModulus - 1
      PROVE  (a - b) % TickModulus = IF a < b THEN a - b + TickModulus ELSE a - b
  BY <1>0
<1>3. ticks' \in 0 .. TickModulus - 1
  BY <1>0, <1>1
<1> QED
  BY <1>0, <1>1, <1>2, <1>3 DEF Http!Elapsed

\* What a tick does in a pass, and what it leaves alone.
LEMMA TickPass ==
  ASSUME LongPeriods, TimeInv, SysTick
  PROVE  /\ Since \in Nat /\ LoopTicks \in Nat /\ Timeout \in Nat
         /\ spent \in Nat /\ spent < LoopTicks /\ spent' = spent + 1
         /\ Since' = IF PeriodElapsed THEN 0 ELSE Since + 1
         /\ PeriodElapsed => Since + 1 >= Timeout + 3 * LoopTicks
         /\ runMeasurementTask' = IF PeriodElapsed THEN 1 ELSE runMeasurementTask
         /\ Http!Elapsed \in Nat
         /\ ~clientFirstCall => Http!Elapsed' = Http!Elapsed + 1
         /\ UNCHANGED <<loop, availableDataFlag, clientFirstCall, polling>>
<1>1. ticks \in 0 .. TickModulus - 1 /\ connTimer \in 0 .. TickModulus - 1 /\ spent \in 0 .. LoopTicks
  BY DEF TimeInv, Inv, HttpP!TypeOK, LoopTypes
<1>2. /\ Http!Tick /\ spent < LoopTicks /\ spent' = spent + 1 /\ UNCHANGED loop
      /\ runMeasurementTask' = IF PeriodElapsed THEN 1 ELSE runMeasurementTask
  BY DEF SysTick
<1>3. UNCHANGED <<availableDataFlag, clientFirstCall, polling>>
  BY <1>2 DEF Http!Tick, Http!clientVars
<1>4. LoopTicks \in Nat /\ Timeout \in Nat
  BY LoggerAssumption
<1> QED
  BY <1>1, <1>2, <1>3, <1>4, TickSince, TickElapsed DEF Span

\* No period begins while a POST is on, or while a measurement is due: the
\* flag is down then, and no record is waiting.
LEMMA NothingWaits ==
  ASSUME LongPeriods, TimeInv, SysTick, PeriodElapsed
  PROVE  runMeasurementTask = 0 /\ ~availableDataFlag /\ clientFirstCall
<1>0. /\ DueInv /\ PostInv /\ runMeasurementTask \in {0, 1}
      /\ availableDataFlag \in BOOLEAN /\ clientFirstCall \in BOOLEAN
  BY DEF TimeInv, LoopTypes, Inv, HttpP!TypeOK
<1> DEFINE e == Http!Elapsed
<1>1. /\ Since \in Nat /\ LoopTicks \in Nat /\ Timeout \in Nat /\ spent \in Nat
      /\ spent < LoopTicks /\ Since + 1 >= Timeout + 3 * LoopTicks /\ e \in Nat
  BY TickPass
<1> HIDE DEF e
<1>2. ~ThisOrLastPass
  BY <1>1 DEF ThisOrLastPass
<1>3. ~YoungPost
  <2>1. ~(e <= Timeout + spent /\ (Since < e + 2 * LoopTicks \/ Since <= e))
    BY <1>1
  <2> QED
    BY <2>1 DEF YoungPost, e
<1>4. clientFirstCall /\ ~availableDataFlag
  BY <1>0, <1>2, <1>3, Zenon DEF PostInv
<1>5. runMeasurementTask = 0
  BY <1>0, <1>2 DEF DueInv
<1> QED
  BY <1>4, <1>5

\* A tick keeps what is said of the flag: it raises it anew, or passes.
LEMMA DueTick ==
  ASSUME LongPeriods, TimeInv, SysTick
  PROVE  DueInv'
<1>0. DueInv
  BY DEF TimeInv
<1>1. /\ Since \in Nat /\ LoopTicks \in Nat /\ spent \in Nat
      /\ spent' = spent + 1 /\ Since' = IF PeriodElapsed THEN 0 ELSE Since + 1
      /\ runMeasurementTask' = IF PeriodElapsed THEN 1 ELSE runMeasurementTask
      /\ loop' = loop
  BY TickPass
<1>2. CASE PeriodElapsed
  BY <1>1, <1>2 DEF DueInv, ThisOrLastPass
<1>3. CASE ~PeriodElapsed
  BY <1>0, <1>1, <1>3 DEF DueInv, ThisOrLastPass
<1> QED
  BY <1>2, <1>3

\* A tick keeps what is said of the POST, which ages by it.
LEMMA PostTick ==
  ASSUME LongPeriods, TimeInv, SysTick
  PROVE  PostInv'
<1>0. PostInv /\ availableDataFlag \in BOOLEAN /\ clientFirstCall \in BOOLEAN
  BY DEF TimeInv, Inv, HttpP!TypeOK
<1> DEFINE e == Http!Elapsed
<1>1. /\ Since \in Nat /\ LoopTicks \in Nat /\ Timeout \in Nat /\ spent \in Nat /\ e \in Nat
      /\ spent' = spent + 1 /\ Since' = IF PeriodElapsed THEN 0 ELSE Since + 1
      /\ runMeasurementTask' = IF PeriodElapsed THEN 1 ELSE runMeasurementTask
      /\ ~clientFirstCall => e' = e + 1
      /\ loop' = loop /\ availableDataFlag' = availableDataFlag
      /\ clientFirstCall' = clientFirstCall /\ polling' = polling
  BY TickPass
<1>2. CASE PeriodElapsed
  <2>1. ~availableDataFlag /\ clientFirstCall
    BY <1>2, NothingWaits
  <2> QED
    BY <1>1, <2>1, Zenon DEF PostInv
<1>3. CASE ~PeriodElapsed
  <2>1. Since' = Since + 1 /\ spent' = spent + 1 /\ runMeasurementTask' = runMeasurementTask
    BY <1>1, <1>3
  <2>2. ThisOrLastPass => ThisOrLastPass'
    BY <1>1, <2>1 DEF ThisOrLastPass
  <2>3. ASSUME ~clientFirstCall, YoungPost PROVE YoungPost'
    <3>1. e' = e + 1 /\ e <= Timeout + spent /\ (Since < e + 2 * LoopTicks \/ Since <= e)
      BY <1>1, <2>3 DEF YoungPost
    <3>2. e' <= Timeout + spent' /\ (Since' < e' + 2 * LoopTicks \/ Since' <= e')
      <4> HIDE DEF e
      <4> QED
        BY <1>1, <2>1, <3>1
    <3> QED
      BY <3>2 DEF YoungPost
  <2> HIDE DEF e
  <2> QED
    BY <1>0, <1>1, <2>1, <2>2, <2>3, Zenon DEF PostInv
<1> QED
  BY <1>2, <1>3

\* The steps of the superloop: time stands still in them.
LEMMA StandsStill ==
  ASSUME Superloop \/ Server \/ UNCHANGED vars
  PROVE  ticks' = ticks /\ Since' = Since
<1>1. ticks' = ticks
  <2>1. CASE MeasurementTask \/ NetworkTask \/ FinishNetworkTask \/ Server
    BY <2>1, Zenon
    DEF MeasurementTask, NetworkTask, FinishNetworkTask, Server, Http!RecordReady,
        Http!StartPost, Http!FinishPost, Http!ServerReceives
  <2>2. CASE UNCHANGED httpVars
    BY <2>2, Zenon DEF httpVars
  <2> QED
    BY <2>1, <2>2, Zenon
    DEF Superloop, ConfigurationTask, ClearMeasurementFlag, SkipMeasurement, LoggerTask,
        SkipLogger, SkipNetwork, vars
<1> QED
  BY <1>1 DEF Since

\* The tasks keep what is said of the flag: only the measurement lowers it.
LEMMA DueLoop ==
  ASSUME TimeInv, Superloop \/ Server \/ UNCHANGED vars
  PROVE  DueInv'
<1>0. /\ DueInv /\ Since' = Since /\ Since \in Nat /\ LoopTicks \in Nat /\ spent \in 0 .. LoopTicks
      /\ runMeasurementTask \in {0, 1}
  BY StandsStill, LoggerAssumption DEF TimeInv, Inv, HttpP!TypeOK, LoopTypes, Since
<1>1. ASSUME spent' = spent, runMeasurementTask' = runMeasurementTask,
             \/ loop' \notin {"logger", "network"} \/ loop \in {"logger", "network"}
             \/ loop' = loop \/ runMeasurementTask # 1
      PROVE  DueInv'
  BY <1>0, <1>1 DEF DueInv, ThisOrLastPass
<1>2. CASE runMeasurementTask' = 0
  BY <1>2 DEF DueInv
<1>3. CASE EndPass /\ loop = "network" /\ UNCHANGED runMeasurementTask
  BY <1>0, <1>3 DEF DueInv, ThisOrLastPass, EndPass
<1>4. CASE ConfigurationTask \/ MeasurementTask \/ SkipMeasurement \/ LoggerTask \/ SkipLogger
           \/ NetworkTask \/ Server \/ UNCHANGED vars
  <2>1. UNCHANGED <<spent, runMeasurementTask>>
    BY <1>4, Zenon DEF ConfigurationTask, MeasurementTask, SkipMeasurement, LoggerTask, SkipLogger,
                NetworkTask, Server, vars
  <2>2. \/ loop' \notin {"logger", "network"} \/ loop \in {"logger", "network"}
        \/ loop' = loop \/ runMeasurementTask # 1
    BY <1>4, Zenon DEF ConfigurationTask, MeasurementTask, SkipMeasurement, LoggerTask, SkipLogger,
                NetworkTask, Server, vars
  <2> QED
    BY <1>1, <2>1, <2>2
<1>5. CASE ClearMeasurementFlag
  BY <1>2, <1>5, Zenon DEF ClearMeasurementFlag
<1>6. CASE FinishNetworkTask \/ SkipNetwork
  BY <1>3, <1>6 DEF FinishNetworkTask, SkipNetwork
<1> QED
  BY <1>4, <1>5, <1>6 DEF Superloop

\* How long ago the period and the POST began, where no time passes.
LEMMA AgesStay ==
  ASSUME ticks' = ticks, spent' = spent
  PROVE  /\ Since' = Since /\ (ThisOrLastPass => ThisOrLastPass')
         /\ connTimer' = connTimer /\ YoungPost => YoungPost'
  BY DEF ThisOrLastPass, YoungPost, Since, Http!Elapsed

\* The POST stays what it is, wherever the pass goes on.
LEMMA PostStays ==
  ASSUME PostInv, ticks' = ticks, connTimer' = connTimer, spent' = spent,
         availableDataFlag' = availableDataFlag, clientFirstCall' = clientFirstCall,
         polling' = polling,
         availableDataFlag /\ clientFirstCall =>
           loop' \in {"clear flag", "logger", "network"} \/ loop' = loop,
         availableDataFlag /\ runMeasurementTask' = 1 =>
           runMeasurementTask = 1 /\ (loop' = loop \/ loop # "clear flag")
  PROVE  PostInv'
<1>1. (ThisOrLastPass => ThisOrLastPass') /\ (YoungPost => YoungPost')
  BY AgesStay, Zenon
<1> QED
  BY <1>1, Zenon DEF PostInv

\* The steps outside networkTask and the measurement.
LEMMA PostQuiet ==
  ASSUME TimeInv,
         \/ ConfigurationTask \/ ClearMeasurementFlag \/ SkipMeasurement \/ LoggerTask
         \/ SkipLogger \/ Server \/ UNCHANGED vars
  PROVE  PostInv'
<1>0. PostInv
  BY DEF TimeInv
<1>1. ticks' = ticks
  BY StandsStill, Zenon DEF Superloop
<1>2. /\ connTimer' = connTimer /\ spent' = spent
      /\ availableDataFlag' = availableDataFlag /\ clientFirstCall' = clientFirstCall
      /\ polling' = polling
  <2>1. CASE Server
    BY <2>1, Zenon DEF Server, Http!ServerReceives, Http!clientVars
  <2>2. CASE UNCHANGED httpVars /\ UNCHANGED spent
    BY <2>2, Zenon DEF httpVars
  <2> QED
    BY <2>1, <2>2, Zenon
    DEF ConfigurationTask, ClearMeasurementFlag, SkipMeasurement, LoggerTask, SkipLogger, vars
<1>3. availableDataFlag /\ clientFirstCall =>
        loop' \in {"clear flag", "logger", "network"} \/ loop' = loop
  <2>1. CASE ConfigurationTask
    BY <1>0, <2>1, Zenon DEF ConfigurationTask, PostInv
  <2> QED
    BY <2>1, Zenon
    DEF ClearMeasurementFlag, SkipMeasurement, LoggerTask, SkipLogger, Server, vars
<1>4. availableDataFlag /\ runMeasurementTask' = 1 =>
        runMeasurementTask = 1 /\ (loop' = loop \/ loop # "clear flag")
  <2>1. CASE ClearMeasurementFlag
    <3>1. runMeasurementTask' # 1
      <4>1. runMeasurementTask' = 0
        BY <2>1, Zenon DEF ClearMeasurementFlag
      <4> QED
        BY <4>1
    <3> QED
      BY <3>1, Zenon
  <2> QED
    BY <2>1, Zenon
    DEF ConfigurationTask, SkipMeasurement, LoggerTask, SkipLogger, Server, vars
<1> QED
  BY <1>0, <1>1, <1>2, <1>3, <1>4, PostStays, Zenon

\* A record is taken: no POST is on, and the flag was raised a pass ago at most.
LEMMA PostTaken ==
  ASSUME TimeInv, MeasurementTask
  PROVE  PostInv'
<1>1. PostInv /\ DueInv
  BY DEF TimeInv
<1>2. /\ loop = "measurement" /\ runMeasurementTask = 1 /\ loop' = "clear flag"
      /\ Http!RecordReady /\ spent' = spent /\ runMeasurementTask' = runMeasurementTask
  BY Zenon DEF MeasurementTask
<1>3. ~availableDataFlag /\ clientFirstCall
  BY <1>1, <1>2, Zenon DEF PostInv
<1>4. /\ ~polling /\ polling' = polling /\ ticks' = ticks
      /\ clientFirstCall' = clientFirstCall /\ availableDataFlag'
  BY <1>2, Zenon DEF Http!RecordReady
<1>5. ThisOrLastPass'
  BY <1>1, <1>2, <1>4, AgesStay, Zenon DEF DueInv
<1> QED
  BY <1>2, <1>3, <1>4, <1>5, Zenon DEF PostInv

\* networkTask starts the timer at the first call of a POST.
LEMMA PostStarts ==
  ASSUME TimeInv, NetworkTask
  PROVE  PostInv'
<1>1. /\ PostInv /\ ticks \in Nat /\ spent \in Nat /\ spent <= LoopTicks /\ LoopTicks \in Nat
      /\ Timeout \in Nat /\ TickModulus \in Nat \ {0} /\ Period \in Nat \ {0}
  BY LoggerAssumption DEF TimeInv, Inv, HttpP!TypeOK, LoopTypes
<1>2. /\ loop = "network" /\ loop' = loop /\ Http!StartPost /\ spent' = spent
      /\ runMeasurementTask' = runMeasurementTask
  BY Zenon DEF NetworkTask
<1>3. /\ availableDataFlag /\ availableDataFlag' = availableDataFlag /\ ticks' = ticks
      /\ connTimer' = (IF clientFirstCall THEN ticks ELSE connTimer) /\ ~clientFirstCall'
  BY <1>2, Zenon DEF Http!StartPost, Http!StartTimer
<1>4. YoungPost'
  <2>1. CASE clientFirstCall
    <3>1. ThisOrLastPass /\ connTimer' = ticks
      BY <1>1, <1>3, <2>1, Zenon DEF PostInv
    <3>2. Http!Elapsed' = 0
      <4>1. ticks' - connTimer' = 0
        BY <1>1, <1>3, <3>1
      <4> QED
        BY <1>1, <4>1 DEF Http!Elapsed
    <3>3. Since' = Since /\ Since \in Nat
      BY <1>1, <1>3 DEF Since
    <3>4. Since < spent + LoopTicks \/ Since <= spent
      BY <3>1 DEF ThisOrLastPass
    <3>5. Since' < Http!Elapsed' + 2 * LoopTicks \/ Since' <= Http!Elapsed'
      BY <1>1, <3>2, <3>3, <3>4
    <3> QED
      BY <1>1, <1>2, <3>2, <3>5 DEF YoungPost
  <2>2. CASE ~clientFirstCall
    <3>1. YoungPost /\ connTimer' = connTimer
      BY <1>1, <1>3, <2>2, Zenon DEF PostInv
    <3> QED
      BY <1>2, <1>3, <3>1 DEF YoungPost, Since, Http!Elapsed
  <2> QED
    BY <2>1, <2>2, Zenon
<1> QED
  BY <1>1, <1>2, <1>3, <1>4, Zenon DEF PostInv

\* A call that leaves the POST undecided found it no older than its timeout.
LEMMA PostGoesOn ==
  ASSUME TimeInv, FinishNetworkTask
  PROVE  PostInv'
<1>1. PostInv /\ (polling => availableDataFlag)
  BY DEF TimeInv, Inv, HttpP!IInv, HttpP!PostHasRecord
<1>2. /\ loop = "network" /\ loop' = "configuration" /\ spent' = 0
      /\ Http!FinishPost /\ runMeasurementTask' = runMeasurementTask
  BY Zenon DEF FinishNetworkTask, EndPass
<1>3. polling /\ ticks' = ticks /\ connTimer' = connTimer
  BY <1>2, Zenon DEF Http!FinishPost
<1>4. ~clientFirstCall /\ YoungPost /\ availableDataFlag
  BY <1>1, <1>3, Zenon DEF PostInv
<1>5. CASE clientFirstCall' /\ ~availableDataFlag'
  BY <1>5, Zenon DEF PostInv
<1>6. CASE /\ clientFirstCall' = clientFirstCall /\ availableDataFlag' = availableDataFlag
           /\ Http!Elapsed <= Timeout
  <2>1. YoungPost'
    <3>1. Http!Elapsed' = Http!Elapsed /\ Since' = Since
      BY <1>3 DEF Http!Elapsed, Since
    <3>2. Timeout + 0 = Timeout
      BY LoggerAssumption
    <3> QED
      BY <1>2, <1>4, <1>6, <3>1, <3>2 DEF YoungPost
  <2> QED
    BY <1>1, <1>2, <1>4, <1>6, <2>1, Zenon DEF PostInv
<1> QED
  BY <1>2, <1>5, <1>6, Zenon
  DEF Http!FinishPost, Http!PostSent, Http!PostTimedOut, Http!PostUndecided

\* A pass ends in which there was nothing to send.
LEMMA PostNone ==
  ASSUME TimeInv, SkipNetwork
  PROVE  PostInv'
<1>1. PostInv /\ ~availableDataFlag
  BY Zenon DEF TimeInv, SkipNetwork
<1>2. availableDataFlag' = availableDataFlag /\ clientFirstCall' = clientFirstCall
  BY Zenon DEF SkipNetwork, httpVars
<1> QED
  BY <1>1, <1>2, Zenon DEF PostInv

\* The program starts with a measurement due, and no POST.
LEMMA TimeInit == Init => TimeInv
<1> SUFFICES ASSUME Init PROVE TimeInv
  OBVIOUS
<1>1. Inv /\ LoopTypes
  <2>1. <<>> \in Seq([rec : Nat, whole : BOOLEAN])
    BY EmptySeq
  <2> QED
    BY <2>1, InitInv, LoggerAssumption DEF Init, LoopTypes, Tasks
<1>2. ticks = 0 /\ spent = 0 /\ ~availableDataFlag /\ clientFirstCall
  BY Zenon DEF Init, Http!Init
<1>3. ThisOrLastPass
  <2>1. Since = 0
    BY <1>2, LoggerAssumption DEF Since
  <2> QED
    BY <1>2, <2>1 DEF ThisOrLastPass
<1>4. loop \notin {"logger", "network"}
  BY Zenon DEF Init
<1>5. DueInv
  BY <1>3, <1>4, Zenon DEF DueInv
<1>6. PostInv
  BY <1>2, Zenon DEF PostInv
<1> QED
  BY <1>1, <1>5, <1>6 DEF TimeInv

\* Every step keeps the times, if the periods are long enough.
LEMMA TimeStep ==
  ASSUME LongPeriods, TimeInv, [Next]_vars
  PROVE  TimeInv'
<1>1. Inv' /\ LoopTypes'
  BY InvStep, LoopTypesStep DEF TimeInv
<1>2. DueInv'
  BY DueTick, DueLoop, Zenon DEF Next
<1>3. PostInv'
  BY PostTick, PostQuiet, PostTaken, PostStarts, PostGoesOn, PostNone, Zenon
  DEF Next, Superloop
<1> QED
  BY <1>1, <1>2, <1>3 DEF TimeInv

\* If every period is longer than a timeout and three passes, a POST is over
\* when the next record is taken into the buffer it was sent from, whenever the
\* passes, the ticks and the timer of the client begin.
THEOREM SettledCorrect ==
  ASSUME LongPeriods
  PROVE  Spec => []PostSettledBeforeNextRecord
<1>1. TimeInv => PostSettledBeforeNextRecord
  BY Zenon DEF TimeInv, PostInv, PostSettledBeforeNextRecord
<1>2. TimeInv /\ [Next]_vars => TimeInv'
  BY TimeStep
<1> QED
  BY <1>1, <1>2, TimeInit, PTL DEF Spec

\* No measurement is forgotten then: no tick begins a period while the flag of
\* the one before is still up, not even before measurementTask clears it.
THEOREM PeriodsCorrect ==
  ASSUME LongPeriods
  PROVE  Spec => PeriodNeverMissed
<1>1. TimeInv /\ [Next]_vars
        => [ticks' # ticks /\ PeriodElapsed => runMeasurementTask = 0]_vars
  <2> SUFFICES ASSUME TimeInv, [Next]_vars, ticks' # ticks, PeriodElapsed
               PROVE  runMeasurementTask = 0
    BY Zenon
  <2>1. SysTick
    BY StandsStill, Zenon DEF Next
  <2> QED
    BY <2>1, NothingWaits
<1>2. TimeInv /\ [Next]_vars => TimeInv'
  BY TimeStep
<1> QED
  BY <1>1, <1>2, TimeInit, PTL DEF Spec, PeriodNeverMissed

=============================================================================
