--------------------------- MODULE HttpPost_proofs ---------------------------
(***************************************************************************)
(* Proofs about module HttpPost, for every timeout, every clock width and  *)
(* every number of records: the types, and that the client never has two   *)
(* unanswered connections and the server gets the records in order.        *)
(***************************************************************************)
EXTENDS HttpPost, SequenceTheorems, TLAPS

-----------------------------------------------------------------------------
(* What the operators on the connections do.                               *)

\* The connections are a sequence: their domain, and what each one is.
LEMMA Connections ==
  ASSUME TypeOK
  PROVE  /\ Len(conns) \in Nat /\ DOMAIN conns = 1 .. Len(conns)
         /\ \A c \in DOMAIN conns : conns[c].state \in ConnState /\ conns[c].rec \in Nat
  <1>1. conns \in Seq(Connection)
    BY DEF TypeOK
  <1>2. Len(conns) \in Nat /\ DOMAIN conns = 1 .. Len(conns)
    BY <1>1, LenProperties
  <1>3. \A c \in 1 .. Len(conns) : conns[c] \in Connection
    BY <1>1, ElementOfSeq
  <1> QED
    BY <1>2, <1>3 DEF Connection

\* Move changes the one connection and keeps the others.
LEMMA MoveProperties ==
  ASSUME TypeOK, NEW c \in DOMAIN conns, NEW state \in ConnState, NEW rec \in Nat,
         Move(c, state, rec)
  PROVE  /\ conns' \in Seq(Connection)
         /\ DOMAIN conns' = DOMAIN conns
         /\ conns'[c].state = state /\ conns'[c].rec = rec
         /\ \A d \in DOMAIN conns : d # c => conns'[d] = conns[d]
  <1> DEFINE new == [state |-> state, rec |-> rec]
  <1>1. conns \in Seq(Connection) /\ new \in Connection
    BY DEF TypeOK, Connection
  <1>2. DOMAIN conns = 1 .. Len(conns)
    BY Connections
  <1>3. conns' = [conns EXCEPT ![c] = new]
    BY DEF Move
  <1>4. /\ conns' \in Seq(Connection) /\ Len(conns') = Len(conns)
        /\ \A d \in 1 .. Len(conns) : conns'[d] = IF d = c THEN new ELSE conns[d]
    <2> HIDE DEF new
    <2> QED
      BY <1>1, <1>2, <1>3, ExceptSeq
  <1> QED
    BY <1>2, <1>4, LenProperties

\* A step that asks for a connection adds one and keeps the others.
LEMMA AppendConnection ==
  ASSUME TypeOK, conns' = Append(conns, [state |-> "connecting", rec |-> 0])
  PROVE  /\ conns' \in Seq(Connection)
         /\ DOMAIN conns' = DOMAIN conns \cup {Len(conns) + 1}
         /\ Len(conns) + 1 \notin DOMAIN conns
         /\ conns'[Len(conns) + 1] = [state |-> "connecting", rec |-> 0]
         /\ \A d \in DOMAIN conns : conns'[d] = conns[d]
  <1> DEFINE new == [state |-> "connecting", rec |-> 0]
  <1>1. conns \in Seq(Connection) /\ new \in Connection
    BY DEF TypeOK, Connection, ConnState, Pending
  <1>2. DOMAIN conns = 1 .. Len(conns) /\ Len(conns) \in Nat
    BY Connections
  <1>3. /\ conns' \in Seq(Connection) /\ Len(conns') = Len(conns) + 1
        /\ \A d \in 1 .. Len(conns) : conns'[d] = conns[d]
        /\ conns'[Len(conns) + 1] = new
    <2> HIDE DEF new
    <2>1. conns' = Append(conns, new)
      BY DEF new
    <2> QED
      BY <1>1, <2>1, AppendProperties
  <1>4. DOMAIN conns' = 1 .. Len(conns) + 1
    BY <1>3, LenProperties
  <1> QED
    BY <1>2, <1>3, <1>4

\* The server's sequence grows at its end.
LEMMA AppendServer ==
  ASSUME TypeOK, NEW r \in Nat, server' = Append(server, r)
  PROVE  /\ server' \in Seq(Nat)
         /\ Len(server) \in Nat
         /\ DOMAIN server = 1 .. Len(server)
         /\ DOMAIN server' = 1 .. Len(server) + 1
         /\ server'[Len(server) + 1] = r
         /\ \A i \in DOMAIN server : server'[i] = server[i] /\ server[i] \in Nat
  <1>1. server \in Seq(Nat)
    BY DEF TypeOK
  <1>2. Len(server) \in Nat /\ DOMAIN server = 1 .. Len(server)
    BY <1>1, LenProperties
  <1>3. /\ server' \in Seq(Nat) /\ Len(server') = Len(server) + 1
        /\ \A i \in 1 .. Len(server) : server'[i] = server[i]
        /\ server'[Len(server) + 1] = r
    BY <1>1, AppendProperties
  <1>4. DOMAIN server' = 1 .. Len(server) + 1
    BY <1>3, LenProperties
  <1>5. \A i \in DOMAIN server : server[i] \in Nat
    BY <1>1, <1>2, ElementOfSeq
  <1> QED
    BY <1>2, <1>3, <1>4, <1>5

-----------------------------------------------------------------------------
(* Types.                                                                  *)

\* The client starts well typed.
LEMMA InitTypes == Init => TypeOK
  <1> SUFFICES ASSUME Init PROVE TypeOK
    OBVIOUS
  <1>1. ticks \in 0 .. TickModulus - 1 /\ connTimer \in 0 .. TickModulus - 1
    BY HttpAssumption DEF Init
  <1>2. conns \in Seq(Connection) /\ server \in Seq(Nat)
    BY EmptySeq DEF Init
  <1> QED
    BY <1>1, <1>2 DEF Init, TypeOK

\* A poll leaves well typed connections and flags behind.
LEMMA PollTypes ==
  ASSUME TypeOK, Poll
  PROVE  conns' \in Seq(Connection) /\ managerFirstCall' \in BOOLEAN /\ done' \in BOOLEAN
  <1>1. CASE UNCHANGED managerVars
    BY <1>1 DEF managerVars, TypeOK
  <1>2. ASSUME NEW c \in DOMAIN conns,
               OnConnect(c) \/ OnWrite(c) \/ OnMessage(c) \/ OnClose(c)
        PROVE  conns' \in Seq(Connection) /\ managerFirstCall' \in BOOLEAN /\ done' \in BOOLEAN
    <2>1. mailbox \in Nat /\ conns[c].rec \in Nat
      BY Connections DEF TypeOK
    <2>2. {"queued", "written", "answered", "closed"} \subseteq ConnState
      BY DEF ConnState, Pending
    <2>3. \E state \in ConnState, rec \in Nat : Move(c, state, rec)
      BY <1>2, <2>1, <2>2 DEF OnConnect, OnWrite, OnMessage, OnClose
    <2>4. conns' \in Seq(Connection)
      BY <2>3, MoveProperties
    <2> QED
      BY <1>2, <2>4 DEF OnConnect, OnWrite, OnMessage, OnClose, TypeOK
  <1> QED
    BY <1>1, <1>2 DEF Poll

\* No step of client, clock or server takes a variable out of its type: a POST
\* has a record.
LEMMA TypeStep == TypeOK /\ PostHasRecord /\ [Next]_vars => TypeOK'
  <1> SUFFICES ASSUME TypeOK, PostHasRecord, [Next]_vars PROVE TypeOK'
    OBVIOUS
  <1> USE DEF clientVars, managerVars, reportVars
  <1>1. CASE RecordReady
    BY <1>1 DEF RecordReady, TypeOK
  <1>2. CASE Tick
    <2>1. (ticks + 1) % TickModulus \in 0 .. TickModulus - 1
      BY HttpAssumption DEF TypeOK
    <2> QED
      BY <1>2, <2>1 DEF Tick, TypeOK
  <1>3. CASE StartPost
    <2>1. conns' \in Seq(Connection)
      BY <1>3, AppendConnection DEF StartPost, Connect, TypeOK
    <2>2. mailbox \in 1 .. mailbox
      BY <1>3 DEF StartPost, PostHasRecord, TypeOK
    <2>3. attempted' \cup sent' \cup failed' \subseteq 1 .. mailbox'
      BY <1>3, <2>2 DEF StartPost, Connect, TypeOK
    <2> QED
      BY <1>3, <2>1, <2>3 DEF StartPost, StartTimer, Connect, TypeOK
  <1>4. CASE FinishPost
    <2>1. conns' \in Seq(Connection) /\ managerFirstCall' \in BOOLEAN /\ done' \in BOOLEAN
      BY <1>4, PollTypes DEF FinishPost
    <2>2. clientFirstCall' \in BOOLEAN /\ availableDataFlag' \in BOOLEAN
      BY <1>4 DEF FinishPost, PostSent, PostTimedOut, PostUndecided, TypeOK
    <2>3. mailbox \in 1 .. mailbox
      BY <1>4 DEF FinishPost, PostHasRecord, TypeOK
    <2>4. attempted' \cup sent' \cup failed' \subseteq 1 .. mailbox'
      BY <1>4, <2>3 DEF FinishPost, PostSent, PostTimedOut, PostUndecided, TypeOK
    <2> QED
      BY <1>4, <2>1, <2>2, <2>4 DEF FinishPost, TypeOK
  <1>5. CASE ServerReceives
    <2> PICK c \in DOMAIN conns :
          /\ Move(c, "received", conns[c].rec)
          /\ server' = Append(server, conns[c].rec)
          /\ UNCHANGED <<ticks, mailbox, clientVars, managerFirstCall, done, polling,
                         attempted, reportVars>>
      BY <1>5 DEF ServerReceives
    <2>1. conns[c].rec \in Nat
      BY Connections
    <2>2. conns' \in Seq(Connection)
      BY <2>1, MoveProperties DEF ConnState, Pending
    <2>3. server' \in Seq(Nat)
      BY <2>1, AppendServer
    <2> QED
      BY <2>2, <2>3 DEF TypeOK
  <1>6. CASE UNCHANGED vars
    BY <1>6 DEF vars, TypeOK
  <1> QED
    BY <1>1, <1>2, <1>3, <1>4, <1>5, <1>6 DEF Next

-----------------------------------------------------------------------------
(* Safety: IInv is inductive.                                              *)

\* Without a connection and without a record the invariant holds.
LEMMA InitIInv == Init => IInv
  BY DEF Init, IInv, OneOutstanding, NoneOnFirstCall, PostHasRecord,
         RequestsAreNew, ServerInOrder, NewerThanServer

\* An event of an unanswered connection: there is no other one, before the
\* step or after it, and the manager is not on its first call.
LEMMA MoveTheOne ==
  ASSUME TypeOK, IInv, NEW c \in DOMAIN conns, conns[c].state \in Pending,
         NEW state \in ConnState, NEW rec \in Nat, Move(c, state, rec)
  PROVE  /\ managerFirstCall = FALSE
         /\ DOMAIN conns' = DOMAIN conns
         /\ conns'[c].state = state /\ conns'[c].rec = rec
         /\ \A d \in DOMAIN conns : d # c => conns'[d].state \notin Pending
  <1>1. managerFirstCall = FALSE
    BY DEF IInv, NoneOnFirstCall, TypeOK
  <1>2. \A d \in DOMAIN conns : d # c => conns[d].state \notin Pending
    BY DEF IInv, OneOutstanding
  <1> QED
    BY <1>1, <1>2, MoveProperties

\* A new record is newer than all the server has received.
LEMMA RecordReadyIInv == TypeOK /\ IInv /\ RecordReady => IInv'
  <1> SUFFICES ASSUME TypeOK, IInv, RecordReady PROVE IInv'
    OBVIOUS
  <1>1. mailbox' = mailbox + 1 /\ mailbox \in Nat
    BY DEF RecordReady, TypeOK
  <1>2. UNCHANGED <<conns, managerFirstCall, polling, server>> /\ ~polling
    BY DEF RecordReady, managerVars
  <1>3. (OneOutstanding /\ NoneOnFirstCall /\ ServerInOrder)'
    BY <1>2 DEF IInv, OneOutstanding, NoneOnFirstCall, ServerInOrder
  <1>4. PostHasRecord'
    BY <1>1, <1>2 DEF PostHasRecord
  <1>5. \A i \in DOMAIN server : server[i] \in Nat /\ server[i] < mailbox'
    <2>1. \A i \in DOMAIN server : server[i] \in Nat
      BY LenProperties, ElementOfSeq DEF TypeOK
    <2> QED
      BY <1>1, <2>1 DEF IInv, RequestsAreNew
  <1>6. RequestsAreNew'
    <2>1. \A c \in DOMAIN conns :
            conns[c].state \in {"queued", "written"}
              => conns[c].rec \in 1 .. mailbox' /\ NewerThanServer(conns[c].rec)
      BY <1>1 DEF IInv, RequestsAreNew
    <2> QED
      BY <1>1, <1>2, <1>5, <2>1 DEF RequestsAreNew, NewerThanServer
  <1> QED
    BY <1>3, <1>4, <1>6 DEF IInv

\* A connection is asked for only when no other one is unanswered.
LEMMA StartPostIInv == TypeOK /\ IInv /\ StartPost => IInv'
  <1> SUFFICES ASSUME TypeOK, IInv, StartPost PROVE IInv'
    OBVIOUS
  <1>1. /\ availableDataFlag /\ availableDataFlag' = availableDataFlag
        /\ UNCHANGED <<mailbox, server>> /\ Connect
    BY DEF StartPost
  <1>2. (PostHasRecord /\ ServerInOrder)'
    BY <1>1 DEF IInv, PostHasRecord, ServerInOrder
  <1>3. CASE ~managerFirstCall
    <2>1. UNCHANGED <<conns, managerFirstCall>>
      BY <1>1, <1>3 DEF Connect
    <2> QED
      BY <1>1, <1>2, <2>1 DEF IInv, OneOutstanding, NoneOnFirstCall,
                              RequestsAreNew, NewerThanServer
  <1>4. CASE managerFirstCall
    <2>1. /\ conns' = Append(conns, [state |-> "connecting", rec |-> 0])
          /\ managerFirstCall' = FALSE
      BY <1>1, <1>4 DEF Connect
    <2> DEFINE n == Len(conns) + 1
    <2>2. /\ DOMAIN conns' = DOMAIN conns \cup {n} /\ n \notin DOMAIN conns
          /\ conns'[n] = [state |-> "connecting", rec |-> 0]
          /\ \A d \in DOMAIN conns : conns'[d] = conns[d]
      BY <2>1, AppendConnection
    <2> HIDE DEF n
    <2>3. \A d \in DOMAIN conns' : conns'[d].state \in Pending => d = n
      BY <1>4, <2>2 DEF IInv, NoneOnFirstCall
    <2>4. (OneOutstanding /\ NoneOnFirstCall)'
      BY <2>1, <2>3 DEF OneOutstanding, NoneOnFirstCall
    <2>5. NewerThanServer(mailbox)
      BY <1>1, <1>4 DEF IInv, RequestsAreNew
    <2>6. RequestsAreNew'
      BY <1>1, <2>1, <2>2, <2>3, <2>5 DEF IInv, RequestsAreNew, NewerThanServer, Pending
    <2> QED
      BY <1>2, <2>4, <2>6 DEF IInv
  <1> QED
    BY <1>3, <1>4

\* A poll moves the one unanswered connection a step, or answers or closes it.
LEMMA FinishPostIInv == TypeOK /\ IInv /\ FinishPost => IInv'
  <1> SUFFICES ASSUME TypeOK, IInv, FinishPost PROVE IInv'
    OBVIOUS
  <1>1. /\ polling /\ ~polling' /\ UNCHANGED <<mailbox, server>> /\ Poll
        /\ availableDataFlag' => availableDataFlag /\ ~done'
    BY DEF FinishPost, PostSent, PostTimedOut, PostUndecided
  <1>2. (PostHasRecord /\ ServerInOrder)'
    BY <1>1 DEF IInv, PostHasRecord, ServerInOrder
  <1>3. mailbox \in Nat /\ mailbox > 0
    BY <1>1 DEF IInv, PostHasRecord, TypeOK
  <1>4. CASE UNCHANGED managerVars
    BY <1>1, <1>2, <1>4 DEF managerVars, IInv, OneOutstanding, NoneOnFirstCall,
                            RequestsAreNew, NewerThanServer
  <1>5. ASSUME NEW c \in DOMAIN conns, NEW state \in ConnState, NEW rec \in Nat,
               conns[c].state \in Pending, Move(c, state, rec),
               managerFirstCall' => \/ done' /\ state \notin Pending
                                    \/ managerFirstCall,
               state # "connecting",
               state \in {"queued", "written"}
                 => rec \in 1 .. mailbox /\ NewerThanServer(rec)
        PROVE  IInv'
    <2>1. /\ managerFirstCall = FALSE
          /\ DOMAIN conns' = DOMAIN conns
          /\ conns'[c].state = state /\ conns'[c].rec = rec
          /\ \A d \in DOMAIN conns : d # c => conns'[d].state \notin Pending
      BY <1>5, MoveTheOne
    <2>2. (OneOutstanding /\ NoneOnFirstCall)'
      BY <1>5, <2>1 DEF OneOutstanding, NoneOnFirstCall
    <2>3. RequestsAreNew'
      BY <1>1, <1>5, <2>1 DEF IInv, RequestsAreNew, NewerThanServer, Pending
    <2> QED
      BY <1>2, <2>2, <2>3 DEF IInv
  <1>6. ASSUME NEW c \in DOMAIN conns, OnConnect(c)
        PROVE  IInv'
    <2>1. PICK state \in {"queued", "written"} : Move(c, state, mailbox)
      BY <1>6 DEF OnConnect
    <2>2. mailbox \in 1 .. mailbox /\ NewerThanServer(mailbox)
      BY <1>3, <1>6 DEF OnConnect, IInv, RequestsAreNew
    <2> QED
      BY <1>3, <1>5, <1>6, <2>1, <2>2 DEF OnConnect, ConnState, Pending
  <1>7. ASSUME NEW c \in DOMAIN conns, OnWrite(c)
        PROVE  IInv'
    <2>1. conns[c].rec \in 1 .. mailbox /\ NewerThanServer(conns[c].rec)
      BY <1>7 DEF OnWrite, IInv, RequestsAreNew
    <2> QED
      BY <1>3, <1>5, <1>7, <2>1 DEF OnWrite, ConnState, Pending
  <1>8. ASSUME NEW c \in DOMAIN conns, OnMessage(c)
        PROVE  IInv'
    BY <1>5, <1>8, Connections DEF OnMessage, ConnState, Pending
  <1>9. ASSUME NEW c \in DOMAIN conns, OnClose(c)
        PROVE  IInv'
    BY <1>5, <1>9, Connections DEF OnClose, ConnState, Pending
  <1> QED
    BY <1>1, <1>4, <1>6, <1>7, <1>8, <1>9 DEF Poll

\* What the server receives is newer than all it received before.
LEMMA ServerReceivesIInv == TypeOK /\ IInv /\ ServerReceives => IInv'
  <1> SUFFICES ASSUME TypeOK, IInv, ServerReceives PROVE IInv'
    OBVIOUS
  <1> PICK c \in DOMAIN conns :
        /\ conns[c].state = "written"
        /\ Move(c, "received", conns[c].rec)
        /\ server' = Append(server, conns[c].rec)
        /\ UNCHANGED <<mailbox, availableDataFlag, managerFirstCall, polling>>
    BY DEF ServerReceives, clientVars
  <1> DEFINE r == conns[c].rec
  <1>1. r \in Nat /\ r \in 1 .. mailbox /\ NewerThanServer(r) /\ mailbox \in Nat
    BY Connections DEF IInv, RequestsAreNew, TypeOK
  <1>2. /\ managerFirstCall = FALSE
        /\ DOMAIN conns' = DOMAIN conns
        /\ conns'[c].state = "received"
        /\ \A d \in DOMAIN conns : d # c => conns'[d].state \notin Pending
    BY <1>1, MoveTheOne DEF ConnState, Pending
  <1>3. /\ Len(server) \in Nat
        /\ DOMAIN server = 1 .. Len(server)
        /\ DOMAIN server' = 1 .. Len(server) + 1
        /\ server'[Len(server) + 1] = r
        /\ \A i \in DOMAIN server : server'[i] = server[i] /\ server[i] \in Nat
    BY <1>1, AppendServer
  <1> HIDE DEF r
  <1>4. (OneOutstanding /\ NoneOnFirstCall)'
    BY <1>2 DEF OneOutstanding, NoneOnFirstCall
  <1>5. PostHasRecord'
    BY DEF IInv, PostHasRecord
  <1>6. ServerInOrder'
    BY <1>1, <1>3 DEF IInv, ServerInOrder, NewerThanServer
  <1>7. \A i \in DOMAIN server' : server'[i] <= mailbox'
    BY <1>1, <1>3 DEF IInv, RequestsAreNew
  <1>8. RequestsAreNew'
    BY <1>2, <1>7 DEF RequestsAreNew, Pending
  <1> QED
    BY <1>4, <1>5, <1>6, <1>8 DEF IInv

\* No step breaks the invariant.
LEMMA IInvStep == TypeOK /\ IInv /\ [Next]_vars => IInv'
  <1> SUFFICES ASSUME TypeOK, IInv, [Next]_vars PROVE IInv'
    OBVIOUS
  <1>1. ASSUME UNCHANGED <<mailbox, availableDataFlag, managerFirstCall, polling,
                           conns, server>>
        PROVE  IInv'
    BY <1>1 DEF IInv, OneOutstanding, NoneOnFirstCall, PostHasRecord,
                RequestsAreNew, ServerInOrder, NewerThanServer
  <1>2. CASE Tick
    BY <1>1, <1>2 DEF Tick, clientVars, managerVars
  <1>3. CASE UNCHANGED vars
    BY <1>1, <1>3 DEF vars, clientVars, managerVars
  <1> QED
    BY <1>2, <1>3, RecordReadyIInv, StartPostIInv, FinishPostIInv,
       ServerReceivesIInv DEF Next

\* The types and the strengthening of the two safety properties are inductive
\* together.
LEMMA Together == Spec => [](TypeOK /\ IInv)
  <1>1. Init => TypeOK /\ IInv
    BY InitTypes, InitIInv
  <1>2. IInv => PostHasRecord
    BY DEF IInv
  <1>3. TypeOK /\ IInv /\ [Next]_vars => (TypeOK /\ IInv)'
    BY <1>2, TypeStep, IInvStep
  <1> QED
    BY <1>1, <1>3, PTL DEF Spec

\* Every variable keeps its type, whatever the clock width and the timeout.
THEOREM TypeCorrect == Spec => []TypeOK
  BY Together, PTL

\* The strengthening of the two safety properties holds in every state.
THEOREM InvariantCorrect == Spec => []IInv
  BY Together, PTL

\* However slow the server and however often the client gives up on an
\* answer, it never has two requests unanswered.
THEOREM OneOutstandingCorrect == Spec => []OneOutstanding
  <1>1. IInv => OneOutstanding
    BY DEF IInv
  <1> QED
    BY <1>1, InvariantCorrect, PTL

\* The server never gets a record twice or after a later one, although the
\* request is filled in from a buffer that goes on changing.
THEOREM ServerInOrderCorrect == Spec => []ServerInOrder
  <1>1. IInv => ServerInOrder
    BY DEF IInv
  <1> QED
    BY <1>1, InvariantCorrect, PTL

=============================================================================
