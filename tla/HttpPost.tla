------------------------------ MODULE HttpPost ------------------------------
(***************************************************************************)
(* The HTTP client (httpClient.cpp), the network manager beneath it        *)
(* (networkManager.cpp), the networkTask of main.cpp that drives them, and *)
(* what they see of mongoose and of the server.                            *)
(*                                                                         *)
(* A measurement record is its number.  The mailbox is the one buffer the  *)
(* processing manager formats every record into: a connection copies what  *)
(* it holds when the connection is made, not what it held when the POST    *)
(* was asked for.                                                          *)
(***************************************************************************)
EXTENDS Integers, Sequences

CONSTANTS
  Timeout,      \* httpClient::timeout, in ticks
  TickModulus,  \* ticks are counted modulo this
  MaxRecords    \* bound of the model: records taken

ASSUME HttpAssumption ==
  /\ Timeout \in Nat
  /\ TickModulus \in Nat /\ TickModulus > Timeout + 1
  /\ MaxRecords \in Nat

VARIABLES
  ticks,              \* systick::getTicks()
  mailbox,            \* the record in _sensorInfoBuff, 0 before the first one
  availableDataFlag,  \* httpClient::_availableDataFlag
  clientFirstCall,    \* httpClient::_firstCall
  connTimer,          \* httpClient::_connTimer
  managerFirstCall,   \* networkManager::_firstCall
  done,               \* networkManager::done
  polling,            \* networkTask is inside mg_mgr_poll
  conns,              \* the connections mongoose was asked for, in order
  server,             \* the records the server received, in order
  attempted,          \* history: records for which a connection was asked
  sent, failed        \* history: records networkTask reported on

clientVars  == <<availableDataFlag, clientFirstCall, connTimer>>
managerVars == <<managerFirstCall, done, conns>>
reportVars  == <<sent, failed>>
vars == <<ticks, mailbox, clientVars, managerVars, polling, server, attempted,
          reportVars>>

Pending  == {"connecting", "queued", "written", "received"}
ConnState == Pending \cup {"answered", "closed"}

\* The 64 bit difference getTicks() - _connTimer.
Elapsed == (ticks - connTimer) % TickModulus

Init ==
  /\ ticks = 0 /\ mailbox = 0
  /\ availableDataFlag = FALSE /\ clientFirstCall = TRUE /\ connTimer = 0
  /\ managerFirstCall = TRUE /\ done = FALSE /\ conns = <<>>
  /\ polling = FALSE
  /\ server = <<>> /\ attempted = {} /\ sent = {} /\ failed = {}

-----------------------------------------------------------------------------
(* The client's mailbox and clock.                                         *)

\* formatData overwrites the buffer, notifyObservers calls update().  The
\* superloop runs one task at a time: never inside a poll.
RecordReady ==
  /\ ~polling
  /\ mailbox < MaxRecords
  /\ mailbox' = mailbox + 1
  /\ availableDataFlag' = TRUE
  /\ UNCHANGED <<ticks, clientFirstCall, connTimer, managerVars, polling,
                 server, attempted, reportVars>>

\* The counter has 64 bits: a POST is over before it has gone all the way round.
ClockMayAdvance == clientFirstCall \/ (ticks + 1) % TickModulus # connTimer

\* Mutant: the ticks do not wrap.
TickNoWrap ==
  /\ ticks' = ticks + 1
  /\ UNCHANGED <<mailbox, clientVars, managerVars, polling, server, attempted,
                 reportVars>>

Tick ==
  /\ ClockMayAdvance
  /\ ticks' = (ticks + 1) % TickModulus
  /\ UNCHANGED <<mailbox, clientVars, managerVars, polling, server, attempted,
                 reportVars>>

-----------------------------------------------------------------------------
(* networkTask -> postSensorData -> httpConnectPost, up to the poll.       *)

\* Mutant: every call starts the timer, not the first one only.
StartTimerEachCall == connTimer' = ticks /\ clientFirstCall' = FALSE

StartTimer ==
  /\ connTimer' = IF clientFirstCall THEN ticks ELSE connTimer
  /\ clientFirstCall' = FALSE

\* mg_http_connect is asked for on the manager's first call only.
Connect ==
  IF managerFirstCall
  THEN /\ conns' = Append(conns, [state |-> "connecting", rec |-> 0])
       /\ managerFirstCall' = FALSE
       /\ attempted' = attempted \cup {mailbox}
  ELSE UNCHANGED <<conns, managerFirstCall, attempted>>

\* Mutant: the client posts whether a record is there or not.
StartPostAlways ==
  /\ ~polling
  /\ StartTimer
  /\ Connect
  /\ polling' = TRUE
  /\ UNCHANGED <<ticks, mailbox, availableDataFlag, done, server, reportVars>>

StartPost ==
  /\ ~polling /\ availableDataFlag
  /\ StartTimer
  /\ Connect
  /\ polling' = TRUE
  /\ UNCHANGED <<ticks, mailbox, availableDataFlag, done, server, reportVars>>

-----------------------------------------------------------------------------
(* mg_mgr_poll.  Both network back ends hand a connection at most one      *)
(* event that mgEventHandler acts on in one poll.  Connections that were   *)
(* answered or closed have none left, and OneOutstanding says that no two  *)
(* others exist, so one event a poll loses nothing.                        *)

Move(c, state, rec) == conns' = [conns EXCEPT ![c] = [state |-> state, rec |-> rec]]

\* Mutant: the manager is ready for the next connection as soon as this one is
\* made, not when it is answered.
OnConnectRearmed(c) ==
  /\ conns[c].state = "connecting"
  /\ \E state \in {"queued", "written"} : Move(c, state, mailbox)
  /\ managerFirstCall' = TRUE /\ UNCHANGED done

\* MG_EV_CONNECT: the handler prints the mailbox into the send buffer; the
\* socket back end writes it in the next poll, the built-in stack in this one.
OnConnect(c) ==
  /\ conns[c].state = "connecting"
  /\ \E state \in {"queued", "written"} : Move(c, state, mailbox)
  /\ UNCHANGED <<managerFirstCall, done>>

OnWrite(c) ==
  /\ conns[c].state = "queued"
  /\ Move(c, "written", conns[c].rec)
  /\ UNCHANGED <<managerFirstCall, done>>

\* MG_EV_HTTP_MSG.
OnMessage(c) ==
  /\ conns[c].state = "received"
  /\ Move(c, "answered", conns[c].rec)
  /\ done' = TRUE
  /\ managerFirstCall' = TRUE

\* MG_EV_ERROR and MG_EV_CLOSE: mgEventHandler has no branch for them.
OnClose(c) ==
  /\ conns[c].state \in Pending
  /\ Move(c, "closed", conns[c].rec)
  /\ UNCHANGED <<managerFirstCall, done>>

Poll ==
  \/ UNCHANGED managerVars
  \/ \E c \in DOMAIN conns :
       OnConnect(c) \/ OnWrite(c) \/ OnMessage(c) \/ OnClose(c)

\* Mutant: the record stays available after it was sent.
PostSentAgain ==
  /\ done'
  /\ clientFirstCall' = TRUE
  /\ sent' = sent \cup {mailbox}
  /\ UNCHANGED <<availableDataFlag, failed>>

\* The rest of httpConnectPost, postSensorData and networkTask, on the value
\* of done that the poll left.
PostSent ==
  /\ done'
  /\ clientFirstCall' = TRUE
  /\ sent' = sent \cup {mailbox}
  /\ availableDataFlag' = FALSE
  /\ UNCHANGED failed

PostTimedOut ==
  /\ ~done' /\ Elapsed > Timeout
  /\ clientFirstCall' = TRUE
  /\ failed' = failed \cup {mailbox}
  /\ availableDataFlag' = FALSE
  /\ UNCHANGED sent

PostUndecided ==
  /\ ~done' /\ Elapsed <= Timeout
  /\ UNCHANGED <<clientFirstCall, availableDataFlag, reportVars>>

FinishPost ==
  /\ polling
  /\ Poll
  /\ PostSent \/ PostTimedOut \/ PostUndecided
  /\ polling' = FALSE
  /\ UNCHANGED <<ticks, mailbox, connTimer, server, attempted>>

-----------------------------------------------------------------------------
(* The server receives a request that was written, unless it is lost.      *)

ServerReceives ==
  \E c \in DOMAIN conns :
    /\ conns[c].state = "written"
    /\ Move(c, "received", conns[c].rec)
    /\ server' = Append(server, conns[c].rec)
    /\ UNCHANGED <<ticks, mailbox, clientVars, managerFirstCall, done, polling,
                   attempted, reportVars>>

Next == RecordReady \/ Tick \/ StartPost \/ FinishPost \/ ServerReceives

Spec == Init /\ [][Next]_vars

\* The superloop calls networkTask for ever and every poll returns; SysTick
\* never stops.  Nothing is assumed of the server.
Fairness == WF_vars(StartPost) /\ WF_vars(FinishPost) /\ WF_vars(Tick)

FairSpec == Spec /\ Fairness

-----------------------------------------------------------------------------

Connection == [state : ConnState, rec : Nat]

\* Every variable keeps its type.  What a connection was asked for, and what was
\* reported on, is a record that was taken, never the buffer before the first one.
TypeOK ==
  /\ ticks \in 0 .. TickModulus - 1 /\ connTimer \in 0 .. TickModulus - 1
  /\ mailbox \in Nat
  /\ availableDataFlag \in BOOLEAN /\ clientFirstCall \in BOOLEAN
  /\ managerFirstCall \in BOOLEAN /\ done \in BOOLEAN /\ polling \in BOOLEAN
  /\ conns \in Seq(Connection)
  /\ server \in Seq(Nat)
  /\ attempted \cup sent \cup failed \subseteq 1 .. mailbox

\* The client never has two unanswered connections: a timeout leaves the old
\* connection open (httpClient.cpp:30-34), and it is the manager's _firstCall,
\* raised by an answer only, that keeps the next POST from opening a second.
OneOutstanding ==
  \A c, d \in DOMAIN conns :
    conns[c].state \in Pending /\ conns[d].state \in Pending => c = d

\* The server receives the records in the order they were measured and none
\* of them twice, although a connection that outlives its POST sends whatever
\* the mailbox holds by then (networkManager.cpp:28-34).
ServerInOrder ==
  \A i, j \in DOMAIN server : i < j => server[i] < server[j]

\* What makes the two inductive.  Only a POST in progress can connect, and it
\* does so on the manager's first call with no other connection unanswered;
\* what it will send is then newer than all the server has.
NoneOnFirstCall ==
  managerFirstCall => \A c \in DOMAIN conns : conns[c].state \notin Pending

NewerThanServer(r) == \A i \in DOMAIN server : server[i] < r

PostHasRecord ==
  /\ availableDataFlag => mailbox > 0
  /\ polling => availableDataFlag

RequestsAreNew ==
  /\ \A i \in DOMAIN server : server[i] <= mailbox
  /\ managerFirstCall /\ availableDataFlag => NewerThanServer(mailbox)
  /\ \A c \in DOMAIN conns :
       /\ conns[c].state = "connecting" => NewerThanServer(mailbox)
       /\ conns[c].state \in {"queued", "written"}
            => conns[c].rec \in 1 .. mailbox /\ NewerThanServer(conns[c].rec)

IInv ==
  /\ OneOutstanding /\ NoneOnFirstCall
  /\ PostHasRecord /\ RequestsAreNew /\ ServerInOrder

\* Every POST ends, with an answer or by its timeout, whatever the network
\* does: networkTask does not retry one record for ever.
PostResolves == availableDataFlag ~> ~availableDataFlag

=============================================================================
