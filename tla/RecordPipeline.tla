--------------------------- MODULE RecordPipeline ---------------------------
(***************************************************************************)
(* What the measurement, logger and network subsystems promise together:   *)
(* the observers of processingManager (processing_manager.hpp) see every   *)
(* record, the log file only ever grows and keeps the records in order,    *)
(* and a record reaches the server only after the logger has had its turn  *)
(* with it, at most once and never after a later one.                      *)
(***************************************************************************)
EXTENDS Integers, Sequences

VARIABLES
  taken,    \* how many records were measured; they are numbered 1 .. taken
  pending,  \* the logger still has to handle the last one
  log,      \* the log file: record numbers, and whether the line is complete
  server    \* the records the server received

vars == <<taken, pending, log, server>>

Init == taken = 0 /\ pending = FALSE /\ log = <<>> /\ server = <<>>

Take ==
  /\ ~pending
  /\ taken' = taken + 1
  /\ pending' = TRUE
  /\ UNCHANGED <<log, server>>

\* The logger appends the pending record, in whole, in part or not at all.
Handle ==
  /\ pending
  /\ pending' = FALSE
  /\ \/ \E whole \in BOOLEAN :
          log' = Append(log, [rec |-> taken, whole |-> whole])
     \/ UNCHANGED log
  /\ UNCHANGED <<taken, server>>

Serve ==
  \E r \in 1 .. taken :
    /\ pending => r < taken
    /\ \A i \in DOMAIN server : server[i] < r
    /\ server' = Append(server, r)
    /\ UNCHANGED <<taken, pending, log>>

Next == Take \/ Handle \/ Serve

Spec == Init /\ [][Next]_vars

=============================================================================
