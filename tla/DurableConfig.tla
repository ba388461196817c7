--------------------------- MODULE DurableConfig ----------------------------
(***************************************************************************)
(* What the internal storage promises of the stored configuration: it      *)
(* changes in one step, from one complete value to the next; switching the *)
(* device off never changes it; once there is one, every boot ends in the  *)
(* superloop.  Only a mount that formats the storage takes it away; only a *)
(* failure to read it, while the storage is read, puts another in its      *)
(* place unasked.                                                          *)
(***************************************************************************)
EXTENDS Sequences

CONSTANTS
  MayFormat,  \* whether a mount may fail, and format the storage
  MayMisread  \* whether what is stored may fail to be read

VARIABLES
  stored,  \* the stored line, <<>> while there is none
  mode     \* "off", "booting", "running" or "halted"

vars == <<stored, mode>>

Init == stored = <<>> /\ mode = "off"

PowerOn == mode = "off" /\ mode' = "booting" /\ UNCHANGED stored

\* The first boot leaves the default configuration behind, and so does one that
\* cannot read what is stored.
Create ==
  /\ mode = "booting" /\ (stored = <<>> \/ MayMisread)
  /\ stored' # <<>>
  /\ mode' = "running"

Boot == mode = "booting" /\ stored # <<>> /\ mode' = "running" /\ UNCHANGED stored

Format == MayFormat /\ mode = "booting" /\ stored' = <<>> /\ UNCHANGED mode

Halt ==
  /\ mode = "booting" /\ (stored = <<>> \/ MayFormat \/ MayMisread)
  /\ mode' = "halted"
  /\ UNCHANGED stored

\* The user saves, or a running device cannot read what is stored.
Save ==
  /\ mode = "running"
  /\ stored' # <<>>
  /\ UNCHANGED mode

PowerOff == mode' = "off" /\ UNCHANGED stored

Next == PowerOn \/ Create \/ Boot \/ Format \/ Halt \/ Save \/ PowerOff

Spec == Init /\ [][Next]_vars

=============================================================================
