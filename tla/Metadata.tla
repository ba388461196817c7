------------------------------ MODULE Metadata ------------------------------
(***************************************************************************)
(* The logger's metadata (loggerMetadata.hpp) and the line of text it is   *)
(* kept as: the format string of the terminal's S command and the parser   *)
(* of internalStorage_component.cpp.                                       *)
(*                                                                         *)
(* The line is the sequence of its ';' separated tokens.  A token is a     *)
(* decimal number, standing for itself, or some other text.                *)
(***************************************************************************)
EXTENDS Integers, Sequences

CONSTANT Texts  \* tokens that do not begin with a digit

ASSUME TextsAssumption == \A t \in Texts : t \notin Int

Token == Nat \cup Texts

UINT8  == 0 .. 255
UINT16 == 0 .. 65535

\* A name typed with ';' in it is several tokens.
LoggerMetadata ==
  [name : Seq(Token), fileCreationPeriod : UINT8,
   fileTransmissionPeriod : UINT16, generalMeasurementPeriod : UINT16,
   restRequestPeriod : UINT16]

\* static_cast<uint16_t>(value) of a value typed in.
ToUint16(value) == value % 65536

\* Mutant: two fields are written in the wrong order.
SerializeSwapped(m) ==
  m.name \o <<m.fileTransmissionPeriod, m.fileCreationPeriod,
              m.generalMeasurementPeriod, m.restRequestPeriod>>

\* "%s;%d;%d;%d;%d\r\n"
Serialize(m) ==
  m.name \o <<m.fileCreationPeriod, m.fileTransmissionPeriod,
              m.generalMeasurementPeriod, m.restRequestPeriod>>

\* static_cast<uint8_t>(strtoul(token)), also for the fields of 16 bits.
ParseNumber(token) == IF token \in Texts THEN 0 ELSE token % 256

\* Missing fields keep what the structure holds, extra ones are ignored.
ParseMetadata(m, tokens) ==
  LET Number(i, old) ==
        IF i \in DOMAIN tokens THEN ParseNumber(tokens[i]) ELSE old
  IN  [name |-> IF tokens = <<>> THEN m.name ELSE <<tokens[1]>>,
       fileCreationPeriod       |-> Number(2, m.fileCreationPeriod),
       fileTransmissionPeriod   |-> Number(3, m.fileTransmissionPeriod),
       generalMeasurementPeriod |-> Number(4, m.generalMeasurementPeriod),
       restRequestPeriod        |-> Number(5, m.restRequestPeriod)]

\* The metadata the line represents without loss.
Storable ==
  {m \in LoggerMetadata :
     /\ Len(m.name) = 1
     /\ m.fileTransmissionPeriod \in UINT8
     /\ m.generalMeasurementPeriod \in UINT8
     /\ m.restRequestPeriod \in UINT8}

=============================================================================
