--------------------------- MODULE MCConfigStore ---------------------------
(* What the user types for a name in the model-checking runs.              *)
EXTENDS ConfigStore

CONSTANTS defaultLogger, station

PlainNames == {<<station>>}

=============================================================================
