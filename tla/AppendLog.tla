------------------------------ MODULE AppendLog ------------------------------
(***************************************************************************)
(* What the log file promises whoever takes the card out of the device, at *)
(* any moment, whatever the disk did: it only grows, and every record adds *)
(* the beginning of its line, once at most.                                *)
(***************************************************************************)
EXTENDS Naturals, Sequences

CONSTANT LineLength

VARIABLES
  rec,     \* the last record handed to the logger
  content  \* the bytes of the file

Line(r) == [i \in 1 .. LineLength |-> <<r, i>>]

Logged(r) == \E i \in DOMAIN content : content[i][1] = r

Init == rec = 0 /\ content = <<>>

NewRecord == rec' = rec + 1 /\ UNCHANGED content

Grow ==
  /\ rec > 0 /\ ~Logged(rec)
  /\ \E n \in 1 .. LineLength : content' = content \o SubSeq(Line(rec), 1, n)
  /\ UNCHANGED rec

Next == NewRecord \/ Grow

Spec == Init /\ [][Next]_<<rec, content>>

=============================================================================
