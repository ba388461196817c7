----------------------------- MODULE BlockDevice -----------------------------
(***************************************************************************)
(* What the SD card driver promises FatFS of the medium: a request changes *)
(* no sector but those it names, and is answered "ok" only once every one  *)
(* of them is written, or read into its place in the buffer.  A medium     *)
(* that is taken out, or that did not come up when it was first used, is   *)
(* down until the device starts again; only the request it goes down under *)
(* may be answered wrongly.  The driver does not notice a block that is    *)
(* changed on its way into the buffer: the promise is for the others.      *)
(***************************************************************************)
EXTENDS Integers

VARIABLES
  status,   \* "new", "up" or "down"
  disk,     \* the content of each sector
  request,  \* what FatFS waits for
  buffer,   \* the caller's, block by block
  garbled,  \* the blocks of the request that the line has changed
  reply     \* the answer to the last request

vars == <<status, disk, request, buffer, garbled, reply>>

NoRequest == [op |-> "none", sector |-> 0, count |-> 0, version |-> 0, up |-> FALSE]

Covered(r)    == r.sector .. r.sector + r.count - 1
Content(r, s) == <<r.version, s>>

Init ==
  /\ status = "new"
  /\ disk = [s \in DOMAIN disk |-> <<0, s>>]
  /\ request = NoRequest /\ garbled = {}
  /\ reply = "none"

Ask ==
  /\ request = NoRequest
  /\ request'.op \in {"mount", "read", "write"}
  /\ request'.up = (status = "up")
  /\ reply' = "none"
  /\ UNCHANGED <<status, disk, garbled>>

Store ==
  /\ request.op = "write"
  /\ \E s \in Covered(request) : disk' = [disk EXCEPT ![s] = Content(request, s)]
  /\ UNCHANGED <<status, request, buffer, garbled, reply>>

\* A block is received with one byte more than it has.
Filled ==
  /\ DOMAIN buffer' = DOMAIN buffer
  /\ \A i \in DOMAIN buffer : buffer'[i] # buffer[i] => i <= request.count + 1

Fill ==
  /\ request.op = "read"
  /\ Filled
  /\ garbled \subseteq garbled'
  /\ UNCHANGED <<status, disk, request, reply>>

\* The first mount decides.
Mount ==
  /\ request.op = "mount" /\ status = "new"
  /\ status' \in {"up", "down"}
  /\ reply' \in {"ok", "error"}
  /\ status' = "up" => reply' = "ok"
  /\ request' = NoRequest /\ garbled' = {}
  /\ UNCHANGED <<disk, buffer>>

Done ==
  \A s \in Covered(request) :
    IF request.op = "write" THEN disk[s] = Content(request, s)
    ELSE \/ disk[s] = buffer[s - request.sector + 1]
         \/ s - request.sector + 1 \in garbled

Answer ==
  /\ request # NoRequest
  /\ reply' \in {"ok", "error"}
  /\ reply' = "ok" /\ request.op # "mount" =>
       request.up /\ (status = "up" => Done)
  /\ request' = NoRequest /\ garbled' = {}
  /\ UNCHANGED <<status, disk, buffer>>

\* Taken out, in the middle of a block perhaps.
GoDown ==
  /\ status = "up" /\ status' = "down"
  /\ IF request.op = "read" THEN Filled ELSE UNCHANGED buffer
  /\ UNCHANGED <<disk, request, garbled, reply>>

Restart ==
  /\ status' = "new"
  /\ request' = NoRequest /\ garbled' = {}
  /\ reply' = "none"
  /\ UNCHANGED <<disk, buffer>>

Next == Ask \/ Store \/ Fill \/ Mount \/ Answer \/ GoDown \/ Restart

Spec == Init /\ [][Next]_vars

=============================================================================
