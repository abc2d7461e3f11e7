----------------------------- MODULE FileStore -----------------------------
(***************************************************************************)
(* What a device that takes files promises: one file at a time, its units  *)
(* in the order they were sent, none twice and none left out.              *)
(***************************************************************************)
EXTENDS Naturals, Sequences

CONSTANTS Files, None, Versions, MaxPart

VARIABLES
  open,       \* the file being taken, or None
  version,    \* the version of it that is being sent
  taken       \* the units taken so far, written or about to be written

vars == <<open, version, taken>>

Init == open = None /\ version \in Versions /\ taken = <<>>

Open  == open = None /\ open' \in Files /\ version' \in Versions /\ taken' = <<>>

Take  == /\ open # None /\ UNCHANGED <<open, version>>
         /\ \E n \in 1 .. MaxPart :
              taken' = taken \o [i \in 1 .. n |-> <<version, Len(taken) + i>>]

Close == open # None /\ open' = None /\ version' \in Versions /\ taken' = <<>>

Next == Open \/ Take \/ Close
Spec == Init /\ [][Next]_vars
=============================================================================
