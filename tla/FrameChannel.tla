---------------------------- MODULE FrameChannel ----------------------------
(***************************************************************************)
(* What Ethernet over EtherCAT promises of either direction: frames may be *)
(* lost, but one that arrives is one that was sent, whole, and none        *)
(* arrives twice or after a later one.                                     *)
(***************************************************************************)
EXTENDS Naturals

VARIABLES
  sent,       \* frames sent so far, numbered from 1
  got         \* the last frame delivered, 0 before the first

Init    == sent = 0 /\ got = 0
Send    == sent' = sent + 1 /\ UNCHANGED got
Deliver == got' \in got + 1 .. sent /\ UNCHANGED sent

Next == Send \/ Deliver
Spec == Init /\ [][Next]_<<sent, got>>
=============================================================================
