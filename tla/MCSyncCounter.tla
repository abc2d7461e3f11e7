--------------------------- MODULE MCSyncCounter ---------------------------
(* Instances of SyncCounter for TLC. *)
EXTENDS SyncCounter

SmallLimits == 1 .. 60
SmallGaps   == 0 .. 4
Any         == BOOLEAN
=============================================================================
