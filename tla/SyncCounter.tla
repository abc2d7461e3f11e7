---------------------------- MODULE SyncCounter ----------------------------
(***************************************************************************)
(* The ETG.1020 sync error counter of soes/ecat_slv.c on its own, one step *)
(* per SYNC0 period, with the real width of its limit (0x10F1:02, a        *)
(* uint16_t) and of the counter (an int16_t).  SlaveLoop.tla runs the same *)
(* arithmetic inside the cyclic loop with small limits; here the questions *)
(* are the rate the limit stands for and what happens at its far end.      *)
(***************************************************************************)
EXTENDS SyncError

CONSTANTS
  Limits,     \* values of 0x10F1:02; 0, which disables the check, left out
  Gaps,       \* served periods there are at least between two missed ones
  Arrivals    \* {FALSE}: the process data have stopped; BOOLEAN: any

ASSUME SyncConstantsAssumption ==
  /\ Limits \subseteq UInt16 \ {0}
  /\ Gaps \subseteq Nat
  /\ Arrivals \subseteq BOOLEAN

VARIABLES
  synccounter, synccounterlimit,
  syncerror,    \* the period just over raised the sync error
  gap,          \* the process data's guarantee
  sinceMiss,    \* served periods since the last missed one, at most gap
  missedRun     \* missed periods in a row, since the last sync error

vars == <<synccounter, synccounterlimit, syncerror, gap, sinceMiss, missedRun>>

Init ==
  /\ synccounter = 0 /\ synccounterlimit \in Limits /\ syncerror = FALSE
  /\ gap \in Gaps /\ sinceMiss = gap /\ missedRun = 0

\* ecat_slv_sync0_account, count being what the period makes of the counter.
Account(count) ==
  /\ IF OverLimit(synccounterlimit, count)
     THEN syncerror' = TRUE /\ synccounter' = 0
     ELSE syncerror' = FALSE /\ synccounter' = Stored(count)
  /\ UNCHANGED synccounterlimit

Served ==
  /\ TRUE \in Arrivals
  /\ Account(CountServed(synccounter))
  /\ sinceMiss' = IF sinceMiss < gap THEN sinceMiss + 1 ELSE sinceMiss
  /\ missedRun' = 0
  /\ UNCHANGED gap

Missed ==
  /\ sinceMiss >= gap
  /\ Account(CountMissed(synccounter))
  /\ sinceMiss' = 0
  /\ missedRun' = IF OverLimit(synccounterlimit, CountMissed(synccounter)) THEN 0
                  ELSE missedRun + 1
  /\ UNCHANGED gap

Next == Served \/ Missed

Spec == Init /\ [][Next]_vars

-----------------------------------------------------------------------------
\* The limits the counter can represent: up to the largest int16_t.
Representable == synccounterlimit <= 32767

TypeOK ==
  /\ synccounter \in Int16 /\ synccounterlimit \in Limits
  /\ syncerror \in BOOLEAN
  /\ gap \in Gaps /\ missedRun \in Nat
  /\ sinceMiss \in Nat /\ sinceMiss <= gap

\* "limit/3 is the number of consecutive fully missed cycles tolerated": a run
\* of missed periods ends in a sync error before it is longer than that,
\* whatever came before it.
BurstEndsInError == Representable => 3 * missedRun <= synccounterlimit

\* "Below 25% it drains to zero and the drive runs indefinitely": with three
\* served periods between any two missed ones, no sync error ever.
SparseMissesTolerated ==
  Representable /\ gap >= 3 /\ synccounterlimit >= 3 => ~syncerror

=============================================================================
