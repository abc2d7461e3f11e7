----------------------------- MODULE SyncError -----------------------------
(* The arithmetic of the ETG.1020 sync error counter, ecat_slv_sync0_account *)
(* of soes/ecat_slv.c: an int16_t counter against a uint16_t limit.          *)
EXTENDS Integers

Int16  == {n \in Int : -32768 <= n /\ n <= 32767}
UInt16 == {n \in Nat : n <= 65535}

\* The int16_t a wider number is stored as.
Stored(n) == ((n + 32768) % 65536) - 32768

CountMissedOnce(counter) == counter + 1       \* mutant of CountMissed
CountServedKept(counter) == counter           \* mutant of CountServed

\* What a SYNC0 period leaves in the 32-bit copy of the counter.
CountMissed(counter) == counter + 3
CountServed(counter) == IF counter > 0 THEN counter - 1 ELSE counter

\* The comparison is made on the 32-bit copy; a limit of 0 disables it.
OverLimit(limit, n) == limit > 0 /\ n > limit

=============================================================================
