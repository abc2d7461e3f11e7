------------------------- MODULE SyncCounterProofs -------------------------
(***************************************************************************)
(* Proofs about SyncCounter, for every set of limits and gaps.             *)
(*                                                                         *)
(* The invariant that carries both results relates the counter to the run  *)
(* of missed periods behind it and to the served periods since the last    *)
(* miss: the count is at least three times the run, never above the limit, *)
(* and with misses at least three periods apart it has come down by one    *)
(* for each period served since.                                           *)
(***************************************************************************)
EXTENDS SyncCounter, TLAPS

-----------------------------------------------------------------------------
(* The arithmetic of the counter.                                          *)

\* Stored is the identity on small counts, and always an int16_t.
LEMMA StoredExactly ==
  ASSUME NEW n \in Nat, n <= 32767
  PROVE  Stored(n) = n
BY DEF Stored

LEMMA StoredWidth ==
  ASSUME NEW n \in Int
  PROVE  Stored(n) \in Int16
BY DEF Stored, Int16

LEMMA ZeroStored == 0 \in Int16
BY DEF Int16

\* A count within a limit that can be represented passes, and is kept as it is.
LEMMA WithinLimit ==
  ASSUME NEW limit \in Nat, limit <= 32767, NEW n \in Nat, n <= limit
  PROVE  ~OverLimit(limit, n) /\ Stored(n) = n
<1>1. ~OverLimit(limit, n)
  BY DEF OverLimit
<1>2. n <= 32767
  OBVIOUS
<1> QED BY <1>1, <1>2, StoredExactly

-----------------------------------------------------------------------------
\* Above the representable limits only the types are kept.
CountExplained ==
  Representable =>
    /\ 0 <= synccounter /\ synccounter <= synccounterlimit
    /\ 3 * missedRun <= synccounter
    /\ gap >= 3 /\ synccounterlimit >= 3 =>
         syncerror = FALSE /\ (synccounter > 0 => synccounter + sinceMiss <= 3)

IInv == TypeOK /\ CountExplained

LEMMA InitEstablishes == Init => IInv
<1> SUFFICES ASSUME Init PROVE IInv
  OBVIOUS
<1>1. synccounterlimit \in Nat /\ gap \in Nat
  BY SyncConstantsAssumption DEF Init, UInt16
<1>2. TypeOK
  <2>1. sinceMiss \in Nat /\ sinceMiss <= gap /\ missedRun \in Nat
    BY <1>1 DEF Init
  <2>2. synccounter \in Int16 /\ synccounterlimit \in Limits /\ gap \in Gaps
    BY ZeroStored DEF Init
  <2>3. syncerror \in BOOLEAN
    BY DEF Init
  <2> QED BY <2>1, <2>2, <2>3 DEF TypeOK
<1>3. CountExplained
  BY <1>1 DEF Init, CountExplained
<1> QED BY <1>2, <1>3 DEF IInv

\* A served period keeps the invariant.
LEMMA ServedPreserves ==
  ASSUME IInv, Served
  PROVE  IInv'
<1> USE SyncConstantsAssumption DEF IInv
<1> DEFINE count == CountServed(synccounter)
<1>1. /\ synccounter \in Int /\ synccounterlimit \in Nat /\ 0 < synccounterlimit
      /\ gap \in Nat /\ sinceMiss \in Nat /\ sinceMiss <= gap /\ missedRun \in Nat
  BY DEF TypeOK, Int16, UInt16
<1>2. count \in Int /\ Stored(count) \in Int16
  BY <1>1, StoredWidth DEF CountServed
<1>3. TypeOK'
  <2>1. /\ synccounter' \in Int16 /\ syncerror' \in BOOLEAN
        /\ synccounterlimit' = synccounterlimit
    BY <1>2, ZeroStored DEF Served, Account
  <2>2. gap' = gap /\ missedRun' \in Nat /\ sinceMiss' \in Nat /\ sinceMiss' <= gap
    BY <1>1 DEF Served
  <2> QED BY <2>1, <2>2 DEF TypeOK
<1>4. CountExplained'
  <2> SUFFICES ASSUME Representable' PROVE CountExplained'
    BY DEF CountExplained
  <2>1. synccounterlimit <= 32767 /\ 0 <= synccounter /\ synccounter <= synccounterlimit
    BY <1>1 DEF Representable, CountExplained, Served, Account
  <2>2. /\ count \in Nat /\ count <= synccounter
        /\ synccounter > 0 => count = synccounter - 1
    BY <1>1, <2>1 DEF CountServed
  <2>5. ~OverLimit(synccounterlimit, count) /\ Stored(count) = count
    <3> HIDE DEF count
    <3> QED BY <1>1, <2>1, <2>2, WithinLimit
  <2>3. /\ synccounter' = count /\ syncerror' = FALSE
        /\ synccounterlimit' = synccounterlimit
    BY <1>1, <2>1, <2>2, <2>5 DEF Served, Account
  <2> HIDE DEF count
  <2> QED
    BY <1>1, <2>1, <2>2, <2>3 DEF CountExplained, Representable, Served
<1> QED BY <1>3, <1>4

\* A missed period keeps it too: with a gap of three the counter has drained
\* to zero before the next miss.
LEMMA MissedPreserves ==
  ASSUME IInv, Missed
  PROVE  IInv'
<1> USE SyncConstantsAssumption DEF IInv
<1> DEFINE count == CountMissed(synccounter)
<1>1. /\ synccounter \in Int /\ synccounterlimit \in Nat /\ 0 < synccounterlimit
      /\ gap \in Nat /\ sinceMiss \in Nat /\ sinceMiss <= gap /\ missedRun \in Nat
      /\ sinceMiss' = 0 /\ gap' = gap /\ count = synccounter + 3
  BY DEF TypeOK, Int16, UInt16, Missed, CountMissed
<1>2. Stored(count) \in Int16
  BY <1>1, StoredWidth
<1>3. TypeOK'
  <2>1. /\ synccounter' \in Int16 /\ syncerror' \in BOOLEAN
        /\ synccounterlimit' = synccounterlimit
    BY <1>2, ZeroStored DEF Missed, Account
  <2>2. gap' = gap /\ missedRun' \in Nat /\ sinceMiss' \in Nat /\ sinceMiss' <= gap
    BY <1>1 DEF Missed
  <2> QED BY <2>1, <2>2 DEF TypeOK
<1>4. CountExplained'
  <2> SUFFICES ASSUME Representable' PROVE CountExplained'
    BY DEF CountExplained
  <2>1. synccounterlimit <= 32767 /\ 0 <= synccounter /\ synccounter <= synccounterlimit
    BY <1>1 DEF Representable, CountExplained, Missed, Account
  <2>2. 3 * missedRun <= synccounter
    BY <2>1 DEF CountExplained, Representable
  <2>3. gap >= 3 /\ synccounterlimit >= 3 => synccounter = 0
    BY <1>1, <2>1 DEF CountExplained, Representable, Missed
  <2>4. CASE synccounter + 3 <= synccounterlimit
    <3>1. ~OverLimit(synccounterlimit, count) /\ Stored(count) = count
      <4>1. count \in Nat /\ count <= synccounterlimit
        BY <1>1, <2>1, <2>4
      <4> HIDE DEF count
      <4> QED BY <1>1, <2>1, <4>1, WithinLimit
    <3>2. /\ synccounter' = synccounter + 3 /\ syncerror' = FALSE
          /\ synccounterlimit' = synccounterlimit
          /\ missedRun' = missedRun + 1
      BY <1>1, <3>1 DEF Missed, Account
    <3> QED
      BY <1>1, <2>1, <2>2, <2>3, <2>4, <3>2 DEF CountExplained, Representable
  <2>5. CASE ~(synccounter + 3 <= synccounterlimit)
    <3>1. OverLimit(synccounterlimit, count)
      BY <1>1, <2>5 DEF OverLimit
    <3>2. /\ synccounter' = 0 /\ synccounterlimit' = synccounterlimit
          /\ missedRun' = 0
      BY <3>1 DEF Missed, Account
    <3> QED
      BY <1>1, <2>1, <2>3, <2>5, <3>2 DEF CountExplained, Representable
  <2> QED BY <2>4, <2>5
<1> QED BY <1>3, <1>4

LEMMA Invariance == Spec => []IInv
<1>1. ASSUME IInv, [Next]_vars PROVE IInv'
  <2>1. CASE Served BY <1>1, <2>1, ServedPreserves
  <2>2. CASE Missed BY <1>1, <2>2, MissedPreserves
  <2>3. CASE UNCHANGED vars
    BY <1>1, <2>3 DEF IInv, TypeOK, CountExplained, Representable, vars
  <2> QED BY <1>1, <2>1, <2>2, <2>3 DEF Next
<1> QED BY InitEstablishes, <1>1, PTL DEF Spec

-----------------------------------------------------------------------------
\* "limit/3 is the number of consecutive fully missed cycles tolerated", for
\* every limit the counter can represent (ecat_slv_sync0_account).
THEOREM BurstTolerance == Spec => []BurstEndsInError
<1>1. IInv => BurstEndsInError
  BY SyncConstantsAssumption
  DEF Int16, UInt16, IInv, TypeOK, CountExplained, BurstEndsInError, Representable
<1> QED BY Invariance, <1>1, PTL

\* Three served periods between any two missed ones: no sync error, ever, at
\* any limit from 3 up to what the counter can represent.
THEOREM RateTolerance == Spec => []SparseMissesTolerated
<1>1. IInv => SparseMissesTolerated
  BY DEF IInv, CountExplained, SparseMissesTolerated
<1> QED BY Invariance, <1>1, PTL

=============================================================================
