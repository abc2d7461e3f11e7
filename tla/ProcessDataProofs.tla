------------------------- MODULE ProcessDataProofs -------------------------
(***************************************************************************)
(* Proofs about ProcessData and the slices it packs with (BitSlice), for   *)
(* words of any size and every mapping a master may write: the entries lie *)
(* one after another and apart, a slice changes its own bits only, so that *)
(* outputs reach the objects, the master reads the objects, and no         *)
(* setpoint is shown out of OP.                                            *)
(***************************************************************************)
EXTENDS ProcessData, SequenceTheorems, WellFoundedInduction, TLAPS

-----------------------------------------------------------------------------
(* Recursion over the entries of a list.                                   *)

\* What holds at 0 and goes on from each number to the next holds up to n.
LEMMA UpTo ==
  ASSUME NEW n \in Nat, NEW S, 0 \in S, \A i \in 0 .. n - 1 : i \in S => i + 1 \in S
  PROVE  \A i \in 0 .. n : i \in S
<1> DEFINE T == {i \in 0 .. n : i \notin S}
           R == {ss \in Nat \X Nat : ss[1] < ss[2]}
<1>1. SUFFICES ASSUME T # {} PROVE FALSE
  OBVIOUS
<1>2. IsWellFoundedOn(R, Nat)
  BY NatLessThanWellFounded DEF OpToRel
<1>3. T \subseteq Nat
  OBVIOUS
<1>4. \A y, x \in Nat : y < x => <<y, x>> \in R
  OBVIOUS
<1> HIDE DEF R
<1>5. PICK x \in T : \A y \in T : <<y, x>> \notin R
  <2> HIDE DEF T
  <2> QED
    BY <1>1, <1>2, <1>3, WFMin
<1>6. x \in 0 .. n /\ x \notin S /\ x # 0
  BY <1>5
<1>7. x - 1 \in 0 .. n - 1 /\ (x - 1) + 1 = x
  BY <1>6
<1>8. x - 1 \notin S
  BY <1>6, <1>7
<1>9. x - 1 \in T /\ x - 1 \in Nat /\ x \in Nat /\ x - 1 < x
  BY <1>6, <1>7, <1>8
<1> QED
  BY <1>4, <1>5, <1>9

\* f begins with base and takes the steps up to n.
Follows(f, n, base, step) == f[0] = base /\ \A i \in 1 .. n : f[i] = step[i][f[i - 1]]

\* A function defined from each number to the next exists.
LEMMA Recursion ==
  ASSUME NEW V, NEW n \in Nat, NEW base \in V, NEW step \in [1 .. n -> [V -> V]]
  PROVE  \E f \in [0 .. n -> V] : Follows(f, n, base, step)
<1> DEFINE To(j, f) == f[0] = base /\ \A i \in 1 .. j : f[i] = step[i][f[i - 1]]
           S == {j \in 0 .. n : \E f \in [0 .. j -> V] : To(j, f)}
<1>1. 0 \in S
  <2> DEFINE g == [i \in 0 .. 0 |-> base]
  <2>1. g \in [0 .. 0 -> V] /\ To(0, g)
    OBVIOUS
  <2>2. 0 \in 0 .. n
    OBVIOUS
  <2> HIDE DEF g, To
  <2> QED
    BY <2>1, <2>2
<1>2. ASSUME NEW j \in 0 .. n - 1, j \in S PROVE j + 1 \in S
  <2>1. PICK f \in [0 .. j -> V] : To(j, f)
    BY <1>2
  <2>2. j + 1 \in 1 .. n /\ j \in 0 .. j /\ f[j] \in V
    OBVIOUS
  <2>3. step[j + 1][f[j]] \in V
    BY <2>2
  <2> DEFINE g == [i \in 0 .. j + 1 |-> IF i = j + 1 THEN step[j + 1][f[j]] ELSE f[i]]
  <2>4. g \in [0 .. j + 1 -> V]
    BY <2>3
  <2>5. g[0] = base
    BY <2>1
  <2>6. ASSUME NEW i \in 1 .. j + 1 PROVE g[i] = step[i][g[i - 1]]
    <3>1. i - 1 \in 0 .. j + 1 /\ i - 1 # j + 1 /\ g[i - 1] = f[i - 1]
      OBVIOUS
    <3>2. CASE i = j + 1
      <4>1. i - 1 = j /\ g[i] = step[j + 1][f[j]]
        BY <3>2
      <4> QED
        BY <3>1, <3>2, <4>1
    <3>3. CASE i # j + 1
      <4>1. i \in 1 .. j /\ g[i] = f[i]
        BY <3>3
      <4> QED
        BY <2>1, <3>1, <4>1
    <3> QED
      BY <3>2, <3>3
  <2>7. To(j + 1, g)
    <3> HIDE DEF g
    <3> QED
      BY <2>5, <2>6
  <2> HIDE DEF g
  <2> QED
    BY <2>4, <2>7
<1> HIDE DEF S
<1>3. \A i \in 0 .. n : i \in S
  BY <1>1, <1>2, UpTo
<1>4. n \in S
  BY <1>3
<1> QED
  BY <1>4 DEF S, Follows

-----------------------------------------------------------------------------
(* Sequences one after another.                                            *)

\* FlattenSeq puts each sequence behind those before it.
LEMMA FlattenIs ==
  ASSUME NEW S, NEW ss \in Seq(Seq(S)), Len(ss) # 0
  PROVE  \E f \in [1 .. Len(ss) -> Seq(S)] :
           /\ f[1] = ss[1] /\ \A i \in 2 .. Len(ss) : f[i] = f[i - 1] \o ss[i]
           /\ FlattenSeq(ss) = f[Len(ss)]
<1> DEFINE n == Len(ss)
           step == [i \in 1 .. n |-> [s \in Seq(S) |-> s \o ss[i]]]
           flatten == CHOOSE f : f = [i \in 1 .. n |-> IF i = 1 THEN ss[i] ELSE f[i - 1] \o ss[i]]
<1>1. n \in Nat \ {0} /\ \A i \in 1 .. n : ss[i] \in Seq(S)
  BY LenProperties
<1>2. step \in [1 .. n -> [Seq(S) -> Seq(S)]]
  <2>1. ASSUME NEW i \in 1 .. n, NEW s \in Seq(S) PROVE s \o ss[i] \in Seq(S)
    BY <1>1, ConcatProperties
  <2> QED
    BY <2>1
<1>3. <<>> \in Seq(S) /\ n \in Nat
  BY <1>1
<1>4. PICK f \in [0 .. n -> Seq(S)] : f[0] = <<>> /\ \A i \in 1 .. n : f[i] = step[i][f[i - 1]]
  <2> DEFINE V == Seq(S)  base == <<>>
  <2>1. base \in V /\ step \in [1 .. n -> [V -> V]] /\ n \in Nat
    BY <1>2, <1>3
  <2> HIDE DEF step, n, V, base
  <2>2. \E f \in [0 .. n -> V] : Follows(f, n, base, step)
    BY <2>1, Recursion
  <2> QED
    BY <2>2 DEF V, base, Follows
<1> DEFINE g == [i \in 1 .. n |-> f[i]]
<1>5. ASSUME NEW i \in 1 .. n PROVE f[i - 1] \in Seq(S) /\ f[i] = f[i - 1] \o ss[i]
  <2>1. i - 1 \in 0 .. n
    BY <1>1
  <2>2. f[i - 1] \in Seq(S)
    BY <2>1
  <2>3. step[i] = [s \in Seq(S) |-> s \o ss[i]]
    OBVIOUS
  <2>4. step[i][f[i - 1]] = f[i - 1] \o ss[i]
    <3> HIDE DEF step
    <3> QED
      BY <2>2, <2>3
  <2> QED
    BY <1>4, <2>2, <2>4
<1>6. f[1] = ss[1]
  <2>0. 1 \in 1 .. n /\ 1 - 1 = 0
    BY <1>1
  <2>1. f[0] = <<>> /\ f[1] = f[0] \o ss[1] /\ ss[1] \in Seq(S)
    BY <1>1, <1>4, <1>5, <2>0
  <2> HIDE DEF n
  <2> QED
    BY <2>1, ConcatEmptySeq
<1>7. g = [i \in 1 .. n |-> IF i = 1 THEN ss[i] ELSE g[i - 1] \o ss[i]]
  <2>1. ASSUME NEW i \in 1 .. n PROVE f[i] = IF i = 1 THEN ss[i] ELSE g[i - 1] \o ss[i]
    <3>1. CASE i = 1
      BY <1>6, <3>1
    <3>2. CASE i # 1
      <4>1. i - 1 \in 1 .. n /\ g[i - 1] = f[i - 1]
        BY <1>1, <3>2
      <4> QED
        BY <1>5, <3>2, <4>1
    <3> QED
      BY <3>1, <3>2
  <2> QED
    BY <2>1
<1>8. flatten = [i \in 1 .. n |-> IF i = 1 THEN ss[i] ELSE flatten[i - 1] \o ss[i]]
  <2> HIDE DEF g, n, step
  <2> QED
    BY <1>7
<1>9. FlattenSeq(ss) = flatten[n]
  BY DEF FlattenSeq
<1> HIDE DEF flatten, g, step
<1>10. flatten[1] = ss[1] /\ \A i \in 2 .. n : flatten[i] = flatten[i - 1] \o ss[i]
  <2>1. 1 \in 1 .. n
    BY <1>1
  <2>2. ASSUME NEW i \in 2 .. n PROVE i \in 1 .. n /\ i # 1
    BY <1>1
  <2> HIDE DEF n
  <2>3. \A i \in 1 .. n : flatten[i] = IF i = 1 THEN ss[i] ELSE flatten[i - 1] \o ss[i]
    BY <1>8
  <2> QED
    BY <2>1, <2>2, <2>3
<1>11. \A i \in 1 .. n : flatten[i] \in Seq(S)
  <2> DEFINE T == {i \in 0 .. n : i # 0 => flatten[i] \in Seq(S)}
  <2>1. 0 \in T
    BY <1>1
  <2>2. ASSUME NEW i \in 0 .. n - 1, i \in T PROVE i + 1 \in T
    <3>1. CASE i = 0
      BY <1>1, <1>10, <3>1
    <3>2. CASE i # 0
      <4>1. i + 1 \in 2 .. n /\ (i + 1) - 1 = i
        BY <1>1, <3>2
      <4>2. flatten[i] \in Seq(S) /\ ss[i + 1] \in Seq(S)
        BY <1>1, <2>2, <3>2, <4>1
      <4>4. flatten[i + 1] = flatten[i] \o ss[i + 1]
        <5> HIDE DEF n, T
        <5> QED
          BY <1>10, <4>1
      <4>3. flatten[i + 1] \in Seq(S)
        BY <4>2, <4>4, ConcatProperties
      <4> QED
        BY <4>1, <4>3
    <3> QED
      BY <3>1, <3>2
  <2> HIDE DEF T
  <2>3. \A i \in 0 .. n : i \in T
    BY <1>1, <2>1, <2>2, UpTo
  <2> QED
    BY <1>1, <2>3 DEF T
<1>12. flatten \in [1 .. n -> Seq(S)]
  <2>1. DOMAIN flatten = 1 .. n /\ flatten = [i \in DOMAIN flatten |-> flatten[i]]
    BY <1>8
  <2> QED
    BY <1>11, <2>1
<1> QED
  BY <1>9, <1>10, <1>12

\* What sequences one after another are made of.
LEMMA FlattenTyped ==
  ASSUME NEW S, NEW ss \in Seq(Seq(S))
  PROVE  FlattenSeq(ss) \in Seq(S)
<1>1. CASE Len(ss) = 0
  <2>1. FlattenSeq(ss) = ss /\ ss = <<>>
    BY <1>1, EmptySeq DEF FlattenSeq
  <2> QED
    BY <2>1
<1>2. CASE Len(ss) # 0
  <2>1. Len(ss) \in 1 .. Len(ss)
    BY <1>2, LenProperties
  <2>2. PICK f \in [1 .. Len(ss) -> Seq(S)] : FlattenSeq(ss) = f[Len(ss)]
    BY <1>2, FlattenIs
  <2>3. f[Len(ss)] \in Seq(S)
    BY <2>1
  <2> QED
    BY <2>2, <2>3
<1> QED
  BY <1>1, <1>2

-----------------------------------------------------------------------------
(* The entries and where they begin.                                       *)

\* An entry of a mapping list.
Fields == [obj : STRING, length : Nat]

\* The constants.
LEMMA Constants ==
  /\ WordBits \in Nat \ {0} /\ ByteBits \in Nat \ {0} /\ Words \in Nat /\ Pad \notin Objects
  /\ \A o \in Objects : BitLength[o] \in Nat \ {0} /\ (BitLength[o] > WordBits => BitLength[o] % ByteBits = 0)
BY WordBitsAssumption, ProcessDataAssumption

\* The entries of a list.
LEMMA FieldsOf ==
  ASSUME NEW es \in Seq(Fields)
  PROVE  Len(es) \in Nat /\ DOMAIN es = 1 .. Len(es) /\ \A i \in 1 .. Len(es) : es[i] \in Fields /\ es[i].length \in Nat
<1>1. Len(es) \in Nat /\ DOMAIN es = 1 .. Len(es) /\ es \in [1 .. Len(es) -> Fields]
  BY LenProperties
<1>2. \A i \in 1 .. Len(es) : es[i] \in Fields
  BY <1>1
<1>3. \A e \in Fields : e.length \in Nat
  BY DEF Fields
<1> QED
  BY <1>1, <1>2, <1>3

\* A function on 1 .. n is a sequence.
LEMMA IsSequence ==
  ASSUME NEW S, NEW n \in Nat, NEW s \in [1 .. n -> S]
  PROVE  s \in Seq(S) /\ Len(s) = n
OBVIOUS

\* A number past a is past it by one at least.
LEMMA Beyond ==
  ASSUME NEW a \in Nat, NEW l \in Nat, NEW p \in 1 .. a + l, ~(p <= a)
  PROVE  p - a - 1 \in 0 .. l - 1 /\ (p - a - 1) + 1 = p - a /\ p = a + (p - a - 1) + 1
OBVIOUS

\* Bit k of an entry of l bits, counted from one behind a others.
LEMMA Inside ==
  ASSUME NEW a \in Nat, NEW l \in Nat, NEW k \in 0 .. l - 1
  PROVE  a + k + 1 \in 1 .. a + l /\ ~(a + k + 1 <= a) /\ (a + k + 1) - a = k + 1
OBVIOUS

\* Each offset is that before it and the length of the entry between (sizeOfPDO).
LEMMA OffsetsIs ==
  ASSUME NEW es \in Seq(Fields)
  PROVE  /\ Offsets(es) \in [0 .. Len(es) -> Nat] /\ Offsets(es)[0] = 0
         /\ \A i \in 1 .. Len(es) : Offsets(es)[i] = Offsets(es)[i - 1] + es[i].length
<1> DEFINE n == Len(es)
           step == [i \in 1 .. n |-> [v \in Nat |-> v + es[i].length]]
<1>1. n \in Nat /\ \A i \in 1 .. n : es[i].length \in Nat
  BY FieldsOf
<1>2. step \in [1 .. n -> [Nat -> Nat]]
  BY <1>1
<1>3. PICK f \in [0 .. n -> Nat] : Follows(f, n, 0, step)
  <2> HIDE DEF n, step
  <2> QED
    BY <1>1, <1>2, Recursion
<1>4. \A i \in 1 .. n : f[i] = f[i - 1] + es[i].length
  <2> SUFFICES ASSUME NEW i \in 1 .. n PROVE f[i] = f[i - 1] + es[i].length
    OBVIOUS
  <2>1. i - 1 \in 0 .. n /\ f[i - 1] \in Nat
    BY <1>1
  <2>2. f[i] = step[i][f[i - 1]]
    BY <1>3 DEF Follows
  <2>3. step[i] = [v \in Nat |-> v + es[i].length]
    OBVIOUS
  <2> HIDE DEF step
  <2> QED
    BY <2>1, <2>2, <2>3
<1>5. f = [i \in 0 .. n |-> IF i = 0 THEN 0 ELSE f[i - 1] + es[i].length]
  <2>1. ASSUME NEW i \in 0 .. n PROVE f[i] = IF i = 0 THEN 0 ELSE f[i - 1] + es[i].length
    BY <1>3, <1>4 DEF Follows
  <2> QED
    BY <2>1
<1> DEFINE at == CHOOSE g : g = [i \in 0 .. n |-> IF i = 0 THEN 0 ELSE g[i - 1] + es[i].length]
<1>6. at = [i \in 0 .. n |-> IF i = 0 THEN 0 ELSE at[i - 1] + es[i].length] /\ Offsets(es) = at
  <2> HIDE DEF step
  <2> QED
    BY <1>5 DEF Offsets
<1> HIDE DEF at, step
<1>7. \A i \in 0 .. n : at[i] = IF i = 0 THEN 0 ELSE at[i - 1] + es[i].length
  BY <1>6
<1>8. \A i \in 0 .. n : at[i] \in Nat
  <2> DEFINE T == {i \in 0 .. n : at[i] \in Nat}
  <2>1. 0 \in T
    BY <1>1, <1>7
  <2>2. ASSUME NEW i \in 0 .. n - 1, i \in T PROVE i + 1 \in T
    BY <1>1, <1>7, <2>2
  <2> HIDE DEF T
  <2>3. \A i \in 0 .. n : i \in T
    BY <1>1, <2>1, <2>2, UpTo
  <2> QED
    BY <2>3 DEF T
<1>9. at \in [0 .. n -> Nat]
  <2>1. DOMAIN at = 0 .. n /\ at = [i \in DOMAIN at |-> at[i]]
    BY <1>6
  <2> QED
    BY <1>8, <2>1
<1>10. at[0] = 0 /\ \A i \in 1 .. n : at[i] = at[i - 1] + es[i].length
  BY <1>1, <1>7
<1> QED
  BY <1>6, <1>9, <1>10

\* Offsets grow.
LEMMA OffsetsGrow ==
  ASSUME NEW es \in Seq(Fields), NEW i \in 0 .. Len(es)
  PROVE  \A j \in i .. Len(es) : Offsets(es)[i] <= Offsets(es)[j]
<1> DEFINE n == Len(es)
           at == Offsets(es)
           T == {j \in 0 .. n : i <= j => at[i] <= at[j]}
<1>1. n \in Nat /\ \A j \in 1 .. n : es[j].length \in Nat
  BY FieldsOf
<1>2. at \in [0 .. n -> Nat] /\ \A j \in 1 .. n : at[j] = at[j - 1] + es[j].length
  BY OffsetsIs
<1> HIDE DEF at
<1>3. 0 \in T
  BY <1>1, <1>2
<1>4. ASSUME NEW j \in 0 .. n - 1, j \in T PROVE j + 1 \in T
  <2>1. j + 1 \in 1 .. n /\ (j + 1) - 1 = j /\ j \in 0 .. n
    BY <1>1
  <2>2. at[j + 1] = at[j] + es[j + 1].length /\ es[j + 1].length \in Nat /\ at[j] \in Nat /\ at[i] \in Nat
    BY <1>1, <1>2, <2>1
  <2>3. CASE i = j + 1
    BY <2>1, <2>2, <2>3
  <2>4. CASE i # j + 1
    BY <1>4, <2>1, <2>2, <2>4
  <2> QED
    BY <2>3, <2>4
<1> HIDE DEF T
<1>5. \A j \in 0 .. n : j \in T
  BY <1>1, <1>3, <1>4, UpTo
<1> QED
  BY <1>1, <1>5 DEF T, at

\* Entry j ends where the next one begins, before all that follow.
LEMMA EntryEnds ==
  ASSUME NEW es \in Seq(Fields), NEW j \in 1 .. Len(es)
  PROVE  /\ Offsets(es)[j - 1] \in Nat /\ Offsets(es)[j] = Offsets(es)[j - 1] + es[j].length
         /\ es[j].length \in Nat /\ Offsets(es)[Len(es)] \in Nat
         /\ \A i \in j .. Len(es) : Offsets(es)[j - 1] + es[j].length <= Offsets(es)[i]
<1>1. Len(es) \in Nat /\ es[j] \in Fields
  BY LenProperties
<1>2. j - 1 \in 0 .. Len(es) /\ j \in 0 .. Len(es) /\ Len(es) \in 0 .. Len(es)
  BY <1>1
<1>3. Offsets(es)[j] = Offsets(es)[j - 1] + es[j].length
  BY OffsetsIs
<1> QED
  BY <1>1, <1>2, <1>3, OffsetsIs, OffsetsGrow DEF Fields

-----------------------------------------------------------------------------
(* The wire.                                                               *)

\* On the wire, bit k of entry j comes at its offset, and nothing else does.
LEMMA WireIs ==
  ASSUME NEW es \in Seq(Fields), Len(es) # 0, NEW wire, wire = Wire(es)
  PROVE  /\ DOMAIN wire = 1 .. Offsets(es)[Len(es)]
         /\ \A p \in DOMAIN wire :
              /\ wire[p][1] \in 1 .. Len(es) /\ wire[p][2] \in 0 .. es[wire[p][1]].length - 1
              /\ p = Offsets(es)[wire[p][1] - 1] + wire[p][2] + 1
         /\ \A j \in 1 .. Len(es) : \A k \in 0 .. es[j].length - 1 :
              wire[Offsets(es)[j - 1] + k + 1] = <<j, k>>
<1> DEFINE n == Len(es)
           at == Offsets(es)
           S == Nat \X Nat
           part(i) == [k \in 1 .. es[i].length |-> <<i, k - 1>>]
           parts == [i \in DOMAIN es |-> part(i)]
<1>1. n \in Nat /\ DOMAIN es = 1 .. n /\ \A j \in 1 .. n : es[j].length \in Nat
  BY FieldsOf
<1>2. n # 0
  OBVIOUS
<1>3. ASSUME NEW i \in 1 .. n
      PROVE  part(i) \in Seq(S) /\ Len(part(i)) = es[i].length
  <2>1. es[i].length \in Nat
    BY <1>1
  <2>2. ASSUME NEW k \in 1 .. es[i].length PROVE <<i, k - 1>> \in S
    BY <1>1, <2>1
  <2>3. part(i) \in [1 .. es[i].length -> S]
    <3> HIDE DEF S
    <3> QED
      BY <2>2
  <2> HIDE DEF S, part
  <2> QED
    BY <2>1, <2>3, IsSequence
<1>4. parts \in Seq(Seq(S)) /\ Len(parts) = n
  <2> HIDE DEF part, S
  <2> QED
    BY <1>1, <1>3
<1>5. PICK f \in [1 .. n -> Seq(S)] :
         /\ f[1] = parts[1] /\ \A i \in 2 .. n : f[i] = f[i - 1] \o parts[i]
         /\ FlattenSeq(parts) = f[n]
  <2> HIDE DEF parts, S, n
  <2>1. Len(parts) # 0
    BY <1>2, <1>4
  <2>2. \E f \in [1 .. Len(parts) -> Seq(S)] :
           /\ f[1] = parts[1] /\ \A i \in 2 .. Len(parts) : f[i] = f[i - 1] \o parts[i]
           /\ FlattenSeq(parts) = f[Len(parts)]
    BY <1>4, <2>1, FlattenIs
  <2> QED
    BY <1>4, <2>2
<1>6. at \in [0 .. n -> Nat] /\ at[0] = 0 /\ \A j \in 1 .. n : at[j] = at[j - 1] + es[j].length
  BY OffsetsIs
<1>7. \A i \in 1 .. n : parts[i] = part(i)
  BY <1>1
<1> HIDE DEF at, parts
<1> DEFINE Right(i) ==
      /\ Len(f[i]) = at[i]
      /\ \A p \in 1 .. at[i] : \E j \in 1 .. i : \E k \in 0 .. es[j].length - 1 :
           f[i][p] = <<j, k>> /\ p = at[j - 1] + k + 1
      /\ \A j \in 1 .. i : \A k \in 0 .. es[j].length - 1 :
           at[j - 1] + k + 1 \in 1 .. at[i] /\ f[i][at[j - 1] + k + 1] = <<j, k>>
    T == {i \in 0 .. n : i # 0 => Right(i)}
<1>8. 0 \in T
  BY <1>1
<1>9. ASSUME NEW i \in 0 .. n - 1, i \in T PROVE i + 1 \in T
  <2> DEFINE c == i + 1
  <2>1. c \in 1 .. n /\ c - 1 = i /\ i \in 0 .. n
    BY <1>1
  <2>2. at[c] = at[i] + es[c].length /\ at[i] \in Nat /\ at[c] \in Nat /\ es[c].length \in Nat
    <3>1. c \in 0 .. n
      BY <2>1
    <3> HIDE DEF c
    <3>2. at[i] \in Nat /\ at[c] \in Nat
      BY <1>6, <2>1, <3>1
    <3>3. at[c] = at[c - 1] + es[c].length /\ es[c].length \in Nat
      BY <1>1, <1>6, <2>1
    <3> QED
      BY <2>1, <3>2, <3>3
  <2>3. part(c) \in Seq(S) /\ Len(part(c)) = es[c].length
        /\ \A k \in 0 .. es[c].length - 1 : part(c)[k + 1] = <<c, k>>
    <3>1. ASSUME NEW k \in 0 .. es[c].length - 1 PROVE part(c)[k + 1] = <<c, k>>
      BY <2>2
    <3> HIDE DEF part, S
    <3> QED
      BY <1>3, <2>1, <3>1
  <2> HIDE DEF part, S
  <2>4. CASE i = 0
    <3>1. c = 1 /\ at[i] = 0 /\ f[c] = part(c)
      BY <1>5, <1>6, <1>7, <2>1, <2>4
    <3>2. Len(f[c]) = at[c]
      BY <2>2, <2>3, <3>1
    <3>3. ASSUME NEW p \in 1 .. at[c]
          PROVE  \E j \in 1 .. c : \E k \in 0 .. es[j].length - 1 : f[c][p] = <<j, k>> /\ p = at[j - 1] + k + 1
      <4>1. p - 1 \in 0 .. es[c].length - 1 /\ (p - 1) + 1 = p
        BY <2>2, <3>1
      <4>2. f[c][p] = <<c, p - 1>> /\ c \in 1 .. c /\ p = at[c - 1] + (p - 1) + 1
        BY <2>1, <2>3, <3>1, <4>1
      <4> QED
        BY <4>1, <4>2
    <3>4. ASSUME NEW j \in 1 .. c, NEW k \in 0 .. es[j].length - 1
          PROVE  at[j - 1] + k + 1 \in 1 .. at[c] /\ f[c][at[j - 1] + k + 1] = <<j, k>>
      <4>0. j = 1 /\ j - 1 = 0 /\ c = 1
        BY <3>1
      <4>1. j = c /\ at[j - 1] = 0 /\ at[j - 1] + k + 1 = k + 1
        BY <1>6, <4>0
      <4> QED
        BY <2>2, <2>3, <3>1, <4>1
    <3>5. Right(c)
      BY <3>2, <3>3, <3>4
    <3> HIDE DEF Right
    <3> QED
      BY <2>1, <3>5
  <2>5. CASE i # 0
    <3>1. c \in 2 .. n /\ i \in 1 .. n /\ Right(i) /\ f[i] \in Seq(S)
      <4>1. i \in 1 .. n /\ c \in 2 .. n
        BY <1>1, <2>1, <2>5
      <4> HIDE DEF Right, n
      <4>2. Right(i)
        BY <1>9, <2>5
      <4>3. f[i] \in Seq(S)
        BY <4>1
      <4> QED
        BY <4>1, <4>2, <4>3
    <3>2. f[c] = f[i] \o part(c)
      BY <1>5, <1>7, <2>1, <3>1
    <3>3. /\ Len(f[c]) = at[c]
          /\ \A p \in 1 .. at[c] : f[c][p] = IF p <= at[i] THEN f[i][p] ELSE part(c)[p - at[i]]
      <4>1. Len(f[i]) = at[i] /\ Len(part(c)) = es[c].length /\ Len(f[i]) + Len(part(c)) = at[c]
        BY <2>2, <2>3, <3>1
      <4>2. /\ Len(f[i] \o part(c)) = Len(f[i]) + Len(part(c))
            /\ \A p \in 1 .. Len(f[i]) + Len(part(c)) : (f[i] \o part(c))[p] =
                 IF p <= Len(f[i]) THEN f[i][p] ELSE part(c)[p - Len(f[i])]
        <5>1. f[i] \in Seq(S) /\ part(c) \in Seq(S)
          BY <2>3, <3>1
        <5> HIDE DEF Right, T
        <5> QED
          BY <5>1, ConcatProperties
      <4> HIDE DEF Right, T, c
      <4> QED
        BY <3>2, <4>1, <4>2
    <3>4. ASSUME NEW p \in 1 .. at[c]
          PROVE  \E j \in 1 .. c : \E k \in 0 .. es[j].length - 1 : f[c][p] = <<j, k>> /\ p = at[j - 1] + k + 1
      <4>1. CASE p <= at[i]
        <5>1. p \in 1 .. at[i] /\ f[c][p] = f[i][p]
          BY <2>2, <3>3, <4>1
        <5>2. PICK j \in 1 .. i : \E k \in 0 .. es[j].length - 1 : f[i][p] = <<j, k>> /\ p = at[j - 1] + k + 1
          BY <3>1, <5>1
        <5>3. j \in 1 .. c
          OBVIOUS
        <5> QED
          BY <5>1, <5>2, <5>3
      <4>2. CASE ~(p <= at[i])
        <5> DEFINE k == p - at[i] - 1
        <5>1. k \in 0 .. es[c].length - 1 /\ k + 1 = p - at[i] /\ p = at[i] + k + 1
          <6> HIDE DEF c
          <6>1. p \in 1 .. at[i] + es[c].length
            BY <2>2
          <6> QED
            BY <2>2, <4>2, <6>1, Beyond
        <5>2. f[c][p] = part(c)[k + 1] /\ c \in 1 .. c
          BY <2>1, <3>3, <4>2, <5>1
        <5> HIDE DEF k
        <5>3. f[c][p] = <<c, k>>
          BY <2>3, <5>1, <5>2
        <5> QED
          BY <2>1, <5>1, <5>2, <5>3
      <4> QED
        BY <4>1, <4>2
    <3>5. ASSUME NEW j \in 1 .. c, NEW k \in 0 .. es[j].length - 1
          PROVE  at[j - 1] + k + 1 \in 1 .. at[c] /\ f[c][at[j - 1] + k + 1] = <<j, k>>
      <4>1. CASE j = c
        <5>1. at[j - 1] = at[i] /\ k \in 0 .. es[c].length - 1
          BY <2>1, <4>1
        <5>2. at[i] + k + 1 \in 1 .. at[c] /\ ~(at[i] + k + 1 <= at[i]) /\ (at[i] + k + 1) - at[i] = k + 1
          <6> HIDE DEF c
          <6> QED
            BY <2>2, <5>1, Inside
        <5>3. f[c][at[i] + k + 1] = part(c)[k + 1]
          <6> HIDE DEF c
          <6>1. \A q \in 1 .. at[c] : ~(q <= at[i]) => f[c][q] = part(c)[q - at[i]]
            BY <3>3
          <6> DEFINE q == at[i] + k + 1
          <6>2. q \in 1 .. at[c] /\ ~(q <= at[i]) /\ q - at[i] = k + 1 /\ at[i] + k + 1 = q
            BY <5>2
          <6> HIDE DEF q
          <6>3. f[c][q] = part(c)[k + 1]
            BY <6>1, <6>2
          <6> QED
            BY <6>2, <6>3
        <5>4. f[c][at[i] + k + 1] = <<c, k>>
          BY <2>3, <5>1, <5>2, <5>3
        <5> QED
          BY <4>1, <5>1, <5>2, <5>4
      <4>2. CASE j # c
        <5>1. j \in 1 .. i
          BY <2>1, <4>2
        <5>2. at[j - 1] + k + 1 \in 1 .. at[i] /\ f[i][at[j - 1] + k + 1] = <<j, k>>
          BY <3>1, <5>1
        <5>3. at[j - 1] + k + 1 \in 1 .. at[c] /\ at[j - 1] + k + 1 <= at[i]
          BY <2>2, <5>2
        <5>4. f[c][at[j - 1] + k + 1] = f[i][at[j - 1] + k + 1]
          BY <3>3, <5>3
        <5> QED
          BY <5>2, <5>3, <5>4
      <4> QED
        BY <4>1, <4>2
    <3>6. Right(c)
      BY <3>3, <3>4, <3>5
    <3> HIDE DEF Right
    <3> QED
      BY <2>1, <3>6
  <2> QED
    BY <2>4, <2>5
<1> HIDE DEF T
<1>10. \A i \in 0 .. n : i \in T
  BY <1>1, <1>8, <1>9, UpTo
<1>11. Right(n) /\ wire = f[n] /\ f[n] \in Seq(S)
  <2>1. n \in 1 .. n
    BY <1>1, <1>2
  <2>2. Right(n)
    <3>1. n \in T /\ n # 0
      BY <1>1, <1>2, <1>10
    <3> HIDE DEF Right, n
    <3> QED
      BY <3>1 DEF T
  <2>3. wire = FlattenSeq(parts)
    BY DEF parts, Wire
  <2> HIDE DEF Right, n, S
  <2>4. wire = f[n]
    BY <1>5, <2>3
  <2>5. f[n] \in Seq(S)
    BY <1>5, <2>1
  <2> QED
    BY <2>2, <2>4, <2>5
<1>12. DOMAIN wire = 1 .. at[n]
  BY <1>11, LenProperties
<1>13. ASSUME NEW p \in DOMAIN wire
       PROVE  /\ wire[p][1] \in 1 .. n /\ wire[p][2] \in 0 .. es[wire[p][1]].length - 1
              /\ p = at[wire[p][1] - 1] + wire[p][2] + 1
  <2>0. p \in 1 .. at[n] /\ Right(n)
    BY <1>11, <1>12
  <2> HIDE DEF n
  <2>1. PICK j \in 1 .. n : \E k \in 0 .. es[j].length - 1 : f[n][p] = <<j, k>> /\ p = at[j - 1] + k + 1
    BY <2>0
  <2> USE DEF n
  <2>2. PICK k \in 0 .. es[j].length - 1 : f[n][p] = <<j, k>> /\ p = at[j - 1] + k + 1
    BY <2>1
  <2>3. wire[p][1] = j /\ wire[p][2] = k
    BY <1>11, <2>2
  <2> QED
    BY <2>2, <2>3
<1>14. ASSUME NEW j \in 1 .. n, NEW k \in 0 .. es[j].length - 1 PROVE wire[at[j - 1] + k + 1] = <<j, k>>
  BY <1>11
<1> QED
  BY <1>12, <1>13, <1>14 DEF at

\* The bits of entry j in a memory are those of its range.
ShownIn(es, memory, j) ==
  LET wire == Wire(es)
  IN {wire[p][2] : p \in {q \in DOMAIN wire : wire[q][1] = j /\ q - 1 \in memory}}

\* That range begins at the offset of the entry.
LEMMA ShownIs ==
  ASSUME NEW es \in Seq(Fields), NEW memory, NEW j \in 1 .. Len(es)
  PROVE  ShownIn(es, memory, j) = {k \in 0 .. es[j].length - 1 : Offsets(es)[j - 1] + k \in memory}
<1> DEFINE at == Offsets(es)
           wire == Wire(es)
           R == {k \in 0 .. es[j].length - 1 : at[j - 1] + k \in memory}
<1>1. Len(es) # 0 /\ Len(es) \in Nat
  BY LenProperties
<1>2. ShownIn(es, memory, j) = {wire[p][2] : p \in {q \in DOMAIN wire : wire[q][1] = j /\ q - 1 \in memory}}
  BY DEF ShownIn
<1>3. /\ at[j - 1] \in Nat /\ at[j] = at[j - 1] + es[j].length /\ at[j] <= at[Len(es)]
      /\ at[Len(es)] \in Nat /\ es[j].length \in Nat
  BY <1>1, EntryEnds
<1> HIDE DEF wire
<1>4. /\ DOMAIN wire = 1 .. at[Len(es)]
      /\ \A p \in DOMAIN wire :
           /\ wire[p][1] \in 1 .. Len(es) /\ wire[p][2] \in 0 .. es[wire[p][1]].length - 1
           /\ p = at[wire[p][1] - 1] + wire[p][2] + 1
      /\ \A k \in 0 .. es[j].length - 1 : wire[at[j - 1] + k + 1] = <<j, k>>
  BY <1>1, WireIs DEF wire
<1> HIDE DEF at
<1>5. ASSUME NEW p \in DOMAIN wire, wire[p][1] = j, p - 1 \in memory PROVE wire[p][2] \in R
  <2>1. wire[p][2] \in 0 .. es[j].length - 1 /\ p = at[j - 1] + wire[p][2] + 1
    BY <1>4, <1>5
  <2>2. p - 1 = at[j - 1] + wire[p][2]
    BY <1>3, <2>1
  <2> QED
    BY <1>5, <2>1, <2>2
<1>6. ASSUME NEW k \in R
      PROVE  \E p \in DOMAIN wire : wire[p][1] = j /\ p - 1 \in memory /\ k = wire[p][2]
  <2> DEFINE p == at[j - 1] + k + 1
  <2>0. k \in 0 .. es[j].length - 1 /\ at[j - 1] + es[j].length <= at[Len(es)]
    BY <1>3, <1>6
  <2>1. p \in 1 .. at[Len(es)] /\ p - 1 = at[j - 1] + k
    <3> HIDE DEF R
    <3> QED
      BY <1>3, <2>0
  <2>2. wire[p] = <<j, k>>
    BY <1>4
  <2>3. p \in DOMAIN wire /\ p - 1 \in memory
    BY <1>4, <2>1
  <2> HIDE DEF p
  <2> QED
    BY <2>2, <2>3
<1>7. ShownIn(es, memory, j) = R
  <2> HIDE DEF R
  <2> QED
    BY <1>2, <1>5, <1>6
<1> QED
  BY <1>7 DEF at

-----------------------------------------------------------------------------
(* Slices of words of any size.                                            *)

\* A slice of length bits from bit of word on, in a bitmap that has its words.
IsSlice(D, word, bit, length) ==
  /\ D \subseteq Nat /\ word \in D /\ bit \in Bits /\ length \in 1 .. WordBits
  /\ length + bit > WordBits => word + 1 \in D

\* The bits b of the word w that belong to the slice.
Within(w, b, word, bit, length) ==
  \/ w = word /\ b \in bit .. bit + length - 1
  \/ w = word + 1 /\ b + WordBits \in bit .. bit + length - 1

\* Bit i of the slice, in one word or the next (COE_bitsliceGet).
LEMMA GetMember ==
  ASSUME NEW D, NEW bitmap \in [D -> SUBSET Bits], NEW word, NEW bit, NEW length,
         IsSlice(D, word, bit, length), NEW i \in Int
  PROVE  i \in BitsliceGet(bitmap, word, bit, length) <=>
           /\ i \in 0 .. length - 1
           /\ i + bit < WordBits => i + bit \in bitmap[word]
           /\ i + bit >= WordBits => i + bit - WordBits \in bitmap[word + 1]
<1>1. WordBits \in Nat \ {0} BY WordBitsAssumption
<1>2. word \in Nat /\ bit \in 0 .. WordBits - 1 /\ length \in 1 .. WordBits BY DEF IsSlice, Bits
<1>3. bitmap[word] \subseteq 0 .. WordBits - 1 BY DEF IsSlice, Bits
<1>4. i \in Shr(bitmap[word], bit) <=> i \in 0 .. WordBits - 1 /\ i + bit \in bitmap[word]
  BY <1>1, <1>2, <1>3 DEF Shr, Bits
<1>5. CASE length + bit > WordBits
  <2>1. bitmap[word + 1] \subseteq 0 .. WordBits - 1 BY <1>5 DEF IsSlice, Bits
  <2>2. i \in Shl(bitmap[word + 1], WordBits - bit) <=>
          i \in 0 .. WordBits - 1 /\ i + bit - WordBits \in bitmap[word + 1]
    BY <1>1, <1>2, <2>1 DEF Shl, Bits
  <2>3. BitsliceGet(bitmap, word, bit, length) =
          (Shl(bitmap[word + 1], WordBits - bit) \cup Shr(bitmap[word], bit)) \cap (0 .. length - 1)
    BY <1>5 DEF BitsliceGet, Mask
  <2>4. i + bit < WordBits => i + bit - WordBits \notin bitmap[word + 1] BY <1>1, <1>2, <2>1
  <2>5. i + bit >= WordBits => i + bit \notin bitmap[word] BY <1>1, <1>2, <1>3
  <2>6. i \in 0 .. length - 1 => i \in 0 .. WordBits - 1 BY <1>1, <1>2
  <2>7. i + bit < WordBits \/ i + bit >= WordBits BY <1>1, <1>2
  <2>. QED BY <1>4, <2>2, <2>3, <2>4, <2>5, <2>6, <2>7
<1>6. CASE ~(length + bit > WordBits)
  <2>1. BitsliceGet(bitmap, word, bit, length) = Shr(bitmap[word], bit) \cap (0 .. length - 1)
    BY <1>6 DEF BitsliceGet, Mask
  <2>2. i \in 0 .. length - 1 => i \in 0 .. WordBits - 1 /\ i + bit < WordBits /\ ~(i + bit >= WordBits)
    BY <1>1, <1>2, <1>6
  <2>. QED BY <1>4, <2>1, <2>2
<1>. QED BY <1>5, <1>6

\* The bitmap after a slice has been set: the bits of the value within it, the old ones elsewhere (COE_bitsliceSet).
LEMMA SetMember ==
  ASSUME NEW D, NEW bitmap \in [D -> SUBSET Bits], NEW word, NEW bit, NEW length,
         IsSlice(D, word, bit, length), NEW value \in SUBSET (0 .. length - 1),
         NEW w \in D, NEW b \in Bits
  PROVE  b \in BitsliceSet(bitmap, word, bit, length, value)[w] <=>
           IF Within(w, b, word, bit, length)
           THEN IF w = word THEN b - bit \in value ELSE b + WordBits - bit \in value
           ELSE b \in bitmap[w]
<1>1. WordBits \in Nat \ {0} BY WordBitsAssumption
<1>2. word \in Nat /\ w \in Nat /\ bit \in 0 .. WordBits - 1 /\ length \in 1 .. WordBits /\ b \in 0 .. WordBits - 1
  BY DEF IsSlice, Bits
<1>3. word # word + 1 BY <1>2
<1>4. b \in Shl(Mask(length), bit) <=> b \in bit .. bit + length - 1
  <2>1. b \in Shl(Mask(length), bit) <=> b - bit \in 0 .. length - 1 BY <1>1, <1>2 DEF Shl, Mask, Bits
  <2>. QED BY <1>2, <2>1
<1>5. b \in Shl(value, bit) <=> b - bit \in value BY <1>1, <1>2 DEF Shl, Bits
<1>6. b \in Shr(Mask(length), WordBits - bit) <=> b + WordBits \in bit .. bit + length - 1
  BY <1>1, <1>2 DEF Shr, Mask, Bits
<1>7. b \in Shr(value, WordBits - bit) <=> b + WordBits - bit \in value BY <1>1, <1>2 DEF Shr, Bits
<1>8. word \in DOMAIN bitmap BY DEF IsSlice
<1> DEFINE low == [bitmap EXCEPT ![word] = Merge(@, Shl(Mask(length), bit), Shl(value, bit))]
<1>9. low \in [D -> SUBSET Bits] BY <1>8 DEF Merge, Shl, Shr
<1>10. b \in low[word] <=> IF b \in bit .. bit + length - 1 THEN b - bit \in value ELSE b \in bitmap[word]
  BY <1>4, <1>5, <1>8 DEF Merge
<1>11. w # word => low[w] = bitmap[w] OBVIOUS
<1>12. CASE length + bit > WordBits
  <2>1. word + 1 \in D BY <1>12 DEF IsSlice
  <2> DEFINE all == [low EXCEPT ![word + 1] = Merge(@, Shr(Mask(length), WordBits - bit), Shr(value, WordBits - bit))]
  <2>2. BitsliceSet(bitmap, word, bit, length, value) = all BY <1>12 DEF BitsliceSet
  <2>3. CASE w = word
    <3>1. all[w] = low[word] BY <1>3, <1>9, <2>3
    <3>2. w # word + 1 BY <1>3, <2>3
    <3>. HIDE DEF all, low
    <3>. QED BY <1>10, <2>2, <2>3, <3>1, <3>2 DEF Within
  <2>4. CASE w = word + 1
    <3>1. all[w] = Merge(bitmap[w], Shr(Mask(length), WordBits - bit), Shr(value, WordBits - bit))
      BY <1>3, <1>9, <1>11, <2>1, <2>4
    <3>. HIDE DEF all, low
    <3>2. w # word BY <1>3, <2>4
    <3>3. b \in all[w] <=> IF b + WordBits \in bit .. bit + length - 1 THEN b + WordBits - bit \in value
                                                                      ELSE b \in bitmap[w]
      BY <1>6, <1>7, <3>1 DEF Merge
    <3>. QED BY <2>2, <2>4, <3>2, <3>3 DEF Within
  <2>5. CASE w # word /\ w # word + 1
    <3>1. all[w] = bitmap[w] BY <1>9, <1>11, <2>5
    <3>. HIDE DEF all, low
    <3>. QED BY <2>2, <2>5, <3>1 DEF Within
  <2>. QED BY <2>3, <2>4, <2>5
<1>13. CASE ~(length + bit > WordBits)
  <2>1. BitsliceSet(bitmap, word, bit, length, value) = low BY <1>13 DEF BitsliceSet
  <2>2. ~(b + WordBits \in bit .. bit + length - 1) BY <1>1, <1>2, <1>13
  <2>. HIDE DEF low
  <2>3. CASE w = word BY <1>3, <1>10, <2>1, <2>2, <2>3 DEF Within
  <2>4. CASE w # word BY <1>11, <2>1, <2>2, <2>4 DEF Within
  <2>. QED BY <2>3, <2>4
<1>. QED BY <1>12, <1>13

\* Setting a slice leaves a bitmap.
LEMMA SetTypes ==
  ASSUME NEW D, NEW bitmap \in [D -> SUBSET Bits], NEW word, NEW bit, NEW length,
         IsSlice(D, word, bit, length), NEW value
  PROVE  BitsliceSet(bitmap, word, bit, length, value) \in [D -> SUBSET Bits]
<1>1. ASSUME NEW m \in [D -> SUBSET Bits], NEW w \in D, NEW mask, NEW v, v \subseteq Bits
      PROVE  [m EXCEPT ![w] = Merge(@, mask, v)] \in [D -> SUBSET Bits]
  BY <1>1 DEF Merge
<1>2. Shl(value, bit) \subseteq Bits /\ Shr(value, WordBits - bit) \subseteq Bits BY DEF Shl, Shr
<1> DEFINE low == [bitmap EXCEPT ![word] = Merge(@, Shl(Mask(length), bit), Shl(value, bit))]
<1>3. low \in [D -> SUBSET Bits] BY <1>1, <1>2 DEF IsSlice
<1>4. CASE length + bit > WordBits
  <2>1. word + 1 \in D BY <1>4 DEF IsSlice
  <2>2. BitsliceSet(bitmap, word, bit, length, value) =
          [low EXCEPT ![word + 1] = Merge(@, Shr(Mask(length), WordBits - bit), Shr(value, WordBits - bit))]
    BY <1>4 DEF BitsliceSet
  <2> DEFINE mask == Shr(Mask(length), WordBits - bit)  v == Shr(value, WordBits - bit)
  <2>3. v \subseteq Bits BY <1>2
  <2>. HIDE DEF low, mask, v
  <2>4. [low EXCEPT ![word + 1] = Merge(@, mask, v)] \in [D -> SUBSET Bits]
    BY <1>1, <1>3, <2>1, <2>3
  <2>. QED BY <2>2, <2>4 DEF mask, v
<1>5. CASE ~(length + bit > WordBits) BY <1>3, <1>5 DEF BitsliceSet
<1>. QED BY <1>4, <1>5

\* What has been packed is what is unpacked: a slice that is set is read back.
THEOREM SliceReadsBack ==
  ASSUME NEW D, NEW bitmap \in [D -> SUBSET Bits], NEW word, NEW bit, NEW length,
         IsSlice(D, word, bit, length), NEW value \in SUBSET (0 .. length - 1)
  PROVE  BitsliceGet(BitsliceSet(bitmap, word, bit, length, value), word, bit, length) = value
<1> DEFINE after == BitsliceSet(bitmap, word, bit, length, value)
<1>1. WordBits \in Nat \ {0} BY WordBitsAssumption
<1>2. word \in D /\ word \in Nat /\ bit \in 0 .. WordBits - 1 /\ length \in 1 .. WordBits
  BY DEF IsSlice, Bits
<1>3. after \in [D -> SUBSET Bits] BY SetTypes
<1>4. BitsliceGet(after, word, bit, length) \subseteq 0 .. length - 1 BY DEF BitsliceGet, Mask
<1>5. ASSUME NEW i \in 0 .. length - 1
      PROVE  i \in BitsliceGet(after, word, bit, length) <=> i \in value
  <2>. HIDE DEF after
  <2>1. i \in BitsliceGet(after, word, bit, length) <=>
          /\ i + bit < WordBits => i + bit \in after[word]
          /\ i + bit >= WordBits => i + bit - WordBits \in after[word + 1]
    BY <1>3, GetMember, i \in Int, i \in 0 .. length - 1
  <2>2. CASE i + bit < WordBits
    <3>1. i + bit \in Bits /\ Within(word, i + bit, word, bit, length) /\ (i + bit) - bit = i
      BY <1>1, <1>2, <2>2 DEF Bits, Within
    <3>4. i + bit \in after[word] <=> (i + bit) - bit \in value BY <1>2, <3>1, SetMember DEF after
    <3>2. i + bit \in after[word] <=> i \in value BY <3>1, <3>4
    <3>3. ~(i + bit >= WordBits) BY <1>1, <1>2, <2>2
    <3>. QED BY <2>1, <2>2, <3>2, <3>3
  <2>3. CASE i + bit >= WordBits
    <3>1. word + 1 \in D BY <1>1, <1>2, <2>3 DEF IsSlice
    <3>2. /\ i + bit - WordBits \in Bits
          /\ Within(word + 1, i + bit - WordBits, word, bit, length)
          /\ (i + bit - WordBits) + WordBits - bit = i /\ word + 1 # word
      BY <1>1, <1>2, <2>3 DEF Bits, Within
    <3>3. i + bit - WordBits \in after[word + 1] <=> i \in value BY <3>1, <3>2, SetMember DEF after
    <3>4. ~(i + bit < WordBits) BY <1>1, <1>2, <2>3
    <3>. QED BY <2>1, <2>3, <3>3, <3>4
  <2>. QED BY <1>1, <1>2, <2>2, <2>3
<1>. QED BY <1>4, <1>5

\* Entries do not run into each other: a slice that shares no bit with another
\* reads the same after that one has been set.
THEOREM SlicesAreSeparate ==
  ASSUME NEW D, NEW bitmap \in [D -> SUBSET Bits], NEW word, NEW bit, NEW length,
         IsSlice(D, word, bit, length), NEW value \in SUBSET (0 .. length - 1),
         NEW word2, NEW bit2, NEW length2, IsSlice(D, word2, bit2, length2),
         \A w \in D, b \in Bits : ~(Within(w, b, word, bit, length) /\ Within(w, b, word2, bit2, length2))
  PROVE  BitsliceGet(BitsliceSet(bitmap, word, bit, length, value), word2, bit2, length2) =
           BitsliceGet(bitmap, word2, bit2, length2)
<1> DEFINE after == BitsliceSet(bitmap, word, bit, length, value)
<1>1. WordBits \in Nat \ {0} BY WordBitsAssumption
<1>2. word2 \in D /\ word2 \in Nat /\ bit2 \in 0 .. WordBits - 1 /\ length2 \in 1 .. WordBits
  BY DEF IsSlice, Bits
<1>3. after \in [D -> SUBSET Bits] BY SetTypes
<1>4. /\ BitsliceGet(after, word2, bit2, length2) \subseteq 0 .. length2 - 1
      /\ BitsliceGet(bitmap, word2, bit2, length2) \subseteq 0 .. length2 - 1
  BY DEF BitsliceGet, Mask
<1>5. ASSUME NEW w \in D, NEW b \in Bits, Within(w, b, word2, bit2, length2)
      PROVE  b \in after[w] <=> b \in bitmap[w]
  BY <1>5, SetMember
<1>6. ASSUME NEW i \in 0 .. length2 - 1
      PROVE  i \in BitsliceGet(after, word2, bit2, length2) <=> i \in BitsliceGet(bitmap, word2, bit2, length2)
  <2>. HIDE DEF after
  <2>1. i \in BitsliceGet(after, word2, bit2, length2) <=>
          /\ i + bit2 < WordBits => i + bit2 \in after[word2]
          /\ i + bit2 >= WordBits => i + bit2 - WordBits \in after[word2 + 1]
    BY <1>3, GetMember, i \in Int, i \in 0 .. length2 - 1
  <2>2. i \in BitsliceGet(bitmap, word2, bit2, length2) <=>
          /\ i + bit2 < WordBits => i + bit2 \in bitmap[word2]
          /\ i + bit2 >= WordBits => i + bit2 - WordBits \in bitmap[word2 + 1]
    BY GetMember, i \in Int, i \in 0 .. length2 - 1
  <2>3. CASE i + bit2 < WordBits
    <3>1. i + bit2 \in Bits /\ Within(word2, i + bit2, word2, bit2, length2)
      BY <1>1, <1>2, <2>3 DEF Bits, Within
    <3>2. ~(i + bit2 >= WordBits) BY <1>1, <1>2, <2>3
    <3>. QED BY <1>2, <1>5, <2>1, <2>2, <2>3, <3>1, <3>2
  <2>4. CASE i + bit2 >= WordBits
    <3>1. word2 + 1 \in D BY <1>1, <1>2, <2>4 DEF IsSlice
    <3>2. i + bit2 - WordBits \in Bits /\ Within(word2 + 1, i + bit2 - WordBits, word2, bit2, length2)
      BY <1>1, <1>2, <2>4 DEF Bits, Within
    <3>3. ~(i + bit2 < WordBits) BY <1>1, <1>2, <2>4
    <3>. QED BY <1>5, <2>1, <2>2, <2>4, <3>1, <3>2, <3>3
  <2>. QED BY <1>1, <1>2, <2>3, <2>4
<1>. QED BY <1>4, <1>6

-----------------------------------------------------------------------------
(* Bitmaps by place.                                                       *)

Bitmaps == [0 .. Words - 1 -> SUBSET Bits]
Places  == 0 .. Words * WordBits - 1
At(bitmap, p) == p % WordBits \in bitmap[p \div WordBits]

\* Multiplication is monotonic.
LEMMA TimesGrows ==
  ASSUME NEW a \in Nat, NEW b \in Nat, NEW c \in Nat, a <= b
  PROVE  a * c <= b * c /\ a * c \in Nat
<1>1. PICK d \in Nat : b = a + d
  <2>1. b - a \in Nat /\ b = a + (b - a)
    OBVIOUS
  <2> QED
    BY <2>1
<1>2. b * c = a * c + d * c /\ d * c \in Nat /\ a * c \in Nat
  BY <1>1
<1> QED
  BY <1>2

\* A number as words and bits.
LEMMA Divided ==
  ASSUME NEW p \in Nat
  PROVE  /\ p \div WordBits \in Nat /\ p % WordBits \in 0 .. WordBits - 1
         /\ p = BitOf(p \div WordBits, p % WordBits)
<1>1. WordBits \in Nat /\ WordBits > 0
  BY Constants
<1> DEFINE q == p \div WordBits  r == p % WordBits
<1>2. q \in Int /\ r \in 0 .. WordBits - 1 /\ p = WordBits * q + r
  BY <1>1
<1> HIDE DEF q, r
<1>3. q >= 0
  <2>1. SUFFICES ASSUME q <= -1 PROVE FALSE
    BY <1>2
  <2>2. PICK d \in Nat : q = -1 - d
    <3>1. -1 - q \in Nat /\ q = -1 - (-1 - q)
      BY <1>2, <2>1
    <3> QED
      BY <3>1
  <2>3. WordBits * q = -WordBits - WordBits * d /\ WordBits * d \in Nat
    BY <1>1, <2>2
  <2> QED
    BY <1>1, <1>2, <2>3
<1>4. p = BitOf(q, r)
  BY <1>1, <1>2 DEF BitOf
<1> QED
  BY <1>2, <1>3, <1>4 DEF q, r

\* There is one way to do so.
LEMMA DividedOnce ==
  ASSUME NEW w \in Nat, NEW b \in 0 .. WordBits - 1, NEW q \in Nat, NEW r \in 0 .. WordBits - 1,
         w * WordBits + b = q * WordBits + r
  PROVE  w = q /\ b = r
<1>1. WordBits \in Nat /\ WordBits > 0 /\ w * WordBits \in Nat /\ q * WordBits \in Nat
  BY Constants
<1>2. ASSUME w + 1 <= q PROVE FALSE
  <2>1. (w + 1) * WordBits <= q * WordBits
    BY <1>1, <1>2, TimesGrows
  <2>2. (w + 1) * WordBits = w * WordBits + WordBits
    BY <1>1
  <2> QED
    BY <1>1, <2>1, <2>2
<1>3. ASSUME q + 1 <= w PROVE FALSE
  <2>1. (q + 1) * WordBits <= w * WordBits
    BY <1>1, <1>3, TimesGrows
  <2>2. (q + 1) * WordBits = q * WordBits + WordBits
    BY <1>1
  <2> QED
    BY <1>1, <2>1, <2>2
<1>4. w = q
  BY <1>2, <1>3
<1> QED
  BY <1>1, <1>4

\* A place is a bit of a word.
LEMMA PlaceIs ==
  ASSUME NEW p \in Places
  PROVE  /\ p \in Nat /\ p \div WordBits \in 0 .. Words - 1 /\ p % WordBits \in Bits
         /\ p = BitOf(p \div WordBits, p % WordBits)
<1>1. WordBits \in Nat /\ WordBits > 0 /\ Words \in Nat /\ Words * WordBits \in Nat
  BY Constants
<1>2. p \in Nat /\ p < Words * WordBits
  BY <1>1 DEF Places
<1> DEFINE q == p \div WordBits  r == p % WordBits
<1> HIDE DEF q, r
<1>3. q \in Nat /\ r \in 0 .. WordBits - 1 /\ p = q * WordBits + r
  <2>1. q \in Nat /\ r \in 0 .. WordBits - 1 /\ p = BitOf(q, r)
    BY <1>2, Divided DEF q, r
  <2> QED
    BY <2>1 DEF BitOf
<1>4. q < Words
  <2>1. SUFFICES ASSUME Words <= q PROVE FALSE
    BY <1>1, <1>3
  <2>2. Words * WordBits <= q * WordBits /\ q * WordBits \in Nat
    BY <1>1, <1>3, <2>1, TimesGrows
  <2> QED
    BY <1>1, <1>2, <1>3, <2>2
<1> QED
  BY <1>1, <1>2, <1>3, <1>4 DEF q, r, Bits, BitOf

\* A copy leaves a bitmap.
LEMMA CopiedTyped ==
  ASSUME NEW bitmap \in Bitmaps, NEW at, NEW n, NEW value
  PROVE  Copied(bitmap, at, n, value) \in Bitmaps
BY DEF Copied, Bitmaps

\* What a copy leaves at a place.
LEMMA CopiedAt ==
  ASSUME NEW bitmap \in Bitmaps, NEW at \in Nat, NEW n \in Nat, NEW value, NEW p \in Places
  PROVE  At(Copied(bitmap, at, n, value), p) <=>
           IF p \in at .. at + n - 1 THEN p - at \in value ELSE At(bitmap, p)
<1> DEFINE q == p \div WordBits  r == p % WordBits
<1>1. p \in Nat /\ q \in 0 .. Words - 1 /\ r \in Bits /\ p = BitOf(q, r)
  BY PlaceIs
<1>2. q \in DOMAIN bitmap
  BY <1>1 DEF Bitmaps
<1> HIDE DEF q, r
<1>3. Copied(bitmap, at, n, value)[q] =
        {b \in Bits : IF BitOf(q, b) \in at .. at + n - 1 THEN BitOf(q, b) - at \in value ELSE b \in bitmap[q]}
  BY <1>2 DEF Copied
<1>4. r \in Copied(bitmap, at, n, value)[q] <=>
        IF BitOf(q, r) \in at .. at + n - 1 THEN BitOf(q, r) - at \in value ELSE r \in bitmap[q]
  BY <1>1, <1>3
<1>5. r \in Copied(bitmap, at, n, value)[q] <=> IF p \in at .. at + n - 1 THEN p - at \in value ELSE r \in bitmap[q]
  BY <1>1, <1>4
<1> QED
  BY <1>5 DEF At, q, r

\* The bits taken are those at their places.
LEMMA TakenIs ==
  ASSUME NEW bitmap, NEW at, NEW n
  PROVE  Taken(bitmap, at, n) = {i \in 0 .. n - 1 : At(bitmap, at + i)}
BY DEF Taken, At

-----------------------------------------------------------------------------
(* Slices by place.                                                        *)

\* A slice that ends in the bitmap.
InRoom(offset, n) == offset \in Nat /\ n \in 1 .. WordBits /\ offset + n <= Words * WordBits

\* The words it needs are there.
LEMMA RoomIsSlice ==
  ASSUME NEW offset, NEW n, InRoom(offset, n)
  PROVE  IsSlice(0 .. Words - 1, offset \div WordBits, offset % WordBits, n)
<1> DEFINE q == offset \div WordBits  r == offset % WordBits
<1>1. WordBits \in Nat /\ WordBits > 0 /\ Words \in Nat /\ Words * WordBits \in Nat
  BY Constants
<1>2. offset \in Nat /\ n \in 1 .. WordBits /\ offset + n <= Words * WordBits
  BY DEF InRoom
<1>3. offset \in Places
  BY <1>1, <1>2 DEF Places
<1>4. q \in 0 .. Words - 1 /\ r \in Bits
  BY <1>3, PlaceIs
<1> HIDE DEF q, r
<1>5. offset = q * WordBits + r /\ r \in Nat /\ q \in Nat
  <2>1. q \in Nat /\ r \in 0 .. WordBits - 1 /\ offset = BitOf(q, r)
    BY <1>2, Divided DEF q, r
  <2> QED
    BY <1>1, <2>1 DEF BitOf
<1>6. ASSUME n + r > WordBits PROVE q + 1 \in 0 .. Words - 1
  <2>1. SUFFICES ASSUME Words <= q + 1 PROVE FALSE
    BY <1>1, <1>4
  <2>2. Words * WordBits <= (q + 1) * WordBits
    BY <1>1, <1>5, <2>1, TimesGrows
  <2>3. (q + 1) * WordBits = q * WordBits + WordBits /\ q * WordBits \in Nat
    BY <1>1, <1>5
  <2> QED
    BY <1>1, <1>2, <1>5, <1>6, <2>2, <2>3
<1>7. 0 .. Words - 1 \subseteq Nat
  BY <1>1
<1> QED
  BY <1>2, <1>4, <1>6, <1>7 DEF q, r, IsSlice

\* Being within a slice, and the bit of the slice, by place.
LEMMA WithinIs ==
  ASSUME NEW offset, NEW n, InRoom(offset, n), NEW p \in Places
  PROVE  LET q == offset \div WordBits  r == offset % WordBits
             w == p \div WordBits       b == p % WordBits
         IN /\ Within(w, b, q, r, n) <=> p \in offset .. offset + n - 1
            /\ w = q => p - offset = b - r
            /\ w = q + 1 => p - offset = b + WordBits - r
<1> DEFINE q == offset \div WordBits  r == offset % WordBits
           w == p \div WordBits       b == p % WordBits
<1>1. WordBits \in Nat /\ WordBits > 0 /\ offset \in Nat /\ n \in 1 .. WordBits /\ p \in Nat
  BY Constants, PlaceIs DEF InRoom
<1> HIDE DEF q, r, w, b
<1>2. q \in Nat /\ r \in 0 .. WordBits - 1 /\ offset = q * WordBits + r
  <2>1. q \in Nat /\ r \in 0 .. WordBits - 1 /\ offset = BitOf(q, r)
    BY <1>1, Divided DEF q, r
  <2> QED
    BY <2>1 DEF BitOf
<1>3. w \in Nat /\ b \in 0 .. WordBits - 1 /\ p = w * WordBits + b
  <2>1. w \in Nat /\ b \in 0 .. WordBits - 1 /\ p = BitOf(w, b)
    BY <1>1, Divided DEF w, b
  <2> QED
    BY <2>1 DEF BitOf
<1>4. q * WordBits \in Nat /\ w * WordBits \in Nat
      /\ (q + 1) * WordBits = q * WordBits + WordBits /\ (q + 2) * WordBits = q * WordBits + WordBits + WordBits
      /\ (w + 1) * WordBits = w * WordBits + WordBits
  BY <1>1, <1>2, <1>3
<1> DEFINE x == q * WordBits  y == w * WordBits
<1>5. /\ x \in Nat /\ y \in Nat /\ offset = x + r /\ p = y + b
      /\ w = q => y = x
      /\ w = q + 1 => y = x + WordBits
      /\ w + 1 <= q => y + WordBits <= x
      /\ q + 2 <= w => x + WordBits + WordBits <= y
  <2>1. w = q + 1 => y = x + WordBits
    BY <1>4
  <2>2. w + 1 <= q => y + WordBits <= x
    BY <1>1, <1>2, <1>3, <1>4, TimesGrows
  <2>3. q + 2 <= w => x + WordBits + WordBits <= y
    BY <1>1, <1>2, <1>3, <1>4, TimesGrows
  <2> QED
    BY <1>2, <1>3, <1>4, <2>1, <2>2, <2>3
<1> HIDE DEF x, y
<1>6. w = q \/ w = q + 1 \/ w + 1 <= q \/ q + 2 <= w
  BY <1>2, <1>3
<1>7. w # q + 1 \/ w # q
  BY <1>2, <1>3
<1>8. /\ w = q => p - offset = b - r
      /\ w = q + 1 => p - offset = b + WordBits - r
  BY <1>1, <1>2, <1>3, <1>5
<1>9. Within(w, b, q, r, n) <=> p \in offset .. offset + n - 1
  <2>1. CASE w = q
    BY <1>1, <1>2, <1>3, <1>5, <1>7, <2>1 DEF Within
  <2>2. CASE w = q + 1
    BY <1>1, <1>2, <1>3, <1>5, <1>7, <2>2 DEF Within
  <2>3. CASE w + 1 <= q
    <3>1. w # q /\ w # q + 1
      BY <1>2, <1>3, <2>3
    <3>2. p < offset
      BY <1>1, <1>2, <1>3, <1>5, <2>3
    <3> QED
      BY <1>1, <3>1, <3>2 DEF Within
  <2>4. CASE q + 2 <= w
    <3>1. w # q /\ w # q + 1
      BY <1>2, <1>3, <2>4
    <3>2. offset + n <= p
      BY <1>1, <1>2, <1>3, <1>5, <2>4
    <3> QED
      BY <1>1, <3>1, <3>2 DEF Within
  <2> QED
    BY <1>6, <2>1, <2>2, <2>3, <2>4
<1> QED
  BY <1>8, <1>9 DEF q, r, w, b

\* What COE_bitsliceSet leaves at a place.
LEMMA SliceSetAt ==
  ASSUME NEW bitmap \in Bitmaps, NEW offset, NEW n, InRoom(offset, n),
         NEW value \in SUBSET (0 .. n - 1), NEW p \in Places
  PROVE  At(BitsliceSet(bitmap, offset \div WordBits, offset % WordBits, n, value), p) <=>
           IF p \in offset .. offset + n - 1 THEN p - offset \in value ELSE At(bitmap, p)
<1> DEFINE D == 0 .. Words - 1
           q == offset \div WordBits  r == offset % WordBits
           w == p \div WordBits       b == p % WordBits
           after == BitsliceSet(bitmap, q, r, n, value)
<1>1. IsSlice(D, q, r, n)
  BY RoomIsSlice
<1>2. w \in D /\ b \in Bits
  BY PlaceIs
<1>3. bitmap \in [D -> SUBSET Bits]
  BY DEF Bitmaps
<1>4. b \in after[w] <=>
        IF Within(w, b, q, r, n) THEN IF w = q THEN b - r \in value ELSE b + WordBits - r \in value
                                 ELSE b \in bitmap[w]
  <2> HIDE DEF D, q, r, w, b
  <2> QED
    BY <1>1, <1>2, <1>3, SetMember
<1>5. /\ Within(w, b, q, r, n) <=> p \in offset .. offset + n - 1
      /\ w = q => p - offset = b - r
      /\ w = q + 1 => p - offset = b + WordBits - r
  BY WithinIs
<1>6. At(after, p) <=> b \in after[w]
  BY DEF At
<1>7. At(bitmap, p) <=> b \in bitmap[w]
  BY DEF At
<1>8. Within(w, b, q, r, n) => w = q \/ w = q + 1
  BY DEF Within
<1> HIDE DEF D, q, r, w, b, after
<1>9. At(after, p) <=> IF p \in offset .. offset + n - 1 THEN p - offset \in value ELSE At(bitmap, p)
  <2>1. CASE Within(w, b, q, r, n)
    BY <1>4, <1>5, <1>6, <1>8, <2>1
  <2>2. CASE ~Within(w, b, q, r, n)
    BY <1>4, <1>5, <1>6, <1>7, <2>2
  <2> QED
    BY <2>1, <2>2
<1> QED
  BY <1>9 DEF after, q, r

\* What COE_bitsliceGet takes from a place.
LEMMA SliceGetIs ==
  ASSUME NEW bitmap \in Bitmaps, NEW offset, NEW n, InRoom(offset, n)
  PROVE  BitsliceGet(bitmap, offset \div WordBits, offset % WordBits, n) = {k \in 0 .. n - 1 : At(bitmap, offset + k)}
<1> DEFINE D == 0 .. Words - 1
           q == offset \div WordBits  r == offset % WordBits
           slice == BitsliceGet(bitmap, q, r, n)
<1>1. IsSlice(D, q, r, n) /\ bitmap \in [D -> SUBSET Bits]
  BY RoomIsSlice DEF Bitmaps
<1>2. slice \subseteq 0 .. n - 1
  BY DEF BitsliceGet, Mask
<1>3. WordBits \in Nat /\ WordBits > 0 /\ Words * WordBits \in Nat
      /\ offset \in Nat /\ n \in 1 .. WordBits /\ offset + n <= Words * WordBits
  BY Constants DEF InRoom
<1>4. q \in Nat /\ r \in 0 .. WordBits - 1 /\ offset = q * WordBits + r
  <2>1. q \in Nat /\ r \in 0 .. WordBits - 1 /\ offset = BitOf(q, r)
    BY <1>3, Divided
  <2> HIDE DEF q, r
  <2> QED
    BY <2>1 DEF BitOf
<1>5. ASSUME NEW k \in 0 .. n - 1 PROVE k \in slice <=> At(bitmap, offset + k)
  <2> DEFINE p == offset + k  w == p \div WordBits  b == p % WordBits
  <2>1. p \in Places /\ p \in Nat /\ k \in Int
    BY <1>3 DEF Places
  <2>2. w \in Nat /\ b \in 0 .. WordBits - 1 /\ p = w * WordBits + b
    <3> HIDE DEF w, b, p
    <3>1. w \in Nat /\ b \in 0 .. WordBits - 1 /\ p = BitOf(w, b)
      BY <2>1, Divided DEF w, b
    <3> QED
      BY <3>1 DEF BitOf
  <2>3. At(bitmap, p) <=> b \in bitmap[w]
    BY DEF At
  <2>4. k \in slice <=> /\ k \in 0 .. n - 1
                        /\ k + r < WordBits => k + r \in bitmap[q]
                        /\ k + r >= WordBits => k + r - WordBits \in bitmap[q + 1]
    <3> HIDE DEF D, q, r
    <3> QED
      BY <1>1, <2>1, GetMember
  <2>5. p = offset + k
    OBVIOUS
  <2> HIDE DEF q, r, slice, p, w, b
  <2>6. CASE k + r < WordBits
    <3>1. k + r \in 0 .. WordBits - 1 /\ p = q * WordBits + (k + r)
      BY <1>3, <1>4, <2>5, <2>6
    <3>2. w = q /\ b = k + r
      BY <1>4, <2>2, <3>1, DividedOnce
    <3>3. ~(k + r >= WordBits)
      BY <1>3, <1>4, <2>6
    <3> QED
      BY <2>3, <2>4, <2>5, <2>6, <3>2, <3>3
  <2>7. CASE k + r >= WordBits
    <3>1. k + r - WordBits \in 0 .. WordBits - 1 /\ p = (q + 1) * WordBits + (k + r - WordBits) /\ q + 1 \in Nat
      <4>1. (q + 1) * WordBits = q * WordBits + WordBits /\ q * WordBits \in Nat
        BY <1>3, <1>4
      <4> QED
        BY <1>3, <1>4, <2>5, <2>7, <4>1
    <3>2. w = q + 1 /\ b = k + r - WordBits
      BY <2>2, <3>1, DividedOnce
    <3>3. ~(k + r < WordBits)
      BY <1>3, <1>4, <2>7
    <3> QED
      BY <2>3, <2>4, <2>5, <2>7, <3>2, <3>3
  <2> QED
    BY <1>3, <1>4, <2>6, <2>7
<1>6. slice = {k \in 0 .. n - 1 : At(bitmap, offset + k)}
  <2> HIDE DEF slice
  <2> QED
    BY <1>2, <1>5
<1> QED
  BY <1>6

-----------------------------------------------------------------------------
(* One entry packed and unpacked.                                          *)

\* The objects, none with more bits than it has.
Values == {f \in [Objects -> SUBSET Nat] : \A o \in Objects : f[o] \subseteq 0 .. BitLength[o] - 1}

\* An entry that begins on a byte is copied from there.
LEMMA ByteStartIs ==
  ASSUME NEW offset \in Nat, offset % ByteBits = 0
  PROVE  ByteStart(offset) = offset
<1>1. ByteBits \in Nat /\ ByteBits > 0
  BY Constants
<1> DEFINE q == offset \div ByteBits
<1>2. q \in Int /\ offset = ByteBits * q
  BY <1>1
<1>3. ByteStart(offset) = q * ByteBits
  BY DEF ByteStart
<1> HIDE DEF q
<1> QED
  BY <1>1, <1>2, <1>3

\* The bytes taken hold all bits, and no other if these fill them.
LEMMA BytesHold ==
  ASSUME NEW n \in Nat
  PROVE  /\ Bytes(n) \in Nat /\ Bytes(n) * ByteBits \in Nat /\ n <= Bytes(n) * ByteBits
         /\ n % ByteBits = 0 => Bytes(n) * ByteBits = n
<1>1. ByteBits \in Nat /\ ByteBits > 0
  BY Constants
<1> DEFINE a == n + ByteBits - 1
           q == a \div ByteBits  r == a % ByteBits
           k == n \div ByteBits
<1>2. q \in Int /\ r \in 0 .. ByteBits - 1 /\ a = ByteBits * q + r /\ Bytes(n) = q
  BY <1>1 DEF Bytes
<1>3. n % ByteBits = 0 => k \in Int /\ n = ByteBits * k
  BY <1>1
<1> HIDE DEF q, r, k
<1>4. n <= ByteBits * q /\ ByteBits * q < n + ByteBits /\ ByteBits * q \in Int
  BY <1>1, <1>2
<1>5. q >= 0
  <2>1. SUFFICES ASSUME q <= -1 PROVE FALSE
    BY <1>2
  <2>2. PICK d \in Nat : q = -1 - d
    <3>1. -1 - q \in Nat /\ q = -1 - (-1 - q)
      BY <1>2, <2>1
    <3> QED
      BY <3>1
  <2>3. ByteBits * q = -ByteBits - ByteBits * d /\ ByteBits * d \in Nat
    BY <1>1, <2>2
  <2> QED
    BY <1>1, <1>4, <2>3
<1>6. n % ByteBits = 0 => q = k
  <2>1. SUFFICES ASSUME k \in Int, n = ByteBits * k PROVE q = k
    BY <1>3
  <2>2. ASSUME NEW d \in Nat, q = k + 1 + d PROVE FALSE
    <3>1. ByteBits * q = ByteBits * k + ByteBits + ByteBits * d /\ ByteBits * d \in Nat
      BY <1>1, <2>1, <2>2
    <3> QED
      BY <1>1, <1>4, <2>1, <3>1
  <2>3. ASSUME NEW d \in Nat, q = k - 1 - d PROVE FALSE
    <3>1. ByteBits * q = ByteBits * k - ByteBits - ByteBits * d /\ ByteBits * d \in Nat
      BY <1>1, <2>1, <2>3
    <3> QED
      BY <1>1, <1>4, <2>1, <3>1
  <2>4. SUFFICES ASSUME q # k PROVE FALSE
    OBVIOUS
  <2>5. CASE k < q
    <3>1. q - k - 1 \in Nat /\ q = k + 1 + (q - k - 1)
      BY <1>2, <2>1, <2>5
    <3> QED
      BY <2>2, <3>1
  <2>6. CASE q < k
    <3>1. k - 1 - q \in Nat /\ q = k - 1 - (k - 1 - q)
      BY <1>2, <2>1, <2>6
    <3> QED
      BY <2>3, <3>1
  <2> QED
    BY <1>2, <2>1, <2>4, <2>5, <2>6
<1>7. q * ByteBits = ByteBits * q
  BY <1>1, <1>2
<1> QED
  BY <1>1, <1>2, <1>3, <1>4, <1>5, <1>6, <1>7

\* What sizeOfPDO lets pass and Regular asks of an entry of a map.
Lies(e) ==
  /\ e.obj \in Objects /\ e.offset \in Nat /\ e.offset + BitLength[e.obj] <= Words * WordBits
  /\ BitLength[e.obj] > WordBits => e.offset % ByteBits = 0

\* The bits where an entry lies.
Place(bitmap, e) == {k \in 0 .. BitLength[e.obj] - 1 : At(bitmap, e.offset + k)}

\* What is copied of an object wider than a word is that object.
LEMMA WideEntry ==
  ASSUME NEW e, Lies(e), BitLength[e.obj] > WordBits
  PROVE  ByteStart(e.offset) = e.offset /\ Bytes(BitLength[e.obj]) * ByteBits = BitLength[e.obj]
BY Constants, ByteStartIs, BytesHold DEF Lies

\* The others are slices.
LEMMA NarrowEntry ==
  ASSUME NEW e, Lies(e), ~(BitLength[e.obj] > WordBits)
  PROVE  InRoom(e.offset, BitLength[e.obj])
BY Constants DEF Lies, InRoom

\* Packing an entry, even one that does not fit, leaves a bitmap.
LEMMA PackTyped ==
  ASSUME NEW objects, NEW bitmap \in Bitmaps, NEW e
  PROVE  Pack1(objects, bitmap, e) \in Bitmaps
<1>1. ASSUME NEW m \in Bitmaps, NEW w, NEW mask, NEW v, v \subseteq Bits
      PROVE  [m EXCEPT ![w] = Merge(@, mask, v)] \in Bitmaps
  <2>1. CASE w \in DOMAIN m
    BY <1>1, <2>1 DEF Merge, Bitmaps
  <2>2. CASE w \notin DOMAIN m
    BY <1>1, <2>2 DEF Bitmaps
  <2> QED
    BY <2>1, <2>2
<1>2. ASSUME NEW word, NEW bit, NEW length, NEW value
      PROVE  BitsliceSet(bitmap, word, bit, length, value) \in Bitmaps
  <2> DEFINE v == Shl(value, bit)  u == Shr(value, WordBits - bit)
             low == [bitmap EXCEPT ![word] = Merge(@, Shl(Mask(length), bit), v)]
             high == [low EXCEPT ![word + 1] = Merge(@, Shr(Mask(length), WordBits - bit), u)]
  <2>1. v \subseteq Bits /\ u \subseteq Bits
    BY DEF Shl, Shr
  <2>2. BitsliceSet(bitmap, word, bit, length, value) = IF length + bit > WordBits THEN high ELSE low
    BY DEF BitsliceSet
  <2> HIDE DEF v, u
  <2>3. low \in Bitmaps
    BY <1>1, <2>1
  <2> HIDE DEF low
  <2>4. high \in Bitmaps
    BY <1>1, <2>1, <2>3
  <2> QED
    BY <2>2, <2>3, <2>4
<1> QED
  BY <1>2, CopiedTyped DEF Pack1

\* Packing puts the object where its entry lies and leaves the other places.
LEMMA PackAt ==
  ASSUME NEW objects \in Values, NEW bitmap \in Bitmaps, NEW e, Lies(e), NEW p \in Places
  PROVE  At(Pack1(objects, bitmap, e), p) <=>
           IF p \in e.offset .. e.offset + BitLength[e.obj] - 1 THEN p - e.offset \in objects[e.obj]
                                                                ELSE At(bitmap, p)
<1> DEFINE n == BitLength[e.obj]
<1>1. e.obj # Pad /\ e.obj \in Objects /\ n \in Nat /\ e.offset \in Nat /\ objects[e.obj] \in SUBSET (0 .. n - 1)
  BY Constants DEF Lies, Values
<1>2. CASE n > WordBits
  <2>1. Pack1(objects, bitmap, e) = Copied(bitmap, e.offset, n, objects[e.obj])
    BY <1>1, <1>2, WideEntry DEF Pack1
  <2> QED
    BY <1>1, <2>1, CopiedAt
<1>3. CASE ~(n > WordBits)
  <2>1. Pack1(objects, bitmap, e) =
          BitsliceSet(bitmap, e.offset \div WordBits, e.offset % WordBits, n, objects[e.obj])
    BY <1>1, <1>3 DEF Pack1
  <2>2. InRoom(e.offset, n)
    BY <1>3, NarrowEntry
  <2> HIDE DEF n
  <2>3. At(BitsliceSet(bitmap, e.offset \div WordBits, e.offset % WordBits, n, objects[e.obj]), p) <=>
          IF p \in e.offset .. e.offset + n - 1 THEN p - e.offset \in objects[e.obj] ELSE At(bitmap, p)
    BY <1>1, <2>2, SliceSetAt
  <2> QED
    BY <2>1, <2>3 DEF n
<1> QED
  BY <1>2, <1>3

\* Unpacking an entry leaves objects of their own lengths.
LEMMA UnpackTyped ==
  ASSUME NEW bitmap, NEW objects \in Values, NEW e
  PROVE  Unpack1(bitmap, objects, e) \in Values
<1>1. CASE e.obj = Pad
  BY <1>1 DEF Unpack1
<1>2. CASE e.obj # Pad
  <2> DEFINE n == BitLength[e.obj]
             v == IF n > WordBits THEN Taken(bitmap, ByteStart(e.offset), Bytes(n) * ByteBits)
                  ELSE BitsliceGet(bitmap, e.offset \div WordBits, e.offset % WordBits, n)
  <2>1. Unpack1(bitmap, objects, e) = [objects EXCEPT ![e.obj] = v]
    BY <1>2 DEF Unpack1
  <2>2. CASE e.obj \in Objects
    <3>1. n \in Nat /\ v \subseteq 0 .. n - 1
      <4>1. CASE n > WordBits
        <5>1. n \in Nat /\ n % ByteBits = 0
          BY Constants, <2>2, <4>1
        <5>2. v = Taken(bitmap, ByteStart(e.offset), n)
          BY <4>1, <5>1, BytesHold
        <5> HIDE DEF v, n
        <5> QED
          BY <5>1, <5>2 DEF Taken
      <4>2. CASE ~(n > WordBits)
        BY Constants, <2>2, <4>2 DEF BitsliceGet, Mask
      <4> QED
        BY <4>1, <4>2
    <3>2. n = BitLength[e.obj]
      OBVIOUS
    <3> HIDE DEF v, n
    <3>3. v \subseteq Nat
      BY <3>1
    <3> QED
      BY <2>1, <2>2, <3>1, <3>2, <3>3 DEF Values
  <2>3. CASE e.obj \notin Objects
    <3> HIDE DEF v
    <3>1. [objects EXCEPT ![e.obj] = v] = objects
      BY <2>3 DEF Values
    <3> QED
      BY <2>1, <3>1
  <2> QED
    BY <2>2, <2>3
<1> QED
  BY <1>1, <1>2

\* Unpacking gives the object the bits where its entry lies.
LEMMA UnpackIs ==
  ASSUME NEW bitmap \in Bitmaps, NEW objects \in Values, NEW e, Lies(e)
  PROVE  Unpack1(bitmap, objects, e) = [objects EXCEPT ![e.obj] = Place(bitmap, e)]
<1> DEFINE n == BitLength[e.obj]
<1>1. e.obj # Pad /\ e.obj \in Objects /\ n \in Nat /\ e.offset \in Nat
  BY Constants DEF Lies
<1>2. CASE n > WordBits
  <2>1. Taken(bitmap, ByteStart(e.offset), Bytes(n) * ByteBits) = Place(bitmap, e)
    BY <1>2, WideEntry, TakenIs DEF Place
  <2> QED
    BY <1>1, <1>2, <2>1 DEF Unpack1
<1>3. CASE ~(n > WordBits)
  <2>1. InRoom(e.offset, n)
    BY <1>3, NarrowEntry
  <2>2. BitsliceGet(bitmap, e.offset \div WordBits, e.offset % WordBits, n) = Place(bitmap, e)
    <3>1. Place(bitmap, e) = {k \in 0 .. n - 1 : At(bitmap, e.offset + k)}
      BY DEF Place
    <3> HIDE DEF n
    <3> QED
      BY <2>1, <3>1, SliceGetIs
  <2> QED
    BY <1>1, <1>3, <2>2 DEF Unpack1
<1> QED
  BY <1>2, <1>3

-----------------------------------------------------------------------------
(* All entries packed and unpacked.                                        *)

\* COE_pdoPack goes through the map entry by entry.
LEMMA PackedIs ==
  ASSUME NEW map, Len(map) \in Nat, NEW objects, NEW bitmap \in Bitmaps
  PROVE  /\ Packed(map, objects, bitmap) \in [0 .. Len(map) -> Bitmaps]
         /\ Packed(map, objects, bitmap)[0] = bitmap
         /\ \A i \in 1 .. Len(map) :
              Packed(map, objects, bitmap)[i] = Pack1(objects, Packed(map, objects, bitmap)[i - 1], map[i])
<1> DEFINE n == Len(map)
           step == [i \in 1 .. n |-> [b \in Bitmaps |-> Pack1(objects, b, map[i])]]
           after == CHOOSE g : g = [i \in 0 .. n |-> IF i = 0 THEN bitmap ELSE Pack1(objects, g[i - 1], map[i])]
<1>1. step \in [1 .. n -> [Bitmaps -> Bitmaps]]
  BY PackTyped
<1>2. PICK f \in [0 .. n -> Bitmaps] : Follows(f, n, bitmap, step)
  <2> HIDE DEF n, step
  <2> QED
    BY <1>1, Recursion DEF n
<1>3. f = [i \in 0 .. n |-> IF i = 0 THEN bitmap ELSE Pack1(objects, f[i - 1], map[i])]
  <2>1. ASSUME NEW i \in 0 .. n PROVE f[i] = IF i = 0 THEN bitmap ELSE Pack1(objects, f[i - 1], map[i])
    <3>1. CASE i = 0
      BY <1>2, <3>1 DEF Follows
    <3>2. CASE i # 0
      <4>1. i \in 1 .. n /\ i - 1 \in 0 .. n /\ f[i - 1] \in Bitmaps
        BY <3>2
      <4>2. f[i] = step[i][f[i - 1]]
        BY <1>2, <4>1 DEF Follows
      <4>3. step[i] = [b \in Bitmaps |-> Pack1(objects, b, map[i])]
        BY <4>1
      <4> HIDE DEF step
      <4> QED
        BY <3>2, <4>1, <4>2, <4>3
    <3> QED
      BY <3>1, <3>2
  <2> QED
    BY <2>1
<1>4. after = [i \in 0 .. n |-> IF i = 0 THEN bitmap ELSE Pack1(objects, after[i - 1], map[i])]
  <2> HIDE DEF step
  <2> QED
    BY <1>3
<1>5. Packed(map, objects, bitmap) = after
  BY DEF Packed
<1> HIDE DEF after, step
<1>6. \A i \in 0 .. n : after[i] = IF i = 0 THEN bitmap ELSE Pack1(objects, after[i - 1], map[i])
  BY <1>4
<1>7. \A i \in 0 .. n : after[i] \in Bitmaps
  <2> DEFINE T == {i \in 0 .. n : after[i] \in Bitmaps}
  <2>1. 0 \in T
    BY <1>6
  <2>2. ASSUME NEW i \in 0 .. n - 1, i \in T PROVE i + 1 \in T
    <3>1. i + 1 \in 0 .. n /\ i + 1 # 0 /\ (i + 1) - 1 = i
      OBVIOUS
    <3>2. after[i + 1] = Pack1(objects, after[i], map[i + 1])
      BY <1>6, <3>1
    <3> QED
      BY <2>2, <3>1, <3>2, PackTyped
  <2> HIDE DEF T
  <2>3. \A i \in 0 .. n : i \in T
    BY <2>1, <2>2, UpTo
  <2> QED
    BY <2>3 DEF T
<1>8. after \in [0 .. n -> Bitmaps]
  <2>1. DOMAIN after = 0 .. n /\ after = [i \in DOMAIN after |-> after[i]]
    BY <1>4
  <2> QED
    BY <1>7, <2>1
<1>9. after[0] = bitmap /\ \A i \in 1 .. n : after[i] = Pack1(objects, after[i - 1], map[i])
  BY <1>6
<1> QED
  BY <1>5, <1>8, <1>9

\* COE_pdoUnpack goes through the map entry by entry.
LEMMA UnpackedIs ==
  ASSUME NEW map, Len(map) \in Nat, NEW bitmap, NEW objects \in Values
  PROVE  /\ Unpacked(map, bitmap, objects) \in [0 .. Len(map) -> Values]
         /\ Unpacked(map, bitmap, objects)[0] = objects
         /\ \A i \in 1 .. Len(map) :
              Unpacked(map, bitmap, objects)[i] = Unpack1(bitmap, Unpacked(map, bitmap, objects)[i - 1], map[i])
<1> DEFINE n == Len(map)
           step == [i \in 1 .. n |-> [v \in Values |-> Unpack1(bitmap, v, map[i])]]
           after == CHOOSE g : g = [i \in 0 .. n |-> IF i = 0 THEN objects ELSE Unpack1(bitmap, g[i - 1], map[i])]
<1>1. step \in [1 .. n -> [Values -> Values]]
  BY UnpackTyped
<1>2. PICK f \in [0 .. n -> Values] : Follows(f, n, objects, step)
  <2> HIDE DEF n, step
  <2> QED
    BY <1>1, Recursion DEF n
<1>3. f = [i \in 0 .. n |-> IF i = 0 THEN objects ELSE Unpack1(bitmap, f[i - 1], map[i])]
  <2>1. ASSUME NEW i \in 0 .. n PROVE f[i] = IF i = 0 THEN objects ELSE Unpack1(bitmap, f[i - 1], map[i])
    <3>1. CASE i = 0
      BY <1>2, <3>1 DEF Follows
    <3>2. CASE i # 0
      <4>1. i \in 1 .. n /\ i - 1 \in 0 .. n /\ f[i - 1] \in Values
        BY <3>2
      <4>2. f[i] = step[i][f[i - 1]]
        BY <1>2, <4>1 DEF Follows
      <4>3. step[i] = [v \in Values |-> Unpack1(bitmap, v, map[i])]
        BY <4>1
      <4> HIDE DEF step
      <4> QED
        BY <3>2, <4>1, <4>2, <4>3
    <3> QED
      BY <3>1, <3>2
  <2> QED
    BY <2>1
<1>4. after = [i \in 0 .. n |-> IF i = 0 THEN objects ELSE Unpack1(bitmap, after[i - 1], map[i])]
  <2> HIDE DEF step
  <2> QED
    BY <1>3
<1>5. Unpacked(map, bitmap, objects) = after
  BY DEF Unpacked
<1> HIDE DEF after, step
<1>6. \A i \in 0 .. n : after[i] = IF i = 0 THEN objects ELSE Unpack1(bitmap, after[i - 1], map[i])
  BY <1>4
<1>7. \A i \in 0 .. n : after[i] \in Values
  <2> DEFINE T == {i \in 0 .. n : after[i] \in Values}
  <2>1. 0 \in T
    BY <1>6
  <2>2. ASSUME NEW i \in 0 .. n - 1, i \in T PROVE i + 1 \in T
    <3>1. i + 1 \in 0 .. n /\ i + 1 # 0 /\ (i + 1) - 1 = i
      OBVIOUS
    <3>2. after[i + 1] = Unpack1(bitmap, after[i], map[i + 1])
      BY <1>6, <3>1
    <3> QED
      BY <2>2, <3>1, <3>2, UnpackTyped
  <2> HIDE DEF T
  <2>3. \A i \in 0 .. n : i \in T
    BY <2>1, <2>2, UpTo
  <2> QED
    BY <2>3 DEF T
<1>8. after \in [0 .. n -> Values]
  <2>1. DOMAIN after = 0 .. n /\ after = [i \in DOMAIN after |-> after[i]]
    BY <1>4
  <2> QED
    BY <1>7, <2>1
<1>9. after[0] = objects /\ \A i \in 1 .. n : after[i] = Unpack1(bitmap, after[i - 1], map[i])
  BY <1>6
<1> QED
  BY <1>5, <1>8, <1>9

\* The entries of a mapping that is Regular.
Laid(es) ==
  \A i \in 1 .. Len(es) : es[i].obj # Pad =>
    es[i].length = BitLength[es[i].obj] /\ Lies(MapOf(es)[i])

\* The map that sizeOfPDO makes of entries.
LEMMA MapIs ==
  ASSUME NEW es \in Seq(Fields)
  PROVE  /\ Len(MapOf(es)) = Len(es) /\ Len(es) \in Nat
         /\ \A i \in 1 .. Len(es) :
              MapOf(es)[i].obj = es[i].obj /\ MapOf(es)[i].offset = Offsets(es)[i - 1]
BY FieldsOf DEF MapOf

\* Each object packed is found where its entry lies.
LEMMA PackedAt ==
  ASSUME NEW es \in Seq(Fields), Laid(es), NEW objects \in Values, NEW bitmap \in Bitmaps
  PROVE  \A j \in 1 .. Len(es) : es[j].obj # Pad =>
           \A k \in 0 .. es[j].length - 1 :
             At(Packed(MapOf(es), objects, bitmap)[Len(es)], Offsets(es)[j - 1] + k) <=> k \in objects[es[j].obj]
<1> DEFINE n == Len(es)
           at == Offsets(es)
           after == Packed(MapOf(es), objects, bitmap)
           Right(i) == \A j \in 1 .. i : es[j].obj # Pad =>
             \A k \in 0 .. es[j].length - 1 : At(after[i], at[j - 1] + k) <=> k \in objects[es[j].obj]
           T == {i \in 0 .. n : Right(i)}
<1>1. n \in Nat /\ Len(MapOf(es)) = n
  BY MapIs
<1>2. /\ after \in [0 .. n -> Bitmaps] /\ after[0] = bitmap
      /\ \A i \in 1 .. n : after[i] = Pack1(objects, after[i - 1], MapOf(es)[i])
  BY <1>1, PackedIs
<1> HIDE DEF after
<1>3. ASSUME NEW j \in 1 .. n, es[j].obj # Pad
      PROVE  /\ Lies(MapOf(es)[j]) /\ MapOf(es)[j].obj = es[j].obj /\ MapOf(es)[j].offset = at[j - 1]
             /\ es[j].length = BitLength[es[j].obj]
             /\ at[j - 1] \in Nat /\ es[j].length \in Nat /\ at[j - 1] + es[j].length <= Words * WordBits
             /\ \A k \in 0 .. es[j].length - 1 : at[j - 1] + k \in Places
  <2>1. Lies(MapOf(es)[j]) /\ MapOf(es)[j].obj = es[j].obj /\ MapOf(es)[j].offset = at[j - 1]
        /\ es[j].length = BitLength[es[j].obj]
    BY <1>3, MapIs DEF Laid
  <2>2. at[j - 1] \in Nat /\ es[j].length \in Nat
    BY EntryEnds
  <2>3. at[j - 1] + es[j].length <= Words * WordBits
    BY <2>1 DEF Lies
  <2>4. Words * WordBits \in Nat
    BY Constants
  <2>5. \A k \in 0 .. es[j].length - 1 : at[j - 1] + k \in Places
    <3> HIDE DEF at
    <3> QED
      BY <2>2, <2>3, <2>4 DEF Places
  <2> QED
    BY <2>1, <2>2, <2>3, <2>5
<1>4. \A j \in 1 .. n : \A i \in j .. n : at[j - 1] + es[j].length <= at[i]
  BY EntryEnds
<1>5. \A i \in 0 .. n : at[i] \in Nat
  BY OffsetsIs
<1> HIDE DEF at
<1>6. 0 \in T
  BY <1>1
<1>7. ASSUME NEW i \in 0 .. n - 1, i \in T PROVE i + 1 \in T
  <2> DEFINE c == i + 1
  <2>1. c \in 1 .. n /\ c - 1 = i /\ c \in 0 .. n /\ i \in 0 .. n
    BY <1>1
  <2>2. after[c] = Pack1(objects, after[i], MapOf(es)[c]) /\ after[i] \in Bitmaps
    BY <1>2, <2>1
  <2>3. Right(i)
    <3> HIDE DEF Right
    <3> QED
      BY <1>7
  <2> HIDE DEF c
  <2>4. ASSUME es[c].obj # Pad, NEW p \in Places
        PROVE  At(after[c], p) <=>
                 IF p \in at[c - 1] .. at[c - 1] + es[c].length - 1 THEN p - at[c - 1] \in objects[es[c].obj]
                                                                    ELSE At(after[i], p)
    <3> DEFINE e == MapOf(es)[c]
    <3>1. Lies(e) /\ e.obj = es[c].obj /\ e.offset = at[c - 1] /\ es[c].length = BitLength[e.obj]
      BY <1>3, <2>1, <2>4
    <3>2. after[c] = Pack1(objects, after[i], e) /\ after[i] \in Bitmaps
      BY <2>2
    <3> HIDE DEF e
    <3>3. At(after[c], p) <=>
            IF p \in e.offset .. e.offset + BitLength[e.obj] - 1 THEN p - e.offset \in objects[e.obj]
                                                                ELSE At(after[i], p)
      BY <3>1, <3>2, PackAt
    <3> QED
      BY <3>1, <3>3
  <2>5. ASSUME NEW j \in 1 .. c, es[j].obj # Pad, NEW k \in 0 .. es[j].length - 1
        PROVE  At(after[c], at[j - 1] + k) <=> k \in objects[es[j].obj]
    <3>1. j \in 1 .. n
      BY <1>1, <2>1
    <3>2. at[j - 1] + k \in Places /\ at[j - 1] \in Nat /\ es[j].length \in Nat /\ k \in Nat
      BY <1>3, <2>5, <3>1
    <3>3. CASE j = c
      <4>2. At(after[c], at[c - 1] + k) <=>
              IF at[c - 1] + k \in at[c - 1] .. at[c - 1] + es[c].length - 1
              THEN (at[c - 1] + k) - at[c - 1] \in objects[es[c].obj] ELSE At(after[i], at[c - 1] + k)
        <5> DEFINE p == at[c - 1] + k
        <5>1. p \in Places /\ es[c].obj # Pad
          BY <2>5, <3>2, <3>3
        <5> HIDE DEF p
        <5>2. At(after[c], p) <=>
                IF p \in at[c - 1] .. at[c - 1] + es[c].length - 1 THEN p - at[c - 1] \in objects[es[c].obj]
                                                                   ELSE At(after[i], p)
          BY <2>4, <5>1
        <5> QED
          BY <5>2 DEF p
      <4>3. at[c - 1] + k \in at[c - 1] .. at[c - 1] + es[c].length - 1 /\ (at[c - 1] + k) - at[c - 1] = k
        BY <3>2, <3>3
      <4> QED
        BY <3>3, <4>2, <4>3
    <3>4. CASE j # c
      <4>1. j \in 1 .. i
        BY <2>1, <3>4
      <4>2. At(after[i], at[j - 1] + k) <=> k \in objects[es[j].obj]
        BY <2>3, <2>5, <4>1
      <4>3. CASE es[c].obj = Pad
        <5>1. after[c] = after[i]
          BY <2>1, <2>2, <4>3, MapIs DEF Pack1
        <5> QED
          BY <4>2, <5>1
      <4>4. CASE es[c].obj # Pad
        <5>2. At(after[c], at[j - 1] + k) <=>
                IF at[j - 1] + k \in at[c - 1] .. at[c - 1] + es[c].length - 1
                THEN (at[j - 1] + k) - at[c - 1] \in objects[es[c].obj] ELSE At(after[i], at[j - 1] + k)
          <6> DEFINE p == at[j - 1] + k
          <6>1. p \in Places
            BY <3>2
          <6> HIDE DEF p
          <6>2. At(after[c], p) <=>
                  IF p \in at[c - 1] .. at[c - 1] + es[c].length - 1 THEN p - at[c - 1] \in objects[es[c].obj]
                                                                     ELSE At(after[i], p)
            BY <2>4, <4>4, <6>1
          <6> QED
            BY <6>2 DEF p
        <5>3. at[j - 1] + es[j].length <= at[c - 1] /\ at[c - 1] \in Nat
          <6>1. i \in j .. n
            BY <2>1, <4>1
          <6> QED
            BY <1>4, <1>5, <2>1, <3>1, <6>1
        <5>4. ~(at[j - 1] + k \in at[c - 1] .. at[c - 1] + es[c].length - 1)
          <6> DEFINE p == at[j - 1] + k
          <6>1. p < at[c - 1]
            BY <2>5, <3>2, <5>3
          <6>2. p \in Int
            BY <3>2
          <6> HIDE DEF p
          <6>3. ~(p \in at[c - 1] .. at[c - 1] + es[c].length - 1)
            BY <5>3, <6>1, <6>2
          <6> QED
            BY <6>3 DEF p
        <5> QED
          BY <4>2, <5>2, <5>4
      <4> QED
        BY <4>3, <4>4
    <3> QED
      BY <3>3, <3>4
  <2>6. Right(c)
    BY <2>5
  <2> HIDE DEF Right
  <2> QED
    BY <2>1, <2>6 DEF c
<1> HIDE DEF T
<1>8. \A i \in 0 .. n : i \in T
  BY <1>1, <1>6, <1>7, UpTo
<1>9. Right(n)
  <2>1. n \in T
    BY <1>1, <1>8
  <2> HIDE DEF Right
  <2> QED
    BY <2>1 DEF T
<1> QED
  BY <1>9 DEF at, after

\* Each object unpacked has the bits of its last entry, those without one what they had.
LEMMA UnpackedAt ==
  ASSUME NEW es \in Seq(Fields), Laid(es), NEW objects \in Values, NEW bitmap \in Bitmaps, NEW o \in Objects
  PROVE  /\ (\A j \in 1 .. Len(es) : es[j].obj # o) =>
              Unpacked(MapOf(es), bitmap, objects)[Len(es)][o] = objects[o]
         /\ \A j \in 1 .. Len(es) : es[j].obj = o /\ (\A i \in 1 .. Len(es) : es[i].obj = o => i <= j) =>
              Unpacked(MapOf(es), bitmap, objects)[Len(es)][o] =
                {k \in 0 .. es[j].length - 1 : At(bitmap, Offsets(es)[j - 1] + k)}
<1> DEFINE n == Len(es)
           after == Unpacked(MapOf(es), bitmap, objects)
           RangeOf(j) == {k \in 0 .. es[j].length - 1 : At(bitmap, Offsets(es)[j - 1] + k)}
           Right(i) ==
             /\ (\A j \in 1 .. i : es[j].obj # o) => after[i][o] = objects[o]
             /\ \A j \in 1 .. i : es[j].obj = o /\ (\A l \in 1 .. i : es[l].obj = o => l <= j) =>
                  after[i][o] = RangeOf(j)
           T == {i \in 0 .. n : Right(i)}
<1>1. n \in Nat /\ Len(MapOf(es)) = n
  BY MapIs
<1>2. /\ after \in [0 .. n -> Values] /\ after[0] = objects
      /\ \A i \in 1 .. n : after[i] = Unpack1(bitmap, after[i - 1], MapOf(es)[i])
  BY <1>1, UnpackedIs
<1> HIDE DEF after
<1>3. ASSUME NEW i \in 1 .. n
      PROVE  after[i][o] = IF es[i].obj = o THEN RangeOf(i) ELSE after[i - 1][o]
  <2>1. i - 1 \in 0 .. n /\ after[i - 1] \in Values
    BY <1>1, <1>2
  <2>2. MapOf(es)[i].obj = es[i].obj /\ MapOf(es)[i].offset = Offsets(es)[i - 1]
    BY MapIs
  <2>3. after[i] = Unpack1(bitmap, after[i - 1], MapOf(es)[i])
    BY <1>2
  <2>4. CASE es[i].obj = Pad
    <3>1. after[i] = after[i - 1] /\ es[i].obj # o
      BY <2>2, <2>3, <2>4, Constants DEF Unpack1
    <3> QED
      BY <3>1
  <2>5. CASE es[i].obj # Pad
    <3>1. es[i].length = BitLength[es[i].obj] /\ Lies(MapOf(es)[i])
      BY <2>5 DEF Laid
    <3>2. after[i] = [after[i - 1] EXCEPT ![es[i].obj] = Place(bitmap, MapOf(es)[i])]
      BY <2>1, <2>2, <2>3, <3>1, UnpackIs
    <3>3. Place(bitmap, MapOf(es)[i]) = RangeOf(i)
      BY <2>2, <3>1 DEF Place
    <3>4. DOMAIN after[i - 1] = Objects
      BY <2>1 DEF Values
    <3> HIDE DEF RangeOf
    <3> QED
      BY <3>2, <3>3, <3>4
  <2> QED
    BY <2>4, <2>5
<1> HIDE DEF RangeOf
<1>4. 0 \in T
  BY <1>1, <1>2
<1>5. ASSUME NEW i \in 0 .. n - 1, i \in T PROVE i + 1 \in T
  <2> DEFINE c == i + 1
  <2>1. c \in 1 .. n /\ c - 1 = i /\ c \in 0 .. n /\ i \in 0 .. n
    BY <1>1
  <2>2. Right(i)
    <3> HIDE DEF Right
    <3> QED
      BY <1>5
  <2>3. after[c][o] = IF es[c].obj = o THEN RangeOf(c) ELSE after[i][o]
    BY <1>3, <2>1
  <2> HIDE DEF c
  <2>4. \A j \in 1 .. i : j \in 1 .. c /\ j < c
    BY <2>1
  <2>5. \A j \in 1 .. c : j = c \/ j \in 1 .. i
    BY <2>1
  <2>6. c \in 1 .. c /\ \A j \in 1 .. c : c <= j => j = c
    BY <2>1
  <2>7. Right(c)
    <3>1. CASE es[c].obj = o
      <4>1. ASSUME NEW j \in 1 .. c, \A l \in 1 .. c : es[l].obj = o => l <= j PROVE j = c
        BY <2>6, <3>1, <4>1
      <4> QED
        BY <2>3, <2>6, <3>1, <4>1
    <3>2. CASE es[c].obj # o
      <4>1. after[c][o] = after[i][o]
        BY <2>3, <3>2
      <4>2. ASSUME \A j \in 1 .. c : es[j].obj # o PROVE after[c][o] = objects[o]
        BY <2>2, <2>4, <4>1, <4>2
      <4>3. ASSUME NEW j \in 1 .. c, es[j].obj = o, \A l \in 1 .. c : es[l].obj = o => l <= j
            PROVE  after[c][o] = RangeOf(j)
        <5>1. j \in 1 .. i
          BY <2>5, <3>2, <4>3
        <5>2. \A l \in 1 .. i : es[l].obj = o => l <= j
          BY <2>4, <4>3
        <5> QED
          BY <2>2, <4>1, <4>3, <5>1, <5>2
      <4> QED
        BY <4>2, <4>3
    <3> QED
      BY <3>1, <3>2
  <2> HIDE DEF Right
  <2> QED
    BY <2>1, <2>7 DEF c
<1> HIDE DEF T
<1>6. \A i \in 0 .. n : i \in T
  BY <1>1, <1>4, <1>5, UpTo
<1>7. Right(n)
  <2>1. n \in T
    BY <1>1, <1>6
  <2> HIDE DEF Right
  <2> QED
    BY <2>1 DEF T
<1> QED
  BY <1>7 DEF after, RangeOf

-----------------------------------------------------------------------------
(* The invariant.                                                          *)

\* Whatever a master writes, lists are lists.
ListsKept == DOMAIN lists = Lists /\ \A l \in Lists : IsList(l, lists[l])

\* While inputs are exchanged, the map is that of the lists as they are.
MapCurrent ==
  InputsOn => \A m \in SMs :
    /\ CanMap(Entries(m)) /\ SMmap[m] = MapOf(Entries(m)) /\ sml[m] = Size(Entries(m))

\* The types of what a pass reads.
DataTyped ==
  /\ alState \in {"PREOP", "SAFEOP", "OP"} /\ DOMAIN sm = SMs
  /\ Obj \in Values /\ rxpdo \in Bitmaps /\ txpdo \in Bitmaps

\* Out of OP the actual values that the safe state clears stay clear.
Forgotten == ~OutputsOn => \A a \in Cleared : Obj[a] = {}

\* Next preserves all of this together: the map is current as lists change in PREOP only.
DataInv == ListsKept /\ MapCurrent /\ DataTyped /\ Forgotten

\* The entries of a sync manager.
LEMMA EntriesTyped ==
  ASSUME ListsKept, NEW m \in SMs
  PROVE  Entries(m) \in Seq(Fields)
<1> DEFINE names == STRING \ {"1C12", "1C13"}
           pdos == lists[Assignment[m]]
           parts == [i \in DOMAIN pdos |-> IF pdos[i] \in Lists THEN lists[pdos[i]] ELSE <<>>]
<1>1. Assignment[m] \in {"1C12", "1C13"} /\ Assignment[m] \in Lists
  BY ProcessDataAssumption DEF Assignment
<1>2. pdos \in Seq(names)
  BY <1>1 DEF ListsKept, IsList
<1>3. Len(pdos) \in Nat /\ DOMAIN pdos = 1 .. Len(pdos) /\ \A i \in 1 .. Len(pdos) : pdos[i] \in names
  <2> HIDE DEF pdos, names
  <2> QED
    BY <1>2, LenProperties
<1>4. ASSUME NEW i \in 1 .. Len(pdos) PROVE (IF pdos[i] \in Lists THEN lists[pdos[i]] ELSE <<>>) \in Seq(Fields)
  <2>1. pdos[i] \notin {"1C12", "1C13"}
    BY <1>3
  <2>2. pdos[i] \in Lists => lists[pdos[i]] \in Seq(Fields)
    <3> HIDE DEF pdos
    <3> QED
      BY <2>1 DEF ListsKept, IsList, Fields
  <2> HIDE DEF pdos
  <2> QED
    BY <2>2
<1>5. parts \in [1 .. Len(pdos) -> Seq(Fields)]
  <2> HIDE DEF pdos
  <2> QED
    BY <1>3, <1>4
<1>6. parts \in Seq(Seq(Fields))
  <2> HIDE DEF pdos, parts
  <2> QED
    BY <1>3, <1>5, IsSequence
<1>7. FlattenSeq(parts) \in Seq(Fields)
  <2> HIDE DEF parts
  <2> QED
    BY <1>6, FlattenTyped
<1> QED
  BY <1>7 DEF Entries

\* The actual values are as long as the setpoints they show.
LEMMA AxesTyped ==
  /\ Cleared \subseteq Actuals
  /\ \A a \in Actuals : a \in Objects /\ Target[a] \in Objects /\ BitLength[a] = BitLength[Target[a]]
BY ProcessDataAssumption

\* cb_apply_rxpdo leaves objects.
LEMMA MirroredTyped ==
  ASSUME NEW objects \in Values
  PROVE  Mirrored(objects) \in Values
<1>1. \A o \in Objects : (IF o \in Actuals THEN objects[Target[o]] ELSE objects[o]) \in SUBSET Nat
                        /\ (IF o \in Actuals THEN objects[Target[o]] ELSE objects[o]) \subseteq 0 .. BitLength[o] - 1
  <2> SUFFICES ASSUME NEW o \in Objects
               PROVE  (IF o \in Actuals THEN objects[Target[o]] ELSE objects[o]) \in SUBSET Nat
                      /\ (IF o \in Actuals THEN objects[Target[o]] ELSE objects[o]) \subseteq 0 .. BitLength[o] - 1
    OBVIOUS
  <2>1. CASE o \in Actuals
    <3>1. Target[o] \in Objects /\ BitLength[o] = BitLength[Target[o]]
      BY <2>1, AxesTyped
    <3> QED
      BY <2>1, <3>1 DEF Values
  <2>2. CASE o \notin Actuals
    BY <2>2 DEF Values
  <2> QED
    BY <2>1, <2>2
<1> QED
  BY <1>1 DEF Mirrored, Values

\* app_safe_state leaves nothing of what it clears.
LEMMA SafeTyped ==
  ASSUME NEW objects \in Values
  PROVE  Safe(objects) \in Values /\ \A a \in Cleared : Safe(objects)[a] = {}
BY AxesTyped DEF Safe, Values

\* A pass leaves objects and bitmaps.
LEMMA PassTyped ==
  ASSUME DataInv, DIG_process
  PROVE  Obj' \in Values /\ rxpdo' \in Bitmaps /\ txpdo' \in Bitmaps
<1>1. InputsOn /\ Outputs /\ Inputs
  BY DEF DIG_process
<1>2. Obj \in Values /\ rxpdo \in Bitmaps /\ txpdo \in Bitmaps
  BY DEF DataInv, DataTyped
<1>3. ASSUME NEW m \in SMs PROVE Len(SMmap[m]) \in Nat /\ Len(SMmap[m]) \in 0 .. Len(SMmap[m])
  <2>1. Entries(m) \in Seq(Fields) /\ SMmap[m] = MapOf(Entries(m))
    BY <1>1, EntriesTyped DEF DataInv, MapCurrent
  <2> QED
    BY <2>1, MapIs
<1>4. 2 \in SMs /\ 3 \in SMs
  BY DEF SMs
<1>5. Obj' \in Values /\ rxpdo' \in Bitmaps
  <2>1. CASE ~sm2Event
    BY <1>1, <1>2, <2>1 DEF Outputs
  <2>2. CASE sm2Event
    <3>1. rxpdo' = Copied(rxpdo, 0, ByteBits * sml[2], sm[2])
          /\ Obj' = IF OutputsOn THEN Mirrored(COE_pdoUnpack(rxpdo', Obj)) ELSE Obj
      BY <1>1, <2>2 DEF Outputs
    <3>2. rxpdo' \in Bitmaps
      BY <1>2, <3>1, CopiedTyped
    <3>3. COE_pdoUnpack(rxpdo', Obj) \in Values
      BY <1>2, <1>3, <1>4, UnpackedIs DEF COE_pdoUnpack
    <3>4. Obj' \in Values
      BY <1>2, <3>1, <3>3, MirroredTyped
    <3> QED
      BY <3>2, <3>4
  <2> QED
    BY <2>1, <2>2
<1>6. txpdo' \in Bitmaps
  <2>1. txpdo' = COE_pdoPack(Obj', txpdo)
    BY <1>1 DEF Inputs
  <2>2. COE_pdoPack(Obj', txpdo) \in Bitmaps
    BY <1>2, <1>3, <1>4, PackedIs DEF COE_pdoPack
  <2> QED
    BY <2>1, <2>2
<1> QED
  BY <1>5, <1>6

\* It holds at power-on.
LEMMA DataInit == Init => DataInv
<1> SUFFICES ASSUME Init PROVE DataInv
  OBVIOUS
<1>1. ListsKept
  BY ProcessDataAssumption DEF Init, ListsKept, Lists
<1>2. ~InputsOn /\ ~OutputsOn
  BY DEF Init, InputsOn, OutputsOn
<1>3. Obj \in Values /\ \A a \in Cleared : Obj[a] = {}
  BY AxesTyped DEF Init, Values
<1>4. rxpdo \in Bitmaps /\ txpdo \in Bitmaps
  BY DEF Init, Bitmaps
<1> QED
  BY <1>1, <1>2, <1>3, <1>4 DEF Init, DataInv, MapCurrent, DataTyped, Forgotten

\* The entries depend on the lists only.
LEMMA EntriesSame ==
  ASSUME lists' = lists, NEW m
  PROVE  Entries(m)' = Entries(m)
BY DEF Entries, Lists

\* Every action preserves it.
LEMMA DataStep == DataInv /\ [Next]_vars => DataInv'
<1> SUFFICES ASSUME DataInv, [Next]_vars PROVE DataInv'
  OBVIOUS
<1>0. ListsKept /\ MapCurrent /\ DataTyped /\ Forgotten
  BY DEF DataInv
<1> DEFINE SameMaps == UNCHANGED <<lists, SMmap, sml>>
<1>1. ASSUME SameMaps, InputsOn' => InputsOn PROVE ListsKept' /\ MapCurrent'
  <2>1. ListsKept'
    BY <1>0, <1>1 DEF ListsKept
  <2>2. ASSUME InputsOn', NEW m \in SMs
        PROVE  CanMap(Entries(m)') /\ SMmap'[m] = MapOf(Entries(m)') /\ sml'[m] = Size(Entries(m)')
    <3>1. Entries(m)' = Entries(m)
      BY <1>1, EntriesSame
    <3>2. CanMap(Entries(m)) /\ SMmap[m] = MapOf(Entries(m)) /\ sml[m] = Size(Entries(m))
      BY <1>0, <1>1, <2>2 DEF MapCurrent
    <3> QED
      BY <1>1, <3>1, <3>2
  <2>3. MapCurrent'
    BY <2>2 DEF MapCurrent, CanMap, MapOf, Size, Bytes, Offsets
  <2> QED
    BY <2>1, <2>3
<1>2. CASE DIG_process
  <2>1. SameMaps /\ alState' = alState
    BY <1>2 DEF DIG_process
  <2>2. InputsOn' = InputsOn /\ OutputsOn' = OutputsOn
    BY <2>1 DEF InputsOn, OutputsOn
  <2>3. DataTyped'
    <3>1. DOMAIN sm' = SMs
      BY <1>0, <1>2 DEF DIG_process, Inputs, DataTyped
    <3> QED
      BY <1>0, <1>2, <2>1, <3>1, PassTyped DEF DataTyped, Values, Bitmaps
  <2>4. Forgotten'
    <3>1. ~OutputsOn => Obj' = Obj
      BY <1>2 DEF DIG_process, Outputs
    <3> QED
      BY <1>0, <2>2, <3>1 DEF Forgotten
  <2> QED
    BY <1>1, <2>1, <2>2, <2>3, <2>4 DEF DataInv
<1>3. CASE ToSafeop
  <2>1. UNCHANGED <<lists, Obj, rxpdo, txpdo, sm>> /\ alState \in {"PREOP", "SAFEOP"}
        /\ alState' \in {"PREOP", "SAFEOP"}
    BY <1>3 DEF ToSafeop
  <2>2. ~OutputsOn /\ ~OutputsOn'
    BY <2>1 DEF OutputsOn
  <2>3. ListsKept' /\ DataTyped' /\ Forgotten'
    BY <1>0, <2>1, <2>2 DEF ListsKept, DataTyped, Forgotten
  <2>4. ASSUME InputsOn', NEW m \in SMs
        PROVE  CanMap(Entries(m)') /\ SMmap'[m] = MapOf(Entries(m)') /\ sml'[m] = Size(Entries(m)')
    <3>1. Entries(m)' = Entries(m)
      BY <2>1, EntriesSame
    <3>2. alState' # "PREOP"
      BY <2>4 DEF InputsOn
    <3> DEFINE es == [x \in SMs |-> Entries(x)]
    <3>3. /\ ~(~CanMap(es[2])) /\ ~(~CanMap(es[3]))
          /\ SMmap' = [x \in SMs |-> MapOf(es[x])] /\ sml' = [x \in SMs |-> Size(es[x])]
      BY <1>3, <3>2 DEF ToSafeop
    <3>4. es[m] = Entries(m) /\ (m = 2 \/ m = 3)
      BY DEF SMs
    <3> HIDE DEF es
    <3> QED
      BY <3>1, <3>3, <3>4
  <2>5. MapCurrent'
    BY <2>4 DEF MapCurrent, CanMap, MapOf, Size, Bytes, Offsets
  <2> QED
    BY <2>3, <2>5 DEF DataInv
<1>4. CASE ToOp
  <2>1. SameMaps /\ UNCHANGED <<Obj, rxpdo, txpdo, sm>> /\ alState = "SAFEOP" /\ alState' = "OP"
    BY <1>4 DEF ToOp
  <2>2. InputsOn /\ OutputsOn'
    BY <2>1 DEF InputsOn, OutputsOn
  <2>3. DataTyped' /\ Forgotten'
    BY <1>0, <2>1, <2>2 DEF DataTyped, Forgotten
  <2> QED
    BY <1>1, <2>1, <2>2, <2>3 DEF DataInv
<1>5. CASE LeaveOp
  <2>1. SameMaps /\ UNCHANGED <<rxpdo, txpdo, sm>> /\ OutputsOn /\ alState' = "SAFEOP" /\ Obj' = Safe(Obj)
    BY <1>5 DEF LeaveOp
  <2>2. InputsOn
    BY <2>1 DEF InputsOn, OutputsOn
  <2>3. Obj' \in Values /\ \A a \in Cleared : Obj'[a] = {}
    BY <1>0, <2>1, SafeTyped DEF DataTyped
  <2>4. DataTyped' /\ Forgotten'
    BY <1>0, <2>1, <2>3 DEF DataTyped, Forgotten, Values
  <2> QED
    BY <1>1, <2>1, <2>2, <2>4 DEF DataInv
<1>6. CASE ToPreop
  <2>1. SameMaps /\ UNCHANGED <<Obj, rxpdo, txpdo, sm>> /\ alState = "SAFEOP" /\ alState' = "PREOP"
    BY <1>6 DEF ToPreop
  <2>2. ~InputsOn' /\ ~OutputsOn
    BY <2>1 DEF InputsOn, OutputsOn
  <2>3. DataTyped' /\ Forgotten'
    BY <1>0, <2>1, <2>2 DEF DataTyped, Forgotten
  <2> QED
    BY <1>1, <2>1, <2>2, <2>3 DEF DataInv
<1>7. CASE \E bits \in Patterns : Frame(bits)
  <2>1. PICK bits \in Patterns : Frame(bits)
    BY <1>7
  <2>2. SameMaps /\ UNCHANGED <<Obj, rxpdo, txpdo, alState>>
        /\ sm' = [sm EXCEPT ![2] = bits \cap 0 .. ByteBits * sml[2] - 1]
    BY <2>1 DEF Frame
  <2>3. InputsOn' = InputsOn /\ OutputsOn' = OutputsOn
    BY <2>2 DEF InputsOn, OutputsOn
  <2>4. DataTyped' /\ Forgotten'
    BY <1>0, <2>2, <2>3 DEF DataTyped, Forgotten
  <2> QED
    BY <1>1, <2>2, <2>3, <2>4 DEF DataInv
<1>8. CASE \E o \in Written, bits \in Patterns : DownloadObject(o, bits \cap Mask(BitLength[o]))
  <2>1. PICK o \in Written, bits \in Patterns : DownloadObject(o, bits \cap Mask(BitLength[o]))
    BY <1>8
  <2>2. SameMaps /\ UNCHANGED <<rxpdo, txpdo, sm, alState>>
        /\ Obj' = [Obj EXCEPT ![o] = bits \cap Mask(BitLength[o])]
    BY <2>1 DEF DownloadObject
  <2>3. InputsOn' = InputsOn /\ OutputsOn' = OutputsOn
    BY <2>2 DEF InputsOn, OutputsOn
  <2>4. o \in Objects /\ o \notin Actuals
    BY ProcessDataAssumption
  <2>5. Obj' \in Values
    <3> DEFINE v == bits \cap Mask(BitLength[o])
    <3>1. v \subseteq 0 .. BitLength[o] - 1 /\ v \subseteq Nat
      BY Constants, <2>4 DEF Mask
    <3> HIDE DEF v
    <3> QED
      BY <1>0, <2>2, <2>4, <3>1 DEF DataTyped, Values, v
  <2>6. \A a \in Actuals : Obj'[a] = Obj[a]
    BY <1>0, <2>2, <2>4, AxesTyped DEF DataTyped, Values
  <2>7. DataTyped' /\ Forgotten'
    BY <1>0, <2>2, <2>3, <2>5, <2>6, AxesTyped DEF DataTyped, Forgotten, Values
  <2> QED
    BY <1>1, <2>2, <2>3, <2>7 DEF DataInv
<1>9. CASE \E l \in Writable : \E es \in Wishes[l] : DownloadList(l, es)
  <2>0. PICK l \in Writable : \E es \in Wishes[l] : DownloadList(l, es)
    BY <1>9
  <2>1. PICK es \in Wishes[l] : DownloadList(l, es)
    BY <2>0
  <2>2. /\ UNCHANGED <<Obj, rxpdo, txpdo, sm, alState>> /\ alState = "PREOP"
        /\ lists' = [lists EXCEPT ![l] = es]
    BY <2>1 DEF DownloadList
  <2>3. ~InputsOn' /\ ~OutputsOn
    BY <2>2 DEF InputsOn, OutputsOn
  <2>4. l \in Lists /\ IsList(l, es)
    BY ProcessDataAssumption
  <2>5. ListsKept'
    BY <1>0, <2>2, <2>4 DEF ListsKept
  <2>6. DataTyped' /\ Forgotten'
    BY <1>0, <2>2, <2>3 DEF DataTyped, Forgotten
  <2> QED
    BY <2>3, <2>5, <2>6 DEF DataInv, MapCurrent
<1>10. CASE UNCHANGED vars
  <2>1. SameMaps /\ UNCHANGED <<Obj, rxpdo, txpdo, sm, alState>>
    BY <1>10 DEF vars
  <2>2. InputsOn' = InputsOn /\ OutputsOn' = OutputsOn
    BY <2>1 DEF InputsOn, OutputsOn
  <2>3. DataTyped' /\ Forgotten'
    BY <1>0, <2>1, <2>2 DEF DataTyped, Forgotten
  <2> QED
    BY <1>1, <2>1, <2>2, <2>3 DEF DataInv
<1> QED
  BY <1>2, <1>3, <1>4, <1>5, <1>6, <1>7, <1>8, <1>9, <1>10 DEF Next

\* In every reachable state the map in use is that of the lists as the master left them, every object
\* and word has its own bits, and the mirrors are empty out of OP.
THEOREM DataInvariant == Spec => []DataInv
<1> QED
  BY DataInit, DataStep, PTL DEF Spec

-----------------------------------------------------------------------------
(* A pass.                                                                 *)

\* What a pass can rely on: a map made of the lists, and places for all of its entries.
LEMMA RegularLaid ==
  ASSUME DataInv, InputsOn, NEW m \in SMs, Regular(m)
  PROVE  LET es == Entries(m)
         IN /\ es \in Seq(Fields) /\ SMmap[m] = MapOf(es) /\ Laid(es) /\ Len(SMmap[m]) = Len(es)
            /\ ByteBits * sml[m] \in Nat /\ ByteBits * sml[m] <= Words * WordBits
            /\ Offsets(es)[Len(es)] <= ByteBits * sml[m]
<1> DEFINE es == Entries(m)
<1>1. es \in Seq(Fields) /\ CanMap(es) /\ SMmap[m] = MapOf(es) /\ sml[m] = Size(es)
  BY EntriesTyped DEF DataInv, MapCurrent
<1>2. DOMAIN es = 1 .. Len(es) /\ Len(es) \in Nat
  BY <1>1, FieldsOf
<1>3. /\ ByteBits * sml[m] <= Words * WordBits
      /\ \A i \in DOMAIN es : es[i].obj # Pad =>
           es[i].length = BitLength[es[i].obj] /\ (es[i].length > WordBits => SMmap[m][i].offset % ByteBits = 0)
  BY DEF Regular
<1>4. \A i \in DOMAIN es : es[i].obj \in Objects \cup {Pad}
  BY <1>1 DEF CanMap
<1> HIDE DEF es
<1>5. ByteBits * sml[m] \in Nat /\ Offsets(es)[Len(es)] <= ByteBits * sml[m] /\ Offsets(es)[Len(es)] \in Nat
  <2> DEFINE n == Offsets(es)[Len(es)]
  <2>1. n \in Nat
    BY <1>1, <1>2, OffsetsIs
  <2>2. sml[m] = Bytes(n)
    BY <1>1 DEF Size
  <2> HIDE DEF n
  <2>3. Bytes(n) \in Nat /\ Bytes(n) * ByteBits \in Nat /\ n <= Bytes(n) * ByteBits
    BY <2>1, BytesHold
  <2>4. Bytes(n) * ByteBits = ByteBits * Bytes(n)
    BY <2>3, Constants
  <2> QED
    BY <2>1, <2>2, <2>3, <2>4 DEF n
<1>6. ASSUME NEW i \in 1 .. Len(es), es[i].obj # Pad
      PROVE  es[i].length = BitLength[es[i].obj] /\ Lies(MapOf(es)[i])
  <2>1. es[i].length = BitLength[es[i].obj] /\ es[i].obj \in Objects
        /\ (es[i].length > WordBits => MapOf(es)[i].offset % ByteBits = 0)
    BY <1>1, <1>2, <1>3, <1>4, <1>6
  <2>2. MapOf(es)[i].obj = es[i].obj /\ MapOf(es)[i].offset = Offsets(es)[i - 1]
    BY <1>1, MapIs
  <2>3. Offsets(es)[i - 1] \in Nat /\ es[i].length \in Nat
        /\ Offsets(es)[i - 1] + es[i].length <= Offsets(es)[Len(es)]
    <3>1. Len(es) \in i .. Len(es)
      BY <1>2
    <3> QED
      BY <1>1, <3>1, EntryEnds
  <2>4. Words * WordBits \in Nat
    BY Constants
  <2>5. Offsets(es)[i - 1] + es[i].length <= Words * WordBits
    BY <1>3, <1>5, <2>3, <2>4
  <2> QED
    BY <2>1, <2>2, <2>3, <2>5 DEF Lies
<1>7. Laid(es)
  BY <1>6 DEF Laid
<1>8. Len(SMmap[m]) = Len(es)
  BY <1>1, MapIs
<1> QED
  BY <1>1, <1>3, <1>5, <1>7, <1>8 DEF es

\* The place of each bit of an entry is one of the bytes that are copied.
LEMMA RangeIs ==
  ASSUME NEW es \in Seq(Fields), NEW j \in 1 .. Len(es), NEW k \in 0 .. es[j].length - 1, NEW last \in Nat,
         Offsets(es)[Len(es)] <= last, last <= Words * WordBits
  PROVE  Offsets(es)[j - 1] + k \in 0 .. last - 1 /\ Offsets(es)[j - 1] + k \in Places
<1> DEFINE a == Offsets(es)[j - 1]  e == Offsets(es)[Len(es)]  l == es[j].length  w == Words * WordBits
<1>1. Len(es) \in j .. Len(es)
  BY FieldsOf
<1>2. a \in Nat /\ l \in Nat /\ e \in Nat /\ a + l <= e /\ k \in 0 .. l - 1 /\ e <= last /\ last <= w
  BY <1>1, EntryEnds
<1>3. w \in Nat
  BY Constants
<1> HIDE DEF a, e, l, w
<1>4. a + k \in 0 .. last - 1 /\ a + k \in 0 .. w - 1
  BY <1>2, <1>3
<1> QED
  BY <1>4 DEF a, w, Places

\* txpdo_write_sm3 shows the objects.
LEMMA InputsStep ==
  ASSUME DataInv, DIG_process, Regular(3), NEW i \in DOMAIN Entries(3), Entries(3)[i].obj # Pad
  PROVE  Shown(3, i)' = Obj'[Entries(3)[i].obj]
<1> DEFINE es == Entries(3)
           o == es[i].obj
           last == ByteBits * sml[3]
<1>1. InputsOn /\ Inputs /\ lists' = lists
  BY DEF DIG_process
<1>2. /\ es \in Seq(Fields) /\ SMmap[3] = MapOf(es) /\ Laid(es) /\ Len(SMmap[3]) = Len(es)
      /\ last \in Nat /\ last <= Words * WordBits /\ Offsets(es)[Len(es)] <= last
  BY <1>1, RegularLaid DEF SMs
<1>3. Obj' \in Values /\ txpdo' \in Bitmaps /\ txpdo \in Bitmaps /\ DOMAIN sm = SMs
  BY PassTyped DEF DataInv, DataTyped
<1>4. i \in 1 .. Len(es)
  BY <1>2, FieldsOf
<1>5. es[i].length = BitLength[o] /\ o \in Objects
  <2>1. Lies(MapOf(es)[i]) /\ es[i].length = BitLength[o]
    BY <1>2, <1>4 DEF Laid
  <2> QED
    BY <1>2, <1>4, <2>1, MapIs DEF Lies
<1>6. sm'[3] = Taken(txpdo', 0, last)
  BY <1>1, <1>3 DEF Inputs, SMs
<1>7. txpdo' = Packed(MapOf(es), Obj', txpdo)[Len(es)]
  BY <1>1, <1>2 DEF Inputs, COE_pdoPack
<1>8. Shown(3, i)' = ShownIn(es, sm'[3], i)
  <2>1. Entries(3)' = es
    BY <1>1, EntriesSame
  <2>2. Shown(3, i)' = ShownIn(Entries(3)', sm'[3], i)
    BY DEF Shown, ShownIn
  <2> QED
    BY <2>1, <2>2
<1> HIDE DEF es
<1>9. Shown(3, i)' = {k \in 0 .. es[i].length - 1 : Offsets(es)[i - 1] + k \in sm'[3]}
  BY <1>2, <1>4, <1>8, ShownIs
<1>10. ASSUME NEW k \in 0 .. es[i].length - 1
       PROVE  Offsets(es)[i - 1] + k \in sm'[3] <=> k \in Obj'[o]
  <2> DEFINE p == Offsets(es)[i - 1] + k
  <2>1. p \in 0 .. last - 1
    BY <1>2, <1>4, RangeIs
  <2>2. At(txpdo', p) <=> k \in Obj'[o]
    <3>1. es[i].obj # Pad
      BY DEF es
    <3> QED
      BY <1>2, <1>3, <1>4, <1>7, <3>1, PackedAt
  <2> HIDE DEF p, last
  <2>3. p \in sm'[3] <=> At(txpdo', 0 + p)
    BY <1>6, <2>1, TakenIs
  <2>4. 0 + p = p
    BY <2>1
  <2> QED
    BY <2>2, <2>3, <2>4 DEF p
<1>11. Obj'[o] \subseteq 0 .. es[i].length - 1
  BY <1>3, <1>5 DEF Values
<1>12. Shown(3, i)' = Obj'[o]
  <2> HIDE DEF o
  <2> QED
    BY <1>9, <1>10, <1>11
<1> QED
  BY <1>12 DEF es

\* rxpdo_read_sm2 and cb_apply_rxpdo bring the frame to the objects.
LEMMA OutputsStep ==
  ASSUME DataInv, DIG_process, OutputsOn, sm2Event, Regular(2), NEW o \in Objects \ Actuals
  PROVE  LET es == Entries(2)
             of == {i \in DOMAIN es : es[i].obj = o}
         IN /\ of = {} => Obj'[o] = Obj[o]
            /\ \A i \in of : (\A j \in of : j <= i) => Obj'[o] = Shown(2, i)
<1> DEFINE es == Entries(2)
           of == {i \in DOMAIN es : es[i].obj = o}
           last == ByteBits * sml[2]
           unpacked == Unpacked(MapOf(es), rxpdo', Obj)[Len(es)]
<1>1. InputsOn /\ Outputs
  BY DEF DIG_process
<1>2. /\ es \in Seq(Fields) /\ SMmap[2] = MapOf(es) /\ Laid(es) /\ Len(SMmap[2]) = Len(es)
      /\ last \in Nat /\ last <= Words * WordBits /\ Offsets(es)[Len(es)] <= last
  BY <1>1, RegularLaid DEF SMs
<1>3. Obj \in Values /\ rxpdo \in Bitmaps /\ rxpdo' \in Bitmaps
  BY PassTyped DEF DataInv, DataTyped
<1>4. rxpdo' = Copied(rxpdo, 0, last, sm[2]) /\ Obj' = Mirrored(COE_pdoUnpack(rxpdo', Obj))
  BY <1>1 DEF Outputs
<1>5. Obj'[o] = unpacked[o]
  <2>1. COE_pdoUnpack(rxpdo', Obj) = unpacked
    BY <1>2 DEF COE_pdoUnpack
  <2> QED
    BY <1>4, <2>1 DEF Mirrored
<1>6. DOMAIN es = 1 .. Len(es)
  BY <1>2, FieldsOf
<1>7. \A i \in DOMAIN es : Shown(2, i) = ShownIn(es, sm[2], i)
  BY DEF Shown, ShownIn
<1> HIDE DEF es, unpacked, last
<1>8. ASSUME of = {} PROVE Obj'[o] = Obj[o]
  <2>1. \A j \in 1 .. Len(es) : es[j].obj # o
    BY <1>6, <1>8
  <2> QED
    BY <1>2, <1>3, <1>5, <2>1, UnpackedAt DEF unpacked
<1>9. ASSUME NEW i \in of, \A j \in of : j <= i PROVE Obj'[o] = Shown(2, i)
  <2>1. i \in 1 .. Len(es) /\ es[i].obj = o /\ \A j \in 1 .. Len(es) : es[j].obj = o => j <= i
    BY <1>6, <1>9
  <2>2. Obj'[o] = {k \in 0 .. es[i].length - 1 : At(rxpdo', Offsets(es)[i - 1] + k)}
    BY <1>2, <1>3, <1>5, <2>1, UnpackedAt DEF unpacked
  <2>3. Shown(2, i) = {k \in 0 .. es[i].length - 1 : Offsets(es)[i - 1] + k \in sm[2]}
    BY <1>2, <1>6, <1>7, <2>1, ShownIs
  <2>4. ASSUME NEW k \in 0 .. es[i].length - 1
        PROVE  At(rxpdo', Offsets(es)[i - 1] + k) <=> Offsets(es)[i - 1] + k \in sm[2]
    <3> DEFINE p == Offsets(es)[i - 1] + k
    <3>1. p \in 0 .. last - 1 /\ p \in Places
      BY <1>2, <2>1, RangeIs
    <3> HIDE DEF p
    <3>2. p \in 0 .. 0 + last - 1 /\ p - 0 = p
      BY <1>2, <3>1
    <3>3. At(Copied(rxpdo, 0, last, sm[2]), p) <=>
            IF p \in 0 .. 0 + last - 1 THEN p - 0 \in sm[2] ELSE At(rxpdo, p)
      BY <1>2, <1>3, <3>1, CopiedAt
    <3>4. At(rxpdo', p) <=> p \in sm[2]
      BY <1>4, <3>2, <3>3
    <3> QED
      BY <3>4 DEF p
  <2> QED
    BY <2>2, <2>3, <2>4
<1> QED
  BY <1>8, <1>9 DEF es

\* For words of any size and every mapping that is regular, a pass in OP gives each mapped object the
\* bits of the frame at its last entry, and no other object but the mirrors anything (COE_pdoUnpack).
THEOREM OutputsReachObjects == Spec => OutputsArrive
<1>1. DataInv /\ [Next]_vars =>
        [DIG_process /\ OutputsOn /\ sm2Event /\ Regular(2) =>
           LET es == Entries(2)
               of(o) == {i \in DOMAIN es : es[i].obj = o}
           IN \A o \in Objects \ Actuals :
                /\ of(o) = {} => Obj'[o] = Obj[o]
                /\ \A i \in of(o) : (\A j \in of(o) : j <= i) => Obj'[o] = Shown(2, i)]_vars
  BY OutputsStep
<1> QED
  BY <1>1, DataInvariant, PTL DEF Spec, OutputsArrive

\* For words of any size and every mapping that is regular, what the master reads at each entry
\* after a pass is the object of that entry, bit by bit (COE_pdoPack).
THEOREM MasterReadsObjects == Spec => InputsShown
<1>1. DataInv /\ [Next]_vars =>
        [DIG_process /\ Regular(3) =>
           \A i \in DOMAIN Entries(3) :
             LET o == Entries(3)[i].obj IN o # Pad => Shown(3, i)' = Obj'[o]]_vars
  BY InputsStep
<1> QED
  BY <1>1, DataInvariant, PTL DEF Spec, InputsShown

\* Out of OP the master reads nothing at any entry of an actual value that app_safe_state clears
\* (position, velocity, torque), whatever it sends and however OP is left.
THEOREM NoSetpointOutOfOp == Spec => ForgottenOutOfOp
<1>1. ASSUME DataInv, DIG_process, ~OutputsOn, Regular(3),
             NEW i \in DOMAIN Entries(3), Entries(3)[i].obj \in Cleared
      PROVE  Shown(3, i)' = {}
  <2>1. Entries(3)[i].obj # Pad
    BY <1>1, AxesTyped, Constants
  <2>2. Shown(3, i)' = Obj'[Entries(3)[i].obj]
    BY <1>1, <2>1, InputsStep
  <2>3. Obj' = Obj
    BY <1>1 DEF DIG_process, Outputs
  <2>4. Obj[Entries(3)[i].obj] = {}
    BY <1>1 DEF DataInv, Forgotten
  <2> QED
    BY <2>2, <2>3, <2>4
<1>2. DataInv /\ [Next]_vars =>
        [DIG_process /\ ~OutputsOn /\ Regular(3) =>
           \A i \in DOMAIN Entries(3) : Entries(3)[i].obj \in Cleared => Shown(3, i)' = {}]_vars
  BY <1>1
<1> QED
  BY <1>2, DataInvariant, PTL DEF Spec, ForgottenOutOfOp
=============================================================================
