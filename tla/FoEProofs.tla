----------------------------- MODULE FoEProofs -----------------------------
(***************************************************************************)
(* Proofs about FoE, for every value of the constants: the device takes a  *)
(* file as FileStore does, and a file that the master has seen through is  *)
(* in the flash.                                                           *)
(***************************************************************************)
EXTENDS FoE, SequenceTheorems, WellFoundedInduction, TLAPS

Units == Nat \X Nat

\* The device: what is open, how far it is written, and what waits to be.
SessionTyped ==
  /\ foestate \in {"ready", "data"} /\ fbuffer \in Seq(Units) /\ address_offset \in Nat
  /\ flash \in [Files -> Seq(Units)] /\ version \in Versions
  /\ Open => foe_file \in Files /\ address_offset <= Len(flash[foe_file])

\* The master: every packet but the last is full.
TransferTyped ==
  /\ master \in [phase : {"running"}, name : Names, version : Versions, size : Nat,
                 sent : Nat, packet : Nat, last : BOOLEAN]
  /\ master.sent <= master.size
  /\ ~master.last => master.sent % PacketSize = 0
  /\ master.last => master.sent = master.size

\* The device has taken the first n units of the file the master sends.
InStep(n) ==
  /\ Open /\ version = master.version /\ InSession = Value(master.version, 0, n)
  /\ IsPrefix(master.name, Table[foe_file].name)

OnFlash ==
  master.size % PacketSize # 0 =>
    \E f \in Files : /\ IsPrefix(master.name, Table[f].name) /\ Len(flash[f]) >= master.size
                     /\ SubSeq(flash[f], 1, master.size) = Value(master.version, 0, master.size)

\* Where a transfer may be: the request for it is on its way, it has failed, the last
\* packet has been acknowledged and is stored, or the next one is on its way.
Asked ==
  /\ req.op = "wrq" /\ replies = <<>> /\ req.version = master.version /\ req.name = master.name
  /\ master.packet = 0 /\ master.sent = 0 /\ ~master.last
Refused == req = Nothing /\ (replies = <<>> \/ Head(replies).op = "err")
Acknowledged ==
  /\ req = Nothing /\ replies = <<ACK(master.packet)>>
  /\ IF master.last THEN OnFlash ELSE InStep(master.sent) /\ foepacket = master.packet + 1
PacketSent ==
  /\ req.op = "data" /\ replies = <<>> /\ req.packet = master.packet /\ foepacket = master.packet
  /\ \E n \in 0 .. PacketSize :
       /\ n <= master.sent /\ req.data = Value(master.version, master.sent - n, master.sent)
       /\ (master.last <=> n < PacketSize) /\ (master.sent - n) % PacketSize = 0
       /\ InStep(master.sent - n)

TransferInv ==
  /\ master.phase = "running" =>
       TransferTyped /\ (Asked \/ Refused \/ Acknowledged \/ PacketSent)
  /\ master.phase # "running" => req.op \in {"none", "err", "rrq"}
  /\ master.phase = "done" => OnFlash

FoeInv == SessionTyped /\ TransferInv

-----------------------------------------------------------------------------
(* Operators of the model.                                                 *)

LEMMA Constants ==
  /\ PacketSize \in Nat /\ PacketSize > 0 /\ FlushSize \in Nat /\ FlushSize > 0 /\ Versions \subseteq Nat
  /\ FileSizes \subseteq Nat /\ Files \subseteq Nat /\ None \notin Files
<1>1. Table \in Seq([name : Seq(STRING), max : Nat, boot : BOOLEAN])
  BY FoeConstantsAssumption
<1>2. DOMAIN Table = 1 .. Len(Table) /\ Len(Table) \in Nat
  BY <1>1, LenProperties
<1>3. Files \subseteq Nat /\ None \notin Files
  BY <1>2 DEF Files, None
<1> QED
  BY <1>3, FoeConstantsAssumption

\* A part of a file as a sequence of units; parts that meet join.
IsRun(s, v, a, n) == s \in Seq(Units) /\ Len(s) = n /\ \A i \in 1 .. n : s[i] = <<v, a + i>>

LEMMA ValueTyped ==
  ASSUME NEW v \in Nat, NEW a \in Nat, NEW n \in Nat, NEW b \in Nat, b = a + n
  PROVE  IsRun(Value(v, a, b), v, a, n)
<1>1. b - a = n
  OBVIOUS
<1>2. Value(v, a, b) = [i \in 1 .. n |-> <<v, a + i>>]
  BY <1>1 DEF Value
<1> DEFINE s == Value(v, a, b)
<1>3. \A i \in 1 .. n : <<v, a + i>> \in Units
  BY DEF Units
<1>4. s \in [1 .. n -> Units] /\ \A i \in 1 .. n : s[i] = <<v, a + i>>
  BY <1>2, <1>3
<1> HIDE DEF s
<1>5. s \in Seq(Units) /\ Len(s) = n
  BY <1>4
<1> QED
  BY <1>4, <1>5 DEF s, IsRun

Joins(s, t, u) == s \o t = u

LEMMA ValuesJoin ==
  ASSUME NEW v \in Nat, NEW a \in Nat, NEW n \in Nat, NEW b \in Nat, b = a + n
  PROVE  Joins(Value(v, 0, a), Value(v, a, b), Value(v, 0, b))
<1> DEFINE s == Value(v, 0, a)  t == Value(v, a, b)  u == Value(v, 0, b)
<1>1. IsRun(s, v, 0, a) /\ IsRun(t, v, a, n) /\ IsRun(u, v, 0, b)
  <2>1. PICK z \in Nat : z = 0
    OBVIOUS
  <2>2. a = z + a /\ b = z + b
    BY <2>1
  <2>3. IsRun(Value(v, z, a), v, z, a) /\ IsRun(t, v, a, n) /\ IsRun(Value(v, z, b), v, z, b)
    BY <2>2, ValueTyped
  <2> QED
    BY <2>1, <2>3
<1> HIDE DEF s, t, u
<1>2. s \in Seq(Units) /\ Len(s) = a /\ \A i \in 1 .. a : s[i] = <<v, i>>
  BY <1>1 DEF IsRun
<1>3. t \in Seq(Units) /\ Len(t) = n /\ \A i \in 1 .. n : t[i] = <<v, a + i>>
  BY <1>1 DEF IsRun
<1>4. u \in Seq(Units) /\ Len(u) = b /\ \A i \in 1 .. b : u[i] = <<v, i>>
  BY <1>1 DEF IsRun
<1>5. /\ s \o t \in Seq(Units) /\ Len(s \o t) = b
      /\ \A i \in 1 .. b : (s \o t)[i] = IF i <= a THEN s[i] ELSE t[i - a]
  <2>1. /\ s \o t \in Seq(Units) /\ Len(s \o t) = Len(s) + Len(t)
        /\ \A i \in 1 .. Len(s) + Len(t) : (s \o t)[i] = IF i <= Len(s) THEN s[i] ELSE t[i - Len(s)]
    BY <1>2, <1>3, ConcatProperties
  <2> QED
    BY <1>2, <1>3, <2>1
<1>6. ASSUME NEW i \in 1 .. b PROVE (s \o t)[i] = u[i]
  <2>1. CASE i <= a
    <3>1. i \in 1 .. a
      BY <2>1
    <3> QED
      BY <1>2, <1>4, <1>5, <2>1, <3>1
  <2>2. CASE ~(i <= a)
    <3>1. i - a \in 1 .. n /\ a + (i - a) = i
      BY <2>2
    <3> QED
      BY <1>3, <1>4, <1>5, <2>2, <3>1
  <2> QED
    BY <2>1, <2>2
<1>7. s \o t = u
  BY <1>4, <1>5, <1>6, SeqEqual
<1> QED
  BY <1>7 DEF s, t, u, Joins

LEMMA NoValue == ASSUME NEW v PROVE Value(v, 0, 0) = <<>>
  BY DEF Value

\* What is cut off the front of a sequence and what stays make the sequence.
LEMMA CutTyped ==
  ASSUME NEW S, NEW s \in Seq(S), NEW n \in Nat, n <= Len(s)
  PROVE  /\ SubSeq(s, 1, n) \in Seq(S) /\ Len(SubSeq(s, 1, n)) = n
         /\ SubSeq(s, n + 1, Len(s)) \in Seq(S) /\ Len(SubSeq(s, n + 1, Len(s))) = Len(s) - n
         /\ SubSeq(s, 1, n) \o SubSeq(s, n + 1, Len(s)) = s
<1>1. Len(s) \in Nat
  BY LenProperties
<1>2. \A i \in 1 .. n : s[i] \in S
  BY <1>1, ElementOfSeq
<1>3. \A i \in n + 1 .. Len(s) : s[i] \in S
  BY <1>1, ElementOfSeq
<1>4. SubSeq(s, 1, n) \in Seq(S) /\ Len(SubSeq(s, 1, n)) = n
  BY <1>2, SubSeqProperties
<1>5. SubSeq(s, n + 1, Len(s)) \in Seq(S) /\ Len(SubSeq(s, n + 1, Len(s))) = Len(s) - n
  BY <1>1, <1>3, SubSeqProperties
<1>6. SubSeq(s, 1, n) \o SubSeq(s, n + 1, Len(s)) = SubSeq(s, 1, Len(s))
  <2>1. 1 \in 1 .. Len(s) + 1 /\ n \in 1 - 1 .. Len(s) /\ Len(s) \in n .. Len(s)
    BY <1>1
  <2> QED
    BY <2>1, ConcatAdjacentSubSeq
<1> QED
  BY <1>4, <1>5, <1>6, SubSeqFull

LEMMA TailTyped ==
  ASSUME NEW S, NEW s \in Seq(S), NEW n \in Nat
  PROVE  SubSeq(s, n + 1, Len(s)) \in Seq(S)
<1>1. Len(s) \in Nat
  BY LenProperties
<1>2. \A i \in n + 1 .. Len(s) : s[i] \in S
  BY <1>1, ElementOfSeq
<1> QED
  BY <1>1, <1>2, SubSeqProperties

InAnyOrder(a, b, c) == (a \o b) \o c = a \o (b \o c)

LEMMA JoinThree ==
  ASSUME NEW a \in Seq(Units), NEW b \in Seq(Units), NEW c \in Seq(Units)
  PROVE  InAnyOrder(a, b, c)
  BY ConcatAssociative DEF InAnyOrder

\* The first units of a longer sequence.
LEMMA FrontKept ==
  ASSUME NEW S, NEW s \in Seq(S), NEW t \in Seq(S)
  PROVE  SubSeq(s \o t, 1, Len(s)) = s
<1>1. Len(s) \in Nat /\ Len(t) \in Nat
  BY LenProperties
<1>2. CASE Len(s) = 0
  <2>1. s = <<>>
    BY <1>2, EmptySeq
  <2> QED
    BY <1>2, <2>1, SubSeqEmpty
<1>3. CASE Len(s) # 0
  <2>1. SubSeq(s \o t, 1, Len(s)) = SubSeq(s, 1, Len(s))
    BY <1>1, <1>3, SubSeqOfConcat1
  <2> QED
    BY <2>1, SubSeqFull
<1> QED
  BY <1>2, <1>3

\* What the write function leaves in the flash: up to the offset what was there,
\* then what it was given.
LEMMA StoredWell ==
  ASSUME NEW fl \in [Files -> Seq(Units)], foe_file \in Files, NEW d \in Seq(Units),
         NEW at \in Nat, at <= Len(fl[foe_file])
  PROVE  /\ Stored(fl, at, d) \in [Files -> Seq(Units)]
         /\ at + Len(d) \in Nat /\ at + Len(d) <= Len(Stored(fl, at, d)[foe_file])
         /\ SubSeq(Stored(fl, at, d)[foe_file], 1, at + Len(d)) = SubSeq(fl[foe_file], 1, at) \o d
<1> DEFINE old == fl[foe_file]  front == SubSeq(old, 1, at)
           rest == SubSeq(old, at + Len(d) + 1, Len(old))  new == Stored(fl, at, d)[foe_file]
<1>1. old \in Seq(Units) /\ Len(d) \in Nat
  BY LenProperties
<1>2. front \in Seq(Units) /\ Len(front) = at
  BY <1>1, CutTyped
<1>3. at + Len(d) \in Nat
  BY <1>1
<1>4. rest \in Seq(Units)
  BY <1>1, <1>3, TailTyped
<1>5. new = front \o d \o rest
  BY DEF Stored
<1>6. front \o d \in Seq(Units) /\ Len(front \o d) = at + Len(d)
  BY <1>2, ConcatProperties
<1>7. front \o d \o rest \in Seq(Units) /\ Len(front \o d \o rest) = at + Len(d) + Len(rest) /\ Len(rest) \in Nat
  BY <1>4, <1>6, ConcatProperties, LenProperties
<1>8. SubSeq(front \o d \o rest, 1, at + Len(d)) = front \o d
  BY <1>4, <1>6, FrontKept
<1>9. Stored(fl, at, d) \in [Files -> Seq(Units)]
  <2>1. Stored(fl, at, d) = [fl EXCEPT ![foe_file] = front \o d \o rest]
    BY DEF Stored
  <2> HIDE DEF front, rest
  <2> QED
    BY <1>7, <2>1
<1>10. at + Len(d) <= Len(new)
  <2> HIDE DEF new, front, rest, old
  <2> QED
    BY <1>1, <1>3, <1>5, <1>7
<1> QED
  BY <1>3, <1>5, <1>8, <1>9, <1>10

LEMMA LeastExists ==
  ASSUME NEW T \in SUBSET Nat, T # {}
  PROVE  \E x \in T : \A y \in T : x <= y
<1> DEFINE R == {ss \in Nat \X Nat : ss[1] < ss[2]}
<1>1. IsWellFoundedOn(R, Nat)
  BY NatLessThanWellFounded DEF OpToRel
<1>2. \A y, x \in Nat : y < x => <<y, x>> \in R
  OBVIOUS
<1> HIDE DEF R
<1>3. PICK x \in T : \A y \in T : <<y, x>> \notin R
  BY <1>1, WFMin
<1>4. ASSUME NEW y \in T PROVE x <= y
  <2>1. x \in Nat /\ y \in Nat
    OBVIOUS
  <2>2. ~(y < x)
    BY <1>2, <1>3, <2>1
  <2> QED
    BY <2>1, <2>2
<1> QED
  BY <1>4

\* The file FOE_fopen finds is in the table, under a name that begins with the
\* name asked for.
LEMMA OpenedFile ==
  ASSUME NEW name, NEW pass, FOE_fopen(name, pass).error = "none"
  PROVE  /\ FOE_fopen(name, pass).file \in Files
         /\ IsPrefix(name, Table[FOE_fopen(name, pass).file].name)
<1> DEFINE fs == {f \in Files : IsPrefix(name, Table[f].name)}
           f == CHOOSE g \in fs : \A h \in fs : g <= h
<1>1. fs \in SUBSET Nat
  BY Constants
<1>2. fs # {} /\ FOE_fopen(name, pass).file = f
  BY DEF FOE_fopen
<1>3. \E g \in fs : \A h \in fs : g <= h
  <2> HIDE DEF fs
  <2> QED
    BY <1>1, <1>2, LeastExists
<1>4. f \in fs
  BY <1>3
<1> QED
  BY <1>2, <1>4

\* A buffer is flushed as often as it is full, and not more.
LEMMA FlushesFit ==
  ASSUME NEW n \in Nat, NEW j \in 0 .. n \div FlushSize
  PROVE  j * FlushSize \in Nat /\ j * FlushSize <= n
<1>1. FlushSize \in Nat /\ FlushSize > 0
  BY Constants
<1>2. PICK q \in Int : q = n \div FlushSize
  BY <1>1
<1>3. q * FlushSize <= n /\ q >= 0
  BY <1>1, <1>2
<1>4. j \in Nat /\ j <= q
  BY <1>2
<1>5. j * FlushSize <= q * FlushSize /\ j * FlushSize \in Nat
  BY <1>1, <1>3, <1>4
<1> QED
  BY <1>1, <1>3, <1>5

LEMMA SessionIs ==
  ASSUME SessionTyped, Open
  PROVE  /\ foe_file \in Files /\ address_offset \in Nat /\ address_offset <= Len(flash[foe_file])
         /\ flash \in [Files -> Seq(Units)] /\ fbuffer \in Seq(Units)
         /\ SubSeq(flash[foe_file], 1, address_offset) \in Seq(Units)
         /\ InSession = SubSeq(flash[foe_file], 1, address_offset) \o fbuffer
         /\ InSession \in Seq(Units)
<1>1. /\ foe_file \in Files /\ address_offset \in Nat /\ address_offset <= Len(flash[foe_file])
      /\ flash \in [Files -> Seq(Units)] /\ fbuffer \in Seq(Units)
  BY DEF SessionTyped
<1>2. flash[foe_file] \in Seq(Units)
  BY <1>1
<1>3. SubSeq(flash[foe_file], 1, address_offset) \in Seq(Units)
  BY <1>1, <1>2, CutTyped
<1>4. InSession = SubSeq(flash[foe_file], 1, address_offset) \o fbuffer
  BY DEF InSession
<1> QED
  BY <1>1, <1>3, <1>4, ConcatProperties

\* A write that is taken: what is stored and what stays in the buffer are what
\* was taken before, and the new data.
LEMMA WrittenWell ==
  ASSUME SessionTyped, Open, NEW d \in Seq(Units)
  PROVE  /\ FOE_fwrite(d).flash \in [Files -> Seq(Units)] /\ FOE_fwrite(d).rest \in Seq(Units)
         /\ FOE_fwrite(d).offset \in Nat
         /\ FOE_fwrite(d).offset <= Len(FOE_fwrite(d).flash[foe_file])
         /\ SubSeq(FOE_fwrite(d).flash[foe_file], 1, FOE_fwrite(d).offset) \o FOE_fwrite(d).rest = InSession \o d
<1> DEFINE buf == fbuffer \o d  k == Len(buf) \div FlushSize  n == k * FlushSize
           put == SubSeq(buf, 1, n)  rest == SubSeq(buf, n + 1, Len(buf))
           front == SubSeq(flash[foe_file], 1, address_offset)  new == Stored(flash, address_offset, put)
<1>1. FOE_fwrite(d) = [k |-> k, rest |-> rest, offset |-> address_offset + n, flash |-> new]
  BY DEF FOE_fwrite, Rest
<1>2. buf \in Seq(Units) /\ Len(buf) \in Nat
  BY ConcatProperties, LenProperties DEF SessionTyped
<1>3. n \in Nat /\ n <= Len(buf)
  <2>1. PICK m \in Nat : m = Len(buf)
    BY <1>2
  <2>2. m \div FlushSize \in 0 .. m \div FlushSize
    <3>1. FlushSize \in Nat /\ FlushSize > 0
      BY Constants
    <3> QED
      BY <3>1
  <2>3. (m \div FlushSize) * FlushSize \in Nat /\ (m \div FlushSize) * FlushSize <= m
    BY <2>2, FlushesFit
  <2> QED
    BY <2>1, <2>3
<1>4. /\ foe_file \in Files /\ address_offset \in Nat /\ address_offset <= Len(flash[foe_file])
      /\ flash \in [Files -> Seq(Units)] /\ fbuffer \in Seq(Units) /\ front \in Seq(Units)
      /\ InSession = front \o fbuffer
  BY SessionIs
<1> HIDE DEF k, n
<1>5. put \in Seq(Units) /\ Len(put) = n /\ rest \in Seq(Units) /\ put \o rest = buf
  <2> HIDE DEF buf
  <2> QED
    BY <1>2, <1>3, CutTyped
<1>6. /\ new \in [Files -> Seq(Units)] /\ address_offset + n \in Nat
      /\ address_offset + n <= Len(new[foe_file])
      /\ SubSeq(new[foe_file], 1, address_offset + n) = front \o put
  <2> HIDE DEF put
  <2> QED
    BY <1>4, <1>5, StoredWell
<1>7. (front \o put) \o rest = InSession \o d
  <2> HIDE DEF put, rest, front
  <2>0. front \in Seq(Units) /\ put \in Seq(Units) /\ rest \in Seq(Units) /\ fbuffer \in Seq(Units)
    BY <1>4, <1>5
  <2>1. InAnyOrder(front, put, rest) /\ InAnyOrder(front, fbuffer, d)
    BY <2>0, JoinThree
  <2> QED
    BY <1>4, <1>5, <2>1 DEF InAnyOrder
<1> HIDE DEF put, rest, new, front
<1>8. /\ FOE_fwrite(d).flash = new /\ FOE_fwrite(d).rest = rest
      /\ FOE_fwrite(d).offset = address_offset + n
  BY <1>1
<1> QED
  BY <1>5, <1>6, <1>7, <1>8

\* The same when the session is closed: all of it is stored.
LEMMA ClosedWell ==
  ASSUME SessionTyped, Open, NEW d \in Seq(Units), CloseWell(FOE_fwrite(d))
  PROVE  /\ flash' \in [Files -> Seq(Units)] /\ address_offset' \in Nat
         /\ Len(InSession \o d) <= Len(flash'[foe_file])
         /\ SubSeq(flash'[foe_file], 1, Len(InSession \o d)) = InSession \o d
<1> DEFINE w == FOE_fwrite(d)  front == SubSeq(w.flash[foe_file], 1, w.offset)
<1>1. /\ w.flash \in [Files -> Seq(Units)] /\ w.rest \in Seq(Units) /\ w.offset \in Nat
      /\ w.offset <= Len(w.flash[foe_file]) /\ front \o w.rest = InSession \o d
  BY WrittenWell
<1>2. flash' = Stored(w.flash, w.offset, w.rest) /\ address_offset' = w.offset + Len(w.rest)
  BY DEF CloseWell
<1>3. foe_file \in Files
  BY SessionIs
<1>4. w.flash[foe_file] \in Seq(Units)
  BY <1>1, <1>3
<1>5. front \in Seq(Units) /\ Len(front) = w.offset
  <2> HIDE DEF w
  <2> QED
    BY <1>1, <1>4, CutTyped
<1> HIDE DEF w
<1>6. /\ flash' \in [Files -> Seq(Units)] /\ w.offset + Len(w.rest) \in Nat
      /\ w.offset + Len(w.rest) <= Len(flash'[foe_file])
      /\ SubSeq(flash'[foe_file], 1, w.offset + Len(w.rest)) = front \o w.rest
  BY <1>1, <1>2, <1>3, StoredWell
<1>7. Len(front \o w.rest) = w.offset + Len(w.rest)
  BY <1>1, <1>5, ConcatProperties
<1> HIDE DEF front
<1> QED
  BY <1>1, <1>2, <1>6, <1>7

\* And when a write fails half way.
LEMMA FlushFailedWell ==
  ASSUME SessionTyped, Open, NEW d \in Seq(Units), FlushFails(d)
  PROVE  /\ flash' \in [Files -> Seq(Units)] /\ address_offset' \in Nat
         /\ foestate' = "ready" /\ fbuffer' = <<>>
         /\ \E n \in 0 .. 2 : \E answers \in {<<ERR("PROGERROR")>>, <<ERR("PROGERROR"), ACK(0)>>} :
              n <= Len(answers) /\ replies' = replies \o SubSeq(answers, 1, n)
<1> DEFINE buf == fbuffer \o d
<1>1. buf \in Seq(Units) /\ Len(buf) \in Nat
  BY ConcatProperties, LenProperties DEF SessionTyped
<1>2. FlushSize \in Nat /\ FlushSize > 0
  BY Constants
<1>3. PICK j \in 1 .. Len(buf) \div FlushSize :
        /\ flash' = Stored(flash, address_offset, SubSeq(buf, 1, (j - 1) * FlushSize))
        /\ address_offset' = address_offset + j * FlushSize
        /\ foestate' = "ready" /\ fbuffer' = <<>>
        /\ \E answers \in {<<ERR("PROGERROR")>>, <<ERR("PROGERROR"), ACK(0)>>} :
             \E n \in 0 .. Len(answers) : replies' = replies \o SubSeq(answers, 1, n)
  BY DEF FlushFails, Cleared
<1>4. PICK m \in Nat : m = Len(buf)
  BY <1>1
<1>5. j \in 0 .. m \div FlushSize /\ j - 1 \in 0 .. m \div FlushSize
  BY <1>2, <1>3, <1>4
<1>6. j * FlushSize \in Nat /\ (j - 1) * FlushSize \in Nat /\ (j - 1) * FlushSize <= m
  BY <1>5, FlushesFit
<1>7. /\ foe_file \in Files /\ address_offset \in Nat /\ address_offset <= Len(flash[foe_file])
      /\ flash \in [Files -> Seq(Units)]
  BY SessionIs
<1>8. SubSeq(buf, 1, (j - 1) * FlushSize) \in Seq(Units)
  <2> HIDE DEF buf
  <2> QED
    BY <1>1, <1>4, <1>6, CutTyped
<1>9. flash' \in [Files -> Seq(Units)]
  <2> HIDE DEF buf
  <2> QED
    BY <1>3, <1>7, <1>8, StoredWell
<1>10. address_offset' \in Nat
  <2>1. address_offset' = address_offset + j * FlushSize
    BY <1>3
  <2> QED
    BY <1>6, <1>7, <2>1
<1> DEFINE one == <<ERR("PROGERROR")>>  two == <<ERR("PROGERROR"), ACK(0)>>
<1>11. Len(one) = 1 /\ Len(two) = 2
  OBVIOUS
<1>12. PICK answers \in {one, two} : \E n \in 0 .. Len(answers) : replies' = replies \o SubSeq(answers, 1, n)
  BY <1>3
<1> HIDE DEF one, two
<1>13. PICK n \in 0 .. Len(answers) : replies' = replies \o SubSeq(answers, 1, n)
  BY <1>12
<1>14. n \in 0 .. 2 /\ n <= Len(answers)
  <2> DEFINE l == Len(answers)
  <2>1. l = 1 \/ l = 2
    BY <1>11, <1>12
  <2>2. n \in 0 .. l
    BY <1>13
  <2> HIDE DEF l
  <2>3. n \in 0 .. 2 /\ n <= l
    BY <2>1, <2>2
  <2> QED
    BY <2>3 DEF l
<1>15. \E i \in 0 .. 2 : \E a \in {one, two} : i <= Len(a) /\ replies' = replies \o SubSeq(a, 1, i)
  BY <1>12, <1>13, <1>14
<1> QED
  BY <1>3, <1>9, <1>10, <1>15 DEF one, two

-----------------------------------------------------------------------------
(* The handlers, given a mailbox with nothing in it to answer.             *)

\* Nothing is answered, or an error first.
NotAcknowledged(rs) == rs = <<>> \/ Head(rs).op = "err"

LEMMA OneAnswer ==
  ASSUME NEW rs, rs = <<>>, NEW r
  PROVE  Append(rs, r) = <<r>>
  OBVIOUS

LEMMA AbortAnswers ==
  ASSUME replies = <<>>, NEW code, FOE_abort(code)
  PROVE  ~Open' /\ fbuffer' = <<>> /\ foestate' = "ready" /\ NotAcknowledged(replies')
<1>1. foestate' = "ready" /\ fbuffer' = <<>>
  BY DEF FOE_abort, FOE_init, Cleared
<1>2. CASE replies' = Append(replies, ERR(code))
  <2>1. replies' = <<ERR(code)>>
    BY <1>2, OneAnswer
  <2>2. Head(replies').op = "err"
    BY <2>1 DEF ERR
  <2> QED
    BY <1>1, <2>2 DEF NotAcknowledged, Open
<1>3. CASE UNCHANGED replies
  BY <1>1, <1>3 DEF NotAcknowledged, Open
<1> QED
  BY <1>2, <1>3 DEF FOE_abort

LEMMA AckedInTheEnd ==
  ASSUME replies = <<>>, AckAndEnd
  PROVE  /\ ~Open' /\ fbuffer' = <<>> /\ foestate' = "ready"
         /\ NotAcknowledged(replies') \/ replies' = <<ACK(foepacket)>>
<1>1. foestate' = "ready" /\ fbuffer' = <<>>
  BY DEF AckAndEnd, FOE_init, Cleared
<1>2. CASE replies' = Append(replies, ACK(foepacket))
  BY <1>1, <1>2, OneAnswer DEF Open
<1>3. CASE UNCHANGED replies
  BY <1>1, <1>3 DEF NotAcknowledged, Open
<1> QED
  BY <1>2, <1>3 DEF AckAndEnd

LEMMA AckedOnTheWay ==
  ASSUME replies = <<>>, NEW packet, NEW position, NEW buf, AckAndGoOn(packet, position, buf)
  PROVE  \/ ~Open' /\ fbuffer' = <<>> /\ foestate' = "ready" /\ NotAcknowledged(replies')
         \/ /\ Open' /\ fbuffer' = buf /\ foestate' = "data" /\ foepacket' = packet + 1
            /\ replies' = <<ACK(packet)>>
<1>1. CASE /\ foestate' = "data" /\ foepacket' = packet + 1 /\ fbuffer' = buf
           /\ replies' = Append(replies, ACK(packet))
  BY <1>1, OneAnswer DEF Open
<1>2. CASE FOE_init /\ UNCHANGED replies
  BY <1>2 DEF FOE_init, Cleared, NotAcknowledged, Open
<1> QED
  BY <1>1, <1>2 DEF AckAndGoOn

\* FOE_write opens a session for the version asked for, with nothing taken yet,
\* or leaves none open.
LEMMA WriteOpens ==
  ASSUME SessionTyped, replies = <<>>, req.version \in Versions, FOE_write
  PROVE  /\ SessionTyped'
         /\ \/ ~Open' /\ NotAcknowledged(replies') /\ (~Open => version' = version)
            \/ /\ ~Open /\ Open' /\ foepacket' = 1 /\ replies' = <<ACK(0)>> /\ InSession' = <<>>
               /\ version' = req.version /\ foe_file' \in Files
               /\ IsPrefix(req.name, Table[foe_file'].name)
<1> DEFINE opened == FOE_fopen(req.name, req.pass)
           error == IF foestate # "ready" THEN "ILLEGAL" ELSE opened.error
<1>1. CASE error # "none"
  <2>1. FOE_abort(error) /\ UNCHANGED <<foe_file, address_offset, version, flash>>
    BY <1>1 DEF FOE_write
  <2>2. ~Open' /\ fbuffer' = <<>> /\ foestate' = "ready" /\ NotAcknowledged(replies')
    <3> HIDE DEF error
    <3> QED
      BY <2>1, AbortAnswers
  <2> QED
    BY <2>1, <2>2 DEF SessionTyped
<1>2. CASE error = "none"
  <2>1. /\ foe_file' = opened.file /\ address_offset' = 0 /\ AckAndGoOn(0, 0, <<>>)
        /\ version' = (IF foestate' = "data" THEN req.version ELSE version) /\ flash' = flash
    BY <1>2 DEF FOE_write, Cleared
  <2>2. foestate = "ready" /\ opened.error = "none"
    BY <1>2
  <2>3. opened.file \in Files /\ IsPrefix(req.name, Table[opened.file].name)
    BY <2>2, OpenedFile
  <2> HIDE DEF opened
  <2>4. flash[opened.file] \in Seq(Units) /\ 0 <= Len(flash[opened.file])
    BY <2>3, LenProperties DEF SessionTyped
  <2>5. CASE ~Open' /\ fbuffer' = <<>> /\ foestate' = "ready" /\ NotAcknowledged(replies')
    <3>1. version' = version
      BY <2>1, <2>5
    <3> QED
      BY <2>1, <2>5, <3>1 DEF SessionTyped
  <2>6. CASE /\ Open' /\ fbuffer' = <<>> /\ foestate' = "data" /\ foepacket' = 0 + 1
             /\ replies' = <<ACK(0)>>
    <3>1. version' = req.version /\ ~Open
      BY <2>1, <2>2, <2>6 DEF Open
    <3>2. SubSeq(flash[opened.file], 1, 0) = <<>>
      BY SubSeqEmpty
    <3>3. InSession' = <<>>
      <4>1. InSession' = SubSeq(flash[opened.file], 1, 0) \o <<>>
        BY <2>1, <2>6 DEF InSession
      <4> QED
        BY <3>2, <4>1
    <3>4. SessionTyped'
      BY <2>1, <2>3, <2>4, <2>6, <3>1 DEF SessionTyped
    <3> QED
      BY <2>1, <2>3, <2>6, <3>1, <3>3, <3>4
  <2> QED
    BY <2>1, <2>5, <2>6, AckedOnTheWay
<1> QED
  BY <1>1, <1>2

\* FOE_data takes the next packet whole and goes on, takes the last one and has
\* stored all that was sent, or ends the session without an acknowledgement.  An
\* empty packet is acknowledged without a look at what could be stored.
LEMMA DataTaken ==
  ASSUME SessionTyped, replies = <<>>, req.data \in Seq(Units), FOE_data
  PROVE  /\ SessionTyped' /\ version' = version /\ foe_file' = foe_file
         /\ \/ ~Open' /\ NotAcknowledged(replies')
            \/ /\ Open /\ ~Open' /\ req.packet = foepacket /\ replies' = <<ACK(foepacket)>>
               /\ Len(req.data) < PacketSize
               /\ req.data # <<>> =>
                    /\ Len(InSession \o req.data) <= Len(flash'[foe_file])
                    /\ SubSeq(flash'[foe_file], 1, Len(InSession \o req.data)) = InSession \o req.data
            \/ /\ Open /\ Open' /\ req.packet = foepacket /\ replies' = <<ACK(foepacket)>>
               /\ req.data # <<>> /\ Len(req.data) = PacketSize /\ foepacket' = foepacket + 1
               /\ InSession' = InSession \o req.data
<1> DEFINE d == req.data  w == FOE_fwrite(d)
           refused == IF foestate # "data" THEN "ILLEGAL"
                      ELSE IF req.packet # foepacket THEN "PACKETNO"
                      ELSE IF d # <<>> /\ DiskFull(Len(d)) THEN "DISKFULL" ELSE "none"
<1>0. version' = version /\ foe_file' = foe_file
  BY DEF FOE_data
<1>1. PacketSize \in Nat /\ PacketSize > 0
  BY Constants
<1>2. CASE refused # "none"
  <2>1. FOE_abort(refused) /\ UNCHANGED <<address_offset, flash>>
    BY <1>2 DEF FOE_data
  <2>2. ~Open' /\ fbuffer' = <<>> /\ foestate' = "ready" /\ NotAcknowledged(replies')
    <3> HIDE DEF refused
    <3> QED
      BY <2>1, AbortAnswers
  <2> QED
    BY <1>0, <2>1, <2>2 DEF SessionTyped
<1>3. CASE refused = "none"
  <2>1. Open /\ req.packet = foepacket
    BY <1>3 DEF Open
  <2>2. IF d = <<>>
        THEN \/ CloseWell(w) /\ AckAndEnd
             \/ CloseFails(w) /\ FOE_init /\ replies' = Append(replies, ACK(foepacket))
        ELSE \/ FlushFails(d)
             \/ /\ Len(d) = PacketSize
                /\ flash' = w.flash /\ address_offset' = w.offset
                /\ AckAndGoOn(foepacket, fposition + Len(d), w.rest)
             \/ Len(d) < PacketSize /\ CloseWell(w) /\ AckAndEnd
             \/ /\ Len(d) < PacketSize /\ CloseFails(w)
                /\ FOE_init /\ replies' = Append(replies, ERR("PROGERROR"))
    BY <1>3 DEF FOE_data
  <2> HIDE DEF refused
  <2>3. /\ w.flash \in [Files -> Seq(Units)] /\ w.rest \in Seq(Units) /\ w.offset \in Nat
        /\ w.offset <= Len(w.flash[foe_file])
        /\ SubSeq(w.flash[foe_file], 1, w.offset) \o w.rest = InSession \o d
    BY <2>1, WrittenWell
  <2> DEFINE stored == /\ Len(InSession \o d) <= Len(flash'[foe_file])
                       /\ SubSeq(flash'[foe_file], 1, Len(InSession \o d)) = InSession \o d
  <2>4. ASSUME CloseWell(w)
        PROVE  flash' \in [Files -> Seq(Units)] /\ address_offset' \in Nat /\ stored
    BY <2>1, <2>4, ClosedWell
  <2>5. ASSUME CloseFails(w)
        PROVE  flash' \in [Files -> Seq(Units)] /\ address_offset' \in Nat
    <3>1. Len(w.rest) \in Nat
      <4> HIDE DEF w
      <4> QED
        BY <2>3, LenProperties
    <3> QED
      BY <2>3, <2>5, <3>1 DEF CloseFails
  <2>6. foe_file \in Files
    BY <2>1, SessionIs
  <2>7. ASSUME flash' \in [Files -> Seq(Units)], address_offset' \in Nat,
               foestate' = "ready", fbuffer' = <<>>
        PROVE  SessionTyped' /\ ~Open'
    BY <1>0, <2>7 DEF SessionTyped, Open
  <2>8. ASSUME CloseWell(w), AckAndEnd
        PROVE  /\ SessionTyped' /\ ~Open' /\ stored
               /\ NotAcknowledged(replies') \/ replies' = <<ACK(foepacket)>>
    <3>1. foestate' = "ready" /\ fbuffer' = <<>> /\ (NotAcknowledged(replies') \/ replies' = <<ACK(foepacket)>>)
      BY <2>8, AckedInTheEnd
    <3> QED
      BY <2>4, <2>7, <2>8, <3>1
  <2>9. ASSUME CloseFails(w), FOE_init
        PROVE  SessionTyped' /\ ~Open'
    <3>1. foestate' = "ready" /\ fbuffer' = <<>>
      BY <2>9 DEF FOE_init, Cleared
    <3> QED
      BY <2>5, <2>7, <2>9, <3>1
  <2> HIDE DEF stored
  <2>10. CASE d = <<>>
    <3>1. Len(d) < PacketSize
      <4>1. Len(d) = 0
        BY <2>10
      <4> QED
        BY <1>1, <4>1
    <3>2. CASE CloseWell(w) /\ AckAndEnd
      BY <1>0, <2>1, <2>8, <2>10, <3>1, <3>2
    <3>3. CASE CloseFails(w) /\ FOE_init /\ replies' = Append(replies, ACK(foepacket))
      <4>1. replies' = <<ACK(foepacket)>>
        BY <3>3, OneAnswer
      <4> QED
        BY <1>0, <2>1, <2>9, <2>10, <3>1, <3>3, <4>1
    <3> QED
      BY <2>2, <2>10, <3>2, <3>3
  <2>11. CASE d # <<>>
    <3>1. CASE FlushFails(d)
      <4>1. /\ flash' \in [Files -> Seq(Units)] /\ address_offset' \in Nat
            /\ foestate' = "ready" /\ fbuffer' = <<>>
        BY <2>1, <3>1, FlushFailedWell
      <4>2. PICK n \in 0 .. 2 : \E answers \in {<<ERR("PROGERROR")>>, <<ERR("PROGERROR"), ACK(0)>>} :
              n <= Len(answers) /\ replies' = replies \o SubSeq(answers, 1, n)
        BY <2>1, <3>1, FlushFailedWell
      <4>3. NotAcknowledged(replies')
        <5>1. ERR("PROGERROR").op = "err"
          BY DEF ERR
        <5> DEFINE e == ERR("PROGERROR")  a == ACK(0)
        <5>2. PICK answers \in {<<e>>, <<e, a>>} :
                n <= Len(answers) /\ replies' = <<>> \o SubSeq(answers, 1, n)
          BY <4>2
        <5> HIDE DEF e, a
        <5>3. CASE n = 0
          <6>1. SubSeq(answers, 1, n) = <<>>
            BY <5>3, SubSeqEmpty
          <6> QED
            BY <5>2, <6>1 DEF NotAcknowledged
        <5>4. CASE n # 0
          <6> DEFINE part == SubSeq(answers, 1, n)
          <6>1. answers \in Seq({e, a}) /\ answers[1] = e
            <7>1. <<e>> \in Seq({e, a}) /\ <<e>>[1] = e
              OBVIOUS
            <7>2. <<e, a>> \in Seq({e, a}) /\ <<e, a>>[1] = e
              OBVIOUS
            <7>3. answers = <<e>> \/ answers = <<e, a>>
              BY <5>2
            <7> QED
              BY <7>1, <7>2, <7>3
          <6>2. part \in Seq({e, a}) /\ Len(part) = n
            <7> HIDE DEF part
            <7>1. part = SubSeq(answers, 1, n)
              BY DEF part
            <7> QED
              BY <5>2, <6>1, <7>1, CutTyped
          <6>3. part[1] = e
            <7>1. \A i \in 1 .. n : answers[i] \in {e, a}
              BY <5>2, <6>1, ElementOfSeq
            <7>2. part[1] = answers[1 + 1 - 1]
              BY <5>4, <7>1, SubSeqProperties
            <7>3. 1 + 1 - 1 = 1
              OBVIOUS
            <7> QED
              BY <6>1, <7>2, <7>3
          <6> HIDE DEF part
          <6>4. replies' = part
            BY <5>2, <6>2, ConcatEmptySeq DEF part
          <6>5. Head(part) = e
            BY <5>4, <6>2, <6>3
          <6> QED
            BY <5>1, <6>4, <6>5 DEF NotAcknowledged, e
        <5> QED
          BY <5>3, <5>4
      <4> QED
        BY <1>0, <2>7, <4>1, <4>3
    <3>2. CASE /\ Len(d) = PacketSize
               /\ flash' = w.flash /\ address_offset' = w.offset
               /\ AckAndGoOn(foepacket, fposition + Len(d), w.rest)
      <4>1. CASE ~Open' /\ fbuffer' = <<>> /\ foestate' = "ready" /\ NotAcknowledged(replies')
        <5>1. flash' \in [Files -> Seq(Units)] /\ address_offset' \in Nat
          <6>1. flash' = w.flash /\ address_offset' = w.offset
            BY <3>2
          <6> HIDE DEF w
          <6> QED
            BY <2>3, <6>1, Zenon
        <5> QED
          BY <1>0, <2>7, <4>1, <5>1
      <4>2. CASE /\ Open' /\ fbuffer' = w.rest /\ foestate' = "data" /\ foepacket' = foepacket + 1
                 /\ replies' = <<ACK(foepacket)>>
        <5>1. InSession' = SubSeq(w.flash[foe_file], 1, w.offset) \o w.rest
          <6>1. InSession' = SubSeq(flash'[foe_file'], 1, address_offset') \o fbuffer'
            BY <4>2 DEF InSession
          <6> QED
            BY <1>0, <3>2, <4>2, <6>1
        <5>2. SessionTyped'
          <6> HIDE DEF w
          <6>1. version \in Versions
            BY DEF SessionTyped
          <6> QED
            BY <1>0, <2>3, <2>6, <3>2, <4>2, <6>1 DEF SessionTyped
        <5> QED
          BY <1>0, <2>1, <2>3, <2>11, <3>2, <4>2, <5>1, <5>2
      <4> QED
        <5> HIDE DEF w
        <5> QED
          BY <3>2, <4>1, <4>2, AckedOnTheWay
    <3>3. CASE Len(d) < PacketSize /\ CloseWell(w) /\ AckAndEnd
      BY <1>0, <2>1, <2>8, <3>3 DEF stored
    <3>4. CASE /\ Len(d) < PacketSize /\ CloseFails(w)
               /\ FOE_init /\ replies' = Append(replies, ERR("PROGERROR"))
      <4>1. replies' = <<ERR("PROGERROR")>>
        BY <3>4, OneAnswer
      <4>2. NotAcknowledged(replies')
        BY <4>1 DEF NotAcknowledged, ERR
      <4> QED
        BY <1>0, <2>9, <3>4, <4>2
    <3> QED
      BY <2>2, <2>11, <3>1, <3>2, <3>3, <3>4
  <2> QED
    BY <2>10, <2>11
<1> QED
  BY <1>2, <1>3

-----------------------------------------------------------------------------
(* The invariant, step by step.                                            *)

\* A full packet after full packets.
LEMMA FullPacket ==
  ASSUME NEW a \in Nat, a % PacketSize = 0
  PROVE  (a + PacketSize) % PacketSize = 0
<1>1. PacketSize \in Nat /\ PacketSize > 0
  BY Constants
<1> DEFINE q == a \div PacketSize  r == a % PacketSize
<1>2. q \in Int /\ a = PacketSize * q + r /\ r = 0
  BY <1>1
<1> HIDE DEF q, r
<1>3. a = PacketSize * q
  BY <1>1, <1>2
<1>4. a + PacketSize = PacketSize * (q + 1)
  BY <1>1, <1>2, <1>3
<1> DEFINE k == (a + PacketSize) \div PacketSize  t == (a + PacketSize) % PacketSize
<1>5. k \in Int /\ t \in Nat /\ t < PacketSize /\ a + PacketSize = PacketSize * k + t
  BY <1>1
<1> HIDE DEF k, t
<1>6. PacketSize * (q + 1) = PacketSize * k + t
  BY <1>4, <1>5
<1>7. t = PacketSize * (q + 1 - k)
  BY <1>1, <1>2, <1>5, <1>6
<1>8. PICK e \in Int : e = q + 1 - k
  BY <1>2, <1>5
<1>9. e < 1
  BY <1>1, <1>5, <1>7, <1>8
<1>10. e > -1
  BY <1>1, <1>5, <1>7, <1>8
<1>11. e = 0
  BY <1>8, <1>9, <1>10
<1>12. t = 0
  BY <1>1, <1>7, <1>8, <1>11
<1> QED
  BY <1>12 DEF t

\* The data of the packet on its way follow what has been taken.
LEMMA NextPart ==
  ASSUME TransferTyped, PacketSent
  PROVE  \E n \in 0 .. PacketSize, m \in Nat :
           /\ master.sent = m + n /\ m % PacketSize = 0 /\ (master.last <=> n < PacketSize)
           /\ InStep(m) /\ req.data = Value(master.version, m, m + n)
           /\ req.data \in Seq(Units) /\ Len(req.data) = n
           /\ Len(InSession) = m /\ InSession \o req.data = Value(master.version, 0, m + n)
<1>1. PICK n \in 0 .. PacketSize :
        /\ n <= master.sent /\ req.data = Value(master.version, master.sent - n, master.sent)
        /\ (master.last <=> n < PacketSize) /\ (master.sent - n) % PacketSize = 0
        /\ InStep(master.sent - n)
  BY DEF PacketSent
<1>2. master.sent \in Nat /\ master.version \in Nat /\ n \in Nat
  <2>1. master.sent \in Nat /\ master.version \in Versions
    BY DEF TransferTyped
  <2>2. PacketSize \in Nat /\ Versions \subseteq Nat
    BY Constants
  <2>3. master.version \in Nat
    BY <2>1, <2>2
  <2>4. n \in Nat
    BY <2>2
  <2> QED
    BY <2>1, <2>3, <2>4
<1>3. PICK m \in Nat : m = master.sent - n
  BY <1>1, <1>2
<1>4. master.sent = m + n
  BY <1>2, <1>3
<1>5. InSession = Value(master.version, 0, m) /\ InStep(m)
  BY <1>1, <1>3 DEF InStep
<1>6. req.data = Value(master.version, m, m + n)
  BY <1>1, <1>3, <1>4
<1>7. PICK v \in Nat : v = master.version
  BY <1>2
<1>11. PICK b \in Nat : b = m + n
  BY <1>2
<1>8. req.data \in Seq(Units) /\ Len(req.data) = n
  <2>1. IsRun(Value(v, m, b), v, m, n)
    BY <1>2, <1>11, ValueTyped
  <2> QED
    BY <1>6, <1>7, <1>11, <2>1 DEF IsRun
<1>9. Len(InSession) = m
  <2>1. PICK z \in Nat : z = 0 /\ m = z + m
    OBVIOUS
  <2>2. IsRun(Value(v, z, m), v, z, m)
    BY <2>1, ValueTyped
  <2> QED
    BY <1>5, <1>7, <2>1, <2>2 DEF IsRun
<1>10. InSession \o req.data = Value(master.version, 0, m + n)
  <2>1. Joins(Value(v, 0, m), Value(v, m, b), Value(v, 0, b))
    BY <1>2, <1>11, ValuesJoin
  <2> QED
    BY <1>5, <1>6, <1>7, <1>11, <2>1 DEF Joins
<1> QED
  BY <1>1, <1>3, <1>4, <1>5, <1>6, <1>8, <1>9, <1>10

\* A store that goes on or ends, in terms of the session.
LEMMA StoreCloses ==
  ASSUME SessionTyped, SessionTyped', ~Open', ~Open => version' = version
  PROVE  [Store!Next]_(Store!vars)
<1>1. InSession' = <<>> /\ version' \in Versions
  BY DEF InSession, SessionTyped
<1>2. CASE Open
  <2>1. foe_file \in Files /\ foe_file # None
    BY <1>2, SessionIs, Constants
  <2>2. Store!Close
    BY <1>1, <1>2, <2>1 DEF Store!Close
  <2> QED
    BY <2>2 DEF Store!Next
<1>3. CASE ~Open
  <2>1. InSession = <<>>
    BY <1>3 DEF InSession
  <2> QED
    BY <1>1, <1>3, <2>1 DEF Store!vars
<1> QED
  BY <1>2, <1>3

LEMMA StoreSame ==
  ASSUME SlaveOnly
  PROVE  /\ UNCHANGED Store!vars /\ Open' = Open /\ InSession' = InSession
         /\ SessionTyped => SessionTyped'
<1>1. UNCHANGED <<foestate, foepacket, fposition, fbuffer, foe_file, address_offset, flash, version>>
  BY DEF SlaveOnly, foeVars
<1>2. Open' = Open /\ InSession' = InSession
  BY <1>1 DEF Open, InSession
<1>3. UNCHANGED Store!vars
  BY <1>1, <1>2 DEF Store!vars
<1>4. SessionTyped => SessionTyped'
  BY <1>1 DEF SessionTyped, Open
<1> QED
  BY <1>2, <1>3, <1>4

\* ESC_foeprocess of a write request.
LEMMA WriteStep ==
  ASSUME FoeInv, req.op = "wrq", req' = Nothing, FOE_write, UNCHANGED master
  PROVE  FoeInv' /\ [Store!Next]_(Store!vars)
<1>1. SessionTyped /\ TransferInv
  BY DEF FoeInv
<1>2. master.phase = "running" /\ TransferTyped /\ Asked
  BY <1>1 DEF TransferInv, Refused, Acknowledged, PacketSent, Nothing
<1>3. req.version = master.version /\ req.name = master.name /\ replies = <<>>
  BY <1>2 DEF Asked
<1>4. req.version \in Versions
  BY <1>2, <1>3 DEF TransferTyped
<1>5. TransferTyped' /\ master'.phase = "running"
  BY <1>2 DEF TransferTyped
<1>6. SessionTyped'
  BY <1>1, <1>3, <1>4, WriteOpens
<1>7. CASE ~Open' /\ NotAcknowledged(replies') /\ (~Open => version' = version)
  <2>1. Refused'
    BY <1>7 DEF Refused, NotAcknowledged
  <2>2. TransferInv'
    BY <1>5, <2>1 DEF TransferInv
  <2> QED
    BY <1>1, <1>6, <1>7, <2>2, StoreCloses DEF FoeInv
<1>8. CASE /\ ~Open /\ Open' /\ foepacket' = 1 /\ replies' = <<ACK(0)>> /\ InSession' = <<>>
           /\ version' = req.version /\ foe_file' \in Files
           /\ IsPrefix(req.name, Table[foe_file'].name)
  <2>1. InStep(0)'
    <3>1. Value(master'.version, 0, 0) = <<>>
      BY NoValue
    <3> QED
      BY <1>3, <1>8, <3>1 DEF InStep
  <2>2. master.packet = 0 /\ master.sent = 0 /\ ~master.last /\ master' = master
    BY <1>2 DEF Asked
  <2>3. Acknowledged'
    <3>1. InStep(master.sent)'
      BY <2>1, <2>2
    <3> QED
      BY <1>8, <2>2, <3>1 DEF Acknowledged
  <2>4. TransferInv'
    BY <1>5, <2>3 DEF TransferInv
  <2>5. Store!Open
    <3>1. InSession = <<>> /\ req.version \in Versions
      BY <1>4, <1>8 DEF InSession
    <3> QED
      BY <1>8, <3>1 DEF Store!Open
  <2> QED
    BY <1>6, <2>4, <2>5 DEF FoeInv, Store!Next
<1> QED
  BY <1>1, <1>3, <1>4, <1>7, <1>8, WriteOpens

\* ESC_foeprocess of a data packet.
LEMMA DataStep ==
  ASSUME FoeInv, req.op = "data", req' = Nothing, FOE_data, UNCHANGED master
  PROVE  FoeInv' /\ [Store!Next]_(Store!vars)
<1>1. SessionTyped /\ TransferInv
  BY DEF FoeInv
<1>2. master.phase = "running" /\ TransferTyped /\ PacketSent
  BY <1>1 DEF TransferInv, Asked, Refused, Acknowledged, Nothing
<1>3. PICK n \in 0 .. PacketSize, m \in Nat :
        /\ master.sent = m + n /\ m % PacketSize = 0 /\ (master.last <=> n < PacketSize)
        /\ InStep(m) /\ req.data = Value(master.version, m, m + n)
        /\ req.data \in Seq(Units) /\ Len(req.data) = n
        /\ Len(InSession) = m /\ InSession \o req.data = Value(master.version, 0, m + n)
  BY <1>2, NextPart
<1>4. replies = <<>> /\ req.packet = master.packet /\ foepacket = master.packet
  BY <1>2 DEF PacketSent
<1>5. /\ SessionTyped' /\ version' = version /\ foe_file' = foe_file
      /\ \/ ~Open' /\ NotAcknowledged(replies')
         \/ /\ Open /\ ~Open' /\ req.packet = foepacket /\ replies' = <<ACK(foepacket)>>
            /\ Len(req.data) < PacketSize
            /\ req.data # <<>> =>
                 /\ Len(InSession \o req.data) <= Len(flash'[foe_file])
                 /\ SubSeq(flash'[foe_file], 1, Len(InSession \o req.data)) = InSession \o req.data
         \/ /\ Open /\ Open' /\ req.packet = foepacket /\ replies' = <<ACK(foepacket)>>
            /\ req.data # <<>> /\ Len(req.data) = PacketSize /\ foepacket' = foepacket + 1
            /\ InSession' = InSession \o req.data
  BY <1>1, <1>3, <1>4, DataTaken
<1>6. TransferTyped' /\ master'.phase = "running" /\ master' = master
  BY <1>2 DEF TransferTyped
<1>7. /\ version = master.version /\ IsPrefix(master.name, Table[foe_file].name)
  BY <1>3 DEF InStep
<1>8. CASE ~Open' /\ NotAcknowledged(replies')
  <2>1. Refused'
    BY <1>8 DEF Refused, NotAcknowledged
  <2>2. TransferInv'
    BY <1>6, <2>1 DEF TransferInv
  <2> QED
    BY <1>1, <1>5, <1>8, <2>2, StoreCloses DEF FoeInv
<1>9. CASE /\ Open /\ ~Open' /\ replies' = <<ACK(foepacket)>> /\ Len(req.data) < PacketSize
           /\ req.data # <<>> =>
                /\ Len(InSession \o req.data) <= Len(flash'[foe_file])
                /\ SubSeq(flash'[foe_file], 1, Len(InSession \o req.data)) = InSession \o req.data
  <2>1. master.last /\ master.size = m + n
    BY <1>2, <1>3, <1>9 DEF TransferTyped
  <2>2. OnFlash'
    <3>1. ASSUME master.size % PacketSize # 0
          PROVE  \E f \in Files : /\ IsPrefix(master.name, Table[f].name)
                                  /\ Len(flash'[f]) >= master.size
                                  /\ SubSeq(flash'[f], 1, master.size) = Value(master.version, 0, master.size)
      <4>1. m + n \in Nat /\ n \in Nat
        BY <1>3, Constants
      <4>2. n # 0
        BY <1>3, <2>1, <3>1
      <4>3. req.data # <<>>
        BY <1>3, <4>2
      <4>4. Len(InSession \o req.data) = master.size
        <5> DEFINE v == master.version
        <5>1. v \in Nat
          BY <1>2, Constants DEF TransferTyped
        <5> HIDE DEF v
        <5>2. PICK z \in Nat, b \in Nat : z = 0 /\ b = m + n /\ b = z + b
          BY <4>1
        <5>3. IsRun(Value(v, z, b), v, z, b)
          BY <5>1, <5>2, ValueTyped
        <5>4. Len(Value(v, 0, m + n)) = m + n
          BY <5>2, <5>3 DEF IsRun
        <5> QED
          BY <1>3, <2>1, <5>4 DEF v
      <4>5. foe_file \in Files
        BY <1>1, <1>9, SessionIs
      <4>6. InSession \o req.data = Value(master.version, 0, master.size)
        BY <1>3, <2>1
      <4>7. Len(flash'[foe_file]) \in Nat
        <5>1. flash'[foe_file] \in Seq(Units)
          BY <1>5, <4>5 DEF SessionTyped
        <5> QED
          BY <5>1, LenProperties
      <4>8. /\ master.size <= Len(flash'[foe_file])
            /\ SubSeq(flash'[foe_file], 1, master.size) = Value(master.version, 0, master.size)
        BY <1>9, <4>3, <4>4, <4>6
      <4>9. Len(flash'[foe_file]) >= master.size
        BY <2>1, <4>1, <4>7, <4>8
      <4> QED
        BY <1>7, <4>5, <4>8, <4>9
    <3> QED
      BY <1>6, <3>1 DEF OnFlash
  <2>3. Acknowledged'
    BY <1>4, <1>6, <1>9, <2>1, <2>2 DEF Acknowledged
  <2>4. TransferInv'
    BY <1>6, <2>3 DEF TransferInv
  <2> QED
    BY <1>1, <1>5, <1>9, <2>4, StoreCloses DEF FoeInv
<1>10. CASE /\ Open /\ Open' /\ replies' = <<ACK(foepacket)>>
            /\ req.data # <<>> /\ Len(req.data) = PacketSize /\ foepacket' = foepacket + 1
            /\ InSession' = InSession \o req.data
  <2>1. ~master.last /\ n = PacketSize /\ n > 0
    BY <1>3, <1>10, Constants
  <2>2. InStep(m + n)'
    <3>1. InSession' = Value(master'.version, 0, m + n)
      BY <1>3, <1>6, <1>10
    <3> QED
      BY <1>5, <1>6, <1>7, <1>10, <3>1 DEF InStep
  <2>3. Acknowledged'
    <3>1. InStep(master.sent)'
      <4>1. \A i : i = m + n => InStep(i)'
        BY <2>2
      <4>2. master'.sent = m + n
        BY <1>3, <1>6
      <4> QED
        BY <4>1, <4>2 DEF InStep
    <3> QED
      BY <1>4, <1>6, <1>10, <2>1, <3>1 DEF Acknowledged
  <2>4. TransferInv'
    BY <1>6, <2>3 DEF TransferInv
  <2>5. Store!Take
    <3>1. foe_file \in Files /\ foe_file # None
      BY <1>1, <1>10, SessionIs, Constants
    <3>2. n \in 1 .. PacketSize
      BY <2>1
    <3>3. req.data = [i \in 1 .. n |-> <<version, m + i>>]
      <4>1. m + n - m = n
        BY <2>1, Constants
      <4> QED
        BY <1>3, <1>7, <4>1 DEF Value
    <3>4. InSession' = InSession \o [i \in 1 .. n |-> <<version, Len(InSession) + i>>]
      BY <1>3, <1>10, <3>3
    <3> QED
      BY <1>5, <1>10, <3>1, <3>2, <3>4 DEF Store!Take
  <2> QED
    BY <1>5, <2>4, <2>5 DEF FoeInv, Store!Next
<1> QED
  BY <1>5, <1>8, <1>9, <1>10

\* ESC_foeprocess of anything else, which only a master with no transfer sends.
LEMMA OtherStep ==
  ASSUME FoeInv, req' = Nothing, UNCHANGED master,
         \/ req.op = "err" /\ FOE_error
         \/ req.op = "rrq" /\ FOE_abort("NOTDEFINED") /\ UNCHANGED <<foe_file, address_offset, flash, version>>
  PROVE  FoeInv' /\ [Store!Next]_(Store!vars)
<1>1. SessionTyped /\ TransferInv
  BY DEF FoeInv
<1>2. master.phase # "running"
  BY <1>1 DEF TransferInv, Asked, Refused, Acknowledged, PacketSent, Nothing
<1>3. /\ foestate' = "ready" /\ fbuffer' = <<>>
      /\ UNCHANGED <<foe_file, address_offset, flash, version>>
  BY DEF FOE_error, FOE_abort, FOE_init, Cleared
<1>4. SessionTyped' /\ ~Open'
  BY <1>1, <1>3 DEF SessionTyped, Open
<1>5. TransferInv'
  BY <1>1, <1>2, <1>3 DEF TransferInv, OnFlash, Nothing
<1> QED
  BY <1>1, <1>3, <1>4, <1>5, StoreCloses DEF FoeInv

LEMMA ProcessStep ==
  ASSUME FoeInv, ESC_foeprocess
  PROVE  FoeInv' /\ [Store!Next]_(Store!vars)
<1>1. req' = Nothing /\ UNCHANGED master
  BY DEF ESC_foeprocess
<1>2. CASE req.op = "wrq" /\ FOE_write
  BY <1>1, <1>2, WriteStep
<1>3. CASE req.op = "data" /\ FOE_data
  BY <1>1, <1>3, DataStep
<1>4. CASE \/ req.op = "err" /\ FOE_error
           \/ req.op = "rrq" /\ FOE_abort("NOTDEFINED") /\ UNCHANGED <<foe_file, address_offset, flash, version>>
  BY <1>1, <1>4, OtherStep
<1> QED
  BY <1>2, <1>3, <1>4 DEF ESC_foeprocess

\* The master's steps leave the device alone.
LEMMA StartStep ==
  ASSUME FoeInv, NEW n \in Names, NEW pass \in BOOLEAN, NEW size \in FileSizes, NEW v \in Versions,
         Start(n, pass, size, v)
  PROVE  FoeInv'
<1>1. SessionTyped'
  BY StoreSame DEF FoeInv, Start
<1>2. PacketSize \in Nat /\ PacketSize > 0 /\ size \in Nat
  BY Constants
<1>3. /\ master' = [phase |-> "running", name |-> n, version |-> v, size |-> size,
                    sent |-> 0, packet |-> 0, last |-> FALSE]
      /\ req' = [op |-> "wrq", name |-> n, pass |-> pass, version |-> v] /\ replies' = <<>>
  BY DEF Start
<1>4. 0 % PacketSize = 0
  BY <1>2
<1>5. TransferTyped'
  BY <1>2, <1>3, <1>4 DEF TransferTyped
<1>6. Asked' /\ master'.phase = "running"
  BY <1>3 DEF Asked
<1>7. TransferInv'
  BY <1>5, <1>6 DEF TransferInv
<1> QED
  BY <1>1, <1>7 DEF FoeInv

LEMMA SendNextStep ==
  ASSUME FoeInv, TransferTyped, Acknowledged, master.phase = "running", ~master.last, SlaveOnly,
         SendNext, replies' = <<>>
  PROVE  TransferInv'
<1> DEFINE n == Least(PacketSize, master.size - master.sent)  m == master.sent
<1>1. PacketSize \in Nat /\ PacketSize > 0
  BY Constants
<1>2. /\ master \in [phase : {"running"}, name : Names, version : Versions, size : Nat,
                     sent : Nat, packet : Nat, last : BOOLEAN]
      /\ m <= master.size /\ m % PacketSize = 0
  BY DEF TransferTyped
<1>3. /\ n \in Nat /\ n <= PacketSize /\ m + n <= master.size /\ m \in Nat
      /\ n < PacketSize => m + n = master.size
  BY <1>1, <1>2 DEF Least
<1>4. /\ master' = [master EXCEPT !.sent = @ + n, !.packet = @ + 1, !.last = n < PacketSize]
      /\ req' = [op |-> "data", packet |-> master.packet + 1, data |-> Value(master.version, m, m + n)]
  BY DEF SendNext
<1> HIDE DEF n
<1>5. /\ master'.phase = "running" /\ master'.name = master.name /\ master'.version = master.version
      /\ master'.size = master.size /\ master'.sent = m + n /\ master'.packet = master.packet + 1
      /\ master'.last = (n < PacketSize)
  BY <1>2, <1>4
<1>6. /\ master' \in [phase : {"running"}, name : Names, version : Versions, size : Nat,
                      sent : Nat, packet : Nat, last : BOOLEAN]
  <2>1. m + n \in Nat /\ master.packet + 1 \in Nat /\ (n < PacketSize) \in BOOLEAN
    BY <1>2, <1>3
  <2> QED
    BY <1>2, <1>4, <2>1
<1>7. TransferTyped'
  <2>1. ~master'.last => master'.sent % PacketSize = 0
    <3>1. ASSUME ~(n < PacketSize) PROVE (m + n) % PacketSize = 0
      <4>1. n = PacketSize
        BY <1>1, <1>3, <3>1
      <4> QED
        BY <1>2, <1>3, <4>1, FullPacket
    <3> QED
      BY <1>5, <3>1
  <2>2. master'.sent <= master'.size /\ (master'.last => master'.sent = master'.size)
    BY <1>3, <1>5
  <2> QED
    BY <1>6, <2>1, <2>2 DEF TransferTyped
<1>8. InStep(m) /\ foepacket = master.packet + 1
  BY DEF Acknowledged
<1>9. UNCHANGED <<foe_file, version, foepacket>> /\ Open' = Open /\ InSession' = InSession
  BY StoreSame DEF SlaveOnly, foeVars
<1>10. PICK k \in Nat, j \in Nat : k = n /\ j = m
  BY <1>3
<1>11. InStep(j)'
  BY <1>5, <1>8, <1>9, <1>10 DEF InStep
<1>12. PacketSent'
  <2>1. /\ req'.op = "data" /\ req'.packet = master'.packet /\ foepacket' = master'.packet
        /\ req'.data = Value(master'.version, j, j + k) /\ master'.sent = j + k
        /\ master'.last = (k < PacketSize)
    BY <1>4, <1>5, <1>8, <1>9, <1>10
  <2>2. j + k - k = j /\ k \in 0 .. PacketSize /\ k <= j + k /\ j % PacketSize = 0
    BY <1>1, <1>2, <1>3, <1>10
  <2>3. \A i : i = j => InStep(i)'
    BY <1>11
  <2>4. master'.sent - k = j
    BY <2>1, <2>2
  <2>5. InStep(master.sent - k)'
    BY <2>3, <2>4 DEF InStep
  <2>6. /\ k \in 0 .. PacketSize /\ k <= master'.sent
        /\ req'.data = Value(master'.version, master'.sent - k, master'.sent)
        /\ (master'.last <=> k < PacketSize) /\ (master'.sent - k) % PacketSize = 0
    BY <2>1, <2>2, <2>4
  <2> QED
    BY <2>1, <2>5, <2>6 DEF PacketSent
<1> QED
  BY <1>5, <1>7, <1>12 DEF TransferInv

LEMMA TakeReplyStep ==
  ASSUME FoeInv, TakeReply
  PROVE  FoeInv'
<1> DEFINE r == Head(replies)
<1>1. /\ replies # <<>> /\ req = Nothing /\ replies' = Tail(replies) /\ SlaveOnly
      /\ IF master.phase # "running" THEN UNCHANGED <<master, req>>
         ELSE IF r.op = "err" THEN master' = Failed /\ UNCHANGED req
         ELSE IF r.packet # master.packet THEN master' = Failed /\ req' = [op |-> "err"]
         ELSE IF ~master.last THEN SendNext
         ELSE master' = [master EXCEPT !.phase = "done"] /\ UNCHANGED req
  BY DEF TakeReply
<1>2. SessionTyped' /\ flash' = flash
  BY <1>1, StoreSame DEF FoeInv, SlaveOnly
<1>3. TransferInv
  BY DEF FoeInv
<1>4. CASE master.phase # "running"
  <2>1. UNCHANGED <<master, req>>
    BY <1>1, <1>4
  <2>2. TransferInv'
    BY <1>2, <1>3, <1>4, <2>1 DEF TransferInv, OnFlash
  <2> QED
    BY <1>2, <2>2 DEF FoeInv
<1>5. CASE master.phase = "running"
  <2>1. TransferTyped /\ (Refused \/ Acknowledged)
    BY <1>1, <1>3, <1>5 DEF TransferInv, Asked, PacketSent
  <2>2. ASSUME master' = Failed, req' \in {Nothing, [op |-> "err"]}
        PROVE  TransferInv'
    <3>1. master'.phase = "failed"
      BY <2>2 DEF Failed, Idle
    <3>2. req'.op \in {"none", "err"}
      BY <2>2 DEF Nothing
    <3> QED
      BY <3>1, <3>2 DEF TransferInv
  <2>3. CASE Refused
    <3>1. r.op = "err"
      BY <1>1, <2>3 DEF Refused
    <3>2. master' = Failed /\ req' = Nothing
      BY <1>1, <1>5, <3>1
    <3> QED
      BY <1>2, <2>2, <3>2 DEF FoeInv
  <2>4. CASE Acknowledged
    <3>1. replies = <<ACK(master.packet)>>
      BY <2>4 DEF Acknowledged
    <3>2. r = ACK(master.packet) /\ replies' = <<>>
      BY <1>1, <3>1
    <3>3. r.op # "err" /\ r.packet = master.packet
      BY <3>2 DEF ACK
    <3> HIDE DEF r
    <3>4. CASE ~master.last
      <4>1. SendNext
        BY <1>1, <1>5, <3>3, <3>4
      <4>2. TransferInv'
        BY <1>1, <1>5, <2>1, <2>4, <3>2, <3>4, <4>1, SendNextStep
      <4> QED
        BY <1>2, <4>2 DEF FoeInv
    <3>5. CASE master.last
      <4>1. master' = [master EXCEPT !.phase = "done"] /\ req' = Nothing
        BY <1>1, <1>5, <3>3, <3>5
      <4>2. OnFlash
        BY <2>4, <3>5 DEF Acknowledged
      <4>3. /\ master'.phase = "done" /\ master'.name = master.name
            /\ master'.version = master.version /\ master'.size = master.size
        BY <2>1, <4>1 DEF TransferTyped
      <4>4. OnFlash'
        BY <1>2, <4>2, <4>3 DEF OnFlash
      <4>5. TransferInv'
        BY <4>1, <4>3, <4>4 DEF TransferInv, Nothing
      <4> QED
        BY <1>2, <4>5 DEF FoeInv
    <3> QED
      BY <3>4, <3>5
  <2> QED
    BY <2>1, <2>3, <2>4
<1> QED
  BY <1>4, <1>5

\* What the master has given up it has not seen through.
LEMMA GivenUp ==
  ASSUME master' = Failed, req' \in {Nothing, [op |-> "err"]}
  PROVE  TransferInv'
<1>1. master'.phase = "failed"
  BY DEF Failed, Idle
<1>2. req'.op \in {"none", "err"}
  BY DEF Nothing
<1> QED
  BY <1>1, <1>2 DEF TransferInv

LEMMA FoeStep ==
  ASSUME FoeInv, [Next]_vars
  PROVE  FoeInv' /\ [Store!Next]_(Store!vars)
<1>1. SessionTyped /\ TransferInv
  BY DEF FoeInv
<1>2. CASE ESC_foeprocess
  BY <1>2, ProcessStep
<1>3. ASSUME NEW n \in Names, NEW pass \in BOOLEAN, NEW size \in FileSizes, NEW v \in Versions,
             Start(n, pass, size, v)
      PROVE  FoeInv' /\ [Store!Next]_(Store!vars)
  <2>1. SlaveOnly
    BY <1>3 DEF Start
  <2> QED
    BY <1>3, <2>1, StartStep, StoreSame
<1>4. CASE AskForFile
  <2>1. SlaveOnly /\ master' = master /\ master.phase # "running" /\ req' = [op |-> "rrq"]
    BY <1>4 DEF AskForFile
  <2>2. TransferInv'
    BY <1>1, <2>1 DEF TransferInv, OnFlash, SlaveOnly
  <2> QED
    BY <1>1, <2>1, <2>2, StoreSame DEF FoeInv
<1>5. CASE TakeReply
  <2>1. SlaveOnly
    BY <1>5 DEF TakeReply
  <2> QED
    BY <1>5, <2>1, TakeReplyStep, StoreSame
<1>6. CASE GiveUp
  <2>1. SlaveOnly /\ master' = Failed /\ req' \in {Nothing, [op |-> "err"]}
    BY <1>6 DEF GiveUp
  <2> QED
    BY <1>1, <2>1, GivenUp, StoreSame DEF FoeInv
<1>7. CASE RestartMbx
  <2>1. /\ UNCHANGED <<foeVars, flash, version>> /\ req' = Nothing
        /\ master' = IF master.phase = "running" THEN Failed ELSE master
    BY <1>7 DEF RestartMbx
  <2>2. SessionTyped' /\ UNCHANGED Store!vars
    BY <1>1, <2>1 DEF SessionTyped, foeVars, Store!vars, Open, InSession
  <2>3. TransferInv'
    <3>1. CASE master.phase = "running"
      BY <2>1, <3>1, GivenUp
    <3>2. CASE master.phase # "running"
      BY <1>1, <2>1, <3>2 DEF TransferInv, OnFlash, Nothing
    <3> QED
      BY <3>1, <3>2
  <2> QED
    BY <2>2, <2>3 DEF FoeInv
<1>8. CASE UNCHANGED vars
  <2>1. UNCHANGED <<foestate, foepacket, fposition, fbuffer, foe_file, address_offset, flash, req,
                    replies, master, version>>
    BY <1>8 DEF vars, foeVars
  <2>2. SessionTyped' /\ UNCHANGED Store!vars
    BY <1>1, <2>1 DEF SessionTyped, Store!vars, Open, InSession
  <2>3. TransferInv'
    BY <1>1, <2>1 DEF TransferInv, TransferTyped, OnFlash, Asked, Refused, Acknowledged, PacketSent,
                      InStep, InSession, Open
  <2> QED
    BY <2>2, <2>3 DEF FoeInv
<1> QED
  BY <1>2, <1>3, <1>4, <1>5, <1>6, <1>7, <1>8 DEF Next

LEMMA FoeInit ==
  ASSUME Init
  PROVE  FoeInv /\ Store!Init
<1>1. /\ foestate = "ready" /\ fbuffer = <<>> /\ address_offset = 0 /\ flash = [f \in Files |-> <<>>]
      /\ req = Nothing /\ master = Idle /\ version \in Versions
  BY DEF Init
<1>2. <<>> \in Seq(Units)
  BY EmptySeq
<1>3. SessionTyped
  BY <1>1, <1>2 DEF SessionTyped, Open
<1>4. master.phase = "idle"
  BY <1>1 DEF Idle
<1>5. TransferInv
  BY <1>1, <1>4 DEF TransferInv, Nothing
<1>6. Store!Init
  BY <1>1 DEF Store!Init, Open, InSession
<1> QED
  BY <1>3, <1>5, <1>6 DEF FoeInv

\* The device takes files as FileStore does: the packets of one session, in order and
\* once, whatever failed writes, missing buffers and restarts came before and between.
THEOREM FilesAreTakenInOrder == Spec => TakesInOrder
<1>1. Init => FoeInv /\ Store!Init
  BY FoeInit
<1>2. FoeInv /\ [Next]_vars => FoeInv' /\ [Store!Next]_(Store!vars)
  BY FoeStep
<1> QED
  BY <1>1, <1>2, PTL DEF Spec, TakesInOrder, Store!Spec

\* A file the master has seen through is in the flash, unless it ended with an empty
\* packet (FOE_data acknowledges that one whatever FOE_fclose returned).
THEOREM FilesSeenThroughAreStored == Spec => []DoneIsStored
<1>1. Init => FoeInv
  BY FoeInit
<1>2. FoeInv /\ [Next]_vars => FoeInv'
  BY FoeStep
<1>3. FoeInv => DoneIsStored
  BY DEF FoeInv, TransferInv, OnFlash, DoneIsStored
<1> QED
  BY <1>1, <1>2, <1>3, PTL DEF Spec
=============================================================================
