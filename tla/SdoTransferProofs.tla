------------------------- MODULE SdoTransferProofs -------------------------
(***************************************************************************)
(* Proofs about SdoTransfer, for every value of the constants: what the    *)
(* master reads is the object, what it writes is stored, and an object     *)
(* accessed as a whole never holds parts of two values.                    *)
(***************************************************************************)
EXTENDS SdoTransfer, SequenceTheorems, TLAPS

Units == Int \X Nat

\* Every unit is in its place: units that came from or go to an object from place k on.
Placed(s, k) == \A i \in 1 .. Len(s) : s[i][2] = k + i

ObjectsInv ==
  /\ values \in 0 .. MaxValues
  /\ obj \in [Objects -> Seq(Units)]
  /\ \A o \in Objects : Len(obj[o]) = Size[o] /\ Placed(obj[o], 0)
  /\ mbxdata \in Seq(Units) /\ Len(mbxdata) = BufferSize
  /\ torn \in BOOLEAN /\ drops \in Nat

\* Nobody else wrote the object, or that does not matter.
Firm == xfer.obj \in ByCA \/ ~torn

\* d is the beginning of what the object of the transfer was.
Beginning(d) ==
  /\ d \in Seq(Units) /\ Len(d) <= Size[xfer.obj] /\ Placed(d, 0)
  /\ snap \in Seq(Units) /\ Len(snap) = Size[xfer.obj]
  /\ Firm => \A i \in 1 .. Len(d) : d[i] = snap[i]

\* The device is about to send what comes after the first n units.
Reading(n) ==
  /\ segmented = "up" /\ frags = Size[xfer.obj] /\ fragsleft = n /\ n < Size[xfer.obj]
  /\ data = [at |-> IF xfer.obj \in ByCA THEN "mbxdata" ELSE xfer.obj, off |-> 0]
  /\ xfer.obj \in ByCA => /\ Size[xfer.obj] <= BufferSize
                          /\ \A i \in 1 .. Size[xfer.obj] : mbxdata[i] = snap[i]
  /\ xfer.obj \notin ByCA /\ ~torn => obj[xfer.obj] = snap
  /\ Placed(snap, 0)

\* An upload: asked for; refused, or without an answer; the first units and more
\* units answered, the next ones asked for.
UpAsked   == req = [kind |-> "upload", obj |-> xfer.obj] /\ reply = Nothing
UpFirst   == /\ req = Nothing /\ reply.kind = "first" /\ reply.size = Size[xfer.obj]
             /\ Beginning(reply.data)
             /\ Len(reply.data) < Size[xfer.obj] => Reading(Len(reply.data))
UpNext    == /\ req = [kind |-> "useg"] /\ reply = Nothing /\ xfer.size = Size[xfer.obj]
             /\ Beginning(xfer.data) /\ Reading(Len(xfer.data))
UpSegment == /\ req = Nothing /\ reply.kind = "segment" /\ xfer.size = Size[xfer.obj]
             /\ xfer.data \in Seq(Units) /\ reply.data \in Seq(Units)
             /\ Beginning(xfer.data \o reply.data)
             /\ IF reply.last THEN Len(xfer.data \o reply.data) = Size[xfer.obj]
                ELSE Reading(Len(xfer.data \o reply.data))
Unanswered == req = Nothing /\ reply \in {Nothing, Abort}

UploadIs == held = None /\ (UpAsked \/ UpFirst \/ UpNext \/ UpSegment \/ Unanswered)

\* A download of value v: what has arrived of it is in the buffer or in the object.
Writing(v, m) ==
  /\ target = xfer.obj /\ xfer.obj \notin Holding
  /\ IF xfer.obj \in ByCA
     THEN /\ data = [at |-> "mbxdata", off |-> m] /\ caFlag /\ frags = Size[xfer.obj] /\ fragsleft = m
          /\ xfer.size = Size[xfer.obj] /\ Size[xfer.obj] <= BufferSize
          /\ \A i \in 1 .. m : mbxdata[i] = Unit(v, i)
     ELSE /\ data = [at |-> xfer.obj, off |-> m] /\ ~caFlag /\ xfer.size <= Size[xfer.obj]
          /\ ~torn => \A i \in 1 .. Size[xfer.obj] :
               /\ i <= m => obj[xfer.obj][i] = Unit(v, i)
               /\ i > xfer.size => obj[xfer.obj][i] = Unit(Zero, i)

\* All that was sent is in the object, and the rest of it is zero.
Stored ==
  (~torn /\ xfer.obj \notin Holding /\ xfer.obj \notin ByCA \cap PreopOnly)
    => /\ xfer.size <= Size[xfer.obj]
       /\ \A i \in 1 .. Size[xfer.obj] :
            obj[xfer.obj][i] = IF i > xfer.size THEN Unit(Zero, i) ELSE xfer.data[i]

DownAsked(v) ==
  /\ req = [kind |-> "download", obj |-> xfer.obj, size |-> xfer.size, data |-> Value(v, xfer.sent)]
  /\ reply = Nothing /\ held = None /\ xfer.sent = Least(xfer.size, InitRoom)
  /\ xfer.size \in Sizes(xfer.obj)
DownHeld  == /\ req = Nothing /\ reply = Nothing /\ held = xfer.obj /\ xfer.obj \in Holding
             /\ xfer.sent = xfer.size
DownDone(v) == /\ req = Nothing /\ reply = Done /\ held = None
               /\ IF xfer.sent = xfer.size THEN Stored ELSE Writing(v, xfer.sent)
DownNext(v) ==
  /\ reply = Nothing /\ held = None /\ req.kind = "dseg"
  /\ xfer.sent = xfer.size => req.last
  /\ req.last => xfer.sent = xfer.size \/ xfer.obj \in ByCA
  /\ \E n \in 1 .. SegRoom : /\ n <= xfer.sent /\ req.data = Part(Value(v, xfer.size), xfer.sent - n, n)
                            /\ Writing(v, xfer.sent - n)

DownloadIs(v) ==
  /\ xfer.data = Value(v, xfer.size) /\ xfer.sent <= xfer.size
  /\ DownAsked(v) \/ DownHeld \/ DownDone(v) \/ DownNext(v) \/ (Unanswered /\ held = None)

TransferTyped ==
  /\ xfer.obj \in Objects /\ xfer.op \in {"up", "down"} /\ xfer.size \in Nat /\ xfer.sent \in Nat
  /\ DOMAIN xfer = {"phase", "op", "obj", "size", "data", "sent"} /\ xfer.data \in Seq(Units)

TransferInv ==
  /\ xfer.phase = "running" =>
       /\ TransferTyped
       /\ xfer.op = "up"   => UploadIs
       /\ xfer.op = "down" => \E v \in 0 .. MaxValues : DownloadIs(v)
  /\ xfer.phase # "running" => held = None /\ req.kind \in {"none", "list"}
  /\ xfer.phase = "done" =>
       /\ xfer.obj \in Objects
       /\ xfer.op = "up" => Beginning(xfer.data) /\ Len(xfer.data) = Size[xfer.obj]
       /\ xfer.op = "down" => Stored

SdoInv == ObjectsInv /\ CaObjectsWhole /\ TransferInv

-----------------------------------------------------------------------------
(* Operators of the model.                                                 *)

LEMMA Constants ==
  /\ Size \in [Objects -> Nat] /\ \A o \in Objects : Size[o] > 0
  /\ ByCA \subseteq Objects /\ Strings \cap ByCA = {} /\ Holding \cap ByCA = {}
  /\ "mbxdata" \notin Objects /\ None \notin Objects
  /\ ExpeditedRoom \in Nat /\ InitRoom \in Nat /\ SegRoom \in Nat /\ BufferSize \in Nat
  /\ ExpeditedRoom < InitRoom /\ InitRoom < SegRoom /\ MaxValues \in Nat /\ ListFrags \in Nat
  BY SdoConstantsAssumption DEF None

LEMMA LeastIs ==
  ASSUME NEW a \in Int, NEW b \in Int
  PROVE  /\ Least(a, b) \in Int /\ Least(a, b) <= a /\ Least(a, b) <= b
         /\ a <= b => Least(a, b) = a
         /\ a > b  => Least(a, b) = b
         /\ a \in Nat /\ b \in Nat => Least(a, b) \in Nat
  BY DEF Least

\* A function on 1 .. n is a sequence of length n.
LEMMA SequenceOf ==
  ASSUME NEW S, NEW n \in Nat, NEW f \in [1 .. n -> S]
  PROVE  f \in Seq(S) /\ Len(f) = n
  OBVIOUS

LEMMA SequenceIs ==
  ASSUME NEW S, NEW s \in Seq(S)
  PROVE  /\ Len(s) \in Nat /\ DOMAIN s = 1 .. Len(s)
         /\ \A i \in 1 .. Len(s) : s[i] \in S
  BY LenProperties, ElementOfSeq

LEMMA ValueTyped ==
  ASSUME NEW v \in Int, NEW n \in Nat
  PROVE  /\ Value(v, n) \in Seq(Units) /\ Len(Value(v, n)) = n
         /\ \A i \in 1 .. n : Value(v, n)[i] = Unit(v, i)
         /\ Placed(Value(v, n), 0)
<1> DEFINE s == Value(v, n)
<1>1. \A i \in 1 .. n : Unit(v, i) \in Units /\ Unit(v, i)[2] = 0 + i
  BY DEF Unit, Units
<1>2. s \in [1 .. n -> Units] /\ \A i \in 1 .. n : s[i] = Unit(v, i)
  BY <1>1 DEF Value
<1> HIDE DEF s
<1>3. s \in Seq(Units) /\ Len(s) = n
  BY <1>2, SequenceOf
<1>4. Placed(s, 0)
  BY <1>1, <1>2, <1>3 DEF Placed
<1> QED
  BY <1>2, <1>3, <1>4 DEF s

\* A part of a sequence.
IsPart(p, s, at, n) == p \in Seq(Units) /\ Len(p) = n /\ \A i \in 1 .. n : p[i] = s[at + i]

LEMMA PartTyped ==
  ASSUME NEW s \in Seq(Units), NEW at \in Nat, NEW n \in Nat, at + n <= Len(s)
  PROVE  IsPart(Part(s, at, n), s, at, n)
<1>1. \A i \in at + 1 .. at + n : s[i] \in Units
  BY ElementOfSeq
<1>2. /\ SubSeq(s, at + 1, at + n) \in Seq(Units)
      /\ Len(SubSeq(s, at + 1, at + n)) = IF at + 1 <= at + n THEN at + n - (at + 1) + 1 ELSE 0
      /\ \A i \in 1 .. at + n - (at + 1) + 1 : SubSeq(s, at + 1, at + n)[i] = s[at + 1 + i - 1]
  BY <1>1, SubSeqProperties
<1>3. at + n - (at + 1) + 1 = n /\ (n > 0 <=> at + 1 <= at + n) /\ \A i \in 1 .. n : at + 1 + i - 1 = at + i
  OBVIOUS
<1>4. Len(SubSeq(s, at + 1, at + n)) = n
  BY <1>2, <1>3
<1>5. \A i \in 1 .. n : SubSeq(s, at + 1, at + n)[i] = s[at + i]
  BY <1>2, <1>3
<1> QED
  BY <1>2, <1>4, <1>5 DEF Part, IsPart

LEMMA PartPlaced ==
  ASSUME NEW s \in Seq(Units), Placed(s, 0), NEW at \in Nat, NEW n \in Nat, at + n <= Len(s)
  PROVE  Placed(Part(s, at, n), at)
<1>1. Len(s) \in Nat
  BY LenProperties
<1>2. Len(Part(s, at, n)) = n /\ \A i \in 1 .. n : Part(s, at, n)[i] = s[at + i]
  BY PartTyped DEF IsPart
<1>3. \A i \in 1 .. n : s[at + i][2] = at + i
  BY <1>1 DEF Placed
<1> QED
  BY <1>2, <1>3 DEF Placed

\* Units put into a sequence from off on.
IsPut(p, s, off, d) ==
  /\ p \in Seq(Units) /\ Len(p) = Len(s) /\ Len(s) \in Nat /\ Len(d) \in Nat
  /\ \A i \in 1 .. Len(s) : p[i] = IF i - off \in 1 .. Len(d) THEN d[i - off] ELSE s[i]

LEMMA PutTyped ==
  ASSUME NEW s \in Seq(Units), NEW d \in Seq(Units), NEW off \in Nat
  PROVE  IsPut(Put(s, off, d), s, off, d)
<1>1. Len(s) \in Nat /\ DOMAIN s = 1 .. Len(s) /\ \A i \in 1 .. Len(s) : s[i] \in Units
  BY SequenceIs
<1>2. Len(d) \in Nat /\ DOMAIN d = 1 .. Len(d) /\ \A i \in 1 .. Len(d) : d[i] \in Units
  BY SequenceIs
<1> DEFINE p == Put(s, off, d)
<1>3. p = [i \in 1 .. Len(s) |-> IF i - off \in 1 .. Len(d) THEN d[i - off] ELSE s[i]]
  BY <1>1, <1>2 DEF Put
<1>4. \A i \in 1 .. Len(s) : (IF i - off \in 1 .. Len(d) THEN d[i - off] ELSE s[i]) \in Units
  BY <1>1, <1>2
<1>5. /\ p \in [1 .. Len(s) -> Units]
      /\ \A i \in 1 .. Len(s) : p[i] = IF i - off \in 1 .. Len(d) THEN d[i - off] ELSE s[i]
  BY <1>3, <1>4
<1> HIDE DEF p
<1>6. p \in Seq(Units) /\ Len(p) = Len(s)
  BY <1>1, <1>5, SequenceOf
<1> QED
  BY <1>1, <1>2, <1>5, <1>6 DEF p, IsPut

LEMMA PutPlaced ==
  ASSUME NEW s \in Seq(Units), NEW d \in Seq(Units), NEW off \in Nat, Placed(s, 0), Placed(d, off)
  PROVE  Placed(Put(s, off, d), 0)
<1>1. /\ Len(Put(s, off, d)) = Len(s) /\ Len(s) \in Nat /\ Len(d) \in Nat
      /\ \A i \in 1 .. Len(s) :
           Put(s, off, d)[i] = IF i - off \in 1 .. Len(d) THEN d[i - off] ELSE s[i]
  BY PutTyped DEF IsPut
<1>2. ASSUME NEW i \in 1 .. Len(s) PROVE Put(s, off, d)[i][2] = 0 + i
  <2>1. CASE i - off \in 1 .. Len(d)
    <3>1. d[i - off][2] = off + (i - off)
      BY <2>1 DEF Placed
    <3>2. off + (i - off) = 0 + i
      OBVIOUS
    <3> QED
      BY <1>1, <2>1, <3>1, <3>2
  <2>2. CASE i - off \notin 1 .. Len(d)
    BY <1>1, <2>2 DEF Placed
  <2> QED
    BY <2>1, <2>2
<1> QED
  BY <1>1, <1>2 DEF Placed

LEMMA PaddedTyped ==
  ASSUME ObjectsInv, NEW o \in Objects, NEW n \in Nat
  PROVE  /\ Padded(o, n) \in Seq(Units) /\ Len(Padded(o, n)) = Size[o] /\ Placed(Padded(o, n), 0)
         /\ \A i \in 1 .. Size[o] : Padded(o, n)[i] = IF i > n THEN Unit(Zero, i) ELSE obj[o][i]
<1> DEFINE p == Padded(o, n)
<1>1. obj[o] \in Seq(Units) /\ Len(obj[o]) = Size[o] /\ Placed(obj[o], 0)
  BY DEF ObjectsInv
<1>2. /\ Size[o] \in Nat /\ DOMAIN obj[o] = 1 .. Size[o]
      /\ \A i \in 1 .. Size[o] : obj[o][i] \in Units /\ obj[o][i][2] = 0 + i
  BY <1>1, SequenceIs DEF Placed
<1>3. \A i \in 1 .. Size[o] : Unit(Zero, i) \in Units /\ Unit(Zero, i)[2] = 0 + i
  BY <1>2 DEF Unit, Units, Zero
<1>4. p = [i \in 1 .. Size[o] |-> IF i > n THEN Unit(Zero, i) ELSE obj[o][i]]
  BY <1>2 DEF Padded
<1>5. /\ p \in [1 .. Size[o] -> Units]
      /\ \A i \in 1 .. Size[o] : p[i] = (IF i > n THEN Unit(Zero, i) ELSE obj[o][i]) /\ p[i][2] = 0 + i
  BY <1>2, <1>3, <1>4
<1> HIDE DEF p
<1>6. p \in Seq(Units) /\ Len(p) = Size[o]
  BY <1>2, <1>5, SequenceOf
<1> QED
  BY <1>5, <1>6 DEF p, Placed

LEMMA ObjectIs ==
  ASSUME ObjectsInv, NEW o \in Objects
  PROVE  /\ obj[o] \in Seq(Units) /\ Len(obj[o]) = Size[o] /\ Placed(obj[o], 0)
         /\ Size[o] \in Nat /\ Size[o] > 0
  BY Constants DEF ObjectsInv

-----------------------------------------------------------------------------
(* What a step leaves alone.                                               *)

LEMMA ObjectsSame ==
  ASSUME ObjectsInv, UNCHANGED <<values, obj, mbxdata>>, torn' \in BOOLEAN, drops' \in Nat
  PROVE  ObjectsInv'
  BY DEF ObjectsInv

LEMMA OneObject ==
  ASSUME ObjectsInv, NEW o \in Objects, NEW s \in Seq(Units), Len(s) = Size[o], Placed(s, 0),
         obj' = [obj EXCEPT ![o] = s]
  PROVE  /\ obj' \in [Objects -> Seq(Units)]
         /\ \A p \in Objects : Len(obj'[p]) = Size[p] /\ Placed(obj'[p], 0)
         /\ obj'[o] = s /\ \A p \in Objects : p # o => obj'[p] = obj[p]
  BY DEF ObjectsInv

LEMMA WholeSame ==
  ASSUME CaObjectsWhole, \A o \in ByCA : obj'[o] = obj[o]
  PROVE  CaObjectsWhole'
  BY DEF CaObjectsWhole

\* Who asks for what.
LEMMA Asking ==
  ASSUME SdoInv, req.kind \notin {"none", "list"}
  PROVE  xfer.phase = "running" /\ TransferTyped
  BY DEF SdoInv, TransferInv

LEMMA NotAnswered ==
  ASSUME xfer.phase = "running", TransferTyped, xfer.op = "up" \/ \E v \in 0 .. MaxValues : DownloadIs(v),
         UNCHANGED xfer, held' = None, req' = Nothing, reply' \in {Nothing, Abort}
  PROVE  TransferInv'
<1>1. Unanswered' /\ held' = None
  BY DEF Unanswered
<1>2. TransferTyped' /\ xfer'.phase = "running" /\ xfer' = xfer
  BY DEF TransferTyped
<1>3. CASE xfer.op = "up"
  <2>1. UploadIs'
    BY <1>1 DEF UploadIs
  <2> QED
    BY <1>2, <1>3, <2>1 DEF TransferInv
<1>4. CASE xfer.op # "up"
  <2>1. PICK v \in 0 .. MaxValues : DownloadIs(v)
    BY <1>4
  <2>2. DownloadIs(v)'
    BY <1>1, <1>2, <2>1 DEF DownloadIs
  <2>3. (\E w \in 0 .. MaxValues : DownloadIs(w))'
    BY <2>2
  <2> QED
    BY <1>2, <1>4, <2>3 DEF TransferInv
<1> QED
  BY <1>3, <1>4

LEMMA FrontTyped ==
  ASSUME NEW s \in Seq(Units), Placed(s, 0), NEW n \in Nat, n <= Len(s)
  PROVE  /\ Part(s, 0, n) \in Seq(Units) /\ Len(Part(s, 0, n)) = n /\ Placed(Part(s, 0, n), 0)
         /\ \A i \in 1 .. n : Part(s, 0, n)[i] = s[i]
<1>1. 0 + n <= Len(s) /\ 0 \in Nat /\ \A i \in 1 .. n : 0 + i = i
  OBVIOUS
<1>2. IsPart(Part(s, 0, n), s, 0, n)
  BY <1>1, PartTyped
<1>3. Placed(Part(s, 0, n), 0)
  BY <1>1, PartPlaced
<1> QED
  BY <1>1, <1>2, <1>3 DEF IsPart

-----------------------------------------------------------------------------
(* Uploads.                                                                *)

LEMMA UploadStep ==
  ASSUME SdoInv, req.kind = "upload", NEW hook, SDO_upload(req.obj, hook),
         req' = Nothing, UNCHANGED <<xfer, values>>
  PROVE  SdoInv'
<1> DEFINE o == xfer.obj  n == Size[o]  inOne == n <= InitRoom  len == Least(n, InitRoom)
           refused == hook = "pre" \/ (o \in ByCA /\ n > BufferSize)
<1>1. ObjectsInv /\ CaObjectsWhole /\ TransferInv
  BY DEF SdoInv
<1>2. xfer.phase = "running" /\ TransferTyped
  BY Asking
<1>3. xfer.op = "up" /\ UploadIs
  BY <1>1, <1>2 DEF TransferInv, DownloadIs, TransferTyped, DownAsked, DownHeld, DownDone, DownNext, Unanswered, Nothing
<1>4. req.obj = o /\ held = None
  <2>1. req # Nothing /\ req # [kind |-> "useg"]
    BY DEF Nothing
  <2>2. UpAsked /\ held = None
    BY <1>3, <2>1 DEF UploadIs, UpFirst, UpNext, UpSegment, Unanswered
  <2> QED
    BY <2>2 DEF UpAsked
<1>5. /\ snap' = obj[o] /\ torn' = FALSE /\ UNCHANGED <<obj, held, drops>>
      /\ reply' = IF refused \/ (hook = "post" /\ segmented' = "no") THEN Abort
                  ELSE First(n, Part(obj[o], 0, len))
      /\ ~refused =>
           /\ mbxdata' = IF o \in ByCA THEN Put(mbxdata, 0, obj[o]) ELSE mbxdata
           /\ ~inOne => /\ segmented' = "up" /\ frags' = n /\ fragsleft' = InitRoom
                        /\ data' = IF o \in ByCA THEN [at |-> "mbxdata", off |-> 0] ELSE [at |-> o, off |-> 0]
      /\ refused => mbxdata' = mbxdata
  BY <1>4 DEF SDO_upload, transferVars, Staging, InObject, Signalled
<1>6. o \in Objects
  BY <1>2 DEF TransferTyped
<1>7. obj[o] \in Seq(Units) /\ Len(obj[o]) = n /\ Placed(obj[o], 0) /\ n \in Nat /\ n > 0
  BY <1>1, <1>6, ObjectIs
<1>8. /\ mbxdata \in Seq(Units) /\ Len(mbxdata) = BufferSize /\ drops \in Nat
  BY <1>1 DEF ObjectsInv
<1>9. /\ Put(mbxdata, 0, obj[o]) \in Seq(Units) /\ Len(Put(mbxdata, 0, obj[o])) = BufferSize
      /\ \A i \in 1 .. BufferSize :
           Put(mbxdata, 0, obj[o])[i] = IF i - 0 \in 1 .. n THEN obj[o][i - 0] ELSE mbxdata[i]
  <2> HIDE DEF n, o
  <2>1. PICK s \in Seq(Units), d \in Seq(Units), z \in Nat : s = mbxdata /\ d = obj[o] /\ z = 0
    BY <1>7, <1>8
  <2>2. IsPut(Put(s, z, d), s, z, d)
    BY PutTyped
  <2> QED
    BY <1>7, <1>8, <2>1, <2>2 DEF IsPut
<1>10. ObjectsInv'
  <2>1. mbxdata' \in Seq(Units) /\ Len(mbxdata') = BufferSize
    <3> HIDE DEF o, n, inOne, refused, len
    <3> QED
      BY <1>5, <1>8, <1>9
  <2> QED
    BY <1>1, <1>5, <2>1 DEF ObjectsInv
<1>11. CaObjectsWhole'
  BY <1>1, <1>5, WholeSame
<1>12. len \in Nat /\ len <= n /\ (inOne => len = n) /\ (~inOne => len = InitRoom /\ len < n)
  <2>1. InitRoom \in Nat
    BY Constants
  <2> HIDE DEF n, o
  <2>2. n \in Int /\ InitRoom \in Int
    BY <1>7, <2>1
  <2>3. /\ len \in Int /\ len <= n /\ (n <= InitRoom => len = n) /\ (n > InitRoom => len = InitRoom)
        /\ n \in Nat /\ InitRoom \in Nat => len \in Nat
    BY <2>2, LeastIs
  <2> HIDE DEF len
  <2> QED
    BY <1>7, <2>1, <2>3
<1>13. CASE reply' = Abort
  BY <1>1, <1>2, <1>3, <1>4, <1>5, <1>10, <1>11, <1>13, NotAnswered DEF SdoInv
<1>14. CASE ~refused /\ reply' = First(n, Part(obj[o], 0, len))
  <2> DEFINE d == Part(obj[o], 0, len)
  <2>1. d \in Seq(Units) /\ Len(d) = len /\ (\A i \in 1 .. len : d[i] = obj[o][i]) /\ Placed(d, 0)
    <3>1. PICK s \in Seq(Units), k \in Nat : s = obj[o] /\ k = len
      BY <1>7, <1>12
    <3>2. Placed(s, 0) /\ k <= Len(s)
      BY <1>7, <1>12, <3>1
    <3>3. /\ Part(s, 0, k) \in Seq(Units) /\ Len(Part(s, 0, k)) = k /\ Placed(Part(s, 0, k), 0)
          /\ \A i \in 1 .. k : Part(s, 0, k)[i] = s[i]
      BY <3>2, FrontTyped
    <3> QED
      BY <3>1, <3>3
  <2> HIDE DEF d
  <2>2. reply'.kind = "first" /\ reply'.size = n /\ reply'.data = d
    BY <1>14 DEF First, d
  <2>3. Beginning(reply.data)'
    BY <1>5, <1>7, <1>12, <2>1, <2>2 DEF Beginning, Firm
  <2>4. ASSUME len < n PROVE Reading(len)'
    <3>1. ~inOne /\ len = InitRoom
      BY <1>12, <2>4
    <3>2. /\ segmented' = "up" /\ frags' = n /\ fragsleft' = len
          /\ data' = [at |-> IF o \in ByCA THEN "mbxdata" ELSE o, off |-> 0]
      BY <1>5, <1>14, <3>1
    <3>3. ASSUME o \in ByCA
          PROVE  n <= BufferSize /\ \A i \in 1 .. n : mbxdata'[i] = snap'[i]
      <4>1. n <= BufferSize /\ BufferSize \in Nat
        BY <1>7, <1>14, <3>3, Constants
      <4>2. mbxdata' = Put(mbxdata, 0, obj[o]) /\ snap' = obj[o]
        BY <1>5, <1>14, <3>3
      <4>3. \A i \in 1 .. n : i - 0 = i /\ i \in 1 .. BufferSize
        BY <1>7, <4>1
      <4> HIDE DEF n, o
      <4> QED
        BY <1>9, <4>1, <4>2, <4>3
    <3> QED
      BY <1>5, <1>7, <2>4, <3>2, <3>3 DEF Reading
  <2>5. UpFirst'
    <3>1. Len(reply'.data) = len
      BY <2>1, <2>2
    <3>2. Len(reply'.data) < Size[xfer'.obj] => Reading(Len(reply.data))'
      <4>1. PICK k : k = len
        OBVIOUS
      <4>2. ASSUME k < n PROVE Reading(k)'
        BY <1>5, <2>4, <4>1, <4>2 DEF Reading
      <4>3. Len(reply'.data) < n => Reading(Len(reply.data))'
        BY <3>1, <4>1, <4>2 DEF Reading
      <4> QED
        BY <4>3
    <3> QED
      BY <2>2, <2>3, <3>2 DEF UpFirst
  <2>6. TransferInv'
    BY <1>2, <1>3, <1>4, <1>5, <2>5 DEF TransferInv, TransferTyped, UploadIs
  <2> QED
    BY <1>10, <1>11, <2>6 DEF SdoInv
<1> QED
  BY <1>5, <1>13, <1>14

LEMMA Joined ==
  ASSUME NEW s \in Seq(Units), NEW d \in Seq(Units), Placed(s, 0), Placed(d, Len(s))
  PROVE  /\ s \o d \in Seq(Units) /\ Len(s \o d) = Len(s) + Len(d) /\ Placed(s \o d, 0)
         /\ \A i \in 1 .. Len(s) : (s \o d)[i] = s[i]
         /\ \A i \in 1 .. Len(d) : (s \o d)[Len(s) + i] = d[i]
<1>1. Len(s) \in Nat /\ Len(d) \in Nat
  BY LenProperties
<1>2. /\ s \o d \in Seq(Units) /\ Len(s \o d) = Len(s) + Len(d)
      /\ \A i \in 1 .. Len(s) + Len(d) : (s \o d)[i] = IF i <= Len(s) THEN s[i] ELSE d[i - Len(s)]
  BY ConcatProperties
<1>3. ASSUME NEW i \in 1 .. Len(s) PROVE (s \o d)[i] = s[i]
  BY <1>1, <1>2
<1>4. ASSUME NEW i \in 1 .. Len(d) PROVE (s \o d)[Len(s) + i] = d[i]
  <2>1. Len(s) + i \in 1 .. Len(s) + Len(d) /\ ~(Len(s) + i <= Len(s)) /\ Len(s) + i - Len(s) = i
    BY <1>1
  <2> QED
    BY <1>2, <2>1
<1>5. ASSUME NEW i \in 1 .. Len(s \o d) PROVE (s \o d)[i][2] = 0 + i
  <2>1. CASE i <= Len(s)
    <3>1. i \in 1 .. Len(s)
      BY <1>1, <1>2, <2>1
    <3> QED
      BY <1>3, <3>1 DEF Placed
  <2>2. CASE ~(i <= Len(s))
    <3>1. i - Len(s) \in 1 .. Len(d) /\ Len(s) + (i - Len(s)) = i /\ 0 + i = i
      BY <1>1, <1>2, <2>2
    <3>2. (s \o d)[i] = d[i - Len(s)]
      BY <1>4, <3>1
    <3>3. d[i - Len(s)][2] = Len(s) + (i - Len(s))
      BY <3>1 DEF Placed
    <3> QED
      BY <3>1, <3>2, <3>3
  <2> QED
    BY <2>1, <2>2
<1>6. Placed(s \o d, 0)
  BY <1>5 DEF Placed
<1> QED
  BY <1>2, <1>3, <1>4, <1>6

\* What the next segment of an upload carries.
\* p is the k units that follow the first m of what is read.
IsRead(p, m, k) ==
  /\ p \in Seq(Units) /\ Len(p) = k /\ Placed(p, m)
  /\ Firm => \A i \in 1 .. k : p[i] = snap[m + i]

LEMMA SegmentRead ==
  ASSUME ObjectsInv, TransferTyped, NEW m \in Nat, m = Len(xfer.data), Beginning(xfer.data), Reading(m),
         NEW k \in Nat, m + k <= Size[xfer.obj], NEW src,
         src = IF data.at = "mbxdata" THEN mbxdata ELSE obj[data.at]
  PROVE  IsRead(Part(src, m, k), m, k)
<1> DEFINE o == xfer.obj  n == Size[o]  d == Part(src, m, k)
<1>1. o \in Objects /\ n \in Nat
  BY Constants DEF TransferTyped
<1>2. \A i \in 1 .. k : m + i \in 1 .. n
  BY <1>1
<1>3. CASE o \in ByCA
  <2>1. src = mbxdata /\ mbxdata \in Seq(Units) /\ Len(mbxdata) = BufferSize /\ BufferSize \in Nat
    BY <1>3, Constants DEF Reading, ObjectsInv
  <2>2. n <= BufferSize /\ Placed(snap, 0) /\ Len(snap) = n /\ \A i \in 1 .. n : mbxdata[i] = snap[i]
    BY <1>3 DEF Reading, Beginning
  <2>3. src \in Seq(Units) /\ m + k <= Len(src)
    BY <1>1, <2>1, <2>2
  <2>4. d \in Seq(Units) /\ Len(d) = k /\ \A i \in 1 .. k : d[i] = src[m + i]
    BY <2>3, PartTyped DEF IsPart
  <2> HIDE DEF d
  <2>5. ASSUME NEW i \in 1 .. k PROVE d[i] = snap[m + i] /\ d[i][2] = m + i
    <3>1. PICK j \in 1 .. n : j = m + i /\ 0 + j = j
      BY <1>2
    <3>2. d[i] = mbxdata[j]
      BY <2>1, <2>4, <3>1
    <3>3. mbxdata[j] = snap[j]
      BY <2>2
    <3>4. snap[j][2] = j
      BY <2>2, <3>1 DEF Placed
    <3> QED
      BY <3>1, <3>2, <3>3, <3>4
  <2>6. Placed(d, m)
    BY <2>4, <2>5 DEF Placed
  <2> QED
    BY <2>4, <2>5, <2>6 DEF d, IsRead
<1>4. CASE o \notin ByCA
  <2>1. src = obj[o] /\ (~torn => obj[o] = snap)
    BY <1>1, <1>4, Constants DEF Reading
  <2>2. obj[o] \in Seq(Units) /\ Len(obj[o]) = n /\ Placed(obj[o], 0)
    BY <1>1, ObjectIs
  <2>3. src \in Seq(Units) /\ m + k <= Len(src) /\ Placed(src, 0)
    BY <2>1, <2>2
  <2>4. d \in Seq(Units) /\ Len(d) = k /\ \A i \in 1 .. k : d[i] = src[m + i]
    BY <2>3, PartTyped DEF IsPart
  <2>5. Placed(d, m)
    BY <2>3, PartPlaced
  <2> QED
    BY <1>4, <2>1, <2>4, <2>5 DEF Firm, IsRead
<1> QED
  BY <1>3, <1>4

LEMMA SegmentStep ==
  ASSUME SdoInv, req.kind = "useg", NEW hook, SDO_uploadsegment(hook),
         req' = Nothing, UNCHANGED <<xfer, values>>
  PROVE  SdoInv'
<1> DEFINE o == xfer.obj  n == Size[o]  m == Len(xfer.data)  left == n - m  k == Least(left, SegRoom)
           src == IF data.at = "mbxdata" THEN mbxdata ELSE obj[data.at]  d == Part(src, m, k)
           whole == xfer.data \o d
<1>1. ObjectsInv /\ CaObjectsWhole /\ TransferInv
  BY DEF SdoInv
<1>2. xfer.phase = "running" /\ TransferTyped
  BY Asking
<1>3. xfer.op = "up" /\ UploadIs
  BY <1>1, <1>2 DEF TransferInv, DownloadIs, TransferTyped, DownAsked, DownHeld, DownDone, DownNext, Unanswered, Nothing
<1>4. UpNext /\ held = None
  <2>1. req # Nothing /\ req # [kind |-> "upload", obj |-> xfer.obj]
    BY DEF Nothing
  <2> QED
    BY <1>3, <2>1 DEF UploadIs, UpAsked, UpFirst, UpSegment, Unanswered
<1>5. o \in Objects /\ n \in Nat /\ xfer.data \in Seq(Units) /\ m \in Nat /\ SegRoom \in Nat /\ SegRoom > 0
  BY <1>2, Constants, LenProperties DEF TransferTyped
<1>6. Beginning(xfer.data) /\ Reading(m) /\ xfer.size = n
  BY <1>4 DEF UpNext
<1>7. frags = n /\ fragsleft = m /\ m < n /\ data.off = 0
  BY <1>6 DEF Reading
<1>8. left \in Nat /\ left > 0 /\ k \in Nat /\ k <= left /\ m + k <= n /\ (left <= SegRoom => m + k = n)
      /\ (~(left <= SegRoom) => m + k < n)
  <2> HIDE DEF o, n, m
  <2>1. left \in Nat /\ left > 0
    BY <1>5, <1>7
  <2> HIDE DEF left
  <2>2. left \in Int /\ SegRoom \in Int
    BY <1>5, <2>1
  <2>3. /\ k \in Int /\ k <= left /\ k <= SegRoom /\ (left <= SegRoom => k = left)
        /\ (left > SegRoom => k = SegRoom) /\ (left \in Nat /\ SegRoom \in Nat => k \in Nat)
    BY <2>2, LeastIs
  <2> HIDE DEF k
  <2> QED
    BY <1>5, <2>1, <2>3 DEF left
<1>9. /\ (left <= SegRoom => UNCHANGED mbxdata)
      /\ ~(left <= SegRoom) => fragsleft' = m + k /\ segmented' = segmented /\ frags' = frags
      /\ reply' = Abort \/ reply' = Segment(Part(src, data.off + fragsleft, k), left <= SegRoom)
      /\ UNCHANGED <<obj, held, drops, data, mbxdata, snap, torn>>
  BY <1>7 DEF SDO_uploadsegment
<1>10. ObjectsInv' /\ CaObjectsWhole'
  <2>1. torn' \in BOOLEAN /\ drops' \in Nat
    BY <1>1, <1>9 DEF ObjectsInv
  <2> QED
    BY <1>1, <1>9, <2>1, ObjectsSame, WholeSame
<1>11. d \in Seq(Units) /\ Len(d) = k /\ Placed(d, m) /\ (Firm => \A i \in 1 .. k : d[i] = snap[m + i])
  <2>0. PICK mm \in Nat, kk \in Nat : mm = m /\ kk = k
    BY <1>5, <1>8
  <2>1. PICK ss : mm = m /\ kk = k /\ ss = src
    BY <2>0
  <2>2. mm = Len(xfer.data) /\ Reading(mm) /\ mm + kk <= Size[xfer.obj]
    BY <1>6, <1>8, <2>1
  <2>3. IsRead(Part(ss, mm, kk), mm, kk)
    BY <1>1, <1>2, <1>6, <2>1, <2>2, SegmentRead
  <2> QED
    BY <2>1, <2>3 DEF IsRead
<1>12. Placed(xfer.data, 0) /\ (Firm => \A i \in 1 .. m : xfer.data[i] = snap[i])
       /\ snap \in Seq(Units) /\ Len(snap) = n
  BY <1>6 DEF Beginning
<1> HIDE DEF d
<1>13. /\ whole \in Seq(Units) /\ Len(whole) = m + k /\ Placed(whole, 0)
       /\ \A i \in 1 .. m : whole[i] = xfer.data[i]
       /\ \A i \in 1 .. k : whole[m + i] = d[i]
  <2>1. PICK s \in Seq(Units) : s = xfer.data
    BY <1>5
  <2>2. Placed(s, 0) /\ Placed(d, Len(s)) /\ d \in Seq(Units)
    BY <1>11, <1>12, <2>1
  <2>3. /\ s \o d \in Seq(Units) /\ Len(s \o d) = Len(s) + Len(d) /\ Placed(s \o d, 0)
        /\ \A i \in 1 .. Len(s) : (s \o d)[i] = s[i]
        /\ \A i \in 1 .. Len(d) : (s \o d)[Len(s) + i] = d[i]
    BY <2>2, Joined
  <2> QED
    BY <1>11, <2>1, <2>3
<1>14. ASSUME Firm, NEW i \in 1 .. m + k PROVE whole[i] = snap[i]
  <2> HIDE DEF whole
  <2>1. CASE i <= m
    <3>1. i \in 1 .. m
      BY <1>5, <2>1
    <3> QED
      BY <1>12, <1>13, <1>14, <3>1
  <2>2. CASE ~(i <= m)
    <3>1. i - m \in 1 .. k /\ m + (i - m) = i
      BY <1>5, <1>8, <2>2
    <3> QED
      BY <1>11, <1>13, <1>14, <3>1
  <2> QED
    BY <2>1, <2>2
<1>15. CASE reply' = Abort
  BY <1>1, <1>2, <1>3, <1>4, <1>9, <1>10, <1>15, NotAnswered DEF SdoInv
<1>16. CASE reply' = Segment(Part(src, data.off + fragsleft, k), left <= SegRoom)
  <2>1. data.off + fragsleft = m
    BY <1>5, <1>7
  <2>2. reply'.kind = "segment" /\ reply'.data = d /\ reply'.last = (left <= SegRoom)
    BY <1>16, <2>1 DEF Segment, d
  <2>3. Beginning(xfer.data \o reply.data)'
    <3>1. xfer'.data \o reply'.data = whole /\ Firm' = Firm /\ xfer' = xfer /\ snap' = snap
      BY <1>9, <2>2 DEF Firm
    <3> HIDE DEF whole
    <3> QED
      BY <1>5, <1>8, <1>12, <1>13, <1>14, <3>1 DEF Beginning
  <2>4. Len((xfer.data \o reply.data)') = m + k
    <3>1. xfer'.data \o reply'.data = whole
      BY <2>2
    <3> QED
      BY <1>13, <3>1
  <2>5. ASSUME ~(left <= SegRoom) PROVE Reading(Len(xfer.data \o reply.data))'
    <3>1. m + k < n /\ segmented' = "up" /\ frags' = n /\ fragsleft' = m + k
      BY <1>6, <1>7, <1>8, <1>9, <2>5 DEF Reading
    <3>2. UNCHANGED <<xfer, data, obj, torn, mbxdata, snap>>
      BY <1>9
    <3>3. Len(xfer'.data \o reply'.data) = m + k
      BY <2>4
    <3> QED
      BY <1>6, <3>1, <3>2, <3>3 DEF Reading
  <2>6. UpSegment'
    <3>1. CASE left <= SegRoom
      BY <1>5, <1>6, <1>8, <1>11, <2>2, <2>3, <2>4, <3>1 DEF UpSegment
    <3>2. CASE ~(left <= SegRoom)
      BY <1>5, <1>6, <1>8, <1>11, <2>2, <2>3, <2>5, <3>2 DEF UpSegment
    <3> QED
      BY <3>1, <3>2
  <2>7. TransferInv'
    BY <1>2, <1>3, <1>4, <1>9, <2>6 DEF TransferInv, TransferTyped, UploadIs
  <2> QED
    BY <1>10, <2>7 DEF SdoInv
<1> QED
  BY <1>9, <1>15, <1>16

-----------------------------------------------------------------------------
(* Downloads.                                                              *)

LEMMA Downloading ==
  ASSUME SdoInv, req.kind \in {"download", "dseg"}
  PROVE  /\ xfer.phase = "running" /\ TransferTyped /\ xfer.op = "down" /\ held = None
         /\ \E v \in 0 .. MaxValues :
              /\ DownloadIs(v) /\ xfer.data = Value(v, xfer.size)
              /\ req.kind = "download" => DownAsked(v)
              /\ req.kind = "dseg" => DownNext(v)
<1>1. ObjectsInv /\ CaObjectsWhole /\ TransferInv
  BY DEF SdoInv
<1>2. xfer.phase = "running" /\ TransferTyped
  BY Asking
<1>3. xfer.op = "down"
  <2>1. CASE xfer.op = "up"
    <3>1. UploadIs
      BY <1>1, <1>2, <2>1 DEF TransferInv
    <3>2. req # Nothing /\ req # [kind |-> "useg"] /\ req # [kind |-> "upload", obj |-> xfer.obj]
      BY DEF Nothing
    <3> QED
      BY <3>1, <3>2 DEF UploadIs, UpAsked, UpFirst, UpNext, UpSegment, Unanswered
  <2> QED
    BY <1>2, <2>1 DEF TransferTyped
<1>4. PICK v \in 0 .. MaxValues : DownloadIs(v)
  BY <1>1, <1>2, <1>3 DEF TransferInv
<1>5. req # Nothing
  BY DEF Nothing
<1>6. xfer.data = Value(v, xfer.size) /\ (DownAsked(v) \/ DownNext(v)) /\ held = None
  BY <1>4, <1>5 DEF DownloadIs, DownHeld, DownDone, Unanswered, DownAsked, DownNext
<1>7. /\ DownAsked(v) => req.kind = "download"
      /\ DownNext(v) => req.kind = "dseg"
  BY DEF DownAsked, DownNext
<1> QED
  BY <1>2, <1>3, <1>4, <1>6, <1>7

\* What is asked for: value v, up to the end of the first message.
LEMMA DownAskedIs ==
  ASSUME TransferTyped, NEW v \in 0 .. MaxValues, DownAsked(v)
  PROVE  /\ req.obj = xfer.obj /\ req.size = xfer.size /\ xfer.obj \in Objects /\ xfer.size \in Nat
         /\ xfer.size \in Sizes(xfer.obj) /\ xfer.sent \in Nat /\ xfer.sent <= xfer.size
         /\ xfer.size <= InitRoom => xfer.sent = xfer.size
         /\ xfer.size > InitRoom => xfer.sent = InitRoom
         /\ req.data \in Seq(Units) /\ Len(req.data) = xfer.sent /\ Placed(req.data, 0)
         /\ \A i \in 1 .. xfer.sent : req.data[i] = Unit(v, i)
<1>1. xfer.obj \in Objects /\ xfer.size \in Nat /\ xfer.sent \in Nat /\ InitRoom \in Nat /\ v \in Int
  BY Constants DEF TransferTyped
<1>2. /\ req.obj = xfer.obj /\ req.size = xfer.size /\ xfer.size \in Sizes(xfer.obj)
      /\ xfer.sent = Least(xfer.size, InitRoom) /\ req.data = Value(v, xfer.sent)
  BY DEF DownAsked
<1>3. /\ xfer.sent <= xfer.size /\ (xfer.size <= InitRoom => xfer.sent = xfer.size)
      /\ xfer.size > InitRoom => xfer.sent = InitRoom
  BY <1>1, <1>2 DEF Least
<1>4. PICK k \in Nat : k = xfer.sent
  BY <1>1
<1>5. /\ Value(v, k) \in Seq(Units) /\ Len(Value(v, k)) = k /\ Placed(Value(v, k), 0)
      /\ \A i \in 1 .. k : Value(v, k)[i] = Unit(v, i)
  BY <1>1, ValueTyped
<1> QED
  BY <1>1, <1>2, <1>3, <1>4, <1>5

LEMMA DownloadStep ==
  ASSUME SdoInv, req.kind = "download", req.obj \notin ByCA, NEW hook,
         SDO_download(req.obj, req.size, req.data, hook), req' = Nothing, UNCHANGED <<xfer, values>>
  PROVE  SdoInv'
<1> DEFINE o == xfer.obj  n == xfer.size  d == req.data  m == xfer.sent
           more    == n > ExpeditedRoom /\ n > Len(d)
           refused == ~Writable(o) \/ ~Fits(o, n)
           dropped == refused \/ hook = "pre" \/ o \in Holding
           new == IF refused THEN obj[o] ELSE IF dropped THEN Padded(o, n) ELSE Put(Padded(o, n), 0, d)
           answer == IF refused \/ hook = "pre" \/ (o \in Holding /\ more) THEN Abort
                     ELSE IF o \in Holding THEN Nothing
                     ELSE IF hook = "post" /\ ~more THEN Abort ELSE Done
<1>1. ObjectsInv /\ CaObjectsWhole /\ TransferInv
  BY DEF SdoInv
<1>2. xfer.phase = "running" /\ TransferTyped /\ xfer.op = "down" /\ held = None
  BY Downloading
<1>3. PICK v \in 0 .. MaxValues : DownloadIs(v) /\ xfer.data = Value(v, n) /\ DownAsked(v)
  BY Downloading
<1>4. /\ req.obj = o /\ req.size = n /\ o \in Objects /\ n \in Nat /\ m \in Nat /\ m <= n
      /\ (n <= InitRoom => m = n) /\ (n > InitRoom => m = InitRoom)
      /\ d \in Seq(Units) /\ Len(d) = m /\ Placed(d, 0) /\ \A i \in 1 .. m : d[i] = Unit(v, i)
  BY <1>2, <1>3, DownAskedIs
<1>5. more <=> m # n
  BY <1>4, Constants
<1>6. /\ torn' = FALSE /\ obj' = [obj EXCEPT ![o] = new] /\ mbxdata' = mbxdata
      /\ ~dropped /\ more => data' = [at |-> o, off |-> Len(d)] /\ target' = o /\ caFlag' = FALSE
      /\ held' = IF ~refused /\ hook # "pre" /\ o \in Holding /\ ~more THEN o ELSE held
      /\ Answered(answer)
  BY <1>4 DEF SDO_download, transferVars
<1>7. (reply' = answer \/ reply' = Nothing) /\ drops' \in Nat
  BY <1>1, <1>6 DEF Answered, Scarce, ObjectsInv
<1>8. /\ obj[o] \in Seq(Units) /\ Len(obj[o]) = Size[o] /\ Placed(obj[o], 0) /\ Size[o] \in Nat
  BY <1>1, <1>4, ObjectIs
<1>9. /\ Padded(o, n) \in Seq(Units) /\ Len(Padded(o, n)) = Size[o] /\ Placed(Padded(o, n), 0)
      /\ \A i \in 1 .. Size[o] : Padded(o, n)[i] = IF i > n THEN Unit(Zero, i) ELSE obj[o][i]
  BY <1>1, <1>4, PaddedTyped
<1> DEFINE put == Put(Padded(o, n), 0, d)
<1>10. /\ put \in Seq(Units) /\ Len(put) = Size[o] /\ Placed(put, 0)
       /\ \A i \in 1 .. Size[o] :
            put[i] = IF i \in 1 .. m THEN Unit(v, i) ELSE IF i > n THEN Unit(Zero, i) ELSE obj[o][i]
  <2>1. PICK s \in Seq(Units) : s = Padded(o, n)
    BY <1>9
  <2> HIDE DEF d
  <2>0. 0 \in Nat /\ d \in Seq(Units)
    BY <1>4
  <2>2. /\ Put(s, 0, d) \in Seq(Units) /\ Len(Put(s, 0, d)) = Len(s)
        /\ \A i \in 1 .. Len(s) : Put(s, 0, d)[i] = IF i - 0 \in 1 .. Len(d) THEN d[i - 0] ELSE s[i]
    <3>1. IsPut(Put(s, 0, d), s, 0, d)
      BY <2>0, PutTyped
    <3> QED
      BY <3>1 DEF IsPut
  <2>3. Placed(Put(s, 0, d), 0)
    BY <1>4, <2>0, <1>9, <2>1, PutPlaced
  <2>4. \A i \in 1 .. Size[o] : i - 0 = i
    BY <1>8
  <2> QED
    BY <1>4, <1>9, <2>1, <2>2, <2>3, <2>4
<1>11. new \in Seq(Units) /\ Len(new) = Size[o] /\ Placed(new, 0)
  <2> HIDE DEF put, refused, dropped
  <2>1. new = obj[o] \/ new = Padded(o, n) \/ new = put
    BY DEF put
  <2> HIDE DEF new
  <2> QED
    BY <1>8, <1>9, <1>10, <2>1
<1>12. /\ obj' \in [Objects -> Seq(Units)]
       /\ \A p \in Objects : Len(obj'[p]) = Size[p] /\ Placed(obj'[p], 0)
       /\ obj'[o] = new /\ \A p \in Objects : p # o => obj'[p] = obj[p]
  <2> HIDE DEF new
  <2> QED
    BY <1>1, <1>4, <1>6, <1>11, OneObject
<1>13. ObjectsInv'
  BY <1>1, <1>6, <1>7, <1>12 DEF ObjectsInv
<1>14. CaObjectsWhole'
  <2>1. \A p \in ByCA : p # o /\ p \in Objects
    BY <1>4, Constants
  <2> QED
    BY <1>1, <1>12, <2>1, WholeSame
<1>15. CASE reply' \in {Nothing, Abort} /\ held' = None
  BY <1>1, <1>2, <1>3, <1>13, <1>14, <1>15, NotAnswered DEF SdoInv
<1>16. CASE held' # None
  <2>1. held' = o /\ o \in Holding /\ ~more /\ answer = Nothing
    BY <1>2, <1>6, <1>16
  <2>2. reply' = Nothing /\ m = n
    BY <1>5, <1>7, <2>1
  <2>3. DownHeld'
    BY <2>1, <2>2 DEF DownHeld
  <2>4. DownloadIs(v)'
    BY <1>3, <1>4, <2>3 DEF DownloadIs
  <2>5. (\E w \in 0 .. MaxValues : DownloadIs(w))'
    BY <2>4
  <2>6. TransferInv'
    BY <1>2, <2>5 DEF TransferInv, TransferTyped
  <2> QED
    BY <1>13, <1>14, <2>6 DEF SdoInv
<1>17. CASE reply' \notin {Nothing, Abort} /\ held' = None
  <2>1. answer = Done /\ reply' = Done
    BY <1>7, <1>17
  <2>2. ~refused /\ hook # "pre" /\ o \notin Holding
    BY <2>1 DEF Done, Abort, Nothing
  <2>3. obj'[o] = put /\ n <= Size[o]
    BY <1>4, <1>8, <1>12, <2>2 DEF Fits
  <2> HIDE DEF put
  <2>4. ASSUME m = n PROVE Stored'
    <3>1. \A i \in 1 .. Size[o] : obj'[o][i] = IF i > n THEN Unit(Zero, i) ELSE xfer.data[i]
      <4>1. \A i \in 1 .. n : xfer.data[i] = Unit(v, i)
        <5>1. v \in Int
          OBVIOUS
        <5> QED
          BY <1>3, <1>4, <5>1, ValueTyped
      <4>2. ASSUME NEW i \in 1 .. Size[o]
            PROVE  obj'[o][i] = IF i > n THEN Unit(Zero, i) ELSE xfer.data[i]
        <5>1. CASE i > n
          BY <1>4, <1>10, <2>3, <2>4, <5>1
        <5>2. CASE ~(i > n)
          <6>1. i \in 1 .. n
            BY <1>4, <1>8, <5>2
          <6> QED
            BY <1>10, <2>3, <2>4, <4>1, <5>2, <6>1
        <5> QED
          BY <5>1, <5>2
      <4> QED
        BY <4>2
    <3> QED
      BY <2>3, <3>1 DEF Stored
  <2>5. ASSUME m # n PROVE Writing(v, m)'
    <3>1. data' = [at |-> o, off |-> m] /\ target' = o /\ caFlag' = FALSE
      BY <1>4, <1>5, <1>6, <2>2, <2>5
    <3>2. \A i \in 1 .. Size[o] :
            /\ i <= m => obj'[o][i] = Unit(v, i)
            /\ i > n => obj'[o][i] = Unit(Zero, i)
      BY <1>4, <1>8, <1>10, <2>3
    <3>3. o \notin ByCA
      BY <1>4
    <3>4. PICK k : k = m
      OBVIOUS
    <3>5. xfer' = xfer
      OBVIOUS
    <3>6. Writing(v, k)'
      <4>1. target' = xfer'.obj /\ xfer'.obj \notin Holding /\ xfer'.obj \notin ByCA
        BY <2>2, <3>1, <3>3, <3>5
      <4>2. data' = [at |-> xfer'.obj, off |-> k] /\ ~caFlag' /\ xfer'.size <= Size[xfer'.obj]
        BY <2>3, <3>1, <3>4, <3>5
      <4>3. ASSUME NEW i \in 1 .. Size[xfer'.obj]
            PROVE  /\ i <= k => obj'[xfer'.obj][i] = Unit(v, i)
                   /\ i > xfer'.size => obj'[xfer'.obj][i] = Unit(Zero, i)
        <5>1. xfer'.obj = o /\ xfer'.size = n
          BY <3>5
        <5>2. i \in 1 .. Size[o]
          BY <5>1
        <5>3. (i <= m => obj'[o][i] = Unit(v, i)) /\ (i > n => obj'[o][i] = Unit(Zero, i))
          BY <3>2, <5>2
        <5> QED
          BY <3>4, <5>1, <5>3
      <4> QED
        BY <4>1, <4>2, <4>3 DEF Writing
    <3>7. \A i : i = k => Writing(v, i)'
      BY <3>6
    <3> QED
      BY <3>4, <3>5, <3>7
  <2>6. DownDone(v)'
    <3>1. CASE m = n
      BY <1>17, <2>1, <2>4, <3>1 DEF DownDone
    <3>2. CASE m # n
      <4>1. Writing(v, xfer.sent)'
        BY <2>5, <3>2
      <4> QED
        BY <1>17, <2>1, <3>2, <4>1 DEF DownDone
    <3> QED
      BY <3>1, <3>2
  <2>7. DownloadIs(v)'
    BY <1>3, <1>4, <2>6 DEF DownloadIs
  <2>8. (\E w \in 0 .. MaxValues : DownloadIs(w))'
    BY <2>7
  <2>9. TransferInv'
    BY <1>2, <2>8 DEF TransferInv, TransferTyped
  <2> QED
    BY <1>13, <1>14, <2>9 DEF SdoInv
<1> QED
  BY <1>15, <1>16, <1>17

\* A whole value is copied into an object that may be written now.
LEMMA CopiedWhole ==
  ASSUME ObjectsInv, CaObjectsWhole, NEW o \in ByCA, NEW v \in 0 .. MaxValues, NEW buf \in Seq(Units),
         Size[o] <= Len(buf), \A i \in 1 .. Size[o] : buf[i] = Unit(v, i),
         obj' = CAStored(o, buf, Size[o])
  PROVE  /\ obj' \in [Objects -> Seq(Units)]
         /\ \A p \in Objects : Len(obj'[p]) = Size[p] /\ Placed(obj'[p], 0)
         /\ CaObjectsWhole'
         /\ Writable(o) => obj'[o] = Value(v, Size[o])
<1>1. o \in Objects /\ v \in Int
  BY Constants
<1>2. /\ obj[o] \in Seq(Units) /\ Len(obj[o]) = Size[o] /\ Placed(obj[o], 0) /\ Size[o] \in Nat
  BY <1>1, ObjectIs
<1> DEFINE n == Size[o]  front == SubSeq(buf, 1, n)  put == Put(obj[o], 0, front)
<1>3. Least(n, n) = n
  BY DEF Least
<1>4. front \in Seq(Units) /\ Len(front) = n /\ \A i \in 1 .. n : front[i] = Unit(v, i)
  <2>1. PICK k \in Nat : k = n
    BY <1>2
  <2>2. 0 + k <= Len(buf) /\ 0 \in Nat /\ 0 + 1 = 1 /\ 0 + k = k /\ \A i \in 1 .. k : 0 + i = i
    BY <2>1
  <2>3. Part(buf, 0, k) \in Seq(Units) /\ Len(Part(buf, 0, k)) = k /\ \A i \in 1 .. k : Part(buf, 0, k)[i] = buf[0 + i]
    BY <2>2, PartTyped DEF IsPart
  <2>4. Part(buf, 0, k) = SubSeq(buf, 1, k)
    BY <2>2 DEF Part
  <2> QED
    BY <2>1, <2>2, <2>3, <2>4
<1> HIDE DEF front
<1>5. put = Value(v, n)
  <2>1. PICK s \in Seq(Units) : s = obj[o]
    BY <1>2
  <2>2. /\ Put(s, 0, front) \in Seq(Units) /\ Len(Put(s, 0, front)) = Len(s)
        /\ \A i \in 1 .. Len(s) : Put(s, 0, front)[i] = IF i - 0 \in 1 .. Len(front) THEN front[i - 0] ELSE s[i]
    <3>1. 0 \in Nat
      OBVIOUS
    <3> QED
      BY <1>4, <3>1, PutTyped DEF IsPut
  <2>3. Value(v, n) \in Seq(Units) /\ Len(Value(v, n)) = n /\ \A i \in 1 .. n : Value(v, n)[i] = Unit(v, i)
    BY <1>1, <1>2, ValueTyped
  <2>4. \A i \in 1 .. n : i - 0 = i
    BY <1>2
  <2>5. \A i \in 1 .. n : put[i] = Value(v, n)[i]
    BY <1>2, <1>4, <2>1, <2>2, <2>3, <2>4
  <2>6. put \in Seq(Units) /\ Len(put) = n
    BY <1>2, <2>1, <2>2
  <2> HIDE DEF put, n
  <2> QED
    BY <2>3, <2>5, <2>6, SeqEqual
<1>6. CASE Writable(o)
  <2>1. obj' = [obj EXCEPT ![o] = put]
    BY <1>3, <1>6 DEF CAStored, front
  <2>2. Value(v, n) \in Seq(Units) /\ Len(Value(v, n)) = n /\ Placed(Value(v, n), 0)
    BY <1>1, <1>2, ValueTyped
  <2>3. obj' = [obj EXCEPT ![o] = Value(v, n)]
    BY <1>5, <2>1
  <2>4. /\ obj' \in [Objects -> Seq(Units)]
        /\ \A p \in Objects : Len(obj'[p]) = Size[p] /\ Placed(obj'[p], 0)
        /\ obj'[o] = Value(v, n) /\ \A p \in Objects : p # o => obj'[p] = obj[p]
    <3> HIDE DEF n
    <3>1. PICK s \in Seq(Units) : s = Value(v, n)
      BY <2>2
    <3>2. Len(s) = Size[o] /\ Placed(s, 0) /\ obj' = [obj EXCEPT ![o] = s]
      BY <2>2, <2>3, <3>1 DEF n
    <3> QED
      BY <1>1, <3>1, <3>2, OneObject
  <2>5. CaObjectsWhole'
    <3>1. ASSUME NEW p \in ByCA PROVE \E w \in 0 .. MaxValues : obj'[p] = Value(w, Size[p])
      <4>1. CASE p = o
        BY <2>4, <4>1
      <4>2. CASE p # o
        BY <2>4, <3>1, <4>2, Constants DEF CaObjectsWhole
      <4> QED
        BY <4>1, <4>2
    <3> QED
      BY <3>1 DEF CaObjectsWhole
  <2> QED
    BY <2>4, <2>5
<1>7. CASE ~Writable(o)
  <2>1. obj' = obj
    BY <1>7 DEF CAStored
  <2>2. CaObjectsWhole'
    BY <2>1, WholeSame
  <2> QED
    BY <1>7, <2>1, <2>2 DEF ObjectsInv
<1> QED
  BY <1>6, <1>7

\* A value stored whole is what was sent.
LEMMA WholeIsStored ==
  ASSUME TransferTyped, UNCHANGED xfer, NEW v \in 0 .. MaxValues, xfer.data = Value(v, xfer.size),
         xfer.size = Size[xfer.obj], xfer.obj \in ByCA,
         xfer.obj \notin PreopOnly => obj'[xfer.obj] = Value(v, xfer.size)
  PROVE  Stored'
<1>1. xfer.size \in Nat
  BY DEF TransferTyped
<1>2. \A i \in 1 .. xfer.size : ~(i > xfer.size)
  BY <1>1
<1> QED
  BY <1>1, <1>2 DEF Stored

LEMMA DownloadedIs ==
  ASSUME xfer.phase = "running", TransferTyped, xfer.op = "down", UNCHANGED xfer, NEW v \in 0 .. MaxValues,
         DownloadIs(v), DownDone(v)'
  PROVE  TransferInv'
<1>1. DownloadIs(v)'
  BY DEF DownloadIs
<1>2. (\E w \in 0 .. MaxValues : DownloadIs(w))'
  BY <1>1
<1> QED
  BY <1>2 DEF TransferInv, TransferTyped

LEMMA DownloadCaStep ==
  ASSUME SdoInv, req.kind = "download", req.obj \in ByCA, NEW hook,
         SDO_download_complete_access(req.obj, req.size, req.data, hook), req' = Nothing,
         UNCHANGED <<xfer, values>>
  PROVE  SdoInv'
<1> DEFINE o == xfer.obj  n == xfer.size  d == req.data  m == xfer.sent  more == n > InitRoom
           refused == hook = "pre" \/ n > Size[o] \/ (more /\ n > BufferSize)
           answer  == IF refused \/ (hook = "post" /\ ~more) THEN Abort ELSE Done
<1>1. ObjectsInv /\ CaObjectsWhole /\ TransferInv
  BY DEF SdoInv
<1>2. xfer.phase = "running" /\ TransferTyped /\ xfer.op = "down" /\ held = None
  BY Downloading
<1>3. PICK v \in 0 .. MaxValues : DownloadIs(v) /\ xfer.data = Value(v, n) /\ DownAsked(v)
  BY Downloading
<1>4. /\ req.obj = o /\ req.size = n /\ o \in Objects /\ n \in Nat /\ m \in Nat /\ m <= n
      /\ (n <= InitRoom => m = n) /\ (n > InitRoom => m = InitRoom) /\ n \in Sizes(o)
      /\ d \in Seq(Units) /\ Len(d) = m /\ Placed(d, 0) /\ \A i \in 1 .. m : d[i] = Unit(v, i)
  BY <1>2, <1>3, DownAskedIs
<1>5. "mbxdata" # o /\ Staging(o).at = "mbxdata"
  BY <1>4, Constants DEF Staging
<1>6. /\ torn' = FALSE /\ held' = None /\ Answered(answer)
      /\ refused => UNCHANGED <<obj, mbxdata>>
      /\ ~refused /\ more => /\ frags' = n /\ fragsleft' = InitRoom
                             /\ data' = [at |-> "mbxdata", off |-> InitRoom] /\ target' = o /\ caFlag' = TRUE
                             /\ obj' = obj /\ mbxdata' = Put(mbxdata, 0, d)
      /\ ~refused /\ ~more => obj' = CAStored(o, d, n) /\ mbxdata' = mbxdata
  BY <1>2, <1>4, <1>5 DEF SDO_download_complete_access, transferVars
<1>7. (reply' = answer \/ reply' = Nothing) /\ drops' \in Nat
  BY <1>1, <1>6 DEF Answered, Scarce, ObjectsInv
<1>8. /\ mbxdata \in Seq(Units) /\ Len(mbxdata) = BufferSize /\ BufferSize \in Nat /\ Size[o] \in Nat
  BY <1>1, <1>4, Constants DEF ObjectsInv
<1>9. ~refused => n = Size[o]
  BY <1>4, <1>8, Constants DEF Sizes
<1>10. CASE refused
  <2>1. ObjectsInv' /\ CaObjectsWhole'
    BY <1>1, <1>6, <1>7, <1>10, WholeSame DEF ObjectsInv
  <2>2. reply' \in {Nothing, Abort}
    BY <1>7, <1>10
  <2> QED
    BY <1>1, <1>2, <1>3, <1>6, <2>1, <2>2, NotAnswered DEF SdoInv
<1>11. CASE ~refused /\ more
  <2>1. /\ Put(mbxdata, 0, d) \in Seq(Units) /\ Len(Put(mbxdata, 0, d)) = BufferSize
        /\ \A i \in 1 .. BufferSize : Put(mbxdata, 0, d)[i] = IF i - 0 \in 1 .. m THEN d[i - 0] ELSE mbxdata[i]
    <3> HIDE DEF d
    <3>1. 0 \in Nat /\ d \in Seq(Units)
      BY <1>4
    <3> QED
      BY <1>4, <1>8, <3>1, PutTyped DEF IsPut
  <2>2. ObjectsInv' /\ CaObjectsWhole'
    BY <1>1, <1>6, <1>7, <1>11, <2>1, WholeSame DEF ObjectsInv
  <2>3. CASE reply' = Nothing
    BY <1>1, <1>2, <1>3, <1>6, <2>2, <2>3, NotAnswered DEF SdoInv
  <2>4. CASE reply' # Nothing
    <3>1. reply' = Done /\ m = InitRoom /\ m # n /\ n <= BufferSize
      BY <1>4, <1>7, <1>8, <1>11, <2>4, Constants
    <3>2. \A i \in 1 .. m : mbxdata'[i] = Unit(v, i)
      <4>1. \A i \in 1 .. m : i - 0 = i /\ i \in 1 .. BufferSize
        BY <1>4, <1>8, <3>1
      <4> QED
        BY <1>4, <1>6, <1>11, <2>1, <4>1
    <3>3. o \notin Holding
      BY <1>4, Constants
    <3>4. PICK k : k = m
      OBVIOUS
    <3>5. Writing(v, k)'
      <4>1. target' = xfer'.obj /\ xfer'.obj \notin Holding /\ xfer'.obj \in ByCA
        BY <1>4, <1>6, <1>11, <3>3
      <4>2. /\ data' = [at |-> "mbxdata", off |-> k] /\ caFlag' /\ frags' = Size[xfer'.obj] /\ fragsleft' = k
            /\ xfer'.size = Size[xfer'.obj] /\ Size[xfer'.obj] <= BufferSize
        BY <1>6, <1>9, <1>11, <3>1, <3>4
      <4>3. \A i \in 1 .. k : mbxdata'[i] = Unit(v, i)
        BY <3>2, <3>4
      <4> QED
        BY <4>1, <4>2, <4>3 DEF Writing
    <3>6. Writing(v, xfer.sent)'
      <4>1. \A i : i = k => Writing(v, i)'
        BY <3>5
      <4> QED
        BY <3>4, <4>1
    <3>7. DownDone(v)'
      BY <1>6, <3>1, <3>6 DEF DownDone
    <3> QED
      BY <1>2, <1>3, <2>2, <3>7, DownloadedIs DEF SdoInv
  <2> QED
    BY <2>3, <2>4
<1>12. CASE ~refused /\ ~more
  <2>0. m = n /\ n = Size[o] /\ o \in ByCA
    BY <1>4, <1>8, <1>9, <1>12, Constants
  <2>1. m = n /\ n = Size[o] /\ Size[o] <= Len(d) /\ (\A i \in 1 .. Size[o] : d[i] = Unit(v, i)) /\ o \in ByCA
    BY <1>4, <2>0
  <2>2. obj' = CAStored(o, d, Size[o])
    BY <1>6, <1>12, <2>1
  <2>3. /\ obj' \in [Objects -> Seq(Units)]
        /\ \A p \in Objects : Len(obj'[p]) = Size[p] /\ Placed(obj'[p], 0)
        /\ CaObjectsWhole' /\ (Writable(o) => obj'[o] = Value(v, Size[o]))
    <3> HIDE DEF o, d, n
    <3> QED
      BY <1>1, <1>4, <2>1, <2>2, CopiedWhole
  <2>4. ObjectsInv'
    BY <1>1, <1>6, <1>7, <1>12, <2>3 DEF ObjectsInv
  <2>5. CASE reply' \in {Nothing, Abort}
    BY <1>1, <1>2, <1>3, <1>6, <2>3, <2>4, <2>5, NotAnswered DEF SdoInv
  <2>6. CASE reply' \notin {Nothing, Abort}
    <3>1. reply' = Done
      BY <1>7, <2>6
    <3>2. Stored'
      <4>1. o \notin PreopOnly => Writable(o)
        BY DEF Writable
      <4> QED
        BY <1>2, <1>3, <2>1, <2>3, <4>1, WholeIsStored
    <3>3. DownDone(v)'
      BY <1>6, <2>1, <3>1, <3>2 DEF DownDone
    <3> QED
      BY <1>2, <1>3, <2>3, <2>4, <3>3, DownloadedIs DEF SdoInv
  <2> QED
    BY <2>5, <2>6
<1> QED
  BY <1>10, <1>11, <1>12

\* The segment on its way: the k units of value v that follow the first m.
LEMMA NextSegment ==
  ASSUME TransferTyped, NEW v \in 0 .. MaxValues, DownNext(v), xfer.sent <= xfer.size
  PROVE  \E m, k \in Nat :
           /\ xfer.sent = m + k /\ k > 0 /\ Writing(v, m)
           /\ req.data \in Seq(Units) /\ Len(req.data) = k /\ Placed(req.data, m)
           /\ \A i \in 1 .. k : req.data[i] = Unit(v, m + i)
<1>1. PICK k \in 1 .. SegRoom :
        /\ k <= xfer.sent /\ req.data = Part(Value(v, xfer.size), xfer.sent - k, k)
        /\ Writing(v, xfer.sent - k)
  BY DEF DownNext
<1>2. xfer.sent \in Nat /\ xfer.size \in Nat /\ k \in Nat /\ k > 0 /\ v \in Int
  BY Constants DEF TransferTyped
<1>3. PICK m \in Nat : m = xfer.sent - k
  BY <1>1, <1>2
<1>4. xfer.sent = m + k /\ m + k <= xfer.size
  BY <1>1, <1>2, <1>3
<1>5. PICK n \in Nat, s \in Seq(Units) : n = xfer.size /\ s = Value(v, n)
  BY <1>2, ValueTyped
<1>6. Len(s) = n /\ Placed(s, 0) /\ \A i \in 1 .. n : s[i] = Unit(v, i)
  BY <1>2, <1>5, ValueTyped
<1>7. m + k <= Len(s) /\ req.data = Part(s, m, k) /\ \A i \in 1 .. k : m + i \in 1 .. n
  <2>1. m + k <= n
    BY <1>4, <1>5
  <2>2. req.data = Part(s, m, k)
    BY <1>1, <1>3, <1>5
  <2> QED
    BY <1>6, <2>1, <2>2
<1>8. Part(s, m, k) \in Seq(Units) /\ Len(Part(s, m, k)) = k /\ \A i \in 1 .. k : Part(s, m, k)[i] = s[m + i]
  BY <1>2, <1>7, PartTyped DEF IsPart
<1>9. Placed(Part(s, m, k), m)
  BY <1>2, <1>6, <1>7, PartPlaced
<1>10. Writing(v, m)
  BY <1>1, <1>3
<1> QED
  BY <1>2, <1>4, <1>6, <1>7, <1>8, <1>9, <1>10

LEMMA StagedStep ==
  ASSUME SdoInv, req.kind = "dseg", xfer.obj \in ByCA, NEW hook,
         SDO_downloadsegment(req.data, req.last, hook), req' = Nothing, UNCHANGED <<al, xfer, values>>
  PROVE  SdoInv'
<1> DEFINE o == xfer.obj  n == xfer.size  d == req.data  put == Put(mbxdata, data.off, d)
<1>1. ObjectsInv /\ CaObjectsWhole /\ TransferInv
  BY DEF SdoInv
<1>2. xfer.phase = "running" /\ TransferTyped /\ xfer.op = "down" /\ held = None
  BY Downloading
<1>3. PICK v \in 0 .. MaxValues : DownloadIs(v) /\ xfer.data = Value(v, n) /\ DownNext(v)
  BY Downloading
<1>4. o \in Objects /\ n \in Nat /\ xfer.sent \in Nat /\ xfer.sent <= n
  BY <1>2, <1>3 DEF DownloadIs, TransferTyped
<1>5. PICK m, k \in Nat :
        /\ xfer.sent = m + k /\ k > 0 /\ Writing(v, m)
        /\ d \in Seq(Units) /\ Len(d) = k /\ Placed(d, m) /\ \A i \in 1 .. k : d[i] = Unit(v, m + i)
  BY <1>2, <1>3, <1>4, NextSegment
<1>6. /\ target = o /\ o \notin Holding /\ data = [at |-> "mbxdata", off |-> m] /\ caFlag
      /\ frags = n /\ fragsleft = m /\ n = Size[o] /\ Size[o] <= BufferSize
      /\ \A i \in 1 .. m : mbxdata[i] = Unit(v, i)
  BY <1>5 DEF Writing
<1>7. m + k = n => req.last
  BY <1>3, <1>5 DEF DownNext
<1>8. /\ mbxdata \in Seq(Units) /\ Len(mbxdata) = BufferSize /\ BufferSize \in Nat
  BY <1>1, Constants DEF ObjectsInv
<1>9. /\ put \in Seq(Units) /\ Len(put) = BufferSize
      /\ \A i \in 1 .. BufferSize : put[i] = IF i - m \in 1 .. k THEN d[i - m] ELSE mbxdata[i]
  <2> HIDE DEF d
  <2>1. put = Put(mbxdata, m, d)
    BY <1>6
  <2>2. IsPut(Put(mbxdata, m, d), mbxdata, m, d)
    BY <1>5, <1>8, PutTyped
  <2> HIDE DEF put
  <2> QED
    BY <1>5, <1>8, <2>1, <2>2 DEF IsPut
<1> HIDE DEF put
<1>10. ASSUME NEW i \in 1 .. m + k PROVE put[i] = Unit(v, i)
  <2>1. i \in 1 .. BufferSize
    BY <1>4, <1>5, <1>6, <1>8
  <2>2. CASE i <= m
    <3>1. i - m \notin 1 .. k /\ i \in 1 .. m
      BY <2>2
    <3> QED
      BY <1>6, <1>9, <2>1, <3>1
  <2>3. CASE ~(i <= m)
    <3>1. i - m \in 1 .. k /\ m + (i - m) = i
      BY <2>3
    <3> QED
      BY <1>5, <1>9, <2>1, <3>1
  <2> QED
    BY <2>2, <2>3
<1>11. /\ mbxdata' = put /\ held' = None /\ target' = target /\ caFlag' = caFlag /\ torn' = torn /\ drops' \in Nat
       /\ ~req.last => /\ data' = [data EXCEPT !.off = @ + k] /\ fragsleft' = m + k
                       /\ obj' = obj /\ reply' = Done /\ frags' = frags
       /\ req.last /\ m + k = n => obj' = CAStored(o, put, n) /\ reply' \in {Done, Abort}
       /\ req.last /\ m + k # n => obj' = obj /\ reply' \in {Abort, Nothing}
  <2>1. frags > fragsleft + Len(d) <=> m + k # n
    <3>1. frags = n /\ fragsleft = m /\ Len(d) = k
      BY <1>5, <1>6
    <3>2. m + k <= n /\ n \in Nat
      BY <1>4, <1>5
    <3> HIDE DEF d, n
    <3>3. n > m + k <=> m + k # n
      BY <3>2
    <3> QED
      BY <3>1, <3>3
  <2>2. drops \in Nat
    BY <1>1 DEF ObjectsInv
  <2>3. CASE ~req.last
    BY <1>2, <1>5, <1>6, <2>2, <2>3 DEF SDO_downloadsegment, put
  <2>4. CASE req.last /\ m + k = n
    BY <1>2, <1>5, <1>6, <2>1, <2>2, <2>4 DEF SDO_downloadsegment, put
  <2>5. CASE req.last /\ m + k # n
    BY <1>2, <1>5, <1>6, <2>1, <2>5 DEF SDO_downloadsegment, put
  <2> QED
    BY <2>3, <2>4, <2>5
<1>12. CASE ~req.last
  <2>1. ObjectsInv' /\ CaObjectsWhole'
    BY <1>1, <1>9, <1>11, <1>12, WholeSame DEF ObjectsInv
  <2>2. PICK j \in Nat : j = m + k
    OBVIOUS
  <2>3. Writing(v, j)'
    <3>1. target' = xfer'.obj /\ xfer'.obj \notin Holding /\ xfer'.obj \in ByCA
      BY <1>6, <1>11
    <3>2. data' = [at |-> "mbxdata", off |-> j]
      BY <1>6, <1>11, <1>12, <2>2
    <3>3. /\ caFlag' /\ frags' = Size[xfer'.obj] /\ fragsleft' = j
          /\ xfer'.size = Size[xfer'.obj] /\ Size[xfer'.obj] <= BufferSize
      BY <1>6, <1>11, <1>12, <2>2
    <3>4. \A i \in 1 .. j : mbxdata'[i] = Unit(v, i)
      BY <1>10, <1>11, <2>2
    <3> QED
      BY <3>1, <3>2, <3>3, <3>4 DEF Writing
  <2>4. Writing(v, xfer.sent)'
    <3>1. \A i : i = j => Writing(v, i)'
      BY <2>3
    <3> QED
      BY <1>5, <2>2, <3>1
  <2>5. DownDone(v)'
    BY <1>5, <1>7, <1>11, <1>12, <2>4 DEF DownDone
  <2> QED
    BY <1>2, <1>3, <2>1, <2>5, DownloadedIs DEF SdoInv
<1>13. CASE req.last /\ m + k = n
  <2>1. Size[o] <= Len(put) /\ (\A i \in 1 .. Size[o] : put[i] = Unit(v, i)) /\ obj' = CAStored(o, put, Size[o])
    BY <1>6, <1>7, <1>9, <1>10, <1>11, <1>13
  <2>2. /\ obj' \in [Objects -> Seq(Units)]
        /\ \A p \in Objects : Len(obj'[p]) = Size[p] /\ Placed(obj'[p], 0)
        /\ CaObjectsWhole' /\ (Writable(o) => obj'[o] = Value(v, Size[o]))
    <3> HIDE DEF o
    <3> QED
      BY <1>1, <1>9, <2>1, CopiedWhole DEF o
  <2>3. ObjectsInv'
    BY <1>1, <1>9, <1>11, <2>2 DEF ObjectsInv
  <2>4. CASE reply' = Abort
    BY <1>1, <1>2, <1>3, <1>11, <2>2, <2>3, <2>4, NotAnswered DEF SdoInv
  <2>5. CASE reply' = Done
    <3>1. Stored'
      <4>1. o \notin PreopOnly => Writable(o)
        BY DEF Writable
      <4> QED
        BY <1>2, <1>3, <1>6, <2>2, <4>1, WholeIsStored
    <3>2. DownDone(v)'
      BY <1>5, <1>7, <1>11, <1>13, <2>5, <3>1 DEF DownDone
    <3> QED
      BY <1>2, <1>3, <2>2, <2>3, <3>2, DownloadedIs DEF SdoInv
  <2> QED
    BY <1>11, <1>13, <2>4, <2>5
<1>14. CASE req.last /\ m + k # n
  <2>1. ObjectsInv' /\ CaObjectsWhole'
    BY <1>1, <1>9, <1>11, <1>14, WholeSame DEF ObjectsInv
  <2>2. reply' \in {Nothing, Abort}
    BY <1>11, <1>14
  <2> QED
    BY <1>1, <1>2, <1>3, <1>11, <2>1, <2>2, NotAnswered DEF SdoInv
<1> QED
  BY <1>12, <1>13, <1>14

LEMMA DirectStep ==
  ASSUME SdoInv, req.kind = "dseg", xfer.obj \notin ByCA, NEW hook,
         SDO_downloadsegment(req.data, req.last, hook), req' = Nothing, UNCHANGED <<al, xfer, values>>
  PROVE  SdoInv'
<1> DEFINE o == xfer.obj  n == xfer.size  d == req.data  put == Put(obj[o], data.off, d)
<1>1. ObjectsInv /\ CaObjectsWhole /\ TransferInv
  BY DEF SdoInv
<1>2. xfer.phase = "running" /\ TransferTyped /\ xfer.op = "down" /\ held = None
  BY Downloading
<1>3. PICK v \in 0 .. MaxValues : DownloadIs(v) /\ xfer.data = Value(v, n) /\ DownNext(v)
  BY Downloading
<1>4. o \in Objects /\ n \in Nat /\ xfer.sent \in Nat /\ xfer.sent <= n /\ v \in Int /\ "mbxdata" # o
  BY <1>2, <1>3, Constants DEF DownloadIs, TransferTyped
<1>5. PICK m, k \in Nat :
        /\ xfer.sent = m + k /\ k > 0 /\ Writing(v, m)
        /\ d \in Seq(Units) /\ Len(d) = k /\ Placed(d, m) /\ \A i \in 1 .. k : d[i] = Unit(v, m + i)
  BY <1>2, <1>3, <1>4, NextSegment
<1>6. /\ target = o /\ o \notin Holding /\ data = [at |-> o, off |-> m] /\ ~caFlag /\ n <= Size[o]
      /\ ~torn => \A i \in 1 .. Size[o] : /\ i <= m => obj[o][i] = Unit(v, i)
                                          /\ i > n => obj[o][i] = Unit(Zero, i)
  BY <1>5 DEF Writing
<1>7. req.last <=> m + k = n
  BY <1>3, <1>5 DEF DownNext
<1>8. obj[o] \in Seq(Units) /\ Len(obj[o]) = Size[o] /\ Placed(obj[o], 0) /\ Size[o] \in Nat
  BY <1>1, <1>4, ObjectIs
<1>9. /\ put \in Seq(Units) /\ Len(put) = Size[o] /\ Placed(put, 0)
      /\ \A i \in 1 .. Size[o] : put[i] = IF i - m \in 1 .. k THEN d[i - m] ELSE obj[o][i]
  <2>1. data.off = m
    BY <1>6
  <2>2. PICK s \in Seq(Units) : s = obj[o]
    BY <1>8
  <2> HIDE DEF d
  <2>3. /\ Put(s, m, d) \in Seq(Units) /\ Len(Put(s, m, d)) = Len(s)
        /\ \A i \in 1 .. Len(s) : Put(s, m, d)[i] = IF i - m \in 1 .. Len(d) THEN d[i - m] ELSE s[i]
    BY <1>5, PutTyped DEF IsPut
  <2>4. Placed(Put(s, m, d), 0)
    BY <1>5, <1>8, <2>2, PutPlaced
  <2> QED
    BY <1>5, <1>8, <2>1, <2>2, <2>3, <2>4
<1>10. /\ mbxdata' = mbxdata /\ held' = None /\ target' = target /\ caFlag' = caFlag /\ torn' = torn /\ drops' = drops
       /\ obj' = [obj EXCEPT ![o] = put]
       /\ ~req.last => data' = [data EXCEPT !.off = @ + k] /\ reply' = Done
       /\ req.last => reply' \in {Done, Abort}
  BY <1>2, <1>4, <1>5, <1>6 DEF SDO_downloadsegment
<1> HIDE DEF put
<1>11. /\ obj' \in [Objects -> Seq(Units)]
       /\ \A p \in Objects : Len(obj'[p]) = Size[p] /\ Placed(obj'[p], 0)
       /\ obj'[o] = put /\ \A p \in Objects : p # o => obj'[p] = obj[p]
  BY <1>1, <1>4, <1>9, <1>10, OneObject
<1>12. ObjectsInv'
  BY <1>1, <1>10, <1>11 DEF ObjectsInv
<1>13. CaObjectsWhole'
  <2>1. \A p \in ByCA : p # o /\ p \in Objects
    BY Constants
  <2> QED
    BY <1>1, <1>11, <2>1, WholeSame
<1>14. ASSUME ~torn, NEW i \in 1 .. Size[o]
       PROVE  (i <= m + k => obj'[o][i] = Unit(v, i)) /\ (i > n => obj'[o][i] = Unit(Zero, i))
  <2>1. CASE i - m \in 1 .. k
    <3>1. m + (i - m) = i /\ ~(i > n)
      BY <1>4, <1>5, <2>1
    <3> QED
      BY <1>5, <1>9, <1>11, <2>1, <3>1
  <2>2. CASE i - m \notin 1 .. k
    <3>1. i <= m + k => i <= m
      BY <2>2
    <3>2. (i <= m => obj[o][i] = Unit(v, i)) /\ (i > n => obj[o][i] = Unit(Zero, i))
      BY <1>6, <1>14
    <3> QED
      BY <1>9, <1>11, <2>2, <3>1, <3>2
  <2> QED
    BY <2>1, <2>2
<1>15. CASE ~req.last
  <2>1. PICK j \in Nat : j = m + k
    OBVIOUS
  <2>2. Writing(v, j)'
    <3>1. target' = xfer'.obj /\ xfer'.obj \notin Holding /\ xfer'.obj \notin ByCA
      BY <1>6, <1>10
    <3>2. data' = [at |-> xfer'.obj, off |-> j] /\ ~caFlag' /\ xfer'.size <= Size[xfer'.obj]
      BY <1>6, <1>10, <1>15, <2>1
    <3>3. ASSUME ~torn', NEW i \in 1 .. Size[xfer'.obj]
          PROVE  (i <= j => obj'[xfer'.obj][i] = Unit(v, i)) /\ (i > xfer'.size => obj'[xfer'.obj][i] = Unit(Zero, i))
      <4>1. xfer'.obj = o /\ xfer'.size = n /\ ~torn
        BY <1>10, <3>3
      <4>2. (i <= m + k => obj'[o][i] = Unit(v, i)) /\ (i > n => obj'[o][i] = Unit(Zero, i))
        BY <1>14, <4>1
      <4> QED
        BY <2>1, <4>1, <4>2
    <3> QED
      BY <3>1, <3>2, <3>3 DEF Writing
  <2>3. Writing(v, xfer.sent)'
    <3>1. \A i : i = j => Writing(v, i)'
      BY <2>2
    <3> QED
      BY <1>5, <2>1, <3>1
  <2>4. DownDone(v)'
    BY <1>5, <1>7, <1>10, <1>15, <2>3 DEF DownDone
  <2> QED
    BY <1>2, <1>3, <1>12, <1>13, <2>4, DownloadedIs DEF SdoInv
<1>16. CASE req.last /\ reply' = Abort
  BY <1>1, <1>2, <1>3, <1>10, <1>12, <1>13, <1>16, NotAnswered DEF SdoInv
<1>17. CASE req.last /\ reply' = Done
  <2>1. Stored'
    <3>1. ASSUME ~torn, NEW i \in 1 .. Size[o]
          PROVE  obj'[o][i] = IF i > n THEN Unit(Zero, i) ELSE xfer.data[i]
      <4>1. CASE i > n
        BY <1>14, <3>1, <4>1
      <4>2. CASE ~(i > n)
        <5>1. i \in 1 .. n /\ i <= m + k
          BY <1>4, <1>7, <1>8, <1>17, <4>2
        <5>2. xfer.data[i] = Unit(v, i)
          BY <1>3, <1>4, <5>1, ValueTyped
        <5> QED
          BY <1>14, <3>1, <4>2, <5>1, <5>2
      <4> QED
        BY <4>1, <4>2
    <3> QED
      BY <1>6, <1>10, <3>1 DEF Stored
  <2>2. DownDone(v)'
    BY <1>5, <1>7, <1>10, <1>17, <2>1 DEF DownDone
  <2> QED
    BY <1>2, <1>3, <1>12, <1>13, <2>2, DownloadedIs DEF SdoInv
<1> QED
  BY <1>10, <1>15, <1>16, <1>17
-----------------------------------------------------------------------------
(* The other steps of the device.                                          *)

\* While no transfer runs, only what the last one left counts.
LEMMA Finished ==
  ASSUME TransferInv, xfer.phase # "running", UNCHANGED <<xfer, snap, torn, obj, held>>,
         req'.kind \in {"none", "list"}
  PROVE  TransferInv'
<1>1. held' = None /\ xfer' = xfer /\ xfer'.phase # "running"
  BY DEF TransferInv
<1>2. ASSUME xfer.phase = "done"
      PROVE  (/\ xfer.obj \in Objects
              /\ xfer.op = "up" => Beginning(xfer.data) /\ Len(xfer.data) = Size[xfer.obj]
              /\ xfer.op = "down" => Stored)'
  <2>1. /\ xfer.obj \in Objects
        /\ xfer.op = "up" => Beginning(xfer.data) /\ Len(xfer.data) = Size[xfer.obj]
        /\ xfer.op = "down" => Stored
    BY <1>2 DEF TransferInv
  <2>2. xfer.op = "up" => Beginning(xfer.data)'
    BY <2>1, <1>1 DEF Beginning, Firm
  <2>3. xfer.op = "down" => Stored'
    BY <2>1, <1>1 DEF Stored
  <2> QED
    BY <1>1, <2>1, <2>2, <2>3
<1> QED
  BY <1>1, <1>2 DEF TransferInv

LEMMA Unmoved ==
  ASSUME TransferInv, UNCHANGED <<obj, transferVars, held, req, reply, xfer, snap, torn>>
  PROVE  TransferInv'
<1> SUFFICES ASSUME xfer.phase = "running" PROVE TransferInv'
  BY Finished DEF TransferInv
<1>1. /\ TransferTyped /\ (xfer.op = "up" => UploadIs)
      /\ xfer.op = "down" => \E v \in 0 .. MaxValues : DownloadIs(v)
  BY DEF TransferInv
<1>2. /\ obj' = obj /\ held' = held /\ req' = req /\ reply' = reply /\ xfer' = xfer /\ snap' = snap /\ torn' = torn
      /\ segmented' = segmented /\ frags' = frags /\ fragsleft' = fragsleft /\ data' = data /\ target' = target
      /\ caFlag' = caFlag /\ mbxdata' = mbxdata
  BY DEF transferVars
<1>3. TransferTyped'
  BY <1>1, <1>2 DEF TransferTyped
<1>4. ASSUME xfer.op = "up" PROVE UploadIs'
  <2>1. ASSUME NEW n PROVE Reading(n) => Reading(n)'
    BY <1>2 DEF Reading
  <2>2. ASSUME NEW d PROVE Beginning(d) => Beginning(d)'
    BY <1>2 DEF Beginning, Firm
  <2>3. UpAsked => UpAsked'
    BY <1>2 DEF UpAsked
  <2>4. UpFirst => UpFirst'
    BY <1>2, <2>1, <2>2 DEF UpFirst
  <2>5. UpNext => UpNext'
    BY <1>2, <2>1, <2>2 DEF UpNext
  <2>6. UpSegment => UpSegment'
    BY <1>2, <2>1, <2>2 DEF UpSegment
  <2>7. Unanswered => Unanswered'
    BY <1>2 DEF Unanswered
  <2> QED
    BY <1>1, <1>2, <1>4, <2>3, <2>4, <2>5, <2>6, <2>7 DEF UploadIs
<1>5. ASSUME xfer.op = "down" PROVE (\E v \in 0 .. MaxValues : DownloadIs(v))'
  <2>1. PICK v \in 0 .. MaxValues : DownloadIs(v)
    BY <1>1, <1>5
  <2>2. DownloadIs(v)'
    BY <2>1, <1>2
       DEF DownloadIs, DownAsked, DownHeld, DownDone, DownNext, Unanswered, Writing, Stored
  <2> QED
    BY <2>2
<1> QED
  BY <1>2, <1>3, <1>4, <1>5 DEF TransferInv

LEMMA ListStep ==
  ASSUME SdoInv, req.kind = "list", SDO_getodlist, req' = Nothing, UNCHANGED <<xfer, values>>
  PROVE  SdoInv'
<1>1. ObjectsInv /\ CaObjectsWhole /\ TransferInv
  BY DEF SdoInv
<1>2. UNCHANGED <<xfer, values, obj, mbxdata, held, drops, snap, torn>>
  BY DEF SDO_getodlist
<1>3. CASE xfer.phase = "running"
  <2>1. xfer.op = "up" \/ xfer.op = "down"
    BY <1>1, <1>3 DEF TransferInv, TransferTyped
  <2>2. req # Nothing /\ req # [kind |-> "useg"] /\ req # [kind |-> "upload", obj |-> xfer.obj]
    BY DEF Nothing
  <2>3. ~UploadIs
    BY <2>2 DEF UploadIs, UpAsked, UpFirst, UpNext, UpSegment, Unanswered
  <2>4. ASSUME NEW v \in 0 .. MaxValues, DownloadIs(v) PROVE FALSE
    BY <2>2, <2>4 DEF DownloadIs, DownAsked, DownHeld, DownDone, DownNext, Unanswered
  <2> QED
    BY <1>1, <1>3, <2>1, <2>3, <2>4 DEF TransferInv
<1>4. CASE xfer.phase # "running"
  <2>1. TransferInv'
    BY <1>1, <1>2, <1>4, Finished DEF Nothing
  <2>2. ObjectsInv' /\ CaObjectsWhole'
    BY <1>1, <1>2 DEF ObjectsInv, CaObjectsWhole
  <2> QED
    BY <2>1, <2>2 DEF SdoInv
<1> QED
  BY <1>3, <1>4

LEMMA ProcessStep ==
  ASSUME SdoInv, ESC_coeprocess PROVE SdoInv'
<1>1. Dispatch /\ req' = Nothing /\ UNCHANGED <<al, xfer, values>>
  BY DEF ESC_coeprocess, masterVars
<1>2. CASE req.kind = "upload" /\ \E hook \in Hooks(req.obj) : SDO_upload(req.obj, hook)
  BY <1>1, <1>2, UploadStep
<1>3. CASE req.kind = "useg" /\ \E hook \in Hooks(xfer.obj) : SDO_uploadsegment(hook)
  BY <1>1, <1>3, SegmentStep
<1>4. CASE /\ req.kind = "download"
           /\ \E hook \in Hooks(req.obj) :
                IF req.obj \in ByCA THEN SDO_download_complete_access(req.obj, req.size, req.data, hook)
                ELSE SDO_download(req.obj, req.size, req.data, hook)
  <2>1. CASE req.obj \in ByCA
    BY <1>1, <1>4, <2>1, DownloadCaStep
  <2>2. CASE req.obj \notin ByCA
    BY <1>1, <1>4, <2>2, DownloadStep
  <2> QED
    BY <2>1, <2>2
<1>5. CASE req.kind = "dseg" /\ \E hook \in Hooks(target) : SDO_downloadsegment(req.data, req.last, hook)
  <2>1. CASE xfer.obj \in ByCA
    BY <1>1, <1>5, <2>1, StagedStep
  <2>2. CASE xfer.obj \notin ByCA
    BY <1>1, <1>5, <2>2, DirectStep
  <2> QED
    BY <2>1, <2>2
<1>6. CASE req.kind = "list" /\ SDO_getodlist
  BY <1>1, <1>6, ListStep
<1> QED
  BY <1>1, <1>2, <1>3, <1>4, <1>5, <1>6 DEF Dispatch

LEMMA NoBufferStep ==
  ASSUME SdoInv, NoBuffer PROVE SdoInv'
<1>1. ObjectsInv /\ CaObjectsWhole /\ TransferInv
  BY DEF SdoInv
<1>2. /\ req.kind \notin {"none", "list"} /\ req' = Nothing /\ drops' \in Nat
      /\ UNCHANGED <<obj, mbxdata, held, reply, xfer, values, torn>>
  BY <1>1 DEF NoBuffer, Scarce, ObjectsInv, masterVars, transferVars
<1>3. xfer.phase = "running" /\ TransferTyped
  BY <1>2, Asking
<1>4. xfer.op = "up" \/ \E v \in 0 .. MaxValues : DownloadIs(v)
  BY <1>1, <1>3 DEF TransferInv, TransferTyped
<1>5. reply = Nothing /\ held = None
  <2>1. req # Nothing
    BY <1>2 DEF Nothing
  <2>2. CASE xfer.op = "up"
    BY <1>1, <1>3, <2>1, <2>2 DEF TransferInv, UploadIs, UpAsked, UpFirst, UpNext, UpSegment, Unanswered
  <2>3. CASE xfer.op # "up"
    BY <1>1, <1>3, <1>4, <2>1, <2>3 DEF TransferInv, DownloadIs, DownAsked, DownHeld, DownDone, DownNext, Unanswered
  <2> QED
    BY <2>2, <2>3
<1>6. TransferInv'
  BY <1>2, <1>3, <1>4, <1>5, NotAnswered
<1>7. ObjectsInv' /\ CaObjectsWhole'
  BY <1>1, <1>2 DEF ObjectsInv, CaObjectsWhole
<1> QED
  BY <1>6, <1>7 DEF SdoInv

LEMMA CompleteStep ==
  ASSUME SdoInv, ESC_SDO_complete PROVE SdoInv'
<1>1. ObjectsInv /\ CaObjectsWhole /\ TransferInv
  BY DEF SdoInv
<1>2. /\ held # None /\ held' = None /\ drops' \in Nat /\ reply' \in {Nothing, Done, Abort}
      /\ UNCHANGED <<obj, transferVars, req, xfer, values, snap, torn>>
  BY <1>1 DEF ESC_SDO_complete, masterVars, Answered, Scarce, ObjectsInv
<1>3. xfer.phase = "running" /\ TransferTyped /\ xfer.op = "down"
  BY <1>1, <1>2 DEF TransferInv, TransferTyped, UploadIs
<1>4. PICK v \in 0 .. MaxValues : DownloadIs(v)
  BY <1>1, <1>3 DEF TransferInv
<1>5. DownHeld
  BY <1>2, <1>4 DEF DownloadIs, DownAsked, DownDone, DownNext
<1>6. CASE reply' = Done
  <2>1. DownDone(v)'
    BY <1>2, <1>5, <1>6 DEF DownDone, DownHeld, Stored
  <2> QED
    BY <1>2, <1>3, <1>4, <2>1, DownloadedIs, <1>1 DEF SdoInv, ObjectsInv, CaObjectsWhole, transferVars
<1>7. CASE reply' \in {Nothing, Abort}
  <2>1. req' = Nothing
    BY <1>2, <1>5 DEF DownHeld
  <2>2. TransferInv'
    BY <1>2, <1>3, <1>4, <1>7, <2>1, NotAnswered
  <2>3. ObjectsInv' /\ CaObjectsWhole'
    BY <1>1, <1>2 DEF ObjectsInv, CaObjectsWhole, transferVars
  <2> QED
    BY <2>2, <2>3 DEF SdoInv
<1> QED
  BY <1>2, <1>6, <1>7
-----------------------------------------------------------------------------
(* The master and the application.                                         *)

LEMMA StartUpload ==
  ASSUME SdoInv, NEW o \in Objects, Upload(o) PROVE SdoInv'
<1>1. ObjectsInv /\ CaObjectsWhole /\ TransferInv
  BY DEF SdoInv
<1>2. /\ req' = [kind |-> "upload", obj |-> o] /\ reply' = Nothing /\ held' = None
      /\ UNCHANGED <<obj, mbxdata, torn, drops, values>>
  BY DEF Upload, Quiet, MasterOnly, transferVars
<1>3. /\ xfer'.phase = "running" /\ xfer'.op = "up" /\ xfer'.obj = o
      /\ xfer'.size = 0 /\ xfer'.sent = 0 /\ xfer'.data = <<>>
      /\ DOMAIN xfer' = {"phase", "op", "obj", "size", "data", "sent"}
  BY DEF Upload, Idle
<1>4. <<>> \in Seq(Units) /\ 0 \in Nat
  OBVIOUS
<1>5. TransferTyped'
  BY <1>3, <1>4 DEF TransferTyped
<1>6. UploadIs'
  BY <1>2, <1>3 DEF UploadIs, UpAsked
<1>7. TransferInv'
  BY <1>3, <1>5, <1>6 DEF TransferInv
<1>8. ObjectsInv' /\ CaObjectsWhole'
  BY <1>1, <1>2 DEF ObjectsInv, CaObjectsWhole
<1> QED
  BY <1>7, <1>8 DEF SdoInv

LEMMA StartDownload ==
  ASSUME SdoInv, NEW o \in Objects, NEW n \in Sizes(o), Download(o, n) PROVE SdoInv'
<1> DEFINE first == Least(n, InitRoom)  v == values'  d == Value(v, n)  f == Value(v, first)
<1>1. ObjectsInv /\ CaObjectsWhole /\ TransferInv
  BY DEF SdoInv
<1>2. /\ xfer' = [phase |-> "running", op |-> "down", obj |-> o, size |-> n, data |-> d, sent |-> first]
      /\ req' = [kind |-> "download", obj |-> o, size |-> n, data |-> f]
      /\ reply' = Nothing /\ held' = None /\ UNCHANGED <<obj, mbxdata, torn, drops>>
  BY DEF Download, Quiet, MasterOnly, transferVars
<1>3. v = values + 1 /\ v \in 0 .. MaxValues /\ v \in Int
  BY <1>1, Constants DEF Download, ObjectsInv
<1>4. n \in Nat /\ InitRoom \in Nat
  BY Constants DEF Sizes
<1>5. first \in Nat /\ first <= n
  BY <1>4, LeastIs
<1>6. d \in Seq(Units)
  BY <1>3, <1>4, ValueTyped
<1>7. /\ xfer'.phase = "running" /\ xfer'.op = "down" /\ xfer'.obj = o
      /\ xfer'.size = n /\ xfer'.sent = first /\ xfer'.data = d
      /\ DOMAIN xfer' = {"phase", "op", "obj", "size", "data", "sent"}
  BY <1>2
<1>8. TransferTyped'
  BY <1>4, <1>5, <1>6, <1>7 DEF TransferTyped
<1>9. \E w \in 0 .. MaxValues : w = v
  BY <1>3
<1>10. PICK w \in 0 .. MaxValues : w = v
  BY <1>9
<1>11. DownAsked(w)'
  BY <1>2, <1>7, <1>10 DEF DownAsked
<1>12. xfer'.data = Value(w, xfer'.size) /\ xfer'.sent <= xfer'.size
  BY <1>5, <1>7, <1>10
<1>13. DownloadIs(w)'
  BY <1>11, <1>12 DEF DownloadIs
<1>14. (\E u \in 0 .. MaxValues : DownloadIs(u))'
  BY <1>13
<1>15. TransferInv'
  BY <1>7, <1>8, <1>14 DEF TransferInv
<1>16. ObjectsInv' /\ CaObjectsWhole'
  BY <1>1, <1>2, <1>3 DEF ObjectsInv, CaObjectsWhole
<1> QED
  BY <1>15, <1>16 DEF SdoInv

LEMMA GetListStep ==
  ASSUME SdoInv, GetList PROVE SdoInv'
<1>1. ObjectsInv /\ CaObjectsWhole /\ TransferInv
  BY DEF SdoInv
<1>2. /\ xfer.phase # "running" /\ req'.kind = "list"
      /\ UNCHANGED <<obj, mbxdata, torn, drops, values, snap, held, xfer>>
  BY DEF GetList, MasterOnly, transferVars
<1>3. TransferInv'
  BY <1>1, <1>2, Finished
<1>4. ObjectsInv' /\ CaObjectsWhole'
  BY <1>1, <1>2 DEF ObjectsInv, CaObjectsWhole
<1> QED
  BY <1>3, <1>4 DEF SdoInv

LEMMA AbandonStep ==
  ASSUME SdoInv, Abandon PROVE SdoInv'
<1>1. ObjectsInv /\ CaObjectsWhole /\ TransferInv
  BY DEF SdoInv
<1>2. /\ xfer.phase = "running" /\ req' = Nothing /\ held' = None /\ xfer' = [xfer EXCEPT !.phase = "given up"]
      /\ UNCHANGED <<obj, mbxdata, torn, drops, values>>
  BY DEF Abandon, MasterOnly, transferVars
<1>3. TransferTyped
  BY <1>1, <1>2 DEF TransferInv
<1>4. xfer'.phase = "given up"
  BY <1>2, <1>3 DEF TransferTyped
<1>5. TransferInv'
  BY <1>2, <1>4 DEF TransferInv, Nothing
<1>6. ObjectsInv' /\ CaObjectsWhole'
  BY <1>1, <1>2 DEF ObjectsInv, CaObjectsWhole
<1> QED
  BY <1>5, <1>6 DEF SdoInv

LEMMA ControlStep ==
  ASSUME SdoInv, UNCHANGED <<obj, transferVars, held, req, reply, masterVars, snap, torn, drops>> PROVE SdoInv'
<1>1. TransferInv'
  BY Unmoved DEF SdoInv, masterVars
<1>2. ObjectsInv' /\ CaObjectsWhole'
  BY DEF SdoInv, ObjectsInv, CaObjectsWhole, masterVars, transferVars
<1> QED
  BY <1>1, <1>2 DEF SdoInv

\* The application writes an object of its own, which may be the one of the transfer.
LEMMA AppWriteStep ==
  ASSUME SdoInv, NEW o \in Objects, AppWrite(o) PROVE SdoInv'
<1> DEFINE v == values'  s == Value(v, Size[o])
<1>1. ObjectsInv /\ CaObjectsWhole /\ TransferInv
  BY DEF SdoInv
<1>2. /\ obj' = [obj EXCEPT ![o] = s] /\ torn' = (torn \/ o = xfer.obj)
      /\ UNCHANGED <<transferVars, held, req, reply, xfer, snap, drops>>
  BY DEF AppWrite
<1>3. v = values + 1 /\ v \in 0 .. MaxValues /\ v \in Int /\ Size[o] \in Nat
  BY <1>1, Constants DEF AppWrite, ObjectsInv
<1>4. s \in Seq(Units) /\ Len(s) = Size[o] /\ Placed(s, 0)
  BY <1>3, ValueTyped
<1>5. /\ obj' \in [Objects -> Seq(Units)]
      /\ \A p \in Objects : Len(obj'[p]) = Size[p] /\ Placed(obj'[p], 0)
      /\ obj'[o] = s /\ \A p \in Objects : p # o => obj'[p] = obj[p]
  <2> HIDE DEF s
  <2> QED
    BY <1>1, <1>2, <1>4, OneObject
<1>6. torn' \in BOOLEAN /\ (torn => torn')
  BY <1>1, <1>2 DEF ObjectsInv
<1>7. ObjectsInv'
  BY <1>1, <1>2, <1>3, <1>5, <1>6 DEF ObjectsInv, transferVars
<1>8. CaObjectsWhole'
  <2>1. ASSUME NEW p \in ByCA PROVE \E w \in 0 .. MaxValues : obj'[p] = Value(w, Size[p])
    <3>1. CASE p = o
      BY <1>3, <1>5, <3>1
    <3>2. CASE p # o
      BY <1>1, <1>5, <3>2, Constants DEF CaObjectsWhole
    <3> QED
      BY <3>1, <3>2
  <2> QED
    BY <2>1 DEF CaObjectsWhole
<1>9. xfer.obj \in Objects /\ ~torn' => ~torn /\ obj'[xfer.obj] = obj[xfer.obj]
  BY <1>2, <1>5
<1>10. /\ held' = held /\ req' = req /\ reply' = reply /\ xfer' = xfer /\ snap' = snap
       /\ segmented' = segmented /\ frags' = frags /\ fragsleft' = fragsleft /\ data' = data /\ target' = target
       /\ caFlag' = caFlag /\ mbxdata' = mbxdata
  BY <1>2 DEF transferVars
<1>11. ASSUME NEW d PROVE Beginning(d) => Beginning(d)'
  BY <1>6, <1>10 DEF Beginning, Firm
<1>12. xfer.obj \in Objects /\ Stored => Stored'
  BY <1>9, <1>10 DEF Stored
<1>13. TransferInv'
  <2>1. CASE xfer.phase # "running"
    <3>1. ASSUME xfer.phase = "done"
          PROVE  (/\ xfer.obj \in Objects
                  /\ xfer.op = "up" => Beginning(xfer.data) /\ Len(xfer.data) = Size[xfer.obj]
                  /\ xfer.op = "down" => Stored)'
      <4>1. /\ xfer.obj \in Objects
            /\ xfer.op = "up" => Beginning(xfer.data) /\ Len(xfer.data) = Size[xfer.obj]
            /\ xfer.op = "down" => Stored
        BY <1>1, <3>1 DEF TransferInv
      <4> QED
        BY <4>1, <1>10, <1>11, <1>12
    <3> QED
      BY <1>1, <1>10, <2>1, <3>1 DEF TransferInv
  <2>2. CASE xfer.phase = "running"
    <3>1. /\ TransferTyped /\ (xfer.op = "up" => UploadIs)
          /\ xfer.op = "down" => \E w \in 0 .. MaxValues : DownloadIs(w)
      BY <1>1, <2>2 DEF TransferInv
    <3>2. TransferTyped' /\ xfer.obj \in Objects
      BY <1>10, <3>1 DEF TransferTyped
    <3>3. ASSUME NEW n PROVE Reading(n) => Reading(n)'
      BY <1>9, <1>10, <3>2 DEF Reading
    <3>4. ASSUME xfer.op = "up" PROVE UploadIs'
      <4>1. UpAsked => UpAsked'
        BY <1>10 DEF UpAsked
      <4>2. UpFirst => UpFirst'
        BY <1>10, <1>11, <3>3 DEF UpFirst
      <4>3. UpNext => UpNext'
        BY <1>10, <1>11, <3>3 DEF UpNext
      <4>4. UpSegment => UpSegment'
        BY <1>10, <1>11, <3>3 DEF UpSegment
      <4>5. Unanswered => Unanswered'
        BY <1>10 DEF Unanswered
      <4> QED
        BY <1>10, <3>1, <3>4, <4>1, <4>2, <4>3, <4>4, <4>5 DEF UploadIs
    <3>5. ASSUME NEW w, NEW m PROVE Writing(w, m) => Writing(w, m)'
      BY <1>9, <1>10, <3>2 DEF Writing
    <3>6. ASSUME xfer.op = "down" PROVE (\E w \in 0 .. MaxValues : DownloadIs(w))'
      <4>1. PICK w \in 0 .. MaxValues : DownloadIs(w)
        BY <3>1, <3>6
      <4>2. DownAsked(w) => DownAsked(w)'
        BY <1>10 DEF DownAsked
      <4>3. DownHeld => DownHeld'
        BY <1>10 DEF DownHeld
      <4>4. DownDone(w) => DownDone(w)'
        BY <1>10, <1>12, <3>2, <3>5 DEF DownDone
      <4>5. DownNext(w) => DownNext(w)'
        BY <1>10, <3>5 DEF DownNext
      <4>6. Unanswered => Unanswered'
        BY <1>10 DEF Unanswered
      <4>7. DownloadIs(w)'
        BY <1>10, <4>1, <4>2, <4>3, <4>4, <4>5, <4>6 DEF DownloadIs
      <4> QED
        BY <4>7
    <3> QED
      BY <1>10, <2>2, <3>2, <3>4, <3>6 DEF TransferInv
  <2> QED
    BY <2>1, <2>2
<1> QED
  BY <1>7, <1>8, <1>13 DEF SdoInv
\* A reply in the mailbox while a transfer runs is its own.
LEMMA Replied ==
  ASSUME SdoInv, xfer.phase = "running", reply # Nothing
  PROVE  /\ TransferTyped /\ req = Nothing /\ held = None
         /\ xfer.op = "up" => UpFirst \/ UpSegment \/ reply = Abort
         /\ xfer.op = "down" => \E v \in 0 .. MaxValues : DownloadIs(v) /\ (DownDone(v) \/ reply = Abort)
<1>1. /\ TransferTyped /\ (xfer.op = "up" => UploadIs) /\ xfer.op \in {"up", "down"}
      /\ xfer.op = "down" => \E v \in 0 .. MaxValues : DownloadIs(v)
  BY DEF SdoInv, TransferInv, TransferTyped
<1>2. CASE xfer.op = "up"
  BY <1>1, <1>2 DEF UploadIs, UpAsked, UpFirst, UpNext, UpSegment, Unanswered
<1>3. CASE xfer.op = "down"
  <2>1. PICK v \in 0 .. MaxValues : DownloadIs(v)
    BY <1>1, <1>3
  <2>2. req = Nothing /\ held = None /\ (DownDone(v) \/ reply = Abort)
    BY <2>1 DEF DownloadIs, DownAsked, DownHeld, DownDone, DownNext, Unanswered
  <2> QED
    BY <1>1, <1>3, <2>1, <2>2
<1> QED
  BY <1>1, <1>2, <1>3

LEMMA SendMoreStep ==
  ASSUME SdoInv, xfer.phase = "running", reply # Nothing, reply.kind = "done", reply' = Nothing, SendMore,
         MasterOnly
  PROVE  TransferInv'
<1> DEFINE n == Least(xfer.size - xfer.sent, SegRoom)
<1>1. TransferTyped /\ held = None
  BY Replied
<1>2. xfer.op = "down"
  <2>1. CASE xfer.op = "up"
    BY <2>1, Replied DEF UpFirst, UpSegment, Abort
  <2> QED
    BY <1>1, <2>1 DEF TransferTyped
<1>3. PICK v \in 0 .. MaxValues : DownloadIs(v) /\ DownDone(v)
  BY <1>2, Replied DEF Abort
<1>4. xfer.size \in Nat /\ xfer.sent \in Nat /\ xfer.sent <= xfer.size /\ xfer.data = Value(v, xfer.size)
  BY <1>1, <1>3 DEF TransferTyped, DownloadIs
<1>5. SegRoom \in Nat /\ SegRoom > 0
  BY Constants
<1>6. /\ n \in Nat /\ n <= SegRoom /\ xfer.sent + n <= xfer.size /\ (n = 0 <=> xfer.sent = xfer.size)
  BY <1>4, <1>5 DEF Least
<1>7. /\ UNCHANGED <<obj, held, snap, torn, segmented, frags, fragsleft, data, target, caFlag, mbxdata>>
  BY DEF MasterOnly, transferVars
<1> HIDE DEF n
<1>8. CASE n = 0
  <2>1. xfer' = [xfer EXCEPT !.phase = "done"] /\ req' = Nothing
    BY <1>8 DEF SendMore, n
  <2>2. /\ xfer'.phase = "done" /\ xfer'.op = "down" /\ xfer'.obj = xfer.obj /\ xfer'.size = xfer.size
        /\ xfer'.data = xfer.data
    BY <1>1, <1>2, <2>1 DEF TransferTyped
  <2>3. Stored
    BY <1>3, <1>6, <1>8 DEF DownDone
  <2>4. Stored'
    BY <1>7, <2>2, <2>3 DEF Stored
  <2> QED
    BY <1>1, <1>7, <2>1, <2>2, <2>4 DEF TransferInv, TransferTyped, Nothing
<1>9. CASE n # 0
  <2>1. /\ xfer' = [xfer EXCEPT !.sent = @ + n]
        /\ \E last \in BOOLEAN :
             /\ xfer.sent + n = xfer.size => last
             /\ last => xfer.sent + n = xfer.size \/ xfer.obj \in ByCA
             /\ req' = [kind |-> "dseg", data |-> Part(xfer.data, xfer.sent, n), last |-> last]
    BY <1>9 DEF SendMore, n
  <2>2. /\ xfer'.phase = "running" /\ xfer'.op = "down" /\ xfer'.obj = xfer.obj /\ xfer'.size = xfer.size
        /\ xfer'.data = xfer.data /\ xfer'.sent = xfer.sent + n /\ DOMAIN xfer' = DOMAIN xfer
    BY <1>1, <1>2, <2>1 DEF TransferTyped
  <2>3. /\ req'.kind = "dseg" /\ req'.data = Part(xfer.data, xfer.sent, n)
        /\ xfer.sent + n = xfer.size => req'.last
        /\ req'.last => xfer.sent + n = xfer.size \/ xfer.obj \in ByCA
    BY <2>1
  <2>4. xfer'.sent - n = xfer.sent /\ n <= xfer'.sent /\ n \in 1 .. SegRoom /\ xfer'.sent \in Nat
        /\ xfer'.sent <= xfer.size
    BY <1>4, <1>5, <1>6, <1>9, <2>2
  <2>5. Writing(v, xfer.sent)
    BY <1>3, <1>6, <1>9 DEF DownDone
  <2>6. PICK m \in Nat : m = xfer.sent
    BY <1>4
  <2>7. Writing(v, m)'
    BY <1>7, <2>2, <2>5, <2>6 DEF Writing
  <2>8. xfer'.sent - n = m
    BY <2>4, <2>6
  <2>9. (\E k \in 1 .. SegRoom : /\ k <= xfer.sent /\ req.data = Part(Value(v, xfer.size), xfer.sent - k, k)
                                 /\ Writing(v, xfer.sent - k))'
    <3>1. Part(xfer.data, xfer.sent, n) = Part(Value(v, xfer.size), m, n)
      BY <1>4, <2>6
    <3>2. req'.data = Part(Value(v, xfer'.size), xfer'.sent - n, n)
      BY <2>2, <2>3, <2>8, <3>1
    <3>3. PICK k \in 1 .. SegRoom : k = n
      BY <2>4
    <3>4. (k <= xfer.sent /\ req.data = Part(Value(v, xfer.size), xfer.sent - k, k))'
      BY <2>4, <3>2, <3>3
    <3>5. (xfer.sent - k)' = m
      BY <2>8, <3>3
    <3>6. Writing(v, xfer.sent - k)'
      BY <2>7, <3>5 DEF Writing
    <3> QED
      BY <3>4, <3>6
  <2>10. DownNext(v)'
    BY <1>1, <1>7, <2>2, <2>3, <2>9 DEF DownNext
  <2>11. DownloadIs(v)'
    BY <1>4, <2>2, <2>4, <2>10 DEF DownloadIs
  <2>12. (\E w \in 0 .. MaxValues : DownloadIs(w))'
    BY <2>11
  <2>13. TransferTyped'
    BY <1>1, <2>2, <2>4 DEF TransferTyped
  <2> QED
    BY <2>2, <2>12, <2>13 DEF TransferInv
<1> QED
  BY <1>8, <1>9

LEMMA ReceivedStep ==
  ASSUME SdoInv, xfer.phase = "running", reply # Nothing, reply.kind \notin {"done", "abort"}, reply' = Nothing,
         Received(reply), MasterOnly
  PROVE  TransferInv'
<1> DEFINE all == IF reply.kind = "first" THEN reply.data ELSE xfer.data \o reply.data
           size == IF reply.kind = "first" THEN reply.size ELSE xfer.size
           end == IF reply.kind = "first" THEN Len(reply.data) >= reply.size ELSE reply.last
<1>1. TransferTyped /\ held = None
  BY Replied
<1>2. xfer.op = "up"
  <2>1. CASE xfer.op = "down"
    BY <2>1, Replied DEF DownDone, Done, Abort
  <2> QED
    BY <1>1, <2>1 DEF TransferTyped
<1>3. UpFirst \/ UpSegment
  BY <1>2, Replied DEF Abort
<1>4. xfer.obj \in Objects /\ Size[xfer.obj] \in Nat
  BY <1>1, Constants DEF TransferTyped
<1>5. /\ size = Size[xfer.obj] /\ Beginning(all)
      /\ end => Len(all) = Size[xfer.obj]
      /\ ~end => Reading(Len(all))
  <2>1. CASE UpFirst
    <3>1. /\ reply.kind = "first" /\ reply.size = Size[xfer.obj] /\ Beginning(reply.data)
          /\ Len(reply.data) < Size[xfer.obj] => Reading(Len(reply.data))
      BY <2>1 DEF UpFirst
    <3>2. Len(reply.data) \in Nat /\ Len(reply.data) <= Size[xfer.obj]
      BY <3>1, SequenceIs DEF Beginning
    <3> QED
      BY <1>4, <3>1, <3>2
  <2>2. CASE UpSegment
    BY <2>2 DEF UpSegment
  <2> QED
    BY <1>3, <2>1, <2>2
<1>6. /\ xfer' = [xfer EXCEPT !.data = all, !.size = size, !.phase = IF end THEN "done" ELSE @]
      /\ req' = IF end THEN Nothing ELSE [kind |-> "useg"]
  <2>1. CASE end
    BY <1>1, <2>1 DEF Received, TransferTyped
  <2>2. CASE ~end
    BY <1>1, <2>2 DEF Received, TransferTyped
  <2> QED
    BY <2>1, <2>2
<1> HIDE DEF all, size, end
<1>7. /\ xfer'.op = "up" /\ xfer'.obj = xfer.obj /\ xfer'.data = all /\ xfer'.size = Size[xfer.obj]
      /\ xfer'.sent = xfer.sent /\ DOMAIN xfer' = DOMAIN xfer
      /\ xfer'.phase = IF end THEN "done" ELSE "running"
  BY <1>1, <1>2, <1>5, <1>6 DEF TransferTyped
<1>8. UNCHANGED <<obj, held, snap, torn, segmented, frags, fragsleft, data, target, caFlag, mbxdata>>
  BY DEF MasterOnly, transferVars
<1>9. PICK d \in Seq(Units) : d = all
  BY <1>5 DEF Beginning
<1>10. Beginning(d)'
  BY <1>5, <1>7, <1>8, <1>9 DEF Beginning, Firm
<1>11. Beginning(xfer.data)'
  BY <1>7, <1>9, <1>10 DEF Beginning, Firm
<1>12. CASE end
  BY <1>1, <1>4, <1>5, <1>6, <1>7, <1>8, <1>11, <1>12 DEF TransferInv, Nothing
<1>13. CASE ~end
  <2>1. PICK m \in Nat : m = Len(all)
    BY <1>9, LenProperties
  <2>2. Reading(m)'
    BY <1>5, <1>7, <1>8, <1>13, <2>1 DEF Reading
  <2>3. Reading(Len(xfer.data))'
    BY <1>7, <2>1, <2>2 DEF Reading
  <2>4. UpNext'
    BY <1>6, <1>7, <1>11, <1>13, <2>3 DEF UpNext
  <2>5. UploadIs'
    BY <1>1, <1>8, <2>4 DEF UploadIs
  <2>6. TransferTyped'
    BY <1>1, <1>4, <1>7, <1>9 DEF TransferTyped
  <2> QED
    BY <1>7, <1>13, <2>5, <2>6 DEF TransferInv
<1> QED
  BY <1>12, <1>13

LEMMA TakeReplyStep ==
  ASSUME SdoInv, TakeReply PROVE SdoInv'
<1>1. ObjectsInv /\ CaObjectsWhole /\ TransferInv
  BY DEF SdoInv
<1>2. reply # Nothing /\ reply' = Nothing /\ MasterOnly /\ values' = values
  BY DEF TakeReply
<1>3. UNCHANGED <<obj, mbxdata, torn, drops, values, snap, held>>
  BY <1>2 DEF MasterOnly, transferVars
<1>4. TransferInv'
  <2>1. CASE xfer.phase # "running"
    <3>1. UNCHANGED <<xfer, req>> /\ req.kind \in {"none", "list"}
      BY <1>1, <2>1 DEF TakeReply, TransferInv
    <3> QED
      BY <1>1, <1>3, <2>1, <3>1, Finished
  <2>2. CASE xfer.phase = "running" /\ reply.kind = "abort"
    <3>1. TransferTyped /\ req = Nothing /\ held = None
      BY <1>2, <2>2, Replied
    <3>2. xfer' = [xfer EXCEPT !.phase = "aborted"] /\ req' = Nothing /\ held' = None
      BY <1>3, <2>2, <3>1 DEF TakeReply
    <3>3. xfer'.phase = "aborted"
      BY <3>1, <3>2 DEF TransferTyped
    <3> QED
      BY <3>2, <3>3 DEF TransferInv, Nothing
  <2>3. CASE xfer.phase = "running" /\ reply.kind = "done"
    <3>1. SendMore
      BY <2>3 DEF TakeReply
    <3> QED
      BY <1>2, <2>3, <3>1, SendMoreStep
  <2>4. CASE xfer.phase = "running" /\ reply.kind \notin {"abort", "done"}
    <3>1. Received(reply)
      BY <2>4 DEF TakeReply
    <3> QED
      BY <1>2, <2>4, <3>1, ReceivedStep
  <2> QED
    BY <2>1, <2>2, <2>3, <2>4
<1>5. ObjectsInv' /\ CaObjectsWhole'
  BY <1>1, <1>3 DEF ObjectsInv, CaObjectsWhole
<1> QED
  BY <1>4, <1>5 DEF SdoInv

-----------------------------------------------------------------------------
LEMMA SdoInit == Init => SdoInv
<1> SUFFICES ASSUME Init PROVE SdoInv
  OBVIOUS
<1>1. 0 \in 0 .. MaxValues /\ 0 \in Int /\ 0 \in Nat /\ BufferSize \in Nat
  BY Constants
<1>2. ASSUME NEW o \in Objects
      PROVE  Value(0, Size[o]) \in Seq(Units) /\ Len(Value(0, Size[o])) = Size[o] /\ Placed(Value(0, Size[o]), 0)
  <2>1. Size[o] \in Nat
    BY Constants
  <2> QED
    BY <1>1, <2>1, ValueTyped
<1>3. Value(0, BufferSize) \in Seq(Units) /\ Len(Value(0, BufferSize)) = BufferSize
  BY <1>1, ValueTyped
<1>4. /\ \A o \in Objects : obj[o] = Value(0, Size[o])
      /\ obj = [o \in Objects |-> Value(0, Size[o])]
  BY DEF Init
<1>5. obj \in [Objects -> Seq(Units)]
  BY <1>2, <1>4
<1>6. ObjectsInv
  BY <1>1, <1>2, <1>3, <1>4, <1>5 DEF ObjectsInv, Init
<1>7. CaObjectsWhole
  BY <1>1, <1>4, Constants DEF CaObjectsWhole
<1>8. TransferInv
  BY DEF Init, Idle, TransferInv, Nothing
<1> QED
  BY <1>6, <1>7, <1>8 DEF SdoInv

LEMMA SdoNext == SdoInv /\ [Next]_vars => SdoInv'
<1> SUFFICES ASSUME SdoInv, [Next]_vars PROVE SdoInv'
  OBVIOUS
<1>1. CASE ESC_coeprocess
  BY <1>1, ProcessStep
<1>2. CASE NoBuffer
  BY <1>2, NoBufferStep
<1>3. CASE ESC_SDO_complete
  BY <1>3, CompleteStep
<1>4. ASSUME NEW o \in Objects, Upload(o) PROVE SdoInv'
  BY <1>4, StartUpload
<1>5. ASSUME NEW o \in Objects, AppWrite(o) PROVE SdoInv'
  BY <1>5, AppWriteStep
<1>6. ASSUME NEW o \in Objects, NEW n \in Sizes(o), Download(o, n) PROVE SdoInv'
  BY <1>6, StartDownload
<1>7. CASE GetList
  BY <1>7, GetListStep
<1>8. CASE TakeReply
  BY <1>8, TakeReplyStep
<1>9. CASE Abandon
  BY <1>9, AbandonStep
<1>10. CASE ALControl
  BY <1>10, ControlStep DEF ALControl
<1>11. CASE UNCHANGED vars
  BY <1>11, ControlStep DEF vars
<1> QED
  BY <1>1, <1>2, <1>3, <1>4, <1>5, <1>6, <1>7, <1>8, <1>9, <1>10, <1>11 DEF Next

LEMMA SdoInvariant == Spec => []SdoInv
  BY SdoInit, SdoNext, PTL DEF Spec

\* What the master has read in an upload that ended well is the object: every
\* unit in its place, and of one moment if it is accessed as a whole or nobody
\* wrote it meanwhile (SDO_upload, SDO_uploadsegment, ESCvar.mbxdata).
THEOREM UploadsAreTheObject == Spec => []UploadIsTheObject
<1>1. SdoInv => UploadIsTheObject
  <2> SUFFICES ASSUME SdoInv, xfer.phase = "done", xfer.op = "up"
               PROVE  /\ Len(xfer.data) = Size[xfer.obj]
                      /\ \A i \in 1 .. Size[xfer.obj] : xfer.data[i][2] = i
                      /\ (xfer.obj \in ByCA \/ ~torn) => xfer.data = snap
    BY DEF UploadIsTheObject
  <2>1. xfer.obj \in Objects /\ Beginning(xfer.data) /\ Len(xfer.data) = Size[xfer.obj]
    BY DEF SdoInv, TransferInv
  <2>2. /\ xfer.data \in Seq(Units) /\ snap \in Seq(Units) /\ Len(snap) = Len(xfer.data)
        /\ \A i \in 1 .. Size[xfer.obj] : xfer.data[i][2] = 0 + i
        /\ (xfer.obj \in ByCA \/ ~torn) => \A i \in 1 .. Len(xfer.data) : xfer.data[i] = snap[i]
    BY <2>1 DEF Beginning, Placed, Firm
  <2>3. \A i \in 1 .. Size[xfer.obj] : 0 + i = i
    BY <2>1, Constants
  <2>4. ASSUME xfer.obj \in ByCA \/ ~torn PROVE xfer.data = snap
    BY <2>2, <2>4, SeqEqual
  <2> QED
    BY <2>1, <2>2, <2>3, <2>4
<1> QED
  BY <1>1, SdoInvariant, PTL

\* What the master wrote in a download that ended well is in the object, and
\* the rest of a shorter string is zero, whatever transfers were given up
\* before (SDO_download, SDO_download_complete_access, SDO_downloadsegment).
THEOREM DownloadsAreStored == Spec => []DownloadStored
<1>1. SdoInv => DownloadStored
  <2> SUFFICES ASSUME SdoInv, xfer.phase = "done", xfer.op = "down", ~torn, xfer.obj \notin Holding,
                      xfer.obj \notin ByCA \cap PreopOnly
               PROVE  obj[xfer.obj] = [i \in 1 .. Size[xfer.obj] |->
                                         IF i > xfer.size THEN Unit(Zero, i) ELSE xfer.data[i]]
    BY DEF DownloadStored
  <2>1. xfer.obj \in Objects /\ Stored /\ ObjectsInv
    BY DEF SdoInv, TransferInv
  <2>2. /\ obj[xfer.obj] \in Seq(Units) /\ Len(obj[xfer.obj]) = Size[xfer.obj]
    BY <2>1, ObjectIs
  <2>3. DOMAIN obj[xfer.obj] = 1 .. Size[xfer.obj] /\ obj[xfer.obj] = [i \in DOMAIN obj[xfer.obj] |-> obj[xfer.obj][i]]
    BY <2>2, SequenceIs
  <2>4. \A i \in 1 .. Size[xfer.obj] :
          obj[xfer.obj][i] = IF i > xfer.size THEN Unit(Zero, i) ELSE xfer.data[i]
    BY <2>1 DEF Stored
  <2> QED
    BY <2>3, <2>4
<1> QED
  BY <1>1, SdoInvariant, PTL

\* An object accessed as a whole holds one value, never parts of two: it is
\* filled from the buffer when the last segment is in, and a download given up
\* half way has not touched it (complete_access_subindex_loop in SDO_downloadsegment).
THEOREM CaObjectsStayWhole == Spec => []CaObjectsWhole
<1>1. SdoInv => CaObjectsWhole
  BY DEF SdoInv
<1> QED
  BY <1>1, SdoInvariant, PTL
=============================================================================
