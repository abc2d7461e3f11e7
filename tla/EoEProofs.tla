----------------------------- MODULE EoEProofs -----------------------------
(***************************************************************************)
(* Proofs about EoE, for every value of the constants: no frame buffer is  *)
(* lost or given back twice, frames arrive whole, in order and once, and   *)
(* what the master was told is set it reads back.                          *)
(***************************************************************************)
EXTENDS EoE, SequenceTheorems, WellFoundedInduction, TLAPS

Blocks == Nat \X Nat

\* What the master sends of frame k.
Sent(k) == IF k \in Stamped THEN Append(Frame(k), Stamp) ELSE Frame(k)

-----------------------------------------------------------------------------
(* From the master to the device.                                          *)

\* The master: the frame it sends and how far it is.
SenderKnown ==
  /\ mtx \in [frame : Nat, fragno : Nat, offset : Nat, busy : BOOLEAN]
  /\ mtx.frame <= Len(Sizes)
  /\ mtx.busy => mtx.frame # 0 /\ mtx.fragno # 0 /\ mtx.offset # 0 /\ mtx.offset < Len(Sent(mtx.frame))

\* The fragment on its way belongs to the frame the master sends.
IsFragmentOf(r, k, at) ==
  /\ at \in Nat /\ Len(r.data) \in Nat /\ at + Len(r.data) <= Len(Sent(k))
  /\ r.data # <<>> /\ r.data = SubSeq(Sent(k), at + 1, at + Len(r.data))
  /\ r.last <=> at + Len(r.data) = Len(Sent(k))
  /\ r.fragno \in Nat /\ r.frameno = k % FrameNos /\ (r.stamp <=> k \in Stamped)
  /\ r.fragno = 0 => at = 0 /\ r.offset = Len(Sent(k))
  /\ r.fragno # 0 => at = r.offset

OnItsWay ==
  req.kind = "fragment" =>
    /\ mtx.frame # 0 /\ req.last = ~mtx.busy
    /\ \E at \in 0 .. Len(Sent(mtx.frame)) : IsFragmentOf(req, mtx.frame, at)

\* The frame as far as it has come is the first part of one the master has sent.
IsPartOf(k) ==
  /\ rxebuf # <<>> /\ Len(rxebuf) \in Nat /\ Len(rxebuf) < Len(Sent(k))
  /\ rxebuf = SubSeq(Sent(k), 1, Len(rxebuf))
  /\ rxframesize = Len(Sent(k)) /\ rxframeno = k % FrameNos

\* Every frame sent since has lost its first fragment in a restart, but for one on
\* its way now; a frame given up, or whose last fragment is lost, is one restart more.
Restarts(k) ==
  \/ k = mtx.frame /\ (mtx.busy \/ req.kind = "fragment")
  \/ req.kind = "fragment" /\ req.fragno = 0 /\ mtx.frame - k <= faults
  \/ mtx.frame - k < faults

Receiving ==
  /\ rxfragmentno \in Nat
  /\ rxfragmentno = 0 => rxebuf \in {<<>>, NULL}
  /\ rxfragmentno # 0 => \E k \in 1 .. mtx.frame : IsPartOf(k) /\ Restarts(k)

\* The device has the frame being sent not before its last fragment is read.
Delivered ==
  /\ WholeFrame(got) \in 0 .. mtx.frame
  /\ mtx.busy \/ req.kind = "fragment" => WholeFrame(got) < mtx.frame

FaultsCounted == faults \in 0 .. MaxFaults

SenderInv == SenderKnown /\ OnItsWay
DownInv   == SenderInv /\ Receiving /\ Delivered /\ FaultsCounted

-----------------------------------------------------------------------------
(* The device's frame buffers.                                             *)

InHand ==
  /\ queued \in 0 .. Len(Sizes)
  /\ queue = <<>> \/ (queue = <<queued>> /\ queued # 0)
  /\ txebuf \in Nat /\ (txebuf # None => txebuf = queued - Len(queue))
  /\ txfragmentno \in Nat /\ txframeoffset \in Nat
  /\ txfragmentno = 0 => txframeoffset = 0
  /\ txfragmentno # 0 => txebuf # None /\ txframeoffset # 0 /\ txframeoffset < Sizes[txebuf]

\* A buffer that is filled has not been given away.
BufferTyped ==
  /\ rxebuf = NULL \/ rxebuf \in Seq(Blocks)
  /\ rxebuf = NULL => rxfragmentno = 0
  /\ free \in Int /\ received \in Nat

BufferInv == InHand /\ BufferTyped /\ BuffersConserved

-----------------------------------------------------------------------------
(* From the device to the master.                                          *)

\* The frames of which a fragment has been sent, and the frame of the next fragment.
Started   == queued - Len(queue) - (IF txebuf # None /\ txfragmentno = 0 THEN 1 ELSE 0)
NextFrame == IF txfragmentno = 0 THEN Started + 1 ELSE Started
Numbered  == frameno = Started % FrameNos

Messages ==
  [kind : {"fragment"}, fragno : Nat, frameno : Int, offset : Nat, data : Seq(Blocks), last : BOOLEAN]
  \cup [kind : {"response"}, result : {"SUCCESS", "FAILED", "SIZETOOSHORT"}, value : Nat]
  \cup [kind : {"params"}, fields : SUBSET Fields, value : [Fields -> Nat]]

Waiting(i) == i \in 1 .. Len(replies) /\ replies[i].kind = "fragment"
FrameOf(r) == r.data[1][1]
PlaceOf(r) == r.data[1][2] - 1

\* A fragment that waits for the master.
WellCut(r) ==
  LET k == FrameOf(r)
  IN /\ k \in 1 .. queued /\ PlaceOf(r) \in Nat
     /\ r.data # <<>> /\ PlaceOf(r) + Len(r.data) <= Sizes[k]
     /\ r.data = SubSeq(Frame(k), PlaceOf(r) + 1, PlaceOf(r) + Len(r.data))
     /\ r.last <=> PlaceOf(r) + Len(r.data) = Sizes[k]
     /\ r.frameno = k % FrameNos
     /\ r.fragno = 0 => PlaceOf(r) = 0
     /\ r.fragno # 0 => PlaceOf(r) = r.offset

\* Fragment no of frame k comes after fragment r, or is a later one.
Follows(r, k, no) ==
  IF r.last THEN k = FrameOf(r) + 1 /\ no = 0 ELSE k = FrameOf(r) /\ no = r.fragno + 1
NotBefore(r, k) == IF r.last THEN FrameOf(r) < k ELSE FrameOf(r) <= k

\* The fragments that wait follow each other, and the next one to be sent follows them.
InSequence ==
  /\ \A i, j \in 1 .. Len(replies) : Waiting(i) /\ Waiting(j) /\ i < j =>
       /\ NotBefore(replies[i], FrameOf(replies[j]))
       /\ (\A h \in i + 1 .. j - 1 : ~Waiting(h)) => Follows(replies[i], FrameOf(replies[j]), replies[j].fragno)
  /\ \A i \in 1 .. Len(replies) : Waiting(i) =>
       /\ NotBefore(replies[i], NextFrame)
       /\ (\A h \in i + 1 .. Len(replies) : ~Waiting(h)) => Follows(replies[i], NextFrame, txfragmentno)

\* Each frame takes a buffer at least.
FramePlace(k, no) == IF no = 0 THEN k ELSE k + 1
TakesBuffers ==
  \A i \in 1 .. Len(replies) : Waiting(i) =>
    FramePlace(NextFrame, txfragmentno) - FrameOf(replies[i]) <= Len(replies) - i + 1

Queueing ==
  /\ Len(replies) <= Bufs
  /\ \A i \in 1 .. Len(replies) : Waiting(i) => WellCut(replies[i])

\* What the master has put together of frame k, and the fragment that reaches it
\* next: the one it waits for, or one after a loss.
IsPutTogether(k) ==
  /\ mrx.data # <<>> /\ Len(mrx.data) < Sizes[k] /\ mrx.data = SubSeq(Frame(k), 1, Len(mrx.data))
  /\ mrx.frameno = k % FrameNos

Expected(k, m, no) ==
  /\ m >= k
  /\ (m = k /\ no = mrx.fragno) \/ FramePlace(m, no) - k <= Bufs * faults

PuttingTogether ==
  /\ mrx.fragno \in Nat
  /\ mrx.fragno # 0 =>
       \E k \in 1 .. queued :
         /\ IsPutTogether(k)
         /\ \A i \in 1 .. Len(replies) : Waiting(i) /\ (\A h \in 1 .. i - 1 : ~Waiting(h)) =>
              Expected(k, FrameOf(replies[i]), replies[i].fragno)
         /\ (\A i \in 1 .. Len(replies) : ~Waiting(i)) => Expected(k, NextFrame, txfragmentno)

Taken ==
  /\ WholeFrame(mgot) \in 0 .. queued
  /\ \A i \in 1 .. Len(replies) : Waiting(i) => WholeFrame(mgot) < FrameOf(replies[i])
  /\ WholeFrame(mgot) < NextFrame

UpInv == Queueing /\ InSequence /\ TakesBuffers /\ PuttingTogether /\ Taken

-----------------------------------------------------------------------------
(* The settings.                                                           *)

Answers(i, v) == i \in 1 .. Len(replies) /\ replies[i].kind = "response"
                 /\ replies[i].result = "SUCCESS" /\ replies[i].value = v
ReadsBack(i, f) == replies[i].kind = "params" =>
                     f \in replies[i].fields /\ replies[i].value[f] = known[f].value
IsSet(f) == nic_ports[f].set /\ nic_ports[f].value = known[f].value

SettingsTyped ==
  /\ values \in Nat /\ replies \in Seq(Messages)
  /\ known \in [Fields -> [value : Nat, told : BOOLEAN]]
  /\ nic_ports \in [Fields -> [set : BOOLEAN, value : Nat]]
  /\ \A f \in Fields : known[f].value <= values
  /\ req.kind = "set" => /\ req.value \in 1 .. values /\ req.fields \subseteq Fields
                         /\ req.carried \subseteq req.fields
  /\ \A i \in 1 .. Len(replies) : replies[i].kind = "response" => replies[i].value \in 1 .. values

\* The fields a request sets.
Touched(r) == r.carried \cup Garbled(r)

\* Once the answer to the last request for a field waits, or has been read, the field
\* is set to it, and what is read back later says so.
AnswerHolds ==
  /\ req.kind = "set" =>
       /\ \A f \in Fields : known[f].value = req.value => ~known[f].told /\ f \in req.carried
       /\ \A f \in Touched(req) : known[f].value \in {0, req.value}
  /\ req.kind = "set" => \A i \in 1 .. Len(replies) : ~Answers(i, req.value)
  /\ \A f \in Fields, i \in 1 .. Len(replies) : Answers(i, known[f].value) =>
       IsSet(f) /\ \A j \in i + 1 .. Len(replies) : ReadsBack(j, f)
  /\ \A f \in Fields : known[f].told =>
       known[f].value # 0 /\ IsSet(f) /\ \A j \in 1 .. Len(replies) : ReadsBack(j, f)

SettingsInv == SettingsTyped /\ AnswerHolds

-----------------------------------------------------------------------------
(* Frames and their parts.                                                 *)

LEMMA SizesTyped ==
  /\ Frames = 1 .. Len(Sizes) /\ Len(Sizes) \in Nat
  /\ \A k \in Frames : Sizes[k] \in Nat /\ Sizes[k] # 0
<1>1. Sizes \in Seq(Nat \ {0})
  BY EoeConstantsAssumption
<1> QED
  BY <1>1, LenProperties, ElementOfSeq DEF Frames

LEMMA FrameTyped ==
  ASSUME NEW k \in Frames
  PROVE  /\ Frame(k) \in Seq(Blocks) /\ Len(Frame(k)) = Sizes[k] /\ Frame(k) # <<>>
         /\ \A i \in 1 .. Sizes[k] : Frame(k)[i] = <<k, i>>
         /\ k \in Nat /\ k # 0
<1>1. Sizes[k] \in Nat /\ Sizes[k] # 0 /\ k \in Nat /\ k # 0
  BY SizesTyped
<1>2. \A i \in 1 .. Sizes[k] : <<k, i>> \in Blocks
  BY <1>1 DEF Blocks
<1>3. Frame(k) \in Seq(Blocks)
  BY <1>1, <1>2, IsASeq DEF Frame
<1>4. DOMAIN Frame(k) = 1 .. Sizes[k]
  BY DEF Frame
<1>5. Len(Frame(k)) = Sizes[k]
  BY <1>1, <1>4
<1>6. Frame(k) # <<>>
  BY <1>1, <1>3, <1>5, EmptySeq
<1> QED
  BY <1>1, <1>3, <1>5, <1>6 DEF Frame

LEMMA SentTyped ==
  ASSUME NEW k \in Frames
  PROVE  /\ Sent(k) \in Seq(Blocks) /\ Len(Sent(k)) \in Nat /\ Len(Sent(k)) # 0
         /\ Sent(k)[1] = <<k, 1>>
         /\ Len(Sent(k)) = Sizes[k] + (IF k \in Stamped THEN 1 ELSE 0)
         /\ \A i \in 1 .. Sizes[k] : Sent(k)[i] = <<k, i>>
<1>1. /\ Frame(k) \in Seq(Blocks) /\ Len(Frame(k)) = Sizes[k]
      /\ \A i \in 1 .. Sizes[k] : Frame(k)[i] = <<k, i>>
  BY FrameTyped
<1>2. Sizes[k] \in Nat /\ Sizes[k] # 0
  BY SizesTyped
<1>3. CASE k \notin Stamped
  BY <1>1, <1>2, <1>3 DEF Sent
<1>4. CASE k \in Stamped
  <2>1. Stamp \in Blocks
    BY DEF Stamp, Blocks
  <2>2. Sent(k) = Append(Frame(k), Stamp)
    BY <1>4 DEF Sent
  <2> HIDE DEF Stamp, Blocks
  <2>3. /\ Sent(k) \in Seq(Blocks) /\ Len(Sent(k)) = Sizes[k] + 1
        /\ \A i \in 1 .. Sizes[k] : Sent(k)[i] = Frame(k)[i]
    BY <1>1, <2>1, <2>2, AppendProperties
  <2>4. \A i \in 1 .. Sizes[k] : Sent(k)[i] = <<k, i>>
    BY <1>1, <2>3
  <2>5. Sent(k)[1] = <<k, 1>>
    BY <1>2, <2>4
  <2>6. Len(Sent(k)) = Sizes[k] + (IF k \in Stamped THEN 1 ELSE 0)
    BY <1>4, <2>3
  <2>7. Len(Sent(k)) \in Nat /\ Len(Sent(k)) # 0
    BY <1>2, <2>3
  <2> QED
    BY <2>3, <2>4, <2>5, <2>6, <2>7
<1> QED
  BY <1>3, <1>4

\* What the device delivers of it is the frame.
LEMMA StampRemoved ==
  ASSUME NEW k \in Frames
  PROVE  SubSeq(Sent(k), 1, Len(Sent(k)) - (IF k \in Stamped THEN 1 ELSE 0)) = Frame(k)
<1>1. /\ Len(Sent(k)) = Sizes[k] + (IF k \in Stamped THEN 1 ELSE 0)
      /\ \A i \in 1 .. Sizes[k] : Sent(k)[i] = <<k, i>>
  BY SentTyped
<1>2. /\ Frame(k) \in Seq(Blocks) /\ Len(Frame(k)) = Sizes[k]
      /\ \A i \in 1 .. Sizes[k] : Frame(k)[i] = <<k, i>>
      /\ k \in Nat
  BY FrameTyped
<1>3. Sizes[k] \in Nat /\ Sizes[k] # 0
  BY SizesTyped
<1>4. Len(Sent(k)) - (IF k \in Stamped THEN 1 ELSE 0) = Sizes[k]
  BY <1>1, <1>3
<1> DEFINE t == SubSeq(Sent(k), 1, Sizes[k])
<1>5. \A i \in 1 .. Sizes[k] : Sent(k)[i] \in Blocks
  <2>1. ASSUME NEW i \in 1 .. Sizes[k] PROVE Sent(k)[i] \in Blocks
    <3>1. Sent(k)[i] = <<k, i>> /\ i \in Nat
      BY <1>1, <1>3
    <3> QED
      BY <1>2, <3>1 DEF Blocks
  <2> QED
    BY <2>1
<1>6. /\ t \in Seq(Blocks) /\ Len(t) = Sizes[k]
      /\ \A i \in 1 .. Sizes[k] : t[i] = Sent(k)[i]
  <2>1. /\ t \in Seq(Blocks) /\ Len(t) = IF 1 <= Sizes[k] THEN Sizes[k] - 1 + 1 ELSE 0
        /\ \A i \in 1 .. Sizes[k] - 1 + 1 : t[i] = Sent(k)[1 + i - 1]
    BY <1>3, <1>5, SubSeqProperties
  <2> HIDE DEF t
  <2> QED
    BY <1>3, <2>1
<1> HIDE DEF t
<1>7. t = Frame(k)
  BY <1>1, <1>2, <1>6, SeqEqual
<1> QED
  BY <1>4, <1>7 DEF t

\* A frame names itself.
LEMMA WholeFrameKnown ==
  /\ WholeFrame(<<>>) = 0
  /\ \A k \in Frames : WholeFrame(Frame(k)) = k
<1>1. ASSUME NEW k \in Frames PROVE WholeFrame(Frame(k)) = k
  <2>1. Frame(k) # <<>> /\ Frame(k)[1] = <<k, 1>>
    BY FrameTyped, SizesTyped
  <2>2. \A j \in Frames : Frame(j)[1] = <<j, 1>>
    BY FrameTyped, SizesTyped
  <2>3. \A j \in Frames : Frame(k) = Frame(j) => j = k
    BY <2>1, <2>2
  <2>4. (CHOOSE j \in Frames : Frame(k) = Frame(j)) = k
    BY <2>3
  <2> QED
    BY <2>1, <2>4 DEF WholeFrame
<1> QED
  BY <1>1 DEF WholeFrame

\* A part of a sequence, and the part that continues it.
LEMMA PartTyped ==
  ASSUME NEW S, NEW s \in Seq(S), NEW at \in Nat, NEW n \in Nat, at + n <= Len(s)
  PROVE  /\ SubSeq(s, at + 1, at + n) \in Seq(S) /\ Len(SubSeq(s, at + 1, at + n)) = n
         /\ n # 0 => SubSeq(s, at + 1, at + n)[1] = s[at + 1]
<1>1. \A i \in at + 1 .. at + n : s[i] \in S
  BY ElementOfSeq
<1>2. /\ SubSeq(s, at + 1, at + n) \in Seq(S)
      /\ Len(SubSeq(s, at + 1, at + n)) = IF at + 1 <= at + n THEN at + n - (at + 1) + 1 ELSE 0
      /\ \A i \in 1 .. at + n - (at + 1) + 1 : SubSeq(s, at + 1, at + n)[i] = s[at + 1 + i - 1]
  BY <1>1, SubSeqProperties
<1> QED
  BY <1>2

LEMMA PartsJoin ==
  ASSUME NEW S, NEW s \in Seq(S), NEW at \in Nat, NEW n \in Nat, at + n <= Len(s)
  PROVE  SubSeq(s, 1, at) \o SubSeq(s, at + 1, at + n) = SubSeq(s, 1, at + n)
<1>1. Len(s) \in Nat
  BY LenProperties
<1> QED
  BY <1>1, ConcatAdjacentSubSeq

\* Two frames of one number are as many frames apart as there are numbers.
LEMMA SameNumber ==
  ASSUME NEW j \in Nat, NEW k \in Nat, j < k, j % FrameNos = k % FrameNos
  PROVE  k - j >= FrameNos
<1>1. FrameNos \in Nat /\ FrameNos # 0
  BY EoeConstantsAssumption
<1> SUFFICES ASSUME k - j < FrameNos PROVE FALSE
  BY <1>1
<1> DEFINE a == j \div FrameNos  b == k \div FrameNos  r == j % FrameNos
<1>2. /\ a \in Int /\ b \in Int /\ r \in Int
      /\ j = FrameNos * a + r /\ k = FrameNos * b + r
  BY <1>1
<1> HIDE DEF a, b, r
<1>3. FrameNos * b - FrameNos * a = FrameNos * (b - a)
  BY <1>1, <1>2
<1>4. FrameNos * (b - a) = k - j
  BY <1>1, <1>2, <1>3
<1>5. b - a >= 1
  <2>1. CASE b - a <= 0
    <3>1. FrameNos * (b - a) <= 0
      BY <1>1, <1>2, <2>1
    <3> QED
      BY <1>4, <3>1
  <2> QED
    BY <1>2, <2>1
<1>6. FrameNos * (b - a) >= FrameNos
  BY <1>1, <1>2, <1>5
<1> QED
  BY <1>1, <1>4, <1>6


LEMMA NoNull ==
  /\ NULL \notin Seq(Blocks) /\ <<>> # NULL /\ <<>> \in Seq(Blocks)
<1>1. NULL[1] = <<-1, -1>> /\ Len(NULL) = 1
  BY DEF NULL
<1>2. ASSUME NULL \in Seq(Blocks) PROVE FALSE
  <2>1. 1 \in 1 .. Len(NULL)
    BY <1>1
  <2>2. NULL[1] \in Blocks
    BY <1>2, <2>1, ElementOfSeq
  <2> QED
    BY <1>1, <2>2 DEF Blocks
<1>3. <<>> \in Seq(Blocks) /\ Len(<<>>) = 0
  BY EmptySeq
<1> QED
  BY <1>1, <1>2, <1>3

-----------------------------------------------------------------------------
(* The sender.                                                             *)

LEMMA FragmentTyped ==
  ASSUME NEW k \in Frames, NEW at, NEW r, IsFragmentOf(r, k, at)
  PROVE  r.data \in Seq(Blocks) /\ r.data[1] = Sent(k)[at + 1]
<1>1. Sent(k) \in Seq(Blocks)
  BY SentTyped
<1>2. /\ at \in Nat /\ Len(r.data) \in Nat /\ at + Len(r.data) <= Len(Sent(k))
      /\ r.data = SubSeq(Sent(k), at + 1, at + Len(r.data)) /\ r.data # <<>>
  BY DEF IsFragmentOf
<1>3. r.data \in Seq(Blocks)
  BY <1>1, <1>2, PartTyped
<1>4. Len(r.data) # 0
  BY <1>2, <1>3, EmptySeq
<1> DEFINE s == Sent(k)
           m == Len(r.data)
<1>5. s \in Seq(Blocks) /\ m \in Nat /\ m # 0 /\ at + m <= Len(s) /\ r.data = SubSeq(s, at + 1, at + m)
  BY <1>1, <1>2, <1>4
<1> HIDE DEF s, m
<1>6. m # 0 => SubSeq(s, at + 1, at + m)[1] = s[at + 1]
  BY <1>2, <1>5, PartTyped
<1>7. r.data[1] = s[at + 1]
  BY <1>5, <1>6
<1> QED
  BY <1>3, <1>7 DEF s

LEMMA SendFragmentSends ==
  ASSUME SenderInv, SendFragment
  PROVE  /\ SenderInv' /\ req'.kind = "fragment" /\ req.kind # "fragment"
         /\ \/ ~mtx.busy /\ mtx'.frame = mtx.frame + 1 /\ req'.fragno = 0
            \/ mtx.busy /\ mtx'.frame = mtx.frame /\ req'.fragno # 0
<1> DEFINE f == IF mtx.busy THEN mtx.frame ELSE mtx.frame + 1
           at == IF mtx.busy THEN mtx.offset ELSE 0
           no == IF mtx.busy THEN mtx.fragno ELSE 0
           n == Least(FragRoom, Len(Sent(f)) - at)
           last == at + n = Len(Sent(f))
           stamp == f \in Stamped
<1>1. /\ req = Nothing /\ f \in Frames
      /\ req' = [kind |-> "fragment", fragno |-> no, frameno |-> f % FrameNos,
                 offset |-> IF no = 0 THEN Len(Sent(f)) ELSE at,
                 data |-> SubSeq(Sent(f), at + 1, at + n), last |-> last, stamp |-> stamp]
      /\ mtx' = [frame |-> f, fragno |-> no + 1, offset |-> at + n, busy |-> ~last]
  BY DEF SendFragment, Sent, Part
<1>2. mtx.frame \in Nat /\ mtx.fragno \in Nat /\ mtx.offset \in Nat /\ mtx.busy \in BOOLEAN
  BY DEF SenderInv, SenderKnown
<1>3. /\ f \in Nat /\ f # 0 /\ f <= Len(Sizes) /\ Sent(f) \in Seq(Blocks)
      /\ Len(Sent(f)) \in Nat /\ Len(Sent(f)) # 0
  <2> HIDE DEF f
  <2> QED
    BY <1>1, SizesTyped, SentTyped
<1>4. at \in Nat /\ no \in Nat /\ at < Len(Sent(f)) /\ (no = 0 => at = 0)
  <2>1. CASE mtx.busy
    BY <1>2, <2>1 DEF SenderInv, SenderKnown
  <2>2. CASE ~mtx.busy
    <3>1. at = 0 /\ no = 0
      BY <2>2
    <3> HIDE DEF f
    <3> QED
      BY <1>3, <3>1
  <2> QED
    BY <2>1, <2>2
<1>5. /\ mtx.busy => f = mtx.frame /\ no # 0
      /\ ~mtx.busy => f = mtx.frame + 1 /\ no = 0
  BY <1>2 DEF SenderInv, SenderKnown
<1> HIDE DEF f, at, no
<1>6. n \in Nat /\ n # 0 /\ at + n <= Len(Sent(f))
  BY <1>3, <1>4, EoeConstantsAssumption DEF Least
<1> HIDE DEF n
<1> DEFINE d == SubSeq(Sent(f), at + 1, at + n)
<1>7. d \in Seq(Blocks) /\ Len(d) = n
  BY <1>3, <1>4, <1>6, PartTyped
<1>8. d # <<>>
  BY <1>6, <1>7, EmptySeq
<1>9. SenderKnown'
  <2>1. mtx' \in [frame : Nat, fragno : Nat, offset : Nat, busy : BOOLEAN]
    BY <1>1, <1>3, <1>4, <1>6
  <2>2. mtx'.busy => mtx'.offset < Len(Sent(mtx'.frame))
    <3>1. /\ mtx'.offset = at + n /\ mtx'.frame = f
          /\ mtx'.busy => at + n # Len(Sent(f))
      BY <1>1
    <3>2. at + n # Len(Sent(f)) => at + n < Len(Sent(f))
      BY <1>3, <1>4, <1>6
    <3> QED
      BY <3>1, <3>2
  <2>3. mtx'.frame <= Len(Sizes) /\ mtx'.frame # 0 /\ mtx'.fragno # 0 /\ mtx'.offset # 0
    BY <1>1, <1>3, <1>4, <1>6
  <2> QED
    BY <2>1, <2>2, <2>3 DEF SenderKnown
<1>10. IsFragmentOf(req', mtx'.frame, at)
  <2>1. req'.data = d /\ mtx'.frame = f /\ req'.fragno = no
    BY <1>1
  <2>2. /\ at \in Nat /\ Len(d) \in Nat /\ at + Len(d) <= Len(Sent(f))
        /\ d = SubSeq(Sent(f), at + 1, at + Len(d))
    BY <1>4, <1>6, <1>7
  <2>3. req'.last <=> at + Len(d) = Len(Sent(f))
    BY <1>1, <1>7
  <2> HIDE DEF d
  <2>4. /\ req'.fragno \in Nat /\ req'.frameno = f % FrameNos /\ (req'.stamp <=> f \in Stamped)
        /\ (req'.fragno = 0 => at = 0 /\ req'.offset = Len(Sent(f)))
        /\ (req'.fragno # 0 => at = req'.offset)
    BY <1>1, <1>4
  <2> QED
    BY <1>8, <2>1, <2>2, <2>3, <2>4 DEF IsFragmentOf
<1>11. OnItsWay'
  <2>1. mtx'.frame # 0 /\ req'.last = ~mtx'.busy
    BY <1>1, <1>3
  <2>2. at \in 0 .. Len(Sent(mtx'.frame))
    BY <1>1, <1>3, <1>4
  <2> QED
    BY <1>10, <2>1, <2>2 DEF OnItsWay
<1> QED
  BY <1>1, <1>5, <1>9, <1>11 DEF SenderInv, Nothing

LEMMA SenderStep ==
  ASSUME SenderInv, [Next]_vars
  PROVE  SenderInv'
<1> USE DEF rxVars, txVars, netVars
<1>1. CASE SendFragment
  BY <1>1, SendFragmentSends
<1>2. CASE AskSettings \/ ESC_eoeprocess
  <2>1. mtx' = mtx /\ req'.kind # "fragment"
    BY <1>2 DEF AskSettings, ESC_eoeprocess, Nothing
  <2> QED
    BY <2>1 DEF SenderInv, SenderKnown, OnItsWay
<1>3. CASE RestartMbx
  <2>1. req'.kind # "fragment" /\ mtx' \in {mtx, [mtx EXCEPT !.busy = FALSE]}
    BY <1>3 DEF RestartMbx, Nothing
  <2>2. SenderKnown'
    <3>1. CASE mtx' = mtx
      BY <3>1 DEF SenderInv, SenderKnown
    <3>2. CASE mtx' = [mtx EXCEPT !.busy = FALSE]
      BY <3>2 DEF SenderInv, SenderKnown
    <3> QED
      BY <2>1, <3>1, <3>2
  <2> QED
    BY <2>1, <2>2 DEF SenderInv, OnItsWay
<1>4. CASE UNCHANGED <<mtx, req>>
  BY <1>4 DEF SenderInv, SenderKnown, OnItsWay
<1>5. CASE \/ ESC_eoeprocess_tx \/ AppSend \/ AppFree \/ ReadMbx
           \/ \E fs \in Settings : EOE_ecat_set(fs)
  BY <1>4, <1>5 DEF ESC_eoeprocess_tx, AppSend, AppFree, ReadMbx, EOE_ecat_set
<1>6. CASE UNCHANGED vars
  BY <1>4, <1>6 DEF vars
<1> QED
  BY <1>1, <1>2, <1>3, <1>5, <1>6 DEF Next


-----------------------------------------------------------------------------
(* The frame buffers.                                                      *)

Held(b) == IF b # NULL THEN 1 ELSE 0

LEMMA InitRxConserves ==
  ASSUME NEW b, b = NULL \/ b \in Seq(Blocks), free \in Int, EOE_init_rx(b)
  PROVE  /\ free' \in Int /\ (rxebuf' = NULL \/ rxebuf' \in Seq(Blocks)) /\ rxfragmentno' = 0
         /\ free' + Held(rxebuf') = free + Held(b)
<1> USE NoNull
<1>1. CASE Fetches(b)
  BY <1>1 DEF EOE_init_rx, Fetches, Held
<1>2. CASE ~Fetches(b)
  BY <1>2 DEF EOE_init_rx, Held
<1> QED
  BY <1>1, <1>2

LEMMA CopyConserves ==
  ASSUME BufferTyped, NEW r, NEW at \in Seq(Blocks), NEW size,
         r.data \in Seq(Blocks), r.data # <<>>, rxebuf # NULL, CopyFragment(r, at, size)
  PROVE  BufferTyped' /\ free' + Held(rxebuf') + received' = free + Held(rxebuf) + received
<1>0. free \in Int /\ received \in Nat /\ <<>> \in Seq(Blocks) /\ <<>> # NULL
  BY NoNull DEF BufferTyped
<1> DEFINE frame == at \o r.data
<1>1. frame \in Seq(Blocks)
  BY ConcatProperties
<1> HIDE DEF frame
<1>2. CASE EOE_init_rx(<<>>) /\ SkipFragment
  <2>1. /\ free' \in Int /\ (rxebuf' = NULL \/ rxebuf' \in Seq(Blocks)) /\ rxfragmentno' = 0
        /\ free' + Held(rxebuf') = free + Held(<<>>) /\ received' = received
    BY <1>0, <1>2, InitRxConserves DEF SkipFragment
  <2>2. Held(<<>>) = 1 /\ Held(rxebuf) = 1 /\ Held(rxebuf') \in Int
    BY <1>0 DEF Held
  <2>3. free' + Held(rxebuf') + received' = free + Held(rxebuf) + received
    BY <1>0, <2>1, <2>2
  <2>4. BufferTyped'
    BY <1>0, <2>1 DEF BufferTyped
  <2> QED
    BY <2>3, <2>4
<1>3. CASE received' = received + 1 /\ EOE_init_rx(NULL)
  <2>1. /\ free' \in Int /\ (rxebuf' = NULL \/ rxebuf' \in Seq(Blocks)) /\ rxfragmentno' = 0
        /\ free' + Held(rxebuf') = free + Held(NULL) /\ received' = received + 1
    BY <1>0, <1>3, InitRxConserves
  <2>2. Held(NULL) = 0 /\ Held(rxebuf) = 1 /\ Held(rxebuf') \in Int
    BY DEF Held
  <2>3. free' + Held(rxebuf') + received' = free + Held(rxebuf) + received
    BY <1>0, <2>1, <2>2
  <2>4. BufferTyped'
    BY <1>0, <2>1 DEF BufferTyped
  <2> QED
    BY <2>3, <2>4
<1>4. CASE rxebuf' = frame /\ UNCHANGED <<free, received, got>>
  <2>1. Held(rxebuf') = 1 /\ Held(rxebuf) = 1 /\ rxebuf' # NULL
    BY <1>1, <1>4, NoNull DEF Held
  <2> QED
    BY <1>0, <1>1, <1>4, <2>1 DEF BufferTyped
<1> QED
  BY <1>2, <1>3, <1>4 DEF CopyFragment, frame

LEMMA ReceiveConserves ==
  ASSUME BufferTyped, NEW r, r.data \in Seq(Blocks), r.data # <<>>, EOE_receive_fragment(r)
  PROVE  BufferTyped' /\ free' + Held(rxebuf') + received' = free + Held(rxebuf) + received
<1> USE NoNull
<1>1. CASE r.fragno = 0 /\ rxebuf # NULL
  BY <1>1, CopyConserves DEF EOE_receive_fragment
<1>2. CASE r.fragno # 0 /\ r.fragno = rxfragmentno /\ SameFrame(r)
  <2>1. rxebuf # NULL /\ rxebuf \in Seq(Blocks)
    BY <1>2 DEF BufferTyped
  <2> QED
    BY <1>2, <2>1, CopyConserves DEF EOE_receive_fragment
<1>3. ASSUME NEW b, EOE_init_rx(b), SkipFragment, b = NULL \/ b = <<>>,
             Held(b) = Held(rxebuf)
      PROVE  BufferTyped' /\ free' + Held(rxebuf') + received' = free + Held(rxebuf) + received
  <2>1. /\ free' \in Int /\ (rxebuf' = NULL \/ rxebuf' \in Seq(Blocks)) /\ rxfragmentno' = 0
        /\ free' + Held(rxebuf') = free + Held(rxebuf) /\ received' = received
    <3>1. free \in Int /\ (b = NULL \/ b \in Seq(Blocks))
      BY <1>3 DEF BufferTyped
    <3> QED
      BY <1>3, <3>1, InitRxConserves DEF SkipFragment
  <2>2. Held(rxebuf') \in Int /\ Held(rxebuf) \in Int /\ free \in Int /\ received \in Nat
    BY DEF Held, BufferTyped
  <2>3. free' + Held(rxebuf') + received' = free + Held(rxebuf) + received
    BY <2>1, <2>2
  <2>4. BufferTyped'
    BY <2>1, <2>2 DEF BufferTyped
  <2> QED
    BY <2>3, <2>4
<1>4. CASE r.fragno = 0 /\ rxebuf = NULL
  BY <1>3, <1>4 DEF EOE_receive_fragment
<1>5. CASE r.fragno # 0 /\ r.fragno # rxfragmentno /\ rxfragmentno = 0
  BY <1>5 DEF EOE_receive_fragment, SkipFragment, BufferTyped, Held
<1>6. CASE r.fragno # 0 /\ rxfragmentno # 0 /\ (r.fragno # rxfragmentno \/ ~SameFrame(r))
  <2>1. Held(<<>>) = 1 /\ Held(rxebuf) = 1
    BY <1>6 DEF Held, BufferTyped
  <2> QED
    BY <1>3, <1>6, <2>1 DEF EOE_receive_fragment
<1> QED
  BY <1>1, <1>2, <1>4, <1>5, <1>6

\* The fragment sent is the next one; the frame in hand is one of those queued.
FrameInHand == IF txebuf = None THEN Head(queue) ELSE txebuf

LEMMA HandKnown ==
  ASSUME InHand, txebuf # None \/ queue # <<>>
  PROVE  /\ FrameInHand \in Frames /\ FrameInHand \in 1 .. queued /\ FrameInHand = NextFrame
         /\ Sizes[FrameInHand] \in Nat /\ txframeoffset \in Nat /\ txframeoffset < Sizes[FrameInHand]
         /\ Len(queue) \in {0, 1} /\ queued \in Nat /\ queued <= Len(Sizes) /\ Len(Sizes) \in Nat
<1>1. Len(Sizes) \in Nat /\ Frames = 1 .. Len(Sizes) /\ \A k \in Frames : Sizes[k] \in Nat /\ Sizes[k] # 0
  BY SizesTyped
<1>2. \/ queue = <<>> /\ Len(queue) = 0
      \/ queue = <<queued>> /\ Len(queue) = 1 /\ Head(queue) = queued /\ queued # 0
  BY DEF InHand
<1>3. FrameInHand \in 1 .. queued /\ FrameInHand = NextFrame /\ queued <= Len(Sizes) /\ queued \in Nat
  <2>1. CASE txebuf = None
    <3>1. queue = <<queued>> /\ Len(queue) = 1 /\ Head(queue) = queued /\ queued # 0
      BY <1>2, <2>1
    <3>2. txfragmentno = 0 /\ queued \in 0 .. Len(Sizes)
      BY <2>1 DEF InHand
    <3>3. FrameInHand = queued /\ NextFrame = queued - 1 - 0 + 1
      BY <2>1, <3>1, <3>2 DEF FrameInHand, NextFrame, Started
    <3> QED
      BY <1>1, <3>1, <3>2, <3>3
  <2>2. CASE txebuf # None
    BY <1>1, <1>2, <2>2 DEF InHand, FrameInHand, NextFrame, Started, None
  <2> QED
    BY <2>1, <2>2
<1>4. FrameInHand \in Frames
  BY <1>1, <1>3
<1>5. txframeoffset \in Nat /\ txframeoffset < Sizes[FrameInHand]
  <2>1. CASE txfragmentno = 0
    BY <1>1, <1>4, <2>1 DEF InHand
  <2>2. CASE txfragmentno # 0
    BY <1>1, <1>4, <2>2 DEF InHand, FrameInHand
  <2> QED
    BY <2>1, <2>2
<1> QED
  BY <1>1, <1>2, <1>3, <1>4, <1>5

LEMMA SendFragmentConserves ==
  ASSUME InHand, free \in Int, EOE_send_fragment
  PROVE  /\ InHand' /\ free' \in Int
         /\ free' + Len(queue') + (IF txebuf' # None THEN 1 ELSE 0)
              = free + Len(queue) + (IF txebuf # None THEN 1 ELSE 0)
         /\ queued' = queued
         /\ ~Buffer => UNCHANGED <<txfragmentno, frameno, replies, Started>>
<1> DEFINE frame == FrameInHand
           left == Sizes[frame] - txframeoffset
           n == Least(left, FragRoom)
<1>1. /\ txebuf # None \/ queue # <<>>
      /\ queue' = IF txebuf = None THEN Tail(queue) ELSE queue
      /\ queued' = queued
      /\ ~Buffer => txebuf' = frame /\ UNCHANGED <<txfragmentno, txframeoffset, frameno, free, replies>>
      /\ Buffer /\ n = left => /\ txebuf' = None /\ free' = free + 1
                               /\ txfragmentno' = 0 /\ txframeoffset' = 0
      /\ Buffer /\ n # left => /\ txebuf' = frame /\ free' = free
                               /\ txfragmentno' = txfragmentno + 1 /\ txframeoffset' = txframeoffset + n
  BY DEF EOE_send_fragment, FrameInHand, SentOff
<1>2. /\ frame \in 1 .. queued /\ Sizes[frame] \in Nat /\ txframeoffset \in Nat
      /\ txframeoffset < Sizes[frame] /\ queued \in Nat /\ queued <= Len(Sizes)
  BY <1>1, HandKnown
<1>3. n \in Nat /\ n # 0 /\ (n # left => txframeoffset + n < Sizes[frame])
  <2>1. FragRoom \in Nat \ {0}
    BY EoeConstantsAssumption
  <2>2. PICK a \in Nat : a = left /\ a # 0 /\ txframeoffset + a = Sizes[frame]
    BY <1>2
  <2>3. n = Least(a, FragRoom)
    BY <2>2
  <2> HIDE DEF n, left
  <2>4. n \in Nat /\ n # 0 /\ (n # a => n < a)
    BY <2>1, <2>2, <2>3 DEF Least
  <2> QED
    BY <1>2, <2>2, <2>4
<1>4. /\ txebuf = None => queue = <<queued>> /\ Len(queue) = 1 /\ queue' = <<>> /\ Len(queue') = 0
                          /\ frame = queued
      /\ txebuf # None => queue' = queue /\ txebuf = queued - Len(queue) /\ frame = txebuf
                          /\ Len(queue) \in {0, 1}
  <2>1. CASE queue = <<>>
    BY <1>1, <2>1 DEF InHand, FrameInHand
  <2>2. CASE queue = <<queued>>
    <3>1. Len(queue) = 1 /\ Tail(queue) = <<>> /\ Head(queue) = queued
      BY <2>2
    <3> QED
      BY <1>1, <2>2, <3>1 DEF InHand, FrameInHand
  <2> QED
    BY <2>1, <2>2 DEF InHand
<1>5. txebuf = None => txfragmentno = 0
  BY DEF InHand
<1>6. queue' = <<>> \/ (queue' = <<queued>> /\ queued # 0)
  BY <1>2, <1>4 DEF InHand
<1> HIDE DEF frame, n, left
<1>7. frame # None /\ frame \in Nat
  BY <1>2 DEF None
<1>8. frame = queued - Len(queue')
  BY <1>2, <1>4
<1>9. CASE ~Buffer
  <2>1. Started' = Started
    <3>1. txebuf' = frame /\ txebuf' # None /\ txfragmentno' = txfragmentno /\ queued' = queued
      BY <1>1, <1>7, <1>9
    <3>2. CASE txebuf = None
      <4>1. Len(queue) = 1 /\ Len(queue') = 0 /\ txfragmentno = 0
        BY <1>4, <1>5, <3>2
      <4>2. Started = queued - 1 - 0 /\ Started' = queued - 0 - 1
        BY <3>1, <3>2, <4>1 DEF Started
      <4> QED
        BY <1>2, <4>2
    <3>3. CASE txebuf # None
      BY <1>2, <1>4, <3>1, <3>3 DEF Started
    <3> QED
      BY <3>2, <3>3
  <2>2. InHand'
    BY <1>1, <1>2, <1>4, <1>5, <1>6, <1>7, <1>8, <1>9 DEF InHand, left
  <2> QED
    BY <1>1, <1>2, <1>4, <1>7, <1>9, <2>1, <2>2
<1>10. CASE Buffer /\ n = left
  <2>1. InHand'
    BY <1>1, <1>2, <1>6, <1>10 DEF InHand, None
  <2>2. PICK f \in Int : f = free /\ free' = f + 1 /\ queued' = queued /\ txebuf' = None
    BY <1>1, <1>7, <1>10
  <2>3. CASE txebuf = None
    <3>1. Len(queue) = 1 /\ Len(queue') = 0
      BY <1>4, <2>3
    <3> QED
      BY <1>10, <2>1, <2>2, <2>3, <3>1
  <2>4. CASE txebuf # None
    <3>1. PICK k \in Int : k = Len(queue) /\ k = Len(queue')
      BY <1>4, <2>4
    <3> QED
      BY <1>10, <2>1, <2>2, <2>4, <3>1
  <2> QED
    BY <2>3, <2>4
<1>11. CASE Buffer /\ n # left
  <2>1. InHand'
    <3>1. txfragmentno \in Nat
      BY DEF InHand
    <3>2. /\ txfragmentno' \in Nat /\ txfragmentno' # 0 /\ txframeoffset' \in Nat /\ txframeoffset' # 0
          /\ txframeoffset' < Sizes[txebuf']
      BY <1>1, <1>2, <1>3, <1>11, <3>1
    <3>3. txebuf' \in Nat /\ txebuf' # None /\ txebuf' = queued' - Len(queue')
      BY <1>1, <1>7, <1>8, <1>11
    <3> QED
      BY <1>1, <1>2, <1>6, <3>2, <3>3 DEF InHand
  <2>2. PICK f \in Int : f = free /\ free' = f + 0 /\ queued' = queued /\ txebuf' # None
    BY <1>1, <1>7, <1>11
  <2>3. CASE txebuf = None
    <3>1. Len(queue) = 1 /\ Len(queue') = 0
      BY <1>4, <2>3
    <3> QED
      BY <1>11, <2>1, <2>2, <2>3, <3>1
  <2>4. CASE txebuf # None
    <3>1. PICK k \in Int : k = Len(queue) /\ k = Len(queue')
      BY <1>4, <2>4
    <3> QED
      BY <1>11, <2>1, <2>2, <2>4, <3>1
  <2> QED
    BY <2>3, <2>4
<1> QED
  BY <1>9, <1>10, <1>11


LEMMA InHandTyped ==
  ASSUME InHand
  PROVE  /\ Len(queue) \in {0, 1} /\ queued \in Nat /\ Len(Sizes) \in Nat
         /\ (queue = <<>> <=> Len(queue) = 0)
<1>1. Len(Sizes) \in Nat
  BY SizesTyped
<1>2. CASE queue = <<>>
  BY <1>1, <1>2 DEF InHand
<1>3. CASE queue = <<queued>>
  <2>1. Len(queue) = 1 /\ queue # <<>>
    BY <1>3
  <2> QED
    BY <1>1, <2>1 DEF InHand
<1> QED
  BY <1>2, <1>3 DEF InHand

Sending(t) == IF t # None THEN 1 ELSE 0

LEMMA BufferInit ==
  ASSUME Init
  PROVE  BufferInv
<1>1. Pool \in Nat /\ Len(Sizes) \in Nat
  BY EoeConstantsAssumption, SizesTyped
<1>2. InHand
  BY <1>1 DEF Init, InHand, None
<1>3. BufferTyped
  BY <1>1, NoNull DEF Init, BufferTyped
<1>4. BuffersConserved
  <2>1. rxebuf # NULL /\ txebuf = None /\ Len(queue) = 0 /\ free = Pool - 1 /\ received = 0
    BY NoNull DEF Init
  <2> QED
    BY <1>1, <2>1 DEF BuffersConserved
<1> QED
  BY <1>2, <1>3, <1>4 DEF BufferInv

LEMMA BufferStep ==
  ASSUME SenderInv, BufferInv, [Next]_vars
  PROVE  BufferInv'
<1> USE DEF rxVars, txVars, netVars
<1>0. /\ free \in Int /\ received \in Nat /\ Len(queue) \in {0, 1}
      /\ queued \in Nat /\ Len(Sizes) \in Nat /\ Pool \in Nat
  BY InHandTyped, EoeConstantsAssumption DEF BufferInv, BufferTyped
<1>1. CASE UNCHANGED <<rxVars, txVars, free>>
  BY <1>1 DEF BufferInv, InHand, BufferTyped, BuffersConserved
<1>2. CASE ESC_eoeprocess
  <2>1. CASE UNCHANGED <<rxVars, free>>
    BY <1>1, <1>2, <2>1 DEF ESC_eoeprocess
  <2>2. CASE req.kind = "fragment" /\ EOE_receive_fragment(req)
    <3>1. PICK at : mtx.frame # 0 /\ IsFragmentOf(req, mtx.frame, at)
      BY <2>2 DEF SenderInv, OnItsWay
    <3>2. mtx.frame \in Frames
      <4>1. mtx.frame \in Nat /\ mtx.frame <= Len(Sizes)
        BY DEF SenderInv, SenderKnown
      <4> QED
        BY <3>1, <4>1, SizesTyped
    <3>3. req.data \in Seq(Blocks) /\ req.data # <<>>
      BY <3>1, <3>2, FragmentTyped DEF IsFragmentOf
    <3>4. BufferTyped' /\ free' + Held(rxebuf') + received' = free + Held(rxebuf) + received
      BY <2>2, <3>3, ReceiveConserves DEF BufferInv
    <3>5. UNCHANGED txVars
      BY <1>2 DEF ESC_eoeprocess
    <3>6. InHand'
      BY <3>5 DEF BufferInv, InHand
    <3>7. BuffersConserved'
      <4>1. Held(rxebuf) \in Int /\ Held(rxebuf') \in Int /\ free' \in Int /\ received' \in Nat
        BY <3>4 DEF Held, BufferTyped
      <4>2. /\ Sending(txebuf) \in Int /\ Len(queue) \in Int /\ free \in Int /\ received \in Int
            /\ free + received + Len(queue) + Held(rxebuf) + Sending(txebuf) = Pool
        BY <1>0 DEF BufferInv, BuffersConserved, Held, Sending
      <4>3. PICK f \in Int, n \in Int, q \in Int :
              f = free /\ n = received /\ q = Len(queue)
        BY <4>2
      <4>4. PICK r \in Int, t \in Int : r = Held(rxebuf) /\ t = Sending(txebuf)
        BY <4>1, <4>2
      <4>5. PICK g \in Int, s \in Int, m \in Int :
              g = free' /\ s = Held(rxebuf') /\ m = received'
        BY <4>1
      <4>6. f + n + q + r + t = Pool
        BY <4>2, <4>3, <4>4, Zenon
      <4>7. g + s + m = f + r + n
        BY <3>4, <4>3, <4>4, <4>5, Zenon
      <4>8. g + m + q + s + t = Pool
        BY <4>6, <4>7
      <4>9. free' + received' + Len(queue') + Held(rxebuf') + Sending(txebuf') = Pool
        BY <3>5, <4>3, <4>4, <4>5, <4>8, Zenon
      <4> QED
        BY <4>9 DEF BuffersConserved, Held, Sending
    <3> QED
      BY <3>4, <3>6, <3>7 DEF BufferInv
  <2> QED
    BY <1>2, <2>1, <2>2 DEF ESC_eoeprocess
<1>3. CASE ESC_eoeprocess_tx
  <2>1. CASE NothingToSend
    BY <1>1, <1>3, <2>1 DEF ESC_eoeprocess_tx, NothingToSend
  <2>2. CASE EOE_send_fragment
    <3>1. /\ InHand' /\ free' \in Int
          /\ free' + Len(queue') + (IF txebuf' # None THEN 1 ELSE 0)
               = free + Len(queue) + (IF txebuf # None THEN 1 ELSE 0)
      BY <1>0, <2>2, SendFragmentConserves DEF BufferInv
    <3>2. UNCHANGED rxVars
      BY <1>3 DEF ESC_eoeprocess_tx
    <3>3. BufferTyped'
      BY <3>1, <3>2 DEF BufferInv, BufferTyped
    <3>4. BuffersConserved'
      <4>1. Len(queue') \in Int
        <5>1. queue' = <<>> \/ queue' = <<queued'>>
          BY <3>1 DEF InHand
        <5> QED
          BY <5>1
      <4> DEFINE h == IF txebuf # None THEN 1 ELSE 0
                 i == IF txebuf' # None THEN 1 ELSE 0
      <4>2. h \in Int /\ i \in Int /\ Held(rxebuf) \in Int
        BY DEF Held
      <4>3. free + received + Len(queue) + Held(rxebuf) + h = Pool
        BY DEF BufferInv, BuffersConserved, Held
      <4>4. free' + Len(queue') + i = free + Len(queue) + h
        BY <3>1
      <4>5. BuffersConserved' <=> free' + received + Len(queue') + Held(rxebuf) + i = Pool
        BY <3>2 DEF BuffersConserved, Held
      <4> HIDE DEF h, i
      <4>6. Len(queue) \in Int /\ received \in Int /\ free \in Int /\ free' \in Int
        BY <1>0, <3>1
      <4>7. PICK f \in Int, g \in Int, q \in Int, p \in Int :
              f = free /\ g = free' /\ q = Len(queue) /\ p = Len(queue')
        BY <4>1, <4>6
      <4>8. PICK n \in Int, r \in Int, a \in Int, b \in Int :
              n = received /\ r = Held(rxebuf) /\ a = h /\ b = i
        BY <4>2, <4>6
      <4>9. f + n + q + r + a = Pool /\ g + p + b = f + q + a
        BY <4>3, <4>4, <4>7, <4>8, Zenon
      <4>10. g + n + p + r + b = Pool
        BY <4>9
      <4> QED
        BY <4>5, <4>7, <4>8, <4>10, Zenon
    <3> QED
      BY <3>1, <3>3, <3>4 DEF BufferInv
  <2> QED
    BY <1>3, <2>1, <2>2 DEF ESC_eoeprocess_tx
<1>4. CASE AppSend
  <2>1. /\ queue = <<>> /\ queued < Len(Sizes) /\ queued' = queued + 1 /\ queue' = <<queued'>>
        /\ free' = free - 1 /\ UNCHANGED <<rxVars, txebuf, txfragmentno, txframeoffset>>
    BY <1>4 DEF AppSend
  <2>2. Len(queue) = 0 /\ Len(queue') = 1
    BY <2>1
  <2>3. InHand'
    BY <1>0, <2>1, <2>2 DEF BufferInv, InHand
  <2>4. BufferTyped' /\ BuffersConserved'
    BY <1>0, <2>1, <2>2 DEF BufferInv, BufferTyped, BuffersConserved
  <2> QED
    BY <2>3, <2>4 DEF BufferInv
<1>5. CASE AppFree
  BY <1>0, <1>5 DEF AppFree, BufferInv, InHand, BufferTyped, BuffersConserved
<1>6. CASE SendFragment \/ AskSettings \/ ReadMbx \/ RestartMbx \/ \E fs \in Settings : EOE_ecat_set(fs)
  BY <1>1, <1>6 DEF SendFragment, AskSettings, ReadMbx, RestartMbx, EOE_ecat_set
<1>7. CASE UNCHANGED vars
  BY <1>1, <1>7 DEF vars
<1> QED
  BY <1>2, <1>3, <1>4, <1>5, <1>6, <1>7 DEF Next

LEMMA SenderInit ==
  ASSUME Init
  PROVE  SenderInv
<1>1. Len(Sizes) \in Nat
  BY SizesTyped
<1> QED
  BY <1>1 DEF Init, SenderInv, SenderKnown, OnItsWay, Nothing

\* No frame buffer is lost or given back twice (EOE_init_rx, EOE_init_tx in
\* esc_eoe.c), whatever is fetched, refused, garbled or restarted, and when.
THEOREM FrameBuffersConserved == Spec => []BuffersConserved
<1>1. Init => SenderInv /\ BufferInv
  BY SenderInit, BufferInit
<1>2. SenderInv /\ BufferInv /\ [Next]_vars => (SenderInv /\ BufferInv)'
  BY SenderStep, BufferStep
<1>3. SenderInv /\ BufferInv => BuffersConserved
  BY DEF BufferInv
<1> QED
  BY <1>1, <1>2, <1>3, PTL DEF Spec


-----------------------------------------------------------------------------
(* The fragments sent.                                                     *)

LEMMA ModNext ==
  ASSUME NEW a \in Nat
  PROVE  /\ ((a % FrameNos) + 1) % FrameNos = (a + 1) % FrameNos
         /\ a % FrameNos \in Nat
<1>1. FrameNos \in Nat /\ FrameNos # 0
  BY EoeConstantsAssumption
<1> DEFINE q == a \div FrameNos  r == a % FrameNos
<1>2. q \in Int /\ r \in Nat /\ r < FrameNos /\ a = FrameNos * q + r
  BY <1>1
<1> HIDE DEF q, r
<1>3. CASE r + 1 < FrameNos
  <2>1. a + 1 = FrameNos * q + (r + 1) /\ r + 1 \in Nat
    BY <1>1, <1>2
  <2>2. (a + 1) % FrameNos = r + 1 /\ (r + 1) % FrameNos = r + 1
    BY <1>1, <1>2, <1>3, <2>1
  <2> QED
    BY <1>2, <2>2 DEF r
<1>4. CASE r + 1 = FrameNos
  <2>1. a + 1 = FrameNos * (q + 1)
    BY <1>1, <1>2, <1>4
  <2>2. (a + 1) % FrameNos = 0 /\ (r + 1) % FrameNos = 0
    BY <1>1, <1>2, <1>4, <2>1
  <2> QED
    BY <1>2, <2>2 DEF r
<1> QED
  BY <1>1, <1>2, <1>3, <1>4

LEMMA StartedTyped ==
  ASSUME InHand
  PROVE  Started \in Nat /\ NextFrame \in Nat /\ NextFrame # 0 /\ Started <= queued
<1>1. /\ Len(queue) \in {0, 1} /\ queued \in Nat /\ (queue = <<>> <=> Len(queue) = 0)
  BY InHandTyped
<1>2. Len(queue) <= queued
  <2>1. CASE queue = <<>>
    BY <1>1, <2>1
  <2>2. CASE queued # 0
    BY <1>1, <2>2
  <2> QED
    BY <2>1, <2>2 DEF InHand
<1>3. txebuf # None => queued - Len(queue) # 0
  BY DEF InHand, None
<1>4. txfragmentno \in Nat /\ (txfragmentno # 0 => txebuf # None)
  BY DEF InHand
<1>5. Started \in Nat /\ Started <= queued
  BY <1>1, <1>2, <1>3 DEF Started
<1>6. txfragmentno # 0 => Started # 0
  BY <1>1, <1>2, <1>3, <1>4 DEF Started
<1> QED
  BY <1>5, <1>6 DEF NextFrame

LEMMA FragmentSent ==
  ASSUME InHand, Numbered, EOE_send_fragment, Buffer
  PROVE  /\ Numbered'
         /\ \E r \in Messages :
              /\ replies' = Append(replies, r) /\ r.kind = "fragment" /\ r.fragno = txfragmentno
              /\ FrameOf(r) = NextFrame /\ WellCut(r)
              /\ txfragmentno' = IF r.last THEN 0 ELSE txfragmentno + 1
              /\ NextFrame' = IF r.last THEN NextFrame + 1 ELSE NextFrame
<1> DEFINE k == FrameInHand
           left == Sizes[k] - txframeoffset
           n == Least(left, FragRoom)
           number == IF txfragmentno = 0 THEN Counted ELSE frameno
           d == SubSeq(Frame(k), txframeoffset + 1, txframeoffset + n)
           off == IF txfragmentno = 0 THEN Sizes[k] ELSE txframeoffset
           r == [kind |-> "fragment", fragno |-> txfragmentno, frameno |-> number,
                 offset |-> off, data |-> d, last |-> n = left]
<1>1. /\ txebuf # None \/ queue # <<>>
      /\ queue' = IF txebuf = None THEN Tail(queue) ELSE queue
      /\ frameno' = number /\ replies' = Append(replies, r)
      /\ n = left => /\ txebuf' = None /\ txfragmentno' = 0
      /\ n # left => /\ txebuf' = k /\ txfragmentno' = txfragmentno + 1
      /\ queued' = queued
  BY DEF EOE_send_fragment, FrameInHand, SentOff, Part
<1>2. /\ k \in Frames /\ k \in 1 .. queued /\ k = NextFrame /\ Sizes[k] \in Nat
      /\ txframeoffset \in Nat /\ txframeoffset < Sizes[k] /\ queued \in Nat
  BY <1>1, HandKnown
<1>3. n \in Nat /\ n # 0 /\ txframeoffset + n <= Sizes[k]
      /\ (n = left <=> txframeoffset + n = Sizes[k])
  <2>1. FragRoom \in Nat /\ FragRoom # 0
    BY EoeConstantsAssumption
  <2> HIDE DEF k
  <2>2. left \in Nat /\ left # 0 /\ txframeoffset + left = Sizes[k]
    BY <1>2
  <2>3. CASE n = left
    BY <1>2, <2>2, <2>3
  <2>4. CASE n = FragRoom /\ n < left
    BY <1>2, <2>1, <2>2, <2>4
  <2> QED
    BY <2>1, <2>2, <2>3, <2>4 DEF Least
<1>4. /\ Frame(k) \in Seq(Blocks) /\ Len(Frame(k)) = Sizes[k]
      /\ \A i \in 1 .. Sizes[k] : Frame(k)[i] = <<k, i>>
  BY <1>2, FrameTyped
<1> HIDE DEF k, n, left
<1>5. /\ d \in Seq(Blocks) /\ Len(d) = n /\ d[1] = Frame(k)[txframeoffset + 1]
  BY <1>2, <1>3, <1>4, PartTyped
<1>6. d # <<>>
  BY <1>3, <1>5, EmptySeq
<1>7. d[1] = <<k, txframeoffset + 1>>
  <2>1. txframeoffset + 1 \in 1 .. Sizes[k]
    BY <1>2
  <2> QED
    BY <1>4, <1>5, <2>1
<1>8. Started \in Nat /\ txfragmentno \in Nat
  BY StartedTyped DEF InHand
<1>9. number = k % FrameNos /\ number \in Nat
  <2>1. CASE txfragmentno = 0
    <3>1. k = Started + 1
      BY <1>2, <2>1 DEF NextFrame
    <3>2. number = ((Started % FrameNos) + 1) % FrameNos
      BY <2>1 DEF Numbered, Counted
    <3> QED
      BY <1>8, <3>1, <3>2, ModNext
  <2>2. CASE txfragmentno # 0
    <3>1. k = Started
      BY <1>2, <2>2 DEF NextFrame
    <3>2. number = Started % FrameNos
      BY <2>2 DEF Numbered
    <3> QED
      BY <1>8, <3>1, <3>2, ModNext
  <2> QED
    BY <2>1, <2>2
<1>10. /\ txebuf = None => Len(queue) = 1 /\ Len(queue') = 0 /\ k = queued /\ txfragmentno = 0
       /\ txebuf # None => Len(queue') = Len(queue) /\ k = queued - Len(queue) /\ Len(queue) \in {0, 1}
  <2>1. CASE txebuf = None
    <3>1. queue = <<queued>> /\ txfragmentno = 0
      BY <1>1, <2>1 DEF InHand
    <3>2. Len(queue) = 1 /\ Tail(queue) = <<>> /\ Head(queue) = queued
      BY <3>1
    <3> QED
      BY <1>1, <2>1, <3>1, <3>2 DEF k, FrameInHand
  <2>2. CASE txebuf # None
    BY <1>1, <2>2, InHandTyped DEF InHand, k, FrameInHand
  <2> QED
    BY <2>1, <2>2
<1>11. Started' = k
  <2>1. Started' = queued - Len(queue')
    <3>1. ~(txebuf' # None /\ txfragmentno' = 0)
      BY <1>1, <1>8
    <3>2. Len(queue') \in Int
      BY <1>10
    <3> QED
      BY <1>1, <1>2, <3>1, <3>2 DEF Started
  <2> QED
    BY <1>2, <1>10, <2>1
<1>12. Numbered'
  BY <1>1, <1>9, <1>11 DEF Numbered
<1> HIDE DEF d, number
<1>13. r \in Messages
  <2>1. off \in Nat
    BY <1>2
  <2> HIDE DEF off
  <2>2. r \in [kind : {"fragment"}, fragno : Nat, frameno : Int, offset : Nat, data : Seq(Blocks), last : BOOLEAN]
    BY <1>5, <1>8, <1>9, <2>1
  <2> QED
    BY <2>2 DEF Messages
<1>14. FrameOf(r) = k /\ PlaceOf(r) = txframeoffset
  <2>1. r.data = d
    OBVIOUS
  <2>2. d[1][1] = k /\ d[1][2] = txframeoffset + 1
    BY <1>7
  <2> QED
    BY <1>2, <2>1, <2>2 DEF FrameOf, PlaceOf
<1>15. WellCut(r)
  <2>1. /\ r.data = d /\ (r.last <=> n = left) /\ r.frameno = number /\ r.fragno = txfragmentno
        /\ r.offset = off
    OBVIOUS
  <2>2. txfragmentno = 0 => txframeoffset = 0
    BY DEF InHand
  <2>3. d = SubSeq(Frame(k), txframeoffset + 1, txframeoffset + Len(d))
    BY <1>5 DEF d
  <2> HIDE DEF r
  <2> QED
    BY <1>2, <1>3, <1>5, <1>6, <1>9, <1>14, <2>1, <2>2, <2>3 DEF WellCut
<1>16. /\ txfragmentno' = IF r.last THEN 0 ELSE txfragmentno + 1
       /\ NextFrame' = IF r.last THEN NextFrame + 1 ELSE NextFrame
  <2>1. r.last <=> n = left
    OBVIOUS
  <2> HIDE DEF r
  <2>2. txfragmentno' = IF r.last THEN 0 ELSE txfragmentno + 1
    BY <1>1, <2>1
  <2>3. NextFrame' = IF txfragmentno' = 0 THEN k + 1 ELSE k
    BY <1>11 DEF NextFrame
  <2> QED
    BY <1>2, <1>8, <2>2, <2>3
<1>17. r.kind = "fragment" /\ r.fragno = txfragmentno
  OBVIOUS
<1> HIDE DEF r
<1> QED
  BY <1>1, <1>2, <1>12, <1>13, <1>14, <1>15, <1>16, <1>17


-----------------------------------------------------------------------------
(* The settings.                                                           *)

LEMMA Appended ==
  ASSUME NEW r \in Messages, replies \in Seq(Messages), replies' = Append(replies, r)
  PROVE  /\ replies' \in Seq(Messages) /\ Len(replies) \in Nat /\ Len(replies') = Len(replies) + 1
         /\ \A i \in 1 .. Len(replies) : replies'[i] = replies[i]
         /\ replies'[Len(replies) + 1] = r
  BY AppendProperties, LenProperties

LEMMA Shifted ==
  ASSUME replies \in Seq(Messages), replies # <<>>, replies' = Tail(replies)
  PROVE  /\ replies' \in Seq(Messages) /\ Len(replies) \in Nat /\ Len(replies') = Len(replies) - 1
         /\ Len(replies) # 0 /\ Head(replies) = replies[1]
         /\ \A i \in 1 .. Len(replies') : replies'[i] = replies[i + 1]
<1>1. Len(replies) \in Nat /\ Len(replies) # 0
  BY LenProperties, EmptySeq
<1>2. /\ replies' \in Seq(Messages) /\ Len(replies') = Len(replies) - 1 /\ Head(replies) = replies[1]
      /\ \A i \in 1 .. Len(replies) - 1 : replies'[i] = replies[i + 1]
  BY <1>1, HeadTailProperties
<1> QED
  BY <1>1, <1>2

\* A step that answers nothing and sets nothing.
LEMMA SettingsSame ==
  ASSUME SettingsInv, UNCHANGED <<netVars, replies>>, req' = req \/ req'.kind # "set"
  PROVE  SettingsInv'
<1> USE DEF netVars
<1>1. CASE req' = req
  BY <1>1 DEF SettingsInv, SettingsTyped, AnswerHolds, Answers, ReadsBack, IsSet
<1>2. CASE req'.kind # "set"
  BY <1>2 DEF SettingsInv, SettingsTyped, AnswerHolds, Answers, ReadsBack, IsSet
<1> QED
  BY <1>1, <1>2

\* A fragment sent, or the settings told.
LEMMA SettingsAppend ==
  ASSUME SettingsInv, UNCHANGED netVars, req' = req \/ req'.kind # "set",
         NEW r \in Messages, replies' = Append(replies, r), r.kind # "response",
         r.kind = "params" =>
           \A f \in Fields : IsSet(f) => f \in r.fields /\ r.value[f] = known[f].value
  PROVE  SettingsInv'
<1> USE DEF netVars
<1>1. /\ replies' \in Seq(Messages) /\ Len(replies) \in Nat /\ Len(replies') = Len(replies) + 1
      /\ \A i \in 1 .. Len(replies) : replies'[i] = replies[i]
      /\ replies'[Len(replies) + 1] = r
  <2>1. replies \in Seq(Messages)
    BY DEF SettingsInv, SettingsTyped
  <2> QED
    BY <2>1, Appended
<1>2. \A v, i : Answers(i, v)' => Answers(i, v)
  BY <1>1 DEF Answers
<1>3. \A f \in Fields : IsSet(f)' <=> IsSet(f)
  BY DEF IsSet
<1>4. ASSUME NEW f \in Fields, IsSet(f), NEW j \in 1 .. Len(replies'),
             j # Len(replies) + 1 => ReadsBack(j, f)
      PROVE  ReadsBack(j, f)'
  <2>1. CASE j = Len(replies) + 1
    BY <1>1, <1>4, <2>1 DEF ReadsBack
  <2>2. CASE j # Len(replies) + 1
    <3>1. j \in 1 .. Len(replies)
      BY <1>1, <2>2
    <3> QED
      BY <1>1, <1>4, <2>2, <3>1 DEF ReadsBack
  <2> QED
    BY <2>1, <2>2
<1>5. SettingsTyped'
  <2>1. \A i \in 1 .. Len(replies') : replies'[i].kind = "response" => replies'[i].value \in 1 .. values'
    <3>1. ASSUME NEW i \in 1 .. Len(replies'), replies'[i].kind = "response"
          PROVE  replies'[i].value \in 1 .. values'
      <4>1. i \in 1 .. Len(replies)
        BY <1>1, <3>1
      <4> QED
        BY <1>1, <3>1, <4>1 DEF SettingsInv, SettingsTyped
    <3> QED
      BY <3>1
  <2>2. CASE req' = req
    BY <1>1, <2>1, <2>2 DEF SettingsInv, SettingsTyped
  <2>3. CASE req'.kind # "set"
    BY <1>1, <2>1, <2>3 DEF SettingsInv, SettingsTyped
  <2> QED
    BY <2>2, <2>3
<1>6. AnswerHolds'
  <2>1. ASSUME req'.kind = "set"
        PROVE  /\ \A f \in Fields : known'[f].value = req'.value => ~known'[f].told /\ f \in req'.carried
               /\ \A f \in Touched(req') : known'[f].value \in {0, req'.value}
               /\ \A i \in 1 .. Len(replies') : ~Answers(i, req.value)'
    <3>1. req' = req
      BY <2>1
    <3>2. /\ \A f \in Fields : known[f].value = req.value => ~known[f].told /\ f \in req.carried
          /\ \A f \in Touched(req) : known[f].value \in {0, req.value}
          /\ \A i \in 1 .. Len(replies) : ~Answers(i, req.value)
      BY <2>1, <3>1 DEF SettingsInv, AnswerHolds
    <3>3. \A i : ~Answers(i, req.value)
      BY <3>2 DEF Answers
    <3>4. \A i \in 1 .. Len(replies') : ~Answers(i, req.value)'
      BY <1>1, <3>1, <3>3 DEF Answers
    <3> QED
      BY <3>1, <3>2, <3>4
  <2>2. ASSUME NEW f \in Fields, NEW i \in 1 .. Len(replies'), Answers(i, known[f].value)'
        PROVE  IsSet(f)' /\ \A j \in i + 1 .. Len(replies') : ReadsBack(j, f)'
    <3>1. Answers(i, known[f].value)
      BY <1>1, <2>2 DEF Answers
    <3>2. i \in 1 .. Len(replies) /\ IsSet(f) /\ \A j \in i + 1 .. Len(replies) : ReadsBack(j, f)
      BY <3>1 DEF SettingsInv, AnswerHolds, Answers
    <3>3. ASSUME NEW j \in i + 1 .. Len(replies') PROVE ReadsBack(j, f)'
      <4>1. j \in 1 .. Len(replies') /\ (j # Len(replies) + 1 => j \in i + 1 .. Len(replies))
        BY <1>1, <3>2
      <4> QED
        BY <1>4, <3>2, <4>1
    <3> QED
      BY <1>3, <3>2, <3>3
  <2>3. ASSUME NEW f \in Fields, known'[f].told
        PROVE  known'[f].value # 0 /\ IsSet(f)' /\ \A j \in 1 .. Len(replies') : ReadsBack(j, f)'
    <3>1. known[f].value # 0 /\ IsSet(f) /\ \A j \in 1 .. Len(replies) : ReadsBack(j, f)
      BY <2>3 DEF SettingsInv, AnswerHolds
    <3>2. ASSUME NEW j \in 1 .. Len(replies') PROVE ReadsBack(j, f)'
      <4>1. j # Len(replies) + 1 => j \in 1 .. Len(replies)
        BY <1>1
      <4> QED
        BY <1>4, <3>1, <4>1
    <3> QED
      BY <1>3, <3>1, <3>2
  <2> QED
    BY <2>1, <2>2, <2>3 DEF AnswerHolds
<1> QED
  BY <1>5, <1>6 DEF SettingsInv


LEMMA SettingsAsked ==
  ASSUME SettingsInv, AskSettings
  PROVE  SettingsInv'
<1> USE DEF netVars
<1>1. values \in Nat /\ values' = values + 1 /\ UNCHANGED <<nic_ports, replies>>
  BY DEF AskSettings, SettingsInv, SettingsTyped
<1>2. CASE req' = [kind |-> "get"] /\ UNCHANGED known
  BY <1>1, <1>2 DEF SettingsInv, SettingsTyped, AnswerHolds, Answers, ReadsBack, IsSet
<1>3. ASSUME NEW fs \in SUBSET Fields, NEW b \in SUBSET fs,
             req' = [kind |-> "set", fields |-> fs, carried |-> b, value |-> values'],
             known' = Asked(req')
      PROVE  SettingsInv'
  <2> DEFINE T == Touched(req')
  <2>1. /\ known \in [Fields -> [value : Nat, told : BOOLEAN]]
        /\ \A f \in Fields : known[f].value <= values
    BY DEF SettingsInv, SettingsTyped
  <2>0. /\ req'.kind = "set" /\ req'.fields = fs /\ req'.carried = b /\ req'.value = values'
        /\ b \subseteq T /\ T \subseteq fs
    BY <1>3 DEF Touched, Garbled
  <2>2. /\ \A f \in b : known'[f].value = values' /\ ~known'[f].told
        /\ \A f \in T : f \notin b => known'[f].value = 0 /\ ~known'[f].told
        /\ \A f \in Fields : f \notin T => known'[f] = known[f]
        /\ known' \in [Fields -> [value : Nat, told : BOOLEAN]]
    <3>1. known' = [f \in Fields |-> IF f \in b THEN [value |-> values', told |-> FALSE]
                                     ELSE IF f \in Garbled(req') THEN Unknown ELSE known[f]]
      BY <1>3, <2>0 DEF Asked
    <3>2. \A f : f \in T <=> f \in b \/ f \in Garbled(req')
      BY <2>0 DEF Touched
    <3> HIDE DEF T
    <3> QED
      BY <1>1, <2>0, <2>1, <3>1, <3>2 DEF Unknown
  <2> HIDE DEF T
  <2>3. \A i, v : Answers(i, v)' => Answers(i, v) /\ v <= values /\ v # values'
    <3>1. ASSUME NEW i, NEW v, Answers(i, v)' PROVE Answers(i, v) /\ v <= values /\ v # values'
      <4>1. Answers(i, v)
        BY <1>1, <3>1 DEF Answers
      <4>2. v \in 1 .. values
        BY <4>1 DEF Answers, SettingsInv, SettingsTyped
      <4> QED
        BY <1>1, <4>1, <4>2
    <3> QED
      BY <3>1
  <2>4. \A f \in Fields : f \notin T =>
          /\ IsSet(f) => IsSet(f)'
          /\ \A j : ReadsBack(j, f) => ReadsBack(j, f)'
    BY <1>1, <2>2 DEF IsSet, ReadsBack
  <2>5. SettingsTyped'
    <3>1. known' \in [Fields -> [value : Nat, told : BOOLEAN]]
      BY <2>2
    <3>2. \A f \in Fields : known'[f].value <= values'
      <4>1. ASSUME NEW f \in Fields PROVE known'[f].value <= values'
        <5>1. CASE f \in T
          <6>1. known'[f].value \in {0, values'}
            BY <2>2, <5>1
          <6> QED
            BY <1>1, <6>1
        <5>2. CASE f \notin T
          <6>1. known[f].value \in Nat /\ known[f].value <= values /\ known'[f] = known[f]
            BY <2>1, <2>2, <5>2
          <6> QED
            BY <1>1, <6>1
        <5> QED
          BY <5>1, <5>2
      <4> QED
        BY <4>1
    <3>3. req'.value \in 1 .. values' /\ req'.fields \subseteq Fields /\ req'.carried \subseteq req'.fields
      <4>1. values' \in 1 .. values'
        BY <1>1
      <4> QED
        BY <2>0, <4>1
    <3>4. \A i \in 1 .. Len(replies') : replies'[i].kind = "response" => replies'[i].value \in 1 .. values'
      <4>1. \A i \in 1 .. Len(replies) : replies[i].kind = "response" => replies[i].value \in 1 .. values
        BY DEF SettingsInv, SettingsTyped
      <4>2. \A v \in 1 .. values : v \in 1 .. values'
        BY <1>1
      <4> QED
        BY <1>1, <4>1, <4>2
    <3>5. nic_ports' \in [Fields -> [set : BOOLEAN, value : Nat]] /\ replies' \in Seq(Messages)
      BY <1>1 DEF SettingsInv, SettingsTyped
    <3>6. values' \in Nat
      BY <1>1
    <3> QED
      BY <3>1, <3>2, <3>3, <3>4, <3>5, <3>6 DEF SettingsTyped
  <2>6. /\ \A f \in Fields : known'[f].value = req'.value => ~known'[f].told /\ f \in req'.carried
        /\ \A f \in Touched(req') : known'[f].value \in {0, req'.value}
        /\ \A i \in 1 .. Len(replies') : ~Answers(i, req.value)'
    <3>1. ASSUME NEW f \in Fields, known'[f].value = req'.value PROVE ~known'[f].told /\ f \in req'.carried
      <4>1. CASE f \in T
        <5>1. values' # 0
          BY <1>1
        <5> QED
          BY <2>0, <2>2, <3>1, <4>1, <5>1
      <4>2. CASE f \notin T
        <5>1. known[f].value <= values /\ known[f].value \in Nat /\ known[f].value = values'
          BY <2>0, <2>1, <2>2, <3>1, <4>2
        <5> QED
          BY <1>1, <5>1
      <4> QED
        BY <4>1, <4>2
    <3>2. \A f \in Touched(req') : known'[f].value \in {0, req'.value}
      BY <2>0, <2>2 DEF T
    <3>3. req'.value = values'
      BY <2>0
    <3>4. \A i \in 1 .. Len(replies') : ~Answers(i, req.value)'
      BY <2>3, <3>3
    <3> QED
      BY <3>1, <3>2, <3>4
  <2>7. ASSUME NEW f \in Fields, NEW i \in 1 .. Len(replies'), Answers(i, known[f].value)'
        PROVE  IsSet(f)' /\ \A j \in i + 1 .. Len(replies') : ReadsBack(j, f)'
    <3>1. Answers(i, known'[f].value) /\ known'[f].value # values'
      BY <2>3, <2>7
    <3>2. f \notin T /\ known'[f] = known[f]
      <4>1. known'[f].value # 0
        BY <3>1 DEF Answers, SettingsInv, SettingsTyped
      <4>2. f \notin T
        BY <2>0, <2>2, <3>1, <4>1
      <4> QED
        BY <2>2, <4>2
    <3>3. IsSet(f) /\ \A j \in i + 1 .. Len(replies) : ReadsBack(j, f)
      BY <1>1, <3>1, <3>2 DEF SettingsInv, AnswerHolds
    <3> QED
      BY <1>1, <2>4, <3>2, <3>3
  <2>8. ASSUME NEW f \in Fields, known'[f].told
        PROVE  known'[f].value # 0 /\ IsSet(f)' /\ \A j \in 1 .. Len(replies') : ReadsBack(j, f)'
    <3>1. f \notin T /\ known'[f] = known[f]
      BY <2>2, <2>8
    <3>2. known[f].value # 0 /\ IsSet(f) /\ \A j \in 1 .. Len(replies) : ReadsBack(j, f)
      BY <2>8, <3>1 DEF SettingsInv, AnswerHolds
    <3> QED
      BY <1>1, <2>4, <3>1, <3>2
  <2>9. AnswerHolds'
    BY <2>6, <2>7, <2>8 DEF AnswerHolds
  <2> QED
    BY <2>5, <2>9 DEF SettingsInv
<1> QED
  BY <1>2, <1>3 DEF AskSettings, Beginnings

LEMMA SettingsStored ==
  ASSUME SettingsInv, req.kind = "set", EOE_set_ip(req), req' = Nothing, UNCHANGED <<known, values>>
  PROVE  SettingsInv'
<1>1. /\ req.value \in 1 .. values /\ req.fields \subseteq Fields /\ req.carried \subseteq req.fields
      /\ values \in Nat /\ replies \in Seq(Messages)
      /\ nic_ports \in [Fields -> [set : BOOLEAN, value : Nat]]
  BY DEF SettingsInv, SettingsTyped
<1>0. \A f \in Fields : nic_ports'[f] = StoredField(req, f)
  BY DEF EOE_set_ip
<1>2. ASSUME NEW f \in Fields, f \notin Touched(req)
      PROVE  nic_ports'[f].value = nic_ports[f].value /\ (nic_ports[f].set => nic_ports'[f].set)
  <2> DEFINE set == nic_ports[f].set \/ f \in req.fields
  <2>1. nic_ports'[f] = [nic_ports[f] EXCEPT !.set = set]
    BY <1>0, <1>2 DEF StoredField, Touched
  <2>2. nic_ports[f] \in [set : BOOLEAN, value : Nat]
    BY <1>1
  <2> HIDE DEF set
  <2>3. nic_ports'[f].set = set /\ nic_ports'[f].value = nic_ports[f].value
    BY <2>1, <2>2
  <2> QED
    BY <2>3 DEF set
<1>3. \A f \in req.carried : nic_ports'[f] = [set |-> TRUE, value |-> req.value]
  BY <1>0, <1>1 DEF StoredField
<1>4. nic_ports' \in [Fields -> [set : BOOLEAN, value : Nat]]
  <2>2. ASSUME NEW f \in Fields PROVE StoredField(req, f) \in [set : BOOLEAN, value : Nat]
    <3> DEFINE set == nic_ports[f].set \/ f \in req.fields
    <3>1. nic_ports[f] \in [set : BOOLEAN, value : Nat] /\ set \in BOOLEAN
      BY <1>1
    <3>2. StoredField(req, f) \in {[set |-> TRUE, value |-> req.value], [set |-> TRUE, value |-> 0],
                                   [nic_ports[f] EXCEPT !.set = set]}
      BY DEF StoredField
    <3> HIDE DEF set
    <3>3. [nic_ports[f] EXCEPT !.set = set] \in [set : BOOLEAN, value : Nat]
      BY <3>1
    <3>4. \A v \in Nat : [set |-> TRUE, value |-> v] \in [set : BOOLEAN, value : Nat]
      OBVIOUS
    <3>5. req.value \in Nat /\ 0 \in Nat
      BY <1>1
    <3> QED
      BY <3>2, <3>3, <3>4, <3>5
  <2> QED
    BY <2>2 DEF EOE_set_ip
<1> DEFINE Reply(result) == [kind |-> "response", result |-> result, value |-> req.value]
<1>5. PICK result \in {"SIZETOOSHORT", "SUCCESS", "FAILED"} :
        replies' = IF Buffer THEN Append(replies, Reply(result)) ELSE replies
  BY DEF EOE_set_ip
<1>6. Reply(result) \in Messages
  <2>1. Reply(result) \in [kind : {"response"}, result : {"SUCCESS", "FAILED", "SIZETOOSHORT"}, value : Nat]
    BY <1>1
  <2> QED
    BY <2>1 DEF Messages
<1> DEFINE r == Reply(result)
<1>7. r.kind = "response" /\ r.result = result /\ r.value = req.value
  OBVIOUS
<1> HIDE DEF r, Reply
<1>8. /\ replies' \in Seq(Messages) /\ Len(replies) \in Nat
      /\ \A i \in 1 .. Len(replies) : i \in 1 .. Len(replies') /\ replies'[i] = replies[i]
      /\ \A i \in 1 .. Len(replies') : i \in 1 .. Len(replies) \/ replies'[i] = r
      /\ \A i \in 1 .. Len(replies') : i \notin 1 .. Len(replies) => \A j \in i + 1 .. Len(replies') : FALSE
  <2>1. CASE replies' = replies
    BY <1>1, <2>1, LenProperties
  <2>2. CASE replies' = Append(replies, r)
    BY <1>1, <1>6, <2>2, Appended DEF r
  <2> QED
    BY <1>5, <2>1, <2>2 DEF r
<1>9. \A f \in Fields : (known[f].told \/ \E i : Answers(i, known[f].value)) => f \notin Touched(req)
  <2>1. \A i : ~Answers(i, req.value)
    BY DEF SettingsInv, AnswerHolds, Answers
  <2>2. \A i : ~Answers(i, 0)
    BY <1>1 DEF SettingsInv, SettingsTyped, Answers
  <2>3. \A f \in Touched(req) : known[f].value \in {0, req.value}
    BY DEF SettingsInv, AnswerHolds
  <2>4. \A f \in Fields : known[f].told => known[f].value # 0
    BY DEF SettingsInv, AnswerHolds
  <2>5. \A f \in Fields : known[f].value = req.value => ~known[f].told
    BY DEF SettingsInv, AnswerHolds
  <2> QED
    BY <2>1, <2>2, <2>3, <2>4, <2>5
<1>10. \A f \in Fields : f \notin Touched(req) => (IsSet(f) => IsSet(f)')
  BY <1>2 DEF IsSet
<1>11. ASSUME NEW f \in Fields, NEW j \in 1 .. Len(replies'), j \in 1 .. Len(replies) => ReadsBack(j, f)
       PROVE  ReadsBack(j, f)'
  BY <1>7, <1>8, <1>11 DEF ReadsBack
<1>12. SettingsTyped'
  <2>1. \A i \in 1 .. Len(replies') : replies'[i].kind = "response" => replies'[i].value \in 1 .. values
    <3>1. \A i \in 1 .. Len(replies) : replies[i].kind = "response" => replies[i].value \in 1 .. values
      BY DEF SettingsInv, SettingsTyped
    <3> QED
      BY <1>1, <1>7, <1>8, <3>1
  <2>2. req'.kind # "set"
    BY DEF Nothing
  <2> QED
    BY <1>4, <1>8, <2>1, <2>2 DEF SettingsInv, SettingsTyped
<1>13. ASSUME NEW f \in Fields, NEW i \in 1 .. Len(replies'), Answers(i, known[f].value)'
       PROVE  IsSet(f)' /\ \A j \in i + 1 .. Len(replies') : ReadsBack(j, f)'
  <2>1. CASE i \in 1 .. Len(replies)
    <3>1. Answers(i, known[f].value)
      BY <1>8, <1>13, <2>1 DEF Answers
    <3>2. IsSet(f) /\ \A j \in i + 1 .. Len(replies) : ReadsBack(j, f)
      BY <2>1, <3>1 DEF SettingsInv, AnswerHolds
    <3>3. ASSUME NEW j \in i + 1 .. Len(replies') PROVE ReadsBack(j, f)'
      <4>1. j \in 1 .. Len(replies') /\ (j \in 1 .. Len(replies) => j \in i + 1 .. Len(replies))
        BY <1>8, <2>1
      <4> QED
        BY <1>11, <3>2, <4>1
    <3> QED
      BY <1>9, <1>10, <3>1, <3>2, <3>3
  <2>2. CASE i \notin 1 .. Len(replies)
    <3>1. replies'[i] = r
      BY <1>8, <2>2
    <3>2. result = "SUCCESS" /\ known[f].value = req.value
      BY <1>7, <1>13, <3>1 DEF Answers
    <3>3. f \in req.carried
      BY <3>2 DEF SettingsInv, AnswerHolds
    <3>4. IsSet(f)'
      BY <1>3, <3>2, <3>3 DEF IsSet
    <3>5. \A j \in i + 1 .. Len(replies') : ReadsBack(j, f)'
      BY <1>8, <2>2
    <3> QED
      BY <3>4, <3>5
  <2> QED
    BY <2>1, <2>2
<1>14. ASSUME NEW f \in Fields, known'[f].told
       PROVE  known'[f].value # 0 /\ IsSet(f)' /\ \A j \in 1 .. Len(replies') : ReadsBack(j, f)'
  <2>1. known[f].value # 0 /\ IsSet(f) /\ \A j \in 1 .. Len(replies) : ReadsBack(j, f)
    BY <1>14 DEF SettingsInv, AnswerHolds
  <2> QED
    BY <1>9, <1>10, <1>11, <1>14, <2>1
<1>15. AnswerHolds'
  <2>1. req'.kind # "set"
    BY DEF Nothing
  <2> QED
    BY <1>13, <1>14, <2>1 DEF AnswerHolds
<1> QED
  BY <1>12, <1>15 DEF SettingsInv


LEMMA SettingsRead ==
  ASSUME SettingsInv, ReadMbx
  PROVE  SettingsInv'
<1> DEFINE h == Head(replies)
<1>1. /\ replies' \in Seq(Messages) /\ Len(replies) \in Nat /\ Len(replies') = Len(replies) - 1
      /\ Len(replies) # 0 /\ h = replies[1]
      /\ \A i \in 1 .. Len(replies') : replies'[i] = replies[i + 1]
  <2>1. replies \in Seq(Messages) /\ replies # <<>> /\ replies' = Tail(replies)
    BY DEF ReadMbx, SettingsInv, SettingsTyped
  <2> QED
    BY <2>1, Shifted
<1>2. /\ UNCHANGED <<nic_ports, values, req>>
      /\ known' = IF h.kind = "response" /\ h.result = "SUCCESS" THEN Told(h.value) ELSE known
  BY DEF ReadMbx
<1>3. known \in [Fields -> [value : Nat, told : BOOLEAN]]
  BY DEF SettingsInv, SettingsTyped
<1>4. /\ known' \in [Fields -> [value : Nat, told : BOOLEAN]]
      /\ \A f \in Fields : known'[f].value = known[f].value
      /\ \A f \in Fields : known'[f].told => known[f].told \/ Answers(1, known[f].value)
  <2>1. CASE known' = known
    BY <1>3, <2>1
  <2>2. CASE h.kind = "response" /\ h.result = "SUCCESS" /\ known' = Told(h.value)
    <3>1. \A f \in Fields : known[f].value = h.value => Answers(1, known[f].value)
      BY <1>1, <2>2 DEF Answers
    <3>2. \A f \in Fields : known'[f] = [known[f] EXCEPT !.told = known[f].told \/ known[f].value = h.value]
      BY <2>2 DEF Told
    <3>3. ASSUME NEW f \in Fields
          PROVE  /\ known'[f].value = known[f].value
                 /\ known'[f].told <=> known[f].told \/ known[f].value = h.value
      <4>1. known[f] \in [value : Nat, told : BOOLEAN]
        BY <1>3
      <4> DEFINE t == known[f].told \/ known[f].value = h.value
      <4>2. known'[f] = [known[f] EXCEPT !.told = t]
        BY <3>2
      <4> HIDE DEF t
      <4>3. known'[f].value = known[f].value /\ known'[f].told = t
        BY <4>1, <4>2
      <4> QED
        BY <4>3 DEF t
    <3>4. known' \in [Fields -> [value : Nat, told : BOOLEAN]]
      BY <1>3, <2>2 DEF Told
    <3> QED
      BY <3>1, <3>3, <3>4
  <2> QED
    BY <1>2, <2>1, <2>2
<1> HIDE DEF h
<1>5. \A f \in Fields : IsSet(f)' <=> IsSet(f)
  BY <1>2, <1>4 DEF IsSet
<1>6. ASSUME NEW f \in Fields, NEW j \in 1 .. Len(replies'), ReadsBack(j + 1, f)
      PROVE  ReadsBack(j, f)'
  BY <1>1, <1>4, <1>6 DEF ReadsBack
<1>7. ASSUME NEW i \in 1 .. Len(replies'), NEW v, Answers(i, v)'
      PROVE  Answers(i + 1, v)
  <2>1. i + 1 \in 1 .. Len(replies) /\ replies'[i] = replies[i + 1]
    BY <1>1
  <2> QED
    BY <1>7, <2>1 DEF Answers
<1>8. SettingsTyped'
  <2>1. \A i \in 1 .. Len(replies') : replies'[i].kind = "response" => replies'[i].value \in 1 .. values
    <3>1. ASSUME NEW i \in 1 .. Len(replies'), replies'[i].kind = "response"
          PROVE  replies'[i].value \in 1 .. values
      <4>1. i + 1 \in 1 .. Len(replies) /\ replies'[i] = replies[i + 1]
        BY <1>1
      <4> QED
        BY <3>1, <4>1 DEF SettingsInv, SettingsTyped
    <3> QED
      BY <3>1
  <2>2. \A f \in Fields : known'[f].value <= values'
    BY <1>2, <1>4 DEF SettingsInv, SettingsTyped
  <2> QED
    BY <1>1, <1>2, <1>4, <2>1, <2>2 DEF SettingsInv, SettingsTyped
<1>9. ASSUME req'.kind = "set"
      PROVE  /\ \A f \in Fields : known'[f].value = req'.value => ~known'[f].told /\ f \in req'.carried
             /\ \A f \in Touched(req') : known'[f].value \in {0, req'.value}
             /\ \A i \in 1 .. Len(replies') : ~Answers(i, req.value)'
  <2>1. req.kind = "set" /\ req.fields \subseteq Fields /\ req.carried \subseteq req.fields
    BY <1>2, <1>9 DEF SettingsInv, SettingsTyped
  <2>2. /\ \A f \in Fields : known[f].value = req.value => ~known[f].told /\ f \in req.carried
        /\ \A f \in Touched(req) : known[f].value \in {0, req.value}
        /\ \A i \in 1 .. Len(replies) : ~Answers(i, req.value)
    BY <2>1 DEF SettingsInv, AnswerHolds
  <2>3. \A i : ~Answers(i, req.value)
    BY <2>2 DEF Answers
  <2>4. \A f \in Fields : known'[f].value = req'.value => ~known'[f].told /\ f \in req'.carried
    <3>1. ASSUME NEW f \in Fields, known'[f].value = req'.value PROVE ~known'[f].told /\ f \in req'.carried
      <4>1. known[f].value = req.value
        BY <1>2, <1>4, <3>1
      <4>2. ~known[f].told /\ f \in req.carried /\ ~Answers(1, known[f].value)
        BY <2>2, <2>3, <4>1
      <4> QED
        BY <1>2, <1>4, <4>2
    <3> QED
      BY <3>1
  <2>5. \A f \in Touched(req') : known'[f].value \in {0, req'.value}
    <3>1. req' = req
      BY <1>2
    <3>2. \A f \in Touched(req) : f \in Fields
      BY <2>1 DEF Touched, Garbled
    <3> QED
      BY <1>4, <2>2, <3>1, <3>2
  <2>6. \A i \in 1 .. Len(replies') : ~Answers(i, req.value)'
    BY <1>2, <1>7, <2>3
  <2> QED
    BY <2>4, <2>5, <2>6
<1>10. ASSUME NEW f \in Fields, NEW i \in 1 .. Len(replies'), Answers(i, known[f].value)'
       PROVE  IsSet(f)' /\ \A j \in i + 1 .. Len(replies') : ReadsBack(j, f)'
  <2>1. Answers(i + 1, known[f].value)
    <3>1. Answers(i + 1, known'[f].value)
      BY <1>7, <1>10
    <3> QED
      BY <1>4, <3>1
  <2>2. IsSet(f) /\ \A j \in i + 1 + 1 .. Len(replies) : ReadsBack(j, f)
    <3>1. i + 1 \in 1 .. Len(replies)
      BY <1>1
    <3> QED
      BY <2>1, <3>1 DEF SettingsInv, AnswerHolds
  <2>3. ASSUME NEW j \in i + 1 .. Len(replies') PROVE ReadsBack(j, f)'
    <3>1. j + 1 \in i + 1 + 1 .. Len(replies) /\ j \in 1 .. Len(replies')
      BY <1>1
    <3> QED
      BY <1>6, <2>2, <3>1
  <2> QED
    BY <1>5, <2>2, <2>3
<1>11. ASSUME NEW f \in Fields, known'[f].told
       PROVE  known'[f].value # 0 /\ IsSet(f)' /\ \A j \in 1 .. Len(replies') : ReadsBack(j, f)'
  <2>1. known[f].value # 0 /\ IsSet(f) /\ \A j \in 2 .. Len(replies) : ReadsBack(j, f)
    <3>1. CASE known[f].told
      <4>1. known[f].value # 0 /\ IsSet(f) /\ \A j \in 1 .. Len(replies) : ReadsBack(j, f)
        BY <3>1 DEF SettingsInv, AnswerHolds
      <4>2. \A j \in 2 .. Len(replies) : j \in 1 .. Len(replies)
        BY <1>1
      <4> QED
        BY <4>1, <4>2
    <3>2. CASE Answers(1, known[f].value)
      <4>1. IsSet(f) /\ \A j \in 1 + 1 .. Len(replies) : ReadsBack(j, f)
        BY <3>2 DEF SettingsInv, AnswerHolds, Answers
      <4>2. known[f].value \in 1 .. values
        BY <3>2 DEF Answers, SettingsInv, SettingsTyped
      <4> QED
        BY <4>1, <4>2
    <3> QED
      BY <1>4, <1>11, <3>1, <3>2
  <2>2. ASSUME NEW j \in 1 .. Len(replies') PROVE ReadsBack(j, f)'
    <3>1. j + 1 \in 2 .. Len(replies)
      BY <1>1
    <3> QED
      BY <1>6, <2>1, <3>1
  <2> QED
    BY <1>4, <1>5, <2>1, <2>2
<1>12. AnswerHolds'
  BY <1>9, <1>10, <1>11 DEF AnswerHolds
<1> QED
  BY <1>8, <1>12 DEF SettingsInv

LEMMA SettingsMade ==
  ASSUME SettingsInv, NEW gs \in SUBSET Fields, EOE_ecat_set(gs)
  PROVE  SettingsInv'
<1>1. /\ values \in Nat /\ values' = values + 1 /\ UNCHANGED <<req, replies>>
      /\ nic_ports' = [f \in Fields |-> IF f \in gs THEN [set |-> nic_ports[f].set \/ Marks(f), value |-> values']
                                        ELSE nic_ports[f]]
      /\ known' = [f \in Fields |-> IF f \in gs THEN Unknown ELSE known[f]]
  BY DEF EOE_ecat_set, SettingsInv, SettingsTyped
<1>2. /\ known \in [Fields -> [value : Nat, told : BOOLEAN]]
      /\ nic_ports \in [Fields -> [set : BOOLEAN, value : Nat]]
  BY DEF SettingsInv, SettingsTyped
<1>3. /\ known' \in [Fields -> [value : Nat, told : BOOLEAN]]
      /\ \A f \in gs : known'[f].value = 0 /\ ~known'[f].told
      /\ \A f \in Fields : f \notin gs => known'[f] = known[f] /\ nic_ports'[f] = nic_ports[f]
  BY <1>1, <1>2 DEF Unknown
<1>4. nic_ports' \in [Fields -> [set : BOOLEAN, value : Nat]]
  <2>1. ASSUME NEW f \in Fields
        PROVE  [set |-> nic_ports[f].set \/ Marks(f), value |-> values'] \in [set : BOOLEAN, value : Nat]
    <3>1. (nic_ports[f].set \/ Marks(f)) \in BOOLEAN
      OBVIOUS
    <3>2. values' \in Nat
      BY <1>1
    <3> QED
      BY <3>1, <3>2
  <2> QED
    BY <1>1, <1>2, <2>1
<1>5. \A i, v : Answers(i, v) => v # 0
  BY DEF Answers, SettingsInv, SettingsTyped
<1>6. \A i, v : Answers(i, v)' <=> Answers(i, v)
  BY <1>1 DEF Answers
<1>7. \A f \in Fields : f \notin gs => /\ IsSet(f) => IsSet(f)'
                                 /\ \A j : ReadsBack(j, f) => ReadsBack(j, f)'
  BY <1>1, <1>3 DEF IsSet, ReadsBack
<1>8. SettingsTyped'
  <2>1. \A f \in Fields : known'[f].value <= values'
    <3>1. ASSUME NEW f \in Fields PROVE known'[f].value <= values'
      <4>1. known[f].value \in Nat /\ known[f].value <= values
        BY <1>2 DEF SettingsInv, SettingsTyped
      <4> QED
        BY <1>1, <1>3, <4>1
    <3> QED
      BY <3>1
  <2>2. \A v \in 1 .. values : v \in 1 .. values'
    BY <1>1
  <2>3. values' \in Nat /\ replies' \in Seq(Messages)
    BY <1>1 DEF SettingsInv, SettingsTyped
  <2>4. req'.kind = "set" => req'.value \in 1 .. values' /\ req'.fields \subseteq Fields /\ req'.carried \subseteq req'.fields
    BY <1>1, <2>2 DEF SettingsInv, SettingsTyped
  <2>5. \A i \in 1 .. Len(replies') : replies'[i].kind = "response" => replies'[i].value \in 1 .. values'
    BY <1>1, <2>2 DEF SettingsInv, SettingsTyped
  <2> QED
    BY <1>3, <1>4, <2>1, <2>3, <2>4, <2>5 DEF SettingsTyped
<1>9. ASSUME req'.kind = "set"
      PROVE  /\ \A f \in Fields : known'[f].value = req'.value => ~known'[f].told /\ f \in req'.carried
             /\ \A f \in Touched(req') : known'[f].value \in {0, req'.value}
             /\ \A i \in 1 .. Len(replies') : ~Answers(i, req.value)'
  <2>1. /\ req.value # 0 /\ req.fields \subseteq Fields /\ req.carried \subseteq req.fields
        /\ \A f \in Fields : known[f].value = req.value => ~known[f].told /\ f \in req.carried
        /\ \A f \in Touched(req) : known[f].value \in {0, req.value}
        /\ \A i \in 1 .. Len(replies) : ~Answers(i, req.value)
    BY <1>1, <1>9 DEF SettingsInv, SettingsTyped, AnswerHolds
  <2>2. \A f \in Fields : known'[f].value = req'.value => ~known'[f].told /\ f \in req'.carried
    BY <1>1, <1>3, <2>1
  <2>3. \A f \in Touched(req') : known'[f].value \in {0, req'.value}
    <3>1. req' = req
      BY <1>1
    <3>2. \A f \in Touched(req) : f \in Fields
      BY <2>1 DEF Touched, Garbled
    <3> QED
      BY <1>3, <2>1, <3>1, <3>2
  <2>4. \A i \in 1 .. Len(replies') : ~Answers(i, req.value)'
    BY <1>1, <1>6, <2>1
  <2> QED
    BY <2>2, <2>3, <2>4
<1>10. ASSUME NEW f \in Fields, NEW i \in 1 .. Len(replies'), Answers(i, known[f].value)'
       PROVE  IsSet(f)' /\ \A j \in i + 1 .. Len(replies') : ReadsBack(j, f)'
  <2>1. Answers(i, known'[f].value)
    BY <1>1, <1>10 DEF Answers
  <2>2. f \notin gs /\ known'[f] = known[f]
    BY <1>3, <1>5, <2>1
  <2>3. IsSet(f) /\ \A j \in i + 1 .. Len(replies) : ReadsBack(j, f)
    BY <1>1, <2>1, <2>2 DEF SettingsInv, AnswerHolds
  <2> QED
    BY <1>1, <1>7, <2>2, <2>3
<1>11. ASSUME NEW f \in Fields, known'[f].told
       PROVE  known'[f].value # 0 /\ IsSet(f)' /\ \A j \in 1 .. Len(replies') : ReadsBack(j, f)'
  <2>1. f \notin gs /\ known'[f] = known[f]
    BY <1>3, <1>11
  <2>2. known[f].value # 0 /\ IsSet(f) /\ \A j \in 1 .. Len(replies) : ReadsBack(j, f)
    BY <1>11, <2>1 DEF SettingsInv, AnswerHolds
  <2> QED
    BY <1>1, <1>7, <2>1, <2>2
<1>12. AnswerHolds'
  BY <1>9, <1>10, <1>11 DEF AnswerHolds
<1> QED
  BY <1>8, <1>12 DEF SettingsInv


LEMMA SettingsTold ==
  ASSUME SettingsInv, req.kind = "get", EOE_get_ip, req' = Nothing, UNCHANGED <<known, values>>
  PROVE  SettingsInv'
<1> DEFINE r == [kind |-> "params", fields |-> {f \in Fields : nic_ports[f].set},
                 value |-> [f \in Fields |-> nic_ports[f].value]]
<1>1. replies' = (IF Buffer THEN Append(replies, r) ELSE replies) /\ UNCHANGED netVars /\ req'.kind # "set"
  BY DEF EOE_get_ip, netVars, Nothing
<1>2. r \in Messages
  <2>1. nic_ports \in [Fields -> [set : BOOLEAN, value : Nat]]
    BY DEF SettingsInv, SettingsTyped
  <2>2. r \in [kind : {"params"}, fields : SUBSET Fields, value : [Fields -> Nat]]
    BY <2>1
  <2> QED
    BY <2>2 DEF Messages
<1>3. \A f \in Fields : IsSet(f) => f \in r.fields /\ r.value[f] = known[f].value
  BY DEF IsSet
<1>4. r.kind # "response"
  OBVIOUS
<1> HIDE DEF r
<1>5. CASE replies' = Append(replies, r)
  BY <1>1, <1>2, <1>3, <1>4, <1>5, SettingsAppend
<1>6. CASE replies' = replies
  BY <1>1, <1>6, SettingsSame
<1> QED
  BY <1>1, <1>5, <1>6

LEMMA SettingsStep ==
  ASSUME SettingsInv, InHand, Numbered, [Next]_vars
  PROVE  SettingsInv'
<1> USE DEF rxVars, txVars
<1>1. CASE ESC_eoeprocess
  <2>1. CASE req.kind = "fragment" /\ UNCHANGED <<nic_ports, replies>>
    BY <1>1, <2>1, SettingsSame DEF ESC_eoeprocess, netVars, Nothing
  <2>2. CASE req.kind = "set" /\ EOE_set_ip(req)
    BY <1>1, <2>2, SettingsStored DEF ESC_eoeprocess
  <2>3. CASE req.kind = "get" /\ EOE_get_ip
    BY <1>1, <2>3, SettingsTold DEF ESC_eoeprocess
  <2> QED
    BY <1>1, <2>1, <2>2, <2>3 DEF ESC_eoeprocess
<1>2. CASE ESC_eoeprocess_tx
  <2>1. UNCHANGED <<netVars, req>>
    BY <1>2 DEF ESC_eoeprocess_tx
  <2>2. CASE UNCHANGED replies
    BY <2>1, <2>2, SettingsSame
  <2>3. CASE EOE_send_fragment /\ Buffer
    <3>1. PICK r \in Messages : replies' = Append(replies, r) /\ r.kind = "fragment"
      BY <2>3, FragmentSent
    <3> QED
      BY <2>1, <3>1, SettingsAppend
  <2> QED
    BY <1>2, <2>2, <2>3 DEF ESC_eoeprocess_tx, EOE_send_fragment, NothingToSend
<1>3. CASE AskSettings
  BY <1>3, SettingsAsked
<1>4. CASE ReadMbx
  BY <1>4, SettingsRead
<1>5. CASE \E fs \in Settings : EOE_ecat_set(fs)
  BY <1>5, SettingsMade, EoeConstantsAssumption DEF Settings
<1>6. CASE RestartMbx
  <2>1. replies' = <<>> /\ req'.kind # "set" /\ UNCHANGED netVars
    BY <1>6 DEF RestartMbx, Nothing
  <2>2. Len(replies') = 0 /\ replies' \in Seq(Messages)
    BY <2>1
  <2>3. SettingsTyped'
    BY <2>1, <2>2 DEF SettingsInv, SettingsTyped, netVars
  <2>4. AnswerHolds'
    <3>1. \A f \in Fields : known[f].told => known[f].value # 0 /\ IsSet(f)
      BY DEF SettingsInv, AnswerHolds
    <3>2. \A f \in Fields : known'[f].told => known'[f].value # 0 /\ IsSet(f)'
      BY <2>1, <3>1 DEF IsSet, netVars
    <3>3. \A i, v : ~Answers(i, v)'
      BY <2>2 DEF Answers
    <3>4. \A j : j \notin 1 .. Len(replies')
      BY <2>2
    <3> QED
      BY <2>1, <3>2, <3>3, <3>4 DEF AnswerHolds
  <2> QED
    BY <2>3, <2>4 DEF SettingsInv
<1>7. CASE SendFragment \/ AppSend \/ AppFree \/ UNCHANGED vars
  <2>1. UNCHANGED <<netVars, replies>> /\ (req' = req \/ req'.kind = "fragment")
    BY <1>7 DEF SendFragment, AppSend, AppFree, vars
  <2> QED
    BY <2>1, SettingsSame
<1> QED
  BY <1>1, <1>2, <1>3, <1>4, <1>5, <1>6, <1>7 DEF Next

LEMMA SettingsInit ==
  ASSUME Init
  PROVE  SettingsInv
<1>1. /\ replies = <<>> /\ values = 0 /\ req.kind # "set"
      /\ known = [f \in Fields |-> Unknown] /\ nic_ports = [f \in Fields |-> [set |-> FALSE, value |-> 0]]
  BY DEF Init, Nothing
<1>2. replies \in Seq(Messages) /\ Len(replies) = 0
  BY <1>1
<1>3. known \in [Fields -> [value : Nat, told : BOOLEAN]] /\ \A f \in Fields : known[f].value = 0 /\ ~known[f].told
  BY <1>1 DEF Unknown
<1>4. nic_ports \in [Fields -> [set : BOOLEAN, value : Nat]]
  BY <1>1
<1>5. \A f \in Fields : known[f].value <= 0
  BY <1>3
<1>6. SettingsTyped
  BY <1>1, <1>2, <1>3, <1>4, <1>5 DEF SettingsTyped
<1>7. AnswerHolds
  <2>1. \A i : i \notin 1 .. Len(replies)
    BY <1>2
  <2>2. \A i, v : ~Answers(i, v)
    BY <2>1 DEF Answers
  <2> QED
    BY <1>1, <1>3, <2>2 DEF AnswerHolds
<1> QED
  BY <1>6, <1>7 DEF SettingsInv

LEMMA NumberedStep ==
  ASSUME InHand, Numbered, free \in Int, [Next]_vars
  PROVE  Numbered'
<1> USE DEF rxVars, txVars
<1>1. CASE UNCHANGED txVars
  BY <1>1 DEF Numbered, Started
<1>2. CASE ESC_eoeprocess_tx
  <2>1. CASE NothingToSend
    BY <1>1, <2>1 DEF NothingToSend
  <2>2. CASE EOE_send_fragment /\ Buffer
    BY <2>2, FragmentSent
  <2>3. CASE EOE_send_fragment /\ ~Buffer
    BY <2>3, SendFragmentConserves DEF Numbered
  <2> QED
    BY <1>2, <2>1, <2>2, <2>3 DEF ESC_eoeprocess_tx
<1>3. CASE AppSend
  <2>1. /\ queue = <<>> /\ queued' = queued + 1 /\ queue' = <<queued'>>
        /\ UNCHANGED <<txebuf, txfragmentno, frameno>>
    BY <1>3 DEF AppSend
  <2>2. Len(queue) = 0 /\ Len(queue') = 1 /\ queued \in Nat
    BY <2>1, InHandTyped
  <2>3. queued' - Len(queue') = queued - Len(queue)
    BY <2>1, <2>2
  <2> QED
    BY <2>1, <2>3 DEF Numbered, Started
<1>4. CASE \/ ESC_eoeprocess \/ SendFragment \/ AskSettings \/ AppFree \/ ReadMbx \/ RestartMbx
           \/ \E fs \in Settings : EOE_ecat_set(fs)
  BY <1>1, <1>4 DEF ESC_eoeprocess, SendFragment, AskSettings, AppFree, ReadMbx, RestartMbx, EOE_ecat_set
<1>5. CASE UNCHANGED vars
  BY <1>1, <1>5 DEF vars
<1> QED
  BY <1>2, <1>3, <1>4, <1>5 DEF Next

LEMMA NumberedInit ==
  ASSUME Init
  PROVE  Numbered
<1>1. Started = 0 /\ frameno = 0
  <2>1. queued = 0 /\ queue = <<>> /\ txebuf = None /\ frameno = 0
    BY DEF Init
  <2>2. Len(queue) = 0
    BY <2>1
  <2> QED
    <3>1. ~(txebuf # None /\ txfragmentno = 0)
      BY <2>1
    <3>2. Started = 0 - 0 - 0
      BY <2>1, <2>2, <3>1 DEF Started
    <3> QED
      BY <2>1, <3>2
<1> QED
  BY <1>1, EoeConstantsAssumption DEF Numbered

\* What holds of the device whatever the numbers of frames and buffers are.
DeviceInv == SenderInv /\ BufferInv /\ Numbered /\ SettingsInv

LEMMA DeviceStep ==
  /\ Init => DeviceInv
  /\ DeviceInv /\ [Next]_vars => DeviceInv'
<1>1. Init => DeviceInv
  BY SenderInit, BufferInit, NumberedInit, SettingsInit DEF DeviceInv
<1>2. ASSUME DeviceInv, [Next]_vars PROVE DeviceInv'
  <2>1. SenderInv /\ BufferInv /\ InHand /\ free \in Int /\ Numbered /\ SettingsInv
    BY <1>2 DEF DeviceInv, BufferInv, BufferTyped
  <2> QED
    BY <1>2, <2>1, SenderStep, BufferStep, NumberedStep, SettingsStep DEF DeviceInv
<1> QED
  BY <1>1, <1>2

\* The master reads back what a request carried and it was told is set, until it asks
\* again or the device sets the field itself.  Of the name this is as many parts as the
\* request carried: the device confirms a name that is cut short or shorter than the one
\* before and keeps the rest of that (EOE_set_ip, EOE_get_ip, EOE_ecat_set_ip of esc_eoe.c).
THEOREM SettingsAreReadBack == Spec => []SettingsReadBack
<1>1. ASSUME DeviceInv PROVE SettingsReadBack
  <2>1. ASSUME replies # <<>>, Head(replies).kind = "params", NEW f \in Fields, known[f].told
        PROVE  f \in Head(replies).fields /\ Head(replies).value[f] = known[f].value
    <3>1. Len(replies) \in Nat /\ Len(replies) # 0 /\ Head(replies) = replies[1]
      <4>1. replies \in Seq(Messages)
        BY <1>1 DEF DeviceInv, SettingsInv, SettingsTyped
      <4> QED
        BY <2>1, <4>1, LenProperties, EmptySeq, HeadTailProperties
    <3>2. ReadsBack(1, f)
      BY <1>1, <2>1, <3>1 DEF DeviceInv, SettingsInv, AnswerHolds
    <3> QED
      BY <2>1, <3>1, <3>2 DEF ReadsBack
  <2> QED
    BY <2>1 DEF SettingsReadBack
<1> QED
  BY <1>1, DeviceStep, PTL DEF Spec


-----------------------------------------------------------------------------
(* Frames to the device.                                                   *)

LEMMA CopyDelivers ==
  ASSUME NEW k \in Frames, NEW at, NEW r, IsFragmentOf(r, k, at),
         NEW b, b = SubSeq(Sent(k), 1, at), CopyFragment(r, b, Len(Sent(k)))
  PROVE  \/ /\ r.last /\ got' = Frame(k)
            /\ rxfragmentno' = 0 /\ rxebuf' \in {<<>>, NULL}
         \/ ~r.last /\ got' = got /\ rxfragmentno' = r.fragno + 1 /\ IsPartOf(k)'
<1> DEFINE s == Sent(k)
<1>1. s \in Seq(Blocks) /\ Len(s) \in Nat /\ Len(s) # 0
  BY SentTyped
<1>2. /\ at \in Nat /\ Len(r.data) \in Nat /\ at + Len(r.data) <= Len(s)
      /\ r.data = SubSeq(s, at + 1, at + Len(r.data)) /\ r.data # <<>>
      /\ (r.last <=> at + Len(r.data) = Len(s))
      /\ r.frameno = k % FrameNos /\ (r.stamp <=> k \in Stamped)
  BY DEF IsFragmentOf
<1>3. r.data \in Seq(Blocks)
  BY FragmentTyped
<1>4. Len(r.data) # 0
  BY <1>2, <1>3, EmptySeq
<1> DEFINE n == at + Len(r.data)
           f == b \o r.data
<1>5. n \in Nat /\ n # 0 /\ n <= Len(s)
  BY <1>2, <1>4
<1>6. f = SubSeq(s, 1, n)
  <2>1. b = SubSeq(s, 1, at)
    OBVIOUS
  <2> HIDE DEF s
  <2>2. SubSeq(s, 1, at) \o SubSeq(s, at + 1, at + Len(r.data)) = SubSeq(s, 1, at + Len(r.data))
    BY <1>1, <1>2, PartsJoin
  <2> QED
    BY <1>2, <2>1, <2>2
<1> HIDE DEF s, n, f
<1>7. f \in Seq(Blocks) /\ Len(f) = n
  <2>1. 0 + n <= Len(s) /\ 0 \in Nat /\ SubSeq(s, 0 + 1, 0 + n) = SubSeq(s, 1, n)
    BY <1>5
  <2>2. SubSeq(s, 0 + 1, 0 + n) \in Seq(Blocks) /\ Len(SubSeq(s, 0 + 1, 0 + n)) = n
    BY <1>1, <1>5, <2>1, PartTyped
  <2> QED
    BY <1>6, <2>1, <2>2
<1>8. ~(Len(f) > Len(s))
  BY <1>1, <1>5, <1>7
<1>9. CASE r.last
  <2>1. got' = SubSeq(f, 1, Len(f) - (IF r.stamp THEN 1 ELSE 0)) /\ EOE_init_rx(NULL)
    BY <1>8, <1>9 DEF CopyFragment, f, s
  <2>2. n = Len(s) /\ f = s
    <3>1. n = Len(s)
      BY <1>2, <1>9 DEF n
    <3>2. SubSeq(s, 1, Len(s)) = s
      BY <1>1, SubSeqFull
    <3> QED
      BY <1>6, <3>1, <3>2
  <2>3. (IF r.stamp THEN 1 ELSE 0) = (IF k \in Stamped THEN 1 ELSE 0)
    BY <1>2
  <2>4. got' = Frame(k)
    BY <2>1, <2>2, <2>3, StampRemoved DEF s
  <2>5. rxfragmentno' = 0 /\ rxebuf' \in {<<>>, NULL}
    BY <2>1 DEF EOE_init_rx
  <2> QED
    BY <1>9, <2>4, <2>5
<1>10. CASE ~r.last
  <2>1. /\ rxebuf' = f /\ rxframesize' = Len(s) /\ rxframeno' = r.frameno
        /\ rxfragmentno' = r.fragno + 1 /\ got' = got
    BY <1>8, <1>10 DEF CopyFragment, f, s
  <2>2. n < Len(s)
    BY <1>1, <1>2, <1>5, <1>10 DEF n
  <2>3. f # <<>>
    BY <1>5, <1>7, EmptySeq
  <2>4. Len(rxebuf') = n /\ rxebuf' = SubSeq(Sent(k), 1, Len(rxebuf')) /\ Len(rxebuf') < Len(Sent(k))
    BY <1>6, <1>7, <2>1, <2>2 DEF s
  <2>5. IsPartOf(k)'
    BY <1>2, <1>5, <2>1, <2>3, <2>4 DEF IsPartOf, s
  <2> QED
    BY <1>10, <2>1, <2>5
<1> QED
  BY <1>9, <1>10

\* What the device makes of a fragment: the frame, more of the frame, or nothing.
LEMMA ReceiveDelivers ==
  ASSUME MaxFaults <= FrameNos, DownInv, req.kind = "fragment", EOE_receive_fragment(req),
         NEW k \in Frames, k = mtx.frame
  PROVE  \/ got' = got /\ rxfragmentno' = 0 /\ rxebuf' \in {<<>>, NULL}
         \/ /\ ~mtx.busy /\ got' = Frame(k)
            /\ rxfragmentno' = 0 /\ rxebuf' \in {<<>>, NULL}
         \/ mtx.busy /\ got' = got /\ rxfragmentno' \in Nat /\ rxfragmentno' # 0 /\ IsPartOf(k)'
<1>1. PICK at : IsFragmentOf(req, k, at) /\ req.last = ~mtx.busy
  BY DEF DownInv, SenderInv, OnItsWay
<1>2. req.fragno \in Nat /\ (req.fragno = 0 => at = 0 /\ req.offset = Len(Sent(k)))
      /\ (req.fragno # 0 => at = req.offset) /\ req.frameno = k % FrameNos /\ at \in Nat
  BY <1>1 DEF IsFragmentOf
<1>3. ASSUME NEW b, b = SubSeq(Sent(k), 1, at), CopyFragment(req, b, Len(Sent(k)))
      PROVE  \/ /\ ~mtx.busy /\ got' = Frame(k)
                /\ rxfragmentno' = 0 /\ rxebuf' \in {<<>>, NULL}
             \/ mtx.busy /\ got' = got /\ rxfragmentno' \in Nat /\ rxfragmentno' # 0 /\ IsPartOf(k)'
  <2>1. \/ /\ req.last /\ got' = Frame(k)
           /\ rxfragmentno' = 0 /\ rxebuf' \in {<<>>, NULL}
        \/ ~req.last /\ got' = got /\ rxfragmentno' = req.fragno + 1 /\ IsPartOf(k)'
    BY <1>1, <1>3, CopyDelivers
  <2>2. req.fragno + 1 \in Nat /\ req.fragno + 1 # 0
    BY <1>2
  <2> QED
    BY <1>1, <2>1, <2>2
<1>4. ASSUME NEW b \in {<<>>, NULL}, EOE_init_rx(b) /\ SkipFragment
      PROVE  got' = got /\ rxfragmentno' = 0 /\ rxebuf' \in {<<>>, NULL}
  BY <1>4 DEF EOE_init_rx, SkipFragment
<1>5. CASE req.fragno = 0 /\ rxebuf = NULL
  BY <1>4, <1>5 DEF EOE_receive_fragment
<1>6. CASE req.fragno = 0 /\ rxebuf # NULL
  <2>1. Sent(k) \in Seq(Blocks)
    BY SentTyped
  <2>2. SubSeq(Sent(k), 1, 0) = <<>>
    BY <2>1, SubSeqProperties
  <2> QED
    BY <1>2, <1>3, <1>6, <2>2 DEF EOE_receive_fragment
<1>7. CASE req.fragno # 0 /\ req.fragno # rxfragmentno
  <2>1. CASE rxfragmentno # 0
    BY <1>4, <1>7, <2>1 DEF EOE_receive_fragment
  <2>2. CASE rxfragmentno = 0
    BY <1>7, <2>2 DEF EOE_receive_fragment, SkipFragment, DownInv, Receiving
  <2> QED
    BY <2>1, <2>2
<1>8. CASE req.fragno # 0 /\ req.fragno = rxfragmentno /\ ~SameFrame(req)
  BY <1>4, <1>8 DEF EOE_receive_fragment
<1>9. CASE req.fragno # 0 /\ req.fragno = rxfragmentno /\ SameFrame(req)
  <2>1. PICK j \in 1 .. mtx.frame : IsPartOf(j) /\ Restarts(j)
    BY <1>9 DEF DownInv, Receiving
  <2>2. j \in Nat /\ k \in Nat /\ j <= k
    BY SizesTyped
  <2>3. j % FrameNos = k % FrameNos
    BY <1>2, <1>9, <2>1 DEF IsPartOf, SameFrame
  <2>4. j = k
    <3>1. SUFFICES ASSUME j # k PROVE FALSE
      OBVIOUS
    <3>2. j < k
      BY <2>2, <3>1
    <3>3. k - j < faults
      BY <1>9, <2>1, <3>1 DEF Restarts
    <3>4. faults \in Nat /\ faults <= MaxFaults /\ MaxFaults \in Nat /\ FrameNos \in Nat
      BY EoeConstantsAssumption DEF DownInv, FaultsCounted
    <3>5. k - j >= FrameNos
      BY <2>2, <2>3, <3>2, SameNumber
    <3> QED
      BY <2>2, <3>3, <3>4, <3>5
  <2>5. rxebuf = SubSeq(Sent(k), 1, at) /\ rxframesize = Len(Sent(k))
    BY <1>2, <1>9, <2>1, <2>4 DEF IsPartOf, SameFrame
  <2>6. CopyFragment(req, rxebuf, Len(Sent(k)))
    BY <1>9, <2>5 DEF EOE_receive_fragment
  <2> QED
    BY <1>3, <2>5, <2>6
<1> QED
  BY <1>5, <1>6, <1>7, <1>8, <1>9

LEMMA DownReceives ==
  ASSUME MaxFaults <= FrameNos, DownInv, ESC_eoeprocess, req.kind = "fragment"
  PROVE  /\ Receiving' /\ Delivered'
         /\ \/ WholeFrame(got') = WholeFrame(got)
            \/ WholeFrame(got') \in WholeFrame(got) + 1 .. mtx.frame
<1>1. EOE_receive_fragment(req) /\ UNCHANGED mtx /\ req' = Nothing
  BY DEF ESC_eoeprocess
<1>2. req'.kind # "fragment"
  BY <1>1 DEF Nothing
<1>3. PICK k \in Frames : k = mtx.frame /\ k \in Nat
  <2>1. mtx.frame # 0 /\ mtx.frame \in Nat /\ mtx.frame <= Len(Sizes)
    BY DEF DownInv, SenderInv, SenderKnown, OnItsWay
  <2> QED
    BY <2>1, SizesTyped
<1>4. WholeFrame(got) \in 0 .. k /\ WholeFrame(got) < k
  BY <1>3 DEF DownInv, Delivered
<1>5. CASE got' = got /\ rxfragmentno' = 0 /\ rxebuf' \in {<<>>, NULL}
  BY <1>1, <1>2, <1>3, <1>4, <1>5 DEF Receiving, Delivered
<1>6. CASE ~mtx.busy /\ got' = Frame(k) /\ rxfragmentno' = 0 /\ rxebuf' \in {<<>>, NULL}
  <2>1. WholeFrame(got') = k
    BY <1>6, WholeFrameKnown
  <2>2. WholeFrame(got') \in 0 .. k /\ WholeFrame(got') \in WholeFrame(got) + 1 .. k
    BY <1>3, <1>4, <2>1
  <2> QED
    BY <1>1, <1>2, <1>3, <1>6, <2>2 DEF Receiving, Delivered
<1>7. CASE mtx.busy /\ got' = got /\ rxfragmentno' \in Nat /\ rxfragmentno' # 0 /\ IsPartOf(k)'
  <2>1. k \in 1 .. mtx'.frame
    BY <1>1, <1>3, SizesTyped
  <2>2. Restarts(k)'
    BY <1>1, <1>3, <1>7 DEF Restarts
  <2>3. Receiving'
    BY <1>7, <2>1, <2>2 DEF Receiving
  <2>4. Delivered'
    BY <1>1, <1>2, <1>3, <1>4, <1>7 DEF Delivered
  <2> QED
    BY <1>7, <2>3, <2>4
<1> QED
  BY <1>1, <1>3, <1>5, <1>6, <1>7, ReceiveDelivers


\* A step that leaves the device's side alone and no frame is sent in.
LEMMA DownSame ==
  ASSUME DownInv, UNCHANGED <<rxVars, faults>>, mtx' = mtx,
         req' = req \/ (req.kind # "fragment" /\ req'.kind # "fragment")
  PROVE  Receiving' /\ Delivered' /\ FaultsCounted'
<1> USE DEF rxVars
<1>1. CASE req' = req
  BY <1>1 DEF DownInv, Receiving, IsPartOf, Restarts, Delivered, FaultsCounted
<1>2. CASE req.kind # "fragment" /\ req'.kind # "fragment"
  <2>1. \A k : Restarts(k) => Restarts(k)'
    BY <1>2 DEF Restarts
  <2>2. \A k : IsPartOf(k) => IsPartOf(k)'
    BY DEF IsPartOf
  <2>3. Receiving'
    BY <2>1, <2>2 DEF DownInv, Receiving
  <2> QED
    BY <1>2, <2>3 DEF DownInv, Delivered, FaultsCounted
<1> QED
  BY <1>1, <1>2

LEMMA DownSends ==
  ASSUME DownInv, SendFragment
  PROVE  /\ Receiving' /\ Delivered' /\ FaultsCounted' /\ UNCHANGED got
         /\ mtx'.frame \in {mtx.frame, mtx.frame + 1}
<1>1. /\ SenderInv' /\ req'.kind = "fragment" /\ req.kind # "fragment"
      /\ \/ ~mtx.busy /\ mtx'.frame = mtx.frame + 1 /\ req'.fragno = 0
         \/ mtx.busy /\ mtx'.frame = mtx.frame /\ req'.fragno # 0
  BY SendFragmentSends DEF DownInv
<1>2. UNCHANGED <<rxVars, faults>>
  BY DEF SendFragment
<1>3. mtx.frame \in Nat /\ faults \in Nat
  <2>1. MaxFaults \in Nat
    BY EoeConstantsAssumption
  <2> QED
    BY <2>1 DEF DownInv, SenderInv, SenderKnown, FaultsCounted
<1>4. ASSUME NEW k \in 1 .. mtx.frame, Restarts(k)
      PROVE  Restarts(k)' /\ k \in 1 .. mtx'.frame
  <2>1. CASE ~mtx.busy /\ mtx'.frame = mtx.frame + 1 /\ req'.fragno = 0
    <3>1. mtx.frame - k < faults
      BY <1>1, <1>4, <2>1 DEF Restarts
    <3>2. mtx'.frame - k <= faults'
      BY <1>2, <1>3, <2>1, <3>1
    <3> QED
      BY <1>1, <1>3, <2>1, <3>2 DEF Restarts
  <2>2. CASE mtx.busy /\ mtx'.frame = mtx.frame /\ req'.fragno # 0
    BY <1>1, <1>2, <1>4, <2>2 DEF Restarts
  <2> QED
    BY <1>1, <2>1, <2>2
<1>5. \A k : IsPartOf(k) => IsPartOf(k)'
  BY <1>2 DEF IsPartOf, rxVars
<1>6. Receiving'
  BY <1>2, <1>4, <1>5 DEF DownInv, Receiving, rxVars
<1>7. Delivered'
  <2>1. got' = got /\ WholeFrame(got) \in 0 .. mtx.frame
    BY <1>2 DEF rxVars, DownInv, Delivered
  <2>2. CASE ~mtx.busy /\ mtx'.frame = mtx.frame + 1
    BY <1>3, <2>1, <2>2 DEF Delivered
  <2>3. CASE mtx.busy /\ mtx'.frame = mtx.frame
    BY <2>1, <2>3 DEF DownInv, Delivered
  <2> QED
    BY <1>1, <2>2, <2>3
<1> QED
  BY <1>1, <1>2, <1>6, <1>7 DEF DownInv, FaultsCounted, rxVars

LEMMA DownRestarts ==
  ASSUME DownInv, RestartMbx
  PROVE  Receiving' /\ Delivered' /\ FaultsCounted' /\ UNCHANGED got /\ mtx'.frame = mtx.frame
<1>1. /\ req'.kind # "fragment" /\ faults' = faults + 1 /\ faults < MaxFaults /\ UNCHANGED rxVars
      /\ mtx' \in {mtx, [mtx EXCEPT !.busy = FALSE]}
  BY DEF RestartMbx, Nothing
<1>2. mtx.frame \in Nat /\ faults \in Nat /\ MaxFaults \in Nat
  BY EoeConstantsAssumption DEF DownInv, SenderInv, SenderKnown, FaultsCounted
<1>3. mtx'.frame = mtx.frame /\ (mtx'.busy => mtx.busy)
  <2>1. mtx \in [frame : Nat, fragno : Nat, offset : Nat, busy : BOOLEAN]
    BY DEF DownInv, SenderInv, SenderKnown
  <2> QED
    BY <1>1, <2>1
<1>4. ASSUME NEW k \in 1 .. mtx.frame, Restarts(k) PROVE Restarts(k)'
  <2>1. mtx.frame - k <= faults
    BY <1>2, <1>4 DEF Restarts
  <2>2. mtx'.frame - k < faults'
    BY <1>1, <1>2, <1>3, <2>1
  <2> QED
    BY <2>2 DEF Restarts
<1>5. \A k : IsPartOf(k) => IsPartOf(k)'
  BY <1>1 DEF IsPartOf, rxVars
<1>6. Receiving'
  BY <1>1, <1>3, <1>4, <1>5 DEF DownInv, Receiving, rxVars
<1>7. Delivered'
  BY <1>1, <1>3 DEF DownInv, Delivered, rxVars
<1> QED
  BY <1>1, <1>2, <1>3, <1>6, <1>7 DEF FaultsCounted, rxVars

\* Every step sends the next frame, delivers a later one whole, or does neither.
LEMMA DownStep ==
  ASSUME MaxFaults <= FrameNos, DownInv, [Next]_vars
  PROVE  /\ DownInv'
         /\ \/ mtx'.frame = mtx.frame + 1 /\ WholeFrame(got)' = WholeFrame(got)
            \/ mtx'.frame = mtx.frame /\ WholeFrame(got') \in WholeFrame(got) + 1 .. mtx.frame
            \/ mtx'.frame = mtx.frame /\ WholeFrame(got)' = WholeFrame(got)
<1> USE DEF rxVars, txVars, netVars
<1>1. SenderInv'
  BY SenderStep DEF DownInv
<1>2. CASE ESC_eoeprocess /\ req.kind = "fragment"
  <2>1. UNCHANGED <<mtx, faults>>
    BY <1>2 DEF ESC_eoeprocess
  <2>2. FaultsCounted'
    BY <2>1 DEF DownInv, FaultsCounted
  <2> QED
    BY <1>1, <1>2, <2>1, <2>2, DownReceives DEF DownInv
<1>3. CASE SendFragment
  BY <1>1, <1>3, DownSends DEF DownInv
<1>4. CASE RestartMbx
  BY <1>1, <1>4, DownRestarts DEF DownInv
<1>5. CASE /\ UNCHANGED <<rxVars, faults, mtx>>
           /\ req' = req \/ (req.kind # "fragment" /\ req'.kind # "fragment")
  BY <1>1, <1>5, DownSame DEF DownInv
<1>6. CASE ESC_eoeprocess /\ req.kind # "fragment"
  BY <1>5, <1>6 DEF ESC_eoeprocess, Nothing
<1>7. CASE AskSettings
  BY <1>5, <1>7 DEF AskSettings, Nothing
<1>8. CASE AppFree
  <2>1. /\ UNCHANGED <<rxebuf, rxfragmentno, rxframesize, rxframeno, got, faults, mtx, req>>
    BY <1>8 DEF AppFree
  <2>2. Receiving' /\ Delivered' /\ FaultsCounted'
    BY <2>1 DEF DownInv, Receiving, IsPartOf, Restarts, Delivered, FaultsCounted
  <2> QED
    BY <1>1, <2>1, <2>2 DEF DownInv
<1>9. CASE \/ ESC_eoeprocess_tx \/ AppSend \/ ReadMbx \/ UNCHANGED vars
           \/ \E fs \in Settings : EOE_ecat_set(fs)
  BY <1>5, <1>9 DEF ESC_eoeprocess_tx, AppSend, ReadMbx, EOE_ecat_set, vars
<1> QED
  BY <1>2, <1>3, <1>4, <1>6, <1>7, <1>8, <1>9 DEF Next

LEMMA DownInit ==
  ASSUME Init
  PROVE  DownInv /\ mtx.frame = 0 /\ WholeFrame(got) = 0
<1>1. WholeFrame(got) = 0 /\ mtx.frame = 0 /\ ~mtx.busy /\ req.kind # "fragment"
  BY WholeFrameKnown DEF Init, Nothing
<1>2. rxfragmentno = 0 /\ rxebuf = <<>> /\ faults = 0
  BY DEF Init
<1>3. Receiving /\ Delivered /\ FaultsCounted
  BY <1>1, <1>2, EoeConstantsAssumption DEF Receiving, Delivered, FaultsCounted
<1> QED
  BY <1>1, <1>3, SenderInit DEF DownInv

LEMMA DownImplements ==
  ASSUME MaxFaults <= FrameNos
  PROVE  Spec => Down!Spec
<1>1. Init => DownInv /\ Down!Init
  BY DownInit DEF Down!Init
<1>2. ASSUME DownInv, [Next]_vars PROVE DownInv' /\ [Down!Next]_<<mtx.frame, WholeFrame(got)>>
  <2>1. /\ DownInv'
        /\ \/ mtx'.frame = mtx.frame + 1 /\ WholeFrame(got)' = WholeFrame(got)
           \/ mtx'.frame = mtx.frame /\ WholeFrame(got') \in WholeFrame(got) + 1 .. mtx.frame
           \/ mtx'.frame = mtx.frame /\ WholeFrame(got)' = WholeFrame(got)
    BY <1>2, DownStep
  <2> QED
    BY <2>1 DEF Down!Next, Down!Send, Down!Deliver
<1> QED
  BY <1>1, <1>2, PTL DEF Spec, Down!Spec


-----------------------------------------------------------------------------
(* Frames from the device.                                                 *)

LEMMA WaitingTyped ==
  ASSUME SettingsInv, InHand, Queueing, NEW i, Waiting(i)
  PROVE  /\ replies[i].fragno \in Nat /\ replies[i].data \in Seq(Blocks) /\ replies[i].last \in BOOLEAN
         /\ WellCut(replies[i]) /\ i \in 1 .. Len(replies) /\ Len(replies) \in Nat
         /\ FrameOf(replies[i]) \in Nat /\ FrameOf(replies[i]) # 0 /\ FrameOf(replies[i]) <= queued
<1>1. replies \in Seq(Messages) /\ i \in 1 .. Len(replies) /\ replies[i].kind = "fragment"
  BY DEF SettingsInv, SettingsTyped, Waiting
<1>2. replies[i] \in Messages /\ Len(replies) \in Nat
  BY <1>1, ElementOfSeq, LenProperties
<1>3. replies[i].fragno \in Nat /\ replies[i].data \in Seq(Blocks) /\ replies[i].last \in BOOLEAN
  BY <1>1, <1>2 DEF Messages
<1>4. WellCut(replies[i])
  BY <1>1 DEF Queueing
<1>5. FrameOf(replies[i]) \in 1 .. queued /\ queued \in Nat
  BY <1>4, InHandTyped DEF WellCut
<1> QED
  BY <1>1, <1>2, <1>3, <1>4, <1>5

LEMMA ExpectedTyped ==
  ASSUME NEW k \in Nat, NEW m \in Nat, NEW no \in Nat, Expected(k, m, no),
         NEW d \in Nat, faults \in Nat, faults' = faults + d, mrx' = mrx
  PROVE  Expected(k, m, no)'
<1>1. Bufs \in Nat
  BY EoeConstantsAssumption
<1>2. Bufs * faults \in Nat /\ Bufs * d \in Nat /\ Bufs * (faults + d) = Bufs * faults + Bufs * d
  BY <1>1
<1>3. FramePlace(m, no) \in Nat
  BY DEF FramePlace
<1>4. CASE m = k /\ no = mrx.fragno
  BY <1>4 DEF Expected
<1>5. CASE FramePlace(m, no) - k <= Bufs * faults
  <2> DEFINE p == FramePlace(m, no)  lost == Bufs * faults  more == Bufs * d
  <2>1. p \in Nat /\ lost \in Nat /\ more \in Nat /\ p - k <= lost
    BY <1>2, <1>3, <1>5
  <2> HIDE DEF p, lost, more
  <2>2. p - k <= lost + more
    BY <2>1
  <2>3. FramePlace(m, no) - k <= Bufs * faults'
    BY <1>2, <2>2 DEF p, lost, more
  <2> QED
    BY <2>3 DEF Expected, FramePlace
<1> QED
  BY <1>4, <1>5 DEF Expected

\* A step that sends and reads nothing.
LEMMA UpSame ==
  ASSUME SettingsInv, InHand, UpInv, UNCHANGED <<replies, mrx, mgot, txfragmentno, NextFrame, faults>>,
         queued' \in {queued, queued + 1}
  PROVE  UpInv'
<1>1. queued \in Nat
  BY InHandTyped
<1>2. \A k \in 0 .. queued : k \in 0 .. queued'
  BY <1>1
<1>3. \A i : Waiting(i)' <=> Waiting(i)
  BY DEF Waiting
<1>4. \A i \in 1 .. Len(replies) : Waiting(i) => WellCut(replies[i])'
  <2>1. ASSUME NEW i \in 1 .. Len(replies), Waiting(i) PROVE WellCut(replies[i])'
    <3>1. WellCut(replies[i]) /\ FrameOf(replies[i]) \in 1 .. queued
      BY <2>1 DEF UpInv, Queueing, WellCut
    <3>2. FrameOf(replies[i]) \in 1 .. queued'
      BY <1>1, <3>1
    <3> QED
      BY <3>1, <3>2 DEF WellCut, FrameOf, PlaceOf
  <2> QED
    BY <2>1, Zenon
<1>5. Queueing'
  BY <1>3, <1>4 DEF UpInv, Queueing
<1>6. InSequence' /\ TakesBuffers'
  BY <1>3 DEF UpInv, InSequence, TakesBuffers, Follows, NotBefore, FrameOf, FramePlace
<1>7. Taken'
  <2>1. WholeFrame(mgot') = WholeFrame(mgot)
    OBVIOUS
  <2> QED
    BY <1>2, <1>3, <2>1 DEF UpInv, Taken, FrameOf
<1>8. PuttingTogether'
  <2>1. \A k, m, no : Expected(k, m, no)' <=> Expected(k, m, no)
    BY DEF Expected, FramePlace
  <2>2. \A k : IsPutTogether(k)' <=> IsPutTogether(k)
    BY DEF IsPutTogether
  <2>3. mrx'.fragno \in Nat
    BY DEF UpInv, PuttingTogether
  <2>4. ASSUME mrx'.fragno # 0
        PROVE  \E k \in 1 .. queued' :
                 /\ IsPutTogether(k)'
                 /\ \A i \in 1 .. Len(replies') : Waiting(i)' /\ (\A h \in 1 .. i - 1 : ~Waiting(h)') =>
                      Expected(k, FrameOf(replies[i]), replies[i].fragno)'
                 /\ (\A i \in 1 .. Len(replies') : ~Waiting(i)') => Expected(k, NextFrame, txfragmentno)'
    <3>1. PICK k \in 1 .. queued :
            /\ IsPutTogether(k)
            /\ \A i \in 1 .. Len(replies) : Waiting(i) /\ (\A h \in 1 .. i - 1 : ~Waiting(h)) =>
                 Expected(k, FrameOf(replies[i]), replies[i].fragno)
            /\ (\A i \in 1 .. Len(replies) : ~Waiting(i)) => Expected(k, NextFrame, txfragmentno)
      BY <2>4 DEF UpInv, PuttingTogether
    <3>2. k \in 1 .. queued' /\ IsPutTogether(k)'
      BY <1>1, <2>2, <3>1
    <3>3. ASSUME NEW i \in 1 .. Len(replies'), Waiting(i)' /\ (\A h \in 1 .. i - 1 : ~Waiting(h)')
          PROVE  Expected(k, FrameOf(replies[i]), replies[i].fragno)'
      <4>1. Expected(k, FrameOf(replies[i]), replies[i].fragno)
        BY <1>3, <3>1, <3>3
      <4> QED
        BY <2>1, <4>1 DEF FrameOf
    <3>4. (\A i \in 1 .. Len(replies') : ~Waiting(i)') => Expected(k, NextFrame, txfragmentno)'
      BY <1>3, <2>1, <3>1
    <3> QED
      BY <3>2, <3>3, <3>4
  <2> QED
    BY <2>3, <2>4 DEF PuttingTogether
<1> QED
  BY <1>5, <1>6, <1>7, <1>8 DEF UpInv


\* An answer queued behind the fragments.
LEMMA UpAnswered ==
  ASSUME SettingsInv, InHand, UpInv,
         UNCHANGED <<mrx, mgot, txfragmentno, NextFrame, faults, queued>>,
         NEW r \in Messages, replies' = Append(replies, r), r.kind # "fragment", Buffer
  PROVE  UpInv'
<1> DEFINE L == Len(replies)
<1>1. /\ L \in Nat /\ Len(replies') = L + 1 /\ replies'[L + 1] = r
      /\ \A i \in 1 .. L : replies'[i] = replies[i]
  BY Appended DEF SettingsInv, SettingsTyped
<1>2. \A i : i = L + 1 => ~Waiting(i)'
  BY <1>1 DEF Waiting
<1>3. ASSUME NEW i PROVE Waiting(i)' <=> Waiting(i)
  <2>1. CASE i \in 1 .. L
    BY <1>1, <2>1 DEF Waiting
  <2>2. CASE i \notin 1 .. L
    <3>1. i \in 1 .. Len(replies') => i = L + 1
      BY <1>1, <2>2
    <3> QED
      BY <1>2, <2>2, <3>1 DEF Waiting
  <2> QED
    BY <2>1, <2>2
<1>4. \A i : Waiting(i)' => i \in 1 .. L /\ Waiting(i) /\ replies'[i] = replies[i]
  BY <1>1, <1>3 DEF Waiting
<1> HIDE DEF L
<1>5. Queueing'
  <2>1. Len(replies') <= Bufs
    <3>1. Bufs \in Nat
      BY EoeConstantsAssumption
    <3>2. L < Bufs
      BY Zenon DEF Buffer, L
    <3> QED
      BY <1>1, <3>1, <3>2
  <2>2. ASSUME NEW i \in 1 .. Len(replies'), Waiting(i)' PROVE WellCut(replies[i])'
    <3>1. WellCut(replies[i]) /\ replies'[i] = replies[i]
      BY <1>4, <2>2 DEF UpInv, Queueing, L
    <3> QED
      BY <3>1 DEF WellCut, FrameOf, PlaceOf
  <2> QED
    BY <2>1, <2>2 DEF Queueing
<1>6. InSequence'
  <2>1. ASSUME NEW i \in 1 .. Len(replies'), NEW j \in 1 .. Len(replies'), Waiting(i)', Waiting(j)', i < j
        PROVE  /\ NotBefore(replies[i], FrameOf(replies[j]))'
               /\ (\A h \in i + 1 .. j - 1 : ~Waiting(h)') =>
                    Follows(replies[i], FrameOf(replies[j]), replies[j].fragno)'
    <3>1. /\ NotBefore(replies[i], FrameOf(replies[j]))
          /\ (\A h \in i + 1 .. j - 1 : ~Waiting(h)) => Follows(replies[i], FrameOf(replies[j]), replies[j].fragno)
      BY <1>4, <2>1 DEF UpInv, InSequence, L
    <3>2. replies'[i] = replies[i] /\ replies'[j] = replies[j]
      BY <1>4, <2>1
    <3> QED
      BY <1>3, <3>1, <3>2 DEF NotBefore, Follows, FrameOf
  <2>2. ASSUME NEW i \in 1 .. Len(replies'), Waiting(i)'
        PROVE  /\ NotBefore(replies[i], NextFrame)'
               /\ (\A h \in i + 1 .. Len(replies') : ~Waiting(h)') => Follows(replies[i], NextFrame, txfragmentno)'
    <3>1. /\ NotBefore(replies[i], NextFrame)
          /\ (\A h \in i + 1 .. L : ~Waiting(h)) => Follows(replies[i], NextFrame, txfragmentno)
      BY <1>4, <2>2 DEF UpInv, InSequence, L
    <3>2. replies'[i] = replies[i]
      BY <1>4, <2>2
    <3>3. \A h \in i + 1 .. L : h \in i + 1 .. Len(replies')
      BY <1>1
    <3> QED
      BY <1>3, <3>1, <3>2, <3>3 DEF NotBefore, Follows, FrameOf
  <2> QED
    BY <2>1, <2>2 DEF InSequence
<1>7. TakesBuffers'
  <2>1. ASSUME NEW i \in 1 .. Len(replies'), Waiting(i)'
        PROVE  FramePlace(NextFrame', txfragmentno') - FrameOf(replies'[i]) <= Len(replies') - i + 1
    <3>1. i \in 1 .. L /\ Waiting(i) /\ replies'[i] = replies[i]
      BY <1>4, <2>1
    <3>2. FramePlace(NextFrame, txfragmentno) - FrameOf(replies[i]) <= L - i + 1
      BY <3>1 DEF UpInv, TakesBuffers, L
    <3>3. FrameOf(replies[i]) \in Nat /\ FramePlace(NextFrame, txfragmentno) \in Nat
      BY <3>1, WaitingTyped, StartedTyped DEF UpInv, FramePlace
    <3>4. FramePlace(NextFrame, txfragmentno) - FrameOf(replies[i]) <= L + 1 - i + 1
      BY <1>1, <3>1, <3>2, <3>3 DEF L
    <3> QED
      BY <1>1, <3>1, <3>4 DEF FramePlace
  <2> QED
    BY <2>1 DEF TakesBuffers, FramePlace, FrameOf
<1>8. Taken'
  <2>1. /\ WholeFrame(mgot) \in 0 .. queued /\ WholeFrame(mgot) < NextFrame
        /\ \A i \in 1 .. L : Waiting(i) => WholeFrame(mgot) < FrameOf(replies[i])
    BY DEF UpInv, Taken, L
  <2>2. ASSUME NEW i \in 1 .. Len(replies'), Waiting(i)' PROVE WholeFrame(mgot) < FrameOf(replies[i])'
    BY <1>4, <2>1, <2>2 DEF FrameOf
  <2>3. WholeFrame(mgot') = WholeFrame(mgot)
    OBVIOUS
  <2> QED
    BY <2>1, <2>2, <2>3 DEF Taken
<1>9. PuttingTogether'
  <2>1. \A k, m, no : Expected(k, m, no)' <=> Expected(k, m, no)
    BY DEF Expected, FramePlace
  <2>2. mrx'.fragno \in Nat
    BY DEF UpInv, PuttingTogether
  <2>3. ASSUME mrx'.fragno # 0
        PROVE  \E k \in 1 .. queued' :
                 /\ IsPutTogether(k)'
                 /\ \A i \in 1 .. Len(replies') : Waiting(i)' /\ (\A h \in 1 .. i - 1 : ~Waiting(h)') =>
                      Expected(k, FrameOf(replies[i]), replies[i].fragno)'
                 /\ (\A i \in 1 .. Len(replies') : ~Waiting(i)') => Expected(k, NextFrame, txfragmentno)'
    <3>1. PICK k \in 1 .. queued :
            /\ IsPutTogether(k)
            /\ \A i \in 1 .. Len(replies) : Waiting(i) /\ (\A h \in 1 .. i - 1 : ~Waiting(h)) =>
                 Expected(k, FrameOf(replies[i]), replies[i].fragno)
            /\ (\A i \in 1 .. Len(replies) : ~Waiting(i)) => Expected(k, NextFrame, txfragmentno)
      BY <2>3 DEF UpInv, PuttingTogether
    <3>2. k \in 1 .. queued' /\ IsPutTogether(k)'
      BY <3>1 DEF IsPutTogether
    <3>3. ASSUME NEW i \in 1 .. Len(replies'), Waiting(i)' /\ (\A h \in 1 .. i - 1 : ~Waiting(h)')
          PROVE  Expected(k, FrameOf(replies[i]), replies[i].fragno)'
      <4>1. i \in 1 .. L /\ Waiting(i) /\ replies'[i] = replies[i]
        BY <1>4, <3>3
      <4>2. Expected(k, FrameOf(replies[i]), replies[i].fragno)
        BY <1>3, <3>1, <3>3, <4>1 DEF L
      <4> QED
        BY <2>1, <4>1, <4>2 DEF FrameOf
    <3>4. (\A i \in 1 .. Len(replies') : ~Waiting(i)') => Expected(k, NextFrame, txfragmentno)'
      <4>1. (\A i \in 1 .. Len(replies') : ~Waiting(i)') => (\A i \in 1 .. Len(replies) : ~Waiting(i))
        BY <1>1, <1>3 DEF L
      <4> QED
        BY <2>1, <3>1, <4>1
    <3> QED
      BY <3>2, <3>3, <3>4
  <2> QED
    BY <2>2, <2>3 DEF PuttingTogether
<1> QED
  BY <1>5, <1>6, <1>7, <1>8, <1>9 DEF UpInv


\* The next fragment queued.
LEMMA UpSent ==
  ASSUME SettingsInv, InHand, InHand', UpInv,
         UNCHANGED <<mrx, mgot, faults, queued>>,
         NEW r \in Messages, replies' = Append(replies, r), r.kind = "fragment", Buffer,
         r.fragno = txfragmentno, FrameOf(r) = NextFrame, WellCut(r),
         txfragmentno' = IF r.last THEN 0 ELSE txfragmentno + 1,
         NextFrame' = IF r.last THEN NextFrame + 1 ELSE NextFrame
  PROVE  UpInv'
<1> DEFINE L == Len(replies)
<1>1. /\ L \in Nat /\ Len(replies') = L + 1 /\ replies'[L + 1] = r
      /\ \A i \in 1 .. L : replies'[i] = replies[i]
  BY Appended DEF SettingsInv, SettingsTyped
<1>2. /\ NextFrame \in Nat /\ txfragmentno \in Nat /\ r.last \in BOOLEAN
      /\ NextFrame' \in Nat /\ NextFrame' >= NextFrame
  <2>1. NextFrame \in Nat /\ txfragmentno \in Nat
    BY StartedTyped DEF InHand
  <2>2. r.last \in BOOLEAN
    BY DEF Messages
  <2> QED
    BY <2>1, <2>2
<1>3. \A i : i = L + 1 => Waiting(i)'
  BY <1>1 DEF Waiting
<1>4. \A i : Waiting(i)' => i = L + 1 \/ (i \in 1 .. L /\ Waiting(i) /\ replies'[i] = replies[i])
  <2>1. ASSUME NEW i, Waiting(i)', i # L + 1 PROVE i \in 1 .. L /\ Waiting(i) /\ replies'[i] = replies[i]
    <3>1. i \in 1 .. L
      BY <1>1, <2>1 DEF Waiting
    <3> QED
      BY <1>1, <2>1, <3>1 DEF Waiting
  <2> QED
    BY <2>1
<1>5. \A i \in 1 .. L : Waiting(i) => Waiting(i)'
  BY <1>1 DEF Waiting
<1>6. \A i \in 1 .. L : Waiting(i) =>
        /\ NotBefore(replies[i], NextFrame) /\ FrameOf(replies[i]) \in Nat
        /\ (\A h \in i + 1 .. L : ~Waiting(h)) => Follows(replies[i], NextFrame, txfragmentno)
        /\ FramePlace(NextFrame, txfragmentno) - FrameOf(replies[i]) <= L - i + 1
  BY WaitingTyped DEF UpInv, InSequence, TakesBuffers
<1>7. Queueing'
  <2>1. Len(replies') <= Bufs
    <3>1. Bufs \in Nat
      BY EoeConstantsAssumption
    <3>2. Len(replies) < Bufs
      BY DEF Buffer
    <3> QED
      BY <1>1, <3>1, <3>2
  <2>2. ASSUME NEW i \in 1 .. Len(replies'), Waiting(i)' PROVE WellCut(replies[i])'
    <3>1. WellCut(replies'[i])
      BY <1>1, <1>4, <2>2 DEF UpInv, Queueing
    <3> QED
      BY <3>1, Zenon DEF WellCut, FrameOf, PlaceOf
  <2> QED
    BY <2>1, <2>2 DEF Queueing
<1>8. InSequence'
  <2>1. ASSUME NEW i \in 1 .. Len(replies'), NEW j \in 1 .. Len(replies'), Waiting(i)', Waiting(j)', i < j
        PROVE  /\ NotBefore(replies[i], FrameOf(replies[j]))'
               /\ (\A h \in i + 1 .. j - 1 : ~Waiting(h)') =>
                    Follows(replies[i], FrameOf(replies[j]), replies[j].fragno)'
    <3>1. i \in 1 .. L /\ Waiting(i) /\ replies'[i] = replies[i]
      BY <1>1, <1>4, <2>1
    <3>2. CASE j \in 1 .. L
      <4>1. Waiting(j) /\ replies'[j] = replies[j]
        BY <1>1, <1>4, <2>1, <3>2
      <4>2. /\ NotBefore(replies[i], FrameOf(replies[j]))
            /\ (\A h \in i + 1 .. j - 1 : ~Waiting(h)) => Follows(replies[i], FrameOf(replies[j]), replies[j].fragno)
        BY <2>1, <3>1, <3>2, <4>1 DEF UpInv, InSequence
      <4>3. \A h \in i + 1 .. j - 1 : h \in 1 .. L
        BY <3>1, <3>2
      <4> QED
        BY <1>5, <3>1, <4>1, <4>2, <4>3 DEF NotBefore, Follows, FrameOf
    <3>3. CASE j = L + 1
      <4>1. replies'[j] = r /\ j - 1 = L
        BY <1>1, <3>3
      <4>2. (\A h \in i + 1 .. j - 1 : ~Waiting(h)') => \A h \in i + 1 .. L : ~Waiting(h)
        <5>1. \A h \in i + 1 .. L : h \in 1 .. L
          BY <3>1
        <5> QED
          BY <1>5, <4>1, <5>1
      <4>3. NotBefore(replies[i], FrameOf(r))
        BY <1>6, <3>1
      <4>4. (\A h \in i + 1 .. j - 1 : ~Waiting(h)') => Follows(replies[i], FrameOf(r), r.fragno)
        BY <1>6, <3>1, <4>2
      <4> QED
        BY <3>1, <4>1, <4>3, <4>4 DEF NotBefore, Follows, FrameOf
    <3> QED
      BY <1>1, <3>2, <3>3
  <2>2. ASSUME NEW i \in 1 .. Len(replies'), Waiting(i)'
        PROVE  /\ NotBefore(replies[i], NextFrame)'
               /\ (\A h \in i + 1 .. Len(replies') : ~Waiting(h)') => Follows(replies[i], NextFrame, txfragmentno)'
    <3>1. CASE i \in 1 .. L
      <4>1. Waiting(i) /\ replies'[i] = replies[i] /\ L + 1 \in i + 1 .. Len(replies')
        BY <1>1, <1>4, <2>2, <3>1
      <4>2. NotBefore(replies[i], NextFrame) /\ FrameOf(replies[i]) \in Nat
        BY <1>6, <3>1, <4>1
      <4>3. NotBefore(replies[i], NextFrame')
        BY <1>2, <4>2 DEF NotBefore
      <4> QED
        BY <1>3, <4>1, <4>3 DEF NotBefore, FrameOf
    <3>2. CASE i = L + 1
      <4>1. replies'[i] = r
        BY <1>1, <3>2
      <4>2. NotBefore(r, NextFrame') /\ Follows(r, NextFrame', txfragmentno')
        BY <1>2 DEF NotBefore, Follows
      <4> QED
        BY <4>1, <4>2 DEF NotBefore, Follows, FrameOf
    <3> QED
      BY <1>1, <3>1, <3>2
  <2> QED
    BY <2>1, <2>2 DEF InSequence
<1>9. TakesBuffers'
  <2>1. /\ FramePlace(NextFrame', txfragmentno') \in Nat /\ FramePlace(NextFrame, txfragmentno) \in Nat
        /\ FramePlace(NextFrame', txfragmentno') <= FramePlace(NextFrame, txfragmentno) + 1
        /\ FramePlace(NextFrame', txfragmentno') <= NextFrame + 1
    BY <1>2 DEF FramePlace
  <2>2. ASSUME NEW i \in 1 .. Len(replies'), Waiting(i)'
        PROVE  FramePlace(NextFrame', txfragmentno') - FrameOf(replies'[i]) <= Len(replies') - i + 1
    <3> DEFINE p == FramePlace(NextFrame, txfragmentno)  q == FramePlace(NextFrame', txfragmentno')
    <3>1. p \in Nat /\ q \in Nat /\ q <= p + 1 /\ q <= NextFrame + 1
      BY <2>1
    <3>2. CASE i \in 1 .. L
      <4> DEFINE f == FrameOf(replies[i])
      <4>1. Waiting(i) /\ replies'[i] = replies[i]
        BY <1>1, <1>4, <2>2, <3>2
      <4>2. f \in Nat /\ p - f <= L - i + 1
        BY <1>6, <3>2, <4>1
      <4> HIDE DEF p, q, f
      <4>3. q - f <= L + 1 - i + 1
        BY <1>1, <3>1, <3>2, <4>2
      <4> QED
        BY <1>1, <4>1, <4>3 DEF q, f
    <3>3. CASE i = L + 1
      <4> HIDE DEF p, q
      <4>1. q - NextFrame <= L + 1 - i + 1
        BY <1>1, <1>2, <3>1, <3>3
      <4> QED
        BY <1>1, <3>3, <4>1 DEF q
    <3> QED
      BY <1>1, <3>2, <3>3
  <2> QED
    BY <2>2 DEF TakesBuffers, FramePlace, FrameOf
<1>10. Taken'
  <2>1. /\ WholeFrame(mgot) \in 0 .. queued /\ WholeFrame(mgot) < NextFrame
        /\ \A i \in 1 .. L : Waiting(i) => WholeFrame(mgot) < FrameOf(replies[i])
    BY DEF UpInv, Taken
  <2>2. ASSUME NEW i \in 1 .. Len(replies'), Waiting(i)' PROVE WholeFrame(mgot) < FrameOf(replies[i])'
    <3>1. WholeFrame(mgot) < FrameOf(replies'[i])
      BY <1>1, <1>4, <2>1, <2>2
    <3> QED
      BY <3>1 DEF FrameOf
  <2>3. WholeFrame(mgot) < NextFrame'
    <3>1. WholeFrame(mgot) \in Nat
      BY <2>1, InHandTyped
    <3> QED
      BY <1>2, <2>1, <3>1
  <2>4. WholeFrame(mgot') = WholeFrame(mgot)
    OBVIOUS
  <2> QED
    BY <2>1, <2>2, <2>3, <2>4 DEF Taken
<1>11. PuttingTogether'
  <2>1. \A k, m, no : Expected(k, m, no)' <=> Expected(k, m, no)
    BY DEF Expected, FramePlace
  <2>2. mrx'.fragno \in Nat
    BY DEF UpInv, PuttingTogether
  <2>3. ASSUME mrx'.fragno # 0
        PROVE  \E k \in 1 .. queued' :
                 /\ IsPutTogether(k)'
                 /\ \A i \in 1 .. Len(replies') : Waiting(i)' /\ (\A h \in 1 .. i - 1 : ~Waiting(h)') =>
                      Expected(k, FrameOf(replies[i]), replies[i].fragno)'
                 /\ (\A i \in 1 .. Len(replies') : ~Waiting(i)') => Expected(k, NextFrame, txfragmentno)'
    <3>1. PICK k \in 1 .. queued :
            /\ IsPutTogether(k)
            /\ \A i \in 1 .. Len(replies) : Waiting(i) /\ (\A h \in 1 .. i - 1 : ~Waiting(h)) =>
                 Expected(k, FrameOf(replies[i]), replies[i].fragno)
            /\ (\A i \in 1 .. Len(replies) : ~Waiting(i)) => Expected(k, NextFrame, txfragmentno)
      BY <2>3 DEF UpInv, PuttingTogether
    <3>2. k \in 1 .. queued' /\ IsPutTogether(k)'
      BY <3>1 DEF IsPutTogether
    <3>3. ASSUME NEW i \in 1 .. Len(replies'), Waiting(i)' /\ (\A h \in 1 .. i - 1 : ~Waiting(h)')
          PROVE  Expected(k, FrameOf(replies[i]), replies[i].fragno)'
      <4>1. \A h \in 1 .. i - 1 : h \in 1 .. L
        BY <1>1
      <4>2. \A h \in 1 .. i - 1 : ~Waiting(h)
        BY <1>5, <3>3, <4>1
      <4>3. CASE i \in 1 .. L
        <5>1. Waiting(i) /\ replies'[i] = replies[i]
          BY <1>1, <1>4, <3>3, <4>3
        <5>2. Expected(k, FrameOf(replies[i]), replies[i].fragno)
          BY <3>1, <4>2, <4>3, <5>1
        <5> QED
          BY <2>1, <5>1, <5>2 DEF FrameOf
      <4>4. CASE i = L + 1
        <5>1. \A h \in 1 .. L : ~Waiting(h)
          BY <1>1, <4>2, <4>4
        <5>2. Expected(k, FrameOf(r), r.fragno)
          BY <3>1, <5>1
        <5> QED
          BY <1>1, <2>1, <4>4, <5>2 DEF FrameOf
      <4> QED
        BY <1>1, <4>3, <4>4
    <3>4. ~(\A i \in 1 .. Len(replies') : ~Waiting(i)')
      BY <1>1, <1>3
    <3> QED
      BY <3>2, <3>3, <3>4
  <2> QED
    BY <2>2, <2>3 DEF PuttingTogether
<1> QED
  BY <1>7, <1>8, <1>9, <1>10, <1>11 DEF UpInv


LEMMA ReadShifts ==
  ASSUME SettingsInv, ReadMbx
  PROVE  /\ Len(replies) \in Nat /\ Len(replies) # 0 /\ Len(replies') = Len(replies) - 1
         /\ Head(replies) = replies[1]
         /\ \A i : Waiting(i)' <=> i \in 1 .. Len(replies') /\ Waiting(i + 1)
         /\ \A i \in 1 .. Len(replies') : replies'[i] = replies[i + 1] /\ i + 1 \in 1 .. Len(replies)
<1>1. /\ Len(replies) \in Nat /\ Len(replies') = Len(replies) - 1
      /\ Len(replies) # 0 /\ Head(replies) = replies[1]
      /\ \A i \in 1 .. Len(replies') : replies'[i] = replies[i + 1]
  <2>1. replies \in Seq(Messages) /\ replies # <<>> /\ replies' = Tail(replies)
    BY DEF ReadMbx, SettingsInv, SettingsTyped
  <2> QED
    BY <2>1, Shifted
<1>2. \A i \in 1 .. Len(replies') : i + 1 \in 1 .. Len(replies)
  BY <1>1
<1>3. \A i : Waiting(i)' <=> i \in 1 .. Len(replies') /\ Waiting(i + 1)
  BY <1>1, <1>2 DEF Waiting
<1> QED
  BY <1>1, <1>2, <1>3

LEMMA UpReadQueue ==
  ASSUME SettingsInv, InHand, UpInv, ReadMbx
  PROVE  Queueing' /\ InSequence' /\ TakesBuffers'
<1> DEFINE L == Len(replies')
<1>1. /\ L \in Nat /\ Len(replies) = L + 1
      /\ \A i : Waiting(i)' <=> i \in 1 .. L /\ Waiting(i + 1)
      /\ \A i \in 1 .. L : replies'[i] = replies[i + 1] /\ i + 1 \in 1 .. Len(replies)
  BY ReadShifts
<1>2. UNCHANGED <<queued, txfragmentno, NextFrame>>
  BY DEF ReadMbx, txVars, NextFrame, Started
<1>3. \A i \in 1 .. L : Waiting(i)' => Waiting(i + 1)
  BY <1>1
<1> HIDE DEF L
<1>4. Queueing'
  <2>1. Len(replies') <= Bufs
    <3>1. Bufs \in Nat
      BY EoeConstantsAssumption
    <3>2. L + 1 <= Bufs
      BY <1>1, Zenon DEF UpInv, Queueing
    <3> QED
      BY <1>1, <3>1, <3>2 DEF L
  <2>2. ASSUME NEW i \in 1 .. L, Waiting(i)' PROVE WellCut(replies[i])'
    <3>1. WellCut(replies'[i])
      BY <1>1, <1>3, <2>2 DEF UpInv, Queueing
    <3> QED
      BY <1>2, <3>1 DEF WellCut, FrameOf, PlaceOf
  <2> QED
    BY <2>1, <2>2 DEF Queueing, L
<1>5. InSequence'
  <2>1. ASSUME NEW i \in 1 .. L, NEW j \in 1 .. L, Waiting(i)', Waiting(j)', i < j
        PROVE  /\ NotBefore(replies[i], FrameOf(replies[j]))'
               /\ (\A h \in i + 1 .. j - 1 : ~Waiting(h)') =>
                    Follows(replies[i], FrameOf(replies[j]), replies[j].fragno)'
    <3> DEFINE a == i + 1  b == j + 1
    <3>1. /\ a \in 1 .. Len(replies) /\ b \in 1 .. Len(replies) /\ Waiting(a) /\ Waiting(b) /\ a < b
          /\ replies'[i] = replies[a] /\ replies'[j] = replies[b]
      BY <1>1, <1>3, <2>1
    <3>2. (\A h \in i + 1 .. j - 1 : ~Waiting(h)') => \A h \in a + 1 .. b - 1 : ~Waiting(h)
      <4>1. ASSUME \A h \in i + 1 .. j - 1 : ~Waiting(h)', NEW h \in a + 1 .. b - 1 PROVE ~Waiting(h)
        <5>1. h - 1 \in i + 1 .. j - 1 /\ h - 1 \in 1 .. L /\ (h - 1) + 1 = h
          BY <1>1
        <5> QED
          BY <1>1, <4>1, <5>1
      <4> QED
        BY <4>1
    <3> HIDE DEF a, b
    <3>3. /\ NotBefore(replies[a], FrameOf(replies[b]))
          /\ (\A h \in a + 1 .. b - 1 : ~Waiting(h)) => Follows(replies[a], FrameOf(replies[b]), replies[b].fragno)
      BY <3>1 DEF UpInv, InSequence
    <3> QED
      BY <3>1, <3>2, <3>3 DEF NotBefore, Follows, FrameOf
  <2>2. ASSUME NEW i \in 1 .. L, Waiting(i)'
        PROVE  /\ NotBefore(replies[i], NextFrame)'
               /\ (\A h \in i + 1 .. L : ~Waiting(h)') => Follows(replies[i], NextFrame, txfragmentno)'
    <3> DEFINE a == i + 1
    <3>1. a \in 1 .. Len(replies) /\ Waiting(a) /\ replies'[i] = replies[a]
      BY <1>1, <1>3, <2>2
    <3>2. (\A h \in i + 1 .. L : ~Waiting(h)') => \A h \in a + 1 .. Len(replies) : ~Waiting(h)
      <4>1. ASSUME \A h \in i + 1 .. L : ~Waiting(h)', NEW h \in a + 1 .. Len(replies) PROVE ~Waiting(h)
        <5>1. h - 1 \in i + 1 .. L /\ h - 1 \in 1 .. L /\ (h - 1) + 1 = h
          BY <1>1
        <5> QED
          BY <1>1, <4>1, <5>1
      <4> QED
        BY <4>1
    <3> HIDE DEF a
    <3>3. /\ NotBefore(replies[a], NextFrame)
          /\ (\A h \in a + 1 .. Len(replies) : ~Waiting(h)) => Follows(replies[a], NextFrame, txfragmentno)
      BY <3>1 DEF UpInv, InSequence
    <3> QED
      BY <1>2, <3>1, <3>2, <3>3 DEF NotBefore, Follows, FrameOf
  <2> QED
    BY <2>1, <2>2 DEF InSequence, L
<1>6. TakesBuffers'
  <2>1. ASSUME NEW i \in 1 .. L, Waiting(i)'
        PROVE  FramePlace(NextFrame', txfragmentno') - FrameOf(replies'[i]) <= L - i + 1
    <3> DEFINE a == i + 1  f == FrameOf(replies[a])  p == FramePlace(NextFrame, txfragmentno)
    <3>1. a \in 1 .. Len(replies) /\ Waiting(a) /\ replies'[i] = replies[a]
      BY <1>1, <1>3, <2>1
    <3> HIDE DEF a
    <3>2. p - f <= Len(replies) - a + 1
      BY <3>1 DEF UpInv, TakesBuffers
    <3>3. f \in Nat /\ p \in Nat
      BY <3>1, WaitingTyped, StartedTyped DEF UpInv, FramePlace
    <3> HIDE DEF f, p
    <3>4. p - f <= L - i + 1
      BY <1>1, <3>2, <3>3 DEF a
    <3> QED
      BY <1>2, <3>1, <3>4 DEF FramePlace, p, f
  <2> QED
    BY <2>1 DEF TakesBuffers, FramePlace, FrameOf, L
<1> QED
  BY <1>4, <1>5, <1>6

\* What the master makes of a fragment: the frame, more of the frame, or nothing.
LEMMA TakeDelivers ==
  ASSUME SettingsInv, InHand, UpInv, Bufs * MaxFaults <= FrameNos, faults \in 0 .. MaxFaults,
         NEW r, r = replies[1], Waiting(1), TakeFragment(r), NEW m \in Frames, m = FrameOf(r)
  PROVE  \/ r.last /\ mgot' = Frame(m) /\ mrx'.fragno = 0
         \/ ~r.last /\ mgot' = mgot /\ mrx'.fragno = r.fragno + 1 /\ IsPutTogether(m)'
         \/ mgot' = mgot /\ mrx'.fragno = 0
<1>1. /\ r.fragno \in Nat /\ r.data \in Seq(Blocks) /\ WellCut(r) /\ r.last \in BOOLEAN
      /\ m \in Nat /\ m <= queued
  BY WaitingTyped DEF UpInv
<1>2. /\ Frame(m) \in Seq(Blocks) /\ Len(Frame(m)) = Sizes[m] /\ Sizes[m] \in Nat
  BY FrameTyped, SizesTyped
<1> DEFINE at == PlaceOf(r)  n == at + Len(r.data)
<1>3. /\ at \in Nat /\ r.data # <<>> /\ at + Len(r.data) <= Sizes[m]
      /\ r.data = SubSeq(Frame(m), at + 1, at + Len(r.data))
      /\ (r.last <=> at + Len(r.data) = Sizes[m]) /\ r.frameno = m % FrameNos
      /\ (r.fragno = 0 => at = 0) /\ (r.fragno # 0 => at = r.offset)
  BY <1>1 DEF WellCut
<1> HIDE DEF at
<1>4. Len(r.data) \in Nat /\ Len(r.data) # 0
  BY <1>1, <1>3, LenProperties, EmptySeq
<1>5. ASSUME NEW b, b = SubSeq(Frame(m), 1, at),
             mrx' = (IF ~r.last THEN [fragno |-> r.fragno + 1, frameno |-> r.frameno, data |-> b \o r.data]
                                ELSE NoFragment),
             mgot' = IF r.last THEN b \o r.data ELSE mgot
      PROVE  \/ r.last /\ mgot' = Frame(m) /\ mrx'.fragno = 0
             \/ ~r.last /\ mgot' = mgot /\ mrx'.fragno = r.fragno + 1 /\ IsPutTogether(m)'
  <2> DEFINE f == b \o r.data
  <2>1. f = SubSeq(Frame(m), 1, n)
    <3>1. SubSeq(Frame(m), 1, at) \o SubSeq(Frame(m), at + 1, at + Len(r.data)) = SubSeq(Frame(m), 1, at + Len(r.data))
      <4>1. at \in Nat /\ Len(r.data) \in Nat /\ at + Len(r.data) <= Len(Frame(m)) /\ Frame(m) \in Seq(Blocks)
        BY <1>2, <1>3, <1>4
      <4> HIDE DEF n
      <4> QED
        BY <4>1, PartsJoin
    <3> QED
      BY <1>3, <1>5, <3>1
  <2>2. n \in Nat /\ n # 0 /\ n <= Sizes[m]
    BY <1>2, <1>3, <1>4
  <2> HIDE DEF n, f
  <2>3. f \in Seq(Blocks) /\ Len(f) = n
    <3>1. 0 + n <= Len(Frame(m)) /\ 0 \in Nat /\ SubSeq(Frame(m), 0 + 1, 0 + n) = SubSeq(Frame(m), 1, n)
      BY <1>2, <2>2
    <3>2. SubSeq(Frame(m), 0 + 1, 0 + n) \in Seq(Blocks) /\ Len(SubSeq(Frame(m), 0 + 1, 0 + n)) = n
      BY <1>2, <2>2, <3>1, PartTyped
    <3> QED
      BY <2>1, <3>1, <3>2
  <2>4. CASE r.last
    <3>1. mgot' = f /\ mrx' = NoFragment
      BY <1>5, <2>4 DEF f
    <3>2. n = Len(Frame(m))
      BY <1>2, <1>3, <2>4 DEF n
    <3>3. SubSeq(Frame(m), 1, Len(Frame(m))) = Frame(m)
      BY <1>2, SubSeqFull
    <3> QED
      BY <2>1, <2>4, <3>1, <3>2, <3>3 DEF NoFragment
  <2>5. CASE ~r.last
    <3>1. mrx' = [fragno |-> r.fragno + 1, frameno |-> r.frameno, data |-> f] /\ mgot' = mgot
      BY <1>5, <2>5 DEF f
    <3>2. n < Sizes[m]
      BY <1>2, <1>3, <2>2, <2>5 DEF n
    <3>3. f # <<>>
      BY <2>2, <2>3, EmptySeq
    <3>4. mrx'.data = f /\ mrx'.frameno = r.frameno /\ mrx'.fragno = r.fragno + 1
      BY <3>1
    <3>5. IsPutTogether(m)'
      BY <1>3, <2>1, <2>3, <3>2, <3>3, <3>4 DEF IsPutTogether
    <3> QED
      BY <2>5, <3>1, <3>4, <3>5
  <2> QED
    BY <2>4, <2>5
<1>6. CASE r.fragno = 0
  <2>1. SubSeq(Frame(m), 1, at) = <<>>
    BY <1>2, <1>3, <1>6, SubSeqProperties
  <2> QED
    BY <1>5, <1>6, <2>1 DEF TakeFragment
<1>7. CASE r.fragno # 0 /\ r.fragno = mrx.fragno /\ r.frameno = mrx.frameno /\ r.offset = Len(mrx.data)
  <2>1. PICK k \in 1 .. queued : IsPutTogether(k) /\ Expected(k, FrameOf(r), r.fragno)
    <3>1. 1 \in 1 .. Len(replies) /\ \A h \in 1 .. 1 - 1 : ~Waiting(h)
      BY DEF Waiting
    <3> QED
      BY <1>7, <3>1 DEF UpInv, PuttingTogether
  <2>2. k \in Nat /\ k <= m /\ k % FrameNos = m % FrameNos
    BY <1>1, <1>3, <1>7, <2>1 DEF IsPutTogether, Expected
  <2>3. k = m
    <3>1. SUFFICES ASSUME k # m PROVE FALSE
      OBVIOUS
    <3>2. k < m /\ FrameNos \in Nat /\ Bufs \in Nat /\ MaxFaults \in Nat
      BY <1>1, <2>2, <3>1, EoeConstantsAssumption
    <3>3. (m + 1) - k <= Bufs * faults
      BY <1>7, <2>1, <3>1 DEF Expected, FramePlace
    <3>4. Bufs * faults <= Bufs * MaxFaults /\ Bufs * faults \in Nat /\ Bufs * MaxFaults \in Nat
      BY <3>2
    <3>5. m - k >= FrameNos
      BY <1>1, <2>2, <3>2, SameNumber
    <3> DEFINE lost == Bufs * faults  bound == Bufs * MaxFaults
    <3>6. lost \in Nat /\ bound \in Nat /\ lost <= bound /\ bound <= FrameNos /\ (m + 1) - k <= lost
      BY <3>3, <3>4
    <3> HIDE DEF lost, bound
    <3> QED
      BY <1>1, <2>2, <3>2, <3>5, <3>6
  <2>4. mrx.data = SubSeq(Frame(m), 1, at)
    BY <1>3, <1>7, <2>1, <2>3 DEF IsPutTogether
  <2> QED
    BY <1>5, <1>7, <2>4 DEF TakeFragment
<1>8. CASE r.fragno # 0 /\ ~(r.fragno = mrx.fragno /\ r.frameno = mrx.frameno /\ r.offset = Len(mrx.data))
  <2>1. mrx' = NoFragment /\ mgot' = mgot
    BY <1>8 DEF TakeFragment
  <2> QED
    BY <2>1 DEF NoFragment
<1> QED
  BY <1>6, <1>7, <1>8


LEMMA UpReads ==
  ASSUME SettingsInv, InHand, UpInv, Bufs * MaxFaults <= FrameNos, faults \in 0 .. MaxFaults, ReadMbx
  PROVE  /\ UpInv'
         /\ \/ WholeFrame(mgot') = WholeFrame(mgot)
            \/ WholeFrame(mgot') \in WholeFrame(mgot) + 1 .. queued
<1> DEFINE L == Len(replies')
<1>1. /\ L \in Nat /\ Len(replies) = L + 1 /\ Head(replies) = replies[1]
      /\ \A i : Waiting(i)' <=> i \in 1 .. L /\ Waiting(i + 1)
      /\ \A i \in 1 .. L : replies'[i] = replies[i + 1] /\ i + 1 \in 1 .. Len(replies)
  BY ReadShifts
<1>2. UNCHANGED <<queued, txfragmentno, NextFrame, faults>>
  BY DEF ReadMbx, txVars, NextFrame, Started
<1>3. Queueing' /\ InSequence' /\ TakesBuffers'
  BY UpReadQueue
<1>4. \A k, m, no : mrx' = mrx => (Expected(k, m, no)' <=> Expected(k, m, no))
  BY <1>2 DEF Expected, FramePlace
<1>5. 1 \in 1 .. Len(replies)
  BY <1>1
<1> HIDE DEF L
\* The first fragment that waits now was the first behind the one read.
<1>6. ASSUME NEW i \in 1 .. L, Waiting(i)', \A h \in 1 .. i - 1 : ~Waiting(h)'
      PROVE  i + 1 \in 1 .. Len(replies) /\ Waiting(i + 1) /\ \A h \in 2 .. i : ~Waiting(h)
  <2>1. ASSUME NEW h \in 2 .. i PROVE ~Waiting(h)
    <3>1. h - 1 \in 1 .. i - 1 /\ h - 1 \in 1 .. L /\ (h - 1) + 1 = h
      BY <1>1
    <3> QED
      BY <1>1, <1>6, <3>1
  <2> QED
    BY <1>1, <1>6, <2>1
<1>7. (\A i \in 1 .. L : ~Waiting(i)') => \A h \in 2 .. Len(replies) : ~Waiting(h)
  <2>1. ASSUME \A i \in 1 .. L : ~Waiting(i)', NEW h \in 2 .. Len(replies) PROVE ~Waiting(h)
    <3>1. h - 1 \in 1 .. L /\ (h - 1) + 1 = h
      BY <1>1
    <3> QED
      BY <1>1, <2>1, <3>1
  <2> QED
    BY <2>1
<1>8. /\ WholeFrame(mgot) \in 0 .. queued /\ WholeFrame(mgot) < NextFrame
      /\ \A i \in 1 .. Len(replies) : Waiting(i) => WholeFrame(mgot) < FrameOf(replies[i])
  BY DEF UpInv, Taken
<1>9. mrx.fragno \in Nat
  BY DEF UpInv, PuttingTogether
<1>10. ASSUME mgot' = mgot PROVE Taken' /\ WholeFrame(mgot') = WholeFrame(mgot)
  <2>1. WholeFrame(mgot') = WholeFrame(mgot)
    BY <1>10
  <2>2. ASSUME NEW i \in 1 .. L, Waiting(i)' PROVE WholeFrame(mgot) < FrameOf(replies[i])'
    <3>1. WholeFrame(mgot) < FrameOf(replies'[i])
      BY <1>1, <1>8, <2>2
    <3> QED
      BY <3>1 DEF FrameOf
  <2>3. Taken'
    BY <1>2, <1>8, <2>1, <2>2 DEF Taken, L
  <2> QED
    BY <2>1, <2>3
<1>11. ASSUME mrx'.fragno = 0 PROVE PuttingTogether'
  BY <1>11 DEF PuttingTogether
<1>12. CASE replies[1].kind # "fragment"
  <2>1. mrx' = mrx /\ mgot' = mgot
    BY <1>1, <1>12 DEF ReadMbx
  <2>2. ~Waiting(1)
    BY <1>12 DEF Waiting
  <2>3. ASSUME mrx'.fragno # 0 PROVE PuttingTogether'
    <3>1. PICK k \in 1 .. queued :
            /\ IsPutTogether(k)
            /\ \A i \in 1 .. Len(replies) : Waiting(i) /\ (\A h \in 1 .. i - 1 : ~Waiting(h)) =>
                 Expected(k, FrameOf(replies[i]), replies[i].fragno)
            /\ (\A i \in 1 .. Len(replies) : ~Waiting(i)) => Expected(k, NextFrame, txfragmentno)
      BY <2>1, <2>3 DEF UpInv, PuttingTogether
    <3>2. k \in 1 .. queued' /\ IsPutTogether(k)'
      BY <1>2, <2>1, <3>1 DEF IsPutTogether
    <3>3. ASSUME NEW i \in 1 .. L, Waiting(i)' /\ (\A h \in 1 .. i - 1 : ~Waiting(h)')
          PROVE  Expected(k, FrameOf(replies[i]), replies[i].fragno)'
      <4> DEFINE a == i + 1
      <4>1. /\ a \in 1 .. Len(replies) /\ Waiting(a) /\ \A h \in 2 .. i : ~Waiting(h)
            /\ replies'[i] = replies[a]
        BY <1>1, <1>6, <3>3
      <4>2. \A h \in 1 .. a - 1 : ~Waiting(h)
        <5>1. ASSUME NEW h \in 1 .. a - 1 PROVE ~Waiting(h)
          <6>1. h = 1 \/ h \in 2 .. i
            BY <1>1
          <6> QED
            BY <2>2, <4>1, <6>1
        <5> QED
          BY <5>1
      <4> HIDE DEF a
      <4>3. Expected(k, FrameOf(replies[a]), replies[a].fragno)
        BY <3>1, <4>1, <4>2
      <4> QED
        BY <1>4, <2>1, <4>1, <4>3 DEF FrameOf
    <3>4. (\A i \in 1 .. L : ~Waiting(i)') => Expected(k, NextFrame, txfragmentno)'
      <4>1. (\A i \in 1 .. L : ~Waiting(i)') => \A h \in 1 .. Len(replies) : ~Waiting(h)
        <5>1. \A h \in 1 .. Len(replies) : h = 1 \/ h \in 2 .. Len(replies)
          BY <1>1
        <5> QED
          BY <1>7, <2>2, <5>1
      <4> QED
        BY <1>2, <1>4, <2>1, <3>1, <4>1
    <3> QED
      BY <1>9, <2>1, <3>2, <3>3, <3>4 DEF PuttingTogether, L
  <2> QED
    BY <1>3, <1>10, <1>11, <2>1, <2>3 DEF UpInv
<1>13. CASE replies[1].kind = "fragment"
  <2> DEFINE r == replies[1]
  <2>1. Waiting(1) /\ TakeFragment(r)
    BY <1>1, <1>5, <1>13 DEF ReadMbx, Waiting
  <2>2. /\ r.fragno \in Nat /\ WellCut(r) /\ FrameOf(r) \in Nat /\ FrameOf(r) # 0 /\ FrameOf(r) <= queued
        /\ queued \in Nat /\ queued <= Len(Sizes) /\ Len(Sizes) \in Nat
    BY <2>1, WaitingTyped, InHandTyped DEF UpInv, InHand
  <2> HIDE DEF r
  <2>3. PICK m \in Frames : m = FrameOf(r) /\ m \in 1 .. queued /\ m \in Nat
    BY <2>2, SizesTyped
  <2>4. \/ r.last /\ mgot' = Frame(m) /\ mrx'.fragno = 0
        \/ ~r.last /\ mgot' = mgot /\ mrx'.fragno = r.fragno + 1 /\ IsPutTogether(m)'
        \/ mgot' = mgot /\ mrx'.fragno = 0
    BY <2>1, <2>3, TakeDelivers DEF r
  <2>5. CASE mgot' = mgot /\ mrx'.fragno = 0
    BY <1>3, <1>10, <1>11, <2>5 DEF UpInv
  <2>6. CASE r.last /\ mgot' = Frame(m) /\ mrx'.fragno = 0
    <3>1. WholeFrame(mgot') = m
      BY <2>6, WholeFrameKnown
    <3>2. m \in WholeFrame(mgot) + 1 .. queued
      BY <1>5, <1>8, <2>1, <2>2, <2>3 DEF r
    <3>3. ASSUME NEW i \in 1 .. L, Waiting(i)' PROVE m < FrameOf(replies[i])'
      <4>1. NotBefore(replies[1], FrameOf(replies[i + 1]))
        <5>1. 1 < i + 1 /\ i + 1 \in 1 .. Len(replies) /\ Waiting(i + 1)
          BY <1>1, <3>3
        <5> QED
          BY <1>5, <2>1, <5>1 DEF UpInv, InSequence
      <4> QED
        BY <1>1, <2>3, <2>6, <4>1 DEF NotBefore, FrameOf, r
    <3>4. m < NextFrame
      <4>1. NotBefore(replies[1], NextFrame)
        BY <1>5, <2>1 DEF UpInv, InSequence
      <4> QED
        BY <2>3, <2>6, <4>1 DEF NotBefore, r
    <3>5. Taken'
      <4>1. m \in 0 .. queued
        BY <2>3
      <4> QED
        BY <1>2, <3>1, <3>3, <3>4, <4>1 DEF Taken, L
    <3> QED
      BY <1>3, <1>11, <2>6, <3>1, <3>2, <3>5 DEF UpInv
  <2>7. CASE ~r.last /\ mgot' = mgot /\ mrx'.fragno = r.fragno + 1 /\ IsPutTogether(m)'
    <3>1. ASSUME NEW i \in 1 .. L, Waiting(i)' /\ (\A h \in 1 .. i - 1 : ~Waiting(h)')
          PROVE  Expected(m, FrameOf(replies[i]), replies[i].fragno)'
      <4> DEFINE a == i + 1
      <4>0. /\ i \in 1 .. Len(replies) - 1 /\ a - 1 = i /\ 1 < a /\ a \in 1 .. Len(replies)
            /\ replies'[i] = replies[a]
        BY <1>1
      <4>5. Waiting(a) /\ \A h \in 2 .. i : ~Waiting(h)
        BY <1>6, <3>1
      <4> HIDE DEF a
      <4>1. /\ a \in 1 .. Len(replies) /\ Waiting(a) /\ 1 < a
            /\ \A h \in 1 + 1 .. a - 1 : ~Waiting(h)
            /\ replies'[i] = replies[a]
        BY <4>0, <4>5
      <4>2. Follows(r, FrameOf(replies[a]), replies[a].fragno)
        BY <1>5, <2>1, <4>1 DEF UpInv, InSequence, r
      <4>3. FrameOf(replies[a]) = m /\ replies[a].fragno = r.fragno + 1
        BY <2>3, <2>7, <4>2 DEF Follows
      <4>4. FrameOf(replies'[i]) = m /\ replies'[i].fragno = mrx'.fragno /\ m >= m
        BY <2>3, <2>7, <4>1, <4>3
      <4> QED
        BY <4>4 DEF Expected, FrameOf
    <3>2. (\A i \in 1 .. L : ~Waiting(i)') => Expected(m, NextFrame, txfragmentno)'
      <4>1. ASSUME \A i \in 1 .. L : ~Waiting(i)' PROVE Expected(m, NextFrame, txfragmentno)'
        <5>1. \A h \in 1 + 1 .. Len(replies) : ~Waiting(h)
          BY <1>7, <4>1
        <5>2. Follows(r, NextFrame, txfragmentno)
          BY <1>5, <2>1, <5>1 DEF UpInv, InSequence, r
        <5>3. NextFrame = m /\ txfragmentno = r.fragno + 1
          BY <2>3, <2>7, <5>2 DEF Follows
        <5>4. NextFrame' = m /\ txfragmentno' = mrx'.fragno /\ m >= m
          BY <1>2, <2>3, <2>7, <5>3
        <5> QED
          BY <5>4 DEF Expected
      <4> QED
        BY <4>1
    <3>3. mrx'.fragno \in Nat
      BY <2>2, <2>7
    <3>4. m \in 1 .. queued'
      BY <1>2, <2>3
    <3>5. PuttingTogether'
      BY <2>7, <3>1, <3>2, <3>3, <3>4 DEF PuttingTogether, L
    <3> QED
      BY <1>3, <1>10, <2>7, <3>5 DEF UpInv
  <2> QED
    BY <2>4, <2>5, <2>6, <2>7
<1> QED
  BY <1>12, <1>13


LEMMA LeastExists ==
  ASSUME NEW T \in SUBSET Nat, T # {}
  PROVE  \E x \in T : \A y \in T : x <= y
<1> DEFINE R == {ss \in Nat \X Nat : ss[1] < ss[2]}
<1>1. IsWellFoundedOn(R, Nat)
  BY NatLessThanWellFounded DEF OpToRel
<1>2. \A y, x \in Nat : y < x => <<y, x>> \in R
  OBVIOUS
<1> HIDE DEF R
<1>3. PICK x \in T : \A y \in T : <<y, x>> \notin R
  BY <1>1, WFMin
<1>4. ASSUME NEW y \in T PROVE x <= y
  <2>1. x \in Nat /\ y \in Nat
    OBVIOUS
  <2>2. ~(y < x)
    BY <1>2, <1>3, <2>1
  <2> QED
    BY <2>1, <2>2
<1> QED
  BY <1>4

LEMMA FirstWaits ==
  ASSUME Len(replies) \in Nat, NEW i \in 1 .. Len(replies), Waiting(i)
  PROVE  \E j \in 1 .. Len(replies) : Waiting(j) /\ \A h \in 1 .. j - 1 : ~Waiting(h)
<1> DEFINE T == {j \in 1 .. Len(replies) : Waiting(j)}
<1>1. T \in SUBSET Nat /\ T # {}
  OBVIOUS
<1>2. PICK j \in T : \A y \in T : j <= y
  <2> HIDE DEF T
  <2> QED
    BY <1>1, LeastExists
<1>3. ASSUME NEW h \in 1 .. j - 1 PROVE ~Waiting(h)
  <2>1. h \in 1 .. Len(replies) /\ ~(j <= h)
    OBVIOUS
  <2> QED
    BY <1>2, <2>1
<1> QED
  BY <1>2, <1>3

\* The fragments lost in a restart are at most as many as there are buffers.
LEMMA UpRestarts ==
  ASSUME SettingsInv, InHand, UpInv, faults \in Nat, RestartMbx
  PROVE  UpInv' /\ WholeFrame(mgot') = WholeFrame(mgot)
<1>1. /\ replies' = <<>> /\ faults' = faults + 1
      /\ UNCHANGED <<mrx, mgot, queued, txfragmentno, NextFrame>>
  BY DEF RestartMbx, txVars, NextFrame, Started
<1>2. Len(replies') = 0 /\ Bufs \in Nat
  BY <1>1, EoeConstantsAssumption
<1>3. \A i : ~Waiting(i)'
  BY <1>2 DEF Waiting
<1>4. Queueing' /\ InSequence' /\ TakesBuffers'
  BY <1>2, <1>3 DEF Queueing, InSequence, TakesBuffers
<1>5. WholeFrame(mgot') = WholeFrame(mgot)
  BY <1>1
<1>6. Taken'
  BY <1>1, <1>3, <1>5 DEF UpInv, Taken
<1>7. /\ NextFrame \in Nat /\ txfragmentno \in Nat /\ queued \in Nat
      /\ Len(replies) \in Nat /\ Len(replies) <= Bufs
  <2>1. replies \in Seq(Messages)
    BY DEF SettingsInv, SettingsTyped
  <2> QED
    BY <2>1, StartedTyped, InHandTyped, LenProperties DEF InHand, UpInv, Queueing
<1>8. ASSUME mrx'.fragno # 0 PROVE PuttingTogether'
  <2>1. PICK k \in 1 .. queued :
          /\ IsPutTogether(k)
          /\ \A i \in 1 .. Len(replies) : Waiting(i) /\ (\A h \in 1 .. i - 1 : ~Waiting(h)) =>
               Expected(k, FrameOf(replies[i]), replies[i].fragno)
          /\ (\A i \in 1 .. Len(replies) : ~Waiting(i)) => Expected(k, NextFrame, txfragmentno)
    BY <1>1, <1>8 DEF UpInv, PuttingTogether
  <2>2. k \in 1 .. queued' /\ IsPutTogether(k)' /\ k \in Nat
    BY <1>1, <1>7, <2>1 DEF IsPutTogether
  <2>3. Expected(k, NextFrame, txfragmentno)'
    <3>1. CASE \A i \in 1 .. Len(replies) : ~Waiting(i)
      <4>1. Expected(k, NextFrame, txfragmentno)
        BY <2>1, <3>1
      <4>2. PICK m \in Nat, no \in Nat : m = NextFrame /\ no = txfragmentno
        BY <1>7
      <4>3. Expected(k, m, no)'
        BY <1>1, <2>2, <4>1, <4>2, ExpectedTyped
      <4> QED
        BY <1>1, <4>2, <4>3
    <3>2. CASE \E i \in 1 .. Len(replies) : Waiting(i)
      <4>1. PICK i \in 1 .. Len(replies) : Waiting(i) /\ \A h \in 1 .. i - 1 : ~Waiting(h)
        BY <1>7, <3>2, FirstWaits
      <4> DEFINE f == FrameOf(replies[i])
                 p == FramePlace(NextFrame, txfragmentno)
                 lost == Bufs * faults
      <4>2. /\ Expected(k, f, replies[i].fragno) /\ replies[i].fragno \in Nat /\ f \in Nat
        BY <2>1, <4>1, WaitingTyped DEF UpInv
      <4>3. f <= NextFrame /\ p - f <= Len(replies) - i + 1 /\ p \in Nat
        <5>1. NotBefore(replies[i], NextFrame)
          BY <4>1 DEF UpInv, InSequence
        <5>2. p - f <= Len(replies) - i + 1
          BY <4>1 DEF UpInv, TakesBuffers
        <5>3. f <= NextFrame
          BY <1>7, <4>2, <5>1 DEF NotBefore
        <5> QED
          BY <1>7, <5>2, <5>3 DEF FramePlace
      <4>4. lost \in Nat /\ Bufs * (faults + 1) = lost + Bufs
        BY <1>2
      <4>5. k <= f /\ f - k <= lost
        <5>1. f >= k /\ (f = k \/ FramePlace(f, replies[i].fragno) - k <= lost)
          BY <4>2 DEF Expected
        <5>2. FramePlace(f, replies[i].fragno) \in Nat /\ FramePlace(f, replies[i].fragno) >= f
          BY <4>2 DEF FramePlace
        <5> HIDE DEF f, lost
        <5>3. CASE f = k
          BY <2>2, <4>4, <5>1, <5>3
        <5>4. CASE FramePlace(f, replies[i].fragno) - k <= lost
          BY <2>2, <4>2, <4>4, <5>1, <5>2, <5>4
        <5> QED
          BY <5>1, <5>3, <5>4
      <4> HIDE DEF f, p, lost
      <4>6. p - k <= lost + Bufs /\ NextFrame >= k
        BY <1>2, <1>7, <2>2, <4>2, <4>3, <4>4, <4>5
      <4>7. FramePlace(NextFrame', txfragmentno') - k <= Bufs * faults'
        BY <1>1, <4>4, <4>6 DEF p
      <4>8. NextFrame' >= k
        BY <1>1, <4>6
      <4> QED
        BY <4>7, <4>8 DEF Expected, FramePlace
    <3> QED
      BY <3>1, <3>2
  <2>4. mrx'.fragno \in Nat
    BY <1>1 DEF UpInv, PuttingTogether
  <2> QED
    BY <1>2, <1>3, <2>2, <2>3, <2>4 DEF PuttingTogether
<1>9. ASSUME mrx'.fragno = 0 PROVE PuttingTogether'
  BY <1>9 DEF PuttingTogether
<1> QED
  BY <1>4, <1>5, <1>6, <1>8, <1>9 DEF UpInv

LEMMA AnswerAppended ==
  ASSUME SettingsInv, ESC_eoeprocess
  PROVE  \/ replies' = replies
         \/ Buffer /\ \E r \in Messages : r.kind # "fragment" /\ replies' = Append(replies, r)
<1>1. CASE req.kind = "fragment"
  BY <1>1 DEF ESC_eoeprocess
<1>2. CASE req.kind = "set" /\ EOE_set_ip(req)
  <2>1. req.value \in Nat
    BY <1>2 DEF SettingsInv, SettingsTyped
  <2>2. PICK result \in {"SIZETOOSHORT", "SUCCESS", "FAILED"} :
          replies' = IF Buffer THEN Append(replies, [kind |-> "response", result |-> result, value |-> req.value])
                     ELSE replies
    BY <1>2 DEF EOE_set_ip
  <2> DEFINE r == [kind |-> "response", result |-> result, value |-> req.value]
  <2>3. r \in [kind : {"response"}, result : {"SUCCESS", "FAILED", "SIZETOOSHORT"}, value : Nat]
    BY <2>1
  <2>4. r \in Messages /\ r.kind # "fragment"
    BY <2>3 DEF Messages
  <2> HIDE DEF r
  <2> QED
    BY <2>2, <2>4 DEF r
<1>3. CASE req.kind = "get" /\ EOE_get_ip
  <2> DEFINE r == [kind |-> "params", fields |-> {f \in Fields : nic_ports[f].set},
                   value |-> [f \in Fields |-> nic_ports[f].value]]
  <2>1. nic_ports \in [Fields -> [set : BOOLEAN, value : Nat]]
    BY DEF SettingsInv, SettingsTyped
  <2>2. r \in [kind : {"params"}, fields : SUBSET Fields, value : [Fields -> Nat]]
    BY <2>1
  <2>3. r \in Messages /\ r.kind # "fragment"
    BY <2>2 DEF Messages
  <2>4. replies' = IF Buffer THEN Append(replies, r) ELSE replies
    BY <1>3 DEF EOE_get_ip
  <2> HIDE DEF r
  <2> QED
    BY <2>3, <2>4
<1> QED
  BY <1>1, <1>2, <1>3 DEF ESC_eoeprocess

\* Every step sends the next frame, delivers a later one whole, or does neither.
LEMMA UpStep ==
  ASSUME Bufs * MaxFaults <= FrameNos, DeviceInv, DeviceInv', UpInv, faults \in 0 .. MaxFaults, [Next]_vars
  PROVE  /\ UpInv'
         /\ \/ queued' = queued + 1 /\ WholeFrame(mgot)' = WholeFrame(mgot)
            \/ queued' = queued /\ WholeFrame(mgot') \in WholeFrame(mgot) + 1 .. queued
            \/ queued' = queued /\ WholeFrame(mgot)' = WholeFrame(mgot)
<1> USE DEF rxVars, txVars, netVars
<1>1. SettingsInv /\ InHand /\ InHand' /\ Numbered /\ free \in Int /\ faults \in Nat
  BY EoeConstantsAssumption DEF DeviceInv, BufferInv, BufferTyped
<1>2. CASE RestartMbx
  <2>1. queued' = queued
    BY <1>2 DEF RestartMbx
  <2> QED
    BY <1>1, <1>2, <2>1, UpRestarts
<1>3. CASE ReadMbx
  <2>1. queued' = queued
    BY <1>3 DEF ReadMbx
  <2> QED
    BY <1>1, <1>3, <2>1, UpReads
<1>4. CASE UNCHANGED <<txVars, replies, mrx, mgot, faults>>
  <2>1. UNCHANGED <<replies, mrx, mgot, txfragmentno, NextFrame, faults>> /\ queued' = queued
    BY <1>4 DEF NextFrame, Started
  <2> QED
    BY <1>1, <2>1, UpSame
<1>5. CASE ESC_eoeprocess_tx
  <2>1. CASE NothingToSend
    BY <1>4, <1>5, <2>1 DEF ESC_eoeprocess_tx, NothingToSend
  <2>2. CASE EOE_send_fragment /\ Buffer
    <3>1. UNCHANGED <<mrx, mgot, faults, queued>>
      BY <1>5, <2>2 DEF ESC_eoeprocess_tx, EOE_send_fragment
    <3>2. PICK r \in Messages :
            /\ replies' = Append(replies, r) /\ r.kind = "fragment" /\ r.fragno = txfragmentno
            /\ FrameOf(r) = NextFrame /\ WellCut(r)
            /\ txfragmentno' = IF r.last THEN 0 ELSE txfragmentno + 1
            /\ NextFrame' = IF r.last THEN NextFrame + 1 ELSE NextFrame
      BY <1>1, <2>2, FragmentSent
    <3>3. UpInv'
      BY <1>1, <2>2, <3>1, <3>2, UpSent
    <3> QED
      BY <3>1, <3>3
  <2>3. CASE EOE_send_fragment /\ ~Buffer
    <3>1. UNCHANGED <<mrx, mgot, faults>>
      BY <1>5 DEF ESC_eoeprocess_tx
    <3>2. UNCHANGED <<txfragmentno, frameno, replies, Started>> /\ queued' = queued
      BY <1>1, <2>3, SendFragmentConserves
    <3>3. UNCHANGED NextFrame
      BY <3>2 DEF NextFrame
    <3>4. UpInv'
      BY <1>1, <3>1, <3>2, <3>3, UpSame
    <3> QED
      BY <3>1, <3>2, <3>4
  <2> QED
    BY <1>5, <2>1, <2>2, <2>3 DEF ESC_eoeprocess_tx
<1>6. CASE ESC_eoeprocess
  <2>1. UNCHANGED <<txVars, mrx, mgot, faults>>
    BY <1>6 DEF ESC_eoeprocess
  <2>2. CASE replies' = replies
    BY <1>4, <2>1, <2>2
  <2>3. CASE Buffer /\ \E r \in Messages : r.kind # "fragment" /\ replies' = Append(replies, r)
    <3>1. UNCHANGED <<mrx, mgot, txfragmentno, NextFrame, faults, queued>>
      BY <2>1 DEF NextFrame, Started
    <3>2. UpInv'
      BY <1>1, <2>3, <3>1, UpAnswered
    <3> QED
      BY <3>1, <3>2
  <2> QED
    BY <1>1, <1>6, <2>2, <2>3, AnswerAppended
<1>7. CASE AppSend
  <2>1. /\ queue = <<>> /\ queued' = queued + 1 /\ queue' = <<queued'>>
        /\ UNCHANGED <<txebuf, txfragmentno, replies, mrx, mgot, faults>>
    BY <1>7 DEF AppSend
  <2>2. Len(queue) = 0 /\ Len(queue') = 1 /\ queued \in Nat
    BY <1>1, <2>1, InHandTyped
  <2>3. queued' - Len(queue') = queued - Len(queue)
    BY <2>1, <2>2
  <2>4. NextFrame' = NextFrame
    BY <2>1, <2>3 DEF NextFrame, Started
  <2>5. UpInv'
    BY <1>1, <2>1, <2>4, UpSame
  <2> QED
    BY <2>1, <2>5
<1>8. CASE SendFragment \/ AskSettings \/ AppFree \/ UNCHANGED vars \/ \E fs \in Settings : EOE_ecat_set(fs)
  BY <1>4, <1>8 DEF SendFragment, AskSettings, AppFree, EOE_ecat_set, vars
<1> QED
  BY <1>2, <1>3, <1>5, <1>6, <1>7, <1>8 DEF Next

LEMMA UpInit ==
  ASSUME Init
  PROVE  UpInv /\ queued = 0 /\ WholeFrame(mgot) = 0
<1>1. /\ replies = <<>> /\ queued = 0 /\ mrx.fragno = 0 /\ txfragmentno = 0 /\ WholeFrame(mgot) = 0
      /\ queue = <<>> /\ txebuf = None
  BY WholeFrameKnown DEF Init, NoFragment
<1>2. Len(replies) = 0 /\ Len(queue) = 0 /\ Bufs \in Nat
  BY <1>1, EoeConstantsAssumption
<1>3. \A i : ~Waiting(i)
  BY <1>2 DEF Waiting
<1>4. NextFrame = 1
  <2>1. ~(txebuf # None /\ txfragmentno = 0)
    BY <1>1
  <2>2. Started = 0 - 0 - 0
    BY <1>1, <1>2, <2>1 DEF Started
  <2> QED
    BY <1>1, <2>2 DEF NextFrame
<1>5. Queueing /\ InSequence /\ TakesBuffers
  BY <1>2, <1>3 DEF Queueing, InSequence, TakesBuffers
<1>6. PuttingTogether /\ Taken
  BY <1>1, <1>3, <1>4 DEF PuttingTogether, Taken
<1> QED
  BY <1>1, <1>5, <1>6 DEF UpInv

LEMMA UpImplements ==
  ASSUME MaxFaults <= FrameNos, Bufs * MaxFaults <= FrameNos
  PROVE  Spec => Up!Spec
<1>1. Init => DeviceInv /\ DownInv /\ UpInv /\ Up!Init
  BY DeviceStep, DownInit, UpInit DEF Up!Init
<1>2. ASSUME DeviceInv /\ DownInv /\ UpInv, [Next]_vars
      PROVE  (DeviceInv /\ DownInv /\ UpInv)' /\ [Up!Next]_<<queued, WholeFrame(mgot)>>
  <2>1. DeviceInv' /\ DownInv' /\ faults \in 0 .. MaxFaults
    BY <1>2, DeviceStep, DownStep DEF DownInv, FaultsCounted
  <2>2. /\ UpInv'
        /\ \/ queued' = queued + 1 /\ WholeFrame(mgot)' = WholeFrame(mgot)
           \/ queued' = queued /\ WholeFrame(mgot') \in WholeFrame(mgot) + 1 .. queued
           \/ queued' = queued /\ WholeFrame(mgot)' = WholeFrame(mgot)
    BY <1>2, <2>1, UpStep
  <2> QED
    BY <2>1, <2>2 DEF Up!Next, Up!Send, Up!Deliver
<1> QED
  BY <1>1, <1>2, PTL DEF Spec, Up!Spec

\* Frames arrive whole, in order and once, both ways (EOE_receive_fragment and
\* EOE_send_fragment of esc_eoe.c), when restarts of the mailbox, and the fragments
\* lost in them, are no more than there are frame numbers.
THEOREM FramesArriveInOrder ==
  ASSUME MaxFaults <= FrameNos, Bufs * MaxFaults <= FrameNos
  PROVE  Spec => FramesArrive
  BY DownImplements, UpImplements DEF FramesArrive
=============================================================================
