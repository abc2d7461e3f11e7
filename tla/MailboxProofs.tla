--------------------------- MODULE MailboxProofs ---------------------------
(***************************************************************************)
(* Proofs about Mailbox, for every value of the constants: whatever is     *)
(* lost, repeated or restarted, each buffer is where the link layer        *)
(* believes it is; replies stay in order and arrive; and what the master   *)
(* takes is the answer to a request it still waits on.                     *)
(***************************************************************************)
EXTENDS Mailbox, FiniteSetTheorems, WellFoundedInduction, TLAPS

-----------------------------------------------------------------------------
(* The highest of a set of buffers is one of them.                         *)

LEMMA LeastExists ==
  ASSUME NEW T \in SUBSET Nat, T # {}
  PROVE  \E x \in T : \A y \in T : x <= y
<1> DEFINE R == {ss \in Nat \X Nat : ss[1] < ss[2]}
<1>1. IsWellFoundedOn(R, Nat)
  BY NatLessThanWellFounded DEF OpToRel
<1>2. \A y, x \in Nat : y < x => <<y, x>> \in R
  OBVIOUS
<1> HIDE DEF R
<1>3. PICK x \in T : \A y \in T : <<y, x>> \notin R
  BY <1>1, WFMin
<1>4. ASSUME NEW y \in T PROVE x <= y
  <2>1. x \in Nat /\ y \in Nat
    OBVIOUS
  <2>2. ~(y < x)
    BY <1>2, <1>3, <2>1
  <2> QED
    BY <2>1, <2>2
<1> QED
  BY <1>4

LEMMA GreatestExists ==
  ASSUME NEW S \in SUBSET OutBufs, S # {}
  PROVE  \E x \in S : \A y \in S : x >= y
<1>1. OutBuffers \in Nat
  BY LinkConstantsAssumption
<1> DEFINE T == {n \in 0 .. OutBuffers : OutBuffers - n \in S}
<1>2. ASSUME NEW y \in S PROVE y \in Nat /\ OutBuffers - y \in T
  <2>1. y \in 1 .. OutBuffers
    BY DEF OutBufs
  <2>2. OutBuffers - y \in 0 .. OutBuffers /\ OutBuffers - (OutBuffers - y) = y
    BY <1>1, <2>1
  <2> QED
    BY <2>1, <2>2
<1>3. T \in SUBSET Nat /\ T # {}
  <2>1. T \subseteq Nat
    OBVIOUS
  <2> QED
    BY <1>2, <2>1
<1>4. PICK x \in T : \A y \in T : x <= y
  <2> HIDE DEF T
  <2> QED
    BY <1>3, LeastExists
<1>5. ASSUME NEW y \in S PROVE OutBuffers - x >= y
  <2>1. x <= OutBuffers - y
    BY <1>2, <1>4
  <2>2. x \in Nat /\ y \in Nat
    BY <1>2, <1>3
  <2> QED
    BY <1>1, <2>1, <2>2
<1>6. OutBuffers - x \in S
  OBVIOUS
<1> QED
  BY <1>5, <1>6

LEMMA HighestOfSome ==
  ASSUME NEW S \in SUBSET OutBufs
  PROVE  /\ S = {} => Highest(S) = 0
         /\ S # {} => Highest(S) \in S /\ \A n \in S : n <= Highest(S)
<1>1. CASE S = {}
  BY <1>1 DEF Highest
<1>2. CASE S # {}
  <2>1. Highest(S) = CHOOSE x \in S : \A y \in S : x >= y
    BY <1>2 DEF Highest, Max
  <2>2. \E x \in S : \A y \in S : x >= y
    BY <1>2, GreatestExists
  <2>3. Highest(S) \in S /\ \A y \in S : Highest(S) >= y
    BY <2>1, <2>2
  <2>4. ASSUME NEW n \in S PROVE n <= Highest(S)
    <3>0. \A m \in OutBufs : m \in Int
      BY LinkConstantsAssumption DEF OutBufs
    <3>1. n \in Int /\ Highest(S) \in Int
      BY <2>3, <3>0
    <3> QED
      BY <2>3, <3>1
  <2> QED
    BY <1>2, <2>3, <2>4
<1> QED
  BY <1>1, <1>2

\* A buffer claimed is an idle one, a buffer chosen to be posted is an asked one:
\* there is one whenever it is not 0 (ESC_claimbuffer, ESC_outreqbuffer).
LEMMA HighestInState ==
  ASSUME NEW st
  PROVE  LET n == Highest(InState(st))
         IN  /\ n # 0 => n \in OutBufs /\ MBXcontrol[n] = st
             /\ \A m \in OutBufs : MBXcontrol[m] = st => n # 0 /\ m <= n
<1> DEFINE n == Highest(InState(st))
<1>1. InState(st) \in SUBSET OutBufs
  BY DEF InState
<1>2. 0 \notin OutBufs
  BY DEF OutBufs
<1>3. CASE InState(st) = {}
  <2>1. n = 0
    BY <1>1, <1>3, HighestOfSome
  <2> QED
    BY <1>3, <2>1 DEF InState
<1>4. CASE InState(st) # {}
  <2>1. n \in InState(st) /\ \A m \in InState(st) : m <= n
    BY <1>1, <1>4, HighestOfSome
  <2> QED
    BY <1>2, <2>1 DEF InState
<1> QED
  BY <1>3, <1>4

LEMMA ClaimedIsIdle ==
  /\ ESC_claimbuffer # 0 =>
       ESC_claimbuffer \in OutBufs /\ MBXcontrol[ESC_claimbuffer] = "idle"
  /\ \A n \in OutBufs : MBXcontrol[n] = "idle" => ESC_claimbuffer # 0 /\ n <= ESC_claimbuffer
BY HighestInState DEF ESC_claimbuffer

LEMMA PostedIsAsked ==
  /\ ESC_outreqbuffer # 0 =>
       ESC_outreqbuffer \in OutBufs /\ MBXcontrol[ESC_outreqbuffer] = "outreq"
  /\ \A n \in OutBufs : MBXcontrol[n] = "outreq" => ESC_outreqbuffer # 0 /\ n <= ESC_outreqbuffer
BY HighestInState DEF ESC_outreqbuffer

LEMMA CountIn ==
  ASSUME NEW st
  PROVE  IsFiniteSet(InState(st)) /\ Cardinality(InState(st)) \in Nat
<1>1. InState(st) \in SUBSET OutBufs
  BY DEF InState
<1>2. IsFiniteSet(OutBufs)
  BY LinkConstantsAssumption, FS_Interval DEF OutBufs
<1>3. IsFiniteSet(InState(st))
  BY <1>1, <1>2, FS_Subset
<1> QED
  BY <1>3, FS_CardinalityType

\* What txcue counts: one buffer more in one of the two states, or one less.
LEMMA CountOneMore ==
  ASSUME NEW st, NEW n, n \notin InState(st), InState(st)' = InState(st) \cup {n}
  PROVE  Cardinality(InState(st)') = Cardinality(InState(st)) + 1
BY CountIn, FS_AddElement

LEMMA CountOneLess ==
  ASSUME NEW st, NEW n, n \in InState(st), InState(st)' = InState(st) \ {n}
  PROVE  Cardinality(InState(st)') = Cardinality(InState(st)) - 1
BY CountIn, FS_RemoveElement

-----------------------------------------------------------------------------
(* The inductive invariant.                                                *)

\* The send buffers: BufferAccounting without the protocols, and no buffer with a
\* reply is empty.
OutStates == {"idle", "outclaim", "outreq", "outpost", "again", "backup"}

OutAccounted ==
  /\ DOMAIN MBXcontrol = 0 .. OutBuffers /\ DOMAIN MBX = 0 .. OutBuffers
  /\ mbxoutpost \in 0 .. OutBuffers /\ mbxbackup \in 0 .. OutBuffers
  /\ \A n \in OutBufs : MBXcontrol[n] \in OutStates
  /\ \A n \in OutBufs : MBXcontrol[n] \in {"outpost", "again"} <=> n = mbxoutpost
  /\ \A n \in OutBufs : MBXcontrol[n] = "backup" <=> n = mbxbackup
  /\ txcue = Cardinality(InState("outreq")) + Cardinality(InState("outclaim"))
  /\ InState("outclaim") # {} => "refused" \in Kinds
  /\ \A n \in OutBufs : Holds(n) => MBX[n] # NoMsg

\* Buffer 0: a protocol at work has claimed it, and a request the link layer keeps
\* is one that a protocol handles.
AllKinds == {"badheader", "foreign", "short", "service", "hold", "refused", "other", "info",
             "list", "unmatched"}

RequestKept ==
  /\ MBXcontrol[0] \in {"idle", "inclaim"}
  /\ xoe \in {"none", "CoE", "ODL"}
  /\ xoe # "none" => MBXcontrol[0] = "inclaim"
  /\ MBXcontrol[0] = "inclaim" => MBX[0] # NoMsg /\ MBX[0].kind \in Kinds \ {"badheader"}
  /\ xoe = "CoE" => MBX[0].kind \notin {"foreign", "short"}

\* A slave that holds a reply, or has one in a buffer, has read a request: the
\* buffer a repeat request falls back to is never empty.
RequestSeen ==
  MBX[0] = NoMsg => held = NoMsg /\ \A n \in OutBufs : MBXcontrol[n] = "idle"

\* What is in the receive mailbox, and what the slave believes of it.
RequestWritten ==
  /\ lastReq # NoMsg /\ lastReq.kind \in AllKinds
  /\ unsure => lastReq.kind \in Kinds
  /\ sm0 # NoMsg => sm0.kind \in Kinds
  /\ MBXrun /\ MBXstat0 => sm0 # NoMsg

\* Without a session every buffer is idle and nobody works on one.
Stopped ==
  ~MBXrun =>
    /\ MBXcontrol[0] = "idle" /\ \A n \in OutBufs : MBXcontrol[n] = "idle"
    /\ mbxoutpost = 0 /\ mbxbackup = 0
    /\ held = NoMsg /\ pc \notin {"coe", "xoe"}

\* The link layer never takes a posted reply for a read one: as long as one is
\* posted, either its mailbox is full or the event of its read is on the way, and
\* the link layer's own copy of the status says so.
PostedIsKnown ==
  mbxoutpost # 0 =>
    /\ ~mbxfree
    /\ sm1 = NoMsg => "SM1" \in events
    /\ MBXstat1 \/ (pc = "mbx" /\ "SM1" \in ALevent)

IInv == OutAccounted /\ RequestKept /\ RequestSeen /\ RequestWritten /\ Stopped /\ PostedIsKnown

USE DEF linkVars, coeVars, chipVars, statVars, bufVars, postVars, masterVars, slaveVars

LEMMA BufferIndices ==
  /\ OutBufs \subseteq Nat /\ OutBufs \subseteq 0 .. OutBuffers
  /\ 0 \in 0 .. OutBuffers /\ 0 \notin OutBufs
  /\ \A n \in 0 .. OutBuffers : n # 0 => n \in OutBufs
BY LinkConstantsAssumption DEF OutBufs

\* A reply is no empty mailbox, and neither is a request.
LEMMA MessagesAreSomething ==
  /\ \A i, t, m : [id |-> i, to |-> t, more |-> m] # NoMsg
  /\ \A i, k : [id |-> i, kind |-> k] # NoMsg
<1>1. ASSUME NEW i, NEW t, NEW m PROVE [id |-> i, to |-> t, more |-> m] # NoMsg
  <2>1. "to" \in DOMAIN [id |-> i, to |-> t, more |-> m] /\ "to" \notin DOMAIN NoMsg
    BY DEF NoMsg
  <2> QED
    BY <2>1
<1>2. ASSUME NEW i, NEW k PROVE [id |-> i, kind |-> k] # NoMsg
  <2>1. "kind" \in DOMAIN [id |-> i, kind |-> k] /\ "kind" \notin DOMAIN NoMsg
    BY DEF NoMsg
  <2> QED
    BY <2>1
<1> QED
  BY <1>1, <1>2

LEMMA InitEstablishes == Init => IInv
<1> SUFFICES ASSUME Init PROVE IInv
  OBVIOUS
<1> USE BufferIndices
<1>1. OutAccounted
  <2>1. InState("outreq") = {} /\ InState("outclaim") = {}
    BY DEF Init, InState
  <2>2. Cardinality(InState("outreq")) = 0 /\ Cardinality(InState("outclaim")) = 0
    BY <2>1, FS_EmptySet
  <2> QED
    BY <2>1, <2>2 DEF Init, OutAccounted, OutStates, Holds
<1>2. RequestKept /\ RequestSeen
  BY DEF Init, RequestKept, RequestSeen
<1>3. RequestWritten
  <2>1. lastReq # NoMsg
    BY MessagesAreSomething DEF Init
  <2> QED
    BY <2>1 DEF Init, RequestWritten, AllKinds
<1>4. Stopped /\ PostedIsKnown
  BY DEF Init, Stopped, PostedIsKnown
<1> QED
  BY <1>1, <1>2, <1>3, <1>4 DEF IInv

-----------------------------------------------------------------------------
(* The operations on the buffers.                                          *)

\* A buffer is left alone, or claimed and never asked to be posted.
Untouched(n) ==
  \/ MBXcontrol'[n] = MBXcontrol[n] /\ MBX'[n] = MBX[n]
  \/ MBXcontrol[n] = "idle" /\ MBXcontrol'[n] = "outclaim"

AllUntouched == \A n \in OutBufs : Untouched(n)

\* A reply more, to the request `to': numbered above all others.
NewReply(n, to, more) ==
  /\ MBXcontrol[n] = "idle" /\ MBXcontrol'[n] = "outreq"
  /\ MBX'[n].to = to /\ MBX'[n].more = more
  /\ mbxcnt \in Nat => MBX'[n].id \in Nat /\ mbxcnt < MBX'[n].id
  /\ \A m \in OutBufs \ {n} : Untouched(m)

\* What an operation does to the send buffers that posts and reads nothing: nothing,
\* or one reply more, below which the idle buffers lie.
NoneQueued == AllUntouched /\ (mbxcnt \in Nat => mbxcnt' \in Nat /\ mbxcnt' >= mbxcnt)

OneQueued ==
  \E n \in OutBufs :
    /\ MBXcontrol[n] = "idle" /\ \A m \in OutBufs : MBXcontrol'[m] = "idle" => m <= n
    /\ MBXcontrol'[n] = "outreq"
    /\ IsReply(MBX'[n]) /\ MBX'[n].id = mbxcnt'
    /\ mbxcnt \in Nat => mbxcnt' \in Nat /\ mbxcnt' > mbxcnt
    /\ \A m \in OutBufs \ {n} : Untouched(m)

Queues == NoneQueued \/ OneQueued

\* A reply put in a claimed buffer is accounted for.
SendBuffersAre(ctl, content) ==
  /\ DOMAIN ctl = 0 .. OutBuffers /\ DOMAIN content = 0 .. OutBuffers
  /\ \A n \in OutBufs : ctl[n] = MBXcontrol[n] /\ content[n] = MBX[n]

LEMMA QueueReplyAccounted ==
  ASSUME OutAccounted, NEW ctl, NEW content, NEW to, NEW more, SendBuffersAre(ctl, content),
         QueueReply(ctl, content, to, more), UNCHANGED <<mbxoutpost, mbxbackup>>
  PROVE  OutAccounted' /\ Queues
<1> DEFINE n == ESC_claimbuffer
<1> USE DEF SendBuffersAre
<1> USE BufferIndices
<1>1. CASE n = 0
  <2>1. MBXcontrol' = ctl /\ MBX' = content /\ txcue' = txcue /\ mbxcnt' = mbxcnt
    BY <1>1 DEF QueueReply
  <2>2. InState("outreq")' = InState("outreq") /\ InState("outclaim")' = InState("outclaim")
    BY <2>1 DEF InState
  <2>3. NoneQueued
    BY <2>1 DEF NoneQueued, AllUntouched, Untouched
  <2> QED
    BY <2>1, <2>2, <2>3 DEF OutAccounted, Queues, Holds
<1>2. CASE n # 0
  <2>1. /\ n \in OutBufs /\ MBXcontrol[n] = "idle"
        /\ \A m \in OutBufs : MBXcontrol[m] = "idle" => m <= n
    BY <1>2, ClaimedIsIdle
  <2> DEFINE reply == [id |-> mbxcnt + 1, to |-> to, more |-> more]
  <2>2. /\ MBXcontrol' = [ctl EXCEPT ![n] = "outreq"] /\ MBX' = [content EXCEPT ![n] = reply]
        /\ txcue' = txcue + 1 /\ mbxcnt' = mbxcnt + 1
    BY <1>2 DEF QueueReply
  <2>3. reply # NoMsg /\ reply.id = mbxcnt + 1 /\ IsReply(reply)
    BY MessagesAreSomething DEF IsReply
  <2> HIDE DEF n, reply
  <2>4. /\ InState("outreq")' = InState("outreq") \cup {n} /\ n \notin InState("outreq")
        /\ InState("outclaim")' = InState("outclaim")
    BY <2>1, <2>2 DEF InState
  <2>5. txcue' = Cardinality(InState("outreq")') + Cardinality(InState("outclaim")')
    <3>1. Cardinality(InState("outreq")') = Cardinality(InState("outreq")) + 1
      BY <2>4, CountOneMore
    <3>2. Cardinality(InState("outreq")) \in Nat /\ Cardinality(InState("outclaim")) \in Nat
      BY CountIn
    <3> QED
      BY <2>2, <2>4, <3>1, <3>2 DEF OutAccounted
  <2>6. MBXcontrol'[n] = "outreq" /\ MBX'[n] # NoMsg /\ n # mbxoutpost /\ n # mbxbackup
    BY <2>1, <2>2, <2>3 DEF OutAccounted
  <2>7. \A m \in OutBufs \ {n} : MBXcontrol'[m] = MBXcontrol[m] /\ MBX'[m] = MBX[m]
    BY <2>2
  <2>8. DOMAIN MBXcontrol' = 0 .. OutBuffers /\ DOMAIN MBX' = 0 .. OutBuffers
    BY <2>2
  <2>9. OutAccounted'
    BY <2>1, <2>2, <2>4, <2>5, <2>6, <2>7, <2>8 DEF OutAccounted, OutStates, Holds
  <2>10. MBX'[n] = reply
    BY <2>1, <2>2, BufferIndices
  <2>11. OneQueued
    BY <2>1, <2>2, <2>3, <2>6, <2>7, <2>10 DEF OneQueued, Untouched
  <2> QED
    BY <2>9, <2>11 DEF Queues
<1> QED
  BY <1>1, <1>2

\* Buffer 0 is as the caller left it.
LEMMA QueueReplyRequest ==
  ASSUME NEW ctl, NEW content, NEW to, NEW more,
         DOMAIN ctl = 0 .. OutBuffers, DOMAIN content = 0 .. OutBuffers,
         QueueReply(ctl, content, to, more)
  PROVE  MBXcontrol'[0] = ctl[0] /\ MBX'[0] = content[0]
<1> USE BufferIndices
<1>1. CASE ESC_claimbuffer = 0
  BY <1>1 DEF QueueReply
<1>2. CASE ESC_claimbuffer # 0
  BY <1>2, ClaimedIsIdle DEF QueueReply
<1> QED
  BY <1>1, <1>2

LEMMA OutUnchanged ==
  ASSUME OutAccounted, UNCHANGED <<MBXcontrol, MBX, mbxoutpost, mbxbackup, txcue>>
  PROVE  OutAccounted'
BY DEF OutAccounted, InState, Holds

\* Buffer 0 taken or given back, the send buffers left alone.
LEMMA RequestBufferOnly ==
  ASSUME OutAccounted, UNCHANGED <<mbxoutpost, mbxbackup, txcue>>,
         DOMAIN MBXcontrol' = 0 .. OutBuffers, DOMAIN MBX' = 0 .. OutBuffers,
         \A n \in OutBufs : MBXcontrol'[n] = MBXcontrol[n] /\ MBX'[n] = MBX[n]
  PROVE  OutAccounted'
<1>1. InState("outreq")' = InState("outreq") /\ InState("outclaim")' = InState("outclaim")
  BY DEF InState
<1> QED
  BY <1>1 DEF OutAccounted, Holds

LEMMA OutboxReadAccounted ==
  ASSUME OutAccounted, OutboxRead
  PROVE  OutAccounted' /\ MBXcontrol'[0] = MBXcontrol[0]
<1> USE BufferIndices
<1>1. /\ mbxoutpost \in OutBufs /\ mbxbackup' = mbxoutpost /\ mbxoutpost' = 0
      /\ MBX' = MBX /\ txcue' = txcue
      /\ MBXcontrol' = [n \in 0 .. OutBuffers |-> AfterRead(n)]
  BY DEF OutboxRead, OutAccounted
<1>2. \A n \in 0 .. OutBuffers : MBXcontrol'[n] = AfterRead(n)
  BY <1>1
<1>3. MBXcontrol'[mbxoutpost] = "backup" /\ MBXcontrol'[0] = MBXcontrol[0]
  <2>1. AfterRead(mbxoutpost) = "backup"
    <3>1. mbxoutpost # mbxbackup
      BY <1>1 DEF OutAccounted
    <3> QED
      BY <1>1, <3>1 DEF AfterRead
  <2>2. AfterRead(0) = MBXcontrol[0]
    BY <1>1 DEF AfterRead
  <2> QED
    BY <1>1, <1>2, <2>1, <2>2
<1>4. ASSUME NEW n \in OutBufs, n # mbxoutpost
      PROVE  MBXcontrol'[n] = IF n = mbxbackup THEN "idle" ELSE MBXcontrol[n]
  BY <1>2, <1>4 DEF AfterRead
<1>5. InState("outreq")' = InState("outreq") /\ InState("outclaim")' = InState("outclaim")
  BY <1>1, <1>3, <1>4 DEF InState, OutAccounted
<1>6. \A n \in OutBufs : Holds(n)' => Holds(n)
  BY <1>1, <1>3, <1>4 DEF Holds, OutAccounted
<1> QED
  BY <1>1, <1>3, <1>4, <1>5, <1>6 DEF OutAccounted, OutStates

LEMMA RepeatRequestAccounted ==
  ASSUME OutAccounted, RepeatRequest
  PROVE  OutAccounted' /\ MBXcontrol'[0] = MBXcontrol[0]
<1> USE BufferIndices
<1>1. MBX' = MBX /\ UNCHANGED <<txcue, mbxoutpost, mbxbackup>>
  BY DEF RepeatRequest
<1>2. CASE MBXcontrol' = MBXcontrol
  BY <1>1, <1>2, OutUnchanged
<1>3. CASE mbxoutpost # 0 /\ MBXcontrol' = [MBXcontrol EXCEPT ![mbxoutpost] = "again"]
  <2>1. mbxoutpost \in OutBufs /\ MBXcontrol[mbxoutpost] \in {"outpost", "again"}
    BY <1>3 DEF OutAccounted
  <2>2. InState("outreq")' = InState("outreq") /\ InState("outclaim")' = InState("outclaim")
    BY <1>3, <2>1 DEF InState, OutAccounted
  <2>3. \A n \in OutBufs : Holds(n)' => Holds(n)
    BY <1>3, <2>1 DEF Holds, OutAccounted
  <2> QED
    BY <1>1, <1>3, <2>1, <2>2, <2>3 DEF OutAccounted, OutStates
<1> QED
  BY <1>2, <1>3 DEF RepeatRequest

LEMMA PostAccounted ==
  ASSUME OutAccounted, mbxoutpost = 0, Post
  PROVE  OutAccounted' /\ MBXcontrol'[0] = MBXcontrol[0] /\ mbxoutpost' # 0
<1> DEFINE n == ESC_outreqbuffer
<1> USE BufferIndices
<1>1. n \in OutBufs /\ MBXcontrol[n] = "outreq"
  BY PostedIsAsked DEF Post, MayPost
<1>2. /\ MBXcontrol' = [MBXcontrol EXCEPT ![n] = "outpost"] /\ mbxoutpost' = n
      /\ txcue' = txcue - 1 /\ UNCHANGED <<MBX, mbxbackup>>
  BY DEF Post
<1> HIDE DEF n
<1>3. /\ InState("outreq")' = InState("outreq") \ {n} /\ n \in InState("outreq")
      /\ InState("outclaim")' = InState("outclaim")
  BY <1>1, <1>2 DEF InState, OutAccounted
<1>4. txcue' = Cardinality(InState("outreq")') + Cardinality(InState("outclaim")')
  <2>1. Cardinality(InState("outreq")') = Cardinality(InState("outreq")) - 1
    BY <1>3, CountOneLess
  <2>2. Cardinality(InState("outreq")) \in Nat /\ Cardinality(InState("outclaim")) \in Nat
    BY CountIn
  <2> QED
    BY <1>2, <1>3, <2>1, <2>2 DEF OutAccounted
<1>5. \A m \in OutBufs : Holds(m)' => Holds(m)
  BY <1>1, <1>2 DEF Holds, OutAccounted
<1> QED
  BY <1>1, <1>2, <1>3, <1>4, <1>5 DEF OutAccounted, OutStates

LEMMA StopAccounted ==
  ASSUME OutAccounted, ESC_stopmbx
  PROVE  OutAccounted' /\ \A n \in 0 .. OutBuffers : MBXcontrol'[n] = "idle"
<1> USE BufferIndices
<1>1. /\ MBXcontrol' = [n \in 0 .. OutBuffers |-> "idle"]
      /\ mbxoutpost' = 0 /\ mbxbackup' = 0 /\ txcue' = 0 /\ MBX' = MBX
  BY DEF ESC_stopmbx
<1>2. InState("outreq")' = {} /\ InState("outclaim")' = {}
  BY <1>1 DEF InState
<1>3. txcue' = Cardinality(InState("outreq")') + Cardinality(InState("outclaim")')
  BY <1>1, <1>2, FS_EmptySet
<1> QED
  BY <1>1, <1>2, <1>3 DEF OutAccounted, OutStates, Holds

\* With buffer 0 given back, and with it left alone.
LEMMA ReleasedBuffers ==
  ASSUME OutAccounted
  PROVE  /\ DOMAIN Released = 0 .. OutBuffers /\ Released[0] = "idle"
         /\ \A n \in OutBufs : Released[n] = MBXcontrol[n]
BY BufferIndices DEF Released, OutAccounted

LEMMA ReadmbxAccounted ==
  ASSUME OutAccounted, RequestWritten, RequestKept, sm0 # NoMsg, ESC_readmbx
  PROVE  OutAccounted' /\ RequestKept' /\ Queues /\ MBX'[0] # NoMsg
<1> DEFINE content == [MBX EXCEPT ![0] = sm0]
<1> DEFINE more == FALSE
<1>1. /\ DOMAIN content = 0 .. OutBuffers /\ content[0] = sm0
      /\ \A n \in OutBufs : content[n] = MBX[n]
  BY BufferIndices DEF OutAccounted
<1>2. xoe = "none" /\ xoe' = xoe /\ UNCHANGED <<mbxoutpost, mbxbackup>>
  BY DEF ESC_readmbx, MayRead
<1>3. CASE sm0.kind = "badheader"
  <2>1. QueueReply(Released, content, sm0, more)
    BY <1>3 DEF ESC_readmbx
  <2> HIDE DEF content, more
  <2>2. OutAccounted' /\ Queues
    <3>1. SendBuffersAre(Released, content)
      BY <1>1, ReleasedBuffers DEF SendBuffersAre
    <3> QED
      BY <1>2, <2>1, <3>1, QueueReplyAccounted
  <2>3. MBXcontrol'[0] = "idle" /\ MBX'[0] = sm0
    BY <1>1, <2>1, ReleasedBuffers, QueueReplyRequest
  <2> QED
    BY <1>2, <2>2, <2>3 DEF RequestKept
<1>4. CASE sm0.kind # "badheader"
  <2>1. /\ MBXcontrol' = [MBXcontrol EXCEPT ![0] = IF Repeated THEN "idle" ELSE "inclaim"]
        /\ MBX' = content /\ txcue' = txcue /\ mbxcnt' = mbxcnt
    BY <1>4 DEF ESC_readmbx
  <2>2. /\ DOMAIN MBXcontrol' = 0 .. OutBuffers /\ MBXcontrol'[0] \in {"idle", "inclaim"}
        /\ \A n \in OutBufs : MBXcontrol'[n] = MBXcontrol[n]
    BY <2>1, BufferIndices DEF OutAccounted
  <2> HIDE DEF content
  <2>3. OutAccounted' /\ Queues /\ MBX'[0] = sm0
    BY <1>1, <1>2, <2>1, <2>2, RequestBufferOnly DEF Queues, NoneQueued, AllUntouched, Untouched
  <2> QED
    BY <1>2, <1>4, <2>2, <2>3 DEF RequestKept, RequestWritten
<1> QED
  BY <1>3, <1>4

-----------------------------------------------------------------------------
(* The handlers of CoE.tla.                                                *)

posts == <<mbxoutpost, mbxbackup>>

\* Buffer 0 is given back with the reply, or kept by a protocol that goes on.
LEMMA GivenBack ==
  ASSUME RequestKept, MBXcontrol'[0] = "idle", xoe' = "none"
  PROVE  RequestKept'
BY DEF RequestKept

LEMMA KeptOn ==
  ASSUME RequestKept, MBXcontrol'[0] = MBXcontrol[0], MBX'[0] = MBX[0], xoe' = xoe
  PROVE  RequestKept'
BY DEF RequestKept

LEMMA TakenOn ==
  ASSUME RequestKept, MBXcontrol'[0] = "inclaim", MBXcontrol[0] = "inclaim",
         MBX'[0] = MBX[0], MBX[0].kind \notin {"foreign", "short"}, xoe' \in {"CoE", "ODL"}
  PROVE  RequestKept'
BY DEF RequestKept

\* An answer with buffer 0 given back: Answer, the last mailbox of a list.
LEMMA ReleasingReply ==
  ASSUME OutAccounted, NEW to, NEW more, QueueReply(Released, MBX, to, more), UNCHANGED posts
  PROVE  OutAccounted' /\ Queues /\ MBXcontrol'[0] = "idle" /\ MBX'[0] = MBX[0]
<1>1. DOMAIN MBX = 0 .. OutBuffers
  BY DEF OutAccounted
<1>2. OutAccounted' /\ Queues
  <2>1. SendBuffersAre(Released, MBX)
    BY <1>1, ReleasedBuffers DEF SendBuffersAre
  <2> QED
    BY <2>1, QueueReplyAccounted DEF posts
<1>3. MBXcontrol'[0] = "idle" /\ MBX'[0] = MBX[0]
  BY <1>1, ReleasedBuffers, QueueReplyRequest
<1> QED
  BY <1>2, <1>3

\* An answer with buffer 0 left as it is.
LEMMA KeepingReply ==
  ASSUME OutAccounted, NEW to, NEW more, QueueReply(MBXcontrol, MBX, to, more), UNCHANGED posts
  PROVE  OutAccounted' /\ Queues /\ MBXcontrol'[0] = MBXcontrol[0] /\ MBX'[0] = MBX[0]
<1>1. DOMAIN MBX = 0 .. OutBuffers /\ DOMAIN MBXcontrol = 0 .. OutBuffers
  BY DEF OutAccounted
<1>2. OutAccounted' /\ Queues
  <2>1. SendBuffersAre(MBXcontrol, MBX)
    BY <1>1 DEF SendBuffersAre
  <2> QED
    BY <2>1, QueueReplyAccounted DEF posts
<1>3. MBXcontrol'[0] = MBXcontrol[0] /\ MBX'[0] = MBX[0]
  BY <1>1, QueueReplyRequest
<1> QED
  BY <1>2, <1>3

LEMMA KeptAccounted ==
  ASSUME OutAccounted, Kept, UNCHANGED posts
  PROVE  OutAccounted' /\ Queues /\ MBXcontrol'[0] = MBXcontrol[0] /\ MBX'[0] = MBX[0]
BY OutUnchanged DEF Kept, posts, Queues, NoneQueued, AllUntouched, Untouched

LEMMA AnswerAccounted ==
  ASSUME OutAccounted, RequestKept, Answer, UNCHANGED posts
  PROVE  OutAccounted' /\ RequestKept' /\ Queues /\ MBX'[0] = MBX[0]
<1> DEFINE more == FALSE
<1>1. QueueReply(Released, MBX, MBX[0], more) /\ xoe' = "none"
  BY DEF Answer
<1> HIDE DEF more
<1>2. OutAccounted' /\ Queues /\ MBXcontrol'[0] = "idle" /\ MBX'[0] = MBX[0]
  BY <1>1, ReleasingReply
<1> QED
  BY <1>1, <1>2, GivenBack

LEMMA HoldDownloadAccounted ==
  ASSUME OutAccounted, RequestKept, HoldDownload, UNCHANGED posts
  PROVE  OutAccounted' /\ RequestKept' /\ Queues /\ MBX'[0] = MBX[0]
<1>1. /\ MBXcontrol' = Released /\ MBX' = MBX /\ xoe' = "none"
      /\ txcue' = txcue /\ mbxcnt' = mbxcnt
  BY DEF HoldDownload
<1>2. DOMAIN MBX = 0 .. OutBuffers
  BY DEF OutAccounted
<1>3. OutAccounted'
  BY <1>1, <1>2, ReleasedBuffers, RequestBufferOnly DEF posts
<1>4. RequestKept' /\ Queues
  BY <1>1, ReleasedBuffers, GivenBack DEF Queues, NoneQueued, AllUntouched, Untouched
<1> QED
  BY <1>1, <1>3, <1>4

\* Of two buffers claimed for a refused segment one stays claimed, the other has the
\* abort; there may be but one, or none.
LEMMA RefuseSegmentAccounted ==
  ASSUME OutAccounted, RequestKept, RefuseSegment, UNCHANGED posts,
         MBXcontrol[0] = "inclaim", MBX[0].kind = "refused"
  PROVE  /\ OutAccounted' /\ RequestKept' /\ Queues /\ MBX'[0] = MBX[0]
         /\ MBXcontrol'[0] = "idle"
         /\ AllUntouched \/ \E n \in OutBufs : NewReply(n, MBX[0], FALSE)
<1> DEFINE response == ESC_claimbuffer
<1> DEFINE abort == Highest(InState("idle") \ {response})
<1> DEFINE claimed == Cardinality({response, abort} \ {0})
<1> DEFINE reply == [id |-> mbxcnt + 2, to |-> MBX[0], more |-> FALSE]
<1> USE BufferIndices
<1>1. /\ MBXcontrol' = [n \in 0 .. OutBuffers |-> CASE n = 0                  -> "idle"
                                                    [] n = response /\ n # 0 -> "outclaim"
                                                    [] n = abort /\ n # 0    -> "outreq"
                                                    [] OTHER -> MBXcontrol[n]]
      /\ MBX' = [MBX EXCEPT ![abort] = IF abort = 0 THEN @ ELSE reply]
      /\ txcue' = txcue + claimed /\ mbxcnt' = mbxcnt + claimed /\ xoe' = "none"
  BY DEF RefuseSegment
<1>2. /\ response # 0 => response \in OutBufs /\ MBXcontrol[response] = "idle"
      /\ \A n \in OutBufs : MBXcontrol[n] = "idle" => response # 0
  BY ClaimedIsIdle
<1>3. /\ abort # 0 => abort \in OutBufs /\ abort # response /\ MBXcontrol[abort] = "idle"
      /\ \A n \in OutBufs : MBXcontrol[n] = "idle" /\ n # response => abort # 0 /\ n <= abort
  <2> DEFINE S == InState("idle") \ {response}
  <2>1. S \in SUBSET OutBufs /\ \A n \in OutBufs : n \in S <=> MBXcontrol[n] = "idle" /\ n # response
    BY DEF InState
  <2> HIDE DEF S, response
  <2>2. CASE S = {}
    <3>1. abort = 0
      BY <2>1, <2>2, HighestOfSome DEF S
    <3> QED
      BY <2>1, <2>2, <3>1
  <2>3. CASE S # {}
    <3>1. abort \in S /\ \A n \in S : n <= abort
      BY <2>1, <2>3, HighestOfSome DEF S
    <3> QED
      BY <2>1, <3>1
  <2> QED
    BY <2>2, <2>3
<1>4. /\ reply # NoMsg /\ reply.id = mbxcnt + 2 /\ IsReply(reply)
      /\ reply.to = MBX[0] /\ reply.more = FALSE
  BY MessagesAreSomething DEF IsReply
<1>5. "refused" \in Kinds
  BY DEF RequestKept
<1> HIDE DEF response, abort, claimed, reply
<1>6. /\ DOMAIN MBXcontrol' = 0 .. OutBuffers /\ DOMAIN MBX' = 0 .. OutBuffers
      /\ MBXcontrol'[0] = "idle" /\ MBX'[0] = MBX[0]
  <2>1. abort \in 0 .. OutBuffers
    BY <1>3
  <2>2. DOMAIN MBXcontrol' = 0 .. OutBuffers /\ MBXcontrol'[0] = "idle"
    <3>1. DOMAIN MBXcontrol' = 0 .. OutBuffers
      BY <1>1
    <3>2. \A n \in 0 .. OutBuffers : n = 0 => MBXcontrol'[n] = "idle"
      BY <1>1
    <3> QED
      BY <3>1, <3>2
  <2>3. DOMAIN MBX' = 0 .. OutBuffers
    BY <1>1 DEF OutAccounted
  <2>4. MBX'[0] = MBX[0]
    BY <1>1, <2>1 DEF OutAccounted
  <2> QED
    BY <2>2, <2>3, <2>4
<1>7. RequestKept'
  BY <1>1, <1>6, GivenBack
<1>8. /\ response # 0 => MBXcontrol'[response] = "outclaim"
      /\ abort # 0 => MBXcontrol'[abort] = "outreq" /\ MBX'[abort] = reply
  BY <1>1, <1>2, <1>3 DEF OutAccounted
<1>9. /\ \A n \in OutBufs \ {response, abort} : MBXcontrol'[n] = MBXcontrol[n]
      /\ \A n \in OutBufs \ {abort} : MBX'[n] = MBX[n]
  BY <1>1 DEF OutAccounted
<1>10. CASE response = 0
  <2>1. abort = 0
    BY <1>2, <1>3, <1>10
  <2>2. claimed = 0
    <3>1. {response, abort} \ {0} = {}
      BY <1>10, <2>1
    <3> QED
      BY <3>1, FS_EmptySet DEF claimed
  <2>3. \A n \in OutBufs : MBXcontrol'[n] = MBXcontrol[n] /\ MBX'[n] = MBX[n]
    BY <1>9, <1>10, <2>1
  <2>4. txcue \in Nat
    BY CountIn DEF OutAccounted
  <2>5. OutAccounted'
    <3>1. txcue' = txcue
      BY <1>1, <2>2, <2>4
    <3> QED
      BY <1>6, <2>3, <3>1, RequestBufferOnly DEF posts
  <2>6. NoneQueued
    BY <1>1, <2>2, <2>3 DEF NoneQueued, AllUntouched, Untouched
  <2> QED
    BY <1>6, <1>7, <2>5, <2>6 DEF Queues, NoneQueued
<1>11. CASE response # 0 /\ abort = 0
  <2>1. claimed = 1
    <3>1. {response, abort} \ {0} = {response}
      BY <1>11
    <3> QED
      BY <3>1, FS_Singleton DEF claimed
  <2>2. /\ InState("outclaim")' = InState("outclaim") \cup {response}
        /\ response \notin InState("outclaim") /\ InState("outreq")' = InState("outreq")
    BY <1>2, <1>8, <1>9, <1>11 DEF InState
  <2>3. txcue' = Cardinality(InState("outreq")') + Cardinality(InState("outclaim")')
    <3>1. Cardinality(InState("outclaim")') = Cardinality(InState("outclaim")) + 1
      BY <2>2, CountOneMore
    <3>2. Cardinality(InState("outreq")) \in Nat /\ Cardinality(InState("outclaim")) \in Nat
      BY CountIn
    <3> QED
      BY <1>1, <2>1, <2>2, <3>1, <3>2 DEF OutAccounted
  <2>4. \A n \in OutBufs : Holds(n)' => Holds(n) /\ MBX'[n] = MBX[n]
    BY <1>8, <1>9, <1>11 DEF Holds
  <2>5. OutAccounted'
    <3>1. response # mbxoutpost /\ response # mbxbackup
      BY <1>2, <1>11 DEF OutAccounted
    <3> QED
      BY <1>2, <1>5, <1>6, <1>8, <1>9, <1>11, <2>3, <2>4, <3>1 DEF OutAccounted, OutStates, posts
  <2>6. NoneQueued
    BY <1>1, <1>2, <1>8, <1>9, <1>11, <2>1 DEF NoneQueued, AllUntouched, Untouched
  <2> QED
    BY <1>6, <1>7, <2>5, <2>6 DEF Queues, NoneQueued
<1>12. CASE response # 0 /\ abort # 0
  <2>1. claimed = 2
    <3>1. {response, abort} \ {0} = {response} \cup {abort}
      BY <1>12
    <3>2. IsFiniteSet({response}) /\ Cardinality({response}) = 1
      BY FS_Singleton
    <3>3. Cardinality({response} \cup {abort}) = 2
      <4>1. abort \notin {response}
        BY <1>3, <1>12
      <4>2. Cardinality({response} \cup {abort}) = Cardinality({response}) + 1
        BY <3>2, <4>1, FS_AddElement
      <4> QED
        BY <3>2, <4>2
    <3> QED
      BY <3>1, <3>3 DEF claimed
  <2>2. /\ InState("outclaim")' = InState("outclaim") \cup {response}
        /\ response \notin InState("outclaim")
    BY <1>2, <1>3, <1>8, <1>9, <1>12 DEF InState
  <2>3. InState("outreq")' = InState("outreq") \cup {abort} /\ abort \notin InState("outreq")
    BY <1>2, <1>3, <1>8, <1>9, <1>12 DEF InState
  <2>4. txcue' = Cardinality(InState("outreq")') + Cardinality(InState("outclaim")')
    <3>1. /\ Cardinality(InState("outclaim")') = Cardinality(InState("outclaim")) + 1
          /\ Cardinality(InState("outreq")') = Cardinality(InState("outreq")) + 1
      BY <2>2, <2>3, CountOneMore
    <3>2. Cardinality(InState("outreq")) \in Nat /\ Cardinality(InState("outclaim")) \in Nat
      BY CountIn
    <3> QED
      BY <1>1, <2>1, <3>1, <3>2 DEF OutAccounted
  <2>5. \A n \in OutBufs : Holds(n)' => MBX'[n] # NoMsg
    BY <1>4, <1>8, <1>9, <1>12 DEF Holds, OutAccounted
  <2>6. OutAccounted'
    <3>1. response \notin {mbxoutpost, mbxbackup} /\ abort \notin {mbxoutpost, mbxbackup}
      BY <1>2, <1>3, <1>12 DEF OutAccounted
    <3> QED
      BY <1>2, <1>3, <1>5, <1>6, <1>8, <1>9, <1>12, <2>4, <2>5, <3>1
         DEF OutAccounted, OutStates, posts
  <2>7. \A m \in OutBufs : MBXcontrol'[m] = "idle" => m <= abort
    BY <1>3, <1>8, <1>9, <1>12
  <2>8. \A m \in OutBufs \ {abort} : Untouched(m)
    BY <1>2, <1>8, <1>9, <1>12 DEF Untouched
  <2>9. OneQueued
    <3>1. mbxcnt' = mbxcnt + 2
      BY <1>1, <2>1
    <3>2. mbxcnt \in Nat => mbxcnt' \in Nat /\ mbxcnt' > mbxcnt
      BY <3>1
    <3>3. abort \in OutBufs /\ MBXcontrol[abort] = "idle" /\ MBXcontrol'[abort] = "outreq"
      BY <1>3, <1>8, <1>12
    <3>4. IsReply(MBX'[abort]) /\ MBX'[abort].id = mbxcnt'
      BY <1>4, <1>8, <1>12, <3>1 DEF IsReply
    <3> QED
      BY <1>1, <2>7, <2>8, <3>2, <3>3, <3>4 DEF OneQueued
  <2>10. NewReply(abort, MBX[0], FALSE)
    BY <1>3, <1>4, <1>8, <1>12, <2>8 DEF NewReply
  <2> QED
    BY <1>3, <1>6, <1>7, <1>12, <2>6, <2>9, <2>10 DEF Queues
<1> QED
  BY <1>10, <1>11, <1>12

LEMMA InfoAnswerAccounted ==
  ASSUME OutAccounted, RequestKept, InfoAnswer, UNCHANGED posts,
         MBXcontrol[0] = "inclaim", MBX[0].kind \notin {"foreign", "short"}
  PROVE  OutAccounted' /\ RequestKept' /\ Queues /\ MBX'[0] = MBX[0]
<1> DEFINE more == FALSE
<1>1. CASE QueueReply(Released, MBX, MBX[0], FALSE) /\ xoe' = "none"
  <2>1. QueueReply(Released, MBX, MBX[0], more) /\ xoe' = "none"
    BY <1>1
  <2> HIDE DEF more
  <2>2. OutAccounted' /\ Queues /\ MBXcontrol'[0] = "idle" /\ MBX'[0] = MBX[0]
    BY <2>1, ReleasingReply
  <2> QED
    BY <2>1, <2>2, GivenBack
<1>2. CASE Kept /\ xoe' = "CoE"
  BY <1>2, KeptAccounted, TakenOn
<1> QED
  BY <1>1, <1>2 DEF InfoAnswer

LEMMA ObjectListAccounted ==
  ASSUME OutAccounted, RequestKept, SDO_getodlist, UNCHANGED posts,
         MBXcontrol[0] = "inclaim", MBX[0].kind \notin {"foreign", "short"}
  PROVE  OutAccounted' /\ RequestKept' /\ Queues /\ MBX'[0] = MBX[0]
<1>1. CASE ESC_claimbuffer = 0
  <2>1. Kept /\ xoe' = "CoE"
    BY <1>1 DEF SDO_getodlist
  <2> QED
    BY <2>1, KeptAccounted, TakenOn
<1>2. CASE ESC_claimbuffer # 0 /\ ListFrags > 1
  <2> DEFINE claimed == [MBXcontrol EXCEPT ![0] = "inclaim"]
  <2> DEFINE more == TRUE
  <2>1. QueueReply(claimed, MBX, MBX[0], more) /\ xoe' = "ODL"
    BY <1>2 DEF SDO_getodlist
  <2>2. /\ DOMAIN claimed = 0 .. OutBuffers /\ claimed[0] = "inclaim"
        /\ \A n \in OutBufs : claimed[n] = MBXcontrol[n]
    BY BufferIndices DEF OutAccounted
  <2>3. DOMAIN MBX = 0 .. OutBuffers
    BY DEF OutAccounted
  <2> HIDE DEF claimed, more
  <2>4. OutAccounted' /\ Queues
    <3>1. SendBuffersAre(claimed, MBX)
      BY <2>2, <2>3 DEF SendBuffersAre
    <3> QED
      BY <2>1, <3>1, QueueReplyAccounted DEF posts
  <2>5. MBXcontrol'[0] = "inclaim" /\ MBX'[0] = MBX[0]
    BY <2>1, <2>2, <2>3, QueueReplyRequest
  <2> QED
    BY <2>1, <2>4, <2>5, TakenOn
<1>3. CASE ESC_claimbuffer # 0 /\ ~(ListFrags > 1)
  <2> DEFINE more == ListFrags > 1
  <2>1. QueueReply(Released, MBX, MBX[0], more) /\ xoe' = "none"
    BY <1>3 DEF SDO_getodlist
  <2> HIDE DEF more
  <2>2. OutAccounted' /\ Queues /\ MBXcontrol'[0] = "idle" /\ MBX'[0] = MBX[0]
    BY <2>1, ReleasingReply
  <2> QED
    BY <2>1, <2>2, GivenBack
<1> QED
  BY <1>1, <1>2, <1>3

LEMMA ObjectListContAccounted ==
  ASSUME OutAccounted, RequestKept, SDO_getodlistcont, UNCHANGED posts
  PROVE  OutAccounted' /\ RequestKept' /\ Queues /\ MBX'[0] = MBX[0]
<1>1. CASE ESC_claimbuffer = 0
  <2>1. Kept /\ xoe' = xoe
    BY <1>1 DEF SDO_getodlistcont
  <2> QED
    BY <2>1, KeptAccounted, KeptOn
<1>2. CASE ESC_claimbuffer # 0 /\ MoreFrags
  <2> DEFINE more == MoreFrags
  <2>1. QueueReply(MBXcontrol, MBX, MBX[0], more) /\ xoe' = xoe
    BY <1>2 DEF SDO_getodlistcont
  <2> HIDE DEF more
  <2>2. OutAccounted' /\ Queues /\ MBXcontrol'[0] = MBXcontrol[0] /\ MBX'[0] = MBX[0]
    BY <2>1, KeepingReply
  <2> QED
    BY <2>1, <2>2, KeptOn
<1>3. CASE ESC_claimbuffer # 0 /\ ~MoreFrags
  <2> DEFINE more == MoreFrags
  <2>1. QueueReply(Released, MBX, MBX[0], more) /\ xoe' = "none"
    BY <1>3 DEF SDO_getodlistcont
  <2> HIDE DEF more
  <2>2. OutAccounted' /\ Queues /\ MBXcontrol'[0] = "idle" /\ MBX'[0] = MBX[0]
    BY <2>1, ReleasingReply
  <2> QED
    BY <2>1, <2>2, GivenBack
<1> QED
  BY <1>1, <1>2, <1>3

\* A request at hand is one of those Dispatch tells apart.
LEMMA DispatchAccounted ==
  ASSUME OutAccounted, RequestKept, AtHand, Dispatch, UNCHANGED posts
  PROVE  OutAccounted' /\ RequestKept' /\ Queues /\ MBX'[0] = MBX[0]
<1>1. /\ MBXcontrol[0] = "inclaim"
      /\ MBX[0].kind \in {"service", "hold", "refused", "other", "info", "list", "unmatched"}
  BY MailboxConstantsAssumption DEF AtHand, Arrived, RequestKept
<1>2. CASE Answer
  BY <1>2, AnswerAccounted
<1>3. CASE HoldDownload
  BY <1>3, HoldDownloadAccounted
<1>8. CASE RefuseSegment /\ MBX[0].kind = "refused"
  BY <1>1, <1>8, RefuseSegmentAccounted
<1>4. CASE InfoAnswer
  BY <1>1, <1>4, InfoAnswerAccounted
<1>5. CASE SDO_getodlist
  BY <1>1, <1>5, ObjectListAccounted
<1>6. CASE Kept /\ xoe' = "CoE"
  BY <1>1, <1>6, KeptAccounted, TakenOn
<1>7. \/ Answer \/ HoldDownload \/ InfoAnswer \/ SDO_getodlist \/ (Kept /\ xoe' = "CoE")
      \/ RefuseSegment /\ MBX[0].kind = "refused"
  BY <1>1 DEF Dispatch
<1> QED
  BY <1>2, <1>3, <1>4, <1>5, <1>6, <1>7, <1>8

LEMMA ESC_coeprocessAccounted ==
  ASSUME OutAccounted, RequestKept, ESC_coeprocess, UNCHANGED posts
  PROVE  OutAccounted' /\ RequestKept' /\ Queues /\ MBX'[0] = MBX[0]
<1> DEFINE more == FALSE
<1>1. CASE SDO_getodlistcont
  BY <1>1, ObjectListContAccounted
<1>2. CASE AtHand /\ Dispatch
  BY <1>2, DispatchAccounted
<1>3. CASE QueueReply(MBXcontrol, MBX, MBX[0], FALSE) /\ xoe' = xoe
  <2>1. QueueReply(MBXcontrol, MBX, MBX[0], more) /\ xoe' = xoe
    BY <1>3
  <2> HIDE DEF more
  <2>2. OutAccounted' /\ Queues /\ MBXcontrol'[0] = MBXcontrol[0] /\ MBX'[0] = MBX[0]
    BY <2>1, KeepingReply
  <2> QED
    BY <2>1, <2>2, KeptOn
<1>4. CASE Kept /\ xoe' = xoe
  BY <1>4, KeptAccounted, KeptOn
<1> QED
  BY <1>1, <1>2, <1>3, <1>4 DEF ESC_coeprocess

LEMMA ESC_xoeprocessAccounted ==
  ASSUME OutAccounted, RequestKept, ESC_xoeprocess, xoe' = xoe, UNCHANGED posts
  PROVE  OutAccounted' /\ RequestKept' /\ Queues /\ MBX'[0] = MBX[0]
<1> DEFINE more == FALSE
<1>1. CASE xoe = "none" /\ MBXcontrol[0] = "inclaim"
  <2>1. QueueReply(Released, MBX, MBX[0], more)
    BY <1>1 DEF ESC_xoeprocess
  <2> HIDE DEF more
  <2>2. OutAccounted' /\ Queues /\ MBXcontrol'[0] = "idle" /\ MBX'[0] = MBX[0]
    BY <2>1, ReleasingReply
  <2> QED
    BY <1>1, <2>2, GivenBack
<1>2. CASE Kept
  BY <1>2, KeptAccounted, KeptOn
<1> QED
  BY <1>1, <1>2 DEF ESC_xoeprocess

LEMMA ESC_SDO_completeAccounted ==
  ASSUME OutAccounted, RequestKept, ESC_SDO_complete, UNCHANGED posts
  PROVE  OutAccounted' /\ RequestKept' /\ Queues /\ MBX'[0] = MBX[0]
<1> DEFINE more == FALSE
<1>1. QueueReply(MBXcontrol, MBX, held, more) /\ xoe' = xoe
  BY DEF ESC_SDO_complete
<1> HIDE DEF more
<1>2. OutAccounted' /\ Queues /\ MBXcontrol'[0] = MBXcontrol[0] /\ MBX'[0] = MBX[0]
  BY <1>1, KeepingReply
<1> QED
  BY <1>1, <1>2, KeptOn

-----------------------------------------------------------------------------
(* The mailbox step of the slave.                                          *)

\* As long as a reply is posted and its read not seen, the link layer takes its
\* mailbox for full, whichever of its two sources it goes by.
LEMMA PostedIsFull ==
  ASSUME PostedIsKnown, mbxoutpost # 0, ~("SM1" \in Seen), pc = "mbx"
  PROVE  Full1
<1>1. CASE Refreshes
  BY <1>1 DEF PostedIsKnown, Seen, Full1
<1>2. CASE ~Refreshes
  BY <1>2 DEF PostedIsKnown, Seen, Full1, Refreshes
<1> QED
  BY <1>1, <1>2

\* So it never posts a second one before the first was read.
LEMMA PostsOneAtATime ==
  ASSUME PostedIsKnown, pc = "mbx", LinkIdle, MayPost
  PROVE  mbxoutpost = 0
BY PostedIsFull DEF LinkIdle, MayPost, PostedIsKnown

\* It reads a request only from a full mailbox.
LEMMA FullIsWritten ==
  ASSUME RequestWritten, MBXrun, Full0
  PROVE  sm0 # NoMsg
BY DEF RequestWritten, Full0

\* A slave with a reply anywhere has read a request.
LEMMA InUseMeansSeen ==
  ASSUME OutAccounted, RequestSeen,
         \/ mbxoutpost # 0
         \/ \E n \in OutBufs : MBXcontrol[n] # "idle"
  PROVE  MBX[0] # NoMsg
<1>1. \E n \in OutBufs : MBXcontrol[n] # "idle"
  BY BufferIndices DEF OutAccounted
<1> QED
  BY <1>1 DEF RequestSeen

LEMMA OutboxReadKeeps ==
  ASSUME IInv, pc = "mbx", MBXrun, MBXrun' = MBXrun, OutboxRead,
         UNCHANGED <<coeVars, masterVars>>
  PROVE  IInv'
<1> USE DEF IInv
<1>1. OutAccounted' /\ MBXcontrol'[0] = MBXcontrol[0]
  BY OutboxReadAccounted
<1>2. MBX' = MBX /\ xoe' = xoe /\ sm0' = sm0 /\ mbxoutpost' = 0 /\ MBXstat0' = Full0
  BY DEF OutboxRead
<1>3. RequestKept'
  BY <1>1, <1>2, KeptOn
<1>4. RequestSeen'
  <2>1. MBX[0] # NoMsg
    BY InUseMeansSeen DEF OutboxRead
  <2> QED
    BY <1>2, <2>1 DEF RequestSeen
<1>5. RequestWritten'
  BY <1>2, FullIsWritten DEF RequestWritten
<1>6. Stopped' /\ PostedIsKnown'
  BY <1>2 DEF Stopped, PostedIsKnown
<1> QED
  BY <1>1, <1>3, <1>4, <1>5, <1>6

LEMMA RepeatRequestKeeps ==
  ASSUME IInv, pc = "mbx", MBXrun, MBXrun' = MBXrun, RepeatRequest,
         UNCHANGED <<coeVars, masterVars>>
  PROVE  IInv'
<1> USE DEF IInv
<1>1. OutAccounted' /\ MBXcontrol'[0] = MBXcontrol[0]
  BY RepeatRequestAccounted
<1>2. /\ MBX' = MBX /\ xoe' = xoe /\ sm0' = sm0 /\ MBXstat0' = Full0 /\ MBXstat1' = Full1
      /\ mbxoutpost' = mbxoutpost
  BY DEF RepeatRequest
<1>3. RequestKept'
  BY <1>1, <1>2, KeptOn
<1>4. RequestSeen'
  <2>1. CASE MBX[0] # NoMsg
    BY <1>2, <2>1 DEF RequestSeen
  <2>2. CASE MBX[0] = NoMsg
    <3>1. mbxoutpost = 0
      BY <2>2, InUseMeansSeen
    <3>2. MBXcontrol' = MBXcontrol
      BY <3>1 DEF RepeatRequest
    <3> QED
      BY <1>2, <3>2 DEF RequestSeen
  <2> QED
    BY <2>1, <2>2
<1>5. RequestWritten'
  BY <1>2, FullIsWritten DEF RequestWritten
<1>6. Stopped'
  BY DEF Stopped
<1>7. PostedIsKnown'
  <2> SUFFICES ASSUME mbxoutpost # 0
               PROVE  ~mbxfree' /\ sm1' # NoMsg /\ MBXstat1'
    BY <1>2 DEF PostedIsKnown
  <2>1. MBXstat1'
    BY <1>2, PostedIsFull DEF RepeatRequest
  <2>2. ~mbxfree' /\ sm1' = MBX[mbxbackup]
    BY DEF RepeatRequest
  <2>3. MBX[mbxbackup] # NoMsg
    <3>1. CASE mbxbackup = 0
      BY <3>1, InUseMeansSeen
    <3>2. CASE mbxbackup # 0
      BY <3>2, BufferIndices DEF OutAccounted, Holds
    <3> QED
      BY <3>1, <3>2
  <2> QED
    BY <2>1, <2>2, <2>3
<1> QED
  BY <1>1, <1>3, <1>4, <1>5, <1>6, <1>7

LEMMA PostKeeps ==
  ASSUME IInv, pc = "mbx", MBXrun, MBXrun' = MBXrun, Post,
         UNCHANGED <<coeVars, masterVars>>
  PROVE  IInv'
<1> USE DEF IInv
<1>1. mbxoutpost = 0
  BY PostsOneAtATime DEF Post
<1>2. OutAccounted' /\ MBXcontrol'[0] = MBXcontrol[0]
  BY <1>1, PostAccounted
<1>3. /\ MBX' = MBX /\ xoe' = xoe /\ sm0' = sm0 /\ MBXstat0' = Full0 /\ MBXstat1' = TRUE
      /\ mbxfree' = FALSE
  BY DEF Post
<1>4. RequestKept'
  BY <1>2, <1>3, KeptOn
<1>5. ESC_outreqbuffer \in OutBufs /\ MBXcontrol[ESC_outreqbuffer] = "outreq"
  BY PostedIsAsked DEF Post, MayPost
<1>6. RequestSeen'
  <2>1. MBX[0] # NoMsg
    BY <1>5, InUseMeansSeen
  <2> QED
    BY <1>3, <2>1 DEF RequestSeen
<1>7. RequestWritten'
  BY <1>3, FullIsWritten DEF RequestWritten
<1>8. Stopped'
  BY DEF Stopped
<1>9. PostedIsKnown'
  <2>1. sm1' # NoMsg
    BY <1>5 DEF Post, Written, OutAccounted, Holds
  <2> QED
    BY <1>3, <2>1 DEF PostedIsKnown
<1> QED
  BY <1>2, <1>4, <1>6, <1>7, <1>8, <1>9

LEMMA ReadmbxKeeps ==
  ASSUME IInv, pc = "mbx", MBXrun, MBXrun' = MBXrun, ESC_readmbx,
         UNCHANGED <<coeVars, masterVars>>
  PROVE  IInv'
<1> USE DEF IInv
<1>1. sm0 # NoMsg
  BY FullIsWritten DEF ESC_readmbx, MayRead
<1>2. OutAccounted' /\ RequestKept' /\ MBX'[0] # NoMsg
  BY <1>1, ReadmbxAccounted
<1>3. mbxoutpost' = 0 /\ sm0' = NoMsg /\ MBXstat0' = FALSE
  BY DEF ESC_readmbx, MayRead
<1>4. RequestSeen'
  BY <1>2 DEF RequestSeen
<1>5. RequestWritten'
  BY <1>3 DEF RequestWritten
<1>6. Stopped' /\ PostedIsKnown'
  BY <1>3 DEF Stopped, PostedIsKnown
<1> QED
  BY <1>2, <1>4, <1>5, <1>6

LEMMA LinkQuietKeeps ==
  ASSUME IInv, pc = "mbx", MBXrun, MBXrun' = MBXrun, LinkQuiet,
         UNCHANGED <<coeVars, masterVars>>
  PROVE  IInv'
<1> USE DEF IInv
<1>1. /\ UNCHANGED <<MBXcontrol, MBX, mbxoutpost, mbxbackup, txcue, xoe, sm0, sm1, events,
                     mbxfree>>
      /\ MBXstat0' = Full0 /\ MBXstat1' = Full1
  BY DEF LinkQuiet
<1>2. OutAccounted'
  BY <1>1, OutUnchanged
<1>3. RequestKept' /\ RequestSeen'
  BY <1>1 DEF RequestKept, RequestSeen
<1>4. RequestWritten'
  BY <1>1, FullIsWritten DEF RequestWritten
<1>5. Stopped'
  BY DEF Stopped
<1>6. PostedIsKnown'
  <2>1. mbxoutpost # 0 => Full1
    BY PostedIsFull DEF LinkQuiet, LinkIdle
  <2> QED
    BY <1>1, <2>1 DEF PostedIsKnown
<1> QED
  BY <1>2, <1>3, <1>4, <1>5, <1>6

-----------------------------------------------------------------------------
(* Every step.                                                             *)

LEMMA MbxStepKeeps ==
  ASSUME IInv, MbxStep
  PROVE  IInv'
<1>1. CASE ~MBXrun /\ pc' = "wait" /\ UNCHANGED linkVars
  <2>1. UNCHANGED <<linkVars, coeVars, masterVars>>
    BY <1>1 DEF MbxStep
  <2>2. OutAccounted'
    BY <2>1, OutUnchanged DEF IInv
  <2> QED
    BY <1>1, <2>1, <2>2
    DEF IInv, RequestKept, RequestSeen, RequestWritten, Stopped, PostedIsKnown
<1>2. CASE MBXrun
  <2>1. pc = "mbx" /\ MBXrun' = MBXrun /\ UNCHANGED <<coeVars, masterVars>>
    BY <1>2 DEF MbxStep
  <2>2. CASE OutboxRead
    BY <1>2, <2>1, <2>2, OutboxReadKeeps
  <2>3. CASE ESC_readmbx
    BY <1>2, <2>1, <2>3, ReadmbxKeeps
  <2>4. CASE RepeatRequest
    BY <1>2, <2>1, <2>4, RepeatRequestKeeps
  <2>5. CASE Post
    BY <1>2, <2>1, <2>5, PostKeeps
  <2>6. CASE LinkQuiet
    BY <1>2, <2>1, <2>6, LinkQuietKeeps
  <2> QED
    BY <1>2, <2>2, <2>3, <2>4, <2>5, <2>6 DEF MbxStep
<1> QED
  BY <1>1, <1>2 DEF MbxStep

\* A protocol's step changes buffers only, and only of a request it has.
LEMMA ProtocolKeeps ==
  ASSUME IInv, OutAccounted', RequestKept', MBX'[0] = MBX[0], MBXrun, pc # "mbx",
         MBX[0] = NoMsg => held' = NoMsg /\ MBXcontrol' = MBXcontrol,
         UNCHANGED <<chipVars, events, ALevent, MBXrun, statVars, postVars, mbxincnt, masterVars>>
  PROVE  IInv'
<1> USE DEF IInv
<1>1. RequestSeen'
  BY DEF RequestSeen
<1>2. RequestWritten'
  BY DEF RequestWritten
<1>3. Stopped' /\ PostedIsKnown'
  BY DEF Stopped, PostedIsKnown
<1> QED
  BY <1>1, <1>2, <1>3

LEMMA CoeStepKeeps ==
  ASSUME IInv, CoeStep
  PROVE  IInv'
<1>1. MBXrun
  BY DEF IInv, Stopped, CoeStep
<1>2. OutAccounted' /\ RequestKept' /\ MBX'[0] = MBX[0]
  BY ESC_coeprocessAccounted DEF IInv, CoeStep, posts
<1>3. ASSUME MBX[0] = NoMsg PROVE held' = NoMsg /\ MBXcontrol' = MBXcontrol
  <2>1. xoe = "none" /\ MBXcontrol[0] = "idle" /\ held = NoMsg
    BY <1>3 DEF IInv, RequestKept, RequestSeen
  <2>2. ~AtHand
    BY <2>1 DEF AtHand, Arrived
  <2> QED
    BY <2>1, <2>2 DEF CoeStep, ESC_coeprocess, Kept
<1> QED
  BY <1>1, <1>2, <1>3, ProtocolKeeps DEF CoeStep

LEMMA XoeStepKeeps ==
  ASSUME IInv, XoeStep
  PROVE  IInv'
<1>1. MBXrun
  BY DEF IInv, Stopped, XoeStep
<1>2. OutAccounted' /\ RequestKept' /\ MBX'[0] = MBX[0]
  BY ESC_xoeprocessAccounted DEF IInv, XoeStep, posts
<1>3. ASSUME MBX[0] = NoMsg PROVE held' = NoMsg /\ MBXcontrol' = MBXcontrol
  <2>1. MBXcontrol[0] = "idle" /\ held = NoMsg
    BY <1>3 DEF IInv, RequestKept, RequestSeen
  <2> QED
    BY <2>1 DEF XoeStep, ESC_xoeprocess, Kept
<1> QED
  BY <1>1, <1>2, <1>3, ProtocolKeeps DEF XoeStep

LEMMA HeldDoneKeeps ==
  ASSUME IInv, HeldDone
  PROVE  IInv'
<1>1. MBXrun /\ MBX[0] # NoMsg
  BY DEF IInv, Stopped, RequestSeen, HeldDone, ESC_SDO_complete
<1>2. OutAccounted' /\ RequestKept' /\ MBX'[0] = MBX[0]
  BY ESC_SDO_completeAccounted DEF IInv, HeldDone, posts
<1> QED
  BY <1>1, <1>2, ProtocolKeeps DEF HeldDone

\* Steps that leave the buffers and the receive mailbox alone.
LEMMA AsideKeeps ==
  ASSUME IInv, PostedIsKnown',
         UNCHANGED <<MBXcontrol, MBX, mbxoutpost, mbxbackup, txcue, xoe, held, sm0, lastReq>>,
         MBXrun' = MBXrun, MBXrun /\ MBXstat0' => sm0 # NoMsg, unsure' => unsure,
         pc' \in {"coe", "xoe"} => pc \in {"coe", "xoe"}
  PROVE  IInv'
<1> USE DEF IInv
<1>1. OutAccounted'
  BY OutUnchanged
<1>2. RequestKept' /\ RequestSeen'
  BY DEF RequestKept, RequestSeen
<1>3. RequestWritten' /\ Stopped'
  BY DEF RequestWritten, Stopped
<1> QED
  BY <1>1, <1>2, <1>3

LEMMA StateStepKeeps ==
  ASSUME IInv, StateStep
  PROVE  IInv'
<1>1. CASE StopMailbox
  <2>1. OutAccounted' /\ \A n \in 0 .. OutBuffers : MBXcontrol'[n] = "idle"
    BY <1>1, StopAccounted DEF StopMailbox, IInv
  <2>2. /\ MBXcontrol'[0] = "idle" /\ \A n \in OutBufs : MBXcontrol'[n] = "idle"
    BY <2>1, BufferIndices
  <2>3. /\ MBXrun' = FALSE /\ mbxoutpost' = 0 /\ mbxbackup' = 0 /\ xoe' = "none"
        /\ sm0' = NoMsg /\ held' = NoMsg /\ pc' = "smact" /\ UNCHANGED <<lastReq, unsure>>
    BY <1>1 DEF StopMailbox, ESC_stopmbx, StateStep
  <2> QED
    BY <2>1, <2>2, <2>3
    DEF IInv, RequestKept, RequestSeen, RequestWritten, Stopped, PostedIsKnown
<1>2. CASE StartMailbox
  <2>1. /\ MBXrun' = TRUE /\ MBXstat0' = (sm0 # NoMsg)
        /\ UNCHANGED <<MBXcontrol, MBX, mbxoutpost, mbxbackup, txcue, xoe, held, sm0, lastReq,
                       unsure>>
    BY <1>2 DEF StartMailbox, ESC_startmbx, StateStep
  <2>2. mbxoutpost = 0
    BY <1>2 DEF StartMailbox, IInv, Stopped
  <2>3. OutAccounted'
    BY <2>1, OutUnchanged DEF IInv
  <2> QED
    BY <2>1, <2>2, <2>3
    DEF IInv, RequestKept, RequestSeen, RequestWritten, Stopped, PostedIsKnown
<1>3. CASE /\ events' \in {events, events \ {"CONTROL"}}
           /\ UNCHANGED <<chipVars, MBXrun, statVars, bufVars, postVars, mbxincnt, xoe, coeVars>>
  <2>1. PostedIsKnown'
    BY <1>3 DEF StateStep, IInv, PostedIsKnown
  <2> QED
    BY <1>3, <2>1, AsideKeeps DEF StateStep, IInv, RequestWritten
<1> QED
  BY <1>1, <1>2, <1>3 DEF StateStep

\* Reading the SyncManagers tells whether they are full.
LEMMA SmActStepKeeps ==
  ASSUME IInv, SmActStep
  PROVE  IInv'
<1>1. PostedIsKnown'
  <2>1. CASE "SMCHANGE" \in ALevent
    <3>1. mbxoutpost # 0 => MBXrun
      BY DEF IInv, Stopped
    <3>2. /\ events' = events \ {"SMCHANGE"} /\ ALevent' = events' /\ pc' = "mbx"
          /\ MBXrun => MBXstat1' = (sm1 # NoMsg)
          /\ UNCHANGED <<sm1, mbxoutpost, mbxfree>>
      BY <2>1 DEF SmActStep
    <3> QED
      BY <3>1, <3>2 DEF IInv, PostedIsKnown
  <2>2. CASE "SMCHANGE" \notin ALevent
    BY <2>2 DEF SmActStep, IInv, PostedIsKnown
  <2> QED
    BY <2>1, <2>2
<1>2. MBXrun /\ MBXstat0' => sm0 # NoMsg
  BY DEF SmActStep, IInv, RequestWritten
<1> QED
  BY <1>1, <1>2, AsideKeeps DEF SmActStep

LEMMA CaptureKeeps ==
  ASSUME IInv, Poll \/ SyncPass \/ SyncEdge
  PROVE  IInv'
<1>1. /\ UNCHANGED <<chipVars, events, MBXrun, statVars, bufVars, postVars, mbxincnt, xoe,
                     coeVars, masterVars>>
      /\ pc # "mbx" /\ pc' \notin {"coe", "xoe"}
  BY DEF Poll, SyncPass, SyncEdge, AfterEdge
<1>2. PostedIsKnown'
  BY <1>1 DEF IInv, PostedIsKnown
<1> QED
  BY <1>1, <1>2, AsideKeeps DEF IInv, RequestWritten

\* The master empties the send mailbox only with the event of the read, and fills
\* the receive mailbox with a request.
LEMMA MasterKeeps ==
  ASSUME IInv, Master
  PROVE  IInv'
<1>1. CASE AskPreop \/ AskInit \/ ReadReply \/ LoseReply \/ AskRepeat
  <2>1. /\ UNCHANGED <<slaveVars, sm0, lastReq>> /\ (unsure' => unsure)
        /\ events \subseteq events' /\ (sm1' = sm1 \/ "SM1" \in events')
    BY <1>1 DEF AskPreop, AskInit, ReadReply, LoseReply, AskRepeat
  <2>2. PostedIsKnown'
    BY <2>1 DEF IInv, PostedIsKnown
  <2> QED
    BY <2>1, <2>2, AsideKeeps DEF IInv, RequestWritten
<1>2. CASE WriteRequest \/ ResendRequest
  <2>1. /\ UNCHANGED <<slaveVars, sm1>> /\ events \subseteq events'
        /\ sm0' = lastReq'
    BY <1>2 DEF WriteRequest, ResendRequest
  <2>2. lastReq' # NoMsg /\ lastReq'.kind \in Kinds
    <3>1. CASE ResendRequest
      BY <3>1 DEF ResendRequest, IInv, RequestWritten
    <3>2. CASE WriteRequest
      <4>1. PICK k \in Kinds : lastReq' = [id |-> lastReq.id + 1, kind |-> k]
        BY <3>2 DEF WriteRequest
      <4> QED
        BY <4>1, MessagesAreSomething
    <3> QED
      BY <1>2, <3>1, <3>2
  <2>3. OutAccounted'
    BY <2>1, OutUnchanged DEF IInv
  <2>4. lastReq'.kind \in AllKinds
    BY <2>2, MailboxConstantsAssumption DEF AllKinds
  <2>5. RequestWritten'
    BY <2>1, <2>2, <2>4 DEF RequestWritten
  <2> QED
    BY <2>1, <2>3, <2>5 DEF IInv, RequestKept, RequestSeen, Stopped, PostedIsKnown
<1> QED
  BY <1>1, <1>2 DEF Master

LEMMA Invariance == Spec => []IInv
<1>1. ASSUME IInv, [Next]_vars PROVE IInv'
  <2>1. CASE Pass
    BY <1>1, <2>1, CaptureKeeps, StateStepKeeps, SmActStepKeeps, MbxStepKeeps, CoeStepKeeps,
       XoeStepKeeps DEF Pass
  <2>2. CASE HeldDone
    BY <1>1, <2>2, HeldDoneKeeps
  <2>3. CASE Master
    BY <1>1, <2>3, MasterKeeps
  <2>4. CASE UNCHANGED vars
    <3>1. UNCHANGED <<linkVars, coeVars, masterVars, pc>>
      BY <2>4 DEF vars
    <3>2. PostedIsKnown'
      BY <1>1, <3>1 DEF IInv, PostedIsKnown
    <3> QED
      BY <1>1, <3>1, <3>2, AsideKeeps DEF IInv, RequestWritten
  <2> QED
    BY <1>1, <2>1, <2>2, <2>3, <2>4 DEF Next
<1> QED
  BY InitEstablishes, <1>1, PTL DEF Spec

-----------------------------------------------------------------------------
\* Every buffer is accounted for, for any number of buffers, any requests, either
\* loop, any losses and restarts (ESC_mbxprocess, ESC_coeprocess, ESC_xoeprocess).  The
\* only ones that nobody gives back until the mailbox stops are those that a refused
\* last segment keeps (SDO_downloadsegment), and without such requests there are none.
THEOREM BuffersAccountedFor == Spec => []BufferAccounting
<1>1. IInv => BufferAccounting
  BY DEF IInv, OutAccounted, RequestKept, BufferAccounting
<1> QED
  BY Invariance, <1>1, PTL

-----------------------------------------------------------------------------
(* The order of the replies.                                               *)

\* Replies are numbered as they are made, and none in a buffer is newer.
Numbered ==
  /\ mbxcnt \in Nat /\ lastGot \in Nat /\ lastGot <= mbxcnt
  /\ \A n \in OutBufs : Holds(n) =>
       IsReply(MBX[n]) /\ MBX[n].id \in Nat /\ MBX[n].id <= mbxcnt
  /\ ~IsReply(MBX[0]) /\ ~IsReply(lastReq) /\ ~IsReply(sm0)

\* Of the replies that wait the one in the highest buffer is the oldest, no buffer
\* above one that waits is idle, and all that wait are newer than the posted reply,
\* its backup and what the master has.
QueueOrdered ==
  /\ \A n, m \in OutBufs : MBXcontrol[n] = "outreq" /\ n < m =>
       /\ MBXcontrol[m] # "idle"
       /\ MBXcontrol[m] = "outreq" => MBX[m].id < MBX[n].id
  /\ \A n \in OutBufs : MBXcontrol[n] = "outreq" =>
       /\ lastGot < MBX[n].id
       /\ mbxoutpost # 0 => MBX[mbxoutpost].id < MBX[n].id
       /\ mbxbackup # 0 => MBX[mbxbackup].id < MBX[n].id

\* The acknowledged repeat requests, and those seen.
RepeatsKnown ==
  /\ askRepeat => ecrep = pdirep
  /\ MBXrun => toggle = pdirep /\ ECrep \in {pdirep, ecrep}

\* The send mailbox holds the posted reply or its backup; the master has nothing
\* newer than the posted reply, and nothing newer than the backup unless it has
\* just taken the posted reply and asks for no repeat.
PostOrdered ==
  /\ "SM1" \in events => sm1 = NoMsg
  /\ sm1 # NoMsg /\ IsReply(sm1) =>
       \/ mbxoutpost # 0 /\ sm1 = MBX[mbxoutpost]
       \/ mbxbackup # 0 /\ sm1 = MBX[mbxbackup]
  /\ mbxoutpost # 0 => lastGot <= MBX[mbxoutpost].id
  /\ mbxoutpost # 0 /\ mbxbackup # 0 => MBX[mbxbackup].id < MBX[mbxoutpost].id
  /\ mbxbackup # 0 /\ lastGot > MBX[mbxbackup].id =>
       mbxoutpost # 0 /\ sm1 = NoMsg /\ ~askRepeat /\ ecrep = pdirep

OrderInv == Numbered /\ QueueOrdered /\ RepeatsKnown /\ PostOrdered

\* Without losses no repeat is ever asked for, and the master has the backup but not
\* the reply in the send mailbox.
NothingLost ==
  /\ ~askRepeat /\ ecrep = pdirep
  /\ \A n \in OutBufs : MBXcontrol[n] # "again"
  /\ mbxoutpost = 0 => sm1 = NoMsg
  /\ mbxoutpost # 0 =>
       \/ sm1 = NoMsg /\ MBX[mbxoutpost].id = lastGot
       \/ sm1 = MBX[mbxoutpost] /\ lastGot < MBX[mbxoutpost].id
  /\ mbxbackup # 0 => MBX[mbxbackup].id <= lastGot

LEMMA OrderInit == Init => OrderInv
<1> SUFFICES ASSUME Init PROVE OrderInv
  OBVIOUS
<1>1. ~IsReply(NoMsg) /\ ~IsReply(lastReq)
  BY DEF Init, IsReply, NoMsg
<1>2. Numbered
  BY <1>1, BufferIndices DEF Init, Numbered, Holds
<1>3. QueueOrdered /\ RepeatsKnown /\ PostOrdered
  BY BufferIndices DEF Init, QueueOrdered, RepeatsKnown, PostOrdered
<1> QED
  BY <1>2, <1>3 DEF OrderInv

\* One reply more: it is newer than all others, and in a buffer below all that wait.
LEMMA QueuesOrdered ==
  ASSUME OutAccounted, Numbered, QueueOrdered, Queues, UNCHANGED <<posts, lastGot>>,
         ~IsReply(MBX'[0]), ~IsReply(lastReq'), ~IsReply(sm0')
  PROVE  Numbered' /\ QueueOrdered'
<1> USE BufferIndices DEF posts
<1>0. /\ mbxoutpost # 0 => mbxoutpost \in OutBufs /\ MBXcontrol[mbxoutpost] \in {"outpost", "again"}
      /\ mbxbackup # 0 => mbxbackup \in OutBufs /\ MBXcontrol[mbxbackup] = "backup"
  BY DEF OutAccounted
<1>3. mbxcnt \in Nat /\ lastGot \in Nat /\ lastGot <= mbxcnt
  BY DEF Numbered
<1>4. ASSUME NEW m \in OutBufs, Untouched(m), Holds(m) \/ Holds(m)'
      PROVE  /\ MBXcontrol'[m] = MBXcontrol[m] /\ MBX'[m] = MBX[m] /\ Holds(m)
             /\ IsReply(MBX[m]) /\ MBX[m].id \in Nat /\ MBX[m].id <= mbxcnt
  BY <1>4 DEF Untouched, Holds, Numbered
<1>5. ASSUME NEW m \in OutBufs, Untouched(m), MBXcontrol'[m] = "outreq"
      PROVE  MBXcontrol[m] = "outreq" /\ MBX'[m] = MBX[m]
  BY <1>5 DEF Untouched
<1>6. ASSUME NEW m \in OutBufs, Untouched(m), MBXcontrol[m] # "idle"
      PROVE  MBXcontrol'[m] = MBXcontrol[m] /\ MBX'[m] = MBX[m]
  BY <1>6 DEF Untouched
<1>1. CASE NoneQueued
  <2>1. \A m \in OutBufs : Untouched(m)
    BY <1>1 DEF NoneQueued, AllUntouched
  <2>2. mbxcnt' \in Nat /\ mbxcnt' >= mbxcnt
    BY <1>1, <1>3 DEF NoneQueued
  <2>3. ASSUME NEW m \in OutBufs, Holds(m)'
        PROVE  IsReply(MBX'[m]) /\ MBX'[m].id \in Nat /\ MBX'[m].id <= mbxcnt'
    BY <1>3, <1>4, <2>1, <2>2, <2>3
  <2>4. Numbered'
    BY <1>3, <2>2, <2>3 DEF Numbered
  <2>5. /\ mbxoutpost # 0 => MBX'[mbxoutpost] = MBX[mbxoutpost]
        /\ mbxbackup # 0 => MBX'[mbxbackup] = MBX[mbxbackup]
    BY <1>0, <1>6, <2>1
  <2>6. ASSUME NEW k \in OutBufs, NEW m \in OutBufs, MBXcontrol'[k] = "outreq", k < m
        PROVE  /\ MBXcontrol'[m] # "idle"
               /\ MBXcontrol'[m] = "outreq" => MBX'[m].id < MBX'[k].id
    <3>1. MBXcontrol[k] = "outreq" /\ MBX'[k] = MBX[k]
      BY <1>5, <2>1, <2>6
    <3>2. MBXcontrol[m] # "idle"
      BY <2>6, <3>1 DEF QueueOrdered
    <3>3. MBXcontrol'[m] = MBXcontrol[m] /\ MBX'[m] = MBX[m]
      BY <1>6, <2>1, <3>2
    <3> QED
      BY <2>6, <3>1, <3>2, <3>3 DEF QueueOrdered
  <2>7. ASSUME NEW k \in OutBufs, MBXcontrol'[k] = "outreq"
        PROVE  /\ lastGot' < MBX'[k].id
               /\ mbxoutpost # 0 => MBX'[mbxoutpost].id < MBX'[k].id
               /\ mbxbackup # 0 => MBX'[mbxbackup].id < MBX'[k].id
    <3>1. MBXcontrol[k] = "outreq" /\ MBX'[k] = MBX[k]
      BY <1>5, <2>1, <2>7
    <3> QED
      BY <2>5, <3>1 DEF QueueOrdered
  <2>8. QueueOrdered'
    BY <2>6, <2>7 DEF QueueOrdered
  <2> QED
    BY <2>4, <2>8
<1>2. CASE OneQueued
  <2>1. PICK n \in OutBufs :
          /\ MBXcontrol[n] = "idle" /\ \A m \in OutBufs : MBXcontrol'[m] = "idle" => m <= n
          /\ MBXcontrol'[n] = "outreq"
          /\ IsReply(MBX'[n]) /\ MBX'[n].id = mbxcnt'
          /\ mbxcnt \in Nat => mbxcnt' \in Nat /\ mbxcnt' > mbxcnt
          /\ \A m \in OutBufs \ {n} : Untouched(m)
    BY <1>2 DEF OneQueued
  <2>2. mbxcnt' \in Nat /\ mbxcnt' > mbxcnt
    BY <1>3, <2>1
  <2>3. ASSUME NEW m \in OutBufs, Holds(m)'
        PROVE  IsReply(MBX'[m]) /\ MBX'[m].id \in Nat /\ MBX'[m].id <= mbxcnt'
    <3>1. CASE m = n
      BY <2>1, <2>2, <3>1
    <3>2. CASE m # n
      <4>1. /\ MBX'[m] = MBX[m] /\ IsReply(MBX[m]) /\ MBX[m].id \in Nat /\ MBX[m].id <= mbxcnt
        BY <1>4, <2>1, <2>3, <3>2
      <4> QED
        BY <1>3, <2>2, <4>1
    <3> QED
      BY <3>1, <3>2
  <2>4. Numbered'
    BY <1>3, <2>2, <2>3 DEF Numbered
  <2>5. /\ mbxoutpost # 0 =>
             mbxoutpost # n /\ MBX'[mbxoutpost] = MBX[mbxoutpost] /\ Holds(mbxoutpost)
        /\ mbxbackup # 0 =>
             mbxbackup # n /\ MBX'[mbxbackup] = MBX[mbxbackup] /\ Holds(mbxbackup)
    <3>1. /\ mbxoutpost # 0 => mbxoutpost # n /\ Holds(mbxoutpost)
          /\ mbxbackup # 0 => mbxbackup # n /\ Holds(mbxbackup)
      BY <1>0, <2>1 DEF Holds
    <3> QED
      BY <1>0, <1>6, <2>1, <3>1
  <2>6. ASSUME NEW k \in OutBufs, MBXcontrol'[k] = "outreq"
        PROVE  /\ lastGot' < MBX'[k].id
               /\ mbxoutpost # 0 => MBX'[mbxoutpost].id < MBX'[k].id
               /\ mbxbackup # 0 => MBX'[mbxbackup].id < MBX'[k].id
    <3>1. CASE k = n
      <4>1. MBX'[k].id = mbxcnt'
        BY <2>1, <3>1
      <4>2. mbxoutpost # 0 => MBX'[mbxoutpost].id \in Nat /\ MBX'[mbxoutpost].id <= mbxcnt
        BY <1>0, <2>5 DEF Numbered
      <4>3. mbxbackup # 0 => MBX'[mbxbackup].id \in Nat /\ MBX'[mbxbackup].id <= mbxcnt
        BY <1>0, <2>5 DEF Numbered
      <4> QED
        BY <1>3, <2>2, <4>1, <4>2, <4>3
    <3>2. CASE k # n
      <4>1. MBXcontrol[k] = "outreq" /\ MBX'[k] = MBX[k]
        BY <1>5, <2>1, <2>6, <3>2
      <4> QED
        BY <2>5, <4>1 DEF QueueOrdered
    <3> QED
      BY <3>1, <3>2
  <2>8. ASSUME NEW k \in OutBufs, NEW m \in OutBufs, MBXcontrol'[k] = "outreq", k < m
        PROVE  /\ MBXcontrol'[m] # "idle"
               /\ MBXcontrol'[m] = "outreq" => MBX'[m].id < MBX'[k].id
    <3>0. k \in Nat /\ m \in Nat
      OBVIOUS
    <3>1. CASE k = n
      <4>1. m # n /\ MBXcontrol'[m] # "idle"
        BY <2>1, <2>8, <3>0, <3>1
      <4>2. ASSUME MBXcontrol'[m] = "outreq" PROVE MBX'[m].id \in Nat /\ MBX'[m].id <= mbxcnt
        <5>1. Untouched(m)
          BY <2>1, <4>1
        <5>2. Holds(m)'
          BY <4>2 DEF Holds
        <5> QED
          BY <1>4, <5>1, <5>2
      <4>3. MBX'[k].id = mbxcnt'
        BY <2>1, <3>1
      <4> QED
        BY <1>3, <2>2, <4>1, <4>2, <4>3
    <3>2. CASE k # n
      <4>1. MBXcontrol[k] = "outreq" /\ MBX'[k] = MBX[k]
        BY <1>5, <2>1, <2>8, <3>2
      <4>2. MBXcontrol[m] # "idle" /\ (MBXcontrol[m] = "outreq" => MBX[m].id < MBX[k].id)
        BY <2>8, <4>1 DEF QueueOrdered
      <4>3. m # n
        BY <2>1, <4>2
      <4>4. MBXcontrol'[m] = MBXcontrol[m] /\ MBX'[m] = MBX[m]
        BY <1>6, <2>1, <4>2, <4>3
      <4> QED
        BY <4>1, <4>2, <4>4
    <3> QED
      BY <3>1, <3>2
  <2>7. QueueOrdered'
    BY <2>6, <2>8 DEF QueueOrdered
  <2> QED
    BY <2>4, <2>7
<1> QED
  BY <1>1, <1>2 DEF Queues

\* Neither the posted reply nor its backup is touched.
LEMMA QueuesPostOrdered ==
  ASSUME OutAccounted, Queues, PostOrdered,
         UNCHANGED <<posts, lastGot, sm1, askRepeat, ecrep, pdirep>>,
         "SM1" \in events' => "SM1" \in events
  PROVE  PostOrdered'
<1> USE BufferIndices DEF posts
<1>1. mbxoutpost # 0 => mbxoutpost \in OutBufs /\ MBXcontrol[mbxoutpost] # "idle"
  BY DEF OutAccounted
<1>2. mbxbackup # 0 => mbxbackup \in OutBufs /\ MBXcontrol[mbxbackup] # "idle"
  BY DEF OutAccounted
<1>3. /\ mbxoutpost # 0 => MBX'[mbxoutpost] = MBX[mbxoutpost]
      /\ mbxbackup # 0 => MBX'[mbxbackup] = MBX[mbxbackup]
  <2>1. ASSUME NEW n \in OutBufs, MBXcontrol[n] # "idle" PROVE MBX'[n] = MBX[n]
    BY <2>1 DEF Queues, NoneQueued, AllUntouched, OneQueued, Untouched
  <2> QED
    BY <1>1, <1>2, <2>1
<1> QED
  BY <1>3 DEF PostOrdered

\* The mailbox step.
LEMMA OutboxReadOrdered ==
  ASSUME OutBuffers <= 2, OutAccounted, OrderInv, OutboxRead,
         UNCHANGED <<MBXrun, masterVars>>
  PROVE  OrderInv'
<1> USE BufferIndices DEF OrderInv
<1>1. /\ mbxoutpost \in OutBufs /\ mbxbackup' = mbxoutpost /\ mbxoutpost' = 0
      /\ MBX' = MBX /\ mbxcnt' = mbxcnt
      /\ MBXcontrol' = [n \in 0 .. OutBuffers |-> AfterRead(n)]
  BY DEF OutboxRead, OutAccounted
<1>2. mbxoutpost # mbxbackup
  BY <1>1 DEF OutAccounted
<1>3. ASSUME NEW n \in OutBufs
      PROVE  MBXcontrol'[n] = IF n = mbxoutpost THEN "backup"
                              ELSE IF n = mbxbackup THEN "idle" ELSE MBXcontrol[n]
  BY <1>1, <1>2 DEF AfterRead
<1>4. Numbered'
  <2>1. ASSUME NEW n \in OutBufs, Holds(n)' PROVE Holds(n)
    BY <1>1, <1>3, <2>1 DEF Holds, OutAccounted
  <2> QED
    BY <1>1, <2>1 DEF Numbered, OutboxRead
<1>5. QueueOrdered'
  <2>1. ASSUME NEW n \in OutBufs, MBXcontrol'[n] = "outreq"
        PROVE  MBXcontrol[n] = "outreq" /\ n # mbxoutpost /\ n # mbxbackup
    BY <1>3, <2>1
  <2>2. ASSUME NEW n \in OutBufs, NEW m \in OutBufs, MBXcontrol'[n] = "outreq", n < m
        PROVE  MBXcontrol'[m] # "idle"
    <3>1. n # mbxoutpost /\ n # mbxbackup /\ MBXcontrol[n] = "outreq"
      BY <2>1, <2>2
    <3>2. MBXcontrol[m] # "idle"
      BY <2>2, <3>1 DEF QueueOrdered
    <3>3. OutBufs \subseteq {1, 2}
      BY LinkConstantsAssumption DEF OutBufs
    <3>4. m # mbxbackup
      BY <1>1, <1>2, <2>2, <3>1, <3>3
    <3> QED
      BY <1>3, <3>2, <3>4
  <2>3. ASSUME NEW n \in OutBufs, NEW m \in OutBufs, MBXcontrol'[n] = "outreq", n < m,
               MBXcontrol'[m] = "outreq"
        PROVE  MBX'[m].id < MBX'[n].id
    BY <1>1, <2>1, <2>3 DEF QueueOrdered
  <2>4. ASSUME NEW n \in OutBufs, MBXcontrol'[n] = "outreq"
        PROVE  lastGot' < MBX'[n].id /\ MBX'[mbxbackup'].id < MBX'[n].id
    BY <1>1, <2>1, <2>4 DEF QueueOrdered
  <2> QED
    BY <1>1, <2>2, <2>3, <2>4 DEF QueueOrdered
<1>6. RepeatsKnown'
  BY DEF RepeatsKnown, OutboxRead
<1>7. PostOrdered'
  <2>1. "SM1" \in events
    BY DEF OutboxRead, Seen, Refreshes
  <2>2. sm1 = NoMsg
    BY <2>1 DEF PostOrdered
  <2>3. sm1' \in {NoMsg, MBX[mbxoutpost]} /\ "SM1" \notin events'
    BY <2>2 DEF OutboxRead, Written
  <2>4. lastGot' <= MBX'[mbxbackup'].id /\ lastGot' = lastGot
    BY <1>1 DEF PostOrdered
  <2>5. lastGot \in Int /\ MBX[mbxoutpost].id \in Int
    BY <1>1 DEF Numbered, OutAccounted, Holds
  <2> QED
    BY <1>1, <2>3, <2>4, <2>5 DEF PostOrdered
<1> QED
  BY <1>4, <1>5, <1>6, <1>7

LEMMA RepeatRequestOrdered ==
  ASSUME OutAccounted, OrderInv, MBXrun, RepeatRequest, UNCHANGED <<MBXrun, masterVars>>
  PROVE  OrderInv'
<1> USE BufferIndices DEF OrderInv
<1>1. MBX' = MBX /\ UNCHANGED <<mbxoutpost, mbxbackup, mbxcnt, sm0, ecrep, ECrep>>
  BY DEF RepeatRequest
<1>2. ASSUME NEW n \in OutBufs
      PROVE  /\ (MBXcontrol'[n] = "idle") <=> (MBXcontrol[n] = "idle")
             /\ Holds(n)' => Holds(n)
             /\ (MBXcontrol'[n] = "outreq") <=> (MBXcontrol[n] = "outreq")
  <2>1. CASE MBXcontrol' = MBXcontrol
    BY <2>1 DEF Holds
  <2>2. CASE mbxoutpost # 0 /\ MBXcontrol' = [MBXcontrol EXCEPT ![mbxoutpost] = "again"]
    <3>1. mbxoutpost \in OutBufs /\ MBXcontrol[mbxoutpost] \in {"outpost", "again"}
      BY <2>2 DEF OutAccounted
    <3> QED
      BY <2>2, <3>1 DEF OutAccounted, Holds
  <2> QED
    BY <2>1, <2>2 DEF RepeatRequest
<1>3. Numbered'
  BY <1>1, <1>2 DEF Numbered
<1>4. QueueOrdered'
  BY <1>1, <1>2 DEF QueueOrdered
\* The master reads nothing until the repeat it asked for is acknowledged.
<1>5. ecrep # pdirep /\ ~askRepeat
  BY DEF RepeatsKnown, RepeatRequest, RepeatAsked
<1>6. RepeatsKnown'
  <2>1. \/ toggle' = toggle /\ pdirep' = pdirep
        \/ toggle' = ECrep /\ pdirep' = ECrep
    BY DEF RepeatRequest
  <2> QED
    BY <1>1, <1>5, <2>1 DEF RepeatsKnown
<1>7. PostOrdered'
  <2>1. mbxbackup # 0 => ~(lastGot > MBX[mbxbackup].id)
    BY <1>5 DEF PostOrdered
  <2>2. CASE mbxoutpost = 0 /\ mbxbackup = 0
    <3>1. sm1' = sm1 /\ events' = events
      BY <2>2 DEF RepeatRequest
    <3> QED
      BY <1>1, <2>1, <2>2, <3>1 DEF PostOrdered
  <2>3. CASE ~(mbxoutpost = 0 /\ mbxbackup = 0)
    <3>1. "SM1" \notin events'
      BY <2>3 DEF RepeatRequest
    <3>2. sm1' = IF mbxoutpost # 0 THEN MBX[mbxbackup] ELSE Written(mbxbackup)
      BY <2>3 DEF RepeatRequest
    <3>3. IsReply(sm1') => \/ mbxoutpost # 0 /\ sm1' = MBX[mbxoutpost]
                           \/ mbxbackup # 0 /\ sm1' = MBX[mbxbackup]
      <4>1. CASE mbxoutpost # 0
        <5>1. sm1' = MBX[mbxbackup]
          BY <3>2, <4>1
        <5> QED
          BY <5>1 DEF Numbered
      <4>2. CASE mbxoutpost = 0
        <5>1. mbxbackup # 0 /\ sm1' = IF sm1 = NoMsg THEN MBX[mbxbackup] ELSE sm1
          BY <2>3, <3>2, <4>2 DEF Written
        <5> QED
          BY <4>2, <5>1 DEF PostOrdered
      <4> QED
        BY <4>1, <4>2
    <3> QED
      BY <1>1, <2>1, <3>1, <3>3 DEF PostOrdered
  <2> QED
    BY <2>2, <2>3
<1> QED
  BY <1>3, <1>4, <1>6, <1>7

LEMMA PostOrderedStep ==
  ASSUME OutAccounted, OrderInv, mbxoutpost = 0, Post, UNCHANGED <<MBXrun, masterVars>>
  PROVE  OrderInv'
<1> DEFINE n == ESC_outreqbuffer
<1> USE BufferIndices DEF OrderInv
<1>1. /\ n \in OutBufs /\ MBXcontrol[n] = "outreq"
      /\ \A m \in OutBufs : MBXcontrol[m] = "outreq" => m <= n
  BY PostedIsAsked DEF Post, MayPost
<1>2. /\ MBXcontrol' = [MBXcontrol EXCEPT ![n] = "outpost"] /\ mbxoutpost' = n
      /\ MBX' = MBX /\ mbxbackup' = mbxbackup /\ mbxcnt' = mbxcnt /\ sm0' = sm0
      /\ sm1' = Written(n) /\ "SM1" \notin events'
  BY DEF Post
<1> HIDE DEF n
<1>3. \A m \in OutBufs : MBXcontrol'[m] = IF m = n THEN "outpost" ELSE MBXcontrol[m]
  BY <1>2 DEF OutAccounted
<1>4. Numbered'
  BY <1>1, <1>2, <1>3 DEF Numbered, Holds
<1>5. QueueOrdered'
  <2>1. ASSUME NEW k \in OutBufs, MBXcontrol'[k] = "outreq"
        PROVE  MBXcontrol[k] = "outreq" /\ k < n
    <3>1. k # n /\ MBXcontrol[k] = "outreq" /\ k <= n
      BY <1>1, <1>3, <2>1
    <3> QED
      BY <1>1, <3>1
  <2>2. ASSUME NEW k \in OutBufs, MBXcontrol'[k] = "outreq"
        PROVE  /\ lastGot' < MBX'[k].id /\ MBX'[mbxoutpost'].id < MBX'[k].id
               /\ mbxbackup' # 0 => MBX'[mbxbackup'].id < MBX'[k].id
    BY <1>1, <1>2, <2>1, <2>2 DEF QueueOrdered
  <2>3. ASSUME NEW k \in OutBufs, NEW m \in OutBufs, MBXcontrol'[k] = "outreq", k < m
        PROVE  /\ MBXcontrol'[m] # "idle"
               /\ MBXcontrol'[m] = "outreq" => MBX'[m].id < MBX'[k].id
    BY <1>2, <1>3, <2>1, <2>3 DEF QueueOrdered
  <2> QED
    BY <2>2, <2>3 DEF QueueOrdered
<1>6. RepeatsKnown'
  BY DEF RepeatsKnown, Post
<1>7. PostOrdered'
  <2>1. sm1' = IF sm1 = NoMsg THEN MBX[n] ELSE sm1
    BY <1>2 DEF Written
  <2>2. lastGot < MBX[n].id /\ lastGot \in Nat /\ MBX[n].id \in Nat
    BY <1>1 DEF QueueOrdered, Numbered, Holds
  <2>3. n # 0
    BY <1>1
  <2>4. mbxbackup # 0 => ~(lastGot > MBX[mbxbackup].id) /\ MBX[mbxbackup].id < MBX[n].id
    BY <1>1 DEF PostOrdered, QueueOrdered
  <2>5. sm1' # NoMsg /\ IsReply(sm1') => sm1' = MBX[n] \/ (mbxbackup # 0 /\ sm1' = MBX[mbxbackup])
    BY <2>1 DEF PostOrdered
  <2>6. lastGot <= MBX[n].id
    BY <2>2
  <2> QED
    BY <1>2, <2>3, <2>4, <2>5, <2>6 DEF PostOrdered
<1> QED
  BY <1>4, <1>5, <1>6, <1>7

\* Steps that leave the send buffers and the send mailbox alone.
LEMMA OrderAside ==
  ASSUME OrderInv, UNCHANGED <<MBXcontrol, MBX, mbxcnt, mbxoutpost, mbxbackup, lastGot, sm1,
                               askRepeat>>,
         ~IsReply(sm0'), ~IsReply(lastReq'), RepeatsKnown',
         "SM1" \in events' => "SM1" \in events, ecrep = pdirep => ecrep' = pdirep'
  PROVE  OrderInv'
<1> USE DEF OrderInv
<1>1. Numbered'
  BY DEF Numbered, Holds
<1>2. QueueOrdered'
  BY DEF QueueOrdered
<1>3. PostOrdered'
  BY DEF PostOrdered
<1> QED
  BY <1>1, <1>2, <1>3

LEMMA MbxStepOrdered ==
  ASSUME OutBuffers <= 2, IInv, OrderInv, MbxStep
  PROVE  OrderInv'
<1> USE DEF IInv, OrderInv
<1>1. CASE ~MBXrun
  <2>1. UNCHANGED <<linkVars, coeVars, masterVars>>
    BY <1>1 DEF MbxStep
  <2>2. RepeatsKnown'
    BY <2>1 DEF RepeatsKnown
  <2> QED
    BY <2>1, <2>2, OrderAside DEF Numbered
<1>2. CASE MBXrun
  <2>1. UNCHANGED <<MBXrun, coeVars, masterVars>> /\ pc = "mbx"
    BY <1>2 DEF MbxStep
  <2>2. CASE OutboxRead
    BY <2>1, <2>2, OutboxReadOrdered
  <2>3. CASE ESC_readmbx
    <3>1. sm0 # NoMsg
      BY <1>2, <2>3, FullIsWritten DEF ESC_readmbx, MayRead
    <3>2. OutAccounted' /\ RequestKept' /\ Queues /\ MBX'[0] # NoMsg
      BY <2>3, <3>1, ReadmbxAccounted
    <3>3. /\ UNCHANGED <<posts, sm1, ecrep, pdirep, ECrep, toggle>>
          /\ sm0' = NoMsg /\ events' = events \ {"SM0"}
      BY <2>3 DEF ESC_readmbx, posts
    <3>4. MBX'[0] = sm0 /\ ~IsReply(NoMsg)
      <4> DEFINE content == [MBX EXCEPT ![0] = sm0]
      <4> DEFINE more == FALSE
      <4>1. DOMAIN content = 0 .. OutBuffers /\ content[0] = sm0
        BY BufferIndices DEF OutAccounted
      <4>2. CASE sm0.kind = "badheader"
        <5>1. QueueReply(Released, content, sm0, more)
          BY <2>3, <4>2 DEF ESC_readmbx
        <5> HIDE DEF content, more
        <5>2. MBX'[0] = content[0]
          BY <4>1, <5>1, ReleasedBuffers, QueueReplyRequest
        <5> QED
          BY <4>1, <5>2 DEF IsReply, NoMsg
      <4>3. CASE sm0.kind # "badheader"
        <5>1. MBX' = content
          BY <2>3, <4>3 DEF ESC_readmbx
        <5> QED
          BY <4>1, <5>1 DEF IsReply, NoMsg
      <4> QED
        BY <4>2, <4>3
    <3>5. Numbered' /\ QueueOrdered'
      BY <2>1, <3>2, <3>3, <3>4, QueuesOrdered DEF Numbered
    <3>6. PostOrdered'
      BY <2>1, <3>2, <3>3, QueuesPostOrdered
    <3>7. RepeatsKnown'
      BY <2>1, <3>3 DEF RepeatsKnown
    <3> QED
      BY <3>5, <3>6, <3>7
  <2>4. CASE RepeatRequest
    BY <1>2, <2>1, <2>4, RepeatRequestOrdered
  <2>5. CASE Post
    <3>1. mbxoutpost = 0
      BY <2>1, <2>5, PostsOneAtATime DEF Post
    <3> QED
      BY <2>1, <2>5, <3>1, PostOrderedStep
  <2>6. CASE LinkQuiet
    <3>1. RepeatsKnown'
      BY <2>1, <2>6 DEF LinkQuiet, RepeatsKnown
    <3> QED
      BY <2>1, <2>6, <3>1, OrderAside DEF LinkQuiet, Numbered
  <2> QED
    BY <1>2, <2>2, <2>3, <2>4, <2>5, <2>6 DEF MbxStep
<1> QED
  BY <1>1, <1>2

\* A protocol's step queues at most one reply.
LEMMA ProtocolOrdered ==
  ASSUME OutAccounted, OrderInv, Queues, MBX'[0] = MBX[0],
         UNCHANGED <<chipVars, events, MBXrun, statVars, postVars, masterVars>>
  PROVE  OrderInv'
<1> USE DEF OrderInv
<1>1. Numbered' /\ QueueOrdered'
  BY QueuesOrdered DEF posts, Numbered
<1>2. PostOrdered'
  BY QueuesPostOrdered DEF posts
<1>3. RepeatsKnown'
  BY DEF RepeatsKnown
<1> QED
  BY <1>1, <1>2, <1>3

LEMMA ProtocolsOrdered ==
  ASSUME IInv, OrderInv, CoeStep \/ XoeStep \/ HeldDone
  PROVE  OrderInv' /\ Queues /\ lastGot' = lastGot
<1>1. CASE CoeStep
  <2>1. Queues /\ MBX'[0] = MBX[0]
    BY <1>1, ESC_coeprocessAccounted DEF IInv, CoeStep, posts
  <2> QED
    BY <1>1, <2>1, ProtocolOrdered DEF CoeStep, IInv
<1>2. CASE XoeStep
  <2>1. Queues /\ MBX'[0] = MBX[0]
    BY <1>2, ESC_xoeprocessAccounted DEF IInv, XoeStep, posts
  <2> QED
    BY <1>2, <2>1, ProtocolOrdered DEF XoeStep, IInv
<1>3. CASE HeldDone
  <2>1. Queues /\ MBX'[0] = MBX[0]
    BY <1>3, ESC_SDO_completeAccounted DEF IInv, HeldDone, posts
  <2> QED
    BY <1>3, <2>1, ProtocolOrdered DEF HeldDone, IInv
<1> QED
  BY <1>1, <1>2, <1>3

LEMMA StateStepOrdered ==
  ASSUME IInv, OrderInv, StateStep
  PROVE  OrderInv'
<1> USE DEF IInv, OrderInv
<1>1. ~IsReply(NoMsg)
  BY DEF IsReply, NoMsg
<1>2. CASE StopMailbox
  <2>1. /\ \A n \in OutBufs : MBXcontrol'[n] = "idle"
        /\ MBXrun' = FALSE /\ mbxoutpost' = 0 /\ mbxbackup' = 0 /\ sm0' = NoMsg /\ sm1' = NoMsg
        /\ UNCHANGED <<MBX, mbxcnt, ecrep, pdirep, askRepeat, lastReq>> /\ lastGot' = mbxcnt
    BY <1>2, BufferIndices DEF StopMailbox, ESC_stopmbx, StateStep
  <2>2. Numbered'
    BY <1>1, <2>1 DEF Numbered, Holds
  <2>3. QueueOrdered' /\ RepeatsKnown' /\ PostOrdered'
    BY <2>1 DEF QueueOrdered, RepeatsKnown, PostOrdered
  <2> QED
    BY <2>2, <2>3
<1>3. CASE StartMailbox
  <2>1. /\ UNCHANGED <<MBXcontrol, MBX, mbxcnt, mbxoutpost, mbxbackup, lastGot, sm0, sm1,
                       askRepeat, lastReq, ecrep>>
        /\ toggle' = ecrep /\ pdirep' = ecrep /\ ECrep' = ecrep
        /\ events' = events \ {"CONTROL", "SMCHANGE"}
    BY <1>3 DEF StartMailbox, ESC_startmbx, StateStep
  <2>2. RepeatsKnown'
    BY <2>1 DEF RepeatsKnown
  <2> QED
    BY <2>1, <2>2, OrderAside DEF Numbered
<1>4. CASE /\ events' \in {events, events \ {"CONTROL"}}
           /\ UNCHANGED <<chipVars, MBXrun, statVars, bufVars, postVars, lastGot>>
  <2>1. RepeatsKnown'
    BY <1>4 DEF RepeatsKnown, StateStep
  <2> QED
    BY <1>4, <2>1, OrderAside DEF Numbered, StateStep
<1> QED
  BY <1>2, <1>3, <1>4 DEF StateStep

LEMMA CaptureOrdered ==
  ASSUME IInv, OrderInv, Poll \/ SyncPass \/ SyncEdge \/ SmActStep
  PROVE  OrderInv' /\ UNCHANGED <<bufVars, postVars, MBXrun, sm1, lastGot>>
<1> USE DEF IInv, OrderInv
<1>1. /\ UNCHANGED <<chipVars, MBXrun, bufVars, postVars, masterVars>>
      /\ "SM1" \in events' => "SM1" \in events
      /\ ECrep' \in {ECrep, ecrep}
  BY DEF Poll, SyncPass, SyncEdge, SmActStep
<1>2. RepeatsKnown'
  BY <1>1 DEF RepeatsKnown
<1> QED
  BY <1>1, <1>2, OrderAside DEF Numbered

\* What the master takes is the posted reply or its backup.
LEMMA ReadReplyOrdered ==
  ASSUME OutAccounted, OrderInv, ReadReply
  PROVE  OrderInv' /\ lastGot' >= lastGot
<1> USE BufferIndices DEF OrderInv
<1>1. /\ UNCHANGED <<MBXcontrol, MBX, mbxcnt, mbxoutpost, mbxbackup, askRepeat, sm0, lastReq,
                     ecrep, pdirep, toggle, ECrep, MBXrun>>
      /\ sm1' = NoMsg /\ sm1 # NoMsg /\ ~askRepeat /\ ecrep = pdirep
  BY DEF ReadReply, MayTake
<1>2. RepeatsKnown'
  BY <1>1 DEF RepeatsKnown
<1>3. CASE lastGot' = lastGot
  <2>1. Numbered' /\ QueueOrdered' /\ PostOrdered'
    BY <1>1, <1>3 DEF Numbered, Holds, QueueOrdered, PostOrdered
  <2> QED
    BY <1>2, <1>3, <2>1 DEF Numbered
<1>4. CASE IsReply(sm1) /\ lastGot' = sm1.id
  <2>1. PICK k \in OutBufs : /\ sm1 = MBX[k] /\ Holds(k)
                             /\ (k = mbxoutpost /\ mbxoutpost # 0) \/ (k = mbxbackup /\ mbxbackup # 0)
    BY <1>1, <1>4 DEF PostOrdered, OutAccounted, Holds
  <2>2. lastGot' = MBX[k].id /\ MBX[k].id \in Nat /\ MBX[k].id <= mbxcnt /\ lastGot \in Nat
    BY <1>4, <2>1 DEF Numbered
  <2>3. lastGot <= MBX[k].id
    <3>1. CASE k = mbxoutpost
      BY <2>1, <3>1 DEF PostOrdered
    <3>2. CASE k = mbxbackup /\ mbxbackup # 0
      <4>1. ~(lastGot > MBX[k].id)
        BY <1>1, <3>2 DEF PostOrdered
      <4> QED
        BY <2>2, <4>1
    <3> QED
      BY <2>1, <3>1, <3>2
  <2>4. Numbered'
    BY <1>1, <2>2 DEF Numbered, Holds
  <2>5. ASSUME NEW n \in OutBufs, MBXcontrol[n] = "outreq" PROVE MBX[k].id < MBX[n].id
    BY <2>1, <2>5 DEF QueueOrdered
  <2>6. QueueOrdered'
    BY <1>1, <2>2, <2>5 DEF QueueOrdered
  <2>7. mbxoutpost # 0 => MBX[k].id <= MBX[mbxoutpost].id
    <3>1. CASE k = mbxoutpost
      BY <2>2, <3>1
    <3>2. CASE k = mbxbackup /\ mbxbackup # 0 /\ mbxoutpost # 0
      BY <2>1, <2>2, <3>2 DEF PostOrdered, Numbered, OutAccounted, Holds
    <3> QED
      BY <2>1, <3>1, <3>2
  <2>8. PostOrdered'
    BY <1>1, <2>1, <2>2, <2>7 DEF PostOrdered
  <2> QED
    BY <1>2, <2>2, <2>3, <2>4, <2>6, <2>8
<1> QED
  BY <1>3, <1>4 DEF ReadReply

LEMMA MasterOrdered ==
  ASSUME IInv, OrderInv, Master
  PROVE  OrderInv' /\ lastGot' >= lastGot
<1> USE DEF IInv, OrderInv
<1>1. lastGot \in Nat
  BY DEF Numbered
<1>2. CASE ReadReply
  BY <1>2, ReadReplyOrdered
<1>3. CASE LoseReply
  <2>1. /\ UNCHANGED <<slaveVars, sm0, lastReq, lastGot, ecrep, pdirep>>
        /\ ecrep = pdirep /\ sm1 # NoMsg
        /\ \/ sm1' = NoMsg
           \/ sm1' = sm1 /\ events' = events
    BY <1>3 DEF LoseReply, MayTake
  <2>2. Numbered' /\ QueueOrdered' /\ RepeatsKnown'
    BY <2>1 DEF Numbered, Holds, QueueOrdered, RepeatsKnown
  <2>3. PostOrdered'
    BY <2>1 DEF PostOrdered
  <2> QED
    BY <1>1, <2>1, <2>2, <2>3
<1>4. CASE AskRepeat
  <2>1. /\ UNCHANGED <<slaveVars, sm0, sm1, lastReq, lastGot, pdirep>>
        /\ askRepeat /\ ~askRepeat' /\ events' = events \cup {"SMCHANGE"}
    BY <1>4 DEF AskRepeat
  <2>2. Numbered' /\ QueueOrdered' /\ RepeatsKnown'
    BY <2>1 DEF Numbered, Holds, QueueOrdered, RepeatsKnown
  <2>3. PostOrdered'
    BY <2>1 DEF PostOrdered
  <2> QED
    BY <1>1, <2>1, <2>2, <2>3
<1>5. CASE AskInit
  <2>1. /\ UNCHANGED <<slaveVars, sm0, sm1, lastReq, lastGot, pdirep, ecrep>>
        /\ ~askRepeat' /\ events' = events \cup {"CONTROL"}
    BY <1>5 DEF AskInit
  <2>2. Numbered' /\ QueueOrdered' /\ RepeatsKnown'
    BY <2>1 DEF Numbered, Holds, QueueOrdered, RepeatsKnown
  <2>3. PostOrdered'
    BY <2>1 DEF PostOrdered
  <2> QED
    BY <1>1, <2>1, <2>2, <2>3
<1>6. CASE AskPreop \/ WriteRequest \/ ResendRequest
  <2>1. /\ UNCHANGED <<slaveVars, sm1, lastGot, pdirep, ecrep, askRepeat>>
        /\ "SM1" \in events' => "SM1" \in events
    BY <1>6 DEF AskPreop, WriteRequest, ResendRequest
  <2>2. ~IsReply(lastReq') /\ ~IsReply(sm0')
    <3>1. CASE AskPreop \/ ResendRequest
      BY <3>1 DEF AskPreop, ResendRequest, Numbered
    <3>2. CASE WriteRequest
      <4>1. PICK k : lastReq' = [id |-> lastReq.id + 1, kind |-> k]
        BY <3>2 DEF WriteRequest
      <4>2. sm0' = lastReq'
        BY <3>2 DEF WriteRequest
      <4> QED
        BY <4>1, <4>2 DEF IsReply
    <3> QED
      BY <1>6, <3>1, <3>2
  <2>3. RepeatsKnown'
    BY <2>1 DEF RepeatsKnown
  <2> QED
    BY <1>1, <2>1, <2>2, <2>3, OrderAside
<1> QED
  BY <1>2, <1>3, <1>4, <1>5, <1>6 DEF Master

LEMMA OrderStep ==
  ASSUME OutBuffers <= 2, IInv, OrderInv, [Next]_vars
  PROVE  OrderInv' /\ lastGot' >= lastGot
<1> USE DEF OrderInv
<1>1. lastGot \in Nat /\ mbxcnt \in Nat /\ lastGot <= mbxcnt
  BY DEF Numbered
<1>2. CASE Poll \/ SyncPass \/ SyncEdge \/ SmActStep
  BY <1>1, <1>2, CaptureOrdered
<1>3. CASE StateStep
  <2>1. lastGot' = lastGot \/ lastGot' = mbxcnt
    BY <1>3 DEF StateStep, StopMailbox, StartMailbox
  <2> QED
    BY <1>1, <1>3, <2>1, StateStepOrdered
<1>4. CASE MbxStep
  <2>1. lastGot' = lastGot
    BY <1>4 DEF MbxStep
  <2> QED
    BY <1>1, <1>4, <2>1, MbxStepOrdered
<1>5. CASE CoeStep \/ XoeStep \/ HeldDone
  BY <1>1, <1>5, ProtocolsOrdered
<1>6. CASE Master
  BY <1>6, MasterOrdered
<1>7. CASE UNCHANGED vars
  <2>1. UNCHANGED <<linkVars, masterVars>>
    BY <1>7 DEF vars
  <2>2. RepeatsKnown'
    BY <2>1 DEF RepeatsKnown
  <2> QED
    BY <1>1, <2>1, <2>2, OrderAside DEF Numbered
<1> QED
  BY <1>2, <1>3, <1>4, <1>5, <1>6, <1>7 DEF Next, Pass

\* Whatever is lost on the way and repeated, the master never takes an older reply
\* after a newer one: with two send buffers, as MBXBUFFERS gives the slave
\* (ESC_claimbuffer, ESC_outreqbuffer, the repeat branch of ESC_mbxprocess).  With
\* three of them replies overtake each other.
THEOREM RepliesStayInOrder ==
  ASSUME OutBuffers <= 2
  PROVE  Spec => RepliesInOrder
<1>1. Init => OrderInv
  BY OrderInit
<1>2. IInv /\ OrderInv /\ [Next]_vars => OrderInv'
  BY OrderStep
<1>3. IInv /\ OrderInv /\ [Next]_vars => [lastGot' >= lastGot]_vars
  BY OrderStep
<1> QED
  BY Invariance, <1>1, <1>2, <1>3, PTL DEF Spec, RepliesInOrder

-----------------------------------------------------------------------------
(* The reply channel.                                                      *)

\* The replies on their way, as the channel has them.
OnTheWay == {MBX[n].id : n \in {k \in OutBufs : Due(k)}}

channelVars  == <<MBXrun, OnTheWay, lastGot>>
ChannelQuiet == UNCHANGED channelVars

LEMMA ArriveInit == Init => NothingLost /\ OnTheWay = {}
<1> SUFFICES ASSUME Init PROVE NothingLost /\ OnTheWay = {}
  OBVIOUS
<1>1. \A n \in OutBufs : MBXcontrol[n] # "again" /\ ~Due(n)
  BY BufferIndices DEF Init, Due, Holds
<1> QED
  BY <1>1 DEF Init, NothingLost, OnTheWay

\* Nothing changes for the channel when the buffers with a reply that is due stay.
LEMMA SameDue ==
  ASSUME \A n \in OutBufs : (Due(n)' <=> Due(n)) /\ (Due(n) => MBX'[n].id = MBX[n].id)
  PROVE  OnTheWay' = OnTheWay
<1>1. {k \in OutBufs : Due(k)}' = {k \in OutBufs : Due(k)}
  OBVIOUS
<1>2. \A n \in {k \in OutBufs : Due(k)} : MBX'[n].id = MBX[n].id
  OBVIOUS
<1> QED
  BY <1>1, <1>2 DEF OnTheWay

\* Which those are: the queued ones and, until the master has taken it, the posted one.
LEMMA DueAre ==
  ASSUME OutAccounted, Numbered, QueueOrdered, NothingLost, NEW n \in OutBufs
  PROVE  Due(n) <=> \/ MBXcontrol[n] = "outreq"
                    \/ n = mbxoutpost /\ lastGot < MBX[n].id
<1> USE BufferIndices
<1>1. MBXcontrol[n] = "outreq" => Holds(n) /\ lastGot < MBX[n].id
  BY DEF Holds, QueueOrdered
<1>2. ~(MBXcontrol[n] = "backup" /\ lastGot < MBX[n].id)
  <2>1. MBXcontrol[n] = "backup" => n = mbxbackup /\ n # 0 /\ MBX[n].id \in Nat /\ lastGot \in Nat
    BY DEF OutAccounted, Numbered, Holds
  <2> QED
    BY <2>1 DEF NothingLost
<1>3. n = mbxoutpost <=> MBXcontrol[n] \in {"outpost", "again"}
  BY DEF OutAccounted
<1> QED
  BY <1>1, <1>2, <1>3 DEF Due, Holds

\* A reply is made, or nothing is, and neither the posted one nor the backup changes.
LEMMA QueuesArrive ==
  ASSUME OutAccounted, Numbered, NothingLost, Queues, MBXrun,
         UNCHANGED <<posts, lastGot, sm1, askRepeat, ecrep, pdirep, MBXrun>>
  PROVE  NothingLost' /\ [Channel!Next]_channelVars
<1> USE BufferIndices DEF posts
<1>1. /\ mbxoutpost # 0 => mbxoutpost \in OutBufs /\ MBXcontrol[mbxoutpost] # "idle"
      /\ mbxbackup # 0 => mbxbackup \in OutBufs /\ MBXcontrol[mbxbackup] # "idle"
  BY DEF OutAccounted
<1>2. ASSUME NEW n \in OutBufs, MBXcontrol[n] # "idle"
      PROVE  MBX'[n] = MBX[n] /\ MBXcontrol'[n] = MBXcontrol[n]
  BY <1>2 DEF Queues, NoneQueued, AllUntouched, OneQueued, Untouched
<1>3. ASSUME NEW n \in OutBufs PROVE MBXcontrol'[n] # "again"
  <2>1. CASE MBXcontrol[n] = "idle"
    BY <2>1 DEF Queues, NoneQueued, AllUntouched, OneQueued, Untouched
  <2>2. CASE MBXcontrol[n] # "idle"
    BY <1>2, <2>2 DEF NothingLost
  <2> QED
    BY <2>1, <2>2
<1>4. /\ mbxoutpost # 0 => MBX'[mbxoutpost] = MBX[mbxoutpost]
      /\ mbxbackup # 0 => MBX'[mbxbackup] = MBX[mbxbackup]
  BY <1>1, <1>2
<1>5. NothingLost'
  BY <1>3, <1>4 DEF NothingLost
<1>6. ASSUME NEW n \in OutBufs, Untouched(n)
      PROVE  (Due(n)' <=> Due(n)) /\ (Due(n) => MBX'[n].id = MBX[n].id)
  BY <1>6 DEF Untouched, Due, Holds
<1>7. CASE NoneQueued
  <2>1. OnTheWay' = OnTheWay
    BY <1>6, <1>7, SameDue DEF NoneQueued, AllUntouched
  <2> QED
    BY <1>5, <2>1 DEF channelVars
<1>8. CASE OneQueued
  <2>1. PICK n \in OutBufs :
          /\ MBXcontrol[n] = "idle" /\ MBXcontrol'[n] = "outreq"
          /\ MBX'[n].id = mbxcnt' /\ (mbxcnt \in Nat => mbxcnt' \in Nat /\ mbxcnt' > mbxcnt)
          /\ \A m \in OutBufs \ {n} : Untouched(m)
    BY <1>8 DEF OneQueued
  <2>2. mbxcnt \in Nat /\ lastGot \in Nat /\ lastGot <= mbxcnt
    BY DEF Numbered
  <2>3. mbxcnt' \in Nat /\ mbxcnt' > mbxcnt
    BY <2>1, <2>2
  <2>4. ~Due(n) /\ Due(n)'
    BY <2>1, <2>2, <2>3 DEF Due, Holds
  <2>5. OnTheWay' = OnTheWay \cup {mbxcnt'}
    <3>1. \A m \in OutBufs \ {n} : (Due(m)' <=> Due(m)) /\ (Due(m) => MBX'[m].id = MBX[m].id)
      BY <1>6, <2>1
    <3>2. {k \in OutBufs : Due(k)}' = {k \in OutBufs : Due(k)} \cup {n}
      BY <2>4, <3>1
    <3>3. \A m \in {k \in OutBufs : Due(k)} : MBX'[m].id = MBX[m].id
      BY <2>4, <3>1
    <3> QED
      BY <2>1, <3>2, <3>3 DEF OnTheWay
  <2>6. ASSUME NEW j \in OnTheWay \cup {lastGot} PROVE j < mbxcnt'
    <3>1. CASE j = lastGot
      BY <2>2, <2>3, <3>1
    <3>2. CASE j \in OnTheWay
      <4>1. PICK m \in OutBufs : Due(m) /\ j = MBX[m].id
        BY <3>2 DEF OnTheWay
      <4>2. j \in Nat /\ j <= mbxcnt
        BY <4>1 DEF Due, Numbered
      <4> QED
        BY <2>2, <2>3, <4>2
    <3> QED
      BY <3>1, <3>2
  <2>7. Channel!Make
    BY <2>5, <2>6 DEF Channel!Make, OnTheWay
  <2> QED
    BY <1>5, <2>7 DEF Channel!Next
<1> QED
  BY <1>7, <1>8 DEF Queues

\* Steps that leave the send buffers and the send mailbox alone.
LEMMA ArriveAside ==
  ASSUME NothingLost, UNCHANGED <<MBXcontrol, MBX, mbxoutpost, mbxbackup, lastGot, sm1>>,
         ~askRepeat', ecrep' = ecrep, pdirep' \in {ecrep, pdirep}
  PROVE  NothingLost' /\ OnTheWay' = OnTheWay
<1>1. NothingLost'
  BY DEF NothingLost
<1>2. \A n \in OutBufs : Due(n)' <=> Due(n)
  BY DEF Due, Holds
<1> QED
  BY <1>1, <1>2, SameDue

\* Without a repeat the link layer sees the posted reply read only when the master
\* has taken it.
LEMMA OutboxReadArrives ==
  ASSUME OutAccounted, OrderInv, NothingLost, OutboxRead, UNCHANGED <<MBXrun, masterVars>>
  PROVE  NothingLost' /\ ChannelQuiet
<1> USE BufferIndices DEF OrderInv
<1>1. /\ mbxoutpost \in OutBufs /\ mbxbackup' = mbxoutpost /\ mbxoutpost' = 0
      /\ MBX' = MBX /\ UNCHANGED <<ecrep, pdirep>>
      /\ MBXcontrol' = [n \in 0 .. OutBuffers |-> AfterRead(n)]
  BY DEF OutboxRead, OutAccounted
<1>2. sm1 = NoMsg
  <2>1. "SM1" \in events
    BY DEF OutboxRead, Seen, Refreshes
  <2> QED
    BY <2>1 DEF PostOrdered
<1>3. sm1' = NoMsg
  BY <1>1, <1>2 DEF OutboxRead, NothingLost
<1>4. MBX[mbxoutpost].id = lastGot
  <2>1. MBX[mbxoutpost] # NoMsg /\ mbxoutpost # 0
    BY <1>1 DEF OutAccounted, Holds
  <2> QED
    BY <1>2, <2>1 DEF NothingLost
<1>5. ASSUME NEW n \in OutBufs
      PROVE  /\ MBXcontrol'[n] # "again" /\ (MBXcontrol'[n] = "outreq" <=> MBXcontrol[n] = "outreq")
             /\ Holds(n)' => Holds(n)
             /\ Holds(n) => Holds(n)' \/ (n = mbxbackup /\ n # 0)
  BY <1>1 DEF AfterRead, OutAccounted, NothingLost, Holds
<1>6. lastGot \in Nat
  BY DEF Numbered
<1>7. NothingLost'
  BY <1>1, <1>3, <1>4, <1>5, <1>6 DEF NothingLost
<1>8. ASSUME NEW n \in OutBufs PROVE Due(n)' <=> Due(n)
  <2>1. CASE n = mbxbackup
    <3>1. MBX[n].id <= lastGot /\ MBXcontrol[n] = "backup"
      BY <1>1, <2>1 DEF NothingLost, OutAccounted
    <3>2. MBX[n].id \in Nat
      BY <3>1 DEF Numbered, Holds
    <3> QED
      BY <1>1, <1>6, <3>1, <3>2 DEF Due
  <2>2. CASE n # mbxbackup
    BY <1>1, <1>5, <2>2 DEF Due
  <2> QED
    BY <2>1, <2>2
<1>9. OnTheWay' = OnTheWay
  BY <1>1, <1>8, SameDue
<1> QED
  BY <1>7, <1>9 DEF ChannelQuiet, channelVars

\* The reply posted is one the master does not have.
LEMMA PostArrives ==
  ASSUME OutAccounted, OrderInv, NothingLost, mbxoutpost = 0, Post, UNCHANGED <<MBXrun, masterVars>>
  PROVE  NothingLost' /\ ChannelQuiet
<1> DEFINE n == ESC_outreqbuffer
<1> USE BufferIndices DEF OrderInv
<1>1. n \in OutBufs /\ MBXcontrol[n] = "outreq" /\ n # 0
  BY PostedIsAsked DEF Post, MayPost
<1>2. /\ MBXcontrol' = [MBXcontrol EXCEPT ![n] = "outpost"] /\ mbxoutpost' = n
      /\ MBX' = MBX /\ UNCHANGED <<ecrep, pdirep, mbxbackup>>
      /\ sm1' = Written(n)
  BY DEF Post
<1> HIDE DEF n
<1>3. \A m \in OutBufs : MBXcontrol'[m] = IF m = n THEN "outpost" ELSE MBXcontrol[m]
  BY <1>2 DEF OutAccounted
<1>4. sm1' = MBX[n]
  BY <1>2 DEF Written, NothingLost
<1>5. lastGot < MBX[n].id
  BY <1>1 DEF QueueOrdered
<1>6. NothingLost'
  BY <1>1, <1>2, <1>3, <1>4, <1>5 DEF NothingLost
<1>7. \A m \in OutBufs : Due(m)' <=> Due(m)
  BY <1>1, <1>2, <1>3 DEF Due, Holds
<1>8. OnTheWay' = OnTheWay
  BY <1>2, <1>7, SameDue
<1> QED
  BY <1>6, <1>8 DEF ChannelQuiet, channelVars

\* No repeat is seen where none was asked for.
LEMMA NoRepeat ==
  ASSUME MBXrun, RepeatsKnown, NothingLost
  PROVE  ~RepeatRequest
BY DEF RepeatsKnown, NothingLost, RepeatRequest, RepeatAsked

LEMMA MbxStepArrives ==
  ASSUME IInv, OrderInv, NothingLost, MbxStep
  PROVE  NothingLost' /\ [Channel!Next]_channelVars
<1> USE DEF IInv, OrderInv
<1>1. UNCHANGED <<MBXrun, coeVars, masterVars>> /\ pc = "mbx"
  BY DEF MbxStep
<1>2. CASE ~MBXrun
  <2>1. UNCHANGED linkVars
    BY <1>2 DEF MbxStep
  <2>2. NothingLost' /\ OnTheWay' = OnTheWay
    BY <1>1, <2>1, ArriveAside DEF NothingLost
  <2> QED
    BY <1>1, <2>1, <2>2 DEF channelVars
<1>3. CASE MBXrun /\ (OutboxRead \/ Post)
  <2>1. NothingLost' /\ ChannelQuiet
    BY <1>1, <1>3, OutboxReadArrives, PostArrives, PostsOneAtATime DEF Post
  <2> QED
    BY <2>1 DEF ChannelQuiet
<1>4. CASE MBXrun /\ LinkQuiet
  <2>1. NothingLost' /\ OnTheWay' = OnTheWay
    BY <1>1, <1>4, ArriveAside DEF LinkQuiet, NothingLost
  <2> QED
    BY <1>1, <1>4, <2>1 DEF LinkQuiet, channelVars
<1>5. CASE MBXrun /\ ESC_readmbx
  <2>1. sm0 # NoMsg
    BY <1>5, FullIsWritten DEF ESC_readmbx, MayRead
  <2>2. Queues
    BY <1>5, <2>1, ReadmbxAccounted
  <2>3. UNCHANGED <<posts, sm1, ecrep, pdirep>>
    BY <1>5 DEF ESC_readmbx, posts
  <2> QED
    BY <1>1, <1>5, <2>2, <2>3, QueuesArrive
<1> QED
  BY <1>2, <1>3, <1>4, <1>5, NoRepeat DEF MbxStep

\* A reply is made only in a session.
LEMMA ProtocolsArrive ==
  ASSUME IInv, OrderInv, NothingLost, CoeStep \/ XoeStep \/ HeldDone
  PROVE  NothingLost' /\ [Channel!Next]_channelVars
<1> USE DEF IInv, OrderInv
<1>1. UNCHANGED <<MBXrun, chipVars, postVars, masterVars>>
  BY DEF CoeStep, XoeStep, HeldDone
<1>2. MBXrun
  BY DEF Stopped, CoeStep, XoeStep, HeldDone, ESC_SDO_complete
<1>3. Queues
  BY ProtocolsOrdered
<1> QED
  BY <1>1, <1>2, <1>3, QueuesArrive DEF posts

\* INIT ends a session, with all its replies; PREOP opens one.
LEMMA StateStepArrives ==
  ASSUME OrderInv, NothingLost, StateStep
  PROVE  NothingLost' /\ [Channel!Next]_channelVars
<1> USE DEF OrderInv
<1>1. CASE StopMailbox
  <2>1. /\ \A n \in OutBufs : MBXcontrol'[n] = "idle"
        /\ MBXrun /\ MBXrun' = FALSE /\ mbxoutpost' = 0 /\ mbxbackup' = 0 /\ sm1' = NoMsg
        /\ UNCHANGED <<ecrep, pdirep, askRepeat>> /\ lastGot' = mbxcnt
    BY <1>1, BufferIndices DEF StopMailbox, ESC_stopmbx, StateStep
  <2>2. NothingLost'
    BY <2>1 DEF NothingLost
  <2>3. OnTheWay' = {}
    <3>1. \A n \in OutBufs : ~Due(n)'
      BY <2>1 DEF Due, Holds
    <3> QED
      BY <3>1 DEF OnTheWay
  <2>4. lastGot' \in Nat /\ lastGot' >= lastGot
    BY <2>1 DEF Numbered
  <2>5. Channel!Close
    BY <2>1, <2>3, <2>4 DEF Channel!Close, OnTheWay
  <2> QED
    BY <2>2, <2>5 DEF Channel!Next
<1>2. CASE StartMailbox
  <2>1. /\ UNCHANGED <<MBXcontrol, MBX, mbxoutpost, mbxbackup, lastGot, sm1, askRepeat, ecrep>>
        /\ ~MBXrun /\ MBXrun' = TRUE /\ pdirep' = ecrep
    BY <1>2 DEF StartMailbox, ESC_startmbx, StateStep
  <2>2. NothingLost' /\ OnTheWay' = OnTheWay
    BY <2>1, ArriveAside DEF NothingLost
  <2>3. Channel!Open
    BY <2>1, <2>2 DEF Channel!Open, OnTheWay
  <2> QED
    BY <2>2, <2>3 DEF Channel!Next
<1>3. CASE UNCHANGED <<chipVars, MBXrun, bufVars, postVars, lastGot, askRepeat>>
  <2>1. NothingLost' /\ OnTheWay' = OnTheWay
    BY <1>3, ArriveAside DEF NothingLost
  <2> QED
    BY <1>3, <2>1 DEF channelVars
<1> QED
  BY <1>1, <1>2, <1>3 DEF StateStep

\* What the master takes is the oldest reply on its way.
LEMMA ReadReplyArrives ==
  ASSUME IInv, OrderInv, NothingLost, ReadReply
  PROVE  NothingLost' /\ [Channel!Next]_channelVars
<1> USE DEF IInv, OrderInv
<1>1. /\ UNCHANGED <<slaveVars, sm0, ecrep, pdirep, askRepeat>>
      /\ MBXrun /\ sm1 # NoMsg /\ sm1' = NoMsg
  BY DEF ReadReply, MayTake, MasterUses
<1>2. /\ mbxoutpost \in OutBufs /\ mbxoutpost # 0 /\ MBXcontrol[mbxoutpost] = "outpost"
      /\ sm1 = MBX[mbxoutpost] /\ lastGot < MBX[mbxoutpost].id
  BY <1>1, BufferIndices DEF NothingLost, OutAccounted
<1>3. IsReply(sm1) /\ lastGot \in Nat /\ MBX[mbxoutpost].id \in Nat
  BY <1>2 DEF Numbered, Holds
<1>4. lastGot' = MBX[mbxoutpost].id
  BY <1>2, <1>3 DEF ReadReply
<1>5. NothingLost'
  <2>1. mbxbackup # 0 => MBX[mbxbackup].id \in Nat /\ MBX[mbxbackup].id <= lastGot
    BY BufferIndices DEF NothingLost, Numbered, Holds, OutAccounted
  <2> QED
    BY <1>1, <1>2, <1>3, <1>4, <2>1 DEF NothingLost
<1>6. ASSUME NEW n \in OutBufs, n = mbxoutpost PROVE Due(n) /\ ~Due(n)'
  BY <1>1, <1>2, <1>3, <1>4, <1>6 DEF Due, Holds
<1>7. ASSUME NEW n \in OutBufs \ {mbxoutpost}
      PROVE  (Due(n)' <=> Due(n)) /\ (Due(n) => lastGot' < MBX[n].id)
  <2>1. Due(n) <=> MBXcontrol[n] = "outreq"
    BY DueAre
  <2>2. MBXcontrol[n] = "outreq" => lastGot' < MBX[n].id
    BY <1>2, <1>4 DEF QueueOrdered
  <2>3. Due(n)' => Holds(n) /\ lastGot' < MBX[n].id
    BY <1>1 DEF Due, Holds
  <2>4. Holds(n) /\ lastGot' < MBX[n].id => Due(n)
    BY <1>2, <1>3, <1>4 DEF Due, Numbered
  <2>5. MBXcontrol[n] = "outreq" => Holds(n)'
    BY <1>1 DEF Holds
  <2> QED
    BY <1>1, <2>1, <2>2, <2>3, <2>4, <2>5 DEF Due
<1>8. /\ lastGot' \in OnTheWay
      /\ \A j \in OnTheWay : lastGot' <= j
      /\ OnTheWay' = OnTheWay \ {lastGot'}
  <2>1. lastGot' \in OnTheWay
    BY <1>2, <1>4, <1>6 DEF OnTheWay
  <2>2. ASSUME NEW j \in OnTheWay PROVE lastGot' <= j
    <3>1. PICK n \in OutBufs : Due(n) /\ j = MBX[n].id
      BY <2>2 DEF OnTheWay
    <3>2. j \in Nat
      BY <3>1 DEF Due, Numbered
    <3>3. n = mbxoutpost \/ lastGot' < j
      BY <1>7, <3>1
    <3> QED
      BY <1>3, <1>4, <3>1, <3>2, <3>3
  <2>3. {k \in OutBufs : Due(k)}' = {k \in OutBufs : Due(k)} \ {mbxoutpost}
    <3>1. ASSUME NEW n \in OutBufs PROVE Due(n)' <=> (Due(n) /\ n # mbxoutpost)
      <4>1. CASE n = mbxoutpost
        BY <1>6, <4>1
      <4>2. CASE n # mbxoutpost
        BY <1>7, <4>2
      <4> QED
        BY <4>1, <4>2
    <3> QED
      BY <3>1
  <2>4. \A n \in {k \in OutBufs : Due(k)} \ {mbxoutpost} : MBX[n].id # lastGot'
    <3>1. \A n \in OutBufs : Due(n) => MBX[n].id \in Nat
      BY DEF Due, Numbered
    <3> QED
      BY <1>3, <1>4, <1>7, <3>1
  <2>5. OnTheWay' = OnTheWay \ {lastGot'}
    BY <1>1, <1>2, <1>4, <1>6, <2>3, <2>4 DEF OnTheWay
  <2> QED
    BY <2>1, <2>2, <2>5
<1>9. Channel!Get
  BY <1>1, <1>8 DEF Channel!Get, OnTheWay
<1> QED
  BY <1>5, <1>9 DEF Channel!Next

LEMMA MasterArrives ==
  ASSUME ReplyLosses = {}, IInv, OrderInv, NothingLost, Master
  PROVE  NothingLost' /\ [Channel!Next]_channelVars
<1>1. ~LoseReply /\ ~AskRepeat
  BY DEF LoseReply, AskRepeat, NothingLost
<1>2. CASE AskPreop \/ AskInit \/ WriteRequest \/ ResendRequest
  <2>1. UNCHANGED <<slaveVars, sm1, ecrep, pdirep, lastGot>> /\ ~askRepeat'
    BY <1>2 DEF AskPreop, AskInit, WriteRequest, ResendRequest, NothingLost
  <2>2. NothingLost' /\ OnTheWay' = OnTheWay
    BY <2>1, ArriveAside
  <2> QED
    BY <2>1, <2>2 DEF channelVars
<1> QED
  BY <1>1, <1>2, ReadReplyArrives DEF Master

LEMMA ArriveStep ==
  ASSUME ReplyLosses = {}, IInv, OrderInv, NothingLost, [Next]_vars
  PROVE  NothingLost' /\ [Channel!Next]_channelVars
<1>1. CASE Poll \/ SyncPass \/ SyncEdge \/ SmActStep
  <2>1. UNCHANGED <<bufVars, postVars, MBXrun, chipVars, masterVars>>
    BY <1>1 DEF Poll, SyncPass, SyncEdge, SmActStep
  <2>2. NothingLost' /\ OnTheWay' = OnTheWay
    BY <2>1, ArriveAside DEF NothingLost
  <2> QED
    BY <2>1, <2>2 DEF channelVars
<1>2. CASE StateStep \/ MbxStep \/ CoeStep \/ XoeStep
  BY <1>2, StateStepArrives, MbxStepArrives, ProtocolsArrive
<1>3. CASE HeldDone \/ Master
  BY <1>3, ProtocolsArrive, MasterArrives
<1>4. CASE UNCHANGED vars
  <2>1. UNCHANGED <<linkVars, masterVars>>
    BY <1>4 DEF vars
  <2>2. NothingLost' /\ OnTheWay' = OnTheWay
    BY <2>1, ArriveAside DEF NothingLost
  <2> QED
    BY <2>1, <2>2 DEF channelVars
<1> QED
  BY <1>1, <1>2, <1>3, <1>4 DEF Next, Pass

\* While no reply is lost on the way the master gets every reply that was asked to be
\* posted, once and in order: the mailbox implements the reply channel (Mailbox with ReplyLosses = {},
\* whatever becomes of the requests; ESC_mbxprocess, ESC_state).
THEOREM MailboxIsAChannel ==
  ASSUME OutBuffers <= 2, ReplyLosses = {}
  PROVE  Spec => RepliesArrive
<1>1. Init => OrderInv /\ NothingLost
  BY OrderInit, ArriveInit
<1>2. IInv /\ OrderInv /\ NothingLost /\ [Next]_vars => OrderInv' /\ NothingLost'
  BY OrderStep, ArriveStep
<1>3. Init => Channel!Init
  BY ArriveInit DEF Init, Channel!Init, OnTheWay
<1>4. IInv /\ OrderInv /\ NothingLost /\ [Next]_vars
        => [Channel!Next]_channelVars
  BY ArriveStep
<1> QED
  BY Invariance, <1>1, <1>2, <1>3, <1>4, PTL
  DEF Spec, RepliesArrive, Channel!Spec, Channel!channel, channelVars, OnTheWay

-----------------------------------------------------------------------------
(* Which request a reply is for.                                           *)

\* A malformed request is answered each time it is read.
Proper(q) == q.kind \notin {"badheader", "short"}

\* The requests the slave is at work on: in buffer 0, or held by the application.
AtWork   == MBXcontrol[0] = "inclaim"
Requests == {q \in {MBX[0], held} : (AtWork /\ q = MBX[0]) \/ (held # NoMsg /\ q = held)}

\* The last reply to a request, as long as the master has not taken it.
Final(n) == Due(n) /\ ~MBX[n].more /\ Proper(MBX[n].to)

\* What the slave has read is numbered up to mbxincnt: a request in the mailbox with
\* another number is a new one, and one written again has that very number.
RequestsNumbered ==
  /\ sm0 \in {NoMsg, lastReq} /\ (~MBXrun => sm0 = NoMsg)
  /\ lastReq.id \in Nat /\ mbxincnt \in 0 .. lastReq.id
  /\ unsure => sm0 = lastReq \/ mbxincnt = lastReq.id
  /\ control \in {"INIT", "PREOP"} /\ (control = "INIT" => ~unsure)
  /\ \A q \in Requests : q.id \in 0 .. mbxincnt
  /\ \A n \in OutBufs : Due(n) => MBX[n].to.id \in 0 .. mbxincnt

\* A request on its way, at work or answered is one the master waits for.
OpenKept ==
  control = "PREOP" =>
    /\ sm0 # NoMsg /\ sm0.id # mbxincnt => sm0 \in open
    /\ \A q \in Requests : Proper(q) => q \in open
    /\ \A n \in OutBufs : Due(n) /\ Proper(MBX[n].to) => MBX[n].to \in open

\* No request is at work twice, or once more when its last reply is made, and no
\* reply follows the last one.
AnsweredOnce ==
  /\ AtWork /\ held # NoMsg => MBX[0] # held
  /\ \A n \in OutBufs : Final(n) =>
       /\ MBX[n].to \notin Requests
       /\ \A m \in OutBufs : Due(m) /\ MBX[m].to = MBX[n].to => MBX[m].id <= MBX[n].id

AnswerInv == RequestsNumbered /\ OpenKept /\ AnsweredOnce

LEMMA AnswerInit == Init => AnswerInv
<1> SUFFICES ASSUME Init PROVE AnswerInv
  OBVIOUS
<1>1. ~AtWork /\ Requests = {} /\ \A n \in OutBufs : ~Due(n)
  BY BufferIndices DEF Init, AtWork, Requests, Due, Holds
<1>2. lastReq.id = 0
  BY DEF Init
<1>3. RequestsNumbered
  BY <1>1, <1>2 DEF Init, RequestsNumbered
<1>4. OpenKept /\ AnsweredOnce
  BY <1>1 DEF Init, OpenKept, AnsweredOnce, Final
<1> QED
  BY <1>3, <1>4 DEF AnswerInv

\* No reply more is due, and the requests at work are the same: the reply of a step
\* of the link layer, and what the master takes.
LEMMA FewerDue ==
  ASSUME AnswerInv, Numbered, UNCHANGED <<sm0, lastReq, mbxincnt, unsure, control, MBXrun, MBX, held>>,
         MBXcontrol'[0] = MBXcontrol[0], lastGot' \in Nat, lastGot' >= lastGot,
         \A n \in OutBufs : Holds(n)' => Holds(n)
  PROVE  /\ Requests' = Requests /\ \A n \in OutBufs : Due(n)' => Due(n)
         /\ RequestsNumbered' /\ AnsweredOnce'
<1> USE DEF AnswerInv
<1>1. AtWork' = AtWork /\ Requests' = Requests
  BY DEF AtWork, Requests
<1>2. ASSUME NEW n \in OutBufs, Due(n)' PROVE Due(n)
  <2>1. Holds(n) /\ lastGot' < MBX[n].id
    BY <1>2 DEF Due
  <2>2. MBX[n].id \in Nat /\ lastGot \in Nat
    BY <2>1 DEF Numbered
  <2> QED
    BY <2>1, <2>2 DEF Due
<1>3. RequestsNumbered'
  BY <1>1, <1>2 DEF RequestsNumbered
<1>4. \A n \in OutBufs : Final(n)' => Final(n)
  BY <1>2 DEF Final, Proper
<1>5. AnsweredOnce'
  BY <1>1, <1>2, <1>4 DEF AnsweredOnce
<1> QED
  BY <1>1, <1>2, <1>3, <1>5

LEMMA AnswersPosted ==
  ASSUME AnswerInv, Numbered,
         UNCHANGED <<sm0, lastReq, mbxincnt, unsure, control, MBXrun, MBX, held, lastGot, open>>,
         MBXcontrol'[0] = MBXcontrol[0],
         \A n \in OutBufs : Holds(n)' => Holds(n)
  PROVE  AnswerInv'
<1>1. lastGot' \in Nat /\ lastGot' >= lastGot
  BY DEF Numbered
<1>2. /\ Requests' = Requests /\ \A n \in OutBufs : Due(n)' => Due(n)
      /\ RequestsNumbered' /\ AnsweredOnce'
  BY <1>1, FewerDue
<1>3. OpenKept'
  BY <1>2 DEF AnswerInv, OpenKept, Proper
<1> QED
  BY <1>2, <1>3 DEF AnswerInv

LEMMA AnswersAside ==
  ASSUME AnswerInv, Numbered,
         UNCHANGED <<sm0, lastReq, mbxincnt, unsure, control, MBXrun, MBX, MBXcontrol, held, lastGot, open>>
  PROVE  AnswerInv'
BY AnswersPosted DEF Holds

-----------------------------------------------------------------------------
\* A buffer left alone, or claimed for nothing, has the reply that is due as before.
LEMMA UntouchedDue ==
  ASSUME NEW n \in OutBufs, Untouched(n), lastGot' = lastGot
  PROVE  /\ Due(n)' <=> Due(n)
         /\ Final(n)' <=> Final(n)
         /\ Due(n) => MBX'[n] = MBX[n]
BY DEF Untouched, Due, Holds, Final, Proper

LEMMA QueueReplyIs ==
  ASSUME OutAccounted, NEW ctl, NEW content, NEW to, NEW more, SendBuffersAre(ctl, content),
         QueueReply(ctl, content, to, more)
  PROVE  /\ MBXcontrol'[0] = ctl[0] /\ MBX'[0] = content[0]
         /\ AllUntouched \/ \E n \in OutBufs : NewReply(n, to, more)
<1> USE BufferIndices DEF SendBuffersAre
<1> DEFINE n == ESC_claimbuffer
<1>1. MBXcontrol'[0] = ctl[0] /\ MBX'[0] = content[0]
  BY QueueReplyRequest
<1>2. CASE n = 0
  BY <1>1, <1>2 DEF QueueReply, AllUntouched, Untouched
<1>3. CASE n # 0
  <2>1. n \in OutBufs /\ MBXcontrol[n] = "idle"
    BY <1>3, ClaimedIsIdle
  <2> DEFINE reply == [id |-> mbxcnt + 1, to |-> to, more |-> more]
  <2>2. MBXcontrol' = [ctl EXCEPT ![n] = "outreq"] /\ MBX' = [content EXCEPT ![n] = reply]
    BY <1>3 DEF QueueReply
  <2> HIDE DEF n, reply
  <2>3. MBXcontrol'[n] = "outreq" /\ MBX'[n] = reply
    BY <2>1, <2>2
  <2>4. \A m \in OutBufs \ {n} : MBXcontrol'[m] = MBXcontrol[m] /\ MBX'[m] = MBX[m]
    BY <2>2
  <2>5. NewReply(n, to, more)
    BY <2>1, <2>3, <2>4 DEF NewReply, reply, Untouched
  <2> QED
    BY <1>1, <2>1, <2>5
<1> QED
  BY <1>1, <1>2, <1>3

\* What a new reply must be for the answers to stay in order: to an open request
\* whose last reply was not made yet, and which is over with its last.
LEMMA AnswersQueued ==
  ASSUME AnswerInv, OutAccounted, Numbered, NEW to, NEW more,
         AllUntouched \/ \E n \in OutBufs : NewReply(n, to, more),
         UNCHANGED <<lastReq, unsure, control, MBXrun, lastGot, open>>,
         mbxincnt' \in mbxincnt .. lastReq.id, to.id \in 0 .. mbxincnt',
         Proper(to) /\ control = "PREOP" => to \in open,
         Proper(to) => \A n \in OutBufs : Final(n) => MBX[n].to # to,
         Proper(to) /\ ~more => to \notin Requests',
         \A n \in OutBufs : Final(n) => MBX[n].to \notin Requests'
  PROVE  /\ \A n \in OutBufs : Due(n)' => MBX'[n].to.id \in 0 .. mbxincnt'
         /\ control = "PREOP" => \A n \in OutBufs : Due(n)' /\ Proper(MBX'[n].to) => MBX'[n].to \in open
         /\ \A n \in OutBufs : Final(n)' =>
              /\ MBX'[n].to \notin Requests'
              /\ \A m \in OutBufs : Due(m)' /\ MBX'[m].to = MBX'[n].to => MBX'[m].id <= MBX'[n].id
<1> USE DEF AnswerInv
<1>1. /\ mbxincnt \in Nat /\ lastReq.id \in Nat /\ mbxincnt' \in Nat /\ mbxincnt <= mbxincnt'
      /\ lastGot \in Nat /\ mbxcnt \in Nat /\ lastGot <= mbxcnt
  BY DEF RequestsNumbered, Numbered
<1>2. CASE AllUntouched
  <2>1. \A n \in OutBufs :
          (Due(n)' <=> Due(n)) /\ (Final(n)' <=> Final(n)) /\ (Due(n) => MBX'[n] = MBX[n])
    BY <1>2, UntouchedDue DEF AllUntouched
  <2>2. \A n \in OutBufs : Due(n)' => MBX'[n].to.id \in 0 .. mbxincnt'
    BY <1>1, <2>1 DEF RequestsNumbered
  <2> QED
    BY <2>1, <2>2 DEF OpenKept, AnsweredOnce, Final
<1>3. CASE \E n \in OutBufs : NewReply(n, to, more)
  <2>1. PICK k \in OutBufs : NewReply(k, to, more)
    BY <1>3
  <2>2. /\ MBX'[k].to = to /\ MBX'[k].more = more
        /\ MBX'[k].id \in Nat /\ mbxcnt < MBX'[k].id
    BY <1>1, <2>1 DEF NewReply
  <2>3. \A n \in OutBufs \ {k} :
          (Due(n)' <=> Due(n)) /\ (Final(n)' <=> Final(n)) /\ (Due(n) => MBX'[n] = MBX[n])
    BY <2>1, UntouchedDue DEF NewReply
  <2>4. \A n \in OutBufs \ {k} : Due(n)' => MBX'[n].id \in Nat /\ MBX'[n].id <= mbxcnt
    BY <2>3 DEF Due, Numbered
  <2>5. \A n \in OutBufs : Due(n)' => MBX'[n].to.id \in 0 .. mbxincnt'
    BY <1>1, <2>2, <2>3 DEF RequestsNumbered
  <2>6. control = "PREOP" => \A n \in OutBufs : Due(n)' /\ Proper(MBX'[n].to) => MBX'[n].to \in open
    BY <2>2, <2>3 DEF OpenKept
  <2>7. ASSUME NEW n \in OutBufs, Final(n)'
        PROVE  /\ MBX'[n].to \notin Requests'
               /\ \A m \in OutBufs : Due(m)' /\ MBX'[m].to = MBX'[n].to => MBX'[m].id <= MBX'[n].id
    <3>1. CASE n = k
      <4>1. Proper(to) /\ ~more
        BY <2>2, <2>7, <3>1 DEF Final, Proper
      <4>2. \A m \in OutBufs : Due(m)' => MBX'[m].id <= MBX'[k].id
        BY <1>1, <2>2, <2>4
      <4> QED
        BY <2>2, <3>1, <4>1, <4>2
    <3>2. CASE n # k
      <4>1. Final(n) /\ MBX'[n] = MBX[n]
        BY <2>3, <2>7, <3>2 DEF Final
      <4>2. Proper(MBX[n].to) /\ MBX[n].to # to
        BY <4>1 DEF Final
      <4> QED
        BY <2>2, <2>3, <4>1, <4>2 DEF AnsweredOnce
    <3> QED
      BY <3>1, <3>2
  <2> QED
    BY <2>5, <2>6, <2>7
<1> QED
  BY <1>2, <1>3

-----------------------------------------------------------------------------
(* The protocols.                                                          *)

sessionVars == <<sm0, lastReq, unsure, control, MBXrun, mbxincnt, lastGot, open>>

\* A protocol answers a request that is at work, and keeps it at work only if more
\* is to follow.
LEMMA AnswersGiven ==
  ASSUME AnswerInv, OutAccounted, Numbered, UNCHANGED sessionVars, NEW to, NEW more,
         AllUntouched \/ (/\ \E n \in OutBufs : NewReply(n, to, more)
                         /\ to \in Requests /\ (Proper(to) /\ ~more => to \notin Requests')),
         MBX'[0] = MBX[0], AtWork' => AtWork,
         held' = held \/ held' = NoMsg \/ (AtWork /\ ~AtWork' /\ held' = MBX[0])
  PROVE  AnswerInv'
<1> USE DEF AnswerInv, sessionVars
<1>1. Requests' \subseteq Requests
  BY DEF Requests, AtWork
<1>2. /\ \A q \in Requests' : q.id \in 0 .. mbxincnt'
      /\ control = "PREOP" => \A q \in Requests' : Proper(q) => q \in open
      /\ \A n \in OutBufs : Final(n) => MBX[n].to \notin Requests'
  BY <1>1 DEF RequestsNumbered, OpenKept, AnsweredOnce
<1>3. AtWork' /\ held' # NoMsg => MBX'[0] # held'
  BY DEF AnsweredOnce
<1>4. /\ \A n \in OutBufs : Due(n)' => MBX'[n].to.id \in 0 .. mbxincnt'
      /\ control = "PREOP" => \A n \in OutBufs : Due(n)' /\ Proper(MBX'[n].to) => MBX'[n].to \in open
      /\ \A n \in OutBufs : Final(n)' =>
           /\ MBX'[n].to \notin Requests'
           /\ \A m \in OutBufs : Due(m)' /\ MBX'[m].to = MBX'[n].to => MBX'[m].id <= MBX'[n].id
  <2>1. CASE AllUntouched
    <3>1. \A n \in OutBufs :
          (Due(n)' <=> Due(n)) /\ (Final(n)' <=> Final(n)) /\ (Due(n) => MBX'[n] = MBX[n])
      BY <2>1, UntouchedDue DEF AllUntouched
    <3> QED
      BY <1>2, <3>1 DEF RequestsNumbered, OpenKept, AnsweredOnce, Final
  <2>2. CASE /\ \E n \in OutBufs : NewReply(n, to, more)
             /\ to \in Requests /\ (Proper(to) /\ ~more => to \notin Requests')
    <3>1. mbxincnt' \in mbxincnt .. lastReq.id /\ to.id \in 0 .. mbxincnt'
      BY <2>2 DEF RequestsNumbered
    <3>2. /\ Proper(to) /\ control = "PREOP" => to \in open
          /\ \A n \in OutBufs : Final(n) => MBX[n].to # to
      BY <2>2 DEF OpenKept, AnsweredOnce
    <3> QED
      BY <1>2, <2>2, <3>1, <3>2, AnswersQueued
  <2> QED
    BY <2>1, <2>2
<1>5. RequestsNumbered'
  BY <1>2, <1>4 DEF RequestsNumbered
<1>6. OpenKept'
  BY <1>2, <1>4 DEF OpenKept, Proper
<1>7. AnsweredOnce'
  BY <1>3, <1>4 DEF AnsweredOnce
<1> QED
  BY <1>5, <1>6, <1>7

LEMMA AnswersAndReleases ==
  ASSUME AnswerInv, OutAccounted, Numbered, UNCHANGED sessionVars, NEW more,
         AtWork, QueueReply(Released, MBX, MBX[0], more), held' = held
  PROVE  AnswerInv'
<1>1. SendBuffersAre(Released, MBX) /\ Released[0] = "idle"
  BY ReleasedBuffers DEF SendBuffersAre, OutAccounted
<1> DEFINE ctl == Released
<1> DEFINE to == MBX[0]
<1>2. QueueReply(ctl, MBX, to, more) /\ SendBuffersAre(ctl, MBX) /\ ctl[0] = "idle"
  BY <1>1
<1> HIDE DEF ctl
<1>3. /\ MBXcontrol'[0] = "idle" /\ MBX'[0] = MBX[0]
      /\ AllUntouched \/ \E n \in OutBufs : NewReply(n, to, more)
  BY <1>2, QueueReplyIs
<1>4. ~AtWork'
  BY <1>3 DEF AtWork
<1>5. to \in Requests /\ to \notin Requests'
  BY <1>3, <1>4 DEF Requests, AnswerInv, AnsweredOnce
<1> QED
  BY <1>3, <1>4, <1>5, AnswersGiven

LEMMA AnswersAndKeeps ==
  ASSUME AnswerInv, OutAccounted, Numbered, UNCHANGED sessionVars, NEW more, NEW ctl,
         AtWork, ctl[0] = MBXcontrol[0], SendBuffersAre(ctl, MBX),
         QueueReply(ctl, MBX, MBX[0], more), held' = held, more \/ ~Proper(MBX[0])
  PROVE  AnswerInv'
<1> DEFINE to == MBX[0]
<1>1. /\ MBXcontrol'[0] = MBXcontrol[0] /\ MBX'[0] = MBX[0]
      /\ AllUntouched \/ \E n \in OutBufs : NewReply(n, to, more)
  BY QueueReplyIs
<1>2. AtWork' = AtWork
  BY <1>1 DEF AtWork
<1>3. to \in Requests
  BY DEF Requests
<1> QED
  BY <1>1, <1>2, <1>3, AnswersGiven

LEMMA KeptAnswers ==
  ASSUME AnswerInv, OutAccounted, Numbered, UNCHANGED sessionVars, Kept, held' = held
  PROVE  AnswerInv'
BY AnswersAside DEF Kept, sessionVars

LEMMA HoldDownloadAnswers ==
  ASSUME AnswerInv, OutAccounted, Numbered, UNCHANGED sessionVars, AtWork, HoldDownload
  PROVE  AnswerInv'
<1>1. MBXcontrol' = Released /\ MBX' = MBX /\ mbxcnt' = mbxcnt /\ held' = MBX[0]
  BY DEF HoldDownload
<1>2. MBXcontrol'[0] = "idle" /\ AllUntouched
  BY <1>1, ReleasedBuffers DEF AllUntouched, Untouched, OutAccounted
<1>3. ~AtWork'
  BY <1>2 DEF AtWork
<1> QED
  BY <1>1, <1>2, <1>3, AnswersGiven

LEMMA ListAnswers ==
  ASSUME AnswerInv, OutAccounted, Numbered, UNCHANGED sessionVars, AtWork,
         SDO_getodlist \/ SDO_getodlistcont
  PROVE  AnswerInv'
<1>1. held' = held
  BY DEF SDO_getodlist, SDO_getodlistcont
<1>2. CASE Kept
  BY <1>1, <1>2, KeptAnswers
<1>3. CASE SDO_getodlist /\ ~Kept
  <2>1. CASE ListFrags > 1
    <3> DEFINE ctl == [MBXcontrol EXCEPT ![0] = "inclaim"]
    <3> DEFINE more == TRUE
    <3>1. QueueReply(ctl, MBX, MBX[0], more)
      BY <1>3, <2>1 DEF SDO_getodlist
    <3>2. SendBuffersAre(ctl, MBX) /\ ctl[0] = MBXcontrol[0] /\ more
      BY BufferIndices DEF OutAccounted, SendBuffersAre, AtWork
    <3> HIDE DEF ctl, more
    <3> QED
      BY <1>1, <3>1, <3>2, AnswersAndKeeps
  <2>2. CASE ~(ListFrags > 1)
    <3> DEFINE more == ListFrags > 1
    <3>1. QueueReply(Released, MBX, MBX[0], more)
      BY <1>3, <2>2 DEF SDO_getodlist
    <3> HIDE DEF more
    <3> QED
      BY <1>1, <3>1, AnswersAndReleases
  <2> QED
    BY <2>1, <2>2
<1>4. CASE SDO_getodlistcont /\ ~Kept
  <2> DEFINE more == MoreFrags
  <2>1. CASE MoreFrags
    <3>1. QueueReply(MBXcontrol, MBX, MBX[0], more) /\ more
      BY <1>4, <2>1 DEF SDO_getodlistcont
    <3>2. SendBuffersAre(MBXcontrol, MBX)
      BY DEF OutAccounted, SendBuffersAre
    <3> HIDE DEF more
    <3> QED
      BY <1>1, <3>1, <3>2, AnswersAndKeeps
  <2>2. CASE ~MoreFrags
    <3>1. QueueReply(Released, MBX, MBX[0], more)
      BY <1>4, <2>2 DEF SDO_getodlistcont
    <3> HIDE DEF more
    <3> QED
      BY <1>1, <3>1, AnswersAndReleases
  <2> QED
    BY <2>1, <2>2
<1> QED
  BY <1>2, <1>3, <1>4

LEMMA DispatchAnswers ==
  ASSUME AnswerInv, OutAccounted, RequestKept, Numbered, UNCHANGED <<sessionVars, posts>>,
         AtHand, Dispatch
  PROVE  AnswerInv'
<1>1. /\ AtWork
      /\ MBX[0].kind \in {"service", "hold", "refused", "other", "info", "list", "unmatched"}
  BY MailboxConstantsAssumption DEF AtHand, Arrived, RequestKept, AtWork
<1> DEFINE more == FALSE
<1>2. CASE Answer \/ (InfoAnswer /\ ~Kept)
  <2>1. QueueReply(Released, MBX, MBX[0], more) /\ held' = held
    BY <1>2 DEF Answer, InfoAnswer
  <2> HIDE DEF more
  <2> QED
    BY <1>1, <2>1, AnswersAndReleases
<1>3. CASE HoldDownload
  BY <1>1, <1>3, HoldDownloadAnswers
<1>4. CASE SDO_getodlist
  BY <1>1, <1>4, ListAnswers
<1>5. CASE Kept /\ held' = held
  BY <1>5, KeptAnswers
<1>8. CASE RefuseSegment /\ MBX[0].kind = "refused"
  <2> DEFINE to == MBX[0]
  <2>1. /\ MBX'[0] = MBX[0] /\ MBXcontrol'[0] = "idle" /\ held' = held
        /\ AllUntouched \/ \E n \in OutBufs : NewReply(n, to, more)
    BY <1>1, <1>8, RefuseSegmentAccounted DEF RefuseSegment, AtWork
  <2> HIDE DEF more
  <2>2. ~AtWork'
    BY <2>1 DEF AtWork
  <2>3. to \in Requests /\ to \notin Requests'
    BY <1>1, <2>1, <2>2 DEF Requests, AnswerInv, AnsweredOnce
  <2> QED
    BY <2>1, <2>2, <2>3, AnswersGiven
<1>6. \/ Answer \/ HoldDownload \/ InfoAnswer \/ SDO_getodlist \/ (Kept /\ held' = held)
      \/ RefuseSegment /\ MBX[0].kind = "refused"
  BY <1>1 DEF Dispatch
<1>7. InfoAnswer => held' = held
  BY DEF InfoAnswer
<1> QED
  BY <1>2, <1>3, <1>4, <1>5, <1>6, <1>7, <1>8

LEMMA ProtocolAnswers ==
  ASSUME AnswerInv, IInv, OrderInv, CoeStep \/ XoeStep \/ HeldDone
  PROVE  AnswerInv'
<1> USE DEF IInv, OrderInv
<1> DEFINE more == FALSE
<1>1. UNCHANGED <<sessionVars, posts>>
  BY DEF CoeStep, XoeStep, HeldDone, sessionVars, posts
<1>2. SendBuffersAre(MBXcontrol, MBX)
  BY DEF OutAccounted, SendBuffersAre
<1>3. CASE CoeStep
  <2>1. CASE xoe = "ODL" /\ SDO_getodlistcont
    BY <1>1, <2>1, ListAnswers DEF RequestKept, AtWork
  <2>2. CASE AtHand /\ Dispatch
    BY <1>1, <2>2, DispatchAnswers
  <2>3. CASE /\ MBXcontrol[0] = "inclaim" /\ MBX[0].kind = "short"
             /\ QueueReply(MBXcontrol, MBX, MBX[0], FALSE) /\ UNCHANGED coeVars
    <3>1. QueueReply(MBXcontrol, MBX, MBX[0], more) /\ AtWork /\ ~Proper(MBX[0]) /\ held' = held
      BY <2>3 DEF AtWork, Proper
    <3> HIDE DEF more
    <3> QED
      BY <1>1, <1>2, <3>1, AnswersAndKeeps
  <2>4. CASE Kept /\ UNCHANGED coeVars
    BY <1>1, <2>4, KeptAnswers
  <2> QED
    BY <1>3, <2>1, <2>2, <2>3, <2>4 DEF CoeStep, ESC_coeprocess
<1>4. CASE XoeStep
  <2>1. held' = held
    BY <1>4 DEF XoeStep
  <2>2. CASE MBXcontrol[0] = "inclaim" /\ QueueReply(Released, MBX, MBX[0], FALSE)
    <3>1. QueueReply(Released, MBX, MBX[0], more) /\ AtWork
      BY <2>2 DEF AtWork
    <3> HIDE DEF more
    <3> QED
      BY <1>1, <2>1, <3>1, AnswersAndReleases
  <2>3. CASE Kept
    BY <1>1, <2>1, <2>3, KeptAnswers
  <2> QED
    BY <1>4, <2>2, <2>3 DEF XoeStep, ESC_xoeprocess
<1>5. CASE HeldDone
  <2> DEFINE to == held
  <2>1. QueueReply(MBXcontrol, MBX, to, more) /\ held # NoMsg /\ held' = NoMsg
    BY <1>5 DEF HeldDone, ESC_SDO_complete
  <2> HIDE DEF more
  <2>2. /\ MBXcontrol'[0] = MBXcontrol[0] /\ MBX'[0] = MBX[0]
        /\ AllUntouched \/ \E n \in OutBufs : NewReply(n, to, more)
    BY <1>2, <2>1, QueueReplyIs
  <2>3. AtWork' = AtWork
    BY <2>2 DEF AtWork
  <2>4. to \in Requests /\ to \notin Requests'
    BY <2>1, <2>2, <2>3 DEF Requests, AnswerInv, AnsweredOnce
  <2> QED
    BY <1>1, <2>1, <2>2, <2>3, <2>4, AnswersGiven
<1> QED
  BY <1>3, <1>4, <1>5

-----------------------------------------------------------------------------
(* The link layer, the state machine and the master.                       *)

\* A request is read: a new one has a number above all that were answered.
LEMMA ReadmbxAnswers ==
  ASSUME AnswerInv, OutAccounted, Numbered, ESC_readmbx, sm0 # NoMsg,
         UNCHANGED <<MBXrun, coeVars, masterVars>>
  PROVE  AnswerInv'
<1> USE DEF AnswerInv
<1> DEFINE content == [MBX EXCEPT ![0] = sm0]
<1> DEFINE more == FALSE
<1> DEFINE to == sm0
<1>1. /\ sm0 = lastReq /\ sm0' = NoMsg /\ mbxincnt' = sm0.id /\ ~AtWork
      /\ sm0.id \in Nat /\ mbxincnt \in Nat /\ mbxincnt <= sm0.id
  BY DEF ESC_readmbx, MayRead, AtWork, RequestsNumbered
<1>2. /\ DOMAIN content = 0 .. OutBuffers /\ content[0] = sm0
      /\ \A n \in OutBufs : content[n] = MBX[n]
  BY BufferIndices DEF OutAccounted
<1>3. Requests' \subseteq Requests \cup {sm0} /\ (~AtWork' => Requests' = Requests)
  <2>1. AtWork' => MBX'[0] = sm0
    <3>1. CASE sm0.kind = "badheader"
      <4>1. QueueReply(Released, content, sm0, more)
        BY <3>1 DEF ESC_readmbx
      <4> HIDE DEF content, more
      <4> QED
        BY <1>2, <4>1, ReleasedBuffers, QueueReplyRequest DEF OutAccounted
    <3>2. CASE sm0.kind # "badheader"
      BY <1>2, <3>2 DEF ESC_readmbx
    <3> QED
      BY <3>1, <3>2
  <2> QED
    BY <1>1, <2>1 DEF Requests
<1>4. \A n \in OutBufs : Due(n) => MBX[n].to.id \in 0 .. mbxincnt'
  BY <1>1 DEF RequestsNumbered
<1>5. \A q \in Requests' : q.id \in 0 .. mbxincnt'
  BY <1>1, <1>3 DEF RequestsNumbered
<1>6. RequestsNumbered' /\ OpenKept' /\ \A n \in OutBufs : Final(n)' =>
               /\ MBX'[n].to \notin Requests'
               /\ \A m \in OutBufs : Due(m)' /\ MBX'[m].to = MBX'[n].to => MBX'[m].id <= MBX'[n].id
  <2>1. CASE sm0.kind = "badheader"
    <3>1. QueueReply(Released, content, to, more)
      BY <2>1 DEF ESC_readmbx
    <3> HIDE DEF content, more
    <3>2. SendBuffersAre(Released, content)
      BY <1>2, ReleasedBuffers DEF SendBuffersAre, OutAccounted
    <3> DEFINE ctl == Released
    <3>3. QueueReply(ctl, content, to, more) /\ SendBuffersAre(ctl, content) /\ ctl[0] = "idle"
      BY <3>1, <3>2, ReleasedBuffers DEF OutAccounted
    <3> HIDE DEF ctl
    <3>4. MBXcontrol'[0] = "idle" /\ (AllUntouched \/ \E n \in OutBufs : NewReply(n, to, more))
      BY <3>3, QueueReplyIs
    <3>5. ~AtWork' /\ ~Proper(to)
      BY <2>1, <3>4 DEF AtWork, Proper
    <3>6. \A n \in OutBufs : Final(n) => MBX[n].to \notin Requests'
      BY <1>3, <3>5 DEF AnsweredOnce
    <3>7. mbxincnt' \in mbxincnt .. lastReq.id /\ to.id \in 0 .. mbxincnt'
      BY <1>1
    <3>8. /\ \A n \in OutBufs : Due(n)' => MBX'[n].to.id \in 0 .. mbxincnt'
          /\ control = "PREOP" => \A n \in OutBufs : Due(n)' /\ Proper(MBX'[n].to) => MBX'[n].to \in open
          /\ \A n \in OutBufs : Final(n)' =>
               /\ MBX'[n].to \notin Requests'
               /\ \A m \in OutBufs : Due(m)' /\ MBX'[m].to = MBX'[n].to => MBX'[m].id <= MBX'[n].id
      BY <3>4, <3>5, <3>6, <3>7, AnswersQueued
    <3>9. RequestsNumbered'
      BY <1>1, <1>5, <3>8 DEF RequestsNumbered
    <3>10. OpenKept'
      BY <1>1, <1>3, <3>5, <3>8 DEF OpenKept, Proper
    <3> QED
      BY <3>8, <3>9, <3>10
  <2>2. CASE sm0.kind # "badheader"
    <3>1. /\ MBX' = content /\ mbxcnt' = mbxcnt
          /\ MBXcontrol' = [MBXcontrol EXCEPT ![0] = IF Repeated THEN "idle" ELSE "inclaim"]
      BY <2>2 DEF ESC_readmbx
    <3>2. AllUntouched /\ MBXcontrol'[0] = IF Repeated THEN "idle" ELSE "inclaim"
      BY <1>2, <3>1, BufferIndices DEF AllUntouched, Untouched, OutAccounted
    <3>3. \A n \in OutBufs :
          (Due(n)' <=> Due(n)) /\ (Final(n)' <=> Final(n)) /\ (Due(n) => MBX'[n] = MBX[n])
      BY <3>2, UntouchedDue DEF AllUntouched
    <3>4. AtWork' => sm0.id # mbxincnt
      BY <3>2 DEF AtWork, Repeated
    <3>5. RequestsNumbered'
      BY <1>1, <1>4, <1>5, <3>3 DEF RequestsNumbered
    <3>6. OpenKept'
      BY <1>1, <1>3, <3>3, <3>4 DEF OpenKept, Proper
    <3>7. ASSUME NEW n \in OutBufs, Final(n) PROVE MBX[n].to \notin Requests'
      <4>1. MBX[n].to \notin Requests
        BY <3>7 DEF AnsweredOnce
      <4>2. AtWork' => MBX[n].to # sm0
        BY <1>1, <3>4, <3>7 DEF RequestsNumbered, Final
      <4> QED
        BY <1>3, <4>1, <4>2
    <3> QED
      BY <3>3, <3>5, <3>6, <3>7 DEF AnsweredOnce, Final
  <2> QED
    BY <2>1, <2>2
<1>7. AtWork' /\ held' # NoMsg => MBX'[0] # held'
  <2>1. ASSUME AtWork', held # NoMsg PROVE MBX'[0] # held
    <3>1. sm0.kind # "badheader"
      <4>1. SUFFICES ASSUME sm0.kind = "badheader" PROVE FALSE
        OBVIOUS
      <4>2. QueueReply(Released, content, to, more)
        BY <4>1 DEF ESC_readmbx
      <4> HIDE DEF content, more
      <4> QED
        BY <1>2, <2>1, <4>2, ReleasedBuffers, QueueReplyRequest DEF OutAccounted, AtWork
    <3>2. sm0.id # mbxincnt /\ MBX'[0] = sm0
      BY <1>2, <2>1, <3>1, BufferIndices DEF ESC_readmbx, AtWork, Repeated, OutAccounted
    <3>3. held.id <= mbxincnt
      BY <2>1 DEF Requests, RequestsNumbered
    <3> QED
      BY <1>1, <3>2, <3>3
  <2> QED
    BY <2>1
<1> QED
  BY <1>6, <1>7 DEF AnsweredOnce

LEMMA MbxStepAnswers ==
  ASSUME IInv, OrderInv, AnswerInv, MbxStep
  PROVE  AnswerInv'
<1> USE DEF IInv, OrderInv
<1>1. UNCHANGED <<MBXrun, held, fragsleft, control, lastReq, unsure, open, lastGot>> /\ pc = "mbx"
  BY DEF MbxStep
<1>2. CASE OutboxRead
  <2>1. /\ UNCHANGED <<sm0, mbxincnt, MBX>> /\ mbxoutpost \in OutBufs
        /\ MBXcontrol' = [n \in 0 .. OutBuffers |-> AfterRead(n)]
    BY <1>2, BufferIndices DEF OutboxRead, OutAccounted
  <2>2. \A n \in OutBufs : Holds(n)' => Holds(n)
    BY <2>1, BufferIndices DEF AfterRead, OutAccounted, Holds
  <2>3. MBXcontrol'[0] = MBXcontrol[0]
    BY <2>1, BufferIndices DEF AfterRead
  <2> QED
    BY <1>1, <2>1, <2>2, <2>3, AnswersPosted
<1>3. CASE ESC_readmbx /\ MBXrun
  <2>1. sm0 # NoMsg
    BY <1>1, <1>3, FullIsWritten DEF ESC_readmbx, MayRead
  <2> QED
    BY <1>3, <2>1, ReadmbxAnswers DEF MbxStep
<1>4. CASE RepeatRequest
  <2>1. /\ UNCHANGED <<sm0, mbxincnt, MBX>>
        /\ \/ MBXcontrol' = MBXcontrol
           \/ mbxoutpost # 0 /\ MBXcontrol' = [MBXcontrol EXCEPT ![mbxoutpost] = "again"]
    BY <1>4 DEF RepeatRequest
  <2>2. /\ MBXcontrol'[0] = MBXcontrol[0]
        /\ \A n \in OutBufs : Holds(n)' => Holds(n)
    BY <2>1, BufferIndices DEF OutAccounted, Holds
  <2> QED
    BY <1>1, <2>1, <2>2, AnswersPosted
<1>5. CASE Post
  <2> DEFINE k == ESC_outreqbuffer
  <2>1. /\ UNCHANGED <<sm0, mbxincnt, MBX>> /\ k \in OutBufs /\ MBXcontrol[k] = "outreq"
        /\ MBXcontrol' = [MBXcontrol EXCEPT ![k] = "outpost"]
    BY <1>5, PostedIsAsked DEF Post, MayPost
  <2> HIDE DEF k
  <2>2. /\ MBXcontrol'[0] = MBXcontrol[0]
        /\ \A n \in OutBufs : Holds(n)' => Holds(n)
    BY <2>1, BufferIndices DEF OutAccounted, Holds
  <2> QED
    BY <1>1, <2>1, <2>2, AnswersPosted
<1>6. CASE LinkQuiet \/ UNCHANGED linkVars
  <2>1. UNCHANGED <<sm0, mbxincnt, MBX, MBXcontrol>>
    BY <1>6 DEF LinkQuiet
  <2> QED
    BY <1>1, <2>1, AnswersAside
<1> QED
  BY <1>2, <1>3, <1>4, <1>5, <1>6 DEF MbxStep

LEMMA StateStepAnswers ==
  ASSUME IInv, OrderInv, AnswerInv, StateStep
  PROVE  AnswerInv'
<1> USE DEF IInv, OrderInv
<1>1. UNCHANGED <<control, lastReq, unsure, open>>
  BY DEF StateStep
<1>2. CASE StopMailbox
  <2>1. /\ MBXcontrol' = [n \in 0 .. OutBuffers |-> "idle"] /\ sm0' = NoMsg /\ mbxincnt' = 0
        /\ held' = NoMsg /\ control = "INIT"
    BY <1>2 DEF StopMailbox, ESC_stopmbx
  <2>2. ~AtWork' /\ Requests' = {} /\ \A n \in OutBufs : ~Due(n)'
    BY <2>1, BufferIndices DEF AtWork, Requests, Due, Holds
  <2>3. RequestsNumbered'
    BY <1>1, <2>1, <2>2 DEF AnswerInv, RequestsNumbered
  <2>4. OpenKept' /\ AnsweredOnce'
    BY <1>1, <2>1, <2>2 DEF OpenKept, AnsweredOnce, Final
  <2> QED
    BY <2>3, <2>4 DEF AnswerInv
<1>3. CASE StartMailbox
  <2>1. /\ UNCHANGED <<sm0, mbxincnt, MBX, MBXcontrol, held, lastGot>>
        /\ MBXrun' = TRUE /\ ~MBXrun
    BY <1>3 DEF StartMailbox, ESC_startmbx
  <2>2. /\ Requests' = Requests /\ AtWork' = AtWork
        /\ \A n \in OutBufs : Due(n)' = Due(n) /\ Final(n)' = Final(n)
    BY <2>1 DEF AtWork, Requests, Due, Holds, Final, Proper
  <2>3. RequestsNumbered' /\ OpenKept' /\ AnsweredOnce'
    BY <1>1, <2>1, <2>2 DEF AnswerInv, RequestsNumbered, OpenKept, AnsweredOnce, Proper
  <2> QED
    BY <2>3 DEF AnswerInv
<1>4. CASE UNCHANGED <<sm0, mbxincnt, MBX, MBXcontrol, held, lastGot, MBXrun>>
  BY <1>1, <1>4, AnswersAside
<1> QED
  BY <1>2, <1>3, <1>4 DEF StateStep

LEMMA CaptureAnswers ==
  ASSUME OrderInv, AnswerInv, Poll \/ SyncPass \/ SyncEdge \/ SmActStep
  PROVE  AnswerInv'
<1>1. UNCHANGED <<sm0, mbxincnt, MBX, MBXcontrol, held, MBXrun, control, lastReq, unsure, open, lastGot>>
  BY DEF Poll, SyncPass, SyncEdge, SmActStep
<1> QED
  BY <1>1, AnswersAside DEF OrderInv

\* What the master takes was due, and is for a request still open; if it was the last
\* reply to it, none is due any more.
LEMMA ReadReplyAnswers ==
  ASSUME OutAccounted, OrderInv, AnswerInv, ReadReply
  PROVE  /\ AnswerInv'
         /\ lastGot' # lastGot => sm1.to \in open \/ ~Proper(sm1.to)
<1> USE BufferIndices DEF OrderInv
<1>1. /\ UNCHANGED <<MBXcontrol, MBX, sm0, lastReq, mbxincnt, unsure, control, MBXrun, held>>
      /\ sm1 # NoMsg /\ ~askRepeat /\ ecrep = pdirep /\ control = "PREOP"
  BY DEF ReadReply, MayTake, MasterUses
<1>2. CASE UNCHANGED <<lastGot, open>>
  BY <1>1, <1>2, AnswersAside
<1>3. CASE /\ IsReply(sm1) /\ sm1.id # lastGot /\ lastGot' = sm1.id
           /\ open' = IF sm1.more THEN open ELSE open \ {sm1.to}
  <2>1. PICK k \in OutBufs : sm1 = MBX[k] /\ Holds(k)
    BY <1>1, <1>3 DEF PostOrdered, OutAccounted, Holds
  <2>2. lastGot' = MBX[k].id /\ MBX[k].id \in Nat /\ lastGot \in Nat /\ lastGot' >= lastGot
    BY <1>3, <2>1, ReadReplyOrdered DEF Numbered
  <2>3. Due(k) /\ \A n \in OutBufs : Due(n)' => Due(n) /\ MBX[k].id < MBX[n].id
    <3>1. Due(k)
      BY <1>3, <2>1, <2>2 DEF Due
    <3>2. /\ Requests' = Requests /\ \A n \in OutBufs : Due(n)' => Due(n)
          /\ RequestsNumbered' /\ AnsweredOnce'
      BY <1>1, <2>2, FewerDue DEF Holds
    <3>3. \A n \in OutBufs : Due(n)' => MBX[k].id < MBX[n].id
      BY <1>1, <2>2 DEF Due
    <3> QED
      BY <3>1, <3>2, <3>3
  <2>4. Requests' = Requests /\ RequestsNumbered' /\ AnsweredOnce'
    BY <1>1, <2>2, FewerDue DEF Holds
  <2>5. sm1.to \in open \/ ~Proper(sm1.to)
    BY <1>1, <2>1, <2>3 DEF AnswerInv, OpenKept
  <2>6. ASSUME ~sm1.more, Proper(sm1.to)
        PROVE  /\ sm1.to \notin Requests
               /\ \A n \in OutBufs : Due(n)' => MBX[n].to # sm1.to
    <3>1. Final(k)
      BY <2>1, <2>3, <2>6 DEF Final
    <3>2. MBX[k].to \notin Requests
      BY <3>1 DEF AnswerInv, AnsweredOnce
    <3>3. ASSUME NEW n \in OutBufs, Due(n)' PROVE MBX[n].to # MBX[k].to
      <4>1. Due(n) /\ MBX[k].id < MBX[n].id /\ MBX[n].id \in Nat
        BY <2>3, <3>3 DEF Due, Numbered
      <4>2. MBX[n].to = MBX[k].to => MBX[n].id <= MBX[k].id
        BY <3>1, <4>1 DEF AnswerInv, AnsweredOnce
      <4> QED
        BY <2>2, <4>1, <4>2
    <3> QED
      BY <2>1, <3>2, <3>3
  <2>7. sm0 # NoMsg /\ sm0.id # mbxincnt => sm0 # sm1.to
    <3>1. /\ MBX[k].to.id \in 0 .. mbxincnt /\ mbxincnt \in 0 .. lastReq.id
          /\ sm0 \in {NoMsg, lastReq} /\ lastReq.id \in Nat
      BY <2>3 DEF AnswerInv, RequestsNumbered
    <3>2. ASSUME sm0 = lastReq, sm0.id # mbxincnt PROVE sm0 # MBX[k].to
      <4>1. mbxincnt < sm0.id
        BY <3>1, <3>2
      <4> QED
        BY <3>1, <4>1
    <3> QED
      BY <2>1, <3>1, <3>2
  <2>8. OpenKept'
    <3>1. \A q \in open : q # sm1.to \/ sm1.more => q \in open'
      BY <1>3
    <3>2. sm0' # NoMsg /\ sm0'.id # mbxincnt' => sm0' \in open'
      BY <1>1, <2>7, <3>1 DEF AnswerInv, OpenKept
    <3>3. ASSUME NEW q \in Requests, Proper(q) PROVE q \in open'
      <4>1. q \in open
        BY <1>1, <3>3 DEF AnswerInv, OpenKept
      <4> QED
        BY <2>6, <3>1, <3>3, <4>1
    <3>4. ASSUME NEW n \in OutBufs, Due(n)', Proper(MBX[n].to) PROVE MBX[n].to \in open'
      <4>1. MBX[n].to \in open
        BY <1>1, <2>3, <3>4 DEF AnswerInv, OpenKept
      <4> QED
        BY <2>6, <3>1, <3>4, <4>1
    <3> QED
      BY <1>1, <2>4, <3>2, <3>3, <3>4 DEF OpenKept, Proper
  <2> QED
    BY <2>4, <2>5, <2>8 DEF AnswerInv
<1> QED
  BY <1>2, <1>3 DEF ReadReply

LEMMA MasterAnswers ==
  ASSUME IInv, OrderInv, AnswerInv, Master, ~ReadReply
  PROVE  AnswerInv' /\ lastGot' = lastGot
<1> USE DEF IInv, OrderInv
<1>1. UNCHANGED <<MBX, MBXcontrol, held, MBXrun, mbxincnt, lastGot>>
  BY DEF Master, AskPreop, AskInit, WriteRequest, ResendRequest, LoseReply, AskRepeat
<1>2. /\ Requests' = Requests /\ AtWork' = AtWork
      /\ \A n \in OutBufs : Due(n)' = Due(n) /\ Final(n)' = Final(n)
  BY <1>1 DEF AtWork, Requests, Due, Holds, Final, Proper
<1>3. AnsweredOnce'
  BY <1>1, <1>2 DEF AnswerInv, AnsweredOnce
<1>4. CASE LoseReply \/ AskRepeat
  <2>1. UNCHANGED <<sm0, lastReq, unsure, control, open>>
    BY <1>4 DEF LoseReply, AskRepeat
  <2> QED
    BY <1>1, <2>1, AnswersAside
<1>5. CASE AskPreop
  <2>1. UNCHANGED <<sm0, lastReq, unsure, open>> /\ control' = "PREOP" /\ control = "INIT" /\ ~MBXrun
    BY <1>5 DEF AskPreop
  <2>2. Requests = {} /\ \A n \in OutBufs : ~Due(n)
    BY <2>1 DEF Stopped, Requests, AtWork, Due, Holds
  <2>3. RequestsNumbered' /\ OpenKept'
    BY <1>1, <1>2, <2>1, <2>2 DEF AnswerInv, RequestsNumbered, OpenKept
  <2> QED
    BY <1>1, <1>3, <2>3 DEF AnswerInv
<1>6. CASE AskInit
  <2>1. UNCHANGED <<sm0, lastReq>> /\ control' = "INIT" /\ unsure' = FALSE
    BY <1>6 DEF AskInit
  <2>2. RequestsNumbered' /\ OpenKept'
    BY <1>1, <1>2, <2>1 DEF AnswerInv, RequestsNumbered, OpenKept
  <2> QED
    BY <1>1, <1>3, <2>2 DEF AnswerInv
<1>7. CASE WriteRequest
  <2>1. /\ UNCHANGED control /\ sm0' = lastReq' /\ open' = open \cup {lastReq'} /\ ~unsure
        /\ lastReq'.id = lastReq.id + 1 /\ MBXrun /\ control = "PREOP" /\ unsure' \in BOOLEAN
    BY <1>7 DEF WriteRequest, MasterUses
  <2>2. mbxincnt \in 0 .. lastReq'.id /\ lastReq'.id \in Nat
    BY <2>1 DEF AnswerInv, RequestsNumbered
  <2>3. RequestsNumbered' /\ OpenKept'
    BY <1>1, <1>2, <2>1, <2>2 DEF AnswerInv, RequestsNumbered, OpenKept, Proper
  <2> QED
    BY <1>1, <1>3, <2>3 DEF AnswerInv
<1>8. CASE ResendRequest
  <2>1. /\ UNCHANGED <<lastReq, control, open>> /\ sm0' = lastReq /\ sm0 = NoMsg
        /\ unsure /\ unsure' = FALSE /\ MBXrun
    BY <1>8 DEF ResendRequest, MasterUses
  <2>2. mbxincnt = lastReq.id
    BY <2>1 DEF RequestWritten, AnswerInv, RequestsNumbered
  <2>3. RequestsNumbered' /\ OpenKept'
    BY <1>1, <1>2, <2>1, <2>2 DEF AnswerInv, RequestsNumbered, OpenKept
  <2> QED
    BY <1>1, <1>3, <2>3 DEF AnswerInv
<1> QED
  BY <1>1, <1>4, <1>5, <1>6, <1>7, <1>8 DEF Master

LEMMA AnswerStep ==
  ASSUME OutBuffers <= 2, IInv, OrderInv, AnswerInv, [Next]_vars
  PROVE  /\ AnswerInv'
         /\ lastGot' # lastGot /\ MBXrun' => sm1.to \in open \/ ~Proper(sm1.to)
<1>1. CASE Poll \/ SyncPass \/ SyncEdge \/ SmActStep
  BY <1>1, CaptureAnswers, CaptureOrdered
<1>2. CASE StateStep
  <2>1. lastGot' = lastGot \/ ~MBXrun'
    BY <1>2 DEF StateStep, StopMailbox, StartMailbox, ESC_stopmbx
  <2> QED
    BY <1>2, <2>1, StateStepAnswers
<1>3. CASE MbxStep
  <2>1. lastGot' = lastGot
    BY <1>3 DEF MbxStep
  <2> QED
    BY <1>3, <2>1, MbxStepAnswers
<1>4. CASE CoeStep \/ XoeStep \/ HeldDone
  BY <1>4, ProtocolAnswers, ProtocolsOrdered
<1>5. CASE ReadReply
  BY <1>5, ReadReplyAnswers DEF IInv
<1>6. CASE Master /\ ~ReadReply
  BY <1>6, MasterAnswers
<1>7. CASE UNCHANGED vars
  BY <1>7, AnswersAside DEF vars, OrderInv
<1> QED
  BY <1>1, <1>2, <1>3, <1>4, <1>5, <1>6, <1>7 DEF Next, Pass

\* What the master takes is the answer to a request of this session it still waits
\* on, served once however often it was written, or to a malformed one
\* (ESC_readmbx, mbxincnt; ESC_SDO_complete): with two send buffers, as above.
THEOREM RepliesAnswerRequests ==
  ASSUME OutBuffers <= 2
  PROVE  Spec => AnswersOpenRequest
<1>1. Init => OrderInv /\ AnswerInv
  BY OrderInit, AnswerInit
<1>2. IInv /\ OrderInv /\ AnswerInv /\ [Next]_vars => OrderInv' /\ AnswerInv'
  BY OrderStep, AnswerStep
<1>3. IInv /\ OrderInv /\ AnswerInv /\ [Next]_vars =>
        [lastGot' # lastGot /\ MBXrun'
           => sm1.to \in open \/ sm1.to.kind \in {"badheader", "short"}]_vars
  BY AnswerStep DEF Proper
<1> QED
  BY Invariance, <1>1, <1>2, <1>3, PTL DEF Spec, AnswersOpenRequest

=============================================================================
