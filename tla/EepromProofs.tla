---------------------------- MODULE EepromProofs ----------------------------
(***************************************************************************)
(* Proofs about Eeprom, for every EEPROM, every set of commands and of     *)
(* process data accesses: a configuration of the master outlives a restart *)
(* of the process, process memory is moved byte for byte, and a command    *)
(* that is over was answered as asked.                                     *)
(*                                                                         *)
(* First the shape of an access of each task and what the chip holds of it *)
(* at each frame (RegInv); on top of it what ESC_init has read             *)
(* (OlderKept), how far the FIFO and the process have come with a transfer *)
(* (MoveInv), and what has become of the command of the master             *)
(* (EepromInv).                                                            *)
(***************************************************************************)
EXTENDS Eeprom, SequenceTheorems, TLAPS

Doing  == task[1]
Status == regs[EECONTSTAT]
CsrPcs == {"put", "cmd", "busy", "data", "wait", "again"}
InHand == {"busy", "data", "wait", "again"}
PramPcs == {"abort", "start", "fifo", "xfer"}
Tasks == {"idle", "init", "poll", "status", "take", "ack", "data", "move"}

-----------------------------------------------------------------------------
\* What is read and written for each task, and how far it has come.
IsWords(s, n) == s \in Seq(Nat) /\ Len(s) = n
At(at, left) == acc.at = at /\ acc.left = left
Access(dir, start, len) == acc.dir = dir /\ acc.start = start /\ acc.len = len
ReadsAt(at, left) == acc.part = "data" /\ At(at, left) /\ pc \in InHand \cup {"cmd"}
WritesAt(at, left) == acc.part = "data" /\ At(at, left) /\ pc \in {"put", "cmd", "busy", "wait"}
OnTail == acc.part = "tail" /\ At(ALEVENT, 4) /\ pc \in InHand \cup {"cmd"}
Ended == pc = "done" \/ OnTail

InitShape ==
  /\ task[2] \in 1 .. 4 /\ acc.part = "raw" /\ Access("read", InitReads[task[2]].at, InitReads[task[2]].len)
  /\ pc = "done" \/ (pc \in InHand \cup {"cmd"} /\ At(InitReads[task[2]].at, InitReads[task[2]].len))
PollShape == /\ Access("read", ALEVENT, 4) /\ acc.part = "data"
             /\ \/ ReadsAt(ALEVENT, 4) /\ acc.buf = <<>>
                \/ pc = "done"
StatusShape ==
  /\ Access("read", EECONTSTAT, 6)
  /\ \/ ReadsAt(EECONTSTAT, 6) /\ acc.buf = <<>>
     \/ ReadsAt(EECONTSTAT + 2, 4) /\ IsWords(acc.buf, 1)
     \/ Ended /\ IsWords(acc.buf, 3)
TakeShape ==
  /\ Access("read", EEDATA, 2)
  /\ \/ ReadsAt(EEDATA, 2) /\ acc.buf = <<>>
     \/ Ended /\ IsWords(acc.buf, 1)
AckShape == /\ Access("write", EECONTSTAT, 2) /\ IsWords(acc.buf, 1) /\ (WritesAt(EECONTSTAT, 2) \/ Ended)
DataShape ==
  \E n \in {1, 2, 4} :
    /\ Access("write", EEDATA, 2 * n) /\ IsWords(acc.buf, n)
    /\ WritesAt(EEDATA, 2 * n) \/ (n = 4 /\ WritesAt(EEDATA + 4, 4)) \/ Ended
MoveShape == /\ acc.start >= PRAM /\ acc.start \in Nat
             /\ \/ pc \in PramPcs /\ acc.part = "data"
                \/ Ended
Shape ==
  /\ Doing \in Tasks
  /\ Doing = "idle" <=> pc = "idle"
  /\ Doing = "init" => InitShape
  /\ Doing = "poll" => PollShape
  /\ Doing = "status" => StatusShape
  /\ Doing = "take" => TakeShape
  /\ Doing = "ack" => AckShape
  /\ Doing = "data" => DataShape
  /\ Doing = "move" => MoveShape

Accesses(S) == [dir : {"none", "read", "write"}, start : Nat, len : Nat, at : Int, left : S,
                buf : S, part : {"data", "tail", "raw"}]
AccTyped == acc \in Accesses({acc.left, acc.buf})
CsrTyped == csr \in [busy : BOOLEAN, dir : {"none", "read", "write"}, at : Int, size : {0, 1, 2, 4}, data : Seq(Nat)]
Stored ==
  /\ regs \in [Cells -> Nat] /\ eeprom \in [EepWords -> Nat] /\ eep_read_size \in {4, 8}
  /\ asked \subseteq Commands /\ stat[1] \in Nat /\ stat[2] \in Nat
Typed == AccTyped /\ CsrTyped /\ Stored /\ hw_fault \in BOOLEAN

FrameSize == WordsNeeded(Chunk)
ChunkWords == SubSeq(acc.buf, (acc.at - acc.start) \div 2 + 1, (acc.at - acc.start) \div 2 + FrameSize)
Pending == csr.busy /\ csr.dir = "write"
CommandShape ==
  /\ csr.busy => csr.dir # "none"
  /\ Pending => \/ csr.at = EECONTSTAT /\ Len(csr.data) = 1
                \/ csr.at \in {EEDATA, EEDATA + 4} /\ Len(csr.data) \in {1, 2}
  /\ (csr.busy /\ csr.dir = "read") => \A i \in 1 .. WordsNeeded(csr.size) : csr.at + 2 * (i - 1) \in Cells
  /\ (acc.dir = "write" /\ acc.part = "data" /\ pc \in {"cmd", "busy", "wait"}) =>
        /\ csr.busy => csr.dir = "write"
        /\ csr.data = ChunkWords
  /\ (acc.dir = "write" /\ acc.part = "data" /\ pc = "put") => (csr.busy => csr.dir = "write")

-----------------------------------------------------------------------------
Mine == csr.dir = (IF Reading THEN "read" ELSE "write") /\ csr.at = acc.at /\ csr.size = Chunk
Handshake ==
  ~hw_fault =>
    /\ csr.busy => pc \in {"busy", "data", "wait"}
    /\ pc \in InHand => Mine
    /\ pc = "data" /\ ~sawBusy => ~csr.busy
    /\ pc = "again" => ~csr.busy
PendingKind ==
  Pending =>
    /\ Doing = "data" => csr.at # EECONTSTAT
    /\ Doing \notin {"data", "ack"} => hw_fault /\ pc \in {"idle", "done"} /\ Doing \notin {"take", "init"}
    /\ Doing = "status" => ~Busy(acc.buf[1])
AckFresh == (Doing = "ack" /\ acc.part = "data" /\ pc \in {"put", "cmd"}) => ~hw_fault
RegInv == Typed /\ Shape /\ CommandShape /\ Handshake /\ PendingKind /\ AckFresh
\* What the register shows that is being read.
Read == pc \in InHand /\ ~csr.busy

-----------------------------------------------------------------------------
WordsOfRead(i) == CASE i = 1 -> <<regs[ALSTATUS]>> [] i = 2 -> <<regs[SYNCACT]>>
  [] i = 3 -> <<regs[DCOFFSET], regs[DCOFFSET + 2]>> [] i = 4 -> <<regs[DCOFFSET + 4], regs[DCOFFSET + 6]>>
FoundBefore(i) == CASE i = 1 -> <<>> [] i = 2 -> <<regs[ALSTATUS]>> [] i = 3 -> <<regs[ALSTATUS], regs[SYNCACT]>>
  [] i = 4 -> <<regs[ALSTATUS], regs[SYNCACT], regs[DCOFFSET], regs[DCOFFSET + 2]>>
OlderKept ==
  Doing = "init" =>
   /\ older => Configured(regs)
   /\ older /\ ~hw_fault =>
      /\ found = FoundBefore(task[2])
      /\ Read => csr.data = WordsOfRead(task[2])
      /\ pc = "done" => acc.buf = WordsOfRead(task[2])

-----------------------------------------------------------------------------
LEMMA Chunks ==
  /\ csr_chunk_size(ALSTATUS, 2) = 2 /\ csr_chunk_size(SYNCACT, 1) = 1
  /\ csr_chunk_size(DCOFFSET, 4) = 4 /\ csr_chunk_size(DCOFFSET + 4, 4) = 4
  /\ csr_chunk_size(ALEVENT, 4) = 4 /\ csr_chunk_size(EECONTSTAT, 6) = 2
  /\ csr_chunk_size(EECONTSTAT + 2, 4) = 4 /\ csr_chunk_size(EECONTSTAT, 2) = 2
  /\ csr_chunk_size(EEDATA, 2) = 2 /\ csr_chunk_size(EEDATA, 4) = 4
  /\ csr_chunk_size(EEDATA, 8) = 4 /\ csr_chunk_size(EEDATA + 4, 4) = 4
  BY SMT DEF csr_chunk_size, ALSTATUS, SYNCACT, DCOFFSET, ALEVENT, EECONTSTAT, EEDATA

LEMMA CellsAre ==
  Cells = {ALSTATUS, ALEVENT, ALEVENT + 2, SYNCACT, EECONTSTAT, EECONTSTAT + 2, EECONTSTAT + 4, EEDATA, EEDATA + 2,
           EEDATA + 4, EEDATA + 6, DCOFFSET, DCOFFSET + 2, DCOFFSET + 4, DCOFFSET + 6}
  BY SMT DEF Cells, ALSTATUS, SYNCACT, DCOFFSET, ALEVENT, EECONTSTAT, EEDATA

LEMMA InitReadsAre ==
  /\ InitReads[1].at = ALSTATUS /\ InitReads[1].len = 2
  /\ InitReads[2].at = SYNCACT /\ InitReads[2].len = 1
  /\ InitReads[3].at = DCOFFSET /\ InitReads[3].len = 4
  /\ InitReads[4].at = DCOFFSET + 4 /\ InitReads[4].len = 4
  /\ Len(InitReads) = 4
  BY SMT DEF InitReads

-----------------------------------------------------------------------------
Joined(v) == IF acc.dir = "read" THEN acc.buf \o v ELSE acc.buf
Ends == \/ pc' = "done" /\ acc'.part = acc.part
        \/ ~IsALevent /\ pc' = "cmd" /\ acc'.part = "tail" /\ acc'.at = ALEVENT /\ acc'.left = 4
GoesOn == /\ pc' = IF acc.dir = "read" THEN "cmd" ELSE "put"
          /\ acc'.part = "data" /\ acc'.at = acc.at + Chunk /\ acc'.left = acc.left - Chunk
TookIt(v) ==
  /\ acc'.dir = acc.dir /\ acc'.start = acc.start /\ acc'.len = acc.len
  /\ acc.part = "tail" => pc' = "done" /\ acc'.part = "tail" /\ acc'.buf = acc.buf
  /\ acc.part = "raw" => pc' = "done" /\ acc'.part = "raw" /\ acc'.buf = v
  /\ acc.part = "data" => /\ acc'.buf = Joined(v)
                          /\ IF Chunk = acc.left THEN Ends ELSE GoesOn

\* Of whatever the bytes are.
LEMMA AccOf ==
  ASSUME AccTyped, NEW v, NEW w
  PROVE  acc \in Accesses({acc.left, acc.buf, v, w})
  BY SMT DEF AccTyped, Accesses

LEMMA AccIn ==
  ASSUME NEW S, acc' \in Accesses(S)
  PROVE  AccTyped'
  BY SMT DEF AccTyped, Accesses

LEMMA FieldsOver ==
  ASSUME AccTyped, NEW v, acc' = [acc EXCEPT !.buf = v, !.left = 0]
  PROVE  /\ acc'.dir = acc.dir /\ acc'.start = acc.start /\ acc'.len = acc.len /\ acc'.at = acc.at
         /\ acc'.part = acc.part /\ acc'.buf = v /\ acc'.left = 0
         /\ AccTyped'
<1>1. acc \in Accesses({acc.left, acc.buf, v, 0})
  BY AccOf
<1>3. acc' \in Accesses({acc.left, acc.buf, v, 0})
  BY <1>1, Zenon DEF Accesses
<1> QED BY <1>1, <1>3, AccIn DEF Accesses

LEMMA FieldsTail ==
  ASSUME AccTyped, NEW v, acc' = [acc EXCEPT !.buf = v, !.at = ALEVENT, !.left = 4, !.part = "tail"]
  PROVE  /\ acc'.dir = acc.dir /\ acc'.start = acc.start /\ acc'.len = acc.len /\ acc'.at = ALEVENT
         /\ acc'.part = "tail" /\ acc'.buf = v /\ acc'.left = 4
         /\ AccTyped'
<1>1. acc \in Accesses({acc.left, acc.buf, v, 4})
  BY AccOf
<1>2. ALEVENT \in Int
  BY DEF ALEVENT
<1>3. acc' \in Accesses({acc.left, acc.buf, v, 4})
  BY <1>1, <1>2, Zenon DEF Accesses
<1> QED BY <1>1, <1>3, AccIn DEF Accesses

LEMMA FieldsOn ==
  ASSUME AccTyped, NEW v, NEW m \in Int, NEW n, acc' = [acc EXCEPT !.at = m, !.left = n, !.buf = v]
  PROVE  /\ acc'.dir = acc.dir /\ acc'.start = acc.start /\ acc'.len = acc.len /\ acc'.at = m
         /\ acc'.part = acc.part /\ acc'.buf = v /\ acc'.left = n
         /\ AccTyped'
<1>1. acc \in Accesses({acc.left, acc.buf, v, n})
  BY AccOf
<1>3. acc' \in Accesses({acc.left, acc.buf, v, n})
  BY <1>1, Zenon DEF Accesses
<1> QED BY <1>1, <1>3, AccIn DEF Accesses

LEMMA FieldsMoved ==
  ASSUME AccTyped, NEW v, NEW n, acc' = [acc EXCEPT !.left = n, !.buf = v]
  PROVE  /\ acc'.dir = acc.dir /\ acc'.start = acc.start /\ acc'.len = acc.len /\ acc'.at = acc.at
         /\ acc'.part = acc.part /\ acc'.buf = v /\ acc'.left = n
         /\ AccTyped'
<1>1. acc \in Accesses({acc.left, acc.buf, v, n})
  BY AccOf
<1>3. acc' \in Accesses({acc.left, acc.buf, v, n})
  BY <1>1, Zenon DEF Accesses
<1> QED BY <1>1, <1>3, AccIn DEF Accesses

LEMMA FinishFields ==
  ASSUME AccTyped, NEW v, Finish(v)
  PROVE  /\ acc'.dir = acc.dir /\ acc'.start = acc.start /\ acc'.len = acc.len /\ acc'.buf = v
         /\ Ends /\ AccTyped'
<1>1. CASE pc' = "done" /\ acc' = [acc EXCEPT !.buf = v, !.left = 0]
  BY <1>1, FieldsOver, Zenon DEF Ends
<1>2. CASE ~IsALevent /\ pc' = "cmd" /\ acc' = [acc EXCEPT !.buf = v, !.at = ALEVENT, !.left = 4, !.part = "tail"]
  BY <1>2, FieldsTail, Zenon DEF Ends
<1> QED BY <1>1, <1>2, Zenon DEF Finish, Over

LEMMA TookFields ==
  ASSUME AccTyped, Chunk \in Int, NEW v, Took(v)
  PROVE  TookIt(v) /\ AccTyped'
<1> USE DEF TookIt
<1>1. acc.at \in Int
  BY DEF AccTyped, Accesses
<1>2. CASE acc.part = "tail"
  <2>1. pc' = "done" /\ acc' = [acc EXCEPT !.buf = acc.buf, !.left = 0]
    BY <1>2, Zenon DEF Took, Over
  <2> QED BY <1>2, <2>1, FieldsOver, Zenon
<1>3. CASE acc.part = "raw"
  <2>1. pc' = "done" /\ acc' = [acc EXCEPT !.buf = v, !.left = 0]
    BY <1>3, Zenon DEF Took, Over
  <2> QED BY <1>3, <2>1, FieldsOver, Zenon
<1>4. CASE acc.part = "data" /\ Chunk = acc.left
  <2>1. Finish(Joined(v))
    BY <1>4 DEF Took, Reading, Joined
  <2> QED BY <1>4, <2>1, FinishFields, Zenon
<1>5. CASE acc.part = "data" /\ Chunk # acc.left
  <2>1. /\ acc' = [acc EXCEPT !.at = acc.at + Chunk, !.left = acc.left - Chunk, !.buf = Joined(v)]
        /\ pc' = IF acc.dir = "read" THEN "cmd" ELSE "put"
    BY <1>5 DEF Took, Reading, Joined
  <2>2. acc.at + Chunk \in Int
    BY <1>1
  <2> QED BY <1>5, <2>1, <2>2, FieldsOn, Zenon DEF GoesOn
<1>6. acc.part \in {"data", "tail", "raw"}
  BY DEF AccTyped, Accesses
<1> QED BY <1>2, <1>3, <1>4, <1>5, <1>6, Zenon

FirstBuf(dir, start, len, buf) ==
  IF ~hw_fault \/ dir = "write" THEN buf ELSE IF start >= PRAM THEN ZeroBytes(len) ELSE Zeros(len)
FirstPc(dir, start) == IF hw_fault THEN "done" ELSE IF start >= PRAM THEN "abort" ELSE IF dir = "read" THEN "cmd" ELSE "put"
Begun(dir, start, len, buf) ==
  /\ acc'.dir = dir /\ acc'.start = start /\ acc'.len = len /\ acc'.at = start /\ acc'.left = len
  /\ acc'.part = "data" /\ acc'.buf = buf

LEMMA BeginFields ==
  ASSUME NEW dir \in {"read", "write"}, NEW start \in Nat, NEW len \in Nat, NEW buf,
         acc' = [NoAccess EXCEPT !.dir = dir, !.start = start, !.len = len, !.at = start, !.left = len, !.buf = buf]
  PROVE  Begun(dir, start, len, buf) /\ AccTyped'
<1>1. NoAccess \in Accesses({0, <<>>, len, buf})
  BY SMT DEF NoAccess, Accesses
<1>7. start \in Int /\ len \in Int /\ dir \in {"none", "read", "write"}
  OBVIOUS
<1>2. acc' \in Accesses({0, <<>>, len, buf})
  BY <1>1, <1>7, Zenon DEF Accesses
<1>3. acc'.part = NoAccess.part
  BY <1>1, Zenon DEF Accesses
<1>4. acc'.part = "data"
  BY <1>3 DEF NoAccess
<1>5. /\ acc'.dir = dir /\ acc'.start = start /\ acc'.len = len /\ acc'.at = start /\ acc'.left = len /\ acc'.buf = buf
  BY <1>1, Zenon DEF Accesses
<1> QED BY <1>2, <1>4, <1>5, AccIn, Zenon DEF Begun

LEMMA BeginIt ==
  ASSUME NEW dir \in {"read", "write"}, NEW start \in Nat, NEW len \in Nat, NEW buf, Begin(dir, start, len, buf)
  PROVE  /\ Begun(dir, start, len, FirstBuf(dir, start, len, buf)) /\ AccTyped' /\ pc' = FirstPc(dir, start)
         /\ UNCHANGED <<hw_fault, sawBusy, csr, fifo, regs, pmem>> /\ before' = pmem
<1>1. acc' = [NoAccess EXCEPT !.dir = dir, !.start = start, !.len = len, !.at = start, !.left = len,
                !.buf = FirstBuf(dir, start, len, buf)]
  BY Zenon DEF Begin, FirstBuf
<1>2. /\ UNCHANGED <<hw_fault, sawBusy, csr, fifo, regs, pmem>> /\ before' = pmem
      /\ pc' = FirstPc(dir, start)
  BY DEF Begin, chipVars, FirstPc
<1> QED BY <1>1, <1>2, BeginFields, Zenon

LEMMA RawFields ==
  ASSUME NEW start \in Nat, NEW len \in Nat, ESC_read_csr(start, len)
  PROVE  /\ acc'.dir = "read" /\ acc'.start = start /\ acc'.len = len /\ acc'.at = start /\ acc'.left = len
         /\ acc'.part = "raw" /\ AccTyped' /\ pc' = "cmd"
<1>1. NoAccess \in Accesses({0, len, <<>>})
  BY SMT DEF NoAccess, Accesses
<1>2. acc' = [NoAccess EXCEPT !.dir = "read", !.start = start, !.len = len, !.at = start, !.left = len, !.part = "raw"]
  BY DEF ESC_read_csr
<1>5. start \in Int /\ len \in Int
  OBVIOUS
<1>3. acc' \in Accesses({0, len, <<>>})
  BY <1>1, <1>2, <1>5, Zenon DEF Accesses
<1>4. /\ acc'.dir = "read" /\ acc'.start = start /\ acc'.len = len /\ acc'.at = start /\ acc'.left = len
      /\ acc'.part = "raw"
  BY <1>1, <1>2, Zenon DEF Accesses
<1> QED BY <1>3, <1>4, AccIn, Zenon DEF ESC_read_csr

-----------------------------------------------------------------------------
\* Shape
LEMMA WordsJoined ==
  ASSUME NEW m \in Nat, NEW n \in Nat, NEW s, NEW t, IsWords(s, m), IsWords(t, n)
  PROVE  /\ IsWords(s \o t, m + n)
         /\ \A i \in 1 .. m : (s \o t)[i] = s[i]
         /\ \A i \in 1 .. n : (s \o t)[m + i] = t[i]
<1>1. PICK a \in Seq(Nat), b \in Seq(Nat) : a = s /\ b = t /\ Len(a) = m /\ Len(b) = n
  BY Zenon DEF IsWords
<1>2. /\ a \o b \in Seq(Nat) /\ Len(a \o b) = Len(a) + Len(b)
      /\ \A i \in 1 .. Len(a) + Len(b) : (a \o b)[i] = IF i <= Len(a) THEN a[i] ELSE b[i - Len(a)]
  BY ConcatProperties
<1>3. \A i \in 1 .. m : (a \o b)[i] = a[i]
  BY <1>1, <1>2
<1>4. \A i \in 1 .. n : (a \o b)[m + i] = b[i]
  BY <1>1, <1>2
<1> QED BY <1>1, <1>2, <1>3, <1>4 DEF IsWords

LEMMA TookShape ==
  ASSUME AccTyped, Shape, pc \in CsrPcs, UNCHANGED task,
         NEW v, Reading => IsWords(v, FrameSize), TookIt(v)
  PROVE  Shape'
<1> USE DEF At, Access
<1>1. Doing' = Doing /\ Doing \in Tasks /\ Doing # "idle" /\ task'[2] = task[2]
  BY DEF Doing, Shape, CsrPcs
<1>2. pc' \in {"done", "cmd", "put"}
  BY DEF TookIt, Ends, GoesOn, AccTyped, Accesses
<1>3. Doing = "init" => InitShape'
  <2>1. SUFFICES ASSUME InitShape PROVE InitShape'
    BY DEF Shape
  <2> QED BY <1>1, <2>1, Zenon DEF TookIt, InitShape
<1>4. Doing = "poll" => PollShape'
  <2>1. SUFFICES ASSUME PollShape PROVE PollShape'
    BY DEF Shape
  <2>2. acc.at = ALEVENT /\ acc.left = 4 /\ pc # "done"
    BY <2>1 DEF PollShape, ReadsAt, CsrPcs
  <2>3. Chunk = acc.left /\ IsALevent
    BY <2>1, <2>2, Chunks DEF Chunk, IsALevent, PollShape
  <2> QED BY <2>1, <2>3, Zenon DEF TookIt, PollShape, Ends
<1>5. Doing = "status" => StatusShape'
  <2>1. SUFFICES ASSUME StatusShape PROVE StatusShape'
    BY DEF Shape
  <2>2. CASE OnTail
    BY <2>1, <2>2 DEF TookIt, StatusShape, OnTail, ReadsAt, Ended
  <2>3. CASE ReadsAt(EECONTSTAT, 6) /\ acc.buf = <<>>
    <3>1. Chunk = 2 /\ FrameSize = 1 /\ Reading
      BY <2>1, <2>3, Chunks DEF Chunk, FrameSize, WordsNeeded, Reading, ReadsAt, StatusShape
    <3>2. acc'.buf = v /\ IsWords(v, 1)
      BY <2>1, <2>3, <3>1 DEF TookIt, Joined, IsWords, ReadsAt, StatusShape
    <3> QED BY <2>1, <2>3, <3>1, <3>2 DEF TookIt, StatusShape, GoesOn, ReadsAt, EECONTSTAT
  <2>4. CASE ReadsAt(EECONTSTAT + 2, 4) /\ IsWords(acc.buf, 1)
    <3>1. Chunk = 4 /\ FrameSize = 2 /\ Reading
      BY <2>1, <2>4, Chunks DEF Chunk, FrameSize, WordsNeeded, Reading, ReadsAt, StatusShape
    <3>2. acc'.buf = acc.buf \o v /\ IsWords(v, 2)
      BY <2>1, <2>4, <3>1 DEF TookIt, Joined, ReadsAt, StatusShape
    <3>3. IsWords(acc'.buf, 3)
      <4>1. 1 \in Nat /\ 2 \in Nat
        OBVIOUS
      <4>2. IsWords(acc.buf \o v, 1 + 2)
        BY <2>4, <3>2, <4>1, WordsJoined, Zenon
      <4> QED BY <3>2, <4>2
    <3> QED BY <2>1, <2>4, <3>1, <3>3 DEF TookIt, StatusShape, Ends, ReadsAt, Ended, OnTail
  <2> QED BY <2>1, <2>2, <2>3, <2>4 DEF StatusShape, Ended, CsrPcs
<1>6. Doing = "take" => TakeShape'
  <2>1. SUFFICES ASSUME TakeShape PROVE TakeShape'
    BY DEF Shape
  <2>2. CASE OnTail
    BY <2>1, <2>2 DEF TookIt, TakeShape, OnTail, ReadsAt, Ended
  <2>3. CASE ReadsAt(EEDATA, 2) /\ acc.buf = <<>>
    <3>1. Chunk = 2 /\ FrameSize = 1 /\ Reading
      BY <2>1, <2>3, Chunks DEF Chunk, FrameSize, WordsNeeded, Reading, ReadsAt, TakeShape
    <3>2. acc'.buf = v /\ IsWords(v, 1)
      BY <2>1, <2>3, <3>1 DEF TookIt, Joined, IsWords, ReadsAt, TakeShape
    <3> QED BY <2>1, <2>3, <3>1, <3>2 DEF TookIt, TakeShape, Ends, ReadsAt, Ended, OnTail
  <2> QED BY <2>1, <2>2, <2>3 DEF TakeShape, Ended, CsrPcs
<1>7. Doing = "ack" => AckShape'
  <2>1. SUFFICES ASSUME AckShape PROVE AckShape'
    BY DEF Shape
  <2>2. CASE OnTail
    BY <2>1, <2>2 DEF TookIt, AckShape, OnTail, Ended
  <2>3. CASE WritesAt(EECONTSTAT, 2)
    <3>1. Chunk = 2 /\ acc'.buf = acc.buf
      BY <2>1, <2>3, Chunks DEF Chunk, WritesAt, AckShape, TookIt, Joined
    <3> QED BY <2>1, <2>3, <3>1 DEF TookIt, AckShape, Ends, WritesAt, Ended, OnTail
  <2> QED BY <2>1, <2>2, <2>3 DEF AckShape, Ended, CsrPcs
<1>8. Doing = "data" => DataShape'
  <2>1. SUFFICES ASSUME DataShape PROVE DataShape'
    BY DEF Shape
  <2>2. PICK n \in {1, 2, 4} : /\ Access("write", EEDATA, 2 * n) /\ IsWords(acc.buf, n)
                               /\ WritesAt(EEDATA, 2 * n) \/ (n = 4 /\ WritesAt(EEDATA + 4, 4)) \/ Ended
    BY <2>1, Zenon DEF DataShape
  <2>3. acc'.buf = acc.buf
    BY <2>2, pc \in CsrPcs DEF TookIt, Joined, Ended, OnTail, WritesAt, CsrPcs
  <2>4. CASE OnTail
    BY <2>2, <2>3, <2>4 DEF TookIt, DataShape, OnTail, Ended
  <2>5. CASE WritesAt(EEDATA, 2 * n) /\ n # 4
    <3>1. Chunk = acc.left
      BY <2>2, <2>5, Chunks DEF Chunk, WritesAt
    <3> QED BY <2>2, <2>3, <2>5, <3>1 DEF TookIt, DataShape, Ends, WritesAt, Ended, OnTail
  <2>6. CASE n = 4 /\ WritesAt(EEDATA, 2 * n)
    <3>1. Chunk = 4 /\ acc.left = 8
      BY <2>2, <2>6, Chunks DEF Chunk, WritesAt
    <3> QED BY <2>2, <2>3, <2>6, <3>1 DEF TookIt, DataShape, GoesOn, WritesAt, EEDATA
  <2>7. CASE n = 4 /\ WritesAt(EEDATA + 4, 4)
    <3>1. Chunk = acc.left
      BY <2>2, <2>7, Chunks DEF Chunk, WritesAt
    <3> QED BY <2>2, <2>3, <2>7, <3>1 DEF TookIt, DataShape, Ends, WritesAt, Ended, OnTail
  <2> QED BY <2>2, <2>4, <2>5, <2>6, <2>7 DEF Ended, CsrPcs
<1>9. Doing = "move" => MoveShape'
  <2>1. SUFFICES ASSUME MoveShape PROVE MoveShape'
    BY DEF Shape
  <2>2. OnTail
    BY <2>1 DEF MoveShape, PramPcs, CsrPcs, Ended
  <2> QED BY <2>1, <2>2 DEF TookIt, MoveShape, OnTail, Ended
<1> QED BY <1>1, <1>2, <1>3, <1>4, <1>5, <1>6, <1>7, <1>8, <1>9 DEF Shape

-----------------------------------------------------------------------------
\* The frames of a command, by what they do.
LEMMA ChunkIn ==
  ASSUME Shape, pc \in CsrPcs
  PROVE  Chunk \in {1, 2, 4} /\ FrameSize \in {1, 2}
<1>1. Doing \in Tasks /\ Doing # "idle"
  BY DEF Shape, CsrPcs
<1>2. CASE OnTail
  BY <1>2, Chunks DEF OnTail, At, Chunk, FrameSize, WordsNeeded
<1>3. CASE Doing = "init"
  <2>1. InitShape /\ pc # "done"
    BY <1>3 DEF Shape, CsrPcs
  <2>2. task[2] \in {1, 2, 3, 4} /\ Chunk = csr_chunk_size(InitReads[task[2]].at, InitReads[task[2]].len)
    BY <2>1 DEF InitShape, At, Chunk
  <2> QED BY <2>2, InitReadsAre, Chunks DEF FrameSize, WordsNeeded
<1>4. CASE Doing = "data" /\ ~OnTail
  <2>1. PICK n \in {1, 2, 4} : /\ WritesAt(EEDATA, 2 * n) \/ (n = 4 /\ WritesAt(EEDATA + 4, 4))
    BY <1>4 DEF Shape, DataShape, Ended, CsrPcs
  <2> QED BY <2>1, Chunks DEF WritesAt, At, Chunk, FrameSize, WordsNeeded
<1>5. CASE Doing \in {"poll", "status", "take", "ack"} /\ ~OnTail
  <2>1. \/ ReadsAt(ALEVENT, 4) \/ ReadsAt(EECONTSTAT, 6) \/ ReadsAt(EECONTSTAT + 2, 4) \/ ReadsAt(EEDATA, 2)
        \/ WritesAt(EECONTSTAT, 2)
    BY <1>5 DEF Shape, PollShape, StatusShape, TakeShape, AckShape, Ended, CsrPcs
  <2> QED BY <2>1, Chunks DEF ReadsAt, WritesAt, At, Chunk, FrameSize, WordsNeeded
<1>6. CASE Doing = "move"
  BY <1>2, <1>6 DEF Shape, MoveShape, PramPcs, CsrPcs, Ended
<1> QED BY <1>1, <1>2, <1>3, <1>4, <1>5, <1>6 DEF Tasks

CsrStep == PutData \/ SendCommand \/ ReadBusy \/ ReadData \/ WaitForCommand \/ ReadAgain \/ CsrFrameFails
Lasting == UNCHANGED <<fifo, regs, pmem, before>>
Putting ==
  /\ pc = "put" /\ pc' = "cmd" /\ UNCHANGED <<hw_fault, acc, sawBusy>>
  /\ csr' = [csr EXCEPT !.data = ChunkWords]
Sending == /\ pc = "cmd" /\ pc' = "busy" /\ UNCHANGED <<hw_fault, acc, sawBusy>>
           /\ (csr' = Commanded \/ (csr.busy /\ csr' = csr))
Waiting ==
  /\ UNCHANGED <<hw_fault, acc, csr>>
  /\ \/ pc = "busy" /\ Reading /\ pc' = "data" /\ sawBusy' = csr.busy
     \/ pc = "busy" /\ ~Reading /\ csr.busy /\ pc' = "wait"
     \/ pc = "data" /\ sawBusy /\ pc' = "wait"
     \/ pc = "wait" /\ ~hw_fault /\ ~csr.busy /\ Reading /\ pc' = "again"
Getting == /\ (pc = "data" /\ ~sawBusy) \/ pc = "again"
           /\ TookIt(Shown) /\ UNCHANGED <<hw_fault, csr>>
WriteOver == /\ pc \in {"busy", "wait"} /\ ~Reading /\ ~csr.busy /\ TookIt(<<>>) /\ UNCHANGED <<hw_fault, csr>>
Failing == /\ pc \in CsrPcs /\ hw_fault' /\ TookIt(Zeros(Chunk))
           /\ csr' = csr \/ (pc = "cmd" /\ csr' = Commanded)

LEMMA CsrKinds ==
  ASSUME AccTyped, Shape, hw_fault \in BOOLEAN, CsrStep
  PROVE  /\ Lasting /\ AccTyped' /\ hw_fault' \in BOOLEAN
         /\ Putting \/ Sending \/ Waiting \/ Getting \/ WriteOver \/ Failing
<1> USE DEF Lasting, NoFault, chipVars
<1>b. pc \in CsrPcs
  BY DEF CsrStep, CsrPcs, PutData, SendCommand, ReadBusy, ReadData, WaitForCommand, ReadAgain, CsrFrameFails
<1>c. Chunk \in Int
  BY <1>b, ChunkIn
<1>a. ASSUME UNCHANGED acc PROVE AccTyped'
  BY <1>a DEF AccTyped, Accesses
<1>1. CASE PutData
  <2>1. Putting
    BY <1>1 DEF PutData, Putting, FrameSize, ChunkWords
  <2> QED BY <1>1, <2>1, <1>a DEF PutData
<1>2. CASE SendCommand
  <2>1. Sending
    BY <1>2 DEF SendCommand, Sending
  <2> QED BY <1>2, <2>1, <1>a DEF SendCommand
<1>3. CASE ReadBusy
  <2>1. CASE Reading
    <3>1. Waiting
      BY <1>3, <2>1 DEF ReadBusy, Waiting
    <3> QED BY <1>3, <2>1, <3>1, <1>a DEF ReadBusy
  <2>2. CASE ~Reading /\ csr.busy
    <3>1. Waiting
      BY <1>3, <2>2 DEF ReadBusy, Waiting
    <3> QED BY <1>3, <2>2, <3>1, <1>a DEF ReadBusy
  <2>3. CASE ~Reading /\ ~csr.busy
    <3>1. Took(<<>>) /\ pc = "busy" /\ UNCHANGED <<hw_fault, chipVars, before>>
      BY <1>3, <2>3, Zenon DEF ReadBusy
    <3>2. TookIt(<<>>) /\ AccTyped'
      BY <3>1, <1>c, TookFields, Zenon
    <3> QED BY <2>3, <3>1, <3>2 DEF WriteOver
  <2> QED BY <2>1, <2>2, <2>3
<1>4. CASE ReadData
  <2>1. CASE sawBusy
    <3>1. Waiting
      BY <1>4, <2>1 DEF ReadData, Waiting, ReadAgainIf
    <3> QED BY <1>4, <2>1, <3>1, <1>a DEF ReadData, ReadAgainIf
  <2>2. CASE ~sawBusy
    <3>1. Took(Shown) /\ pc = "data" /\ UNCHANGED <<hw_fault, chipVars, before>>
      BY <1>4, <2>2, Zenon DEF ReadData, ReadAgainIf
    <3>2. TookIt(Shown) /\ AccTyped'
      BY <3>1, <1>c, TookFields, Zenon
    <3> QED BY <2>2, <3>1, <3>2 DEF Getting
  <2> QED BY <2>1, <2>2
<1>5. CASE WaitForCommand
  <2>1. CASE ~hw_fault /\ ~csr.busy /\ Reading /\ NoFault /\ pc' = "again" /\ UNCHANGED <<acc, sawBusy, count, ALevent>>
    <3>1. Waiting
      BY <1>5, <2>1 DEF WaitForCommand, Waiting
    <3> QED BY <1>5, <2>1, <3>1, <1>a DEF WaitForCommand
  <2>2. CASE ~csr.busy /\ ~Reading /\ NoFault /\ Took(<<>>)
    <3>2. TookIt(<<>>) /\ AccTyped'
      BY <2>2, <1>c, TookFields, Zenon
    <3> QED BY <1>5, <2>2, <3>2 DEF WriteOver, WaitForCommand
  <2>3. CASE hw_fault' /\ Took(Zeros(Chunk))
    <3>2. TookIt(Zeros(Chunk)) /\ AccTyped'
      BY <2>3, <1>c, TookFields, Zenon
    <3>3. pc \in CsrPcs
      BY <1>5 DEF WaitForCommand, CsrPcs
    <3>4. Lasting /\ csr' = csr
      BY <1>5 DEF WaitForCommand
    <3> QED BY <2>3, <3>2, <3>3, <3>4, Zenon DEF Failing
  <2> QED BY <1>5, <2>1, <2>2, <2>3, Zenon DEF WaitForCommand, hw_timeout, DeadlinePassed
<1>6. CASE ReadAgain
  <2>1. TookIt(Shown) /\ AccTyped'
    BY <1>6, <1>c, TookFields, Zenon DEF ReadAgain
  <2> QED BY <1>6, <2>1 DEF Getting, ReadAgain
<1>7. CASE CsrFrameFails
  <2>1. TookIt(Zeros(Chunk)) /\ AccTyped'
    BY <1>7, <1>c, TookFields, Zenon DEF CsrFrameFails
  <2>2. csr' = csr \/ (pc = "cmd" /\ csr' = Commanded)
    BY <1>7 DEF CsrFrameFails
  <2>3. Lasting /\ hw_fault' = TRUE /\ pc \in CsrPcs
    BY <1>7 DEF CsrFrameFails, hw_timeout, CsrPcs
  <2> QED BY <2>1, <2>2, <2>3, Zenon DEF Failing
<1> QED BY <1>1, <1>2, <1>3, <1>4, <1>5, <1>6, <1>7, Zenon DEF CsrStep

-----------------------------------------------------------------------------
\* What is in the frames.
LEMMA WritingAt ==
  ASSUME Shape, pc \in CsrPcs, ~Reading
  PROVE  /\ acc.dir = "write" /\ acc.part = "data" /\ acc.buf \in Seq(Nat) /\ pc \in {"put", "cmd", "busy", "wait"}
         /\ \/ Doing = "ack" /\ acc.at = EECONTSTAT /\ acc.start = EECONTSTAT /\ FrameSize = 1 /\ Len(acc.buf) = 1
            \/ /\ Doing = "data" /\ acc.start = EEDATA
               /\ \/ acc.at = EEDATA /\ FrameSize = 1 /\ Len(acc.buf) = 1
                  \/ acc.at = EEDATA /\ FrameSize = 2 /\ Len(acc.buf) \in {2, 4}
                  \/ acc.at = EEDATA + 4 /\ FrameSize = 2 /\ Len(acc.buf) = 4
<1> USE DEF At, Access
<1>1. Doing \in Tasks /\ Doing # "idle"
  BY DEF Shape, CsrPcs
<1>2. ~OnTail /\ acc.dir # "read" /\ pc # "done" /\ pc \notin PramPcs
  BY DEF OnTail, Reading, CsrPcs, PramPcs
<1>3. CASE Doing = "ack"
  <2>1. Access("write", EECONTSTAT, 2) /\ IsWords(acc.buf, 1) /\ WritesAt(EECONTSTAT, 2)
    BY <1>2, <1>3 DEF Shape, AckShape, Ended
  <2>2. FrameSize = 1
    BY <2>1, Chunks DEF FrameSize, WordsNeeded, Chunk, WritesAt
  <2> QED BY <1>3, <2>1, <2>2 DEF IsWords, WritesAt
<1>4. CASE Doing = "data"
  <2>1. PICK n \in {1, 2, 4} : /\ Access("write", EEDATA, 2 * n) /\ IsWords(acc.buf, n)
                               /\ WritesAt(EEDATA, 2 * n) \/ (n = 4 /\ WritesAt(EEDATA + 4, 4))
    BY <1>2, <1>4 DEF Shape, DataShape, Ended
  <2>2. /\ acc.at = EEDATA /\ n = 1 => FrameSize = 1
        /\ acc.at = EEDATA /\ n # 1 => FrameSize = 2
        /\ acc.at = EEDATA + 4 => FrameSize = 2
    BY <2>1, Chunks DEF FrameSize, WordsNeeded, Chunk, WritesAt, EEDATA
  <2>3. acc.part = "data" /\ pc \in {"put", "cmd", "busy", "wait"} /\ (acc.at = EEDATA \/ (acc.at = EEDATA + 4 /\ n = 4))
    BY <2>1 DEF WritesAt
  <2> QED BY <1>4, <2>1, <2>2, <2>3 DEF IsWords
<1>5. Doing \notin {"init", "poll", "status", "take", "move"}
  BY <1>2 DEF Shape, InitShape, PollShape, StatusShape, TakeShape, MoveShape, Ended, ReadsAt
<1> QED BY <1>1, <1>3, <1>4, <1>5 DEF Tasks

LEMMA PutWords ==
  ASSUME Shape, pc \in CsrPcs, ~Reading
  PROVE  /\ IsWords(ChunkWords, FrameSize)
         /\ \A i \in 1 .. FrameSize : ChunkWords[i] = acc.buf[(acc.at - acc.start) \div 2 + i]
<1>1. PICK o \in {0, 2} : o = (acc.at - acc.start) \div 2 /\ o + FrameSize <= Len(acc.buf)
  <2>1. CASE acc.at = acc.start
    <3>1. 0 = (acc.at - acc.start) \div 2
      BY <2>1, WritingAt DEF EEDATA, EECONTSTAT
    <3>2. \/ FrameSize = 1 /\ Len(acc.buf) = 1
          \/ FrameSize = 2 /\ Len(acc.buf) = 2
          \/ FrameSize = 2 /\ Len(acc.buf) = 4
      BY <2>1, WritingAt DEF EEDATA, EECONTSTAT
    <3>3. 0 + FrameSize <= Len(acc.buf)
      <4>1. CASE FrameSize = 1 /\ Len(acc.buf) = 1
        BY <4>1
      <4>2. CASE FrameSize = 2 /\ Len(acc.buf) = 2
        BY <4>2
      <4>3. CASE FrameSize = 2 /\ Len(acc.buf) = 4
        BY <4>3
      <4> QED BY <3>2, <4>1, <4>2, <4>3, Zenon
    <3>4. 0 \in {0, 2}
      OBVIOUS
    <3> QED BY <3>1, <3>3, <3>4, Zenon
  <2>2. CASE acc.at # acc.start
    <3>1. acc.at = EEDATA + 4 /\ acc.start = EEDATA /\ FrameSize = 2 /\ Len(acc.buf) = 4
      BY <2>2, WritingAt DEF EEDATA, EECONTSTAT
    <3>2. 2 = (acc.at - acc.start) \div 2
      BY <3>1 DEF EEDATA
    <3> QED BY <3>1, <3>2
  <2> QED BY <2>1, <2>2
<1>2. FrameSize \in {1, 2} /\ acc.buf \in Seq(Nat)
  BY ChunkIn, WritingAt
<1>3. ChunkWords = SubSeq(acc.buf, o + 1, o + FrameSize)
  BY <1>1 DEF ChunkWords
<1>4. PICK b \in Seq(Nat), k \in {1, 2} : b = acc.buf /\ k = FrameSize
  BY <1>2
<1>5. SubSeq(b, o + 1, o + k) \in Seq(Nat) /\ Len(SubSeq(b, o + 1, o + k)) = k
      /\ \A i \in 1 .. k : SubSeq(b, o + 1, o + k)[i] = b[o + i]
  <2>1. o + 1 \in 1 .. Len(b) + 1 /\ o + k \in (o + 1) - 1 .. Len(b)
    BY <1>1, <1>4
  <2>2. PICK m \in 1 .. Len(b) + 1 : m = o + 1
    BY <2>1
  <2>3. PICK n \in m - 1 .. Len(b) : n = o + k
    BY <2>1, <2>2
  <2>4. /\ SubSeq(b, m, n) \in Seq(Nat) /\ Len(SubSeq(b, m, n)) = n - m + 1
        /\ \A i \in 1 .. n - m + 1 : SubSeq(b, m, n)[i] = b[m + i - 1]
    BY SubSeqProperties
  <2> QED BY <2>2, <2>3, <2>4
<1> QED BY <1>1, <1>3, <1>4, <1>5 DEF IsWords

LEMMA ReadingCells ==
  ASSUME Shape, pc \in CsrPcs, Reading
  PROVE  \A i \in 1 .. FrameSize : acc.at + 2 * (i - 1) \in Cells
<1> USE DEF At, Access
<1>1. Doing \in Tasks /\ Doing # "idle" /\ pc # "done" /\ pc \notin PramPcs
  BY DEF Shape, CsrPcs, PramPcs
<1>2. CASE \/ OnTail \/ ReadsAt(ALEVENT, 4) \/ ReadsAt(EECONTSTAT + 2, 4) \/ ReadsAt(EEDATA, 2) \/ ReadsAt(EECONTSTAT, 6)
  <2>1. \/ acc.at = ALEVENT /\ FrameSize = 2
        \/ acc.at = EECONTSTAT /\ FrameSize = 1
        \/ acc.at = EECONTSTAT + 2 /\ FrameSize = 2
        \/ acc.at = EEDATA /\ FrameSize = 1
    BY <1>2, Chunks DEF OnTail, ReadsAt, Chunk, FrameSize, WordsNeeded
  <2> QED BY <2>1, CellsAre DEF ALEVENT, EECONTSTAT, EEDATA
<1>3. CASE Doing = "init"
  <2>1. InitShape /\ task[2] \in {1, 2, 3, 4}
    BY <1>1, <1>3 DEF Shape, InitShape
  <2>2. \/ acc.at = ALSTATUS /\ FrameSize = 1
        \/ acc.at = SYNCACT /\ FrameSize = 1
        \/ acc.at = DCOFFSET /\ FrameSize = 2
        \/ acc.at = DCOFFSET + 4 /\ FrameSize = 2
    BY <1>1, <2>1, InitReadsAre, Chunks DEF InitShape, Chunk, FrameSize, WordsNeeded
  <2> QED BY <2>2, CellsAre DEF ALSTATUS, SYNCACT, DCOFFSET
<1>4. CASE Doing \in {"ack", "data"} /\ ~OnTail
  BY <1>1, <1>4 DEF Shape, AckShape, DataShape, Reading, WritesAt, Ended
<1> QED BY <1>1, <1>2, <1>3, <1>4 DEF Shape, PollShape, StatusShape, TakeShape, MoveShape, Ended, Tasks

SentIt == /\ csr'.busy /\ csr'.dir = (IF Reading THEN "read" ELSE "write") /\ csr'.at = acc.at /\ csr'.size = Chunk
          /\ csr'.data = IF Reading THEN <<>> ELSE csr.data
LEMMA Sends ==
  ASSUME AccTyped, CsrTyped, Chunk \in {1, 2, 4}, csr' = Commanded
  PROVE  SentIt /\ CsrTyped'
<1>1. csr.data \in Seq(Nat) /\ acc.at \in Int
  BY DEF CsrTyped, AccTyped, Accesses
<1>2. CASE Reading
  <2>1. csr' = [busy |-> TRUE, dir |-> "read", at |-> acc.at, size |-> Chunk, data |-> <<>>]
    BY <1>2 DEF Commanded
  <2> QED BY <1>1, <1>2, <2>1 DEF SentIt, CsrTyped
<1>3. CASE ~Reading
  <2>1. csr' = [busy |-> TRUE, dir |-> "write", at |-> acc.at, size |-> Chunk, data |-> csr.data]
    BY <1>3 DEF Commanded
  <2> QED BY <1>1, <1>3, <2>1 DEF SentIt, CsrTyped
<1> QED BY <1>2, <1>3

LEMMA Puts ==
  ASSUME CsrTyped, NEW d \in Seq(Nat), csr' = [csr EXCEPT !.data = d]
  PROVE  /\ csr'.busy = csr.busy /\ csr'.dir = csr.dir /\ csr'.at = csr.at /\ csr'.size = csr.size /\ csr'.data = d
         /\ CsrTyped'
  BY DEF CsrTyped

-----------------------------------------------------------------------------
\* The frames of a command keep the invariant of the registers.
LEMMA ZerosAre ==
  ASSUME Shape, pc \in CsrPcs
  PROVE  IsWords(Zeros(Chunk), FrameSize)
<1>1. PICK n \in {1, 2} : n = FrameSize
  BY ChunkIn
<1>2. Zeros(Chunk) = [i \in 1 .. n |-> 0]
  BY <1>1 DEF Zeros, FrameSize
<1>3. [i \in 1 .. n |-> 0] \in Seq(Nat) /\ Len([i \in 1 .. n |-> 0]) = n
  OBVIOUS
<1> QED BY <1>1, <1>2, <1>3 DEF IsWords

LEMMA ShownAre ==
  ASSUME Shape, pc \in CsrPcs, CsrTyped
  PROVE  /\ IsWords(Shown, FrameSize)
         /\ ~csr.busy /\ Len(csr.data) = FrameSize => Shown = csr.data
<1>1. PICK n \in {1, 2} : n = FrameSize
  BY ChunkIn
<1>2. PICK d \in Seq(Nat) : d = csr.data
  BY DEF CsrTyped
<1>3. Shown = [i \in 1 .. n |-> IF csr.busy \/ i > Len(d) THEN 0 ELSE d[i]]
  BY <1>1, <1>2 DEF Shown, FrameSize
<1>4. DEFINE f == [i \in 1 .. n |-> IF csr.busy \/ i > Len(d) THEN 0 ELSE d[i]]
<1>5. \A i \in 1 .. n : f[i] \in Nat
  BY <1>1
<1>6. f \in Seq(Nat) /\ Len(f) = n
  BY <1>1, <1>5
<1>7. ASSUME ~csr.busy, Len(d) = n PROVE f = d
  BY <1>1, <1>6, <1>7
<1> QED BY <1>1, <1>2, <1>3, <1>6, <1>7 DEF IsWords

LEMMA StaysShape ==
  ASSUME Shape, UNCHANGED <<task, acc>>, pc \in CsrPcs,
         \/ pc = "put" /\ pc' = "cmd"
         \/ pc = "cmd" /\ pc' = "busy"
         \/ pc = "busy" /\ Reading /\ pc' = "data"
         \/ pc \in {"busy", "data"} /\ pc' = "wait"
         \/ pc = "wait" /\ Reading /\ pc' = "again"
  PROVE  Shape'
<1> USE DEF At, Access, CsrPcs, InHand
<1>1. Doing' = Doing /\ Doing # "idle" /\ task' = task /\ acc' = acc /\ pc' # "idle"
  BY DEF Doing, Shape
<1>2. ASSUME NEW at, NEW left, ReadsAt(at, left) PROVE ReadsAt(at, left)'
  BY <1>1, <1>2 DEF ReadsAt
<1>3. ASSUME NEW at, NEW left, WritesAt(at, left), acc.dir = "write" PROVE WritesAt(at, left)'
  BY <1>1, <1>3 DEF WritesAt, Reading
<1>4. OnTail => OnTail'
  BY <1>1 DEF OnTail
<1>5. Doing = "init" => InitShape'
  BY <1>1 DEF InitShape, Shape
<1>6. Doing = "poll" => PollShape'
  BY <1>1, <1>2 DEF PollShape, Shape
<1>7. Doing = "status" => StatusShape'
  <2>1. ASSUME NEW n, IsWords(acc.buf, n) PROVE IsWords(acc.buf, n)'
    BY <1>1, <2>1 DEF IsWords
  <2> QED BY <1>1, <1>2, <1>4, <2>1 DEF StatusShape, Shape, Ended
<1>8. Doing = "take" => TakeShape'
  <2>1. ASSUME NEW n, IsWords(acc.buf, n) PROVE IsWords(acc.buf, n)'
    BY <1>1, <2>1 DEF IsWords
  <2> QED BY <1>1, <1>2, <1>4, <2>1 DEF TakeShape, Shape, Ended
<1>9. Doing = "ack" => AckShape'
  <2>1. ASSUME NEW n, IsWords(acc.buf, n) PROVE IsWords(acc.buf, n)'
    BY <1>1, <2>1 DEF IsWords
  <2> QED BY <1>1, <1>3, <1>4, <2>1 DEF AckShape, Shape, Ended
<1>10. Doing = "data" => DataShape'
  <2>1. SUFFICES ASSUME DataShape PROVE DataShape'
    BY DEF Shape
  <2>2. PICK n \in {1, 2, 4} : /\ Access("write", EEDATA, 2 * n) /\ IsWords(acc.buf, n)
                               /\ WritesAt(EEDATA, 2 * n) \/ (n = 4 /\ WritesAt(EEDATA + 4, 4)) \/ Ended
    BY <2>1, Zenon DEF DataShape
  <2>3. IsWords(acc.buf, n)' /\ Access("write", EEDATA, 2 * n)'
    BY <1>1, <2>2 DEF IsWords
  <2>4. (WritesAt(EEDATA, 2 * n) \/ (n = 4 /\ WritesAt(EEDATA + 4, 4)) \/ Ended)'
    BY <1>1, <1>3, <1>4, <2>2 DEF Ended
  <2> QED BY <2>3, <2>4, Zenon DEF DataShape
<1>11. Doing = "move" => MoveShape'
  BY <1>1, <1>4 DEF MoveShape, Shape, Ended, PramPcs
<1> QED BY <1>1, <1>5, <1>6, <1>7, <1>8, <1>9, <1>10, <1>11 DEF Shape

LEMMA CsrShape ==
  ASSUME Shape, AccTyped, CsrTyped, UNCHANGED task, Putting \/ Sending \/ Waiting \/ Getting \/ WriteOver \/ Failing
  PROVE  Shape'
<1>1. pc \in CsrPcs
  BY DEF Putting, Sending, Waiting, Getting, WriteOver, Failing, CsrPcs
<1>2. CASE Putting \/ Sending \/ Waiting
  BY <1>1, <1>2, StaysShape DEF Putting, Sending, Waiting
<1>3. CASE Getting
  BY <1>1, <1>3, TookShape, ShownAre DEF Getting
<1>4. CASE WriteOver
  BY <1>1, <1>4, TookShape DEF WriteOver
<1>5. CASE Failing
  BY <1>1, <1>5, TookShape, ZerosAre DEF Failing
<1> QED BY <1>2, <1>3, <1>4, <1>5

Kinds == Putting \/ Sending \/ Waiting \/ Getting \/ WriteOver \/ Failing
LEMMA KindsPc ==
  ASSUME Kinds
  PROVE  pc \in CsrPcs
  BY DEF Kinds, Putting, Sending, Waiting, Getting, WriteOver, Failing, CsrPcs

LEMMA TookPc ==
  ASSUME AccTyped, Shape, pc \in CsrPcs, NEW v, TookIt(v)
  PROVE  /\ pc' \in {"done", "cmd", "put"}
         /\ (acc'.dir = "write" /\ acc'.part = "data") =>
              pc' \in {"put", "done"} /\ acc.dir = "write" /\ acc.part = "data"
         /\ Doing = "ack" => pc' # "put"
<1>1. acc.part \in {"data", "tail", "raw"}
  BY DEF AccTyped, Accesses
<1>2. CASE acc.part \in {"tail", "raw"}
  BY <1>2 DEF TookIt
<1>3. CASE acc.part = "data"
  <2>1. ASSUME Doing = "ack" PROVE Chunk = acc.left
    <3>1. WritesAt(EECONTSTAT, 2)
      BY <1>3, <2>1 DEF Shape, AckShape, Ended, OnTail, CsrPcs
    <3> QED BY <3>1, Chunks DEF WritesAt, At, Chunk
  <2> QED BY <1>3, <2>1 DEF TookIt, Ends, GoesOn
<1> QED BY <1>1, <1>2, <1>3

LEMMA SentShape ==
  ASSUME RegInv, pc = "cmd", csr' = Commanded, UNCHANGED task
  PROVE  /\ SentIt /\ CsrTyped'
         /\ Pending' => \/ csr'.at = EECONTSTAT /\ Len(csr'.data) = 1 /\ Doing = "ack"
                        \/ csr'.at \in {EEDATA, EEDATA + 4} /\ Len(csr'.data) \in {1, 2} /\ Doing = "data"
         /\ csr'.dir = "read" => \A i \in 1 .. WordsNeeded(csr'.size) : csr'.at + 2 * (i - 1) \in Cells
         /\ csr'.dir # "none"
         /\ ~Reading => csr'.dir = "write" /\ csr'.data = csr.data
<1>1. pc \in CsrPcs /\ Shape /\ AccTyped /\ CsrTyped /\ CommandShape
  BY DEF CsrPcs, RegInv, Typed
<1>2. Chunk \in {1, 2, 4} /\ FrameSize \in {1, 2}
  BY <1>1, ChunkIn
<1>3. SentIt /\ CsrTyped'
  BY <1>1, <1>2, Sends
<1>4. ASSUME ~Reading
      PROVE  /\ Len(csr.data) = FrameSize
             /\ \/ csr'.at = EECONTSTAT /\ FrameSize = 1 /\ Doing = "ack"
                \/ csr'.at \in {EEDATA, EEDATA + 4} /\ Doing = "data"
  <2>1. csr.data = ChunkWords
    BY <1>1, <1>4, WritingAt DEF CommandShape
  <2>2. IsWords(csr.data, FrameSize)
    BY <1>1, <1>4, <2>1, PutWords
  <2>3. csr'.at = acc.at
    BY <1>3 DEF SentIt
  <2> QED BY <1>1, <1>4, <2>2, <2>3, WritingAt DEF IsWords
<1>5. ASSUME Reading PROVE \A i \in 1 .. FrameSize : csr'.at + 2 * (i - 1) \in Cells
  <2>1. csr'.at = acc.at
    BY <1>3 DEF SentIt
  <2> QED BY <1>1, <1>5, <2>1, ReadingCells
<1>6. Pending' => ~Reading /\ csr'.data = csr.data
  BY <1>3 DEF SentIt, Pending
<1>7. FrameSize = WordsNeeded(csr'.size)
  BY <1>3 DEF SentIt, FrameSize
<1>8. csr'.dir = "read" => Reading
  BY <1>3 DEF SentIt
<1>9. csr'.dir # "none" /\ (~Reading => csr'.dir = "write" /\ csr'.data = csr.data)
  BY <1>3 DEF SentIt
<1> QED BY <1>2, <1>3, <1>4, <1>5, <1>6, <1>7, <1>8, <1>9

LEMMA PutShape ==
  ASSUME RegInv, Putting
  PROVE  /\ CsrTyped' /\ csr'.busy = csr.busy /\ csr'.dir = csr.dir /\ csr'.at = csr.at /\ csr'.size = csr.size
         /\ csr'.data = ChunkWords /\ IsWords(ChunkWords, FrameSize) /\ ~Reading /\ Doing \in {"ack", "data"}
<1>1. pc \in CsrPcs /\ Shape /\ CsrTyped /\ pc = "put"
  BY DEF CsrPcs, RegInv, Typed, Putting
<1>2. ~Reading
  BY <1>1 DEF Shape, Reading, Tasks, InitShape, PollShape, StatusShape, TakeShape, AckShape, DataShape, MoveShape,
              ReadsAt, WritesAt, Ended, OnTail, InHand, PramPcs, Access
<1>3. IsWords(ChunkWords, FrameSize) /\ Doing \in {"ack", "data"}
  BY <1>1, <1>2, PutWords, WritingAt
<1>4. ChunkWords \in Seq(Nat) /\ csr' = [csr EXCEPT !.data = ChunkWords]
  BY <1>3 DEF IsWords, Putting
<1> QED BY <1>1, <1>2, <1>3, <1>4, Puts

LEMMA CsrCommand ==
  ASSUME RegInv, UNCHANGED task, Kinds
  PROVE  CsrTyped' /\ CommandShape'
<1> USE DEF RegInv, Typed
<1>1. pc \in CsrPcs
  BY KindsPc
<1>2. CASE Putting
  <2>1. Reading' = Reading /\ Chunk' = Chunk /\ acc' = acc /\ ChunkWords' = ChunkWords /\ pc = "put" /\ pc' = "cmd"
    BY <1>2 DEF Putting, Reading, Chunk, ChunkWords, FrameSize
  <2>2. Pending' => \/ csr'.at = EECONTSTAT /\ Len(csr'.data) = 1
                    \/ csr'.at \in {EEDATA, EEDATA + 4} /\ Len(csr'.data) \in {1, 2}
    <3>1. SUFFICES ASSUME Pending'
                   PROVE  \/ csr'.at = EECONTSTAT /\ Len(csr'.data) = 1
                          \/ csr'.at \in {EEDATA, EEDATA + 4} /\ Len(csr'.data) \in {1, 2}
      OBVIOUS
    <3>2. Pending /\ hw_fault
      BY <1>2, <3>1, PutShape, <2>1 DEF Pending, Handshake
    <3>3. Doing = "data"
      <4>1. Doing \in {"ack", "data"} /\ ~Reading
        BY <1>2, PutShape
      <4>2. acc.part = "data"
        BY <1>1, <4>1, WritingAt
      <4> QED BY <2>1, <3>2, <4>1, <4>2 DEF AckFresh
    <3>4. csr'.at \in {EEDATA, EEDATA + 4}
      BY <1>2, <3>2, <3>3, PutShape DEF PendingKind, CommandShape
    <3>5. Len(csr'.data) = FrameSize /\ FrameSize \in {1, 2}
      BY <1>1, <1>2, PutShape, ChunkIn DEF IsWords
    <3> QED BY <3>4, <3>5
  <2>3. csr'.data = ChunkWords' /\ csr'.dir = csr.dir /\ csr'.busy = csr.busy /\ csr'.at = csr.at /\ csr'.size = csr.size
    BY <1>2, <2>1, PutShape
  <2> QED BY <1>2, <2>1, <2>2, <2>3, PutShape DEF CommandShape
<1>3. ASSUME csr' = csr PROVE Pending' = Pending /\ CsrTyped'
  BY <1>3 DEF Pending, CsrTyped
<1>4. CASE Sending
  <2>1. Reading' = Reading /\ Chunk' = Chunk /\ acc' = acc /\ ChunkWords' = ChunkWords /\ pc = "cmd" /\ pc' = "busy"
    BY <1>4 DEF Sending, Reading, Chunk, ChunkWords, FrameSize
  <2>2. CASE csr' = csr
    BY <1>3, <2>1, <2>2 DEF CommandShape
  <2>3. CASE csr' = Commanded
    <3>1. (acc.dir = "write" /\ acc.part = "data") => ~Reading
      BY DEF Reading
    <3> QED BY <2>1, <2>3, <3>1, SentShape DEF CommandShape
  <2> QED BY <1>4, <2>2, <2>3 DEF Sending
<1>5. CASE Waiting
  <2>1. Reading' = Reading /\ Chunk' = Chunk /\ acc' = acc /\ csr' = csr /\ ChunkWords' = ChunkWords /\ pc \in InHand
        /\ pc' \in {"data", "wait", "again"} /\ ((pc' = "wait" /\ ~Reading) => pc \in {"busy", "data"})
    BY <1>5 DEF Waiting, Reading, Chunk, ChunkWords, FrameSize, InHand
  <2>2. (acc.dir = "write" /\ acc.part = "data") => pc \in {"busy", "wait"}
    BY <1>1, <2>1, WritingAt DEF Reading, InHand
  <2> QED BY <1>3, <2>1, <2>2 DEF CommandShape
<1>6. CASE Getting \/ WriteOver \/ (Failing /\ csr' = csr)
  <2>1. csr' = csr
    BY <1>6 DEF Getting, WriteOver
  <2>2. /\ pc' \in {"done", "cmd", "put"}
        /\ (acc'.dir = "write" /\ acc'.part = "data") =>
              pc' \in {"put", "done"} /\ acc.dir = "write" /\ acc.part = "data"
    BY <1>1, <1>6, TookPc DEF Getting, WriteOver, Failing
  <2>3. (acc.dir = "write" /\ acc.part = "data") => pc \in {"put", "cmd", "busy", "wait"}
    BY <1>1, WritingAt DEF Reading
  <2> QED BY <1>3, <2>1, <2>2, <2>3 DEF CommandShape
<1>7. CASE Failing /\ pc = "cmd" /\ csr' = Commanded
  <2>1. /\ pc' \in {"done", "cmd", "put"}
        /\ (acc'.dir = "write" /\ acc'.part = "data") =>
              pc' \in {"put", "done"} /\ acc.dir = "write" /\ acc.part = "data"
    BY <1>1, <1>7, TookPc DEF Failing
  <2>2. (acc.dir = "write" /\ acc.part = "data") => ~Reading
    BY DEF Reading
  <2> QED BY <1>7, <2>1, <2>2, SentShape DEF CommandShape
<1> QED BY <1>2, <1>4, <1>5, <1>6, <1>7 DEF Kinds, Failing

LEMMA CsrHandshake ==
  ASSUME RegInv, UNCHANGED task, Kinds
  PROVE  Handshake' /\ PendingKind' /\ AckFresh'
<1> USE DEF RegInv, Typed
<1>1. pc \in CsrPcs /\ Doing' = Doing
  BY KindsPc DEF Doing
<1>2. Pending => Doing \in {"data", "ack"}
  BY <1>1 DEF PendingKind, CsrPcs
<1>3. CASE Putting
  <2>1. pc = "put" /\ pc' = "cmd" /\ acc' = acc /\ hw_fault' = hw_fault
    BY <1>3 DEF Putting
  <2>2. Pending' = Pending /\ csr'.at = csr.at /\ csr'.busy = csr.busy
    BY <1>3, PutShape DEF Pending
  <2> QED BY <1>1, <1>2, <2>1, <2>2 DEF Handshake, PendingKind, AckFresh, InHand
<1>4. CASE Sending
  <2>1. pc = "cmd" /\ pc' = "busy" /\ acc' = acc /\ hw_fault' = hw_fault
    BY <1>4 DEF Sending
  <2>2. CASE csr' = csr /\ csr.busy
    BY <1>1, <1>2, <2>1, <2>2 DEF Handshake, PendingKind, AckFresh, Pending
  <2>3. CASE csr' = Commanded
    <3>1. Mine'
      <4>1. Reading' = Reading /\ Chunk' = Chunk
        BY <2>1 DEF Reading, Chunk
      <4> QED BY <2>1, <2>3, <4>1, SentShape DEF SentIt, Mine
    <3>2. Pending' => \/ csr'.at = EECONTSTAT /\ Doing = "ack"
                      \/ csr'.at \in {EEDATA, EEDATA + 4} /\ Doing = "data"
      BY <2>1, <2>3, SentShape
    <3> QED BY <1>1, <2>1, <3>1, <3>2 DEF Handshake, PendingKind, AckFresh, EEDATA, EECONTSTAT
  <2> QED BY <1>4, <2>2, <2>3 DEF Sending
<1>5. CASE Waiting
  <2>1. acc' = acc /\ csr' = csr /\ hw_fault' = hw_fault /\ pc \in InHand /\ pc' \in InHand \ {"busy"} /\ Mine' = Mine
    BY <1>5 DEF Waiting, InHand, Mine, Reading, Chunk
  <2>2. (pc' = "again" => ~csr.busy) /\ (pc' = "data" => sawBusy' = csr.busy)
    BY <1>5 DEF Waiting
  <2> QED BY <1>1, <1>2, <2>1, <2>2 DEF Handshake, PendingKind, AckFresh, Pending, InHand
<1>6. CASE Getting \/ WriteOver
  <2>1. csr' = csr /\ hw_fault' = hw_fault /\ pc' \in {"done", "cmd", "put"} /\ (Doing = "ack" => pc' # "put")
    BY <1>1, <1>6, TookPc DEF Getting, WriteOver
  <2>2. ~hw_fault => ~csr.busy
    BY <1>6 DEF Getting, WriteOver, Handshake
  <2>3. (Doing = "ack" /\ pc' = "cmd") => acc'.part # "data"
    <3>1. Doing = "ack" => acc'.dir = "write"
      BY <1>6 DEF Getting, WriteOver, Shape, AckShape, Access, TookIt
    <3> QED BY <3>1, <1>1, <1>6, TookPc DEF Getting, WriteOver
  <2> QED BY <1>1, <1>2, <2>1, <2>2, <2>3 DEF Handshake, PendingKind, AckFresh, Pending, InHand
<1>7. CASE Failing
  <2>1. hw_fault' /\ pc' \in {"done", "cmd", "put"} /\ (Doing = "ack" => pc' # "put")
    BY <1>1, <1>7, TookPc DEF Failing
  <2>2. (Doing = "ack" /\ pc' = "cmd") => acc'.part # "data"
    <3>1. Doing = "ack" => acc'.dir = "write"
      BY <1>7 DEF Failing, Shape, AckShape, Access, TookIt
    <3> QED BY <3>1, <1>1, <1>7, TookPc DEF Failing
  <2>3. CASE csr' = csr
    BY <1>1, <1>2, <2>1, <2>2, <2>3 DEF Handshake, PendingKind, AckFresh, Pending
  <2>4. CASE pc = "cmd" /\ csr' = Commanded
    <3>1. Pending' => \/ csr'.at = EECONTSTAT /\ Doing = "ack"
                      \/ csr'.at \in {EEDATA, EEDATA + 4} /\ Doing = "data"
      BY <2>4, SentShape
    <3> QED BY <1>1, <2>1, <2>2, <3>1 DEF Handshake, PendingKind, AckFresh, EEDATA, EECONTSTAT
  <2> QED BY <1>7, <2>3, <2>4 DEF Failing
<1> QED BY <1>3, <1>4, <1>5, <1>6, <1>7 DEF Kinds

LEMMA CsrStepRegInv ==
  ASSUME RegInv, CsrStep, Outside
  PROVE  RegInv'
<1>1. UNCHANGED <<task, stat, regs, eeprom, eep_read_size, asked>> /\ Kinds /\ AccTyped' /\ hw_fault' \in BOOLEAN
  BY CsrKinds DEF RegInv, Typed, Lasting, Outside, app, Kinds
<1>2. CsrTyped' /\ CommandShape' /\ Handshake' /\ PendingKind' /\ AckFresh'
  BY <1>1, CsrCommand, CsrHandshake
<1>3. Shape'
  BY <1>1, CsrShape DEF RegInv, Typed, Kinds
<1>4. Stored'
  BY <1>1 DEF RegInv, Typed, Stored
<1> QED BY <1>1, <1>2, <1>3, <1>4 DEF RegInv, Typed

-----------------------------------------------------------------------------
\* The frames of process memory.
PramStep == Abort \/ StartTransfer \/ pram_wait_fifo \/ ReadFifo \/ WriteFifo \/ PramFrameFails
PramIt ==
  /\ pc \in PramPcs /\ UNCHANGED <<csr, regs, before>>
  /\ acc'.dir = acc.dir /\ acc'.start = acc.start /\ acc'.len = acc.len
  /\ hw_fault' = hw_fault \/ hw_fault' = TRUE
  /\ (pc' \in PramPcs /\ acc'.part = acc.part) \/ Ends

LEMMA PramFields ==
  ASSUME AccTyped, PramStep
  PROVE  PramIt /\ AccTyped'
<1> USE DEF PramIt, PramPcs
<1>a. ASSUME UNCHANGED acc PROVE AccTyped'
  BY <1>a DEF AccTyped, Accesses
<1>b. ASSUME NEW n, NEW buf, Moved(n, buf)
      PROVE  /\ acc'.dir = acc.dir /\ acc'.start = acc.start /\ acc'.len = acc.len /\ AccTyped'
             /\ (pc' \in PramPcs /\ acc'.part = acc.part) \/ Ends
  <2>1. CASE Finish(buf)
    BY <2>1, FinishFields, Zenon
  <2>2. CASE pc' = "fifo" /\ acc' = [acc EXCEPT !.left = acc.left - n, !.buf = buf]
    BY <2>2, FieldsMoved, Zenon
  <2> QED BY <1>b, <2>1, <2>2, Zenon DEF Moved
<1>1. CASE Abort
  BY <1>1, <1>a DEF Abort, NoFault
<1>2. CASE StartTransfer
  BY <1>2, <1>a DEF StartTransfer, NoFault
<1>3. CASE pram_wait_fifo
  <2>1. CASE pc' = "xfer" /\ hw_fault' = hw_fault /\ UNCHANGED acc
    BY <1>3, <2>1, <1>a DEF pram_wait_fifo, chipVars
  <2>2. CASE hw_fault' = TRUE /\ Finish(acc.buf)
    <3>1. acc'.dir = acc.dir /\ acc'.start = acc.start /\ acc'.len = acc.len /\ Ends /\ AccTyped'
      BY <2>2, FinishFields, Zenon
    <3> QED BY <1>3, <2>2, <3>1 DEF pram_wait_fifo, chipVars
  <2> QED BY <1>3, <2>1, <2>2, Zenon DEF pram_wait_fifo, hw_timeout, NoFault
<1>4. CASE ReadFifo
  <2>1. PICK n, buf : Moved(n, buf)
    BY <1>4, Zenon DEF ReadFifo
  <2>2. UNCHANGED <<hw_fault, csr, regs, before>> /\ pc = "xfer"
    BY <1>4, Zenon DEF ReadFifo, NoFault
  <2> QED BY <1>b, <2>1, <2>2, Zenon
<1>5. CASE WriteFifo
  <2>1. PICK n, buf : Moved(n, buf)
    BY <1>5, Zenon DEF WriteFifo
  <2>2. UNCHANGED <<hw_fault, csr, regs, before>> /\ pc = "xfer"
    BY <1>5, Zenon DEF WriteFifo, NoFault
  <2> QED BY <1>b, <2>1, <2>2, Zenon
<1>6. CASE PramFrameFails
  <2>1. acc'.dir = acc.dir /\ acc'.start = acc.start /\ acc'.len = acc.len /\ Ends /\ AccTyped'
    BY <1>6, FinishFields, Zenon DEF PramFrameFails
  <2> QED BY <1>6, <2>1 DEF PramFrameFails, chipVars, hw_timeout
<1> QED BY <1>1, <1>2, <1>3, <1>4, <1>5, <1>6, Zenon DEF PramStep

LEMMA PramDoing ==
  ASSUME Shape, pc \in PramPcs
  PROVE  Doing = "move" /\ acc.part = "data"
  BY DEF Shape, Tasks, PramPcs, InitShape, PollShape, StatusShape, TakeShape, AckShape, DataShape, MoveShape,
         ReadsAt, WritesAt, Ended, OnTail, InHand

LEMMA PramStepRegInv ==
  ASSUME RegInv, PramStep, Outside
  PROVE  RegInv'
<1> USE DEF RegInv, Typed, PramPcs
<1>1. PramIt /\ AccTyped'
  BY PramFields
<1>2. UNCHANGED <<task, stat, regs, eeprom, eep_read_size, asked, csr>>
  BY <1>1 DEF Outside, app, PramIt
<1>3. pc \in PramPcs /\ Doing = "move" /\ Doing' = "move" /\ acc.part = "data"
  BY <1>1, <1>2, PramDoing DEF PramIt, Doing
<1>4. ~csr.busy \/ hw_fault
  BY <1>3 DEF Handshake
<1>5. ~Pending
  BY <1>3 DEF PendingKind
<1>6. CASE pc' \in PramPcs /\ acc'.part = "data"
  <2>1. Shape'
    BY <1>1, <1>3, <1>6 DEF Shape, MoveShape, Tasks, PramIt
  <2>2. CommandShape' /\ Handshake' /\ PendingKind' /\ AckFresh'
    BY <1>1, <1>2, <1>3, <1>4, <1>5, <1>6 DEF CommandShape, Handshake, PendingKind, AckFresh, Pending, PramIt, InHand
  <2> QED BY <1>1, <1>2, <2>1, <2>2 DEF CsrTyped, Stored, PramIt
<1>7. CASE Ends
  <2>0. pc' = "done" \/ (pc' = "cmd" /\ acc'.part = "tail" /\ acc'.at = ALEVENT /\ acc'.left = 4)
    BY <1>7 DEF Ends
  <2>1. Shape'
    BY <1>1, <1>3, <2>0 DEF Shape, MoveShape, Tasks, PramIt, Ended, OnTail, At
  <2>2. CommandShape' /\ Handshake' /\ PendingKind' /\ AckFresh'
    BY <1>1, <1>2, <1>3, <1>4, <1>5, <2>0 DEF CommandShape, Handshake, PendingKind, AckFresh, Pending, PramIt, InHand
  <2> QED BY <1>1, <1>2, <2>1, <2>2 DEF CsrTyped, Stored, PramIt
<1> QED BY <1>1, <1>3, <1>6, <1>7 DEF PramIt

-----------------------------------------------------------------------------
\* The chip.
Unmoved == UNCHANGED <<hw_fault, pc, acc, sawBusy, task>>
LEMMA UnmovedKeeps ==
  ASSUME Unmoved
  PROVE  /\ AccTyped' = AccTyped /\ Shape' = Shape /\ AckFresh' = AckFresh /\ ChunkWords' = ChunkWords
         /\ Chunk' = Chunk /\ Reading' = Reading /\ Doing' = Doing
<1>1. acc' = acc /\ pc' = pc /\ task' = task /\ hw_fault' = hw_fault
  BY DEF Unmoved
<1>2. Chunk' = Chunk /\ Reading' = Reading /\ Doing' = Doing
  BY <1>1 DEF Chunk, Reading, Doing
<1>3. AccTyped' = AccTyped /\ AckFresh' = AckFresh
  BY <1>1, Zenon DEF AccTyped, AckFresh, Doing
<1>4. ChunkWords' = ChunkWords
  BY <1>1, <1>2 DEF ChunkWords, FrameSize
<1>5. Shape' = Shape
  BY <1>1, Zenon DEF Shape, Doing, InitShape, PollShape, StatusShape, TakeShape, AckShape, DataShape, MoveShape,
         ReadsAt, WritesAt, Ended, OnTail, Access, At
<1> QED BY <1>2, <1>3, <1>4, <1>5, Zenon

LEMMA WrittenTyped ==
  ASSUME regs \in [Cells -> Nat], NEW at \in Int, NEW data \in Seq(Nat), Len(data) \in Nat \ {0}
  PROVE  Written(regs, at, data) \in [Cells -> Nat]
<1>1. ASSUME NEW a \in Cells
      PROVE  (IF at = EECONTSTAT /\ a = at THEN data[1] % 32768
              ELSE IF at = EECONTSTAT /\ a = ALEVENT THEN 0
              ELSE IF \E i \in 1 .. Len(data) : a = at + 2 * (i - 1) THEN data[(a - at) \div 2 + 1] ELSE regs[a]) \in Nat
  <2>1. data[1] \in Nat
    OBVIOUS
  <2>2. data[1] % 32768 \in Nat
    BY <2>1
  <2>3. ASSUME NEW i \in 1 .. Len(data), a = at + 2 * (i - 1) PROVE data[(a - at) \div 2 + 1] \in Nat
    <3>1. (a - at) \div 2 + 1 = i
      BY <2>3
    <3>2. data[i] \in Nat
      OBVIOUS
    <3> QED BY <3>1, <3>2
  <2>4. regs[a] \in Nat
    OBVIOUS
  <2>5. CASE at = EECONTSTAT /\ a = at
    BY <2>2, <2>5
  <2>6. CASE ~(at = EECONTSTAT /\ a = at) /\ at = EECONTSTAT /\ a = ALEVENT
    BY <2>6
  <2>7. CASE ~(at = EECONTSTAT /\ a = at) /\ ~(at = EECONTSTAT /\ a = ALEVENT)
    BY <2>3, <2>4, <2>7
  <2> QED BY <2>5, <2>6, <2>7
<1> QED BY <1>1 DEF Written

LEMMA Done ==
  ASSUME CsrTyped
  PROVE  /\ csr' = [csr EXCEPT !.busy = FALSE] =>
            CsrTyped' /\ ~csr'.busy /\ csr'.dir = csr.dir /\ csr'.at = csr.at /\ csr'.size = csr.size /\ csr'.data = csr.data
         /\ \A d \in Seq(Nat) : csr' = [csr EXCEPT !.busy = FALSE, !.data = d] =>
            CsrTyped' /\ ~csr'.busy /\ csr'.dir = csr.dir /\ csr'.at = csr.at /\ csr'.size = csr.size /\ csr'.data = d
<1>1. csr' = [csr EXCEPT !.busy = FALSE] =>
        CsrTyped' /\ ~csr'.busy /\ csr'.dir = csr.dir /\ csr'.at = csr.at /\ csr'.size = csr.size /\ csr'.data = csr.data
  BY DEF CsrTyped
<1>2. ASSUME NEW d \in Seq(Nat), csr' = [csr EXCEPT !.busy = FALSE, !.data = d]
      PROVE  CsrTyped' /\ ~csr'.busy /\ csr'.dir = csr.dir /\ csr'.at = csr.at /\ csr'.size = csr.size /\ csr'.data = d
  BY <1>2, Zenon DEF CsrTyped
<1> QED BY <1>1, <1>2

ChipReads == /\ csr.busy /\ csr.dir = "read" /\ Unmoved /\ UNCHANGED <<regs, fifo, pmem, before>>
             /\ csr' = [csr EXCEPT !.busy = FALSE, !.data = WordsAt(csr.at, csr.size)]
ChipWrites == /\ Pending /\ Unmoved /\ UNCHANGED <<fifo, pmem, before>>
              /\ csr' = [csr EXCEPT !.busy = FALSE] /\ regs' = Written(regs, csr.at, csr.data)
LEMMA ChipKinds ==
  ASSUME CsrTyped, CommandShape, ChipCommand(Written(regs, csr.at, csr.data)), Outside
  PROVE  ChipReads \/ ChipWrites
<1>1. csr.busy /\ csr.dir \in {"read", "write"} /\ Unmoved /\ UNCHANGED <<fifo, pmem, before>>
  BY DEF ChipCommand, CsrTyped, CommandShape, halVars, Unmoved, Outside, app
<1>2. CASE csr.dir = "read"
  BY <1>1, <1>2, Zenon DEF ChipCommand, ChipReads
<1>3. CASE csr.dir = "write"
  BY <1>1, <1>3 DEF ChipCommand, ChipWrites, Pending
<1> QED BY <1>1, <1>2, <1>3

LEMMA WordsReadTyped ==
  ASSUME CsrTyped, CommandShape, regs \in [Cells -> Nat], csr.busy, csr.dir = "read"
  PROVE  WordsAt(csr.at, csr.size) \in Seq(Nat)
<1>1. PICK n \in Nat : n = WordsNeeded(csr.size)
  BY DEF CsrTyped, WordsNeeded
<1>2. \A i \in 1 .. n : regs[csr.at + 2 * (i - 1)] \in Nat
  BY <1>1 DEF CommandShape
<1>3. WordsAt(csr.at, csr.size) = [i \in 1 .. n |-> regs[csr.at + 2 * (i - 1)]]
  BY <1>1 DEF WordsAt
<1> QED BY <1>1, <1>2, <1>3

LEMMA ChipStepRegInv ==
  ASSUME RegInv, ChipReads \/ ChipWrites, UNCHANGED <<stat, eeprom, eep_read_size, asked>>
  PROVE  RegInv'
<1> USE DEF RegInv, Typed
<1>1. Unmoved /\ pc' = pc /\ acc' = acc /\ hw_fault' = hw_fault /\ sawBusy' = sawBusy
  BY DEF ChipReads, ChipWrites, Unmoved
<1>2. /\ AccTyped' /\ Shape' /\ AckFresh' /\ ChunkWords' = ChunkWords
      /\ Chunk' = Chunk /\ Reading' = Reading /\ Doing' = Doing
  BY <1>1, UnmovedKeeps
<1>3. /\ CsrTyped' /\ ~csr'.busy /\ csr'.dir = csr.dir /\ csr'.at = csr.at /\ csr'.size = csr.size
      /\ csr.dir # "read" => csr'.data = csr.data
  <2>1. CASE ChipReads
    BY <2>1, WordsReadTyped, Done DEF ChipReads, Stored
  <2>2. CASE ChipWrites
    BY <2>2, Done DEF ChipWrites
  <2> QED BY <2>1, <2>2
<1>4. Stored'
  <2>1. CASE ChipReads
    BY <2>1 DEF ChipReads, Stored
  <2>2. CASE ChipWrites
    <3>1. csr.at \in Int /\ csr.data \in Seq(Nat)
      BY DEF CsrTyped
    <3>2. Len(csr.data) \in Nat \ {0}
      <4>1. Len(csr.data) = 1 \/ Len(csr.data) = 2
        BY <2>2 DEF ChipWrites, CommandShape
      <4> QED BY <4>1
    <3>3. Written(regs, csr.at, csr.data) \in [Cells -> Nat]
      BY <3>1, <3>2, WrittenTyped DEF Stored
    <3> QED BY <2>2, <3>3 DEF ChipWrites, Stored
  <2> QED BY <2>1, <2>2
<1>5. csr.busy
  BY DEF ChipReads, ChipWrites, Pending
<1>6. CommandShape'
  BY <1>1, <1>2, <1>3, <1>5 DEF CommandShape, Pending
<1>7. Handshake' /\ PendingKind'
  BY <1>1, <1>2, <1>3, <1>5 DEF Handshake, PendingKind, Pending, Mine, InHand
<1> QED BY <1>1, <1>2, <1>3, <1>4, <1>6, <1>7

FifoSteps == (ChipFills \/ ChipDrains) /\ Outside
LEMMA FifoStepRegInv ==
  ASSUME RegInv, FifoSteps
  PROVE  RegInv'
<1> USE DEF RegInv, Typed
<1>1. Unmoved /\ pc' = pc /\ acc' = acc /\ hw_fault' = hw_fault /\ sawBusy' = sawBusy /\ csr' = csr
      /\ UNCHANGED <<regs, stat, eeprom, eep_read_size, asked>>
  BY DEF FifoSteps, ChipFills, ChipDrains, halVars, Outside, app, Unmoved
<1>2. /\ AccTyped' /\ Shape' /\ AckFresh' /\ ChunkWords' = ChunkWords
      /\ Chunk' = Chunk /\ Reading' = Reading /\ Doing' = Doing
  BY <1>1, UnmovedKeeps
<1>3. CsrTyped' /\ Stored' /\ Pending' = Pending
  BY <1>1 DEF CsrTyped, Stored, Pending
<1>4. CommandShape'
  BY <1>1, <1>2, <1>3 DEF CommandShape, Pending
<1>5. Handshake' /\ PendingKind'
  BY <1>1, <1>2, <1>3 DEF Handshake, PendingKind, Mine
<1> QED BY <1>1, <1>2, <1>3, <1>4, <1>5

\* The master.
LEMMA MasterStepRegInv ==
  ASSUME RegInv, MasterCommands \/ MasterConfigures
  PROVE  RegInv'
<1> USE DEF RegInv, Typed
<1>1. Unmoved /\ pc' = pc /\ acc' = acc /\ hw_fault' = hw_fault /\ sawBusy' = sawBusy /\ csr' = csr
      /\ UNCHANGED <<stat, eeprom, eep_read_size>>
  BY DEF MasterCommands, MasterConfigures, halVars, app, Unmoved
<1>2. /\ AccTyped' /\ Shape' /\ AckFresh' /\ ChunkWords' = ChunkWords
      /\ Chunk' = Chunk /\ Reading' = Reading /\ Doing' = Doing
  BY <1>1, UnmovedKeeps
<1>3. asked' \subseteq Commands /\ regs' \in [Cells -> Nat]
  <2>1. CASE MasterCommands
    <3>1. PICK c \in Commands :
       /\ asked' = {c}
       /\ regs' = [regs EXCEPT ![EECONTSTAT] = IF AckErr(regs[EECONTSTAT]) THEN WithAckErr(Command(c.cmd)) ELSE Command(c.cmd),
                               ![EECONTSTAT + 2] = c.addr, ![EECONTSTAT + 4] = 0, ![EEDATA] = c.data, ![ALEVENT] = 32]
      BY <2>1, Zenon DEF MasterCommands
    <3>2. c.cmd \in Nat /\ c.addr \in Nat /\ c.data \in Nat
      BY EepromAssumption
    <3>3. PICK v \in Nat : v = IF AckErr(regs[EECONTSTAT]) THEN WithAckErr(Command(c.cmd)) ELSE Command(c.cmd)
      BY <3>2 DEF WithAckErr, Command
    <3>4. PICK addr \in Nat, data \in Nat : addr = c.addr /\ data = c.data
      BY <3>2
    <3>5. regs' = [regs EXCEPT ![EECONTSTAT] = v, ![EECONTSTAT + 2] = addr, ![EECONTSTAT + 4] = 0,
                               ![EEDATA] = data, ![ALEVENT] = 32]
      BY <3>1, <3>3, <3>4, Zenon
    <3>6. regs \in [Cells -> Nat]
      BY DEF Stored
    <3>7. regs' \in [Cells -> Nat]
      BY <3>5, <3>6, Zenon, 0 \in Nat, 32 \in Nat
    <3> QED BY <3>1, <3>7
  <2>2. CASE MasterConfigures
    <3>1. PICK a : regs' = [regs EXCEPT ![a] = 2]
      BY <2>2, Zenon DEF MasterConfigures
    <3> QED BY <2>2, <3>1 DEF Stored, MasterConfigures
  <2> QED BY <2>1, <2>2
<1>4. CsrTyped' /\ Stored' /\ Pending' = Pending
  BY <1>1, <1>3 DEF CsrTyped, Stored, Pending
<1>5. CommandShape'
  BY <1>1, <1>2, <1>4 DEF CommandShape, Pending
<1>6. Handshake' /\ PendingKind'
  BY <1>1, <1>2, <1>4 DEF Handshake, PendingKind, Mine
<1> QED BY <1>1, <1>2, <1>4, <1>5, <1>6

-----------------------------------------------------------------------------
\* The next access.
Allowed(name, dir, start, len, buf) ==
  \/ name = "poll" /\ dir = "read" /\ start = ALEVENT /\ len = 4 /\ buf = <<>>
  \/ name = "status" /\ dir = "read" /\ start = EECONTSTAT /\ len = 6 /\ buf = <<>>
  \/ name = "take" /\ dir = "read" /\ start = EEDATA /\ len = 2 /\ buf = <<>> /\ ~Pending
  \/ name = "ack" /\ dir = "write" /\ start = EECONTSTAT /\ len = 2 /\ IsWords(buf, 1)
  \/ /\ name = "data" /\ dir = "write" /\ start = EEDATA /\ ~Pending
     /\ \E n \in {1, 2, 4} : len = 2 * n /\ IsWords(buf, n)
  \/ name = "move" /\ start >= PRAM
Quiet == UNCHANGED <<hw_fault, csr>>

LEMMA ZerosOf ==
  /\ IsWords(Zeros(6), 3) /\ Zeros(6)[1] = 0
  /\ IsWords(Zeros(2), 1)
<1>1. WordsNeeded(6) = 3 /\ WordsNeeded(2) = 1
  BY DEF WordsNeeded
<1>2. Zeros(6) = [i \in 1 .. 3 |-> 0] /\ Zeros(2) = [i \in 1 .. 1 |-> 0]
  BY <1>1 DEF Zeros
<1>3. [i \in 1 .. 3 |-> 0] \in Seq(Nat) /\ Len([i \in 1 .. 3 |-> 0]) = 3 /\ [i \in 1 .. 3 |-> 0][1] = 0
  OBVIOUS
<1>4. [i \in 1 .. 1 |-> 0] \in Seq(Nat) /\ Len([i \in 1 .. 1 |-> 0]) = 1
  OBVIOUS
<1> QED BY <1>2, <1>3, <1>4, Zenon DEF IsWords

LEMMA Resting ==
  ASSUME RegInv, pc \in {"idle", "done"}
  PROVE  (~hw_fault => ~csr.busy) /\ (Pending => hw_fault)
  BY DEF RegInv, Handshake, Pending

LEMMA BeginShape ==
  ASSUME NEW name, NEW dir \in {"read", "write"}, NEW start \in Nat, NEW len \in Nat, NEW buf,
         Allowed(name, dir, start, len, buf), task' = <<name>>, hw_fault \in BOOLEAN,
         Begun(dir, start, len, FirstBuf(dir, start, len, buf)), pc' = FirstPc(dir, start)
  PROVE  Shape'
<1> USE DEF Begun, At, Access
<1>1. Doing' = name
  BY DEF Doing
<1>2. start < PRAM => pc' = IF hw_fault THEN "done" ELSE IF dir = "read" THEN "cmd" ELSE "put"
  BY DEF FirstPc, PRAM
<1>3. ALEVENT < PRAM /\ EECONTSTAT < PRAM /\ EEDATA < PRAM
  BY DEF ALEVENT, EECONTSTAT, EEDATA, PRAM
<1>4. CASE name = "poll"
  <2>1. PollShape'
    BY <1>2, <1>3, <1>4 DEF Allowed, PollShape, ReadsAt, FirstBuf
  <2> QED BY <1>1, <1>2, <1>3, <1>4, <2>1 DEF Shape, Tasks, Allowed
<1>5. CASE name = "status"
  <2>1. start = EECONTSTAT /\ len = 6 /\ buf = <<>> /\ dir = "read"
    BY <1>5 DEF Allowed
  <2>2. CASE hw_fault
    <3>1. acc'.buf = Zeros(6)
      BY <1>3, <2>1, <2>2 DEF FirstBuf, EECONTSTAT, PRAM
    <3>2. IsWords(acc'.buf, 3) /\ pc' = "done"
      BY <1>2, <1>3, <2>1, <2>2, <3>1, ZerosOf
    <3>3. StatusShape'
      BY <2>1, <3>2 DEF StatusShape, Ended
    <3> QED BY <1>1, <1>5, <3>2, <3>3 DEF Shape, Tasks
  <2>3. CASE ~hw_fault
    <3>3. StatusShape'
      BY <1>2, <1>3, <2>1, <2>3 DEF StatusShape, ReadsAt, FirstBuf
    <3> QED BY <1>1, <1>2, <1>3, <1>5, <2>1, <2>3, <3>3 DEF Shape, Tasks
  <2> QED BY <2>2, <2>3
<1>6. CASE name = "take"
  <2>1. start = EEDATA /\ len = 2 /\ buf = <<>> /\ dir = "read"
    BY <1>6 DEF Allowed
  <2>2. CASE hw_fault
    <3>1. acc'.buf = Zeros(2)
      BY <1>3, <2>1, <2>2 DEF FirstBuf, EEDATA, PRAM
    <3>2. IsWords(acc'.buf, 1) /\ pc' = "done"
      BY <1>2, <1>3, <2>1, <2>2, <3>1, ZerosOf
    <3>3. TakeShape'
      BY <2>1, <3>2 DEF TakeShape, Ended
    <3> QED BY <1>1, <1>6, <3>2, <3>3 DEF Shape, Tasks
  <2>3. CASE ~hw_fault
    <3>3. TakeShape'
      BY <1>2, <1>3, <2>1, <2>3 DEF TakeShape, ReadsAt, FirstBuf
    <3> QED BY <1>1, <1>2, <1>3, <1>6, <2>1, <2>3, <3>3 DEF Shape, Tasks
  <2> QED BY <2>2, <2>3
<1>7. CASE name = "ack"
  <2>1. start = EECONTSTAT /\ len = 2 /\ IsWords(buf, 1) /\ dir = "write" /\ acc'.buf = buf
    BY <1>7 DEF Allowed, FirstBuf
  <2>2. AckShape'
    BY <1>2, <1>3, <2>1 DEF AckShape, WritesAt, Ended, IsWords
  <2> QED BY <1>1, <1>2, <1>3, <1>7, <2>1, <2>2 DEF Shape, Tasks
<1>8. CASE name = "data"
  <2>1. PICK n \in {1, 2, 4} : len = 2 * n /\ IsWords(buf, n)
    BY <1>8 DEF Allowed
  <2>2. start = EEDATA /\ dir = "write" /\ acc'.buf = buf
    BY <1>8 DEF Allowed, FirstBuf
  <2>3. pc' = "done" \/ pc' = "put"
    BY <1>2, <1>3, <2>2
  <2>4. IsWords(acc'.buf, n) /\ (WritesAt(EEDATA, 2 * n) \/ Ended)'
    BY <2>1, <2>2, <2>3 DEF WritesAt, Ended, IsWords
  <2>5. DataShape'
    BY <2>1, <2>2, <2>4 DEF DataShape, IsWords
  <2> QED BY <1>1, <1>8, <2>3, <2>5 DEF Shape, Tasks
<1>9. CASE name = "move"
  <2>1. start >= PRAM
    BY <1>9 DEF Allowed
  <2>2. MoveShape' /\ pc' # "idle"
    BY <2>1 DEF MoveShape, FirstPc, PramPcs, Ended
  <2> QED BY <1>1, <1>9, <2>2 DEF Shape, Tasks
<1> QED BY <1>4, <1>5, <1>6, <1>7, <1>8, <1>9 DEF Allowed

LEMMA BeginRegInv ==
  ASSUME RegInv, pc \in {"idle", "done"}, Stored',
         NEW name, NEW dir \in {"read", "write"}, NEW start \in Nat, NEW len \in Nat, NEW buf,
         Allowed(name, dir, start, len, buf), task' = <<name>>, Begin(dir, start, len, buf)
  PROVE  RegInv'
<1> USE DEF RegInv, Typed
<1>1. /\ Begun(dir, start, len, FirstBuf(dir, start, len, buf)) /\ AccTyped' /\ pc' = FirstPc(dir, start)
      /\ hw_fault' = hw_fault /\ csr' = csr
  BY BeginIt
<1>2. Shape'
  BY <1>1, BeginShape
<1>3. Doing' = name
  BY DEF Doing
<1>4. (~hw_fault => ~csr.busy) /\ (Pending => hw_fault)
  BY Resting
<1>5. pc' \in {"done", "abort", "cmd", "put"} /\ (hw_fault <=> pc' = "done") /\ (pc' = "cmd" => dir = "read")
  BY <1>1 DEF FirstPc
<1>6. CsrTyped' /\ Pending' = Pending
  BY <1>1 DEF CsrTyped, Pending
<1>7. acc'.dir = dir /\ acc'.buf = FirstBuf(dir, start, len, buf)
  BY <1>1 DEF Begun
<1>8. CommandShape'
  BY <1>1, <1>4, <1>5, <1>6, <1>7 DEF CommandShape, Pending
<1>9. Handshake' /\ AckFresh'
  BY <1>1, <1>4, <1>5 DEF Handshake, InHand, AckFresh
<1>10. ASSUME name = "status", hw_fault PROVE ~Busy(acc'.buf[1])
  <2>1. acc'.buf = Zeros(6)
    BY <1>7, <1>10 DEF Allowed, FirstBuf, EECONTSTAT, PRAM
  <2> QED BY <2>1, ZerosOf DEF Busy
<1>11. Pending => name # "data" /\ name # "take" /\ name # "init"
  BY DEF Allowed
<1>12. PendingKind'
  BY <1>1, <1>3, <1>4, <1>5, <1>6, <1>10, <1>11 DEF PendingKind
<1> QED BY <1>1, <1>2, <1>6, <1>8, <1>9, <1>12

LEMMA RawRegInv ==
  ASSUME RegInv, ~Pending, Stored', NEW i \in 1 .. 4, InitRead(i), UNCHANGED csr,
         hw_fault' \in BOOLEAN, ~hw_fault' => ~csr.busy
  PROVE  RegInv'
<1> USE DEF RegInv, Typed
<1>1. PICK start \in Nat, len \in Nat : start = InitReads[i].at /\ len = InitReads[i].len
  <2>1. i \in {1, 2, 3, 4}
    OBVIOUS
  <2> QED BY <2>1, InitReadsAre DEF ALSTATUS, SYNCACT, DCOFFSET
<1>2. ESC_read_csr(start, len)
  BY <1>1, Zenon DEF InitRead
<1>3. /\ acc'.dir = "read" /\ acc'.start = start /\ acc'.len = len /\ acc'.at = start /\ acc'.left = len
      /\ acc'.part = "raw" /\ AccTyped' /\ pc' = "cmd"
  BY <1>2, RawFields
<1>4. task' = <<"init", i>>
  BY DEF InitRead
<1>5. Doing' = "init" /\ task'[2] = i
  BY <1>4 DEF Doing
<1>6. InitShape'
  BY <1>1, <1>3, <1>5 DEF InitShape, Access, At
<1>7. Shape'
  BY <1>3, <1>5, <1>6 DEF Shape, Tasks
<1>8. CsrTyped' /\ Pending' = Pending
  BY DEF CsrTyped, Pending
<1>9. CommandShape'
  BY <1>3, <1>8 DEF CommandShape, Pending
<1>10. Handshake' /\ AckFresh' /\ PendingKind'
  BY <1>3, <1>5, <1>8 DEF Handshake, InHand, AckFresh, PendingKind
<1> QED BY <1>3, <1>7, <1>8, <1>9, <1>10

LEMMA ReturnsRegInv ==
  ASSUME RegInv, pc = "done", Stored', pc' = "idle", acc' = NoAccess, task' = <<"idle">>, UNCHANGED csr,
         hw_fault' = hw_fault \/ hw_fault' = TRUE
  PROVE  RegInv'
<1> USE DEF RegInv, Typed
<1>1. Doing' = "idle"
  BY DEF Doing
<1>2. (~hw_fault => ~csr.busy) /\ (Pending => hw_fault)
  BY Resting
<1>3. AccTyped'
  BY DEF AccTyped, Accesses, NoAccess
<1>4. Shape'
  BY <1>1 DEF Shape, Tasks
<1>5. CsrTyped' /\ Pending' = Pending
  BY DEF CsrTyped, Pending
<1>6. CommandShape'
  BY <1>2, <1>5 DEF CommandShape, NoAccess, Pending
<1>7. Handshake' /\ AckFresh' /\ PendingKind'
  BY <1>1, <1>2, <1>5 DEF Handshake, InHand, AckFresh, PendingKind
<1> QED BY <1>3, <1>4, <1>5, <1>6, <1>7

-----------------------------------------------------------------------------
\* The steps of ESC_init, of the main loop and of EEP_process.
ServedWord(cmd, addr) == IF cmd = EEP_CMD_RELOAD /\ eep_read_size = 4 THEN 4 ELSE addr
ServedLen(cmd) == IF cmd = EEP_CMD_RELOAD /\ eep_read_size = 4 THEN 1 ELSE eep_read_size \div 2
Control == acc.buf[1]
Address == acc.buf[2] + 65536 * acc.buf[3]
ServedKind ==
  /\ Busy(Control)
  /\ \/ /\ Cmd(Control) = EEP_CMD_IDLE /\ Acknowledge(NoErrors(Control)) /\ UNCHANGED <<stat, eeprom>>
     \/ /\ Cmd(Control) \in {EEP_CMD_READ, EEP_CMD_RELOAD}
        /\ EEP_reads(ServedWord(Cmd(Control), Address), ServedLen(Cmd(Control)))
        /\ Next_access("data", ESC_write(EEDATA, 2 * ServedLen(Cmd(Control)),
                                         WordsOf(ServedWord(Cmd(Control), Address), ServedLen(Cmd(Control)))))
        /\ stat' = <<NoErrors(Control), ServedWord(Cmd(Control), Address)>> /\ UNCHANGED eeprom
     \/ /\ Cmd(Control) \in {EEP_CMD_READ, EEP_CMD_RELOAD}
        /\ ~EEP_reads(ServedWord(Cmd(Control), Address), ServedLen(Cmd(Control)))
        /\ Acknowledge(WithAckErr(NoErrors(Control))) /\ UNCHANGED <<stat, eeprom>>
     \/ /\ Cmd(Control) = EEP_CMD_WRITE /\ Next_access("take", ESC_read(EEDATA, 2))
        /\ stat' = <<NoErrors(Control), Address>> /\ UNCHANGED eeprom
     \/ /\ Cmd(Control) \notin {EEP_CMD_IDLE, EEP_CMD_READ, EEP_CMD_RELOAD, EEP_CMD_WRITE}
        /\ Acknowledge(WithAckErr(NoErrors(Control))) /\ UNCHANGED <<stat, eeprom>>

LEMMA ServeKinds ==
  ASSUME eep_read_size \in {4, 8}, Serve
  PROVE  /\ pc = "done" /\ Doing = "status" /\ Client
         /\ (~Busy(Control) /\ Returns) \/ ServedKind
<1>1. pc = "done" /\ Doing = "status" /\ Client
  BY DEF Serve, Doing
<1>2. CASE ~Busy(Control) /\ Returns
  BY <1>1, <1>2, Zenon
<1>3. CASE Busy(Control) /\ Cmd(Control) = EEP_CMD_IDLE /\ Acknowledge(NoErrors(Control)) /\ UNCHANGED <<stat, eeprom>>
  BY <1>1, <1>3, Zenon DEF ServedKind
<1>4. ASSUME NEW cmd \in {EEP_CMD_READ, EEP_CMD_RELOAD}, Busy(Control), Cmd(Control) = cmd, UNCHANGED eeprom,
             Fetched(ServedWord(cmd, Address), ServedLen(cmd))
      PROVE  ServedKind
  <2>1. CASE EEP_reads(ServedWord(cmd, Address), ServedLen(cmd))
    BY <1>4, <2>1, Zenon DEF ServedKind, Fetched, Control
  <2>2. CASE ~EEP_reads(ServedWord(cmd, Address), ServedLen(cmd))
    BY <1>4, <2>2, Zenon DEF ServedKind, Fetched, Control
  <2> QED BY <2>1, <2>2
<1>5. CASE Busy(Control) /\ Cmd(Control) = EEP_CMD_READ /\ Fetched(Address, eep_read_size \div 2) /\ UNCHANGED eeprom
  <2>1. ServedWord(EEP_CMD_READ, Address) = Address /\ ServedLen(EEP_CMD_READ) = eep_read_size \div 2
    BY DEF ServedWord, ServedLen, EEP_CMD_READ, EEP_CMD_RELOAD
  <2> QED BY <1>1, <1>4, <1>5, <2>1, Zenon
<1>6. CASE /\ Busy(Control) /\ Cmd(Control) = EEP_CMD_RELOAD /\ UNCHANGED eeprom
           /\ IF eep_read_size = 8 THEN Fetched(Address, 4) ELSE Fetched(4, 1)
  <2>1. CASE eep_read_size = 8
    <3>1. ServedWord(EEP_CMD_RELOAD, Address) = Address /\ ServedLen(EEP_CMD_RELOAD) = 4
      BY <2>1 DEF ServedWord, ServedLen
    <3> QED BY <1>1, <1>4, <1>6, <2>1, <3>1, Zenon
  <2>2. CASE eep_read_size = 4
    <3>1. ServedWord(EEP_CMD_RELOAD, Address) = 4 /\ ServedLen(EEP_CMD_RELOAD) = 1 /\ eep_read_size # 8
      BY <2>2 DEF ServedWord, ServedLen
    <3> QED BY <1>1, <1>4, <1>6, <2>2, <3>1, Zenon
  <2> QED BY <2>1, <2>2
<1>7. CASE /\ Busy(Control) /\ Cmd(Control) = EEP_CMD_WRITE
           /\ Next_access("take", ESC_read(EEDATA, 2)) /\ stat' = <<NoErrors(Control), Address>> /\ UNCHANGED eeprom
  BY <1>1, <1>7, Zenon DEF ServedKind
<1>8. CASE /\ Busy(Control) /\ Cmd(Control) \notin {EEP_CMD_IDLE, EEP_CMD_READ, EEP_CMD_RELOAD, EEP_CMD_WRITE}
           /\ Acknowledge(WithAckErr(NoErrors(Control))) /\ UNCHANGED <<stat, eeprom>>
  BY <1>1, <1>8, Zenon DEF ServedKind
<1> HIDE DEF Control
<1>9. CASE ~Busy(Control)
  BY <1>1, <1>2, <1>9 DEF Serve, Control
<1>10. CASE Busy(Control) /\ Cmd(Control) = EEP_CMD_IDLE
  BY <1>1, <1>3, <1>10 DEF Serve, Control, EEP_CMD_IDLE, EEP_CMD_READ, EEP_CMD_RELOAD, EEP_CMD_WRITE
<1>11. CASE Busy(Control) /\ Cmd(Control) = EEP_CMD_READ
  BY <1>1, <1>5, <1>11 DEF Serve, Control, Address, EEP_CMD_IDLE, EEP_CMD_READ, EEP_CMD_RELOAD, EEP_CMD_WRITE
<1>12. CASE Busy(Control) /\ Cmd(Control) = EEP_CMD_RELOAD
  BY <1>1, <1>6, <1>12 DEF Serve, Control, Address, EEP_CMD_IDLE, EEP_CMD_READ, EEP_CMD_RELOAD, EEP_CMD_WRITE
<1>13. CASE Busy(Control) /\ Cmd(Control) = EEP_CMD_WRITE
  BY <1>1, <1>7, <1>13 DEF Serve, Control, Address, EEP_CMD_IDLE, EEP_CMD_READ, EEP_CMD_RELOAD, EEP_CMD_WRITE
<1>14. CASE Busy(Control) /\ Cmd(Control) \notin {EEP_CMD_IDLE, EEP_CMD_READ, EEP_CMD_RELOAD, EEP_CMD_WRITE}
  BY <1>1, <1>8, <1>14 DEF Serve, Control, EEP_CMD_IDLE, EEP_CMD_READ, EEP_CMD_RELOAD, EEP_CMD_WRITE
<1> QED BY <1>9, <1>10, <1>11, <1>12, <1>13, <1>14, Zenon

LEMMA StatusNats ==
  ASSUME Shape, pc = "done", Doing = "status"
  PROVE  /\ IsWords(acc.buf, 3) /\ Control \in Nat /\ acc.buf[2] \in Nat /\ acc.buf[3] \in Nat /\ Address \in Nat
         /\ NoErrors(Control) \in Nat /\ WithAckErr(NoErrors(Control)) \in Nat
<1>1. PICK b \in Seq(Nat) : b = acc.buf /\ Len(b) = 3
  BY DEF Shape, StatusShape, ReadsAt, InHand, IsWords
<1>2. b[1] \in Nat /\ b[2] \in Nat /\ b[3] \in Nat
  BY <1>1
<1>3. PICK c \in Nat, x \in Nat, y \in Nat : c = Control /\ x = acc.buf[2] /\ y = acc.buf[3]
  BY <1>1, <1>2 DEF Control
<1>4. c % 2048 \in Nat /\ c \div 32768 \in Nat
  OBVIOUS
<1>5. NoErrors(c) \in Nat
  BY <1>4 DEF NoErrors
<1>6. WithAckErr(NoErrors(c)) \in Nat
  BY <1>5 DEF WithAckErr
<1> QED BY <1>1, <1>3, <1>5, <1>6 DEF IsWords, Address

LEMMA WordsOfAre ==
  ASSUME eeprom \in [EepWords -> Nat], NEW word \in Nat, NEW n \in Nat
  PROVE  IsWords(WordsOf(word, n), n)
<1>1. ASSUME NEW i \in 1 .. n PROVE (IF word + i - 1 \in EepWords THEN eeprom[word + i - 1] ELSE 0) \in Nat
  OBVIOUS
<1> QED BY <1>1 DEF WordsOf, IsWords

LEMMA One ==
  ASSUME NEW v \in Nat
  PROVE  IsWords(<<v>>, 1) /\ <<v>>[1] = v
  BY DEF IsWords

LEMMA AckRegInv ==
  ASSUME RegInv, pc = "done", Stored', NEW v \in Nat, Acknowledge(v)
  PROVE  RegInv'
<1>1. task' = <<"ack">> /\ Begin("write", EECONTSTAT, 2, <<v>>)
  BY Zenon DEF Acknowledge, Next_access, ESC_write
<1>2. Allowed("ack", "write", EECONTSTAT, 2, <<v>>)
  BY One DEF Allowed
<1>3. 2 \in Nat /\ EECONTSTAT \in Nat /\ "write" \in {"read", "write"} /\ pc \in {"idle", "done"}
  BY DEF EECONTSTAT
<1> QED BY <1>1, <1>2, <1>3, BeginRegInv, Zenon

LEMMA ServeRegInv ==
  ASSUME RegInv, Serve
  PROVE  RegInv'
<1> USE DEF RegInv, Typed
<1>1. eep_read_size \in {4, 8} /\ eeprom \in [EepWords -> Nat]
  BY DEF Stored
<1>2. /\ pc = "done" /\ Doing = "status" /\ Client
      /\ (~Busy(Control) /\ Returns) \/ ServedKind
  BY <1>1, ServeKinds
<1>3. /\ IsWords(acc.buf, 3) /\ Control \in Nat /\ Address \in Nat
      /\ NoErrors(Control) \in Nat /\ WithAckErr(NoErrors(Control)) \in Nat
  BY <1>2, StatusNats
<1>4. Busy(Control) => ~Pending
  BY <1>2 DEF PendingKind, Control
<1>5. UNCHANGED <<asked, eep_read_size>>
  BY <1>2 DEF Client
<1>6. ASSUME UNCHANGED <<stat, eeprom, regs>> PROVE Stored'
  BY <1>5, <1>6 DEF Stored
<1>7. ASSUME NEW v, Acknowledge(v) PROVE UNCHANGED regs
  BY <1>7 DEF Acknowledge, Next_access, ESC_write, Begin, chipVars
<1>8. ASSUME NEW v \in Nat, Acknowledge(v), UNCHANGED <<stat, eeprom>> PROVE RegInv'
  BY <1>2, <1>6, <1>7, <1>8, AckRegInv
<1>9. CASE Returns
  <2>1. UNCHANGED <<stat, eeprom, regs, csr, hw_fault>> /\ pc' = "idle" /\ acc' = NoAccess /\ task' = <<"idle">>
    BY <1>9 DEF Returns, chipVars
  <2> QED BY <1>2, <1>6, <2>1, ReturnsRegInv
<1>10. ASSUME Busy(Control), NEW n \in {1, 2, 4}, NEW word \in Nat, UNCHANGED eeprom, stat' = <<NoErrors(Control), word>>,
              Next_access("data", ESC_write(EEDATA, 2 * n, WordsOf(word, n)))
       PROVE  RegInv'
  <2>1. task' = <<"data">> /\ Begin("write", EEDATA, 2 * n, WordsOf(word, n))
    BY <1>10, Zenon DEF Next_access, ESC_write
  <2>2. IsWords(WordsOf(word, n), n)
    BY <1>1, WordsOfAre
  <2>3. Allowed("data", "write", EEDATA, 2 * n, WordsOf(word, n))
    BY <1>4, <1>10, <2>2 DEF Allowed
  <2>4. UNCHANGED regs
    BY <2>1 DEF Begin, chipVars
  <2>5. Stored'
    BY <1>3, <1>5, <1>10, <2>4 DEF Stored
  <2>6. 2 * n \in Nat /\ EEDATA \in Nat /\ "write" \in {"read", "write"} /\ pc \in {"idle", "done"}
    BY <1>2 DEF EEDATA
  <2> QED BY <2>1, <2>3, <2>5, <2>6, BeginRegInv, Zenon
<1>11. CASE /\ Busy(Control) /\ Next_access("take", ESC_read(EEDATA, 2))
            /\ stat' = <<NoErrors(Control), Address>> /\ UNCHANGED eeprom
  <2>1. task' = <<"take">> /\ Begin("read", EEDATA, 2, <<>>)
    BY <1>11, Zenon DEF Next_access, ESC_read
  <2>3. Allowed("take", "read", EEDATA, 2, <<>>)
    BY <1>4, <1>11 DEF Allowed
  <2>4. UNCHANGED regs
    BY <2>1 DEF Begin, chipVars
  <2>5. Stored'
    BY <1>3, <1>5, <1>11, <2>4 DEF Stored
  <2>6. 2 \in Nat /\ EEDATA \in Nat /\ "read" \in {"read", "write"} /\ pc \in {"idle", "done"}
    BY <1>2 DEF EEDATA
  <2> QED BY <2>1, <2>3, <2>5, <2>6, BeginRegInv, Zenon
<1>12. CASE ServedKind
  <2>1. /\ ServedLen(Cmd(Control)) \in {1, 2, 4} /\ ServedWord(Cmd(Control), Address) \in Nat
    BY <1>1, <1>3 DEF ServedLen, ServedWord
  <2> QED BY <1>3, <1>8, <1>10, <1>11, <1>12, <2>1, Zenon DEF ServedKind
<1> QED BY <1>2, <1>9, <1>12

LEMMA StatusRegInv ==
  ASSUME RegInv, pc = "done", ReadStatus, UNCHANGED <<stat, eeprom, eep_read_size, asked>>
  PROVE  RegInv'
<1>1. task' = <<"status">> /\ Begin("read", EECONTSTAT, 6, <<>>)
  BY Zenon DEF ReadStatus, Next_access, ESC_read
<1>2. Allowed("status", "read", EECONTSTAT, 6, <<>>)
  BY DEF Allowed
<1>3. 6 \in Nat /\ EECONTSTAT \in Nat /\ "read" \in {"read", "write"} /\ pc \in {"idle", "done"}
  BY DEF EECONTSTAT
<1>4. Stored'
  BY <1>1 DEF Begin, chipVars, Stored, RegInv, Typed
<1> QED BY <1>1, <1>2, <1>3, <1>4, BeginRegInv, Zenon

LEMMA LoopRegInv ==
  ASSUME RegInv, Poll \/ Event \/ DataWritten \/ Acknowledged \/ MoveReturns
  PROVE  RegInv'
<1> USE DEF RegInv, Typed
<1>1. ASSUME pc = "done", Returns, Client PROVE RegInv'
  <2>1. UNCHANGED <<stat, eeprom, regs, csr, hw_fault, asked, eep_read_size>>
        /\ pc' = "idle" /\ acc' = NoAccess /\ task' = <<"idle">>
    BY <1>1 DEF Returns, chipVars, Client
  <2>2. Stored'
    BY <2>1 DEF Stored
  <2> QED BY <1>1, <2>1, <2>2, ReturnsRegInv
<1>2. CASE Poll
  <2>1. task' = <<"poll">> /\ Begin("read", ALEVENT, 4, <<>>) /\ pc = "idle"
    BY <1>2, Zenon DEF Poll, Next_access, ESC_read
  <2>2. Allowed("poll", "read", ALEVENT, 4, <<>>)
    BY DEF Allowed
  <2>3. 4 \in Nat /\ ALEVENT \in Nat /\ "read" \in {"read", "write"} /\ pc \in {"idle", "done"}
    BY <2>1 DEF ALEVENT
  <2>4. Stored'
    BY <1>2, <2>1 DEF Poll, Client, Begin, chipVars, Stored
  <2> QED BY <2>1, <2>2, <2>3, <2>4, BeginRegInv, Zenon
<1>3. CASE Event
  <2>1. CASE Returns
    BY <1>1, <1>3, <2>1, Zenon DEF Event
  <2>2. CASE ReadStatus /\ UNCHANGED <<stat, eeprom>>
    <3>1. pc = "done" /\ UNCHANGED <<asked, eep_read_size>>
      BY <1>3 DEF Event, Client
    <3> QED BY <2>2, <3>1, StatusRegInv
  <2> QED BY <1>3, <2>1, <2>2, Zenon DEF Event
<1>4. CASE DataWritten
  <2>1. Acknowledge(stat[1]) /\ pc = "done" /\ stat[1] \in Nat
    BY <1>4, Zenon DEF DataWritten, Stored
  <2>2. UNCHANGED regs
    BY <2>1 DEF Acknowledge, Next_access, ESC_write, Begin, chipVars
  <2>3. Stored'
    BY <1>4, <2>2 DEF DataWritten, Client, Stored
  <2> QED BY <2>1, <2>3, AckRegInv
<1>5. CASE Acknowledged
  <2>1. pc = "done" /\ ReadStatus /\ UNCHANGED <<stat, eeprom, eep_read_size, asked>>
    BY <1>5 DEF Acknowledged, Client
  <2> QED BY <2>1, StatusRegInv
<1>6. CASE MoveReturns
  BY <1>1, <1>6, Zenon DEF MoveReturns
<1> QED BY <1>2, <1>3, <1>4, <1>5, <1>6

LEMMA StoreRegInv ==
  ASSUME RegInv, Store
  PROVE  RegInv'
<1> USE DEF RegInv, Typed
<1>1. pc = "done" /\ Doing = "take" /\ UNCHANGED <<stat, asked, eep_read_size>>
  BY DEF Store, Doing, Client
<1>2. acc.buf[1] \in Nat
  <2>1. IsWords(acc.buf, 1)
    BY <1>1 DEF Shape, TakeShape, ReadsAt, InHand
  <2> QED BY <2>1 DEF IsWords
<1>3. stat[1] \in Nat /\ WithAckErr(stat[1]) \in Nat
  BY DEF Stored, WithAckErr
<1>4. ASSUME NEW v, Acknowledge(v) PROVE UNCHANGED regs
  BY <1>4 DEF Acknowledge, Next_access, ESC_write, Begin, chipVars
<1>5. CASE Acknowledge(stat[1]) /\ eeprom' = [eeprom EXCEPT ![stat[2]] = acc.buf[1]]
  <2>1. Stored'
    BY <1>1, <1>2, <1>4, <1>5 DEF Stored
  <2> QED BY <1>1, <1>3, <1>5, <2>1, AckRegInv
<1>6. CASE Acknowledge(WithAckErr(stat[1])) /\ UNCHANGED eeprom
  <2>1. Stored'
    BY <1>1, <1>4, <1>6 DEF Stored
  <2> QED BY <1>1, <1>3, <1>6, <2>1, AckRegInv
<1> QED BY <1>5, <1>6, Zenon DEF Store

LEMMA MoveRegInv ==
  ASSUME RegInv, Move
  PROVE  RegInv'
<1> USE DEF RegInv, Typed
<1>1. pc = "idle" /\ task' = <<"move">> /\ UNCHANGED <<stat, asked, eep_read_size, eeprom>>
  BY DEF Move
<1>2. PICK m \in Moves : IF m.dir = "read" THEN ESC_read(m.start, Len(m.buf)) ELSE ESC_write(m.start, Len(m.buf), m.buf)
  BY Zenon DEF Move
<1>3. m.dir \in {"read", "write"} /\ m.start \in Nat /\ m.start >= PRAM /\ Len(m.buf) \in Nat
  BY EepromAssumption
<1>4. PICK buf : Begin(m.dir, m.start, Len(m.buf), buf)
  BY <1>2, <1>3 DEF ESC_read, ESC_write
<1>5. Allowed("move", m.dir, m.start, Len(m.buf), buf)
  BY <1>3 DEF Allowed
<1>6. Stored'
  BY <1>1, <1>4 DEF Begin, chipVars, Stored
<1> QED BY <1>1, <1>3, <1>4, <1>5, <1>6, BeginRegInv

LEMMA PowerUpTyped == PowerUp \in [Cells -> Nat]
  BY DEF PowerUp, ESCinit

LEMMA InitStepsRegInv ==
  ASSUME RegInv, InitReadNext \/ InitDecides \/ Restart
  PROVE  RegInv'
<1> USE DEF RegInv, Typed
<1>1. CASE InitReadNext
  <2>1. pc = "done" /\ Doing = "init" /\ UNCHANGED <<hw_fault, stat, eep_read_size, eeprom, asked, csr, regs>>
    BY <1>1 DEF InitReadNext, InitRead, Doing
  <2>2. PICK i \in 1 .. 4 : InitRead(i)
    <3>1. task[2] + 1 \in 1 .. 4 /\ InitRead(task[2] + 1)
      BY <1>1, <2>1, InitReadsAre DEF Shape, InitShape, InitReadNext
    <3> QED BY <3>1, Zenon
  <2>3. ~Pending /\ (~hw_fault => ~csr.busy)
    BY <2>1, Resting DEF PendingKind
  <2>4. Stored'
    BY <2>1 DEF Stored
  <2> QED BY <2>1, <2>2, <2>3, <2>4, RawRegInv
<1>2. CASE InitDecides
  <2>1. pc = "done" /\ pc' = "idle" /\ acc' = NoAccess /\ task' = <<"idle">> /\ UNCHANGED <<csr, stat, eep_read_size, eeprom>>
    BY <1>2 DEF InitDecides
  <2>2. (hw_fault' = hw_fault \/ hw_fault' = TRUE) /\ (regs' = PowerUp \/ regs' = regs) /\ (asked' = {} \/ asked' = asked)
    BY <1>2, Zenon DEF InitDecides
  <2>3. Stored'
    BY <2>1, <2>2, PowerUpTyped DEF Stored
  <2> QED BY <2>1, <2>2, <2>3, ReturnsRegInv
<1>3. CASE Restart
  <2>1. /\ ~csr.busy /\ hw_fault' = FALSE /\ UNCHANGED <<csr, regs, eep_read_size, eeprom, asked>> /\ stat' = <<0, 0>>
        /\ ESC_read_csr(InitReads[1].at, InitReads[1].len) /\ task' = <<"init", 1>>
    BY <1>3 DEF Restart
  <2>2. Stored'
    BY <2>1 DEF Stored
  <2>3. PICK start \in Nat, len \in Nat : start = InitReads[1].at /\ len = InitReads[1].len
    BY InitReadsAre DEF ALSTATUS
  <2>4. /\ acc'.dir = "read" /\ acc'.start = start /\ acc'.len = len /\ acc'.at = start /\ acc'.left = len
        /\ acc'.part = "raw" /\ AccTyped' /\ pc' = "cmd"
    BY <2>1, <2>3, RawFields
  <2>5. Doing' = "init" /\ task'[2] = 1
    BY <2>1 DEF Doing
  <2>6. InitShape'
    BY <2>3, <2>4, <2>5 DEF InitShape, Access, At
  <2>7. Shape'
    BY <2>4, <2>5, <2>6 DEF Shape, Tasks
  <2>8. CsrTyped' /\ ~Pending'
    BY <2>1 DEF CsrTyped, Pending
  <2>9. CommandShape'
    BY <2>1, <2>4, <2>8 DEF CommandShape, Pending
  <2>10. Handshake' /\ AckFresh' /\ PendingKind'
    BY <2>1, <2>4, <2>5, <2>8 DEF Handshake, InHand, AckFresh, PendingKind
  <2> QED BY <2>1, <2>2, <2>4, <2>7, <2>8, <2>9, <2>10
<1> QED BY <1>1, <1>2, <1>3

LEMMA InitRegInv ==
  ASSUME Init
  PROVE  RegInv
<1> USE DEF RegInv, Typed
<1>1. /\ hw_fault = FALSE /\ pc = "cmd" /\ csr = NoCommand /\ task = <<"init", 1>> /\ stat = <<0, 0>> /\ asked = {}
      /\ acc = [NoAccess EXCEPT !.dir = "read", !.start = ALSTATUS, !.len = 2, !.at = ALSTATUS, !.left = 2, !.part = "raw"]
      /\ eep_read_size \in {4, 8} /\ eeprom = [w \in EepWords |-> 100 + w]
      /\ regs = IF older THEN [PowerUp EXCEPT ![DCOFFSET + 6] = 2, ![EECONTSTAT] = WithAckErr(0)] ELSE PowerUp
  BY DEF Init
<1>2. acc = [dir |-> "read", start |-> ALSTATUS, len |-> 2, at |-> ALSTATUS, left |-> 2, buf |-> <<>>, part |-> "raw"]
  BY <1>1 DEF NoAccess
<1>3. AccTyped
  BY <1>2 DEF AccTyped, Accesses, ALSTATUS
<1>4. CsrTyped /\ ~csr.busy /\ ~Pending
  BY <1>1 DEF CsrTyped, NoCommand, Pending
<1>5. Stored
  <2>1. regs \in [Cells -> Nat]
    <3>1. CASE older
      <4>1. regs = [PowerUp EXCEPT ![DCOFFSET + 6] = 2, ![EECONTSTAT] = WithAckErr(0)]
        BY <1>1, <3>1, Zenon
      <4>2. 2 \in Nat /\ WithAckErr(0) \in Nat
        BY DEF WithAckErr
      <4> QED BY <4>1, <4>2, PowerUpTyped, Zenon
    <3>2. CASE ~older
      BY <1>1, <3>2, PowerUpTyped
    <3> QED BY <3>1, <3>2
  <2>2. eeprom \in [EepWords -> Nat]
    BY <1>1, EepromAssumption
  <2> QED BY <1>1, <2>1, <2>2 DEF Stored
<1>6. Doing = "init" /\ task[2] = 1
  BY <1>1 DEF Doing
<1>7. InitShape
  BY <1>1, <1>2, <1>6, InitReadsAre DEF InitShape, Access, At
<1>8. Shape
  BY <1>1, <1>6, <1>7 DEF Shape, Tasks
<1>9. CommandShape
  BY <1>2, <1>4 DEF CommandShape
<1>10. Handshake /\ AckFresh /\ PendingKind
  BY <1>1, <1>4, <1>6 DEF Handshake, InHand, AckFresh, PendingKind
<1> QED BY <1>1, <1>3, <1>4, <1>5, <1>8, <1>9, <1>10

\* What the registers become by a command of the master.
CommandedBy(c) ==
  /\ asked' = {c} /\ ~Busy(Status)
  /\ Status' \in {Command(c.cmd), WithAckErr(Command(c.cmd))} /\ regs'[EECONTSTAT + 2] = c.addr
  /\ regs'[EECONTSTAT + 4] = 0 /\ regs'[EEDATA] = c.data
  /\ \A a \in Cells \ {EECONTSTAT, EECONTSTAT + 2, EECONTSTAT + 4, EEDATA, ALEVENT} : regs'[a] = regs[a]
LEMMA CommandIt ==
  ASSUME MasterCommands, regs \in [Cells -> Nat]
  PROVE  \E c \in Commands : CommandedBy(c)
<1>1. PICK c \in Commands :
       /\ asked' = {c}
       /\ regs' = [regs EXCEPT ![EECONTSTAT] = IF AckErr(regs[EECONTSTAT]) THEN WithAckErr(Command(c.cmd)) ELSE Command(c.cmd),
                               ![EECONTSTAT + 2] = c.addr, ![EECONTSTAT + 4] = 0, ![EEDATA] = c.data, ![ALEVENT] = 32]
  BY Zenon DEF MasterCommands
<1>2. PICK v \in {Command(c.cmd), WithAckErr(Command(c.cmd))} :
        v = IF AckErr(regs[EECONTSTAT]) THEN WithAckErr(Command(c.cmd)) ELSE Command(c.cmd)
  OBVIOUS
<1>3. PICK addr, data : addr = c.addr /\ data = c.data
  OBVIOUS
<1>4. regs' = [regs EXCEPT ![EECONTSTAT] = v, ![EECONTSTAT + 2] = addr, ![EECONTSTAT + 4] = 0, ![EEDATA] = data, ![ALEVENT] = 32]
  BY <1>1, <1>2, <1>3, Zenon
<1>5. /\ {EECONTSTAT, EECONTSTAT + 2, EECONTSTAT + 4, EEDATA, ALEVENT} \subseteq Cells
      /\ EECONTSTAT # EECONTSTAT + 2 /\ EECONTSTAT # EECONTSTAT + 4 /\ EECONTSTAT # EEDATA /\ EECONTSTAT # ALEVENT
      /\ EECONTSTAT + 2 # EECONTSTAT + 4 /\ EECONTSTAT + 2 # EEDATA /\ EECONTSTAT + 2 # ALEVENT
      /\ EECONTSTAT + 4 # EEDATA /\ EECONTSTAT + 4 # ALEVENT /\ EEDATA # ALEVENT
  BY CellsAre DEF ALEVENT, EECONTSTAT, EEDATA
<1>6. /\ regs'[EECONTSTAT] = v /\ regs'[EECONTSTAT + 2] = addr /\ regs'[EECONTSTAT + 4] = 0 /\ regs'[EEDATA] = data
      /\ \A a \in Cells \ {EECONTSTAT, EECONTSTAT + 2, EECONTSTAT + 4, EEDATA, ALEVENT} : regs'[a] = regs[a]
  <2> HIDE DEF EECONTSTAT, EEDATA, ALEVENT
  <2> QED BY <1>4, <1>5
<1>7. ~Busy(Status)
  BY DEF MasterCommands, Status
<1> QED BY <1>1, <1>2, <1>3, <1>6, <1>7 DEF CommandedBy, Status

\* One step, by what it is.
LEMMA NextKinds ==
  ASSUME Next
  PROVE  \/ CsrStep /\ Outside
         \/ PramStep /\ Outside
         \/ ChipCommand(Written(regs, csr.at, csr.data)) /\ Outside
         \/ FifoSteps
         \/ InitReadNext \/ InitDecides \/ Restart
         \/ Poll \/ Event \/ DataWritten \/ Acknowledged \/ MoveReturns
         \/ Serve \/ Store \/ Move
         \/ MasterCommands \/ MasterConfigures
  BY Zenon DEF Next, Process, HalStep, Hal, Fails, FrameFails, Chip, Environment, EEP_process, CsrStep, PramStep, FifoSteps

LEMMA StepRegInv ==
  ASSUME RegInv, [Next]_vars
  PROVE  RegInv'
<1>1. CASE UNCHANGED vars
  <2>1. UNCHANGED <<hw_fault, pc, acc, sawBusy, csr, regs, task, stat, eep_read_size, eeprom, asked>>
    BY <1>1 DEF vars, lanVars, halVars, chipVars, app
  <2>2. Unmoved
    BY <2>1 DEF Unmoved
  <2>3. Mine' = Mine
    BY <2>1, <2>2, UnmovedKeeps DEF Mine
  <2> QED BY <2>1, <2>2, <2>3, UnmovedKeeps DEF RegInv, Typed, CsrTyped, Stored, CommandShape, Handshake, PendingKind, Pending
<1>2. CASE Next
  <2>1. CASE ChipCommand(Written(regs, csr.at, csr.data)) /\ Outside
    <3>1. ChipReads \/ ChipWrites
      BY <2>1, ChipKinds DEF RegInv, Typed
    <3>2. UNCHANGED <<stat, eeprom, eep_read_size, asked>>
      BY <2>1 DEF Outside, app
    <3> QED BY <3>1, <3>2, ChipStepRegInv
  <2> QED BY <1>2, <2>1, NextKinds, CsrStepRegInv, PramStepRegInv, FifoStepRegInv, InitStepsRegInv, LoopRegInv,
             ServeRegInv, StoreRegInv, MoveRegInv, MasterStepRegInv, Zenon
<1> QED BY <1>1, <1>2

\* The type invariant, the access every frame belongs to and the command of the chip.
THEOREM RegistersInvariant == Spec => []RegInv
<1>1. Init => RegInv
  BY InitRegInv
<1>2. RegInv /\ [Next]_vars => RegInv'
  BY StepRegInv
<1> QED BY <1>1, <1>2, PTL DEF Spec

-----------------------------------------------------------------------------
\* What ESC_init has read is what is there, if a master had configured the ESC.
LEMMA WordsAtInit ==
  ASSUME NEW i \in 1 .. 4
  PROVE  /\ WordsAt(InitReads[i].at, csr_chunk_size(InitReads[i].at, InitReads[i].len)) = WordsOfRead(i)
         /\ Len(WordsOfRead(i)) = WordsNeeded(csr_chunk_size(InitReads[i].at, InitReads[i].len))
<1>1. WordsNeeded(1) = 1 /\ WordsNeeded(2) = 1 /\ WordsNeeded(4) = 2
  BY DEF WordsNeeded
<1>2. ASSUME NEW at \in Nat PROVE [k \in 1 .. 1 |-> regs[at + 2 * (k - 1)]] = <<regs[at]>>
  OBVIOUS
<1>3. ASSUME NEW at \in Nat PROVE [k \in 1 .. 2 |-> regs[at + 2 * (k - 1)]] = <<regs[at], regs[at + 2]>>
  OBVIOUS
<1>4. ALSTATUS \in Nat /\ SYNCACT \in Nat /\ DCOFFSET \in Nat /\ DCOFFSET + 4 \in Nat /\ (DCOFFSET + 4) + 2 = DCOFFSET + 6
  BY DEF ALSTATUS, SYNCACT, DCOFFSET
<1>5. CASE i = 1
  BY <1>1, <1>2, <1>4, <1>5, InitReadsAre, Chunks DEF WordsAt, WordsOfRead
<1>6. CASE i = 2
  BY <1>1, <1>2, <1>4, <1>6, InitReadsAre, Chunks DEF WordsAt, WordsOfRead
<1>7. CASE i = 3
  BY <1>1, <1>3, <1>4, <1>7, InitReadsAre, Chunks DEF WordsAt, WordsOfRead
<1>8. CASE i = 4
  BY <1>1, <1>3, <1>4, <1>8, InitReadsAre, Chunks DEF WordsAt, WordsOfRead
<1> QED BY <1>5, <1>6, <1>7, <1>8

LEMMA JoinTwo ==
  ASSUME NEW a, NEW b
  PROVE  <<a>> \o <<b>> = <<a, b>>
<1> DEFINE s == <<a>> \o <<b>>
<1> DEFINE t == <<a, b>>
<1>1. PICK S : S = {a, b}
  BY Zenon
<1>2. /\ <<a>> \in Seq(S) /\ <<b>> \in Seq(S) /\ t \in Seq(S) /\ Len(t) = 2
      /\ t[1] = a /\ t[2] = b
  BY <1>1
<1>3. s \in Seq(S) /\ Len(s) = 2
  BY <1>2
<1>4. s[1] = a /\ s[2] = b
  OBVIOUS
<1> HIDE DEF s, t
<1>5. \A i \in 1 .. 2 : s[i] = t[i]
  BY <1>2, <1>4
<1>6. s = t
  BY <1>2, <1>3, <1>5, SeqEqual
<1> QED BY <1>6 DEF s, t

LEMMA JoinFour ==
  ASSUME NEW a, NEW b, NEW c, NEW d
  PROVE  <<a, b>> \o <<c, d>> = <<a, b, c, d>>
<1> DEFINE s == <<a, b>> \o <<c, d>>
<1> DEFINE t == <<a, b, c, d>>
<1>1. PICK S : S = {a, b, c, d}
  BY Zenon
<1>2. /\ <<a, b>> \in Seq(S) /\ <<c, d>> \in Seq(S) /\ t \in Seq(S) /\ Len(t) = 4
      /\ t[1] = a /\ t[2] = b /\ t[3] = c /\ t[4] = d
  BY <1>1
<1>3. s \in Seq(S) /\ Len(s) = 4
  BY <1>2
<1>4. s[1] = a /\ s[2] = b /\ s[3] = c /\ s[4] = d
  OBVIOUS
<1> HIDE DEF s, t
<1>5. \A i \in 1 .. 4 : s[i] = t[i]
  BY <1>2, <1>4
<1>6. s = t
  BY <1>2, <1>3, <1>5, SeqEqual
<1> QED BY <1>6 DEF s, t

LEMMA JoinSix ==
  ASSUME NEW a, NEW b, NEW c, NEW d, NEW e, NEW f
  PROVE  <<a, b, c, d>> \o <<e, f>> = <<a, b, c, d, e, f>>
<1> DEFINE s == <<a, b, c, d>> \o <<e, f>>
<1> DEFINE t == <<a, b, c, d, e, f>>
<1>1. PICK S : S = {a, b, c, d, e, f}
  BY Zenon
<1>2. /\ <<a, b, c, d>> \in Seq(S) /\ <<e, f>> \in Seq(S) /\ t \in Seq(S) /\ Len(t) = 6
      /\ t[1] = a /\ t[2] = b /\ t[3] = c /\ t[4] = d /\ t[5] = e /\ t[6] = f
  BY <1>1
<1>3. s \in Seq(S) /\ Len(s) = 6
  BY <1>2
<1>4. s[1] = a /\ s[2] = b /\ s[3] = c /\ s[4] = d /\ s[5] = e /\ s[6] = f
  OBVIOUS
<1> HIDE DEF s, t
<1>5. \A i \in 1 .. 6 : s[i] = t[i]
  BY <1>2, <1>4
<1>6. s = t
  BY <1>2, <1>3, <1>5, SeqEqual
<1> QED BY <1>6 DEF s, t

LEMMA FoundNext ==
  /\ \A i \in 1 .. 3 : FoundBefore(i) \o WordsOfRead(i) = FoundBefore(i + 1)
  /\ FoundBefore(4) \o WordsOfRead(4) = <<regs[ALSTATUS], regs[SYNCACT], regs[DCOFFSET], regs[DCOFFSET + 2],
                                          regs[DCOFFSET + 4], regs[DCOFFSET + 6]>>
<1>1. <<>> \o <<regs[ALSTATUS]>> = <<regs[ALSTATUS]>>
  OBVIOUS
<1>2. FoundBefore(1) \o WordsOfRead(1) = FoundBefore(2)
  BY <1>1 DEF FoundBefore, WordsOfRead
<1>6. /\ FoundBefore(2) = <<regs[ALSTATUS]>> /\ FoundBefore(3) = <<regs[ALSTATUS], regs[SYNCACT]>>
      /\ FoundBefore(4) = <<regs[ALSTATUS], regs[SYNCACT], regs[DCOFFSET], regs[DCOFFSET + 2]>>
  BY DEF FoundBefore
<1>7. /\ WordsOfRead(2) = <<regs[SYNCACT]>> /\ WordsOfRead(3) = <<regs[DCOFFSET], regs[DCOFFSET + 2]>>
      /\ WordsOfRead(4) = <<regs[DCOFFSET + 4], regs[DCOFFSET + 6]>>
  BY DEF WordsOfRead
<1>3. FoundBefore(2) \o WordsOfRead(2) = FoundBefore(3)
  BY <1>6, <1>7, JoinTwo, Zenon
<1>4. FoundBefore(3) \o WordsOfRead(3) = FoundBefore(4)
  BY <1>6, <1>7, JoinFour, Zenon
<1>5. FoundBefore(4) \o WordsOfRead(4) = <<regs[ALSTATUS], regs[SYNCACT], regs[DCOFFSET], regs[DCOFFSET + 2],
                                          regs[DCOFFSET + 4], regs[DCOFFSET + 6]>>
  <2>1. <<regs[ALSTATUS], regs[SYNCACT], regs[DCOFFSET], regs[DCOFFSET + 2]>> \o <<regs[DCOFFSET + 4], regs[DCOFFSET + 6]>>
        = <<regs[ALSTATUS], regs[SYNCACT], regs[DCOFFSET], regs[DCOFFSET + 2], regs[DCOFFSET + 4], regs[DCOFFSET + 6]>>
    BY JoinSix
  <2> QED BY <1>6, <1>7, <2>1
<1>8. ASSUME NEW i \in 1 .. 3 PROVE FoundBefore(i) \o WordsOfRead(i) = FoundBefore(i + 1)
  <2>1. (i = 1 /\ i + 1 = 2) \/ (i = 2 /\ i + 1 = 3) \/ (i = 3 /\ i + 1 = 4)
    OBVIOUS
  <2> QED BY <1>2, <1>3, <1>4, <2>1, Zenon
<1> QED BY <1>5, <1>8

\* The registers ESC_init reads.
InitCells == {ALSTATUS, SYNCACT, DCOFFSET, DCOFFSET + 2, DCOFFSET + 4, DCOFFSET + 6}
LEMMA SameInit ==
  ASSUME \A a \in InitCells : regs'[a] = regs[a]
  PROVE  /\ Configured(regs)' = Configured(regs)
         /\ \A i \in 1 .. 4 : WordsOfRead(i)' = WordsOfRead(i) /\ FoundBefore(i)' = FoundBefore(i)
<1>1. /\ regs'[ALSTATUS] = regs[ALSTATUS] /\ regs'[SYNCACT] = regs[SYNCACT] /\ regs'[DCOFFSET] = regs[DCOFFSET]
      /\ regs'[DCOFFSET + 2] = regs[DCOFFSET + 2] /\ regs'[DCOFFSET + 4] = regs[DCOFFSET + 4]
      /\ regs'[DCOFFSET + 6] = regs[DCOFFSET + 6]
  BY DEF InitCells
<1>2. \A i \in 0 .. 3 : regs'[DCOFFSET + 2 * i] = regs[DCOFFSET + 2 * i]
  <2>1. ASSUME NEW i \in {0, 1, 2, 3} PROVE DCOFFSET + 2 * i \in InitCells
    BY DEF InitCells, DCOFFSET
  <2> QED BY <2>1
<1>3. Configured(regs)' = Configured(regs)
  BY <1>1, <1>2 DEF Configured
<1>4. ASSUME NEW i \in 1 .. 4 PROVE WordsOfRead(i)' = WordsOfRead(i) /\ FoundBefore(i)' = FoundBefore(i)
  BY <1>1 DEF WordsOfRead, FoundBefore
<1> QED BY <1>3, <1>4

LEMMA OlderStays ==
  ASSUME OlderKept, Doing = "init", UNCHANGED <<task, found, older>>, \A a \in InitCells : regs'[a] = regs[a],
         hw_fault => hw_fault',
         ~hw_fault' /\ older /\ Read' => (Read /\ csr' = csr) \/ csr'.data = WordsOfRead(task[2]),
         ~hw_fault' /\ older /\ pc' = "done" => (pc = "done" /\ acc' = acc) \/ acc'.buf = WordsOfRead(task[2]),
         task[2] \in 1 .. 4
  PROVE  OlderKept'
<1>1. /\ Configured(regs)' = Configured(regs)
      /\ WordsOfRead(task[2])' = WordsOfRead(task[2]) /\ FoundBefore(task[2])' = FoundBefore(task[2])
  BY SameInit
<1> QED BY <1>1 DEF OlderKept, Doing

LEMMA OlderStep ==
  ASSUME RegInv, RegInv', OlderKept, Next
  PROVE  OlderKept'
<1> USE DEF RegInv, Typed
<1>1. ASSUME Doing' # "init" PROVE OlderKept'
  BY <1>1 DEF OlderKept
<1>2. Doing = "init" => task[2] \in 1 .. 4 /\ InitShape
  BY DEF Shape, InitShape
<1>3. CASE CsrStep /\ Outside
  <2>1. SUFFICES ASSUME Doing = "init" PROVE OlderKept'
    BY <1>1, <1>3 DEF Outside, app, Doing
  <2>2. /\ UNCHANGED <<task, found, older, regs>> /\ Kinds
    BY <1>3, CsrKinds DEF Lasting, Outside, app, Kinds
  <2>3. pc \in CsrPcs
    BY <2>2, KindsPc
  <2>4. /\ acc.part = "raw" /\ acc.dir = "read" /\ Reading /\ InitShape
        /\ Chunk = csr_chunk_size(InitReads[task[2]].at, InitReads[task[2]].len)
    BY <1>2, <2>1, <2>3 DEF InitShape, Access, Reading, CsrPcs, At, Chunk
  <2>5. CASE Putting
    BY <2>1, <2>5, PutShape
  <2>6. CASE Sending
    <3>1. csr'.busy /\ pc' = "busy" /\ hw_fault' = hw_fault
      BY <2>6, SentShape, <2>2 DEF Sending, SentIt
    <3> QED BY <1>2, <2>1, <2>2, <3>1, OlderStays DEF Read
  <2>7. CASE Waiting
    <3>1. csr' = csr /\ hw_fault' = hw_fault /\ pc' # "done" /\ (Read' => Read)
      BY <2>7 DEF Waiting, Read, InHand
    <3> QED BY <1>2, <2>1, <2>2, <3>1, OlderStays
  <2>8. CASE Getting
    <3>1. csr' = csr /\ hw_fault' = hw_fault /\ pc' = "done" /\ acc'.buf = Shown /\ pc \in InHand
      BY <2>4, <2>8 DEF Getting, TookIt, InHand
    <3>2. ASSUME ~hw_fault, older PROVE acc'.buf = WordsOfRead(task[2])
      <4>1. ~csr.busy
        BY <2>8, <3>2 DEF Getting, Handshake
      <4>2. csr.data = WordsOfRead(task[2])
        BY <2>1, <3>1, <3>2, <4>1 DEF OlderKept, Read
      <4>3. Len(csr.data) = FrameSize
        BY <1>2, <2>1, <2>4, <4>2, WordsAtInit DEF FrameSize
      <4> QED BY <2>3, <3>1, <4>1, <4>2, <4>3, ShownAre
    <3> QED BY <1>2, <2>1, <2>2, <3>1, <3>2, OlderStays DEF Read, InHand
  <2>9. CASE WriteOver
    BY <2>4, <2>9 DEF WriteOver
  <2>10. CASE Failing
    BY <1>2, <2>1, <2>2, <2>10, OlderStays DEF Failing
  <2> QED BY <2>2, <2>5, <2>6, <2>7, <2>8, <2>9, <2>10 DEF Kinds
<1>4. CASE PramStep /\ Outside
  <2>1. Doing = "move"
    BY <1>4, PramFields, PramDoing DEF PramIt
  <2> QED BY <1>1, <1>4, <2>1 DEF Outside, app, Doing
<1>5. CASE ChipCommand(Written(regs, csr.at, csr.data)) /\ Outside
  <2>1. SUFFICES ASSUME Doing = "init" PROVE OlderKept'
    BY <1>1, <1>5 DEF Outside, app, Doing
  <2>2. ChipReads
    BY <1>5, <2>1, ChipKinds DEF PendingKind, ChipWrites
  <2>3. UNCHANGED <<task, found, older, regs, hw_fault, pc, acc>>
    BY <1>5, <2>2 DEF ChipReads, Unmoved, Outside, app
  <2>4. ASSUME ~hw_fault PROVE csr'.data = WordsOfRead(task[2])
    <3>1. csr.busy /\ pc \in InHand /\ Mine
      BY <2>2, <2>4 DEF ChipReads, Handshake, InHand
    <3>2. csr.at = InitReads[task[2]].at /\ csr.size = csr_chunk_size(InitReads[task[2]].at, InitReads[task[2]].len)
      BY <1>2, <2>1, <3>1 DEF InitShape, InHand, At, Mine, Chunk
    <3>3. csr'.data = WordsAt(csr.at, csr.size)
      BY <2>2, WordsReadTyped, Done DEF ChipReads, Stored
    <3> QED BY <1>2, <2>1, <3>2, <3>3, WordsAtInit
  <2> QED BY <1>2, <2>1, <2>3, <2>4, OlderStays
<1>6. CASE FifoSteps
  <2>1. UNCHANGED <<task, found, older, regs, hw_fault, pc, acc, csr>>
    BY <1>6 DEF FifoSteps, ChipFills, ChipDrains, halVars, Outside, app
  <2> QED BY <1>1, <1>2, <2>1, OlderStays DEF Doing, Read
<1>7. CASE MasterCommands
  <2>1. UNCHANGED <<task, found, older, hw_fault, pc, acc, csr>>
    BY <1>7 DEF MasterCommands, halVars, app
  <2>2. \A a \in InitCells : a \in Cells /\ a \notin {EECONTSTAT, EECONTSTAT + 2, EECONTSTAT + 4, EEDATA, ALEVENT}
    BY CellsAre DEF InitCells, ALSTATUS, SYNCACT, DCOFFSET, ALEVENT, EECONTSTAT, EEDATA
  <2>3. PICK c \in Commands : CommandedBy(c)
    BY <1>7, CommandIt DEF Stored
  <2>5. \A a \in InitCells : regs'[a] = regs[a]
    BY <2>2, <2>3 DEF CommandedBy
  <2> QED BY <1>1, <1>2, <2>1, <2>5, OlderStays DEF Doing, Read
<1>8. CASE MasterConfigures
  <2>1. Doing = "init" /\ ~Configured(regs) /\ UNCHANGED <<task, found, older, hw_fault, pc, acc, csr>>
    BY <1>8 DEF MasterConfigures, halVars, app, Doing
  <2>2. ~older
    BY <2>1 DEF OlderKept
  <2> QED BY <2>1, <2>2 DEF OlderKept
<1>9. CASE InitReadNext
  <2>1. /\ pc = "done" /\ Doing = "init" /\ task[2] < 4 /\ found' = found \o acc.buf /\ InitRead(task[2] + 1)
        /\ UNCHANGED <<hw_fault, older, regs>>
    BY <1>9, InitReadsAre DEF InitReadNext, InitRead, Doing
  <2>2. task' = <<"init", task[2] + 1>> /\ pc' = "cmd"
    BY <2>1 DEF InitRead, ESC_read_csr
  <2>3. PICK i \in 1 .. 3 : i = task[2]
    BY <1>2, <2>1
  <2>4. task'[2] = i + 1 /\ i + 1 \in 1 .. 4
    BY <2>2, <2>3
  <2>5. ASSUME older, ~hw_fault PROVE found' = FoundBefore(i + 1)
    BY <2>1, <2>3, <2>5, FoundNext DEF OlderKept
  <2>6. FoundBefore(i + 1)' = FoundBefore(i + 1) /\ Configured(regs)' = Configured(regs)
    BY <2>1, <2>4, SameInit
  <2> QED BY <2>1, <2>2, <2>4, <2>5, <2>6 DEF OlderKept, Read, InHand
<1>10. CASE Restart
  <2>1. found' = <<>> /\ older' = Configured(regs) /\ task' = <<"init", 1>> /\ pc' = "cmd" /\ regs' = regs
    BY <1>10 DEF Restart, ESC_read_csr
  <2>2. Doing' = "init" /\ task'[2] = 1 /\ Configured(regs)' = Configured(regs) /\ FoundBefore(1)' = <<>>
    BY <2>1, SameInit DEF Doing, FoundBefore
  <2> QED BY <2>1, <2>2 DEF OlderKept, Read, InHand
<1>11. CASE InitDecides \/ Poll \/ Event \/ DataWritten \/ Acknowledged \/ MoveReturns \/ Serve \/ Store \/ Move
  <2>1. \E name \in Tasks \ {"init"} : task' = <<name>>
    <3>1. ASSUME NEW v, Acknowledge(v) PROVE task' = <<"ack">>
      BY <3>1 DEF Acknowledge, Next_access
    <3>2. ReadStatus => task' = <<"status">>
      BY DEF ReadStatus, Next_access
    <3>3. Returns => task' = <<"idle">>
      BY DEF Returns
    <3>4. CASE InitDecides \/ MoveReturns \/ Poll \/ Move
      BY <3>3, <3>4, Zenon DEF InitDecides, MoveReturns, Poll, Move, Next_access, Tasks
    <3>5. CASE Event \/ DataWritten \/ Acknowledged \/ Store
      BY <3>1, <3>2, <3>3, <3>5, Zenon DEF Event, DataWritten, Acknowledged, Store, Tasks
    <3>6. CASE Serve
      <4>1. Returns \/ ServedKind
        BY <3>6, ServeKinds DEF Stored
      <4> QED BY <3>1, <3>3, <4>1, Zenon DEF ServedKind, Next_access, Tasks
    <3> QED BY <1>11, <3>4, <3>5, <3>6
  <2>2. Doing' # "init"
    BY <2>1 DEF Doing
  <2> QED BY <1>1, <2>2
<1> QED BY <1>3, <1>4, <1>5, <1>6, <1>7, <1>8, <1>9, <1>10, <1>11, NextKinds, Zenon

LEMMA OlderInit ==
  ASSUME Init
  PROVE  OlderKept
<1>1. /\ pc = "cmd" /\ task = <<"init", 1>> /\ found = <<>>
      /\ regs = IF older THEN [PowerUp EXCEPT ![DCOFFSET + 6] = 2, ![EECONTSTAT] = WithAckErr(0)] ELSE PowerUp
  BY DEF Init
<1>2. ASSUME older PROVE Configured(regs)
  <2>1. regs = [PowerUp EXCEPT ![DCOFFSET + 6] = 2, ![EECONTSTAT] = WithAckErr(0)]
    BY <1>1, <1>2
  <2>2. DCOFFSET + 6 \in Cells /\ DCOFFSET + 6 # EECONTSTAT /\ DCOFFSET + 2 * 3 = DCOFFSET + 6
    BY CellsAre DEF DCOFFSET, EECONTSTAT
  <2>3. regs[DCOFFSET + 6] = 2
    BY <2>1, <2>2, PowerUpTyped
  <2>4. 3 \in 0 .. 3 /\ regs[DCOFFSET + 2 * 3] # 0
    BY <2>2, <2>3
  <2> QED BY <2>4, Zenon DEF Configured
<1> QED BY <1>1, <1>2 DEF OlderKept, Read, InHand, FoundBefore

\* What the core is reset by.
LEMMA NotReset ==
  ASSUME regs \in [Cells -> Nat], Configured(regs), CoreReset(FoundBefore(4) \o WordsOfRead(4))
  PROVE  FALSE
<1>1. PICK r : r = FoundBefore(4) \o WordsOfRead(4)
  OBVIOUS
<1>2. r = <<regs[ALSTATUS], regs[SYNCACT], regs[DCOFFSET], regs[DCOFFSET + 2], regs[DCOFFSET + 4], regs[DCOFFSET + 6]>>
  BY <1>1, FoundNext
<1>3. /\ r[1] = regs[ALSTATUS] /\ r[2] = regs[SYNCACT] /\ r[3] = regs[DCOFFSET] /\ r[4] = regs[DCOFFSET + 2]
      /\ r[5] = regs[DCOFFSET + 4] /\ r[6] = regs[DCOFFSET + 6] /\ Len(r) = 6
  BY <1>2
<1>4. r[1] % 16 <= ESCinit /\ r[2] = 0 /\ r[3] = 0 /\ r[4] = 0 /\ r[5] = 0 /\ r[6] = 0
  BY <1>1, <1>3 DEF CoreReset
<1>5. PICK s \in Nat : s = regs[ALSTATUS]
  BY CellsAre
<1>6. ~(regs[ALSTATUS] % 16 > ESCinit)
  BY <1>3, <1>4, <1>5 DEF ESCinit
<1>7. ASSUME NEW i \in 0 .. 3 PROVE regs[DCOFFSET + 2 * i] = 0
  <2>1. CASE i = 0
    <3>1. DCOFFSET + 2 * i = DCOFFSET
      BY <2>1 DEF DCOFFSET
    <3> QED BY <1>3, <1>4, <3>1
  <2>2. CASE i = 1
    <3>1. DCOFFSET + 2 * i = DCOFFSET + 2
      BY <2>2 DEF DCOFFSET
    <3> QED BY <1>3, <1>4, <3>1
  <2>3. CASE i = 2
    <3>1. DCOFFSET + 2 * i = DCOFFSET + 4
      BY <2>3 DEF DCOFFSET
    <3> QED BY <1>3, <1>4, <3>1
  <2>4. CASE i = 3
    <3>1. DCOFFSET + 2 * i = DCOFFSET + 6
      BY <2>4 DEF DCOFFSET
    <3> QED BY <1>3, <1>4, <3>1
  <2> QED BY <2>1, <2>2, <2>3, <2>4
<1> QED BY <1>3, <1>4, <1>6, <1>7 DEF Configured

LEMMA ResetsOnlyUnconfigured ==
  ASSUME RegInv, OlderKept, [Next]_vars
  PROVE  (asked' = {} /\ found' # found /\ regs' # regs) => (~older \/ hw_fault)
<1> USE DEF RegInv, Typed
<1>1. SUFFICES ASSUME found' # found, regs' # regs, older, ~hw_fault, Next
               PROVE  FALSE
  BY DEF vars, app
<1>2. InitDecides
  <2>1. ~(Restart \/ InitReadNext)
    BY <1>1 DEF Restart, InitReadNext, InitRead
  <2>2. ~(Poll \/ Event \/ DataWritten \/ Acknowledged \/ MoveReturns \/ Serve \/ Store \/ Move)
    <3>1. ~(Poll \/ Event \/ DataWritten \/ Acknowledged \/ MoveReturns)
      BY <1>1 DEF Poll, Event, DataWritten, Acknowledged, MoveReturns, Client
    <3>2. ~Serve
      <4>1. Serve => Client
        BY DEF Serve
      <4>2. Client => found' = found
        BY DEF Client
      <4> QED BY <1>1, <4>1, <4>2
    <3>3. ~Store
      BY <1>1 DEF Store, Client
    <3>4. ~Move
      BY <1>1 DEF Move
    <3> QED BY <3>1, <3>2, <3>3, <3>4
  <2>3. ~(MasterCommands \/ MasterConfigures)
    BY <1>1 DEF MasterCommands, MasterConfigures, app
  <2>4. ~Outside /\ ~FifoSteps
    BY <1>1 DEF Outside, app, FifoSteps
  <2> QED BY <1>1, <2>1, <2>2, <2>3, <2>4, NextKinds, Zenon
<1>3. /\ pc = "done" /\ Doing = "init" /\ task[2] = 4 /\ found' = found \o acc.buf /\ CoreReset(found')
  BY <1>1, <1>2, InitReadsAre, Zenon DEF InitDecides, Doing
<1>4. found = FoundBefore(4) /\ acc.buf = WordsOfRead(4) /\ Configured(regs)
  BY <1>1, <1>3 DEF OlderKept
<1> QED BY <1>3, <1>4, NotReset DEF Stored

\* The core is reset only if no master had configured it when ESC_init began,
\* unless the bus has failed (ESC_init, lan9252_init_core_reset).
THEOREM ConfigurationKept == Spec => KeepsConfiguration
<1>1. Init => RegInv /\ OlderKept
  BY InitRegInv, OlderInit
<1>2. RegInv /\ OlderKept /\ [Next]_vars => RegInv' /\ OlderKept'
  <2>1. SUFFICES ASSUME RegInv, OlderKept, [Next]_vars PROVE RegInv' /\ OlderKept'
    OBVIOUS
  <2>2. RegInv'
    BY <2>1, StepRegInv
  <2>3. CASE UNCHANGED vars
    <3>1. UNCHANGED <<hw_fault, pc, acc, csr, regs, task, found, older>>
      BY <2>3 DEF vars, lanVars, halVars, chipVars, app
    <3>2. Doing = "init" => task[2] \in 1 .. 4
      BY <2>1 DEF RegInv, Shape, InitShape
    <3>3. CASE Doing = "init"
      <4>1. UNCHANGED <<task, found, older>> /\ hw_fault' = hw_fault /\ pc' = pc /\ acc' = acc /\ csr' = csr
        BY <3>1
      <4>2. \A a \in InitCells : regs'[a] = regs[a]
        BY <3>1
      <4>3. Read' = Read
        BY <3>1 DEF Read, InHand
      <4> QED BY <2>1, <2>2, <3>2, <3>3, <4>1, <4>2, <4>3, OlderStays
    <3>4. CASE Doing # "init"
      <4>1. Doing' = Doing
        BY <3>1 DEF Doing
      <4> QED BY <2>2, <3>4, <4>1 DEF OlderKept
    <3> QED BY <3>3, <3>4
  <2> QED BY <2>1, <2>2, <2>3, OlderStep
<1>3. RegInv /\ OlderKept /\ [Next]_vars => ((asked' = {} /\ found' # found /\ regs' # regs) => (~older \/ hw_fault))
  BY ResetsOnlyUnconfigured
<1> QED BY <1>1, <1>2, <1>3, PTL DEF Spec, KeepsConfiguration

-----------------------------------------------------------------------------
\* Process data: how far the process and the chip have come with a transfer.
FifoTyped == fifo \in [dir : {"none", "read", "write"}, at : Int, left : Int, words : Seq([1 .. 4 -> Nat])]
Moving == acc.dir \in {"read", "write"} /\ acc.start \in Nat /\ acc.start >= PRAM /\ acc.len \in Nat \ {0}
          /\ acc.start .. acc.start + acc.len - 1 \subseteq Pram
          /\ (acc.dir = "write" => acc.buf \in Seq(Nat) /\ Len(acc.buf) = acc.len)

\* What the process has moved, and where the next word of it begins.
Through == IF Ended THEN acc.len ELSE acc.len - acc.left
NextWord == IF Through = 0 THEN Aligned(acc.start) ELSE acc.start + Through
TransferLeft == fifo.at >= acc.start /\ fifo.left >= 0 /\ fifo.at + fifo.left = acc.start + acc.len

Got(n) == acc.buf = [i \in 1 .. n |-> pmem[acc.start + i - 1]]
InFront == \A i \in 1 .. Len(fifo.words) : \A b \in 1 .. 4 :
             NextWord + 4 * (i - 1) + b - 1 \in Pram => fifo.words[i][b] = pmem[NextWord + 4 * (i - 1) + b - 1]
Fetching ==
  /\ fifo.dir = "read" /\ acc.left \in 1 .. acc.len
  /\ TransferLeft /\ NextWord % 4 = 0 /\ Got(Through) /\ InFront
  /\ fifo.left > 0 => Aligned(fifo.at) = NextWord + 4 * Len(fifo.words)
  /\ pc = "xfer" => count \in 1 .. Len(fifo.words)

Laid == pmem = [a \in Pram |-> IF a \in acc.start .. fifo.at - 1 THEN acc.buf[a - acc.start + 1] ELSE before[a]]
Following == \A i \in 1 .. Len(fifo.words) : \A b \in 1 .. 4 :
             Aligned(fifo.at) + 4 * (i - 1) + b - 1 \in acc.start .. acc.start + Through - 1 =>
                fifo.words[i][b] = acc.buf[Aligned(fifo.at) + 4 * (i - 1) + b - acc.start]
Storing ==
  /\ fifo.dir = "write" /\ (~Ended => acc.left \in 1 .. acc.len)
  /\ TransferLeft /\ fifo.at <= acc.start + Through
  /\ ~Ended => NextWord % 4 = 0
  /\ fifo.left > 0 =>
       /\ Following
       /\ IF Ended THEN Aligned(fifo.at) + 4 * Len(fifo.words) >= acc.start + acc.len
          ELSE Aligned(fifo.at) + 4 * Len(fifo.words) = NextWord
  /\ Laid
  /\ pc = "xfer" => count \in 1 .. FifoRoom - Len(fifo.words)

BeforeTransfer ==
  /\ acc.left = acc.len /\ before = pmem /\ (acc.dir = "read" => acc.buf = <<>>)
  /\ pc = "abort" => Emptied
  /\ pc = "start" => fifo = NoTransfer
InTransfer ==
  /\ acc.dir = "read" => IF Ended THEN fifo.dir = "read" /\ Got(acc.len) ELSE Fetching
  /\ acc.dir = "write" => Storing
MoveInv ==
  /\ FifoTyped /\ pmem \in [Pram -> Nat] /\ (pc \in PramPcs => ~hw_fault)
  /\ Doing # "move" => Emptied
  /\ Doing = "move" =>
       /\ Moving
       /\ pc \in {"abort", "start"} => BeforeTransfer
       /\ ~hw_fault /\ pc \notin {"abort", "start"} => InTransfer

-----------------------------------------------------------------------------
LEMMA AlignedIs ==
  ASSUME NEW a \in Int
  PROVE  /\ Aligned(a) \in Int /\ Aligned(a) % 4 = 0 /\ Aligned(a) <= a /\ a < Aligned(a) + 4
         /\ a = Aligned(a) + (a % 4) /\ a % 4 \in 0 .. 3
         /\ \A k \in Int : (k % 4 = 0 /\ k <= a /\ a < k + 4) => Aligned(a) = k
         /\ (a >= 0 => Aligned(a) >= 0)
<1>1. PICK q \in Int, r \in 0 .. 3 : q = a \div 4 /\ r = a % 4 /\ a = 4 * q + r
  OBVIOUS
<1>2. Aligned(a) = 4 * q
  BY <1>1 DEF Aligned
<1>3. (4 * q) % 4 = 0
  OBVIOUS
<1>4. ASSUME NEW k \in Int, k % 4 = 0, k <= a, a < k + 4 PROVE k = 4 * q
  <2>1. PICK j \in Int : k = 4 * j
    BY <1>4
  <2> QED BY <1>1, <1>4, <2>1
<1> QED BY <1>1, <1>2, <1>3, <1>4

LEMMA LeastIs ==
  ASSUME NEW a \in Int, NEW b \in Int
  PROVE  Least(a, b) \in Int /\ Least(a, b) <= a /\ Least(a, b) <= b /\ (Least(a, b) = a \/ Least(a, b) = b)
  BY DEF Least

LEMMA BehindIs ==
  ASSUME NEW a \in Int, fifo.left \in Int
  PROVE  /\ Behind(a) \in Int /\ Behind(a) <= Aligned(a) + 4 - a /\ Behind(a) <= fifo.left
         /\ Behind(a) = Aligned(a) + 4 - a \/ Behind(a) = fifo.left
<1>1. PICK q \in Int : q = Aligned(a)
  BY AlignedIs
<1>2. PICK l \in Int : l = fifo.left
  OBVIOUS
<1>3. Least(q + 4 - a, l) \in Int /\ Least(q + 4 - a, l) <= q + 4 - a /\ Least(q + 4 - a, l) <= l
      /\ (Least(q + 4 - a, l) = q + 4 - a \/ Least(q + 4 - a, l) = l)
  BY LeastIs
<1> QED BY <1>1, <1>2, <1>3 DEF Behind

\* A word is fetched from the memory into the FIFO, or laid from the FIFO into it.
FetchedWord == [i \in 1 .. 4 |-> IF Aligned(fifo.at) + i - 1 \in Pram THEN pmem[Aligned(fifo.at) + i - 1] ELSE 0]
WordFetched ==
  /\ fifo.dir = "read" /\ fifo.left > 0 /\ fifo'.dir = fifo.dir /\ fifo'.words = Append(fifo.words, FetchedWord)
  /\ fifo'.at = fifo.at + Behind(fifo.at) /\ fifo'.left = fifo.left - Behind(fifo.at)
LEMMA FillsIt ==
  ASSUME FifoTyped, pmem \in [Pram -> Nat], ChipFills
  PROVE  WordFetched /\ FifoTyped' /\ UNCHANGED <<hw_fault, pc, acc, count, csr, regs, pmem, before>>
         /\ FetchedWord \in [1 .. 4 -> Nat]
<1>1. fifo' = [fifo EXCEPT !.words = Append(fifo.words, FetchedWord), !.at = fifo.at + Behind(fifo.at),
                           !.left = fifo.left - Behind(fifo.at)]
  BY Zenon DEF ChipFills, FetchedWord
<1>2. fifo.dir = "read" /\ fifo.left > 0 /\ UNCHANGED <<hw_fault, pc, acc, count, csr, regs, pmem, before>>
  BY DEF ChipFills, halVars
<1>3. fifo.at \in Int /\ fifo.left \in Int /\ fifo.words \in Seq([1 .. 4 -> Nat])
  BY DEF FifoTyped
<1>4. FetchedWord \in [1 .. 4 -> Nat]
  BY DEF FetchedWord
<1>5. PICK m \in Int : m = Behind(fifo.at)
  BY <1>3, BehindIs
<1>6. Append(fifo.words, FetchedWord) \in Seq([1 .. 4 -> Nat])
  BY <1>3, <1>4
<1>7. fifo.at + Behind(fifo.at) \in Int /\ fifo.left - Behind(fifo.at) \in Int
  BY <1>3, <1>5
<1>8. FifoTyped'
  BY <1>1, <1>6, <1>7, Zenon DEF FifoTyped
<1>9. /\ fifo'.dir = fifo.dir /\ fifo'.words = Append(fifo.words, FetchedWord)
      /\ fifo'.at = fifo.at + Behind(fifo.at) /\ fifo'.left = fifo.left - Behind(fifo.at)
  BY <1>1, Zenon DEF FifoTyped
<1> QED BY <1>2, <1>4, <1>8, <1>9 DEF WordFetched

WordLaid ==
  /\ fifo.dir = "write" /\ fifo.words # <<>> /\ fifo'.dir = fifo.dir /\ fifo'.words = Tail(fifo.words)
  /\ fifo'.at = fifo.at + Behind(fifo.at) /\ fifo'.left = fifo.left - Behind(fifo.at)
  /\ pmem' = [a \in Pram |-> IF a \in fifo.at .. fifo.at + Behind(fifo.at) - 1
                             THEN fifo.words[1][a - Aligned(fifo.at) + 1] ELSE pmem[a]]
LEMMA DrainsIt ==
  ASSUME FifoTyped, pmem \in [Pram -> Nat], ChipDrains
  PROVE  WordLaid /\ FifoTyped' /\ pmem' \in [Pram -> Nat] /\ UNCHANGED <<hw_fault, pc, acc, count, csr, regs, before>>
<1>1. fifo' = [fifo EXCEPT !.words = Tail(fifo.words), !.at = fifo.at + Behind(fifo.at), !.left = fifo.left - Behind(fifo.at)]
  BY Zenon DEF ChipDrains
<1>2. fifo.dir = "write" /\ fifo.words # <<>> /\ UNCHANGED <<hw_fault, pc, acc, count, csr, regs, before>>
  BY DEF ChipDrains, halVars
<1>3. fifo.at \in Int /\ fifo.left \in Int /\ fifo.words \in Seq([1 .. 4 -> Nat])
  BY DEF FifoTyped
<1>4. PICK q \in Int, m \in Int : q = Aligned(fifo.at) /\ m = Behind(fifo.at) /\ q <= fifo.at /\ m <= q + 4 - fifo.at
  BY <1>3, BehindIs, AlignedIs
<1>5. Tail(fifo.words) \in Seq([1 .. 4 -> Nat]) /\ Head(fifo.words) = fifo.words[1] /\ fifo.words[1] \in [1 .. 4 -> Nat]
  BY <1>2, <1>3
<1>6. fifo.at + Behind(fifo.at) \in Int /\ fifo.left - Behind(fifo.at) \in Int
  BY <1>3, <1>4
<1>7. FifoTyped'
  BY <1>1, <1>5, <1>6, Zenon DEF FifoTyped
<1>8. /\ fifo'.dir = fifo.dir /\ fifo'.words = Tail(fifo.words)
      /\ fifo'.at = fifo.at + Behind(fifo.at) /\ fifo'.left = fifo.left - Behind(fifo.at)
  BY <1>1, Zenon DEF FifoTyped
<1>9. pmem' = [a \in Pram |-> IF a \in fifo.at .. fifo.at + Behind(fifo.at) - 1
                              THEN fifo.words[1][a - Aligned(fifo.at) + 1] ELSE pmem[a]]
  BY <1>5 DEF ChipDrains
<1>10. ASSUME NEW a \in Pram
       PROVE  (IF a \in fifo.at .. fifo.at + Behind(fifo.at) - 1
               THEN fifo.words[1][a - Aligned(fifo.at) + 1] ELSE pmem[a]) \in Nat
  <2>1. CASE a \in fifo.at .. fifo.at + m - 1
    <3>1. PICK p \in Int : p = fifo.at
      BY <1>3
    <3>2. PICK x \in Int : x = a /\ x \in p .. p + m - 1
      BY <2>1, <3>1
    <3>3. q <= p /\ m <= q + 4 - p
      BY <1>4, <3>1
    <3>4. x - q + 1 \in 1 .. 4
      BY <3>2, <3>3
    <3> QED BY <1>4, <1>5, <2>1, <3>2, <3>4
  <2>2. CASE a \notin fifo.at .. fifo.at + m - 1
    BY <1>4, <2>2
  <2> QED BY <2>1, <2>2
<1>11. pmem' \in [Pram -> Nat]
  BY <1>9, <1>10
<1> QED BY <1>2, <1>7, <1>8, <1>9, <1>11 DEF WordLaid

-----------------------------------------------------------------------------
\* The numbers of a transfer.
Numbers ==
  /\ acc.start \in Nat /\ acc.len \in Nat /\ acc.len > 0 /\ Through \in Int /\ Through >= 0 /\ Through <= acc.len
  /\ NextWord \in Int /\ NextWord <= acc.start + Through
  /\ Through = 0 => NextWord = Aligned(acc.start)
  /\ Through # 0 => NextWord = acc.start + Through
  /\ ~Ended => acc.left \in Int /\ acc.left > 0 /\ Through = acc.len - acc.left
  /\ Ended => Through = acc.len
LEMMA NumbersAre ==
  ASSUME Moving, Ended \/ acc.left \in 1 .. acc.len
  PROVE  Numbers
<1>1. PICK s \in Nat, n \in Nat : s = acc.start /\ n = acc.len /\ n > 0
  BY DEF Moving
<1>2. Aligned(s) \in Int /\ Aligned(s) <= s
  BY AlignedIs
<1>3. CASE Ended
  <2>1. Through = n
    BY <1>1, <1>3 DEF Through
  <2>2. NextWord = s + n
    BY <1>1, <2>1 DEF NextWord
  <2> QED BY <1>1, <1>3, <2>1, <2>2 DEF Numbers
<1>4. CASE ~Ended
  <2>1. PICK l \in Int : l = acc.left /\ l > 0 /\ l <= n
    BY <1>1, <1>4
  <2>2. Through = n - l
    BY <1>1, <1>4, <2>1 DEF Through
  <2>3. NextWord = IF n - l = 0 THEN Aligned(s) ELSE s + (n - l)
    BY <1>1, <2>2 DEF NextWord
  <2> QED BY <1>1, <1>2, <1>4, <2>1, <2>2, <2>3 DEF Numbers
<1> QED BY <1>3, <1>4

\* The chip fetches the next word.
LEMMA WordAdded ==
  ASSUME FifoTyped, pmem \in [Pram -> Nat], Moving, Fetching, ~Ended, WordFetched, FetchedWord \in [1 .. 4 -> Nat],
         UNCHANGED <<pc, acc, count, pmem>>
  PROVE  Fetching'
<1>1. Through' = Through /\ NextWord' = NextWord /\ Ended' = Ended /\ \A n : Got(n)' = Got(n)
  BY DEF Through, Ended, OnTail, At, NextWord, Got
<1>2. Numbers
  BY NumbersAre DEF Fetching
<1>3. PICK w \in Int : w = NextWord /\ w % 4 = 0
  BY <1>2 DEF Numbers, Fetching
<1>4. PICK at \in Int, l \in Int, s \in Int, len \in Int :
        at = fifo.at /\ l = fifo.left /\ s = acc.start /\ len = acc.len /\ l > 0 /\ at >= s /\ at + l = s + len
  <2>1. fifo.at \in Int /\ fifo.left \in Int
    BY DEF FifoTyped
  <2>2. acc.start \in Int /\ acc.len \in Int
    BY <1>2 DEF Numbers
  <2>3. fifo.left > 0 /\ fifo.at >= acc.start /\ fifo.at + fifo.left = acc.start + acc.len
    BY DEF Fetching, TransferLeft, WordFetched
  <2> QED BY <2>1, <2>2, <2>3
<1>5. PICK q \in Int, m \in Int : /\ q = Aligned(at) /\ m = Behind(at) /\ q <= at /\ at < q + 4 /\ m <= q + 4 - at /\ m <= l
                                  /\ m = q + 4 - at \/ m = l
  <2>1. fifo.left \in Int
    BY <1>4
  <2>2. /\ Behind(at) \in Int /\ Behind(at) <= Aligned(at) + 4 - at /\ Behind(at) <= fifo.left
        /\ Behind(at) = Aligned(at) + 4 - at \/ Behind(at) = fifo.left
    BY <1>4, <2>1, BehindIs
  <2>3. Aligned(at) \in Int /\ Aligned(at) <= at /\ at < Aligned(at) + 4
    BY <1>4, AlignedIs
  <2> QED BY <1>4, <2>2, <2>3
<1>6. PICK k \in Nat : k = Len(fifo.words) /\ q = w + 4 * k
  <2>1. Aligned(fifo.at) = NextWord + 4 * Len(fifo.words)
    BY <1>4 DEF Fetching
  <2>2. Len(fifo.words) \in Nat
    BY DEF FifoTyped
  <2> QED BY <1>3, <1>4, <1>5, <2>1, <2>2
<1>7. fifo'.dir = "read" /\ fifo'.at = at + m /\ fifo'.left = l - m /\ fifo'.words = Append(fifo.words, FetchedWord)
  BY <1>4, <1>5 DEF WordFetched
<1>8. /\ Len(fifo'.words) = k + 1 /\ fifo'.words[k + 1] = FetchedWord
      /\ \A i \in 1 .. k : fifo'.words[i] = fifo.words[i]
  BY <1>6, <1>7 DEF FifoTyped
<1>9. TransferLeft'
  <2>1. at + m >= s /\ l - m >= 0 /\ (at + m) + (l - m) = s + len
    BY <1>4, <1>5
  <2>2. acc'.start = s /\ acc'.len = len
    BY <1>4
  <2> QED BY <1>7, <2>1, <2>2 DEF TransferLeft
<1>10. ASSUME NEW i \in 1 .. k + 1, NEW b \in 1 .. 4, w + 4 * (i - 1) + b - 1 \in Pram
       PROVE  fifo'.words[i][b] = pmem[w + 4 * (i - 1) + b - 1]
  <2>1. CASE i \in 1 .. k
    BY <1>3, <1>6, <1>8, <1>10, <2>1 DEF Fetching, InFront
  <2>2. CASE i = k + 1
    <3>1. w + 4 * (i - 1) + b - 1 = q + b - 1
      BY <1>6, <2>2
    <3>2. q + b - 1 \in Pram
      BY <1>10, <3>1
    <3>3. FetchedWord[b] = pmem[q + b - 1]
      BY <1>4, <1>5, <3>2 DEF FetchedWord
    <3> QED BY <1>8, <2>2, <3>1, <3>3
  <2> QED BY <2>1, <2>2
<1>11. InFront'
  BY <1>1, <1>3, <1>8, <1>10 DEF InFront
<1>12. fifo'.left > 0 => Aligned(fifo'.at) = NextWord + 4 * Len(fifo'.words)
  <2>1. SUFFICES ASSUME l - m > 0 PROVE Aligned(at + m) = w + 4 * (k + 1)
    BY <1>3, <1>7, <1>8
  <2>2. at + m = q + 4 /\ q + 4 = w + 4 * (k + 1)
    <3>1. m = q + 4 - at
      BY <1>5, <2>1
    <3>2. q = w + 4 * k
      BY <1>6
    <3> QED BY <3>1, <3>2
  <2>3. PICK z \in Int : z = w + 4 * (k + 1) /\ z % 4 = 0
    BY <1>3
  <2>4. Aligned(z) = z
    BY <2>3, AlignedIs
  <2> QED BY <2>2, <2>3, <2>4
<1>13. pc' = "xfer" => count' \in 1 .. Len(fifo'.words)
  <2>1. SUFFICES ASSUME pc = "xfer" PROVE count \in 1 .. k + 1
    BY <1>8
  <2>2. count \in 1 .. k
    BY <1>6, <2>1 DEF Fetching
  <2> QED BY <2>2
<1>14. acc'.left \in 1 .. acc'.len /\ NextWord % 4 = 0 /\ Got(Through)
  BY DEF Fetching
<1> QED BY <1>1, <1>7, <1>9, <1>11, <1>12, <1>13, <1>14 DEF Fetching

\* The chip lays down the first of the words written.
LEMMA WordDrained ==
  ASSUME FifoTyped, pmem \in [Pram -> Nat], Moving, Storing, WordLaid, UNCHANGED <<pc, acc, count, before>>
  PROVE  Storing'
<1>1. Through' = Through /\ NextWord' = NextWord /\ Ended' = Ended
  BY DEF Through, Ended, OnTail, At, NextWord
<1>2. Numbers
  BY NumbersAre DEF Storing
<1>3. PICK w \in Int, t \in Int, s \in Int, len \in Int :
        w = NextWord /\ t = Through /\ s = acc.start /\ len = acc.len /\ w <= s + t /\ t <= len
  BY <1>2 DEF Numbers
<1>4. PICK at \in Int, l \in Int : at = fifo.at /\ l = fifo.left
  BY DEF FifoTyped
<1>5. l >= 0 /\ at >= s /\ at + l = s + len /\ at <= s + t
  BY <1>3, <1>4 DEF Storing, TransferLeft
<1>6. PICK q \in Int, m \in Int : /\ q = Aligned(at) /\ m = Behind(at) /\ q <= at /\ at < q + 4 /\ m <= q + 4 - at /\ m <= l
                                  /\ m = q + 4 - at \/ m = l
  <2>1. fifo.left \in Int
    BY <1>4
  <2>2. /\ Behind(at) \in Int /\ Behind(at) <= Aligned(at) + 4 - at /\ Behind(at) <= fifo.left
        /\ Behind(at) = Aligned(at) + 4 - at \/ Behind(at) = fifo.left
    BY <1>4, <2>1, BehindIs
  <2>3. Aligned(at) \in Int /\ Aligned(at) <= at /\ at < Aligned(at) + 4
    BY <1>4, AlignedIs
  <2> QED BY <1>4, <2>2, <2>3
<1>7. PICK k \in Nat : k + 1 = Len(fifo.words)
  <2>1. fifo.words \in Seq([1 .. 4 -> Nat]) /\ fifo.words # <<>>
    BY DEF FifoTyped, WordLaid
  <2>2. Len(fifo.words) \in Nat /\ Len(fifo.words) # 0
    BY <2>1, EmptySeq
  <2>3. Len(fifo.words) - 1 \in Nat /\ (Len(fifo.words) - 1) + 1 = Len(fifo.words)
    BY <2>2
  <2> QED BY <2>3
<1>8. fifo'.dir = "write" /\ fifo'.at = at + m /\ fifo'.left = l - m /\ fifo'.words = Tail(fifo.words)
  BY <1>4, <1>6 DEF WordLaid
<1>9. Len(fifo'.words) = k /\ \A i \in 1 .. k : fifo'.words[i] = fifo.words[i + 1]
  <2>1. fifo.words \in Seq([1 .. 4 -> Nat])
    BY DEF FifoTyped
  <2> QED BY <1>7, <1>8, <2>1
<1>10. m >= 0 /\ at + m <= s + t
  <2>1. m >= 0
    BY <1>5, <1>6
  <2>2. CASE l = 0
    BY <1>5, <1>6, <2>2
  <2>3. CASE l > 0 /\ Ended
    <3>1. t = len
      BY <1>2, <1>3, <2>3 DEF Numbers
    <3> QED BY <1>5, <1>6, <2>1, <3>1
  <2>4. CASE l > 0 /\ ~Ended
    <3>1. q + 4 * (k + 1) = w
      BY <1>3, <1>4, <1>6, <1>7, <2>4 DEF Storing
    <3>2. w <= s + t
      BY <1>3
    <3>3. q + 4 <= w
      BY <3>1
    <3> QED BY <1>6, <2>1, <3>2, <3>3
  <2> QED BY <1>5, <2>2, <2>3, <2>4
<1>11. TransferLeft' /\ fifo'.at <= acc'.start + Through
  <2>1. at + m >= s /\ l - m >= 0 /\ (at + m) + (l - m) = s + len
    BY <1>3, <1>4, <1>5, <1>6, <1>10
  <2>2. acc'.start = s /\ acc'.len = len
    BY <1>3
  <2> QED BY <1>3, <1>8, <1>10, <2>1, <2>2 DEF TransferLeft
<1>12. Laid'
  <2>1. pmem' = [a \in Pram |-> IF a \in at .. at + m - 1 THEN fifo.words[1][a - q + 1] ELSE pmem[a]]
    BY <1>4, <1>6 DEF WordLaid
  <2>2. ASSUME NEW a \in Pram
        PROVE  pmem'[a] = IF a \in s .. at + m - 1 THEN acc.buf[a - s + 1] ELSE before[a]
    <3>1. a \in Int
      BY Lan9252Assumption
    <3>2. pmem[a] = IF a \in s .. at - 1 THEN acc.buf[a - s + 1] ELSE before[a]
      BY <1>3, <1>4 DEF Storing, Laid
    <3>3. CASE a \in at .. at + m - 1
      <4>1. l > 0
        BY <1>6, <3>1, <3>3
      <4>2. PICK b \in 1 .. 4 : b = a - q + 1
        BY <1>6, <3>1, <3>3
      <4>3. q + 4 * (1 - 1) + b - 1 = a /\ a \in s .. s + t - 1 /\ q + 4 * (1 - 1) + b - s = a - s + 1
        BY <1>5, <1>10, <3>1, <3>3, <4>2
      <4>4. fifo.words[1][b] = acc.buf[a - s + 1]
        <5>1. Following
          BY <1>4, <4>1 DEF Storing
        <5>2. 1 \in 1 .. Len(fifo.words)
          BY <1>7
        <5>3. Aligned(fifo.at) = q /\ acc.start = s /\ Through = t
          BY <1>3, <1>4, <1>6
        <5>4. q + 4 * (1 - 1) + b - 1 \in s .. s + t - 1 => fifo.words[1][b] = acc.buf[q + 4 * (1 - 1) + b - s]
          BY <5>1, <5>2, <5>3 DEF Following
        <5> QED BY <4>3, <5>4
      <4>5. a \in s .. at + m - 1
        BY <1>5, <3>1, <3>3
      <4> QED BY <2>1, <3>3, <4>2, <4>4, <4>5
    <3>4. CASE a \notin at .. at + m - 1
      <4>1. a \in s .. at + m - 1 <=> a \in s .. at - 1
        BY <1>5, <1>10, <3>1, <3>4
      <4> QED BY <2>1, <3>2, <3>4, <4>1
    <3> QED BY <3>3, <3>4
  <2>3. pmem' = [a \in Pram |-> IF a \in s .. at + m - 1 THEN acc.buf[a - s + 1] ELSE before[a]]
    BY <2>1, <2>2
  <2> QED BY <1>3, <1>8, <2>3 DEF Laid
<1>13. ASSUME fifo'.left > 0
       PROVE  /\ Following'
              /\ IF Ended THEN Aligned(fifo'.at) + 4 * Len(fifo'.words) >= s + len
                 ELSE Aligned(fifo'.at) + 4 * Len(fifo'.words) = w
  <2>1. l > 0 /\ at + m = q + 4
    BY <1>5, <1>6, <1>8, <1>10, <1>13
  <2>2. Aligned(fifo'.at) = q + 4
    <3>1. PICK z \in Int : z = q + 4 /\ z % 4 = 0
      <4>1. q % 4 = 0
        BY <1>4, <1>6, AlignedIs
      <4> QED BY <4>1
    <3>2. Aligned(z) = z
      BY <3>1, AlignedIs
    <3> QED BY <1>8, <2>1, <3>1, <3>2
  <2>3. /\ Following
        /\ IF Ended THEN q + 4 * (k + 1) >= s + len ELSE q + 4 * (k + 1) = w
    BY <1>3, <1>4, <1>6, <1>7, <2>1 DEF Storing
  <2>4. ASSUME NEW i \in 1 .. k, NEW b \in 1 .. 4, (q + 4) + 4 * (i - 1) + b - 1 \in s .. s + t - 1
        PROVE  fifo'.words[i][b] = acc.buf[(q + 4) + 4 * (i - 1) + b - s]
    <3>1. PICK j \in 1 .. k + 1 : j = i + 1
      OBVIOUS
    <3>2. q + 4 * (j - 1) + b - 1 = (q + 4) + 4 * (i - 1) + b - 1 /\ q + 4 * (j - 1) + b - s = (q + 4) + 4 * (i - 1) + b - s
      BY <3>1
    <3>3. Aligned(fifo.at) = q /\ acc.start = s /\ Through = t /\ j \in 1 .. Len(fifo.words)
      BY <1>3, <1>4, <1>6, <1>7
    <3>4. q + 4 * (j - 1) + b - 1 \in s .. s + t - 1 => fifo.words[j][b] = acc.buf[q + 4 * (j - 1) + b - s]
      BY <2>3, <3>3 DEF Following
    <3> QED BY <1>9, <2>4, <3>1, <3>2, <3>4
  <2>5. Following'
    BY <1>1, <1>3, <1>9, <2>2, <2>4 DEF Following
  <2>6. (q + 4) + 4 * k = q + 4 * (k + 1)
    OBVIOUS
  <2> QED BY <1>9, <2>2, <2>3, <2>5, <2>6
<1>14. pc' = "xfer" => count' \in 1 .. FifoRoom - Len(fifo'.words)
  <2>1. SUFFICES ASSUME pc = "xfer" PROVE count \in 1 .. FifoRoom - k
    BY <1>9
  <2>2. count \in 1 .. FifoRoom - (k + 1)
    BY <1>7, <2>1 DEF Storing
  <2>3. FifoRoom \in Nat
    BY Lan9252Assumption
  <2> QED BY <2>2, <2>3
<1>15. (~Ended => acc'.left \in 1 .. acc'.len) /\ (~Ended => NextWord % 4 = 0)
  BY DEF Storing
<1> QED BY <1>1, <1>3, <1>8, <1>11, <1>12, <1>13, <1>14, <1>15 DEF Storing

-----------------------------------------------------------------------------
\* What is read goes on from what was read before.
Bytes(s, n) == [i \in 1 .. n |-> pmem[s + i - 1]]
LEMMA BytesAre ==
  ASSUME pmem \in [Pram -> Nat], NEW s \in Int, NEW n \in Nat, s .. s + n - 1 \subseteq Pram
  PROVE  /\ Bytes(s, n) \in Seq(Nat) /\ Len(Bytes(s, n)) = n
         /\ \A i \in 1 .. n : Bytes(s, n)[i] = pmem[s + i - 1]
<1>1. \A i \in 1 .. n : pmem[s + i - 1] \in Nat
  <2>1. ASSUME NEW i \in 1 .. n PROVE pmem[s + i - 1] \in Nat
    <3>1. PICK a \in Int : a = s + i - 1 /\ a \in s .. s + n - 1
      OBVIOUS
    <3> QED BY <3>1
  <2> QED BY <2>1
<1>2. [i \in 1 .. n |-> pmem[s + i - 1]] \in Seq(Nat)
  BY <1>1
<1> QED BY <1>2 DEF Bytes

LEMMA BytesJoined ==
  ASSUME pmem \in [Pram -> Nat], NEW s \in Int, NEW t \in Nat, NEW n \in Nat, s .. s + (t + n) - 1 \subseteq Pram
  PROVE  Bytes(s, t) \o Bytes(s + t, n) = Bytes(s, t + n)
<1>1. s .. s + t - 1 \subseteq Pram /\ (s + t) .. (s + t) + n - 1 \subseteq Pram
  <2>1. \A a \in Int : a \in s .. s + t - 1 => a \in s .. s + (t + n) - 1
    OBVIOUS
  <2>2. \A a \in Int : a \in (s + t) .. (s + t) + n - 1 => a \in s .. s + (t + n) - 1
    OBVIOUS
  <2> QED BY <2>1, <2>2
<1>2. PICK a \in Seq(Nat) : a = Bytes(s, t) /\ Len(a) = t /\ \A i \in 1 .. t : a[i] = pmem[s + i - 1]
  BY <1>1, BytesAre
<1>3. PICK b \in Seq(Nat) : b = Bytes(s + t, n) /\ Len(b) = n /\ \A i \in 1 .. n : b[i] = pmem[(s + t) + i - 1]
  BY <1>1, BytesAre
<1>4. PICK c \in Seq(Nat) : c = Bytes(s, t + n) /\ Len(c) = t + n /\ \A i \in 1 .. t + n : c[i] = pmem[s + i - 1]
  <2>1. t + n \in Nat
    OBVIOUS
  <2> QED BY <2>1, BytesAre
<1>5. /\ a \o b \in Seq(Nat) /\ Len(a \o b) = Len(a) + Len(b)
      /\ \A i \in 1 .. Len(a) + Len(b) : (a \o b)[i] = IF i <= Len(a) THEN a[i] ELSE b[i - Len(a)]
  BY ConcatProperties
<1>6. ASSUME NEW i \in 1 .. t + n PROVE (a \o b)[i] = c[i]
  <2>1. CASE i <= t
    BY <1>2, <1>3, <1>4, <1>5, <2>1
  <2>2. CASE i > t
    <3>1. PICK j \in 1 .. n : j = i - t
      BY <2>2
    <3>2. (a \o b)[i] = b[j]
      <4>1. Len(a) = t /\ Len(b) = n
        BY <1>2, <1>3
      <4>2. \A x \in 1 .. t + n : (a \o b)[x] = IF x <= t THEN a[x] ELSE b[x - t]
        BY <1>5, <4>1, Zenon
      <4>3. ~(i <= t) /\ i - t = j
        BY <2>2, <3>1
      <4> QED BY <4>2, <4>3, Zenon
    <3>3. (s + t) + j - 1 = s + i - 1
      BY <3>1
    <3>4. b[j] = pmem[(s + t) + j - 1]
      BY <1>3
    <3>5. c[i] = pmem[s + i - 1]
      BY <1>4
    <3> QED BY <3>2, <3>3, <3>4, <3>5, Zenon
  <2>3. i <= t \/ i > t
    OBVIOUS
  <2> QED BY <2>1, <2>2, <2>3
<1>7. a \o b = c
  <2>1. Len(a \o b) = t + n
    BY <1>2, <1>3, <1>5
  <2>2. Len(a \o b) = Len(c) /\ \A i \in 1 .. Len(a \o b) : (a \o b)[i] = c[i]
    BY <1>4, <1>6, <2>1, Zenon
  <2>3. a \o b \in Seq(Nat)
    BY <1>5
  <2> QED BY <2>2, <2>3, SeqEqual
<1> QED BY <1>2, <1>3, <1>4, <1>7

LEMMA Quarter ==
  ASSUME NEW x \in Nat
  PROVE  \E q \in Nat, r \in 0 .. 3 : q = x \div 4 /\ r = x % 4 /\ x = 4 * q + r
<1>1. PICK q \in Int, r \in 0 .. 3 : q = x \div 4 /\ r = x % 4 /\ x = 4 * q + r
  OBVIOUS
<1>2. q \in Nat
  BY <1>1
<1> QED BY <1>1, <1>2

\* The access goes on with the FIFO, or is over.
LEMMA MovedFields ==
  ASSUME AccTyped, acc.start >= PRAM, acc.part = "data", NEW n, NEW buf, Moved(n, buf)
  PROVE  /\ acc'.dir = acc.dir /\ acc'.start = acc.start /\ acc'.len = acc.len /\ acc'.buf = buf
         /\ n = acc.left => Ended' /\ pc' \notin PramPcs
         /\ n # acc.left => pc' = "fifo" /\ acc'.left = acc.left - n /\ ~Ended'
<1> USE DEF Ended, OnTail, At, PramPcs, InHand
<1>1. CASE n = acc.left
  <2>1. acc'.dir = acc.dir /\ acc'.start = acc.start /\ acc'.len = acc.len /\ acc'.buf = buf /\ Ends
    BY <1>1, FinishFields, Zenon DEF Moved
  <2> QED BY <1>1, <2>1 DEF Ends
<1>2. CASE n # acc.left
  <2>1. pc' = "fifo" /\ acc' = [acc EXCEPT !.left = acc.left - n, !.buf = buf]
    BY <1>2, Zenon DEF Moved
  <2>2. /\ acc'.dir = acc.dir /\ acc'.start = acc.start /\ acc'.len = acc.len /\ acc'.buf = buf
        /\ acc'.left = acc.left - n
    BY <2>1, FieldsMoved, Zenon
  <2> QED BY <1>2, <2>1, <2>2
<1> QED BY <1>1, <1>2

\* The words reported are read.
LEMMA WordsRead ==
  ASSUME AccTyped, FifoTyped, pmem \in [Pram -> Nat], Moving, acc.part = "data", ~Ended, Fetching, ReadFifo
  PROVE  /\ acc'.dir = acc.dir /\ acc'.start = acc.start /\ acc'.len = acc.len
         /\ IF Ended' THEN pc' \notin PramPcs /\ fifo'.dir = "read" /\ Got(acc.len)' ELSE Fetching'
         /\ FifoTyped' /\ UNCHANGED <<hw_fault, pmem, before>>
<1>1. pc = "xfer" /\ acc.dir = "read" /\ UNCHANGED <<hw_fault, pmem, before>>
  BY DEF ReadFifo, NoFault
<1>2. Numbers
  BY NumbersAre DEF Fetching
<1>3. PICK w \in Int, t \in Nat, s \in Int, len \in Int, l \in Int :
        /\ w = NextWord /\ t = Through /\ s = acc.start /\ len = acc.len /\ l = acc.left
        /\ l > 0 /\ t = len - l /\ (t = 0 => w = Aligned(s)) /\ (t # 0 => w = s + t)
  <2>1. /\ acc.start \in Int /\ acc.len \in Int /\ Through \in Int /\ Through >= 0 /\ NextWord \in Int
        /\ (Through = 0 => NextWord = Aligned(acc.start)) /\ (Through # 0 => NextWord = acc.start + Through)
        /\ acc.left \in Int /\ acc.left > 0 /\ Through = acc.len - acc.left
    BY <1>2 DEF Numbers
  <2>2. Through \in Nat
    BY <2>1
  <2> QED BY <2>1, <2>2, Zenon
<1>4. PICK k \in Nat, c \in Nat : k = Len(fifo.words) /\ c = count /\ 1 <= c /\ c <= k
  <2>1. fifo.words \in Seq([1 .. 4 -> Nat])
    BY DEF FifoTyped
  <2>2. count \in 1 .. Len(fifo.words)
    BY <1>1 DEF Fetching
  <2> QED BY <2>1, <2>2
<1>5. PICK z \in 0 .. 3 : z = Skip /\ w + z = s + t
  <2>1. CASE t = 0
    <3>1. s = Aligned(s) + (s % 4) /\ s % 4 \in 0 .. 3 /\ Aligned(s) \in Int
      BY <1>3, AlignedIs
    <3>2. Skip = s % 4
      BY <1>3, <2>1 DEF Skip, FirstByte
    <3> QED BY <1>3, <2>1, <3>1, <3>2
  <2>2. CASE t # 0
    <3>1. Skip = 0
      BY <1>3, <2>2 DEF Skip
    <3> QED BY <1>3, <2>2, <3>1
  <2> QED BY <2>1, <2>2
<1>6. PICK n \in Nat : /\ n = Least(l, 4 * c - z) /\ n > 0 /\ n <= l /\ n <= 4 * c - z
                       /\ n = l \/ n = 4 * c - z
  <2>1. /\ Least(l, 4 * c - z) \in Int /\ Least(l, 4 * c - z) <= l /\ Least(l, 4 * c - z) <= 4 * c - z
        /\ Least(l, 4 * c - z) = l \/ Least(l, 4 * c - z) = 4 * c - z
    BY LeastIs
  <2>2. 4 * c - z > 0
    BY <1>4
  <2>3. Least(l, 4 * c - z) \in Nat
    BY <1>3, <2>1, <2>2
  <2> QED BY <1>3, <2>1, <2>2, <2>3
<1>7. Moved(n, acc.buf \o [i \in 1 .. n |-> fifo.words[(z + i - 1) \div 4 + 1][((z + i - 1) % 4) + 1]])
  BY <1>3, <1>4, <1>5, <1>6 DEF ReadFifo
<1>8. \A a \in Int : a \in s .. s + len - 1 => a \in Pram
  BY <1>3 DEF Moving
<1>9. [i \in 1 .. n |-> fifo.words[(z + i - 1) \div 4 + 1][((z + i - 1) % 4) + 1]] = Bytes(s + t, n)
  <2>1. ASSUME NEW i \in 1 .. n
        PROVE  fifo.words[(z + i - 1) \div 4 + 1][((z + i - 1) % 4) + 1] = pmem[(s + t) + i - 1]
    <3>1. PICK x \in Nat, y \in 0 .. 3 : x = (z + i - 1) \div 4 /\ y = (z + i - 1) % 4 /\ z + i - 1 = 4 * x + y
      BY Quarter
    <3>2. PICK u \in 1 .. k, b \in 1 .. 4 : u = x + 1 /\ b = y + 1
      <4>1. 4 * x + y < 4 * c
        BY <1>6, <3>1
      <4>2. x + 1 <= k
        BY <1>4, <4>1
      <4> QED BY <4>2
    <3>3. w + 4 * (u - 1) + b - 1 = (s + t) + i - 1
      BY <1>5, <3>1, <3>2
    <3>4. (s + t) + i - 1 \in s .. s + len - 1
      BY <1>3, <1>6
    <3>5. (s + t) + i - 1 \in Pram
      BY <1>8, <3>4
    <3>6. fifo.words[u][b] = pmem[w + 4 * (u - 1) + b - 1]
      BY <1>3, <1>4, <3>3, <3>5 DEF Fetching, InFront
    <3> QED BY <3>1, <3>2, <3>3, <3>6
  <2> QED BY <2>1 DEF Bytes
<1>10. acc.buf = Bytes(s, t)
  BY <1>3 DEF Fetching, Got, Bytes
<1>11. Bytes(s, t) \o Bytes(s + t, n) = Bytes(s, t + n)
  <2>1. s .. s + (t + n) - 1 \subseteq Pram
    <3>1. \A a \in Int : a \in s .. s + (t + n) - 1 => a \in s .. s + len - 1
      BY <1>3, <1>6
    <3> QED BY <1>8, <3>1
  <2> QED BY <2>1, BytesJoined
<1>12. Moved(n, Bytes(s, t + n))
  BY <1>7, <1>9, <1>10, <1>11
<1>13. /\ acc'.dir = acc.dir /\ acc'.start = acc.start /\ acc'.len = acc.len /\ acc'.buf = Bytes(s, t + n)
       /\ n = acc.left => Ended' /\ pc' \notin PramPcs
       /\ n # acc.left => pc' = "fifo" /\ acc'.left = acc.left - n /\ ~Ended'
  BY <1>12, MovedFields DEF Moving
<1>14. fifo' = [fifo EXCEPT !.words = SubSeq(fifo.words, c + 1, k)]
  BY <1>4 DEF ReadFifo
<1>15. PICK r \in Seq([1 .. 4 -> Nat]) : /\ r = SubSeq(fifo.words, c + 1, k) /\ Len(r) = k - c
                                         /\ \A i \in 1 .. k - c : r[i] = fifo.words[c + i]
  <2>1. \A i \in c + 1 .. k : fifo.words[i] \in [1 .. 4 -> Nat]
    <3>1. fifo.words \in Seq([1 .. 4 -> Nat])
      BY DEF FifoTyped
    <3>2. \A i \in 1 .. Len(fifo.words) : fifo.words[i] \in [1 .. 4 -> Nat]
      BY <3>1
    <3>3. \A i \in c + 1 .. k : i \in 1 .. k
      OBVIOUS
    <3> QED BY <1>4, <3>2, <3>3
  <2>2. PICK m \in Int : m = c + 1
    OBVIOUS
  <2>3. /\ SubSeq(fifo.words, m, k) \in Seq([1 .. 4 -> Nat])
        /\ Len(SubSeq(fifo.words, m, k)) = IF m <= k THEN k - m + 1 ELSE 0
        /\ \A i \in 1 .. k - m + 1 : SubSeq(fifo.words, m, k)[i] = fifo.words[m + i - 1]
    BY <2>1, <2>2, SubSeqProperties
  <2>4. k - m + 1 = k - c /\ (m <= k \/ k - c = 0)
    BY <1>4, <2>2
  <2>5. Len(SubSeq(fifo.words, m, k)) = k - c
    BY <1>4, <2>2, <2>3, <2>4
  <2>6. \A i \in 1 .. k - c : m + i - 1 = c + i
    BY <2>2
  <2>7. \A i \in 1 .. k - c : SubSeq(fifo.words, m, k)[i] = fifo.words[c + i]
    BY <2>3, <2>4, <2>6
  <2> QED BY <2>2, <2>3, <2>5, <2>7
<1>16. FifoTyped' /\ fifo'.dir = fifo.dir /\ fifo'.at = fifo.at /\ fifo'.left = fifo.left /\ fifo'.words = r
  <2>1. FifoTyped'
    BY <1>14, <1>15, Zenon DEF FifoTyped
  <2> QED BY <1>14, <1>15, <2>1, Zenon DEF FifoTyped
<1>17. pmem' = pmem /\ fifo'.dir = "read"
  BY <1>1, <1>16 DEF Fetching
<1>18. CASE n = l
  <2>1. t + n = len
    BY <1>3, <1>18
  <2>2. Got(acc.len)'
    BY <1>3, <1>13, <1>17, <2>1 DEF Got, Bytes
  <2> QED BY <1>1, <1>3, <1>13, <1>16, <1>17, <1>18, <2>2
<1>19. CASE n # l
  <2>1. pc' = "fifo" /\ acc'.left = l - n /\ ~Ended'
    BY <1>3, <1>13, <1>19
  <2>2. Through' = t + n /\ t + n # 0
    <3>1. Through' = len - (l - n)
      BY <1>3, <1>13, <2>1 DEF Through
    <3>2. len - (l - n) = t + n /\ t + n # 0
      BY <1>3, <1>6
    <3> QED BY <3>1, <3>2
  <2>3. NextWord' = s + (t + n)
    BY <1>3, <1>13, <2>2 DEF NextWord
  <2>4. PICK w2 \in Int : w2 = NextWord' /\ w2 = w + 4 * c /\ w2 % 4 = 0
    <3>1. w % 4 = 0
      BY <1>3 DEF Fetching
    <3>2. s + (t + n) = w + 4 * c
      <4>1. n = 4 * c - z
        BY <1>6, <1>19
      <4>2. s + t + n = w + z + n
        BY <1>5
      <4> QED BY <4>1, <4>2
    <3>3. (w + 4 * c) % 4 = 0
      BY <3>1
    <3>4. PICK v \in Int : v = w + 4 * c
      OBVIOUS
    <3>5. NextWord' = v
      BY <2>3, <3>2, <3>4
    <3>6. v % 4 = 0
      BY <3>3, <3>4
    <3> QED BY <3>4, <3>5, <3>6
  <2>5. TransferLeft'
    BY <1>13, <1>16 DEF Fetching, TransferLeft
  <2>6. Got(Through)'
    BY <1>3, <1>13, <1>17, <2>2 DEF Got, Bytes
  <2>7. InFront'
    <3>1. ASSUME NEW i \in 1 .. k - c, NEW b \in 1 .. 4, w2 + 4 * (i - 1) + b - 1 \in Pram
          PROVE  r[i][b] = pmem[w2 + 4 * (i - 1) + b - 1]
      <4>1. PICK j \in 1 .. k : j = c + i
        OBVIOUS
      <4>2. w + 4 * (j - 1) + b - 1 = w2 + 4 * (i - 1) + b - 1
        BY <2>4, <4>1
      <4>3. fifo.words[j][b] = pmem[w + 4 * (j - 1) + b - 1]
        BY <1>3, <1>4, <3>1, <4>2 DEF Fetching, InFront
      <4> QED BY <1>15, <4>1, <4>2, <4>3
    <3> QED BY <1>15, <1>16, <1>17, <2>4, <3>1 DEF InFront
  <2>8. fifo'.left > 0 => Aligned(fifo'.at) = NextWord' + 4 * Len(fifo'.words)
    <3>1. ASSUME fifo.left > 0 PROVE Aligned(fifo.at) = w + 4 * k
      BY <1>3, <1>4, <3>1 DEF Fetching
    <3>2. w + 4 * k = w2 + 4 * (k - c)
      BY <2>4
    <3> QED BY <1>15, <1>16, <2>4, <3>1, <3>2
  <2>9. acc'.left \in 1 .. acc'.len
    <3>2. l > 0 /\ t = len - l /\ n > 0 /\ n <= l /\ n # l
      BY <1>3, <1>6, <1>19
    <3>3. l - n >= 1 /\ l - n <= len
      BY <3>2
    <3>1. l - n \in 1 .. len
      BY <3>3
    <3> QED BY <1>3, <1>13, <2>1, <3>1
  <2>10. Fetching'
    BY <1>17, <2>1, <2>4, <2>5, <2>6, <2>7, <2>8, <2>9 DEF Fetching
  <2> QED BY <1>1, <1>13, <1>16, <2>1, <2>10
<1> QED BY <1>18, <1>19

\* The room reported is filled.
LEMMA WordsWritten ==
  ASSUME AccTyped, FifoTyped, pmem \in [Pram -> Nat], Moving, acc.part = "data", ~Ended, Storing, WriteFifo
  PROVE  /\ acc'.dir = acc.dir /\ acc'.start = acc.start /\ acc'.len = acc.len /\ acc'.buf = acc.buf
         /\ Ended' => pc' \notin PramPcs
         /\ ~Ended' => pc' = "fifo"
         /\ Storing' /\ FifoTyped' /\ UNCHANGED <<hw_fault, pmem, before>>
<1>1. pc = "xfer" /\ acc.dir = "write" /\ UNCHANGED <<hw_fault, pmem, before>>
  BY DEF WriteFifo, NoFault
<1>2. Numbers
  BY NumbersAre DEF Storing
<1>3. PICK w \in Int, t \in Nat, s \in Int, len \in Int, l \in Int :
        /\ w = NextWord /\ t = Through /\ s = acc.start /\ len = acc.len /\ l = acc.left
        /\ l > 0 /\ t = len - l /\ (t = 0 => w = Aligned(s)) /\ (t # 0 => w = s + t)
  <2>1. /\ acc.start \in Int /\ acc.len \in Int /\ Through \in Int /\ Through >= 0 /\ NextWord \in Int
        /\ (Through = 0 => NextWord = Aligned(acc.start)) /\ (Through # 0 => NextWord = acc.start + Through)
        /\ acc.left \in Int /\ acc.left > 0 /\ Through = acc.len - acc.left
    BY <1>2 DEF Numbers
  <2>2. Through \in Nat
    BY <2>1
  <2> QED BY <2>1, <2>2, Zenon
<1>4. PICK k \in Nat, c \in Nat, room \in Nat : k = Len(fifo.words) /\ c = count /\ room = FifoRoom /\ 1 <= c /\ c <= room - k
  <2>1. fifo.words \in Seq([1 .. 4 -> Nat])
    BY DEF FifoTyped
  <2>2. count \in 1 .. FifoRoom - Len(fifo.words)
    BY <1>1 DEF Storing
  <2>3. FifoRoom \in Nat
    BY Lan9252Assumption
  <2>4. count \in Nat /\ 1 <= count /\ count <= FifoRoom - Len(fifo.words)
    BY <2>1, <2>2, <2>3
  <2> QED BY <2>1, <2>3, <2>4
<1>5. PICK z \in 0 .. 3 : z = Skip /\ w + z = s + t
  <2>1. CASE t = 0
    <3>1. s = Aligned(s) + (s % 4) /\ s % 4 \in 0 .. 3 /\ Aligned(s) \in Int
      BY <1>3, AlignedIs
    <3>2. Skip = s % 4
      BY <1>3, <2>1 DEF Skip, FirstByte
    <3> QED BY <1>3, <2>1, <3>1, <3>2
  <2>2. CASE t # 0
    <3>1. Skip = 0
      BY <1>3, <2>2 DEF Skip
    <3> QED BY <1>3, <2>2, <3>1
  <2> QED BY <2>1, <2>2
<1>6. PICK n \in Nat : /\ n = Least(l, 4 * c - z) /\ n > 0 /\ n <= l /\ n <= 4 * c - z
                       /\ n = l \/ n = 4 * c - z
  <2>1. /\ Least(l, 4 * c - z) \in Int /\ Least(l, 4 * c - z) <= l /\ Least(l, 4 * c - z) <= 4 * c - z
        /\ Least(l, 4 * c - z) = l \/ Least(l, 4 * c - z) = 4 * c - z
    BY LeastIs
  <2>2. 4 * c - z > 0
    BY <1>4
  <2>3. Least(l, 4 * c - z) \in Nat
    BY <1>3, <2>1, <2>2
  <2> QED BY <1>3, <2>1, <2>2, <2>3
<1> DEFINE Byte(i) == IF i - z \in 1 .. n THEN acc.buf[t + i - z] ELSE 0
           Words   == [u \in 1 .. c |-> [i \in 1 .. 4 |-> Byte(4 * (u - 1) + i)]]
<1>7. Moved(n, acc.buf) /\ fifo' = [fifo EXCEPT !.words = fifo.words \o SubSeq(Words, 1, Least(c, room - k))]
  BY <1>3, <1>4, <1>5, <1>6 DEF WriteFifo
<1>8. /\ acc'.dir = acc.dir /\ acc'.start = acc.start /\ acc'.len = acc.len /\ acc'.buf = acc.buf
      /\ n = acc.left => Ended' /\ pc' \notin PramPcs
      /\ n # acc.left => pc' = "fifo" /\ acc'.left = acc.left - n /\ ~Ended'
  BY <1>7, MovedFields DEF Moving
<1>9. acc.buf \in Seq(Nat) /\ Len(acc.buf) = len
  BY <1>1, <1>3 DEF Moving
<1>10. \A u \in 1 .. c : Words[u] \in [1 .. 4 -> Nat]
  <2>1. ASSUME NEW u \in 1 .. c, NEW i \in 1 .. 4 PROVE Byte(4 * (u - 1) + i) \in Nat
    <3>1. PICK j \in Int : j = 4 * (u - 1) + i
      OBVIOUS
    <3>2. CASE j - z \in 1 .. n
      <4>1. PICK x \in 1 .. len : x = t + j - z
        BY <1>3, <1>6, <3>2
      <4>2. acc.buf[x] \in Nat
        BY <1>9
      <4> QED BY <3>1, <3>2, <4>1, <4>2
    <3>3. CASE j - z \notin 1 .. n
      BY <3>1, <3>3
    <3> QED BY <3>2, <3>3
  <2> HIDE DEF Byte
  <2> QED BY <2>1
<1>11. \A u \in 1 .. c : \A b \in 1 .. 4 : Words[u][b] = Byte(4 * (u - 1) + b)
  BY Zenon
<1>12. PICK f \in Seq([1 .. 4 -> Nat]) : f = fifo.words /\ Len(f) = k
  BY <1>4 DEF FifoTyped
<1> HIDE DEF Words
<1>13. PICK v \in Seq([1 .. 4 -> Nat]) : /\ v = SubSeq(Words, 1, Least(c, room - k)) /\ Len(v) = c
                                         /\ \A i \in 1 .. c : v[i] = Words[i]
  <2>1. Least(c, room - k) = c
    BY <1>4 DEF Least
  <2>2. /\ SubSeq(Words, 1, c) \in Seq([1 .. 4 -> Nat])
        /\ Len(SubSeq(Words, 1, c)) = IF 1 <= c THEN c - 1 + 1 ELSE 0
        /\ \A i \in 1 .. c - 1 + 1 : SubSeq(Words, 1, c)[i] = Words[1 + i - 1]
    BY <1>10, SubSeqProperties
  <2>3. Len(SubSeq(Words, 1, c)) = c
    BY <1>4, <2>2
  <2>4. \A i \in 1 .. c : SubSeq(Words, 1, c)[i] = Words[i]
    BY <2>2
  <2> QED BY <2>1, <2>2, <2>3, <2>4
<1>14. PICK r \in Seq([1 .. 4 -> Nat]) : /\ r = f \o v /\ Len(r) = k + c
                                         /\ \A i \in 1 .. k : r[i] = f[i]
                                         /\ \A u \in 1 .. c : r[k + u] = Words[u]
  <2>1. /\ f \o v \in Seq([1 .. 4 -> Nat]) /\ Len(f \o v) = Len(f) + Len(v)
        /\ \A i \in 1 .. Len(f) + Len(v) : (f \o v)[i] = IF i <= Len(f) THEN f[i] ELSE v[i - Len(f)]
    BY ConcatProperties
  <2>2. Len(f \o v) = k + c /\ \A i \in 1 .. k + c : (f \o v)[i] = IF i <= k THEN f[i] ELSE v[i - k]
    BY <1>12, <1>13, <2>1
  <2>3. \A i \in 1 .. k : (f \o v)[i] = f[i]
    BY <2>2
  <2>4. ASSUME NEW u \in 1 .. c PROVE (f \o v)[k + u] = Words[u]
    <3>1. PICK i \in 1 .. k + c : i = k + u /\ ~(i <= k) /\ i - k = u
      OBVIOUS
    <3> QED BY <1>13, <2>2, <3>1
  <2> QED BY <2>1, <2>2, <2>3, <2>4
<1>15. FifoTyped' /\ fifo'.dir = fifo.dir /\ fifo'.at = fifo.at /\ fifo'.left = fifo.left /\ fifo'.words = r
  <2>0. fifo' = [fifo EXCEPT !.words = r]
    BY <1>7, <1>12, <1>13, <1>14, Zenon
  <2>1. FifoTyped'
    BY <2>0, Zenon DEF FifoTyped
  <2> QED BY <2>0, <2>1, Zenon DEF FifoTyped
<1>16. Through' = t + n /\ t + n \in Int /\ t + n <= len
  <2>1. CASE n = l
    <3>1. t + n = len
      BY <1>3, <2>1
    <3>2. Through' = len
      BY <1>3, <1>8, <2>1 DEF Through
    <3> QED BY <3>1, <3>2
  <2>2. CASE n # l
    <3>1. Through' = len - (l - n)
      BY <1>3, <1>8, <2>2 DEF Through
    <3>2. t = len - l /\ n <= l
      BY <1>3, <1>6
    <3>3. len - (l - n) = t + n /\ t + n <= len
      BY <3>2
    <3> QED BY <3>1, <3>3
  <2> QED BY <2>1, <2>2
<1>17. w % 4 = 0 /\ fifo.dir = "write" /\ TransferLeft /\ fifo.at <= s + t /\ Laid
  BY <1>3 DEF Storing
<1>18. ~Ended' => /\ NextWord' = w + 4 * c /\ (w + 4 * c) % 4 = 0
                  /\ acc'.left \in 1 .. acc'.len
  <2>1. SUFFICES ASSUME n # l PROVE NextWord' = w + 4 * c /\ (w + 4 * c) % 4 = 0 /\ acc'.left \in 1 .. acc'.len
    BY <1>3, <1>8
  <2>2. NextWord' = s + (t + n)
    <3>1. Through' # 0
      BY <1>6, <1>16
    <3> QED BY <1>3, <1>8, <1>16, <3>1 DEF NextWord
  <2>3. s + (t + n) = w + 4 * c
    <3>1. n = 4 * c - z
      BY <1>6, <2>1
    <3>2. s + t + n = w + z + n
      BY <1>5
    <3> QED BY <3>1, <3>2
  <2>4. (w + 4 * c) % 4 = 0
    BY <1>17
  <2>5. l - n \in 1 .. len
    <3>1. l > 0 /\ t = len - l /\ n > 0 /\ n <= l /\ n # l
      BY <1>3, <1>6, <2>1
    <3>2. l - n >= 1 /\ l - n <= len
      BY <3>1
    <3> QED BY <3>2
  <2> QED BY <1>3, <1>8, <2>1, <2>2, <2>3, <2>4, <2>5
<1>19. TransferLeft' /\ Laid' /\ fifo'.at <= acc'.start + Through'
  <2>1. PICK at \in Int : at = fifo.at
    BY DEF FifoTyped
  <2>2. at <= s + (t + n)
    BY <1>17, <2>1
  <2>3. TransferLeft'
    BY <1>8, <1>15, <1>17 DEF TransferLeft
  <2>4. Laid'
    BY <1>1, <1>8, <1>15, <1>17 DEF Laid
  <2> QED BY <1>3, <1>8, <1>15, <1>16, <2>1, <2>2, <2>3, <2>4
<1>20. ASSUME fifo.left > 0
       PROVE  /\ Following'
              /\ IF Ended' THEN Aligned(fifo'.at) + 4 * Len(fifo'.words) >= s + len
                 ELSE Aligned(fifo'.at) + 4 * Len(fifo'.words) = NextWord'
  <2>1. PICK q \in Int : q = Aligned(fifo.at) /\ q + 4 * k = w /\ Following
    <3>1. fifo.at \in Int
      BY DEF FifoTyped
    <3>2. Aligned(fifo.at) \in Int
      BY <3>1, AlignedIs
    <3> QED BY <1>3, <1>4, <1>20, <3>2 DEF Storing
  <2>2. ASSUME NEW i \in 1 .. k + c, NEW b \in 1 .. 4, q + 4 * (i - 1) + b - 1 \in s .. s + (t + n) - 1
        PROVE  r[i][b] = acc.buf[q + 4 * (i - 1) + b - s]
    <3>1. CASE i <= k
      <4>1. PICK j \in 1 .. k : j = i
        BY <3>1
      <4>2. q + 4 * (j - 1) + b - 1 \in s .. s + t - 1
        <5>1. q + 4 * (j - 1) + b - 1 < w
          BY <2>1
        <5>2. w <= s + t
          BY <1>5
        <5>3. q + 4 * (j - 1) + b - 1 >= s
          BY <2>2, <4>1
        <5> QED BY <5>1, <5>2, <5>3
      <4>3. f[j][b] = acc.buf[q + 4 * (j - 1) + b - s]
        BY <1>3, <1>12, <2>1, <4>2 DEF Following
      <4> QED BY <1>14, <4>1, <4>3
    <3>2. CASE i > k
      <4>1. PICK u \in 1 .. c : i = k + u
        <5>1. i - k \in 1 .. c /\ i = k + (i - k)
          BY <3>2
        <5> QED BY <5>1
      <4>2. PICK j \in Int : j = 4 * (u - 1) + b /\ q + 4 * (i - 1) + b - 1 = w + j - 1
        BY <2>1, <4>1
      <4>3. j - z \in 1 .. n
        <5>1. w + j - 1 >= s /\ w + j - 1 <= s + (t + n) - 1 /\ j >= 1
          BY <2>2, <4>2
        <5>2. j - z <= n
          BY <1>5, <5>1
        <5>3. j - z >= 1
          <6>1. CASE t = 0
            BY <1>5, <5>1, <6>1
          <6>2. CASE t # 0
            <7>1. w = s + t
              BY <1>3, <6>2
            <7>2. z = 0
              BY <1>5, <7>1
            <7> QED BY <5>1, <7>2
          <6> QED BY <6>1, <6>2
        <5> QED BY <5>2, <5>3
      <4>4. t + j - z = q + 4 * (i - 1) + b - s
        BY <1>5, <4>2
      <4>5. r[i][b] = Byte(j)
        BY <1>11, <1>14, <4>1, <4>2
      <4> QED BY <4>3, <4>4, <4>5
    <3> QED BY <3>1, <3>2
  <2>3. Following'
    <3>1. /\ fifo'.words = r /\ Len(fifo'.words) = k + c /\ Aligned(fifo'.at) = q /\ acc'.start = s
          /\ Through' = t + n /\ acc'.buf = acc.buf
      BY <1>3, <1>8, <1>14, <1>15, <1>16, <2>1
    <3> QED BY <2>2, <3>1 DEF Following
  <2>6. q + 4 * k = w
    BY <2>1
  <2>4. CASE Ended'
    <3>1. n = l
      BY <1>3, <1>8, <2>4
    <3>2. q + 4 * (k + c) >= s + len
      <4>1. q + 4 * (k + c) = w + 4 * c
        BY <2>6
      <4>2. w + 4 * c >= w + z + n
        BY <1>6
      <4>3. w + z + n = s + len
        <5>1. w + z = s + t /\ t = len - l /\ n = l
          BY <1>3, <1>5, <3>1
        <5> QED BY <5>1
      <4> QED BY <4>1, <4>2, <4>3
    <3> QED BY <1>14, <1>15, <2>1, <2>3, <2>4, <3>2
  <2>5. CASE ~Ended'
    <3>1. q + 4 * (k + c) = w + 4 * c
      BY <2>6
    <3> QED BY <1>14, <1>15, <1>18, <2>1, <2>3, <2>5, <3>1
  <2> QED BY <2>4, <2>5
<1>21. Storing'
  <2>1. pc' # "xfer"
    BY <1>8 DEF PramPcs
  <2> QED BY <1>3, <1>8, <1>15, <1>17, <1>18, <1>19, <1>20, <2>1 DEF Storing
<1> QED BY <1>1, <1>8, <1>15, <1>21

-----------------------------------------------------------------------------
\* The steps of an access to process data.

\* A step of others.
LEMMA SameMove ==
  ASSUME MoveInv, UNCHANGED <<fifo, pmem, before, acc, pc, count, hw_fault, task>>
  PROVE  MoveInv'
<1>1. /\ fifo' = fifo /\ pmem' = pmem /\ before' = before /\ acc' = acc /\ pc' = pc /\ count' = count
      /\ hw_fault' = hw_fault /\ task' = task
  OBVIOUS
<1>2. Ended' = Ended /\ Doing' = Doing /\ Emptied' = Emptied /\ Moving' = Moving /\ FifoTyped' = FifoTyped
  BY <1>1 DEF Ended, OnTail, At, Doing, Emptied, Moving, FifoTyped
<1>3. Through' = Through /\ NextWord' = NextWord /\ TransferLeft' = TransferLeft
  BY <1>1, <1>2 DEF Through, NextWord, TransferLeft
<1>7. InFront' = InFront /\ Following' = Following /\ Laid' = Laid /\ (\A n : Got(n)' = Got(n))
  BY <1>1, <1>3 DEF InFront, Following, Laid, Got
<1>8. Got(Through)' = Got(Through)
  BY <1>1, <1>3 DEF Got
<1>4. Fetching' = Fetching /\ Storing' = Storing /\ (\A n : Got(n)' = Got(n))
  BY <1>1, <1>2, <1>3, <1>7, <1>8 DEF Fetching, Storing
<1>5. BeforeTransfer' = BeforeTransfer
  BY <1>1, <1>2 DEF BeforeTransfer
<1>6. InTransfer' = InTransfer
  BY <1>1, <1>2, <1>4 DEF InTransfer
<1> QED BY <1>1, <1>2, <1>5, <1>6 DEF MoveInv

\* The process is at something else.
LEMMA OtherwiseBusy ==
  ASSUME MoveInv, RegInv', Doing' # "move", Emptied, UNCHANGED <<fifo, pmem>>
  PROVE  MoveInv'
<1>1. pc' \notin PramPcs
  BY DEF RegInv, Shape, Tasks, PramPcs, InitShape, PollShape, StatusShape, TakeShape, AckShape, DataShape,
         ReadsAt, WritesAt, Ended, OnTail, InHand
<1>2. FifoTyped' /\ Emptied' /\ pmem' \in [Pram -> Nat]
  BY DEF MoveInv, FifoTyped, Emptied
<1> QED BY <1>1, <1>2 DEF MoveInv

\* The chip works on the transfer.
LEMMA FifoStepMove ==
  ASSUME MoveInv, FifoSteps
  PROVE  MoveInv'
<1>1. UNCHANGED <<hw_fault, pc, acc, count, before, task>> /\ Doing' = Doing /\ Ended' = Ended /\ Moving' = Moving
  <2>1. UNCHANGED <<hw_fault, pc, acc, count, before, task>>
    BY DEF FifoSteps, ChipFills, ChipDrains, halVars, Outside, app
  <2> QED BY <2>1 DEF Doing, Ended, OnTail, At, Moving
<1>2. CASE ChipFills
  <2>1. WordFetched /\ FifoTyped' /\ pmem' = pmem /\ FetchedWord \in [1 .. 4 -> Nat]
    BY <1>2, FillsIt DEF MoveInv
  <2>2. Emptied' /\ fifo.dir = "read" /\ fifo'.dir = "read" /\ fifo # NoTransfer
    BY <2>1 DEF WordFetched, Emptied, NoTransfer
  <2>3. Doing = "move" /\ pc \in {"abort", "start"} => BeforeTransfer'
    BY <1>1, <2>1, <2>2 DEF MoveInv, BeforeTransfer
  <2>4. ASSUME Doing = "move", ~hw_fault, pc \notin {"abort", "start"} PROVE InTransfer'
    <3>1. InTransfer /\ Moving
      BY <2>4 DEF MoveInv
    <3>2. acc.dir = "read" /\ acc'.dir = "read"
      BY <1>1, <2>2, <3>1 DEF InTransfer, Storing, Moving
    <3>3. CASE Ended
      <4>1. Got(acc.len)' = Got(acc.len)
        BY <1>1, <2>1 DEF Got
      <4> QED BY <1>1, <2>2, <3>1, <3>2, <3>3, <4>1 DEF InTransfer
    <3>4. CASE ~Ended
      <4>1. Fetching'
        BY <1>1, <2>1, <3>1, <3>2, <3>4, WordAdded DEF InTransfer, MoveInv
      <4> QED BY <1>1, <3>2, <3>4, <4>1 DEF InTransfer
    <3> QED BY <3>3, <3>4
  <2> QED BY <1>1, <2>1, <2>2, <2>3, <2>4 DEF MoveInv
<1>3. CASE ChipDrains
  <2>1. WordLaid /\ FifoTyped' /\ pmem' \in [Pram -> Nat]
    BY <1>3, DrainsIt DEF MoveInv
  <2>2. ~Emptied /\ fifo.dir = "write" /\ fifo # NoTransfer
    BY <2>1 DEF WordLaid, Emptied, NoTransfer
  <2>3. Doing = "move" /\ pc \notin {"abort", "start"}
    BY <2>2 DEF MoveInv, BeforeTransfer
  <2>4. ASSUME ~hw_fault PROVE InTransfer'
    <3>1. InTransfer /\ Moving
      BY <2>3, <2>4 DEF MoveInv
    <3>2. acc.dir = "write" /\ acc'.dir = "write"
      BY <1>1, <2>2, <3>1 DEF InTransfer, Fetching, Moving
    <3>3. Storing'
      BY <1>1, <2>1, <3>1, <3>2, WordDrained DEF InTransfer, MoveInv
    <3> QED BY <3>2, <3>3 DEF InTransfer
  <2> QED BY <1>1, <2>1, <2>3, <2>4 DEF MoveInv
<1> QED BY <1>2, <1>3 DEF FifoSteps

\* The tail read, the rest of an access after its data.
LEMMA CsrStepMove ==
  ASSUME RegInv, MoveInv, CsrStep, Outside
  PROVE  MoveInv'
<1>1. /\ UNCHANGED <<fifo, pmem, before, task>> /\ Doing' = Doing
      /\ Kinds
  BY CsrKinds DEF RegInv, Typed, Lasting, Outside, app, Kinds, Doing
<1>2. CASE Doing # "move"
  BY <1>1, <1>2, OtherwiseBusy, CsrStepRegInv DEF MoveInv
<1>3. CASE Doing = "move"
  <2>1. pc \in CsrPcs
    BY <1>1, KindsPc
  <2>2. acc.part = "tail" /\ acc.at = ALEVENT /\ acc.left = 4 /\ pc \in InHand \cup {"cmd"} /\ Ended
    BY <1>3, <2>1 DEF RegInv, Shape, MoveShape, Ended, OnTail, At, CsrPcs, PramPcs
  <2>3. /\ acc'.dir = acc.dir /\ acc'.start = acc.start /\ acc'.len = acc.len /\ acc'.buf = acc.buf
        /\ pc' \notin PramPcs /\ Ended' /\ (hw_fault' = hw_fault \/ hw_fault')
    <3>1. ASSUME NEW v, TookIt(v)
          PROVE  /\ acc'.dir = acc.dir /\ acc'.start = acc.start /\ acc'.len = acc.len /\ acc'.buf = acc.buf
                 /\ pc' \notin PramPcs /\ Ended'
      BY <2>2, <3>1 DEF TookIt, PramPcs, Ended
    <3>2. CASE Putting
      BY <2>2, <3>2 DEF Putting, InHand
    <3>3. CASE Sending \/ Waiting
      BY <2>2, <3>3 DEF Sending, Waiting, InHand, PramPcs, Ended, OnTail, At
    <3>4. CASE Getting \/ WriteOver
      BY <3>1, <3>4 DEF Getting, WriteOver
    <3>5. CASE Failing
      BY <3>1, <3>5 DEF Failing
    <3> QED BY <1>1, <3>2, <3>3, <3>4, <3>5 DEF Kinds
  <2>4. FifoTyped' /\ Moving' /\ pmem' \in [Pram -> Nat]
    BY <1>1, <1>3, <2>3 DEF MoveInv, FifoTyped, Moving
  <2>5. Through' = Through
    BY <2>2, <2>3 DEF Through
  <2>6. ASSUME InTransfer PROVE InTransfer'
    <3>1. acc.dir = "read" => fifo'.dir = "read" /\ Got(acc.len)'
      BY <1>1, <2>2, <2>3, <2>6 DEF InTransfer, Got
    <3>2. Storing => Storing'
      <4>1. TransferLeft' = TransferLeft /\ Following' = Following /\ Laid' = Laid
        BY <1>1, <2>3, <2>5 DEF TransferLeft, Following, Laid
      <4>2. pc' # "xfer"
        BY <2>3 DEF PramPcs
      <4> QED BY <1>1, <2>2, <2>3, <2>5, <4>1, <4>2 DEF Storing
    <3> QED BY <2>3, <2>6, <3>1, <3>2 DEF InTransfer
  <2>7. ~hw_fault' => InTransfer
    BY <1>3, <2>2, <2>3 DEF MoveInv, InHand
  <2> QED BY <1>1, <1>3, <2>3, <2>4, <2>6, <2>7 DEF MoveInv, PramPcs
<1> QED BY <1>2, <1>3

\* The bus fails in the middle of a transfer.
LEMMA TransferFails ==
  ASSUME MoveInv, AccTyped, Doing = "move", Doing' = "move", hw_fault' = TRUE, Finish(acc.buf), UNCHANGED <<fifo, pmem>>
  PROVE  MoveInv'
<1>1. /\ acc'.dir = acc.dir /\ acc'.start = acc.start /\ acc'.len = acc.len /\ acc'.buf = acc.buf /\ Ends
  BY FinishFields, Zenon
<1>2. pc' \notin PramPcs
  BY <1>1 DEF Ends, PramPcs
<1>3. FifoTyped' /\ Moving' /\ pmem' \in [Pram -> Nat]
  BY <1>1 DEF MoveInv, FifoTyped, Moving
<1> QED BY <1>2, <1>3 DEF MoveInv, PramPcs

LEMMA PramStepMove ==
  ASSUME RegInv, MoveInv, PramStep, Outside
  PROVE  MoveInv'
<1>1. pc \in PramPcs /\ AccTyped
  BY PramFields DEF RegInv, Typed, PramIt
<1>2. Doing = "move" /\ Doing' = "move" /\ acc.part = "data" /\ ~hw_fault /\ ~Ended /\ ~OnTail
  <2>1. Doing = "move" /\ acc.part = "data"
    BY <1>1, PramDoing DEF RegInv
  <2> QED BY <1>1, <2>1 DEF MoveInv, Ended, OnTail, Outside, app, Doing, PramPcs
<1>3. FifoTyped /\ Moving /\ pmem \in [Pram -> Nat]
  BY <1>2 DEF MoveInv
<1>4. CASE Abort
  <2>1. pc = "abort" /\ pc' = "start" /\ fifo' = NoTransfer /\ UNCHANGED <<acc, hw_fault, pmem, before>>
    BY <1>4 DEF Abort, NoFault
  <2>2. FifoTyped'
    <3>1. <<>> \in Seq([1 .. 4 -> Nat])
      OBVIOUS
    <3> QED BY <2>1, <3>1 DEF FifoTyped, NoTransfer
  <2>3. BeforeTransfer' /\ Moving'
    BY <1>2, <1>3, <2>1 DEF MoveInv, BeforeTransfer, Moving
  <2> QED BY <1>2, <1>3, <2>1, <2>2, <2>3 DEF MoveInv
<1>5. CASE StartTransfer
  <2>1. /\ pc = "start" /\ pc' = "fifo" /\ UNCHANGED <<acc, hw_fault, pmem, before>>
        /\ fifo'.dir = acc.dir /\ fifo'.at = acc.start /\ fifo'.left = acc.len /\ fifo'.words = <<>>
        /\ fifo' = [dir |-> acc.dir, at |-> acc.start, left |-> acc.len, words |-> <<>>]
    BY <1>5 DEF StartTransfer, NoFault
  <2>2. BeforeTransfer
    BY <1>2, <2>1 DEF MoveInv
  <2>3. PICK s \in Int, len \in Int : s = acc.start /\ len = acc.len /\ len > 0
    BY <1>3 DEF Moving
  <2>4. FifoTyped' /\ Moving'
    <3>1. <<>> \in Seq([1 .. 4 -> Nat]) /\ acc.dir \in {"none", "read", "write"} /\ acc.start \in Int /\ acc.len \in Int
      BY <1>3, <2>3 DEF Moving
    <3>2. FifoTyped'
      BY <2>1, <3>1 DEF FifoTyped
    <3>3. Moving'
      BY <1>3, <2>1 DEF Moving
    <3> QED BY <3>2, <3>3
  <2>5. ~Ended' /\ acc'.left = len /\ acc'.start = s /\ acc'.len = len
    BY <2>1, <2>2, <2>3 DEF Ended, OnTail, InHand, BeforeTransfer
  <2>6. Through' = 0 /\ NextWord' = Aligned(s)
    <3>1. Through' = len - len
      BY <2>5 DEF Through
    <3>2. Through' = 0
      BY <3>1
    <3> QED BY <2>5, <3>2 DEF NextWord
  <2>7. PICK q \in Int : q = Aligned(s) /\ q % 4 = 0 /\ q <= s /\ s < q + 4
    BY AlignedIs
  <2>8. TransferLeft' /\ Len(fifo'.words) = 0 /\ Aligned(fifo'.at) = q /\ fifo'.left > 0
    BY <2>1, <2>3, <2>5, <2>7 DEF TransferLeft
  <2>9. CASE acc.dir = "read"
    <3>1. Got(0)'
      <4>1. acc'.buf = <<>>
        BY <2>1, <2>2, <2>9 DEF BeforeTransfer
      <4>2. [i \in 1 .. 0 |-> pmem'[acc'.start + i - 1]] = <<>>
        OBVIOUS
      <4> QED BY <4>1, <4>2 DEF Got
    <3>2. Got(Through)'
      BY <2>6, <3>1 DEF Got
    <3>3. InFront'
      BY <2>8 DEF InFront
    <3>4. acc'.left \in 1 .. acc'.len
      BY <2>3, <2>5
    <3>5. Aligned(fifo'.at) = NextWord' + 4 * Len(fifo'.words)
      BY <2>6, <2>7, <2>8
    <3>6. NextWord' % 4 = 0 /\ fifo'.dir = "read" /\ acc'.dir = "read" /\ pc' # "xfer"
      BY <2>1, <2>6, <2>7, <2>9
    <3>7. Fetching'
      BY <2>8, <3>2, <3>3, <3>4, <3>5, <3>6 DEF Fetching
    <3>8. InTransfer'
      BY <2>5, <3>6, <3>7 DEF InTransfer
    <3> QED BY <1>2, <1>3, <2>1, <2>4, <3>8 DEF MoveInv
  <2>10. CASE acc.dir = "write"
    <3>1. Following'
      BY <2>8 DEF Following
    <3>2. Laid'
      <4>1. before = pmem
        BY <2>2 DEF BeforeTransfer
      <4>2. \A a \in Pram : a \notin s .. s - 1
        BY <2>3
      <4>3. pmem = [a \in Pram |-> IF a \in s .. s - 1 THEN acc.buf[a - s + 1] ELSE before[a]]
        BY <1>3, <4>1, <4>2
      <4> QED BY <2>1, <2>3, <4>3 DEF Laid
    <3>3. acc'.left \in 1 .. acc'.len
      BY <2>3, <2>5
    <3>4. Aligned(fifo'.at) + 4 * Len(fifo'.words) = NextWord'
      BY <2>6, <2>7, <2>8
    <3>5. NextWord' % 4 = 0 /\ fifo'.dir = "write" /\ acc'.dir = "write" /\ pc' # "xfer"
      BY <2>1, <2>6, <2>7, <2>10
    <3>6. fifo'.at <= acc'.start + Through'
      BY <2>1, <2>3, <2>6
    <3>7. Storing'
      BY <2>5, <2>8, <3>1, <3>2, <3>3, <3>4, <3>5, <3>6 DEF Storing
    <3>8. InTransfer'
      BY <2>5, <3>5, <3>7 DEF InTransfer
    <3> QED BY <1>2, <1>3, <2>1, <2>4, <3>8 DEF MoveInv
  <2> QED BY <1>3, <2>9, <2>10 DEF Moving
<1>6. CASE pram_wait_fifo
  <2>1. pc = "fifo" /\ UNCHANGED <<fifo, pmem, before>>
    BY <1>6 DEF pram_wait_fifo, chipVars
  <2>2. CASE hw_fault' = TRUE /\ Finish(acc.buf)
    BY <1>1, <1>2, <2>1, <2>2, TransferFails
  <2>3. CASE Ready > 0 /\ pc' = "xfer" /\ count' = Ready /\ UNCHANGED <<hw_fault, acc>>
    <3>1. /\ FifoTyped' /\ Moving' /\ ~Ended' /\ Through' = Through /\ NextWord' = NextWord /\ TransferLeft' = TransferLeft
          /\ acc' = acc /\ fifo' = fifo /\ pc' = "xfer"
      BY <1>2, <1>3, <2>1, <2>3 DEF FifoTyped, Moving, Ended, OnTail, InHand, Through, NextWord, TransferLeft
    <3>2. InTransfer
      BY <1>2, <2>1 DEF MoveInv
    <3>3. Len(fifo.words) \in Nat /\ FifoRoom \in Nat
      BY <1>3, Lan9252Assumption DEF FifoTyped
    <3>4. CASE acc.dir = "read"
      <4>1. count' \in 1 .. Len(fifo.words)
        BY <2>3, <3>3, <3>4 DEF Ready
      <4>2. Got(Through)' = Got(Through) /\ InFront' = InFront
        BY <2>1, <3>1 DEF Got, InFront
      <4>3. Fetching'
        BY <1>2, <3>1, <3>2, <3>4, <4>1, <4>2 DEF InTransfer, Fetching
      <4>4. InTransfer'
        BY <3>1, <3>4, <4>3 DEF InTransfer
      <4> QED BY <1>2, <1>3, <2>1, <2>3, <3>1, <4>4 DEF MoveInv
    <3>5. CASE acc.dir = "write"
      <4>1. count' \in 1 .. FifoRoom - Len(fifo.words)
        BY <2>3, <3>3, <3>5 DEF Ready
      <4>2. Following' = Following /\ Laid' = Laid
        BY <2>1, <3>1 DEF Following, Laid
      <4>3. Storing'
        BY <1>2, <3>1, <3>2, <3>5, <4>1, <4>2 DEF InTransfer, Storing
      <4>4. InTransfer'
        BY <3>1, <3>5, <4>3 DEF InTransfer
      <4> QED BY <1>2, <1>3, <2>1, <2>3, <3>1, <4>4 DEF MoveInv
    <3> QED BY <1>3, <3>4, <3>5 DEF Moving
  <2> QED BY <1>6, <2>2, <2>3 DEF pram_wait_fifo, NoFault, hw_timeout
<1>7. CASE ReadFifo
  <2>1. InTransfer /\ acc.dir = "read" /\ pc = "xfer"
    BY <1>2, <1>7 DEF ReadFifo, MoveInv
  <2>2. /\ acc'.dir = acc.dir /\ acc'.start = acc.start /\ acc'.len = acc.len
        /\ IF Ended' THEN pc' \notin PramPcs /\ fifo'.dir = "read" /\ Got(acc.len)' ELSE Fetching'
        /\ FifoTyped' /\ UNCHANGED <<hw_fault, pmem, before>>
    BY <1>1, <1>2, <1>3, <1>7, <2>1, WordsRead DEF InTransfer
  <2>3. InTransfer' /\ Moving'
    BY <1>3, <2>1, <2>2 DEF InTransfer, Moving
  <2>4. pc' \notin {"abort", "start"}
    BY <1>7, <2>1, MovedFields, <1>1, <1>2, <1>3 DEF ReadFifo, Moving, PramPcs
  <2> QED BY <1>2, <1>3, <2>2, <2>3, <2>4 DEF MoveInv
<1>8. CASE WriteFifo
  <2>1. InTransfer /\ acc.dir = "write" /\ pc = "xfer"
    BY <1>2, <1>8 DEF WriteFifo, MoveInv
  <2>2. /\ acc'.dir = acc.dir /\ acc'.start = acc.start /\ acc'.len = acc.len /\ acc'.buf = acc.buf
        /\ Ended' => pc' \notin PramPcs
        /\ ~Ended' => pc' = "fifo"
        /\ Storing' /\ FifoTyped' /\ UNCHANGED <<hw_fault, pmem, before>>
    BY <1>1, <1>2, <1>3, <1>8, <2>1, WordsWritten DEF InTransfer
  <2>3. InTransfer' /\ Moving'
    BY <1>3, <2>1, <2>2 DEF InTransfer, Moving
  <2>4. pc' \notin {"abort", "start"}
    BY <2>2 DEF PramPcs
  <2> QED BY <1>2, <1>3, <2>2, <2>3, <2>4 DEF MoveInv
<1>9. CASE PramFrameFails
  BY <1>1, <1>2, <1>9, TransferFails DEF PramFrameFails, hw_timeout, chipVars
<1> QED BY <1>4, <1>5, <1>6, <1>7, <1>8, <1>9 DEF PramStep

\* An access to process data begins.
LEMMA MoveBegins ==
  ASSUME RegInv, MoveInv, Move
  PROVE  MoveInv'
<1>1. pc = "idle" /\ task' = <<"move">> /\ Doing' = "move" /\ Emptied
  <2>1. pc = "idle" /\ task' = <<"move">>
    BY DEF Move
  <2>2. Doing # "move"
    BY <2>1 DEF RegInv, Shape
  <2> QED BY <2>1, <2>2 DEF MoveInv, Doing
<1>2. PICK m \in Moves : IF m.dir = "read" THEN ESC_read(m.start, Len(m.buf)) ELSE ESC_write(m.start, Len(m.buf), m.buf)
  BY Zenon DEF Move
<1>3. /\ m.dir \in {"read", "write"} /\ m.start \in Nat /\ m.start >= PRAM /\ m.buf \in Seq(Nat)
      /\ m.buf # <<>> /\ \A i \in 1 .. Len(m.buf) : m.start + i - 1 \in Pram
  BY EepromAssumption
<1>4. PICK s \in Nat, n \in Nat : s = m.start /\ n = Len(m.buf) /\ n > 0
  BY <1>3, EmptySeq
<1>5. s .. s + n - 1 \subseteq Pram
  <2>1. ASSUME NEW a \in s .. s + n - 1 PROVE a \in Pram
    <3>1. PICK i \in 1 .. n : i = a - s + 1 /\ s + i - 1 = a
      OBVIOUS
    <3> QED BY <1>3, <1>4, <3>1
  <2> QED BY <2>1
<1>6. PICK buf : /\ Begin(m.dir, s, n, buf)
                 /\ m.dir = "read" => buf = <<>>
                 /\ m.dir = "write" => buf = m.buf
  BY <1>2, <1>3, <1>4 DEF ESC_read, ESC_write
<1>7. /\ Begun(m.dir, s, n, FirstBuf(m.dir, s, n, buf)) /\ pc' = FirstPc(m.dir, s)
      /\ UNCHANGED <<hw_fault, fifo, pmem>> /\ before' = pmem
  BY <1>3, <1>6, BeginIt
<1>8. /\ acc'.dir = m.dir /\ acc'.start = s /\ acc'.len = n /\ acc'.left = n
      /\ acc'.buf = FirstBuf(m.dir, s, n, buf)
  BY <1>7 DEF Begun
<1>9. FifoTyped' /\ pmem' \in [Pram -> Nat] /\ Emptied'
  BY <1>1, <1>7 DEF MoveInv, FifoTyped, Emptied
<1>10. Moving'
  <2>1. m.dir = "write" => acc'.buf \in Seq(Nat) /\ Len(acc'.buf) = n
    BY <1>3, <1>4, <1>6, <1>8 DEF FirstBuf
  <2> QED BY <1>3, <1>4, <1>5, <1>8, <2>1 DEF Moving
<1>11. pc' = IF hw_fault THEN "done" ELSE "abort"
  BY <1>3, <1>4, <1>7 DEF FirstPc
<1>12. CASE hw_fault
  BY <1>1, <1>7, <1>9, <1>10, <1>11, <1>12 DEF MoveInv, PramPcs
<1>13. CASE ~hw_fault
  <2>1. BeforeTransfer'
    BY <1>6, <1>7, <1>8, <1>9, <1>11, <1>13 DEF BeforeTransfer, FirstBuf
  <2> QED BY <1>1, <1>7, <1>9, <1>10, <1>11, <1>13, <2>1 DEF MoveInv, PramPcs
<1> QED BY <1>12, <1>13

\* The process goes on with something else.
LEMMA ElsewhereMove ==
  ASSUME RegInv, RegInv', MoveInv,
         \/ InitReadNext \/ InitDecides \/ Restart
         \/ Poll \/ Event \/ DataWritten \/ Acknowledged \/ MoveReturns \/ Serve \/ Store
  PROVE  MoveInv'
<1>a. ASSUME NEW name \in {"poll", "status", "data", "ack", "take"}, NEW dir, NEW start, NEW len, NEW buf,
             Next_access(name, Begin(dir, start, len, buf))
      PROVE  Doing' # "move" /\ UNCHANGED <<fifo, pmem>>
  BY <1>a DEF Next_access, Begin, chipVars, Doing
<1>b. Returns => Doing' # "move" /\ UNCHANGED <<fifo, pmem>>
  BY DEF Returns, chipVars, Doing
<1>c. ReadStatus => Doing' # "move" /\ UNCHANGED <<fifo, pmem>>
  BY <1>a DEF ReadStatus, ESC_read
<1>d. ASSUME NEW c, Acknowledge(c) PROVE Doing' # "move" /\ UNCHANGED <<fifo, pmem>>
  BY <1>a, <1>d DEF Acknowledge, ESC_write
<1>1. CASE InitReadNext
  <2>1. Doing = "init" /\ Doing' = "init" /\ UNCHANGED <<fifo, pmem>>
    BY <1>1 DEF InitReadNext, InitRead, Doing
  <2> QED BY <2>1, OtherwiseBusy DEF MoveInv
<1>2. CASE InitDecides
  <2>1. Doing = "init" /\ Doing' = "idle" /\ UNCHANGED <<fifo, pmem>>
    BY <1>2 DEF InitDecides, Doing
  <2> QED BY <2>1, OtherwiseBusy DEF MoveInv
<1>3. CASE Restart
  <2>1. Emptied /\ Doing' = "init" /\ UNCHANGED <<fifo, pmem>>
    BY <1>3 DEF Restart, Doing
  <2> QED BY <2>1, OtherwiseBusy
<1>4. CASE Poll
  <2>1. pc = "idle"
    BY <1>4 DEF Poll
  <2>2. Doing # "move"
    BY <2>1 DEF RegInv, Shape
  <2>3. Doing' # "move" /\ UNCHANGED <<fifo, pmem>>
    BY <1>4, <1>a DEF Poll, ESC_read
  <2> QED BY <2>2, <2>3, OtherwiseBusy DEF MoveInv
<1>5. CASE Event
  <2>1. Doing = "poll" /\ (ReadStatus \/ Returns)
    BY <1>5 DEF Event, Doing
  <2> QED BY <1>b, <1>c, <2>1, OtherwiseBusy DEF MoveInv
<1>6. CASE DataWritten
  <2>1. Doing = "data" /\ Acknowledge(stat[1])
    BY <1>6 DEF DataWritten, Doing
  <2> QED BY <1>d, <2>1, OtherwiseBusy DEF MoveInv
<1>7. CASE Acknowledged
  <2>1. Doing = "ack" /\ ReadStatus
    BY <1>7 DEF Acknowledged, Doing
  <2> QED BY <1>c, <2>1, OtherwiseBusy DEF MoveInv
<1>8. CASE MoveReturns
  <2>1. Emptied /\ Returns
    BY <1>8 DEF MoveReturns
  <2> QED BY <1>b, <2>1, OtherwiseBusy
<1>9. CASE Serve
  <2>0. eep_read_size \in {4, 8}
    BY DEF RegInv, Typed, Stored
  <2>1. Doing = "status" /\ (Returns \/ ServedKind)
    BY <1>9, <2>0, ServeKinds
  <2>2. ServedKind => Doing' # "move" /\ UNCHANGED <<fifo, pmem>>
    BY <1>a, <1>d DEF ServedKind, ESC_read, ESC_write
  <2> QED BY <1>b, <2>1, <2>2, OtherwiseBusy DEF MoveInv
<1>10. CASE Store
  <2>1. Doing = "take" /\ \E c : Acknowledge(c)
    BY <1>10, Zenon DEF Store, Doing
  <2> QED BY <1>d, <2>1, OtherwiseBusy DEF MoveInv
<1> QED BY <1>1, <1>2, <1>3, <1>4, <1>5, <1>6, <1>7, <1>8, <1>9, <1>10

LEMMA InitMove ==
  ASSUME Init
  PROVE  MoveInv
<1>1. fifo = NoTransfer /\ pmem = InitialPram /\ hw_fault = FALSE /\ Doing = "init"
  BY DEF Init, Doing
<1>2. FifoTyped
  <2>1. <<>> \in Seq([1 .. 4 -> Nat])
    OBVIOUS
  <2> QED BY <1>1, <2>1 DEF FifoTyped, NoTransfer
<1>3. pmem \in [Pram -> Nat]
  <2>1. ASSUME NEW a \in Pram PROVE 200 + (a % 32) \in Nat
    <3>1. PICK b \in Nat : b = a
      BY Lan9252Assumption
    <3>2. b % 32 \in Nat
      OBVIOUS
    <3> QED BY <3>1, <3>2
  <2> QED BY <1>1, <2>1 DEF InitialPram
<1>4. Emptied
  BY <1>1 DEF Emptied, NoTransfer
<1> QED BY <1>1, <1>2, <1>3, <1>4 DEF MoveInv

LEMMA StepMove ==
  ASSUME RegInv, RegInv', MoveInv, [Next]_vars
  PROVE  MoveInv'
<1>1. CASE UNCHANGED vars
  <2>1. UNCHANGED <<fifo, pmem, before, acc, pc, count, hw_fault, task>>
    BY <1>1 DEF vars, lanVars, halVars, chipVars, app
  <2> QED BY <2>1, SameMove
<1>2. CASE Next
  <2>1. CASE ChipCommand(Written(regs, csr.at, csr.data)) /\ Outside
    <3>1. UNCHANGED <<fifo, pmem, before, acc, pc, count, hw_fault, task>>
      BY <2>1 DEF ChipCommand, halVars, Outside, app
    <3> QED BY <3>1, SameMove
  <2>2. CASE MasterCommands \/ MasterConfigures
    <3>1. UNCHANGED <<fifo, pmem, before, acc, pc, count, hw_fault, task>>
      BY <2>2 DEF MasterCommands, MasterConfigures, halVars, app
    <3> QED BY <3>1, SameMove
  <2> QED BY <1>2, <2>1, <2>2, NextKinds, CsrStepMove, PramStepMove, FifoStepMove, ElsewhereMove, MoveBegins, Zenon
<1> QED BY <1>1, <1>2

\* Once all is over what was to be moved has been, and nothing else.
LEMMA AllMoved ==
  ASSUME MoveInv
  PROVE  PramIsWhole
<1> SUFFICES ASSUME pc = "done", task[1] = "move", ~hw_fault
             PROVE  IF acc.dir = "read" THEN acc.buf = [i \in 1 .. acc.len |-> pmem[acc.start + i - 1]]
                    ELSE Emptied => pmem = [a \in Pram |-> IF a \in acc.start .. acc.start + acc.len - 1
                                                           THEN acc.buf[a - acc.start + 1] ELSE before[a]]
  BY DEF PramIsWhole
<1>1. Ended /\ InTransfer /\ Moving /\ FifoTyped
  BY DEF Ended, MoveInv, Doing
<1>2. CASE acc.dir = "read"
  BY <1>1, <1>2 DEF InTransfer, Got
<1>3. CASE acc.dir = "write"
  <2>1. SUFFICES ASSUME Emptied
                 PROVE  pmem = [a \in Pram |-> IF a \in acc.start .. acc.start + acc.len - 1
                                               THEN acc.buf[a - acc.start + 1] ELSE before[a]]
    BY <1>3
  <2>2. Storing
    BY <1>1, <1>3 DEF InTransfer
  <2>3. Len(fifo.words) = 0
    BY <2>1, <2>2 DEF Storing, Emptied
  <2>4. PICK s \in Int, len \in Int : s = acc.start /\ len = acc.len
    BY <1>1 DEF Moving
  <2>5. PICK at \in Int, l \in Int : at = fifo.at /\ l = fifo.left /\ l >= 0 /\ at + l = s + len
    BY <1>1, <2>2, <2>4 DEF FifoTyped, Storing, TransferLeft
  <2>6. l = 0
    <3>1. SUFFICES ASSUME l > 0 PROVE FALSE
      BY <2>5
    <3>2. PICK q \in Int : q = Aligned(at) /\ q <= at
      BY AlignedIs
    <3>3. q + 4 * 0 >= s + len
      BY <1>1, <2>2, <2>3, <2>4, <2>5, <3>1, <3>2 DEF Storing
    <3> QED BY <2>5, <3>1, <3>2, <3>3
  <2>7. fifo.at = s + len
    BY <2>5, <2>6
  <2> QED BY <2>2, <2>4, <2>7 DEF Storing, Laid
<1> QED BY <1>1, <1>2, <1>3 DEF Moving

\* Process memory is moved byte for byte (ESC_read_pram, ESC_write_pram).
THEOREM ProcessMemoryIsWhole == Spec => []PramIsWhole
<1>1. Init => RegInv /\ MoveInv
  BY InitRegInv, InitMove
<1>2. RegInv /\ MoveInv /\ [Next]_vars => RegInv' /\ MoveInv'
  BY StepRegInv, StepMove
<1>3. MoveInv => PramIsWhole
  BY AllMoved
<1> QED BY <1>1, <1>2, <1>3, PTL DEF Spec

-----------------------------------------------------------------------------
Reads(c) == c.cmd \in {EEP_CMD_READ, EEP_CMD_RELOAD}
InRegisters(c) ==
  /\ Status \in {Command(c.cmd), WithAckErr(Command(c.cmd))}
  /\ regs[EECONTSTAT + 2] = c.addr /\ regs[EECONTSTAT + 4] = 0
  /\ c.cmd = EEP_CMD_WRITE => regs[EEDATA] = c.data
Outstanding == Busy(Status) => \A c \in asked : InRegisters(c)

PendingInv ==
  Pending =>
    /\ Busy(Status)
    /\ \A c \in asked : \/ csr.at = EECONTSTAT /\ Answer(c, csr.data[1] % 32768)
                        \/ csr.at # EECONTSTAT /\ Reads(c)

Seen == acc.buf # <<>> /\ Busy(acc.buf[1])
StatusRead ==
  Doing = "status" =>
    /\ acc.part = "data" /\ acc.at = EECONTSTAT /\ pc # "done" => ~hw_fault
    /\ Seen => acc.buf[1] = Status
    /\ ~hw_fault /\ Read /\ acc.part = "data" /\ acc.at = EECONTSTAT =>
          IsWords(csr.data, 1) /\ (Busy(csr.data[1]) => csr.data[1] = Status)
    /\ ~hw_fault /\ Read /\ acc.part = "data" /\ acc.at # EECONTSTAT /\ Seen =>
          csr.data = <<regs[EECONTSTAT + 2], regs[EECONTSTAT + 4]>>
    /\ ~hw_fault /\ Ended /\ Seen => acc.buf[2] = regs[EECONTSTAT + 2] /\ acc.buf[3] = regs[EECONTSTAT + 4]

InData(k) == \A i \in 1 .. k : regs[EEDATA + 2 * (i - 1)] = acc.buf[i]
Offset == (acc.at - EEDATA) \div 2
DataRead ==
  Doing = "data" =>
    /\ Busy(Status) /\ \A c \in asked : Reads(c)
    /\ ~hw_fault =>
         /\ stat[1] = NoErrors(Status)
         /\ \A c \in asked : Possible(c) /\ acc.buf = WordsOf(FirstAsked(c), WordsAsked(c))
         /\ ~Ended => InData(Offset)
         /\ ~Ended /\ Read => InData(Offset + WordsNeeded(Chunk))
         /\ Ended => InData(Len(acc.buf))

WordTaken ==
  Doing = "take" =>
    /\ Busy(Status) /\ \A c \in asked : c.cmd = EEP_CMD_WRITE
    /\ ~hw_fault =>
         /\ stat[1] = NoErrors(Status) /\ \A c \in asked : stat[2] = c.addr
         /\ ~Ended /\ Read => csr.data = <<regs[EEDATA]>>
         /\ Ended => acc.buf = <<regs[EEDATA]>>

Acknowledging ==
  Doing = "ack" /\ acc.part = "data" /\ pc \in {"put", "cmd"} =>
    /\ Busy(Status) /\ \A c \in asked : Answer(c, acc.buf[1] % 32768)
EepromInv == Outstanding /\ Answered /\ PendingInv /\ StatusRead /\ DataRead /\ WordTaken /\ Acknowledging

-----------------------------------------------------------------------------
\* What is asked and answered stays while registers and EEPROM do.
Kept == UNCHANGED <<regs, eeprom, asked, eep_read_size>>
LEMMA KeptAnswers ==
  ASSUME Kept
  PROVE  /\ Status' = Status /\ Outstanding' = Outstanding /\ Answered' = Answered
         /\ \A c, v : Answer(c, v)' = Answer(c, v)
         /\ \A c : Possible(c)' = Possible(c) /\ WordsOf(FirstAsked(c), WordsAsked(c))' = WordsOf(FirstAsked(c), WordsAsked(c))
<1> USE DEF Kept
<1>1. Status' = Status
  BY DEF Status
<1>2. \A c : FirstAsked(c)' = FirstAsked(c) /\ WordsAsked(c)' = WordsAsked(c)
  BY DEF FirstAsked, WordsAsked
<1>3. \A c : Possible(c)' = Possible(c)
  BY <1>2, Zenon DEF Possible
<1>4. \A c : WordsOf(FirstAsked(c), WordsAsked(c))' = WordsOf(FirstAsked(c), WordsAsked(c))
  BY <1>2 DEF WordsOf
<1>5. \A c, v : Answer(c, v)' = Answer(c, v)
  BY <1>2, <1>3 DEF Answer
<1>6. Answered' = Answered
  BY <1>5 DEF Answered
<1>7. Outstanding' = Outstanding
  BY <1>1 DEF Outstanding, InRegisters
<1> QED BY <1>1, <1>3, <1>4, <1>5, <1>6, <1>7

\* A step that leaves the access and the command of the chip alone as well.
LEMMA Unmoving ==
  ASSUME EepromInv, Kept, UNCHANGED <<task, pc, acc, csr, stat, hw_fault>>
  PROVE  EepromInv'
<1>1. /\ Status' = Status /\ Outstanding' = Outstanding /\ Answered' = Answered
      /\ \A c, v : Answer(c, v)' = Answer(c, v)
      /\ \A c : Possible(c)' = Possible(c) /\ WordsOf(FirstAsked(c), WordsAsked(c))' = WordsOf(FirstAsked(c), WordsAsked(c))
  BY KeptAnswers
<1>2. /\ Doing' = Doing /\ Read' = Read /\ Ended' = Ended /\ Seen' = Seen /\ Pending' = Pending /\ Offset' = Offset
      /\ Chunk' = Chunk
  BY DEF Doing, Read, Ended, OnTail, At, Seen, Pending, Offset, Chunk
<1>3. \A k : InData(k)' = InData(k)
  BY DEF InData, Kept
<1>4. UNCHANGED <<regs, asked>>
  BY DEF Kept
<1>5. PendingInv' /\ Acknowledging'
  BY <1>1, <1>2, <1>4 DEF EepromInv, PendingInv, Acknowledging
<1>6. StatusRead' /\ WordTaken'
  BY <1>1, <1>2, <1>4 DEF EepromInv, StatusRead, WordTaken
<1>7. DataRead'
  BY <1>1, <1>2, <1>3, <1>4 DEF EepromInv, DataRead
<1> QED BY <1>1, <1>5, <1>6, <1>7 DEF EepromInv

\* The control word of a command, and what EEP_process makes of it.
LEMMA Controls ==
  ASSUME NEW cmd \in 0 .. 7, NEW s \in {Command(cmd), WithAckErr(Command(cmd))}
  PROVE  /\ Busy(s) /\ Cmd(s) = cmd /\ s \in Nat
         /\ ~AckErr(NoErrors(s) % 32768) /\ AckErr(WithAckErr(NoErrors(s)) % 32768)
         /\ NoErrors(s) \in Nat
<1>1. NoErrors(s) = 32768 + 256 * cmd /\ Busy(s) /\ Cmd(s) = cmd
  BY DEF Command, WithAckErr, NoErrors, Busy, Cmd
<1>2. (32768 + 256 * cmd) % 32768 = 256 * cmd /\ (32768 + 256 * cmd + 8192) % 32768 = 256 * cmd + 8192
  OBVIOUS
<1>3. ((256 * cmd) \div 8192) % 2 # 1 /\ ((256 * cmd + 8192) \div 8192) % 2 = 1
  OBVIOUS
<1> QED BY <1>1, <1>2, <1>3 DEF AckErr, WithAckErr, Command

-----------------------------------------------------------------------------
\* A frame of a register access.
LEMMA CsrPending ==
  ASSUME RegInv, EepromInv, Kinds, UNCHANGED task, Kept
  PROVE  PendingInv'
<1> USE DEF RegInv, EepromInv
<1>1. Status' = Status /\ \A c, v : Answer(c, v)' = Answer(c, v)
  BY KeptAnswers
<1>2. asked' = asked
  BY DEF Kept
<1>3. CASE csr' = csr
  BY <1>1, <1>2, <1>3 DEF PendingInv, Pending
<1>4. CASE pc = "cmd" /\ csr' = Commanded
  <2>1. SUFFICES ASSUME Pending' PROVE PendingInv'
    BY DEF PendingInv
  <2>2. /\ SentIt /\ ~Reading
        /\ \/ csr'.at = EECONTSTAT /\ Doing = "ack"
           \/ csr'.at \in {EEDATA, EEDATA + 4} /\ Doing = "data"
    BY <1>4, <2>1, SentShape DEF SentIt, Pending
  <2>3. pc \in CsrPcs
    BY <1>4 DEF CsrPcs
  <2>4. CASE Doing = "ack" /\ csr'.at = EECONTSTAT
    <3>1. acc.at = acc.start /\ FrameSize = 1 /\ acc.dir = "write" /\ acc.part = "data"
      BY <2>2, <2>3, <2>4, WritingAt
    <3>2. csr'.data = ChunkWords /\ ChunkWords[1] = acc.buf[(acc.at - acc.start) \div 2 + 1]
      BY <1>4, <2>2, <2>3, <3>1, PutWords DEF CommandShape, SentIt
    <3>3. acc.at \in Int
      BY DEF AccTyped, Typed, Accesses
    <3>4. csr'.data[1] = acc.buf[1]
      BY <3>1, <3>2, <3>3
    <3>5. Busy(Status) /\ \A c \in asked : Answer(c, acc.buf[1] % 32768)
      BY <1>4, <2>4, <3>1 DEF Acknowledging
    <3> QED BY <1>1, <1>2, <2>4, <3>4, <3>5 DEF PendingInv
  <2>5. CASE Doing = "data" /\ csr'.at \in {EEDATA, EEDATA + 4}
    <3>1. csr'.at # EECONTSTAT
      BY <2>5 DEF EEDATA, EECONTSTAT
    <3>2. Busy(Status) /\ \A c \in asked : Reads(c)
      BY <2>5 DEF DataRead
    <3> QED BY <1>1, <1>2, <3>1, <3>2 DEF PendingInv, Reads
  <2> QED BY <2>2, <2>4, <2>5
<1>5. CASE Putting
  <2>1. csr'.busy = csr.busy /\ csr'.dir = csr.dir /\ csr'.at = csr.at /\ Doing \in {"ack", "data"} /\ ~Reading
    BY <1>5, PutShape
  <2>2. SUFFICES ASSUME Pending PROVE PendingInv'
    BY <2>1 DEF PendingInv, Pending
  <2>3. hw_fault
    BY <1>5, <2>2 DEF Putting, Pending, Handshake
  <2>4. acc.part = "data" /\ pc = "put" /\ pc \in CsrPcs
    BY <1>5, <2>1, WritingAt DEF Putting, CsrPcs
  <2>5. Doing = "data"
    BY <2>1, <2>3, <2>4 DEF AckFresh
  <2>6. csr.at # EECONTSTAT
    BY <2>2, <2>5 DEF PendingKind
  <2> QED BY <1>1, <1>2, <2>1, <2>2, <2>6 DEF PendingInv, Reads
<1> QED BY <1>3, <1>4, <1>5 DEF Kinds, Sending, Waiting, Getting, WriteOver, Failing

LEMMA CsrAcknowledging ==
  ASSUME RegInv, EepromInv, Kinds, UNCHANGED task, Kept
  PROVE  Acknowledging'
<1> USE DEF RegInv, EepromInv
<1>1. Status' = Status /\ \A c, v : Answer(c, v)' = Answer(c, v)
  BY KeptAnswers
<1>2. asked' = asked
  BY DEF Kept
<1>3. SUFFICES ASSUME Doing = "ack", acc'.part = "data", pc' \in {"put", "cmd"} PROVE Acknowledging'
  BY DEF Acknowledging, Doing
<1>4. acc'.dir = "write" /\ acc.dir = "write"
  BY <1>3 DEF Shape, AckShape, Access, Kinds, Putting, Sending, Waiting, Getting, WriteOver, Failing, TookIt
<1>5. ASSUME NEW v, TookIt(v) PROVE FALSE
  BY <1>3, <1>4, <1>5, TookPc, KindsPc DEF Typed
<1>6. Putting
  BY <1>3, <1>5 DEF Kinds, Sending, Waiting, Getting, WriteOver, Failing
<1>7. acc' = acc /\ pc = "put"
  BY <1>6 DEF Putting
<1> QED BY <1>1, <1>2, <1>3, <1>7 DEF Acknowledging

LEMMA OneAndTwo ==
  ASSUME NEW s, NEW t, IsWords(s, 1), IsWords(t, 2)
  PROVE  (s \o t)[1] = s[1] /\ (s \o t)[2] = t[1] /\ (s \o t)[3] = t[2] /\ Len(s \o t) = 3 /\ Len(s) = 1
<1>1. PICK a \in Seq(Nat), b \in Seq(Nat) : a = s /\ b = t /\ Len(a) = 1 /\ Len(b) = 2
  BY Zenon DEF IsWords
<1>2. /\ a \o b \in Seq(Nat) /\ Len(a \o b) = Len(a) + Len(b)
      /\ \A i \in 1 .. Len(a) + Len(b) : (a \o b)[i] = IF i <= Len(a) THEN a[i] ELSE b[i - Len(a)]
  BY ConcatProperties
<1>3. (a \o b)[1] = a[1] /\ (a \o b)[2] = b[1] /\ (a \o b)[3] = b[2] /\ Len(a \o b) = 3
  BY <1>1, <1>2
<1> QED BY <1>1, <1>3

LEMMA CsrStatusRead ==
  ASSUME RegInv, EepromInv, Kinds, UNCHANGED task, Kept
  PROVE  StatusRead'
<1> USE DEF RegInv, EepromInv
<1>1. Status' = Status /\ regs' = regs
  BY KeptAnswers DEF Kept
<1>2. SUFFICES ASSUME Doing = "status" PROVE StatusRead'
  BY DEF StatusRead, Doing
<1>3. /\ Doing' = "status" /\ pc \in CsrPcs /\ acc.dir = "read" /\ Reading /\ StatusShape
  BY <1>2, KindsPc DEF Doing, Shape, StatusShape, Access, Reading
<1>4. ASSUME acc' = acc, pc # "done", pc' # "done", hw_fault' = hw_fault,
             Ended' => Ended, Read' => Read /\ csr' = csr
      PROVE  StatusRead'
  <2>1. Seen' = Seen
    BY <1>4 DEF Seen
  <2> QED BY <1>1, <1>2, <1>3, <1>4, <2>1 DEF StatusRead
<1>5. CASE Putting
  BY <1>3, <1>5, PutShape
<1>6. CASE Sending
  <2>1. csr'.busy
    BY <1>6, SentShape DEF Sending, SentIt
  <2> QED BY <1>4, <1>6, <2>1 DEF Sending, Ended, OnTail, At, InHand, Read
<1>7. CASE Waiting
  BY <1>4, <1>7 DEF Waiting, Ended, OnTail, At, InHand, Read
<1>8. CASE WriteOver
  BY <1>3, <1>8 DEF WriteOver
<1>9. ASSUME NEW v, IsWords(v, FrameSize), TookIt(v), hw_fault => hw_fault',
             ~hw_fault' /\ acc.part = "data" /\ acc.at = EECONTSTAT => (Busy(v[1]) => v[1] = Status),
             ~hw_fault' /\ acc.part = "data" /\ acc.at # EECONTSTAT /\ Seen =>
                   v = <<regs[EECONTSTAT + 2], regs[EECONTSTAT + 4]>>,
             hw_fault' => hw_fault \/ ~Busy(v[1])
      PROVE  StatusRead'
  <2>1. acc'.dir = "read" /\ ~IsALevent
    BY <1>3, <1>9 DEF TookIt, StatusShape, Access, IsALevent, EECONTSTAT, ALEVENT
  <2>2. CASE ReadsAt(EECONTSTAT, 6) /\ acc.buf = <<>>
    <3>1. FrameSize = 1 /\ Chunk = 2 /\ Chunk # acc.left
      BY <2>2, Chunks DEF ReadsAt, At, Chunk, FrameSize, WordsNeeded
    <3>2. /\ acc'.buf = <<>> \o v /\ pc' = "cmd" /\ acc'.part = "data" /\ acc'.at = EECONTSTAT + 2
      BY <1>3, <1>9, <2>2, <3>1 DEF TookIt, GoesOn, ReadsAt, At, Joined
    <3>3. acc'.buf = v /\ Len(v) = 1
      BY <1>9, <3>1, <3>2 DEF IsWords
    <3>4. ~hw_fault /\ acc.part = "data" /\ acc.at = EECONTSTAT
      BY <1>2, <1>3, <2>2 DEF StatusRead, ReadsAt, At, CsrPcs
    <3>5. Seen' => acc'.buf[1] = Status'
      BY <1>1, <1>9, <3>3, <3>4 DEF Seen
    <3>6. ~Read' /\ ~Ended' /\ acc'.at # EECONTSTAT
      BY <3>2 DEF Read, InHand, Ended, OnTail, EECONTSTAT
    <3> QED BY <1>3, <3>5, <3>6 DEF StatusRead
  <2>3. CASE ReadsAt(EECONTSTAT + 2, 4) /\ IsWords(acc.buf, 1)
    <3>1. FrameSize = 2 /\ Chunk = 4 /\ Chunk = acc.left
      BY <2>3, Chunks DEF ReadsAt, At, Chunk, FrameSize, WordsNeeded
    <3>2. acc'.buf = acc.buf \o v /\ pc' \in {"done", "cmd"} /\ (pc' = "cmd" => acc'.part = "tail")
      BY <1>3, <1>9, <2>3, <3>1 DEF TookIt, Ends, ReadsAt, At, Joined
    <3>3. acc'.buf[1] = acc.buf[1] /\ acc'.buf[2] = v[1] /\ acc'.buf[3] = v[2] /\ Len(acc'.buf) = 3 /\ Len(acc.buf) = 1
      <4>1. IsWords(v, 2)
        BY <1>9, <3>1
      <4>2. PICK s, r : s = acc.buf /\ r = acc'.buf
        OBVIOUS
      <4>3. IsWords(s, 1) /\ r = s \o v
        BY <2>3, <3>2, <4>2
      <4>4. r[1] = s[1] /\ r[2] = v[1] /\ r[3] = v[2] /\ Len(r) = 3 /\ Len(s) = 1
        BY <4>1, <4>3, OneAndTwo
      <4> QED BY <4>2, <4>4
    <3>4. Seen' => Seen
      BY <3>3 DEF Seen
    <3>5. Seen' => acc'.buf[1] = Status'
      BY <1>1, <1>2, <3>3, <3>4 DEF StatusRead
    <3>6. acc.part = "data" /\ acc.at # EECONTSTAT
      BY <2>3 DEF ReadsAt, At, EECONTSTAT
    <3>7. ~hw_fault' /\ Seen' => acc'.buf[2] = regs'[EECONTSTAT + 2] /\ acc'.buf[3] = regs'[EECONTSTAT + 4]
      BY <1>1, <1>9, <3>3, <3>4, <3>6
    <3>8. ~Read' /\ (acc'.part = "data" => pc' = "done")
      BY <3>2 DEF Read, InHand
    <3> QED BY <1>3, <3>5, <3>7, <3>8 DEF StatusRead
  <2>4. CASE OnTail
    <3>1. acc'.buf = acc.buf /\ pc' = "done" /\ acc'.part = "tail"
      BY <1>9, <2>4 DEF TookIt, OnTail
    <3>2. Seen' = Seen /\ ~Read' /\ Ended
      BY <2>4, <3>1 DEF Seen, Read, InHand, Ended
    <3> QED BY <1>1, <1>2, <1>3, <1>9, <3>1, <3>2 DEF StatusRead
  <2> QED BY <1>3, <2>2, <2>3, <2>4 DEF StatusShape, Ended, CsrPcs
<1>10. CASE Getting
  <2>1. TookIt(Shown) /\ hw_fault' = hw_fault /\ pc \in InHand
    BY <1>10 DEF Getting, InHand
  <2>2. /\ IsWords(Shown, FrameSize)
        /\ ~csr.busy /\ Len(csr.data) = FrameSize => Shown = csr.data
    BY <1>3, ShownAre DEF Typed
  <2>3. ~hw_fault => Read
    BY <1>10, <2>1 DEF Getting, Handshake, Read
  <2>4. ASSUME ~hw_fault, acc.part = "data", acc.at = EECONTSTAT, Busy(Shown[1]) PROVE Shown[1] = Status
    <3>1. acc.left = 6
      BY <1>3, <2>1, <2>4 DEF StatusShape, ReadsAt, At, Ended, OnTail, InHand, EECONTSTAT
    <3>2. FrameSize = 1
      BY <2>4, <3>1, Chunks DEF Chunk, FrameSize, WordsNeeded
    <3>3. IsWords(csr.data, 1) /\ (Busy(csr.data[1]) => csr.data[1] = Status)
      BY <1>2, <2>3, <2>4 DEF StatusRead
    <3> QED BY <2>2, <2>3, <2>4, <3>2, <3>3 DEF Read, IsWords
  <2>5. ASSUME ~hw_fault, acc.part = "data", acc.at # EECONTSTAT, Seen
        PROVE  Shown = <<regs[EECONTSTAT + 2], regs[EECONTSTAT + 4]>>
    <3>1. acc.at = EECONTSTAT + 2 /\ acc.left = 4
      BY <1>3, <2>1, <2>5 DEF StatusShape, ReadsAt, At, Ended, OnTail, InHand
    <3>2. FrameSize = 2
      BY <3>1, Chunks DEF Chunk, FrameSize, WordsNeeded
    <3>3. csr.data = <<regs[EECONTSTAT + 2], regs[EECONTSTAT + 4]>>
      BY <1>2, <2>3, <2>5 DEF StatusRead
    <3>4. Len(csr.data) = 2
      BY <3>3
    <3> QED BY <2>2, <2>3, <2>5, <3>2, <3>3, <3>4 DEF Read
  <2> QED BY <1>9, <2>1, <2>2, <2>4, <2>5
<1>11. CASE Failing
  <2>1. IsWords(Zeros(Chunk), FrameSize)
    BY <1>3, ZerosAre
  <2>2. Zeros(Chunk)[1] = 0
    <3>1. PICK n \in {1, 2} : n = FrameSize
      BY <1>3, ChunkIn
    <3>2. Zeros(Chunk) = [i \in 1 .. n |-> 0]
      BY <3>1 DEF Zeros, FrameSize
    <3> QED BY <3>2
  <2>3. ~Busy(Zeros(Chunk)[1])
    BY <2>2 DEF Busy
  <2> QED BY <1>9, <1>11, <2>1, <2>3 DEF Failing
<1> QED BY <1>5, <1>6, <1>7, <1>8, <1>10, <1>11 DEF Kinds

LEMMA CsrWordTaken ==
  ASSUME RegInv, EepromInv, Kinds, UNCHANGED <<task, stat>>, Kept
  PROVE  WordTaken'
<1> USE DEF RegInv, EepromInv
<1>1. Status' = Status /\ regs' = regs /\ asked' = asked
  BY KeptAnswers DEF Kept
<1>2. SUFFICES ASSUME Doing = "take" PROVE WordTaken'
  BY DEF WordTaken, Doing
<1>3. /\ Doing' = "take" /\ pc \in CsrPcs /\ acc.dir = "read" /\ Reading /\ TakeShape
  BY <1>2, KindsPc DEF Doing, Shape, TakeShape, Access, Reading
<1>4. ASSUME hw_fault' \/ /\ hw_fault' = hw_fault
                          /\ ~Ended' => ~Read' \/ (~Ended /\ Read /\ csr' = csr)
                          /\ Ended' => (Ended /\ acc'.buf = acc.buf) \/ acc'.buf = <<regs[EEDATA]>>
      PROVE  WordTaken'
  BY <1>1, <1>2, <1>3, <1>4 DEF WordTaken
<1>5. CASE Putting
  BY <1>3, <1>5, PutShape
<1>6. CASE Sending
  <2>1. csr'.busy
    BY <1>6, SentShape DEF Sending, SentIt
  <2> QED BY <1>4, <1>6, <2>1 DEF Sending, Ended, OnTail, At, InHand, Read
<1>7. CASE Waiting
  BY <1>4, <1>7 DEF Waiting, Ended, OnTail, At, InHand, Read
<1>8. CASE WriteOver
  BY <1>3, <1>8 DEF WriteOver
<1>9. CASE Getting
  <2>1. TookIt(Shown) /\ hw_fault' = hw_fault /\ pc \in InHand /\ pc # "done"
    BY <1>9 DEF Getting, InHand
  <2>2. CASE OnTail
    <3>1. acc'.buf = acc.buf /\ pc' = "done"
      BY <2>1, <2>2 DEF TookIt, OnTail
    <3> QED BY <1>4, <2>1, <2>2, <3>1 DEF Ended
  <2>3. CASE ~OnTail
    <3>1. ReadsAt(EEDATA, 2) /\ acc.buf = <<>>
      BY <1>3, <2>1, <2>3 DEF TakeShape, Ended
    <3>2. FrameSize = 1 /\ Chunk = 2 /\ Chunk = acc.left
      BY <3>1, Chunks DEF ReadsAt, At, Chunk, FrameSize, WordsNeeded
    <3>3. acc'.buf = <<>> \o Shown /\ Ends
      BY <1>3, <2>1, <3>1, <3>2 DEF TookIt, ReadsAt, Joined
    <3>4. IsWords(Shown, 1)
      BY <1>3, <3>2, ShownAre DEF Typed
    <3>5. acc'.buf = Shown
      BY <3>3, <3>4 DEF IsWords
    <3>6. ASSUME ~hw_fault PROVE Shown = <<regs[EEDATA]>>
      <4>1. Read /\ ~Ended
        BY <1>9, <2>1, <2>3, <3>6 DEF Getting, Handshake, Read, Ended
      <4>2. csr.data = <<regs[EEDATA]>>
        BY <1>2, <3>6, <4>1 DEF WordTaken
      <4>3. Len(csr.data) = 1
        BY <4>2
      <4> QED BY <1>3, <3>2, <4>1, <4>2, <4>3, ShownAre DEF Typed, Read
    <3>7. Ended' \/ ~Read'
      BY <3>3 DEF Ends, Ended, Read, InHand
    <3> QED BY <1>4, <2>1, <3>5, <3>6, <3>7
  <2> QED BY <2>2, <2>3
<1>10. CASE Failing
  BY <1>4, <1>10 DEF Failing
<1> QED BY <1>5, <1>6, <1>7, <1>8, <1>9, <1>10 DEF Kinds

LEMMA CsrDataRead ==
  ASSUME RegInv, EepromInv, Kinds, UNCHANGED <<task, stat>>, Kept
  PROVE  DataRead'
<1> USE DEF RegInv, EepromInv
<1>1. /\ Status' = Status /\ regs' = regs /\ asked' = asked
      /\ \A c : Possible(c)' = Possible(c) /\ WordsOf(FirstAsked(c), WordsAsked(c))' = WordsOf(FirstAsked(c), WordsAsked(c))
  BY KeptAnswers DEF Kept
<1>2. SUFFICES ASSUME Doing = "data" PROVE DataRead'
  BY DEF DataRead, Doing
<1>3. /\ Doing' = "data" /\ pc \in CsrPcs /\ acc.dir = "write" /\ DataShape
  BY <1>2, KindsPc DEF Doing, Shape, DataShape, Access
<1>4. ASSUME acc'.buf = acc.buf,
             hw_fault' \/ /\ hw_fault' = hw_fault
                          /\ ~Ended' => InData(Offset)'
                          /\ ~Ended' /\ Read' => InData(Offset + WordsNeeded(Chunk))'
                          /\ Ended' => InData(Len(acc.buf))'
      PROVE  DataRead'
  <2>1. Busy(Status)' /\ \A c \in asked' : Reads(c)
    BY <1>1, <1>2 DEF DataRead
  <2>2. ~hw_fault => /\ stat'[1] = NoErrors(Status')
                    /\ \A c \in asked' : Possible(c)' /\ acc'.buf = WordsOf(FirstAsked(c), WordsAsked(c))'
    BY <1>1, <1>2, <1>4 DEF DataRead
  <2> QED BY <1>3, <1>4, <2>1, <2>2 DEF DataRead, Reads
<1>5. ASSUME NEW k, acc'.buf = acc.buf, InData(k) PROVE InData(k)'
  BY <1>1, <1>5 DEF InData
<1>6. ASSUME acc' = acc, hw_fault' = hw_fault, Ended' = Ended, Read' => Read /\ csr' = csr
      PROVE  DataRead'
  <2>1. Offset' = Offset /\ Chunk' = Chunk /\ acc'.buf = acc.buf
    BY <1>6 DEF Offset, Chunk
  <2>2. ~hw_fault => /\ ~Ended => InData(Offset)
                     /\ ~Ended /\ Read => InData(Offset + WordsNeeded(Chunk))
                     /\ Ended => InData(Len(acc.buf))
    BY <1>2 DEF DataRead
  <2>3. \A k : InData(k) => InData(k)'
    BY <1>5, <2>1
  <2>4. Read' => Read
    BY <1>6
  <2>5. WordsNeeded(Chunk)' = WordsNeeded(Chunk) /\ (Offset + WordsNeeded(Chunk))' = Offset + WordsNeeded(Chunk)
    BY <2>1
  <2>6. /\ ~hw_fault /\ ~Ended' => InData(Offset)'
        /\ ~hw_fault /\ ~Ended' /\ Read' => InData(Offset + WordsNeeded(Chunk))'
        /\ ~hw_fault /\ Ended' => InData(Len(acc.buf))'
    BY <1>6, <2>2, <2>4, <2>5, <2>1, <1>1 DEF InData
  <2> QED BY <1>4, <1>6, <2>1, <2>6
<1>7. CASE Putting
  <2>1. ~Read' /\ acc' = acc /\ hw_fault' = hw_fault /\ pc' = "cmd" /\ pc = "put" /\ ~Reading
    BY <1>7, PutShape DEF Putting, Read, InHand
  <2>2. acc.part # "tail"
    BY <2>1 DEF Reading
  <2>3. Ended' = FALSE /\ Ended = FALSE
    BY <2>1, <2>2 DEF Ended, OnTail
  <2> QED BY <1>6, <2>1, <2>3
<1>8. CASE Sending
  <2>1. csr'.busy /\ acc' = acc /\ hw_fault' = hw_fault /\ pc = "cmd" /\ pc' = "busy"
    BY <1>8, SentShape DEF Sending, SentIt
  <2>2. Ended' = Ended
    BY <2>1 DEF Ended, OnTail, At, InHand
  <2> QED BY <1>6, <2>1, <2>2 DEF Read
<1>9. CASE Waiting
  <2>1. acc' = acc /\ hw_fault' = hw_fault /\ csr' = csr /\ pc \in InHand /\ pc' \in InHand
    BY <1>9 DEF Waiting, InHand
  <2>2. Ended' = Ended
    BY <2>1 DEF Ended, OnTail, At, InHand
  <2> QED BY <1>6, <2>1, <2>2 DEF Read
<1>10. CASE Getting
  <2>1. TookIt(Shown) /\ hw_fault' = hw_fault /\ pc \in {"data", "again"}
    BY <1>10 DEF Getting
  <2>2. OnTail
    BY <1>3, <2>1 DEF DataShape, WritesAt, Ended
  <2>3. acc'.buf = acc.buf /\ pc' = "done" /\ Ended' /\ Ended
    BY <2>1, <2>2 DEF TookIt, OnTail, Ended
  <2>4. ~hw_fault => InData(Len(acc.buf))
    BY <1>2, <2>3 DEF DataRead
  <2>5. ~hw_fault => InData(Len(acc.buf))'
    BY <1>1, <2>3, <2>4 DEF InData
  <2> QED BY <1>4, <2>1, <2>3, <2>5
<1>11. CASE WriteOver
  <2>1. ~Reading /\ ~csr.busy /\ TookIt(<<>>) /\ hw_fault' = hw_fault /\ pc \in {"busy", "wait"}
    BY <1>11 DEF WriteOver
  <2>2. acc.part = "data" /\ ~Ended /\ Read
    BY <1>3, <2>1, WritingAt DEF Ended, OnTail, Read, InHand
  <2>3. acc'.buf = acc.buf
    BY <1>3, <2>1, <2>2 DEF TookIt, Joined
  <2>4. /\ \/ acc.at = EEDATA /\ FrameSize = 1 /\ Len(acc.buf) = 1
           \/ acc.at = EEDATA /\ FrameSize = 2 /\ Len(acc.buf) \in {2, 4}
           \/ acc.at = EEDATA + 4 /\ FrameSize = 2 /\ Len(acc.buf) = 4
    BY <1>2, <1>3, <2>1, WritingAt
  <2>5. PICK k \in 1 .. 4 : k = Offset + FrameSize
    <3>1. CASE acc.at = EEDATA
      BY <2>4, <3>1 DEF Offset, EEDATA
    <3>2. CASE acc.at = EEDATA + 4
      BY <2>4, <3>2 DEF Offset, EEDATA
    <3> QED BY <2>4, <3>1, <3>2
  <2>6. ~hw_fault => InData(k)
    BY <1>2, <2>2, <2>5 DEF DataRead, FrameSize
  <2>7. ~hw_fault => InData(k)'
    BY <1>1, <2>3, <2>6 DEF InData
  <2>8. CASE Chunk = acc.left
    <3>1. Ended'
      BY <2>1, <2>2, <2>8 DEF TookIt, Ends, Ended, OnTail, At
    <3>2. Len(acc.buf) = k
      <4>1. acc.left = 2 * (Len(acc.buf) - Offset)
        BY <1>3, <2>1, <2>2 DEF DataShape, WritesAt, At, IsWords, Offset, EEDATA
      <4> QED BY <2>4, <2>5, <2>8, <4>1, ChunkIn, <1>3 DEF FrameSize, WordsNeeded, Offset, EEDATA
    <3> QED BY <1>4, <2>1, <2>3, <2>7, <3>1, <3>2
  <2>9. CASE Chunk # acc.left
    <3>1. pc' = "put" /\ acc'.at = acc.at + Chunk
      BY <1>3, <2>1, <2>2, <2>9 DEF TookIt, GoesOn
    <3>2. Offset' = k
      <4>1. acc.left = 2 * (Len(acc.buf) - Offset)
        BY <1>3, <2>1, <2>2 DEF DataShape, WritesAt, At, IsWords, Offset, EEDATA
      <4>2. acc.at = EEDATA /\ FrameSize = 1 /\ Len(acc.buf) = 1 => acc.left = 2 /\ Chunk = 2
        BY <4>1, Chunks DEF Offset, Chunk, EEDATA
      <4>3. FrameSize = 2 /\ acc.at \in {EEDATA, EEDATA + 4}
        BY <2>4, <2>9, <4>2
      <4>4. Chunk = 4
        BY <1>3, <4>3, ChunkIn DEF FrameSize, WordsNeeded
      <4> QED BY <2>5, <3>1, <4>3, <4>4 DEF Offset, EEDATA
    <3>3. ~Ended' /\ ~Read'
      BY <3>1 DEF Ended, OnTail, Read, InHand
    <3> QED BY <1>4, <2>1, <2>3, <2>7, <3>2, <3>3
  <2> QED BY <2>8, <2>9
<1>12. CASE Failing
  <2>1. acc'.buf = acc.buf
    BY <1>3, <1>12 DEF Failing, TookIt, Joined, DataShape, WritesAt, Ended, OnTail, CsrPcs
  <2> QED BY <1>4, <1>12, <2>1 DEF Failing
<1> QED BY <1>7, <1>8, <1>9, <1>10, <1>11, <1>12 DEF Kinds

LEMMA CsrStepEeprom ==
  ASSUME RegInv, EepromInv, CsrStep, Outside
  PROVE  EepromInv'
<1>1. Kinds /\ Kept /\ UNCHANGED <<task, stat>>
  BY CsrKinds DEF RegInv, Typed, Lasting, Outside, app, Kinds, Kept
<1>2. Outstanding' /\ Answered'
  BY <1>1, KeptAnswers DEF EepromInv
<1> QED BY <1>1, <1>2, CsrPending, CsrStatusRead, CsrDataRead, CsrWordTaken, CsrAcknowledging DEF EepromInv

LEMMA PramStepEeprom ==
  ASSUME RegInv, EepromInv, PramStep, Outside
  PROVE  EepromInv'
<1>1. PramIt /\ Doing = "move"
  BY PramFields, PramDoing DEF RegInv, Typed, PramIt
<1>2. Kept /\ UNCHANGED <<task, stat, csr>> /\ Doing' = "move"
  BY <1>1 DEF PramIt, Outside, app, Kept, Doing
<1>3. /\ Outstanding' /\ Answered' /\ Status' = Status /\ asked' = asked
      /\ \A c, v : Answer(c, v)' = Answer(c, v)
  BY <1>2, KeptAnswers DEF EepromInv, Kept
<1>4. PendingInv'
  BY <1>2, <1>3 DEF EepromInv, PendingInv, Pending
<1>5. StatusRead' /\ DataRead' /\ WordTaken' /\ Acknowledging'
  BY <1>2 DEF StatusRead, DataRead, WordTaken, Acknowledging
<1> QED BY <1>3, <1>4, <1>5 DEF EepromInv

\* The chip carries out a command.
LEMMA ChipReadsEeprom ==
  ASSUME RegInv, EepromInv, ChipReads, UNCHANGED <<stat, eeprom, eep_read_size, asked>>
  PROVE  EepromInv'
<1> USE DEF RegInv, EepromInv, Typed
<1>1. Kept /\ UNCHANGED <<task, pc, acc, stat, hw_fault, regs, asked>>
  BY DEF ChipReads, Unmoved, Kept
<1>2. /\ Outstanding' /\ Answered' /\ Status' = Status
      /\ \A c, v : Answer(c, v)' = Answer(c, v)
      /\ \A c : Possible(c)' = Possible(c) /\ WordsOf(FirstAsked(c), WordsAsked(c))' = WordsOf(FirstAsked(c), WordsAsked(c))
  BY <1>1, KeptAnswers
<1>3. csr.busy /\ csr.dir = "read" /\ ~csr'.busy /\ csr'.data = WordsAt(csr.at, csr.size)
  BY WordsReadTyped, Done DEF ChipReads, Stored
<1>4. /\ Doing' = Doing /\ Ended' = Ended /\ Seen' = Seen /\ Offset' = Offset /\ Chunk' = Chunk
  BY <1>1 DEF Doing, Ended, OnTail, At, Seen, Offset, Chunk
<1>5. PendingInv'
  BY <1>3 DEF PendingInv, Pending
<1>6. Acknowledging'
  BY <1>1, <1>2, <1>4 DEF Acknowledging
<1>7. ASSUME ~hw_fault PROVE pc \in InHand /\ Reading /\ csr.at = acc.at /\ csr.size = Chunk
  BY <1>3, <1>7 DEF Handshake, InHand, Mine
<1>8. WordTaken'
  <2>1. ASSUME Doing = "take", ~hw_fault, ~Ended PROVE csr'.data = <<regs[EEDATA]>>
    <3>1. ReadsAt(EEDATA, 2)
      BY <2>1 DEF Shape, TakeShape
    <3>2. csr.at = EEDATA /\ WordsNeeded(csr.size) = 1
      BY <1>7, <2>1, <3>1, Chunks DEF ReadsAt, At, Chunk, WordsNeeded
    <3>3. WordsAt(EEDATA, csr.size) = [i \in 1 .. 1 |-> regs[EEDATA + 2 * (i - 1)]]
      BY <3>2 DEF WordsAt
    <3>4. [i \in 1 .. 1 |-> regs[EEDATA + 2 * (i - 1)]] = <<regs[EEDATA]>>
      BY DEF EEDATA
    <3> QED BY <1>3, <3>2, <3>3, <3>4
  <2> QED BY <1>1, <1>2, <1>4, <2>1 DEF WordTaken
<1>9. DataRead'
  <2>1. ASSUME Doing = "data", ~hw_fault PROVE Ended
    BY <1>7, <2>1 DEF Shape, DataShape, WritesAt, Reading, Access
  <2>2. \A k : InData(k)' = InData(k)
    BY <1>1 DEF InData
  <2> QED BY <1>1, <1>2, <1>4, <2>1, <2>2 DEF DataRead
<1>10. StatusRead'
  <2>1. ASSUME Doing = "status", ~hw_fault, acc.part = "data", acc.at = EECONTSTAT
        PROVE  csr'.data = <<Status>>
    <3>1. acc.left = 6
      BY <1>7, <2>1 DEF Shape, StatusShape, ReadsAt, At, Ended, OnTail, InHand, EECONTSTAT
    <3>2. csr.at = EECONTSTAT /\ WordsNeeded(csr.size) = 1
      BY <1>7, <2>1, <3>1, Chunks DEF Chunk, WordsNeeded
    <3>3. WordsAt(EECONTSTAT, csr.size) = [i \in 1 .. 1 |-> regs[EECONTSTAT + 2 * (i - 1)]]
      BY <3>2 DEF WordsAt
    <3>4. [i \in 1 .. 1 |-> regs[EECONTSTAT + 2 * (i - 1)]] = <<regs[EECONTSTAT]>>
      BY DEF EECONTSTAT
    <3> QED BY <1>3, <3>2, <3>3, <3>4 DEF Status
  <2>2. ASSUME Doing = "status", ~hw_fault, acc.part = "data", acc.at # EECONTSTAT
        PROVE  csr'.data = <<regs[EECONTSTAT + 2], regs[EECONTSTAT + 4]>>
    <3>1. acc.at = EECONTSTAT + 2 /\ acc.left = 4
      BY <1>7, <2>2 DEF Shape, StatusShape, ReadsAt, At, Ended, OnTail, InHand
    <3>2. csr.at = EECONTSTAT + 2 /\ WordsNeeded(csr.size) = 2
      BY <1>7, <2>2, <3>1, Chunks DEF Chunk, WordsNeeded
    <3>3. WordsAt(EECONTSTAT + 2, csr.size) = [i \in 1 .. 2 |-> regs[EECONTSTAT + 2 + 2 * (i - 1)]]
      BY <3>2 DEF WordsAt
    <3>4. [i \in 1 .. 2 |-> regs[EECONTSTAT + 2 + 2 * (i - 1)]] = <<regs[EECONTSTAT + 2], regs[EECONTSTAT + 4]>>
      BY DEF EECONTSTAT
    <3> QED BY <1>3, <3>2, <3>3, <3>4
  <2>3. Status \in Nat
    BY CellsAre DEF Status, Stored
  <2>4. IsWords(<<Status>>, 1) /\ <<Status>>[1] = Status
    BY <2>3, One
  <2> QED BY <1>1, <1>2, <1>4, <2>1, <2>2, <2>4 DEF StatusRead
<1> QED BY <1>2, <1>5, <1>6, <1>8, <1>9, <1>10

LEMMA WrittenControl ==
  ASSUME NEW r, NEW data, Len(data) = 1
  PROVE  /\ Written(r, EECONTSTAT, data)[EECONTSTAT] = data[1] % 32768
         /\ \A a \in Cells \ {EECONTSTAT, ALEVENT} : Written(r, EECONTSTAT, data)[a] = r[a]
<1>1. EECONTSTAT \in Cells
  BY CellsAre
<1>2. Written(r, EECONTSTAT, data)[EECONTSTAT] = data[1] % 32768
  BY <1>1 DEF Written
<1>3. ASSUME NEW a \in Cells \ {EECONTSTAT, ALEVENT} PROVE Written(r, EECONTSTAT, data)[a] = r[a]
  <2>1. ~\E i \in 1 .. Len(data) : a = EECONTSTAT + 2 * (i - 1)
    BY <1>3 DEF EECONTSTAT
  <2> QED BY <1>3, <2>1 DEF Written
<1> QED BY <1>2, <1>3

LEMMA WrittenData ==
  ASSUME NEW r, NEW data, NEW n \in {1, 2}, Len(data) = n, NEW at \in {EEDATA, EEDATA + 4}
  PROVE  /\ \A i \in 1 .. n : Written(r, at, data)[at + 2 * (i - 1)] = data[i]
         /\ \A a \in Cells : (\A i \in 1 .. n : a # at + 2 * (i - 1)) => Written(r, at, data)[a] = r[a]
<1>1. at # EECONTSTAT
  BY DEF EEDATA, EECONTSTAT
<1>2. ASSUME NEW i \in 1 .. n PROVE Written(r, at, data)[at + 2 * (i - 1)] = data[i]
  <2>1. at + 2 * (i - 1) \in Cells
    <3>1. i = 1 \/ i = 2
      BY <1>2
    <3> QED BY <3>1, CellsAre DEF EEDATA
  <2>2. ((at + 2 * (i - 1)) - at) \div 2 + 1 = i
    BY <1>2 DEF EEDATA
  <2>3. PICK c : c = at + 2 * (i - 1)
    OBVIOUS
  <2>4. Written(r, at, data)[c] = data[(c - at) \div 2 + 1]
    BY <1>1, <1>2, <2>1, <2>3 DEF Written
  <2> QED BY <2>2, <2>3, <2>4
<1>3. ASSUME NEW a \in Cells, \A i \in 1 .. n : a # at + 2 * (i - 1) PROVE Written(r, at, data)[a] = r[a]
  BY <1>1, <1>3 DEF Written
<1> QED BY <1>2, <1>3

LEMMA AnsweredSame ==
  ASSUME NEW c \in Commands, NEW v, eep_read_size \in {4, 8}, UNCHANGED <<eeprom, eep_read_size>>,
         \A i \in 0 .. 3 : regs'[EEDATA + 2 * i] = regs[EEDATA + 2 * i]
  PROVE  Answer(c, v)' = Answer(c, v)
<1>1. FirstAsked(c)' = FirstAsked(c) /\ WordsAsked(c)' = WordsAsked(c) /\ WordsAsked(c) \in {1, 2, 4}
  BY DEF FirstAsked, WordsAsked
<1>2. Possible(c)' = Possible(c)
  BY <1>1, Zenon DEF Possible
<1>3. \A i \in 0 .. WordsAsked(c) - 1 : regs'[EEDATA + 2 * i] = regs[EEDATA + 2 * i]
  BY <1>1
<1> QED BY <1>1, <1>2, <1>3 DEF Answer

\* The acknowledgement ends the command with the answer it carries.
LEMMA ChipAcknowledged ==
  ASSUME RegInv, EepromInv, ChipWrites, csr.at = EECONTSTAT, UNCHANGED <<stat, eeprom, eep_read_size, asked>>
  PROVE  EepromInv'
<1> USE DEF RegInv, EepromInv, Typed
<1>1. /\ Pending /\ UNCHANGED <<task, pc, acc, stat, hw_fault, asked, eeprom, eep_read_size>>
      /\ regs' = Written(regs, csr.at, csr.data) /\ ~csr'.busy
  BY Done DEF ChipWrites, Unmoved
<1>2. Len(csr.data) = 1
  BY <1>1 DEF CommandShape, EECONTSTAT, EEDATA
<1>3. /\ Status' = csr.data[1] % 32768
      /\ \A a \in Cells \ {EECONTSTAT, ALEVENT} : regs'[a] = regs[a]
  BY <1>1, <1>2, WrittenControl DEF Status
<1>4. csr.data[1] \in Nat
  BY <1>2 DEF CsrTyped
<1>5. ~Busy(Status)'
  BY <1>3, <1>4 DEF Busy
<1>6. \A c \in asked : Answer(c, csr.data[1] % 32768)
  BY <1>1 DEF PendingInv
<1>7. \A i \in 0 .. 3 : regs'[EEDATA + 2 * i] = regs[EEDATA + 2 * i]
  <2>1. \A i \in 0 .. 3 : EEDATA + 2 * i \in Cells \ {EECONTSTAT, ALEVENT}
    BY CellsAre DEF EEDATA, EECONTSTAT, ALEVENT
  <2> QED BY <1>3, <2>1
<1>8. \A c \in asked : \A v : Answer(c, v)' = Answer(c, v)
  BY <1>1, <1>7, AnsweredSame DEF Stored
<1>9. Answered'
  BY <1>1, <1>3, <1>6, <1>8 DEF Answered, Status
<1>10. Outstanding'
  BY <1>5 DEF Outstanding
<1>11. PendingInv'
  BY <1>1 DEF PendingInv, Pending
<1>12. Doing \notin {"data", "take", "init"} /\ (Doing # "ack" => hw_fault) /\ (Doing = "status" => ~Busy(acc.buf[1]))
  BY <1>1 DEF PendingKind
<1>13. Doing' = Doing
  BY <1>1 DEF Doing
<1>14. DataRead' /\ WordTaken'
  BY <1>12, <1>13 DEF DataRead, WordTaken
<1>15. Doing = "ack" /\ acc.part = "data" => pc \notin {"put", "cmd"}
  BY <1>1 DEF AckFresh, Handshake, Pending
<1>16. Acknowledging'
  BY <1>1, <1>13, <1>15 DEF Acknowledging
<1>17. StatusRead'
  <2>1. SUFFICES ASSUME Doing = "status" PROVE StatusRead'
    BY <1>13 DEF StatusRead
  <2>2. hw_fault' /\ ~Seen' /\ (acc'.part = "data" /\ acc'.at = EECONTSTAT /\ pc' # "done" => ~hw_fault')
    BY <1>1, <1>12, <2>1 DEF Seen, StatusRead
  <2> QED BY <2>2 DEF StatusRead
<1> QED BY <1>9, <1>10, <1>11, <1>14, <1>16, <1>17

\* The data of a read fills the data register word by word.
LEMMA ChipFilled ==
  ASSUME RegInv, EepromInv, ChipWrites, csr.at # EECONTSTAT, UNCHANGED <<stat, eeprom, eep_read_size, asked>>
  PROVE  EepromInv'
<1> USE DEF RegInv, EepromInv, Typed
<1>1. /\ Pending /\ UNCHANGED <<task, pc, acc, stat, hw_fault, asked, eeprom, eep_read_size>>
      /\ regs' = Written(regs, csr.at, csr.data) /\ ~csr'.busy
  BY Done DEF ChipWrites, Unmoved
<1>2. csr.at \in {EEDATA, EEDATA + 4} /\ Len(csr.data) \in {1, 2}
  BY <1>1 DEF CommandShape
<1>3. PICK n \in {1, 2} : n = Len(csr.data)
  BY <1>2
<1>4. /\ \A i \in 1 .. n : regs'[csr.at + 2 * (i - 1)] = csr.data[i]
      /\ \A a \in Cells : (\A i \in 1 .. n : a # csr.at + 2 * (i - 1)) => regs'[a] = regs[a]
  BY <1>1, <1>2, <1>3, WrittenData
<1>5. /\ regs'[EECONTSTAT] = regs[EECONTSTAT] /\ regs'[EECONTSTAT + 2] = regs[EECONTSTAT + 2]
      /\ regs'[EECONTSTAT + 4] = regs[EECONTSTAT + 4]
  <2>1. \A a \in {EECONTSTAT, EECONTSTAT + 2, EECONTSTAT + 4} : a \in Cells /\ \A i \in 1 .. n : a # csr.at + 2 * (i - 1)
    BY <1>2, CellsAre DEF EECONTSTAT, EEDATA
  <2> QED BY <1>4, <2>1
<1>6. Status' = Status /\ Busy(Status) /\ \A c \in asked : Reads(c)
  BY <1>1, <1>5 DEF Status, PendingInv
<1>7. Outstanding'
  BY <1>1, <1>5, <1>6 DEF Outstanding, InRegisters, Reads, EEP_CMD_READ, EEP_CMD_RELOAD, EEP_CMD_WRITE
<1>8. Answered'
  BY <1>6 DEF Answered, Status
<1>9. PendingInv'
  BY <1>1 DEF PendingInv, Pending
<1>10. Doing' = Doing /\ Ended' = Ended /\ Offset' = Offset /\ Chunk' = Chunk
  BY <1>1 DEF Doing, Ended, OnTail, At, Offset, Chunk
<1>11. Doing # "take" /\ (Doing \notin {"data", "ack"} => hw_fault) /\ (Doing = "status" => ~Busy(acc.buf[1]))
  BY <1>1 DEF PendingKind
<1>12. Acknowledging'
  <2>1. Doing = "ack" /\ acc.part = "data" => pc \notin {"put", "cmd"}
    BY <1>1 DEF AckFresh, Handshake, Pending
  <2> QED BY <1>1, <1>10, <2>1 DEF Acknowledging
<1>13. WordTaken'
  BY <1>10, <1>11 DEF WordTaken
<1>14. StatusRead'
  <2>1. SUFFICES ASSUME Doing = "status" PROVE StatusRead'
    BY <1>10 DEF StatusRead
  <2>2. hw_fault' /\ ~Seen' /\ (acc'.part = "data" /\ acc'.at = EECONTSTAT /\ pc' # "done" => ~hw_fault')
    BY <1>1, <1>11, <2>1 DEF Seen, StatusRead
  <2> QED BY <2>2 DEF StatusRead
<1>15. ASSUME Doing = "data", ~hw_fault PROVE ~Ended' /\ InData(Offset)' /\ InData(Offset + WordsNeeded(Chunk))'
  <2>1. pc \in {"busy", "data", "wait"} /\ pc \in CsrPcs
    BY <1>1, <1>15 DEF Handshake, Pending, CsrPcs
  <2>2. Mine /\ csr.dir = "write"
    BY <1>1, <1>15, <2>1 DEF Handshake, InHand, Pending
  <2>3. ~Reading /\ csr.at = acc.at
    BY <2>2 DEF Mine
  <2>4. ~Ended
    BY <2>1, <2>3 DEF Ended, OnTail, Reading
  <2>5. /\ acc.dir = "write" /\ acc.part = "data" /\ acc.start = EEDATA /\ pc \in {"busy", "wait"}
        /\ \/ acc.at = EEDATA /\ FrameSize = 1 /\ Len(acc.buf) = 1
           \/ acc.at = EEDATA /\ FrameSize = 2 /\ Len(acc.buf) \in {2, 4}
           \/ acc.at = EEDATA + 4 /\ FrameSize = 2 /\ Len(acc.buf) = 4
    BY <1>15, <2>1, <2>3, WritingAt
  <2>6. /\ csr.data = ChunkWords /\ IsWords(ChunkWords, FrameSize)
        /\ \A i \in 1 .. FrameSize : ChunkWords[i] = acc.buf[Offset + i]
    BY <2>1, <2>3, <2>5, PutWords DEF CommandShape, Offset
  <2>7. n = FrameSize
    BY <1>3, <2>6 DEF IsWords
  <2>8. PICK k \in {0, 2} : k = Offset /\ acc.at = EEDATA + 2 * k
    BY <2>5 DEF Offset, EEDATA
  <2>9. InData(k)
    BY <1>15, <2>4, <2>8 DEF DataRead
  <2>10. ASSUME NEW i \in 1 .. k + n PROVE regs'[EEDATA + 2 * (i - 1)] = acc.buf[i]
    <3>1. CASE i <= k
      <4>1. i = 1 \/ i = 2
        BY <3>1
      <4>2. EEDATA + 2 * (i - 1) \in Cells /\ \A j \in 1 .. n : EEDATA + 2 * (i - 1) # csr.at + 2 * (j - 1)
        BY <2>3, <2>8, <3>1, <4>1, CellsAre DEF EEDATA
      <4> QED BY <1>4, <2>9, <3>1, <4>2 DEF InData
    <3>2. CASE i > k
      <4>1. PICK j \in 1 .. n : i = k + j
        <5>1. i - k \in 1 .. n /\ i = k + (i - k)
          BY <3>2
        <5> QED BY <5>1
      <4>2. EEDATA + 2 * (i - 1) = csr.at + 2 * (j - 1)
        BY <2>3, <2>8, <4>1 DEF EEDATA
      <4>3. regs'[csr.at + 2 * (j - 1)] = csr.data[j]
        BY <1>4
      <4>4. csr.data[j] = acc.buf[k + j]
        BY <2>6, <2>7, <2>8
      <4> QED BY <4>1, <4>2, <4>3, <4>4
    <3> QED BY <3>1, <3>2
  <2>11. InData(k)' /\ InData(k + n)'
    BY <1>1, <2>10 DEF InData
  <2> QED BY <1>10, <2>4, <2>7, <2>8, <2>11 DEF FrameSize
<1>16. DataRead'
  <2>1. SUFFICES ASSUME Doing = "data" PROVE DataRead'
    BY <1>10 DEF DataRead
  <2>2. \A c : Possible(c)' = Possible(c) /\ WordsOf(FirstAsked(c), WordsAsked(c))' = WordsOf(FirstAsked(c), WordsAsked(c))
    <3>1. \A c : FirstAsked(c)' = FirstAsked(c) /\ WordsAsked(c)' = WordsAsked(c)
      BY <1>1 DEF FirstAsked, WordsAsked
    <3>2. \A c : Possible(c)' = Possible(c)
      BY <3>1, Zenon DEF Possible
    <3>3. \A c : WordsOf(FirstAsked(c), WordsAsked(c))' = WordsOf(FirstAsked(c), WordsAsked(c))
      BY <1>1, <3>1 DEF WordsOf
    <3> QED BY <3>2, <3>3
  <2>3. Busy(Status)' /\ \A c \in asked' : Reads(c)
    BY <1>1, <1>6
  <2>4. ~hw_fault => /\ stat'[1] = NoErrors(Status')
                    /\ \A c \in asked' : Possible(c)' /\ acc'.buf = WordsOf(FirstAsked(c), WordsAsked(c))'
    BY <1>1, <1>6, <2>1, <2>2 DEF DataRead
  <2> QED BY <1>1, <1>15, <2>1, <2>3, <2>4 DEF DataRead, Reads
<1> QED BY <1>7, <1>8, <1>9, <1>12, <1>13, <1>14, <1>16

-----------------------------------------------------------------------------
\* The master, the FIFO, ESC_init and a restart.
LEMMA FifoEeprom ==
  ASSUME RegInv, EepromInv, FifoSteps
  PROVE  EepromInv'
<1>1. Kept /\ UNCHANGED <<task, pc, acc, csr, stat, hw_fault>>
  BY DEF FifoSteps, ChipFills, ChipDrains, halVars, Outside, app, Kept
<1> QED BY <1>1, Unmoving

LEMMA MasterCommandsEeprom ==
  ASSUME RegInv, EepromInv, MasterCommands
  PROVE  EepromInv'
<1> USE DEF RegInv, EepromInv, Typed
<1>1. UNCHANGED <<task, pc, acc, csr, stat, hw_fault, eeprom, eep_read_size>>
  BY DEF MasterCommands, halVars, app
<1>2. PICK c \in Commands : CommandedBy(c)
  BY CommandIt DEF Stored
<1>3. asked' = {c} /\ ~Busy(Status)
  BY <1>2 DEF CommandedBy
<1>4. c.cmd \in 0 .. 7
  BY EepromAssumption
<1>5. Status' \in {Command(c.cmd), WithAckErr(Command(c.cmd))}
  BY <1>2 DEF CommandedBy
<1>6. Busy(Status')
  BY <1>4, <1>5, Controls
<1>7. Outstanding'
  BY <1>2, <1>3 DEF CommandedBy, Outstanding, InRegisters
<1>8. Answered' /\ PendingInv'
  BY <1>1, <1>3, <1>6 DEF Answered, PendingInv, Pending, Status
<1>9. Doing' = Doing /\ Doing \notin {"data", "take"}
  BY <1>1, <1>3 DEF Doing, DataRead, WordTaken
<1>10. DataRead' /\ WordTaken' /\ Acknowledging'
  BY <1>1, <1>3, <1>9 DEF DataRead, WordTaken, Acknowledging
<1>11. StatusRead'
  <2>1. SUFFICES ASSUME Doing = "status" PROVE StatusRead'
    BY <1>9 DEF StatusRead
  <2>2. ~Seen /\ Seen' = Seen
    BY <1>1, <1>3, <2>1 DEF StatusRead, Seen
  <2>3. ~hw_fault /\ Read /\ acc.part = "data" /\ acc.at = EECONTSTAT => IsWords(csr.data, 1) /\ ~Busy(csr.data[1])
    BY <1>3, <2>1 DEF StatusRead
  <2>4. acc.part = "data" /\ acc.at = EECONTSTAT /\ pc # "done" => ~hw_fault
    BY <2>1 DEF StatusRead
  <2>5. Read' = Read
    BY <1>1 DEF Read
  <2> QED BY <1>1, <2>2, <2>3, <2>4, <2>5 DEF StatusRead
<1> QED BY <1>7, <1>8, <1>10, <1>11

LEMMA MasterConfiguresEeprom ==
  ASSUME RegInv, EepromInv, MasterConfigures
  PROVE  EepromInv'
<1> USE DEF RegInv, EepromInv, Typed
<1>1. UNCHANGED <<task, pc, acc, csr, stat, hw_fault, eeprom, eep_read_size, asked>> /\ Doing = "init"
  BY DEF MasterConfigures, halVars, app, Doing
<1>2. PICK cell \in {ALSTATUS, SYNCACT, DCOFFSET, DCOFFSET + 6} : regs' = [regs EXCEPT ![cell] = 2]
  BY DEF MasterConfigures
<1>3. \A a \in Cells : a # cell => regs'[a] = regs[a]
  BY <1>2 DEF Stored
<1>4. \A a \in {EECONTSTAT, EECONTSTAT + 2, EECONTSTAT + 4, EEDATA, EEDATA + 2, EEDATA + 4, EEDATA + 6} : a \in Cells /\ a # cell
  BY CellsAre DEF EECONTSTAT, EEDATA, ALSTATUS, SYNCACT, DCOFFSET
<1>5. /\ Status' = Status /\ regs'[EECONTSTAT + 2] = regs[EECONTSTAT + 2] /\ regs'[EECONTSTAT + 4] = regs[EECONTSTAT + 4]
      /\ regs'[EEDATA] = regs[EEDATA]
  BY <1>3, <1>4 DEF Status
<1>6. \A i \in 0 .. 3 : regs'[EEDATA + 2 * i] = regs[EEDATA + 2 * i]
  <2>1. \A i \in 0 .. 3 : EEDATA + 2 * i \in {EEDATA, EEDATA + 2, EEDATA + 4, EEDATA + 6}
    BY DEF EEDATA
  <2> QED BY <1>3, <1>4, <2>1
<1>7. Outstanding'
  BY <1>1, <1>5 DEF Outstanding, InRegisters
<1>8. Answered'
  <2>1. \A c \in asked : \A v : Answer(c, v)' = Answer(c, v)
    BY <1>1, <1>6, AnsweredSame DEF Stored
  <2> QED BY <1>1, <1>5, <2>1 DEF Answered, Status
<1>9. ~Pending'
  BY <1>1 DEF PendingKind, Pending
<1>10. Doing' = "init"
  BY <1>1 DEF Doing
<1> QED BY <1>7, <1>8, <1>9, <1>10 DEF PendingInv, StatusRead, DataRead, WordTaken, Acknowledging

LEMMA InitStepsEeprom ==
  ASSUME RegInv, EepromInv, InitReadNext \/ InitDecides \/ Restart
  PROVE  EepromInv'
<1> USE DEF RegInv, EepromInv, Typed
<1>1. Doing' \in {"init", "idle"}
  <2>1. InitReadNext => task' = <<"init", task[2] + 1>>
    BY DEF InitReadNext, InitRead
  <2>2. InitDecides => task' = <<"idle">>
    BY DEF InitDecides
  <2>3. Restart => task' = <<"init", 1>>
    BY DEF Restart
  <2> QED BY <2>1, <2>2, <2>3 DEF Doing
<1>2. ~Pending' /\ UNCHANGED <<csr, eeprom, eep_read_size>>
  BY DEF InitReadNext, InitDecides, Restart, InitRead, Doing, PendingKind, Pending
<1>3. StatusRead' /\ DataRead' /\ WordTaken' /\ Acknowledging' /\ PendingInv'
  BY <1>1, <1>2 DEF StatusRead, DataRead, WordTaken, Acknowledging, PendingInv
<1>4. CASE UNCHANGED <<regs, asked>>
  <2>1. Kept
    BY <1>2, <1>4 DEF Kept
  <2> QED BY <1>3, <2>1, KeptAnswers
<1>5. CASE regs' = PowerUp /\ asked' = {}
  <2>1. Status' = 0
    BY <1>5, CellsAre DEF PowerUp, Status, EECONTSTAT, ALSTATUS
  <2>2. Outstanding' /\ Answered'
    BY <1>5, <2>1 DEF Outstanding, Answered, Busy
  <2> QED BY <1>3, <2>2
<1>6. CASE InitReadNext
  BY <1>4, <1>6 DEF InitReadNext, InitRead
<1>7. CASE Restart
  BY <1>4, <1>7 DEF Restart
<1>8. CASE InitDecides
  BY <1>4, <1>5, <1>8, Zenon DEF InitDecides
<1> QED BY <1>6, <1>7, <1>8

\* The next access begins.
LEMMA BegunAnswers ==
  ASSUME RegInv, EepromInv, UNCHANGED <<csr, regs, eeprom, asked, eep_read_size>>
  PROVE  Outstanding' /\ Answered' /\ PendingInv'
<1>1. Kept /\ asked' = asked
  BY DEF Kept
<1>2. Outstanding' /\ Answered' /\ Status' = Status /\ \A c, v : Answer(c, v)' = Answer(c, v)
  BY <1>1, KeptAnswers DEF EepromInv
<1>3. PendingInv'
  BY <1>1, <1>2 DEF EepromInv, PendingInv, Pending
<1> QED BY <1>2, <1>3

LEMMA ElsewhereEeprom ==
  ASSUME RegInv, EepromInv, UNCHANGED <<csr, regs, eeprom, asked, eep_read_size>>,
         NEW name \in {"idle", "poll", "move"}, task' = <<name>>
  PROVE  EepromInv'
<1>1. Doing' \in {"idle", "poll", "move"}
  BY DEF Doing
<1> QED BY <1>1, BegunAnswers DEF EepromInv, StatusRead, DataRead, WordTaken, Acknowledging

LEMMA StatusEeprom ==
  ASSUME RegInv, EepromInv, ReadStatus, UNCHANGED <<eeprom, asked, eep_read_size>>
  PROVE  EepromInv'
<1>1. task' = <<"status">> /\ Begin("read", EECONTSTAT, 6, <<>>)
  BY Zenon DEF ReadStatus, Next_access, ESC_read
<1>2. 6 \in Nat /\ EECONTSTAT \in Nat /\ "read" \in {"read", "write"}
  BY DEF EECONTSTAT
<1>3. /\ Begun("read", EECONTSTAT, 6, FirstBuf("read", EECONTSTAT, 6, <<>>)) /\ pc' = FirstPc("read", EECONTSTAT)
      /\ UNCHANGED <<hw_fault, csr, regs>>
  BY <1>1, <1>2, BeginIt, Zenon
<1>4. acc'.buf = (IF hw_fault THEN Zeros(6) ELSE <<>>) /\ pc' = (IF hw_fault THEN "done" ELSE "cmd")
  BY <1>3 DEF Begun, FirstBuf, FirstPc, EECONTSTAT, PRAM
<1>5. ~Seen'
  <2>1. CASE hw_fault
    BY <1>4, <2>1, ZerosOf DEF Seen, Busy
  <2>2. CASE ~hw_fault
    BY <1>4, <2>2 DEF Seen
  <2> QED BY <2>1, <2>2
<1>6. Doing' = "status" /\ ~Read' /\ (pc' # "done" => ~hw_fault')
  BY <1>1, <1>3, <1>4 DEF Doing, Read, InHand
<1> QED BY <1>3, <1>5, <1>6, BegunAnswers DEF EepromInv, StatusRead, DataRead, WordTaken, Acknowledging

LEMMA AckBegins ==
  ASSUME NEW v, Acknowledge(v)
  PROVE  /\ task' = <<"ack">> /\ acc'.buf = <<v>> /\ (pc' \in {"put", "cmd"} => ~hw_fault)
         /\ UNCHANGED <<hw_fault, csr, regs>>
<1>1. task' = <<"ack">> /\ Begin("write", EECONTSTAT, 2, <<v>>)
  BY Zenon DEF Acknowledge, Next_access, ESC_write
<1>2. 2 \in Nat /\ EECONTSTAT \in Nat /\ "write" \in {"read", "write"}
  BY DEF EECONTSTAT
<1>3. /\ Begun("write", EECONTSTAT, 2, FirstBuf("write", EECONTSTAT, 2, <<v>>)) /\ pc' = FirstPc("write", EECONTSTAT)
      /\ UNCHANGED <<hw_fault, csr, regs>>
  BY <1>1, <1>2, BeginIt, Zenon
<1>4. acc'.buf = <<v>> /\ (pc' \in {"put", "cmd"} => ~hw_fault)
  BY <1>3 DEF Begun, FirstBuf, FirstPc
<1> QED BY <1>1, <1>3, <1>4

LEMMA AckEeprom ==
  ASSUME RegInv, EepromInv, NEW v, Acknowledge(v), UNCHANGED <<asked, eep_read_size>>, Busy(Status),
         Outstanding', Answered', PendingInv', ~hw_fault => \A c \in asked : Answer(c, v % 32768)'
  PROVE  EepromInv'
<1>1. /\ task' = <<"ack">> /\ acc'.buf = <<v>> /\ (pc' \in {"put", "cmd"} => ~hw_fault)
      /\ UNCHANGED <<hw_fault, csr, regs>>
  BY AckBegins
<1>2. acc'.buf[1] = v
  BY <1>1
<1>3. Doing' = "ack" /\ Status' = Status
  BY <1>1 DEF Doing, Status
<1>4. Acknowledging'
  BY <1>1, <1>2, <1>3 DEF Acknowledging
<1> QED BY <1>3, <1>4 DEF EepromInv, StatusRead, DataRead, WordTaken

LEMMA AskedServed ==
  ASSUME NEW c, Reads(c), eep_read_size \in {4, 8}
  PROVE  /\ FirstAsked(c) = ServedWord(c.cmd, c.addr) /\ WordsAsked(c) = ServedLen(c.cmd)
         /\ WordsAsked(c) \in {1, 2, 4}
         /\ Possible(c) <=> EEP_reads(FirstAsked(c), WordsAsked(c))
<1>1. c.cmd \in {EEP_CMD_READ, EEP_CMD_RELOAD} /\ c.cmd # EEP_CMD_WRITE /\ c.cmd # EEP_CMD_IDLE
  BY DEF Reads, EEP_CMD_READ, EEP_CMD_RELOAD, EEP_CMD_WRITE, EEP_CMD_IDLE
<1>2. FirstAsked(c) = ServedWord(c.cmd, c.addr) /\ WordsAsked(c) = ServedLen(c.cmd)
  BY <1>1, Zenon DEF FirstAsked, WordsAsked, ServedWord, ServedLen
<1>3. WordsAsked(c) \in {1, 2, 4}
  BY DEF WordsAsked
<1>4. Possible(c) <=> EEP_reads(FirstAsked(c), WordsAsked(c))
  BY <1>1, Zenon DEF Possible
<1> QED BY <1>2, <1>3, <1>4

\* What is in the registers for the command asked.
LEMMA AskedControl ==
  ASSUME RegInv, EepromInv, Busy(Status), NEW c \in asked
  PROVE  /\ c \in Commands /\ c.cmd \in 0 .. 7 /\ c.addr \in Nat /\ Cmd(Status) = c.cmd
         /\ ~AckErr(NoErrors(Status) % 32768) /\ AckErr(WithAckErr(NoErrors(Status)) % 32768)
         /\ regs[EECONTSTAT + 2] = c.addr /\ regs[EECONTSTAT + 4] = 0
         /\ (c.cmd = EEP_CMD_WRITE => regs[EEDATA] = c.data)
<1>1. c \in Commands /\ c.cmd \in 0 .. 7 /\ c.addr \in Nat
  BY EepromAssumption DEF RegInv, Typed, Stored
<1>2. InRegisters(c)
  BY DEF EepromInv, Outstanding
<1>3. Status \in {Command(c.cmd), WithAckErr(Command(c.cmd))}
  BY <1>2 DEF InRegisters
<1>4. Cmd(Status) = c.cmd /\ ~AckErr(NoErrors(Status) % 32768) /\ AckErr(WithAckErr(NoErrors(Status)) % 32768)
  BY <1>1, <1>3, Controls
<1> QED BY <1>1, <1>2, <1>4 DEF InRegisters

LEMMA DataWrittenEeprom ==
  ASSUME RegInv, EepromInv, DataWritten
  PROVE  EepromInv'
<1> USE DEF RegInv, EepromInv, Typed
<1>1. pc = "done" /\ Doing = "data" /\ Acknowledge(stat[1]) /\ UNCHANGED <<asked, eep_read_size, eeprom>>
  BY DEF DataWritten, Client, Doing
<1>2. UNCHANGED <<regs, csr>>
  BY <1>1, AckBegins
<1>3. Kept
  BY <1>1, <1>2 DEF Kept
<1>4. Busy(Status) /\ \A c \in asked : Reads(c)
  BY <1>1 DEF DataRead
<1>5. ASSUME ~hw_fault, NEW c \in asked PROVE Answer(c, stat[1] % 32768)
  <2>1. /\ stat[1] = NoErrors(Status) /\ Possible(c) /\ acc.buf = WordsOf(FirstAsked(c), WordsAsked(c))
        /\ InData(Len(acc.buf)) /\ Reads(c)
    BY <1>1, <1>4, <1>5 DEF DataRead, Ended
  <2>2. ~AckErr(stat[1] % 32768)
    BY <1>4, <1>5, <2>1, AskedControl
  <2>3. PICK n \in {1, 2, 4} : n = WordsAsked(c)
    BY <2>1, AskedServed DEF Stored
  <2>4. EEP_reads(FirstAsked(c), n)
    BY <2>1, <2>3, AskedServed DEF Stored
  <2>5. PICK w \in Nat : w = FirstAsked(c)
    BY <1>4, <1>5, AskedControl DEF FirstAsked
  <2>6. acc.buf = [i \in 1 .. n |-> IF w + i - 1 \in EepWords THEN eeprom[w + i - 1] ELSE 0]
    BY <2>1, <2>3, <2>5 DEF WordsOf
  <2>7. ASSUME NEW i \in 0 .. n - 1 PROVE regs[EEDATA + 2 * i] = eeprom[w + i]
    <3>1. i + 1 \in 1 .. n /\ w + (i + 1) - 1 = w + i /\ Len(acc.buf) = n
      BY <2>6, <2>7
    <3>2. w + i \in EepWords
      BY <2>4, <2>5, <2>7 DEF EEP_reads
    <3>3. acc.buf[i + 1] = eeprom[w + i]
      BY <2>6, <3>1, <3>2
    <3>4. regs[EEDATA + 2 * ((i + 1) - 1)] = acc.buf[i + 1]
      BY <2>1, <3>1 DEF InData
    <3>5. (i + 1) - 1 = i
      BY <2>7
    <3> QED BY <3>3, <3>4, <3>5
  <2>8. c.cmd # EEP_CMD_WRITE
    BY <2>1 DEF Reads, EEP_CMD_WRITE, EEP_CMD_READ, EEP_CMD_RELOAD
  <2> QED BY <2>1, <2>2, <2>3, <2>5, <2>7, <2>8 DEF Answer
<1>6. Outstanding' /\ Answered' /\ PendingInv'
  BY <1>1, <1>2, BegunAnswers
<1>7. PICK v : v = stat[1]
  OBVIOUS
<1>8. ~hw_fault => \A c \in asked : Answer(c, v % 32768)'
  BY <1>3, <1>5, <1>7, KeptAnswers
<1> QED BY <1>1, <1>4, <1>6, <1>7, <1>8, AckEeprom

LEMMA LoopEeprom ==
  ASSUME RegInv, EepromInv, Poll \/ Event \/ Acknowledged \/ MoveReturns \/ Move
  PROVE  EepromInv'
<1>1. ASSUME Returns, UNCHANGED <<asked, eep_read_size>> PROVE EepromInv'
  <2>1. task' = <<"idle">> /\ UNCHANGED <<csr, regs, eeprom>>
    BY <1>1 DEF Returns, chipVars
  <2> QED BY <1>1, <2>1, ElsewhereEeprom
<1>2. CASE Poll
  <2>1. task' = <<"poll">> /\ UNCHANGED <<csr, regs, eeprom, asked, eep_read_size>>
    BY <1>2 DEF Poll, Next_access, ESC_read, Begin, chipVars, Client
  <2> QED BY <2>1, ElsewhereEeprom
<1>3. CASE Move
  <2>1. task' = <<"move">> /\ UNCHANGED <<eeprom, asked, eep_read_size>>
    BY <1>3 DEF Move
  <2>2. UNCHANGED <<csr, regs>>
    BY <1>3, Zenon DEF Move, ESC_read, ESC_write, Begin, chipVars
  <2> QED BY <2>1, <2>2, ElsewhereEeprom
<1>4. CASE Event
  <2>1. UNCHANGED <<asked, eep_read_size>> /\ ((ReadStatus /\ UNCHANGED eeprom) \/ Returns)
    BY <1>4 DEF Event, Client
  <2> QED BY <1>1, <2>1, StatusEeprom
<1>5. CASE Acknowledged
  BY <1>5, StatusEeprom DEF Acknowledged, Client
<1>6. CASE MoveReturns
  BY <1>1, <1>6 DEF MoveReturns, Client
<1> QED BY <1>2, <1>3, <1>4, <1>5, <1>6

LEMMA StoreEeprom ==
  ASSUME RegInv, EepromInv, Store
  PROVE  EepromInv'
<1> USE DEF RegInv, EepromInv, Typed
<1>1. pc = "done" /\ Doing = "take" /\ UNCHANGED <<asked, eep_read_size>>
  BY DEF Store, Client, Doing
<1>2. PICK v \in {stat[1], WithAckErr(stat[1])} :
        /\ Acknowledge(v)
        /\ \/ v = stat[1] /\ EEP_reads(stat[2], 1) /\ eeprom' = [eeprom EXCEPT ![stat[2]] = acc.buf[1]]
           \/ v = WithAckErr(stat[1]) /\ ~EEP_reads(stat[2], 1) /\ eeprom' = eeprom
  BY DEF Store
<1>3. UNCHANGED <<regs, csr>>
  BY <1>2, AckBegins
<1>4. Busy(Status) /\ Status' = Status /\ \A c \in asked : c.cmd = EEP_CMD_WRITE
  BY <1>1, <1>3 DEF WordTaken, Status
<1>5. ~Pending
  BY <1>1 DEF PendingKind
<1>6. Outstanding' /\ Answered' /\ PendingInv'
  BY <1>1, <1>3, <1>4, <1>5 DEF Outstanding, InRegisters, Answered, PendingInv, Pending, Status
<1>7. ASSUME ~hw_fault, NEW c \in asked PROVE Answer(c, v % 32768)'
  <2>1. /\ c \in Commands /\ c.cmd = EEP_CMD_WRITE /\ c.addr \in Nat /\ regs[EEDATA] = c.data
        /\ ~AckErr(NoErrors(Status) % 32768) /\ AckErr(WithAckErr(NoErrors(Status)) % 32768)
    BY <1>4, <1>7, AskedControl
  <2>2. stat[1] = NoErrors(Status) /\ stat[2] = c.addr /\ acc.buf = <<regs[EEDATA]>>
    BY <1>1, <1>7 DEF WordTaken, Ended
  <2>3. acc.buf[1] = c.data
    BY <2>1, <2>2
  <2>4. FirstAsked(c)' = c.addr /\ WordsAsked(c)' = 1
    BY <2>1 DEF FirstAsked, WordsAsked, EEP_CMD_WRITE, EEP_CMD_RELOAD
  <2>5. Possible(c)' <=> EEP_reads(c.addr, 1)
    BY <2>1, <2>4 DEF Possible, EEP_CMD_WRITE, EEP_CMD_RELOAD, EEP_CMD_READ, EEP_CMD_IDLE
  <2>6. EEP_reads(c.addr, 1) <=> c.addr \in EepWords
    BY <2>1 DEF EEP_reads
  <2>7. c.cmd \notin {EEP_CMD_READ, EEP_CMD_RELOAD}
    BY <2>1 DEF EEP_CMD_WRITE, EEP_CMD_RELOAD, EEP_CMD_READ
  <2>8. CASE c.addr \in EepWords
    <3>1. v = stat[1] /\ eeprom' = [eeprom EXCEPT ![c.addr] = c.data]
      BY <1>2, <2>2, <2>3, <2>6, <2>8
    <3>2. eeprom'[c.addr] = c.data
      BY <2>8, <3>1 DEF Stored
    <3>3. ~AckErr(v % 32768)
      BY <2>1, <2>2, <3>1
    <3> QED BY <2>5, <2>6, <2>7, <2>8, <3>2, <3>3 DEF Answer
  <2>9. CASE c.addr \notin EepWords
    <3>1. v = WithAckErr(stat[1])
      BY <1>2, <2>2, <2>6, <2>9
    <3>2. AckErr(v % 32768)
      BY <2>1, <2>2, <3>1
    <3> QED BY <2>5, <2>6, <2>7, <2>9, <3>2 DEF Answer
  <2> QED BY <2>8, <2>9
<1> QED BY <1>1, <1>2, <1>4, <1>6, <1>7, AckEeprom

\* EEP_process has read the status: the command it sees is the one asked.
LEMMA ServeEeprom ==
  ASSUME RegInv, EepromInv, Serve
  PROVE  EepromInv'
<1> USE DEF RegInv, EepromInv, Typed
<1>1. /\ pc = "done" /\ Doing = "status" /\ Client
      /\ (~Busy(Control) /\ Returns) \/ ServedKind
  BY ServeKinds DEF Stored
<1>2. UNCHANGED <<asked, eep_read_size>> /\ eep_read_size \in {4, 8} /\ eeprom \in [EepWords -> Nat]
  BY <1>1 DEF Client, Stored
<1>3. IsWords(acc.buf, 3) /\ Address \in Nat /\ Control \in Nat
  BY <1>1, StatusNats
<1>4. CASE Returns
  <2>1. task' = <<"idle">> /\ UNCHANGED <<csr, regs, eeprom>>
    BY <1>4 DEF Returns, chipVars
  <2> QED BY <1>2, <2>1, ElsewhereEeprom
<1>5. CASE ServedKind
  <2>1. Control = Status /\ Busy(Status)
    <3>1. Busy(Control)
      BY <1>5, Zenon DEF ServedKind
    <3>2. acc.buf # <<>>
      BY <1>3 DEF IsWords
    <3> QED BY <1>1, <3>1, <3>2 DEF Seen, StatusRead, Control
  <2>2. PICK cmd : cmd = Cmd(Status)
    OBVIOUS
  <2>3. \A c \in asked : /\ c \in Commands /\ c.cmd = cmd /\ cmd \in 0 .. 7 /\ c.addr \in Nat
                         /\ ~AckErr(NoErrors(Status) % 32768) /\ AckErr(WithAckErr(NoErrors(Status)) % 32768)
    BY <2>1, <2>2, AskedControl
  <2>4. ASSUME ~hw_fault, NEW c \in asked PROVE Address = c.addr
    <3>1. Seen /\ Ended
      BY <1>1, <1>3, <2>1 DEF Seen, Control, IsWords, Ended
    <3>2. acc.buf[2] = regs[EECONTSTAT + 2] /\ acc.buf[3] = regs[EECONTSTAT + 4]
      BY <1>1, <2>4, <3>1 DEF StatusRead
    <3>3. regs[EECONTSTAT + 2] = c.addr /\ regs[EECONTSTAT + 4] = 0 /\ c.addr \in Nat
      BY <2>1, <2>4, AskedControl
    <3> QED BY <3>2, <3>3 DEF Address
  <2>5. ASSUME NEW v, Acknowledge(v), eeprom' = eeprom, ~hw_fault => \A c \in asked : Answer(c, v % 32768)
        PROVE  EepromInv'
    <3>1. UNCHANGED <<regs, csr>>
      BY <2>5, AckBegins
    <3>2. Kept
      BY <1>2, <2>5, <3>1 DEF Kept
    <3>3. Outstanding' /\ Answered' /\ PendingInv'
      BY <1>2, <2>5, <3>1, BegunAnswers
    <3>4. ~hw_fault => \A c \in asked : Answer(c, v % 32768)'
      BY <2>5, <3>2, KeptAnswers
    <3> QED BY <1>2, <2>1, <2>5, <3>3, <3>4, AckEeprom
  <2>6. CASE cmd = EEP_CMD_IDLE /\ Acknowledge(NoErrors(Status)) /\ UNCHANGED <<stat, eeprom>>
    <3>1. ASSUME NEW c \in asked PROVE Answer(c, NoErrors(Status) % 32768)
      <4>1. c.cmd = EEP_CMD_IDLE /\ ~AckErr(NoErrors(Status) % 32768)
        BY <2>3, <2>6
      <4>2. Possible(c)
        BY <4>1 DEF Possible
      <4> QED BY <4>1, <4>2 DEF Answer, EEP_CMD_IDLE, EEP_CMD_READ, EEP_CMD_RELOAD, EEP_CMD_WRITE
    <3>2. PICK v : v = NoErrors(Status)
      OBVIOUS
    <3> QED BY <2>5, <2>6, <3>1, <3>2
  <2>7. ASSUME Acknowledge(WithAckErr(NoErrors(Status))), eeprom' = eeprom,
               \A c \in asked : ~hw_fault => ~Possible(c)
        PROVE  EepromInv'
    <3>1. ASSUME ~hw_fault, NEW c \in asked PROVE Answer(c, WithAckErr(NoErrors(Status)) % 32768)
      BY <2>3, <2>7, <3>1 DEF Answer
    <3>2. PICK v : v = WithAckErr(NoErrors(Status))
      OBVIOUS
    <3> QED BY <2>5, <2>7, <3>1, <3>2
  <2>8. CASE cmd \in {EEP_CMD_READ, EEP_CMD_RELOAD}
    <3>1. PICK n \in {1, 2, 4}, word \in Nat : n = ServedLen(cmd) /\ word = ServedWord(cmd, Address)
      BY <1>2, <1>3 DEF ServedLen, ServedWord
    <3>2. \A c \in asked : Reads(c)
      BY <2>3, <2>8 DEF Reads
    <3>3. ASSUME ~hw_fault, NEW c \in asked
          PROVE  FirstAsked(c) = word /\ WordsAsked(c) = n /\ (Possible(c) <=> EEP_reads(word, n))
      <4>1. Address = c.addr /\ c.cmd = cmd
        BY <2>3, <2>4, <3>3
      <4>2. /\ FirstAsked(c) = ServedWord(c.cmd, c.addr) /\ WordsAsked(c) = ServedLen(c.cmd)
            /\ Possible(c) <=> EEP_reads(FirstAsked(c), WordsAsked(c))
        BY <1>2, <3>2, <3>3, AskedServed
      <4> QED BY <3>1, <4>1, <4>2
    <3>4. CASE /\ ~EEP_reads(word, n) /\ Acknowledge(WithAckErr(NoErrors(Status))) /\ UNCHANGED <<stat, eeprom>>
      BY <2>7, <3>3, <3>4
    <3>5. CASE /\ EEP_reads(word, n) /\ Next_access("data", ESC_write(EEDATA, 2 * n, WordsOf(word, n)))
               /\ stat' = <<NoErrors(Status), word>> /\ UNCHANGED eeprom
      <4>1. task' = <<"data">> /\ Begin("write", EEDATA, 2 * n, WordsOf(word, n))
        BY <3>5, Zenon DEF Next_access, ESC_write
      <4>2. 2 * n \in Nat /\ EEDATA \in Nat /\ "write" \in {"read", "write"}
        BY DEF EEDATA
      <4>3. /\ Begun("write", EEDATA, 2 * n, FirstBuf("write", EEDATA, 2 * n, WordsOf(word, n)))
            /\ pc' = FirstPc("write", EEDATA) /\ UNCHANGED <<hw_fault, csr, regs>>
        BY <4>1, <4>2, BeginIt, Zenon
      <4>4. acc'.buf = WordsOf(word, n) /\ acc'.at = EEDATA /\ acc'.part = "data"
        BY <4>3 DEF Begun, FirstBuf
      <4>5. ~hw_fault => pc' = "put"
        BY <4>3 DEF FirstPc, EEDATA, PRAM
      <4>6. Kept /\ Doing' = "data"
        BY <1>2, <3>5, <4>1, <4>3 DEF Kept, Doing
      <4>7. /\ Outstanding' /\ Answered' /\ PendingInv' /\ Status' = Status /\ asked' = asked
            /\ \A c : Possible(c)' = Possible(c) /\ WordsOf(FirstAsked(c), WordsAsked(c))' = WordsOf(FirstAsked(c), WordsAsked(c))
        BY <1>2, <3>5, <4>3, <4>6, BegunAnswers, KeptAnswers
      <4>8. ~hw_fault => ~Ended' /\ ~Read'
        BY <4>4, <4>5 DEF Ended, OnTail, Read, InHand
      <4>9. InData(Offset)'
        <5>1. Offset' = 0
          BY <4>4 DEF Offset, EEDATA
        <5> QED BY <5>1 DEF InData
      <4>10. ~hw_fault => \A c \in asked : Possible(c)' /\ acc'.buf = WordsOf(FirstAsked(c), WordsAsked(c))'
        BY <3>3, <3>5, <4>4, <4>7
      <4>11. stat'[1] = NoErrors(Status')
        BY <3>5, <4>7
      <4>12. DataRead'
        BY <2>1, <3>2, <4>3, <4>6, <4>7, <4>8, <4>9, <4>10, <4>11 DEF DataRead, Reads
      <4> QED BY <4>6, <4>7, <4>12 DEF StatusRead, WordTaken, Acknowledging
    <3>6. cmd # EEP_CMD_IDLE /\ cmd # EEP_CMD_WRITE
      BY <2>8 DEF EEP_CMD_IDLE, EEP_CMD_READ, EEP_CMD_RELOAD, EEP_CMD_WRITE
    <3> QED BY <1>5, <2>1, <2>2, <2>8, <3>1, <3>4, <3>5, <3>6, Zenon DEF ServedKind
  <2>9. CASE /\ cmd = EEP_CMD_WRITE /\ Next_access("take", ESC_read(EEDATA, 2))
             /\ stat' = <<NoErrors(Status), Address>> /\ UNCHANGED eeprom
    <3>1. task' = <<"take">> /\ Begin("read", EEDATA, 2, <<>>)
      BY <2>9, Zenon DEF Next_access, ESC_read
    <3>2. 2 \in Nat /\ EEDATA \in Nat /\ "read" \in {"read", "write"}
      BY DEF EEDATA
    <3>3. /\ Begun("read", EEDATA, 2, FirstBuf("read", EEDATA, 2, <<>>))
          /\ pc' = FirstPc("read", EEDATA) /\ UNCHANGED <<hw_fault, csr, regs>>
      BY <3>1, <3>2, BeginIt, Zenon
    <3>4. acc'.part = "data" /\ (~hw_fault => pc' = "cmd")
      BY <3>3 DEF Begun, FirstPc, EEDATA, PRAM
    <3>5. Kept /\ Doing' = "take" /\ Outstanding' /\ Answered' /\ PendingInv' /\ Status' = Status /\ asked' = asked
      BY <1>2, <2>9, <3>1, <3>3, BegunAnswers, KeptAnswers DEF Kept, Doing
    <3>6. ~hw_fault => ~Ended' /\ ~Read'
      BY <3>4 DEF Ended, OnTail, Read, InHand
    <3>7. stat'[1] = NoErrors(Status') /\ stat'[2] = Address
      BY <2>9, <3>5
    <3>8. WordTaken'
      BY <2>1, <2>3, <2>4, <2>9, <3>3, <3>5, <3>6, <3>7 DEF WordTaken
    <3> QED BY <3>5, <3>8 DEF StatusRead, DataRead, Acknowledging
  <2>10. CASE /\ cmd \notin {EEP_CMD_IDLE, EEP_CMD_READ, EEP_CMD_RELOAD, EEP_CMD_WRITE}
              /\ Acknowledge(WithAckErr(NoErrors(Status))) /\ UNCHANGED <<stat, eeprom>>
    <3>1. ASSUME NEW c \in asked PROVE ~Possible(c)
      BY <2>3, <2>10 DEF Possible
    <3> QED BY <2>7, <2>10, <3>1
  <2> QED BY <1>5, <2>1, <2>2, <2>6, <2>8, <2>9, <2>10, Zenon DEF ServedKind
<1> QED BY <1>1, <1>4, <1>5

LEMMA InitEeprom ==
  ASSUME Init
  PROVE  EepromInv
<1>1. asked = {} /\ csr = NoCommand /\ task = <<"init", 1>>
  BY DEF Init
<1>2. Doing = "init" /\ ~Pending
  BY <1>1 DEF Doing, Pending, NoCommand
<1> QED BY <1>1, <1>2 DEF EepromInv, Outstanding, Answered, PendingInv, StatusRead, DataRead, WordTaken, Acknowledging

LEMMA StepEeprom ==
  ASSUME RegInv, EepromInv, [Next]_vars
  PROVE  EepromInv'
<1>1. CASE UNCHANGED vars
  <2>1. Kept /\ UNCHANGED <<task, pc, acc, csr, stat, hw_fault>>
    BY <1>1 DEF vars, lanVars, halVars, chipVars, app, Kept
  <2> QED BY <2>1, Unmoving
<1>2. CASE Next
  <2>1. CASE ChipCommand(Written(regs, csr.at, csr.data)) /\ Outside
    <3>1. ChipReads \/ ChipWrites
      BY <2>1, ChipKinds DEF RegInv, Typed
    <3>2. UNCHANGED <<stat, eeprom, eep_read_size, asked>>
      BY <2>1 DEF Outside, app
    <3> QED BY <3>1, <3>2, ChipReadsEeprom, ChipAcknowledged, ChipFilled
  <2> QED BY <1>2, <2>1, NextKinds, CsrStepEeprom, PramStepEeprom, FifoEeprom, InitStepsEeprom, LoopEeprom,
             DataWrittenEeprom, ServeEeprom, StoreEeprom, MasterCommandsEeprom, MasterConfiguresEeprom, Zenon
<1> QED BY <1>1, <1>2

\* A command of the master that is over was answered as asked (EEP_process).
THEOREM CommandsAnswered == Spec => []Answered
<1>1. Init => RegInv /\ EepromInv
  BY InitRegInv, InitEeprom
<1>2. RegInv /\ EepromInv /\ [Next]_vars => RegInv' /\ EepromInv'
  BY StepRegInv, StepEeprom
<1>3. EepromInv => Answered
  BY DEF EepromInv
<1> QED BY <1>1, <1>2, <1>3, PTL DEF Spec

-----------------------------------------------------------------------------
(* Sizes of the accesses to registers and FIFO.                            *)

\* The chunk csr_chunk_size cuts off is one, two or four bytes long, at an
\* address it divides, so in one 32 bit register, and no longer than what is left:
\* the loops of ESC_read and ESC_write end and never reach a word they were not
\* asked for.
THEOREM ChunksAreAligned ==
  ASSUME NEW address \in Nat, NEW len \in Nat \ {0}
  PROVE  LET size == csr_chunk_size(address, len)
         IN /\ size \in {1, 2, 4} /\ size <= len
            /\ address % size = 0 /\ (address % 4) + size <= 4
<1> DEFINE most == IF len > 4 THEN 4 ELSE len
<1>1. most \in {1, 2, 3, 4} /\ most <= len
  OBVIOUS
<1>2. CASE address % 2 = 1
  <2>1. csr_chunk_size(address, len) = 1
    BY <1>2 DEF csr_chunk_size
  <2>2. address % 1 = 0 /\ (address % 4) + 1 <= 4
    OBVIOUS
  <2> QED
    BY <2>1, <2>2
<1>3. CASE address % 2 # 1 /\ address % 4 # 0
  <2>1. csr_chunk_size(address, len) = IF most % 2 = 1 THEN 1 ELSE 2
    BY <1>3 DEF csr_chunk_size
  <2>2. csr_chunk_size(address, len) \in {1, 2} /\ csr_chunk_size(address, len) <= len
    BY <1>1, <2>1
  <2>3. address % 1 = 0 /\ address % 2 = 0 /\ (address % 4) + 2 <= 4
    BY <1>3
  <2> QED
    BY <2>2, <2>3
<1>4. CASE address % 2 # 1 /\ address % 4 = 0
  <2>1. csr_chunk_size(address, len) = IF most = 3 THEN 1 ELSE most
    BY <1>4 DEF csr_chunk_size
  <2>2. csr_chunk_size(address, len) \in {1, 2, 4} /\ csr_chunk_size(address, len) <= len
    BY <1>1, <2>1
  <2>3. address % 1 = 0 /\ address % 2 = 0 /\ address % 4 = 0
    BY <1>4
  <2> QED
    BY <2>2, <2>3
<1> QED
  BY <1>2, <1>3, <1>4

\* As long as bytes are left, pram_fifo_range waits for a word at least and never
\* for more than the FIFO has, nor for a word that the transfer does not have:
\* a wait it starts can be satisfied.
THEOREM FifoWaitIsSatisfiable ==
  ASSUME NEW len \in Nat \ {0}, NEW offset \in Nat, NEW first \in 0 .. 3
  PROVE  LET bytes == IF offset > 0 THEN len ELSE len + first
             words == pram_fifo_range(len, offset, first)
         IN words \in 1 .. FifoWords /\ 4 * (words - 1) < bytes
<1> DEFINE bytes == IF offset > 0 THEN len ELSE len + first
<1> DEFINE words == bytes \div 4 + (IF bytes % 4 # 0 THEN 1 ELSE 0)
<1>1. bytes \in Nat \ {0}
  OBVIOUS
<1>2. FifoWords \in Nat \ {0}
  BY FifoWordsAssumption
<1>3. words \in Nat \ {0} /\ 4 * (words - 1) < bytes
  <2> HIDE DEF bytes
  <2> QED
    BY <1>1
<1>4. pram_fifo_range(len, offset, first) = IF words < FifoWords THEN words ELSE FifoWords
  BY DEF pram_fifo_range
<1> HIDE DEF words, bytes
<1>5. CASE words < FifoWords
  BY <1>2, <1>3, <1>4, <1>5 DEF bytes
<1>6. CASE ~(words < FifoWords)
  <2>1. FifoWords <= words /\ 4 * (FifoWords - 1) <= 4 * (words - 1)
    BY <1>2, <1>3, <1>6
  <2>2. 4 * (FifoWords - 1) < bytes
    BY <1>1, <1>2, <1>3, <2>1
  <2> QED
    BY <1>2, <1>4, <1>6, <2>2 DEF bytes
<1> QED
  BY <1>5, <1>6

=============================================================================
