------------------------------ MODULE Lan9252 ------------------------------
(***************************************************************************)
(* The LAN9252 behind SPI, soes/hal/linux-lan9252-spidev/esc_hw.c: an      *)
(* access of the stack is a series of SPI frames with the chip at work     *)
(* between them.  Registers below 0x1000 go through the CSR command and    *)
(* data registers in chunks, the data read before it is known to be there; *)
(* process memory goes through a FIFO.  Any frame may fail and any wait    *)
(* may run out of time: that latches hw_fault.                             *)
(*                                                                         *)
(* The registers are words at even addresses (a register of one byte is a  *)
(* word at its own), the process memory is bytes.  A frame and what is     *)
(* done with its answer are one step.                                      *)
(***************************************************************************)
EXTENDS Integers, Sequences, AccessSizes

CONSTANTS
  Pram,         \* the addresses of the process memory used
  NoTail,       \* the addresses after whose access ALevent is not read (alevent_tail_needed)
  FifoRoom      \* words in the FIFO of the chip

ALEVENT == 544  \* 0x0220
PRAM    == 4096 \* 0x1000, where the process memory begins
ASSUME Lan9252Assumption ==
  FifoRoom \in Nat /\ FifoRoom >= FifoWords /\ \A a \in Pram : a \in Nat /\ a >= PRAM

VARIABLES
  hw_fault,
  pc,           \* the next frame of the access in hand; "idle", "done"
  acc,          \* the access: [dir, start, len, at, left, buf, part]
  sawBusy,      \* the busy flag the speculative read was sent behind
  count,        \* words the FIFO reported
  ALevent,      \* ESCvar.ALevent
  csr,          \* the chip: its CSR command [busy, dir, at, size, data]
  fifo,         \* the chip: its transfer [dir, at, left, words]
  regs, pmem,   \* the chip: registers and process memory
  before        \* history: the process memory when the access began

halVars  == <<hw_fault, pc, acc, sawBusy, count, ALevent>>
chipVars == <<csr, fifo, regs, pmem>>
lanVars  == <<halVars, chipVars, before>>

\* part: the "data" asked for, the "tail" read of ALevent, or a "raw" chunk of ESC_init.
NoAccess   == [dir |-> "none", start |-> 0, len |-> 0, at |-> 0, left |-> 0, buf |-> <<>>, part |-> "data"]
NoCommand  == [busy |-> FALSE, dir |-> "none", at |-> 0, size |-> 0, data |-> <<>>]
NoTransfer == [dir |-> "none", at |-> 0, left |-> 0, words |-> <<>>]

Reading == acc.dir = "read" \/ acc.part = "tail"
Least(a, b) == IF a < b THEN a ELSE b
Chunk == csr_chunk_size(acc.at, acc.left)
WordsNeeded(size) == (size + 1) \div 2
WordsAt(at, size) == [i \in 1 .. WordsNeeded(size) |-> regs[at + 2 * (i - 1)]]
Zeros(size) == [i \in 1 .. WordsNeeded(size) |-> 0]
ZeroBytes(size) == [i \in 1 .. size |-> 0]

-----------------------------------------------------------------------------
(* How an access goes on and ends.                                         *)

\* Mutants: what was read behind a busy flag taken for the answer; a wait
\* without deadline; the first byte of the FIFO taken for the first byte; the
\* event register read and not published.
Speculation(busy)  == FALSE
NoDeadline         == FALSE
FromFirst(address) == 0
NotPublished       == FALSE

\* ESC_read_csr reads again if the command was not done.
ReadAgainIf(busy)  == busy
DeadlinePassed     == TRUE
FirstByte(address) == address % 4
IsALevent          == acc.dir = "read" /\ acc.start = ALEVENT /\ acc.len >= 4
hw_timeout         == hw_fault' = TRUE
NoFault == UNCHANGED hw_fault

Over(buf) == pc' = "done" /\ acc' = [acc EXCEPT !.buf = buf, !.left = 0]
Locals == sawBusy' = FALSE /\ count' = 0

\* The end of ESC_read and ESC_write: the AL event register is published if it
\* was what was read, read if the access needs the tail, or left as it is.
Finish(buf) ==
  IF IsALevent
  THEN Over(buf) /\ ALevent' = buf[1]
  ELSE IF acc.start \in NoTail
  THEN Over(buf) /\ UNCHANGED ALevent
  ELSE /\ pc' = "cmd" /\ UNCHANGED ALevent
       /\ acc' = [acc EXCEPT !.buf = buf, !.at = ALEVENT, !.left = 4, !.part = "tail"]

\* The chunk in hand is over; v is what was read.
Took(v) ==
  /\ Locals
  /\ CASE acc.part = "tail" -> Over(acc.buf) /\ ALevent' = v[1]
       [] acc.part = "raw"  -> Over(v) /\ UNCHANGED ALevent
       [] OTHER ->
          LET buf == IF Reading THEN acc.buf \o v ELSE acc.buf
          IN IF Chunk = acc.left THEN Finish(buf)
             ELSE /\ acc' = [acc EXCEPT !.at = @ + Chunk, !.left = @ - Chunk, !.buf = buf]
                  /\ pc' = (IF Reading THEN "cmd" ELSE "put") /\ UNCHANGED ALevent

\* ESC_read and ESC_write begin; once faulted they leave the bus alone.
Begin(dir, start, len, buf) ==
  /\ acc' = [NoAccess EXCEPT !.dir = dir, !.start = start, !.len = len, !.at = start, !.left = len,
       !.buf = IF ~hw_fault \/ dir = "write" THEN buf ELSE IF start >= PRAM THEN ZeroBytes(len) ELSE Zeros(len)]
  /\ pc' = IF hw_fault THEN "done" ELSE IF start >= PRAM THEN "abort" ELSE IF dir = "read" THEN "cmd" ELSE "put"
  /\ before' = pmem
  /\ UNCHANGED <<hw_fault, sawBusy, count, ALevent, chipVars>>
ESC_read(start, len)       == Begin("read", start, len, <<>>)
ESC_write(start, len, buf) == Begin("write", start, len, buf)

\* ESC_init reads without looking at the fault and without a tail.
ESC_read_csr(start, len) ==
  /\ acc' = [NoAccess EXCEPT !.dir = "read", !.start = start, !.len = len, !.at = start, !.left = len, !.part = "raw"]
  /\ pc' = "cmd"

-----------------------------------------------------------------------------
(* Registers: ESC_read_csr and ESC_write_csr.                              *)

Commanded == [busy |-> TRUE, dir |-> IF Reading THEN "read" ELSE "write",
              at |-> acc.at, size |-> Chunk, data |-> IF Reading THEN <<>> ELSE csr.data]

PutData ==
  /\ pc = "put" /\ pc' = "cmd" /\ NoFault
  /\ csr' = [csr EXCEPT !.data = SubSeq(acc.buf, (acc.at - acc.start) \div 2 + 1,
                                        (acc.at - acc.start) \div 2 + WordsNeeded(Chunk))]
  /\ UNCHANGED <<acc, sawBusy, count, ALevent, fifo, regs, pmem, before>>

\* A command on top of one that has timed out may be ignored.
SendCommand ==
  /\ pc = "cmd" /\ pc' = "busy" /\ NoFault
  /\ csr' \in IF csr.busy THEN {csr, Commanded} ELSE {Commanded}
  /\ UNCHANGED <<acc, sawBusy, count, ALevent, fifo, regs, pmem, before>>

ReadBusy ==
  /\ pc = "busy" /\ NoFault
  /\ IF Reading THEN pc' = "data" /\ sawBusy' = csr.busy /\ UNCHANGED <<acc, count, ALevent>>
     ELSE IF csr.busy THEN pc' = "wait" /\ UNCHANGED <<acc, sawBusy, count, ALevent>>
     ELSE Took(<<>>)
  /\ UNCHANGED <<chipVars, before>>

\* What the data register shows while the command is not done has no meaning;
\* the words behind those of a smaller command neither.
Shown == [i \in 1 .. WordsNeeded(Chunk) |-> IF csr.busy \/ i > Len(csr.data) THEN 0 ELSE csr.data[i]]

ReadData ==
  /\ pc = "data" /\ NoFault
  /\ IF ReadAgainIf(sawBusy) THEN pc' = "wait" /\ UNCHANGED <<acc, sawBusy, count, ALevent>> ELSE Took(Shown)
  /\ UNCHANGED <<chipVars, before>>

\* wait_until for the command: it is done, has failed before or runs out of time.
WaitForCommand ==
  /\ pc = "wait"
  /\ \/ hw_fault /\ Took(Zeros(Chunk)) /\ NoFault
     \/ /\ ~hw_fault /\ ~csr.busy /\ NoFault
        /\ IF Reading THEN pc' = "again" /\ UNCHANGED <<acc, sawBusy, count, ALevent>> ELSE Took(<<>>)
     \/ ~hw_fault /\ csr.busy /\ DeadlinePassed /\ hw_timeout /\ Took(Zeros(Chunk))
  /\ UNCHANGED <<chipVars, before>>

ReadAgain ==
  /\ pc = "again" /\ Took(Shown) /\ NoFault
  /\ UNCHANGED <<chipVars, before>>

\* A frame fails: the chunk reads zeros, and the access goes on with the next
\* one.  A command that failed may have reached the chip.
CsrFrameFails ==
  /\ pc \in {"put", "cmd", "busy", "data", "wait", "again"} /\ hw_timeout /\ Took(Zeros(Chunk))
  /\ csr' \in {csr} \cup (IF pc = "cmd" THEN {Commanded} ELSE {})
  /\ UNCHANGED <<fifo, regs, pmem, before>>

-----------------------------------------------------------------------------
(* Process memory: ESC_read_pram and ESC_write_pram.                       *)

Needed == pram_fifo_range(acc.left, acc.len - acc.left, FirstByte(acc.start))
Ready  == IF acc.dir = "read" THEN Len(fifo.words) ELSE FifoRoom - Len(fifo.words)
Skip   == IF acc.left = acc.len THEN FirstByte(acc.start) ELSE 0

\* The transfer before is aborted and a new one set up.
Abort ==
  /\ pc = "abort" /\ pc' = "start" /\ fifo' = NoTransfer /\ NoFault
  /\ UNCHANGED <<acc, sawBusy, count, ALevent, csr, regs, pmem, before>>

StartTransfer ==
  /\ pc = "start" /\ pc' = "fifo" /\ NoFault
  /\ fifo' = [dir |-> acc.dir, at |-> acc.start, left |-> acc.len, words |-> <<>>]
  /\ UNCHANGED <<acc, sawBusy, count, ALevent, csr, regs, pmem, before>>

pram_wait_fifo ==
  /\ pc = "fifo"
  /\ IF Ready > 0 /\ Ready >= Needed
     THEN pc' = "xfer" /\ count' = Ready /\ NoFault /\ UNCHANGED <<acc, sawBusy, ALevent>>
     ELSE DeadlinePassed /\ hw_timeout /\ Finish(acc.buf) /\ Locals
  /\ UNCHANGED <<chipVars, before>>

\* After n bytes the access is over or waits for the FIFO again.
Moved(n, buf) ==
  /\ Locals
  /\ IF n = acc.left THEN Finish(buf)
     ELSE pc' = "fifo" /\ acc' = [acc EXCEPT !.left = @ - n, !.buf = buf] /\ UNCHANGED ALevent

\* The words reported are read in one frame.
ReadFifo ==
  /\ pc = "xfer" /\ acc.dir = "read" /\ NoFault
  /\ LET n       == Least(acc.left, 4 * count - Skip)
         Byte(i) == fifo.words[(Skip + i - 1) \div 4 + 1][((Skip + i - 1) % 4) + 1]
     IN Moved(n, acc.buf \o [i \in 1 .. n |-> Byte(i)])
  /\ fifo' = [fifo EXCEPT !.words = SubSeq(@, count + 1, Len(@))]
  /\ UNCHANGED <<csr, regs, pmem, before>>

\* The room reported is filled in one frame, behind the last byte with zeros.
\* What finds no room is lost.
WriteFifo ==
  /\ pc = "xfer" /\ acc.dir = "write" /\ NoFault
  /\ LET n     == Least(acc.left, 4 * count - Skip)
         done  == acc.len - acc.left
         Byte(i) == IF i - Skip \in 1 .. n THEN acc.buf[done + i - Skip] ELSE 0
         words == [w \in 1 .. count |-> [i \in 1 .. 4 |-> Byte(4 * (w - 1) + i)]]
     IN /\ Moved(n, acc.buf)
        /\ fifo' = [fifo EXCEPT !.words = @ \o SubSeq(words, 1, Least(count, FifoRoom - Len(@)))]
  /\ UNCHANGED <<csr, regs, pmem, before>>

\* A frame fails; what was to be read into keeps what it held.
PramFrameFails ==
  /\ pc \in {"abort", "start", "fifo", "xfer"} /\ hw_timeout /\ Finish(acc.buf) /\ Locals
  /\ UNCHANGED <<chipVars, before>>

-----------------------------------------------------------------------------
(* The chip.                                                               *)

\* The command is carried out; written is what the registers become by a write.
ChipCommand(written) ==
  /\ csr.busy
  /\ IF csr.dir = "read"
     THEN csr' = [csr EXCEPT !.busy = FALSE, !.data = WordsAt(csr.at, csr.size)] /\ UNCHANGED regs
     ELSE /\ csr' = [csr EXCEPT !.busy = FALSE]
          /\ regs' = written
  /\ UNCHANGED <<halVars, fifo, pmem, before>>

\* Words are aligned: the first begins before the address, the last ends behind the length.
Aligned(a) == (a \div 4) * 4
Behind(a)  == Least(Aligned(a) + 4 - a, fifo.left)

ChipFills ==
  /\ fifo.dir = "read" /\ fifo.left > 0 /\ Len(fifo.words) < FifoRoom
  /\ LET word == [i \in 1 .. 4 |-> IF Aligned(fifo.at) + i - 1 \in Pram THEN pmem[Aligned(fifo.at) + i - 1] ELSE 0]
     IN fifo' = [fifo EXCEPT !.words = Append(@, word), !.at = @ + Behind(fifo.at), !.left = @ - Behind(fifo.at)]
  /\ UNCHANGED <<halVars, csr, regs, pmem, before>>

ChipDrains ==
  /\ fifo.dir = "write" /\ fifo.words # <<>>
  /\ LET n == Behind(fifo.at)
     IN /\ pmem' = [a \in Pram |-> IF a \in fifo.at .. fifo.at + n - 1
                                   THEN Head(fifo.words)[a - Aligned(fifo.at) + 1] ELSE pmem[a]]
        /\ fifo' = [fifo EXCEPT !.words = Tail(@), !.at = @ + n, !.left = @ - n]
  /\ UNCHANGED <<halVars, csr, regs, before>>

Hal == \/ PutData \/ SendCommand \/ ReadBusy \/ ReadData \/ WaitForCommand \/ ReadAgain
       \/ Abort \/ StartTransfer \/ pram_wait_fifo \/ ReadFifo \/ WriteFifo
FrameFails == CsrFrameFails \/ PramFrameFails
=============================================================================
