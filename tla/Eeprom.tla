------------------------------ MODULE Eeprom ------------------------------
(***************************************************************************)
(* A slave process over the LAN9252: ESC_init, then the main loop polling  *)
(* the AL event register and serving the EEPROM commands of the master     *)
(* (EEP_process, soes/esc_eep.c), with process data moved in between.  The *)
(* process may be killed between any two SPI frames and started again; the *)
(* master and the chip keep going.  The EEPROM itself (EEP_read and        *)
(* EEP_write of the application) is a store of words.                      *)
(***************************************************************************)
EXTENDS Lan9252

CONSTANTS
  EepWords,       \* words of the EEPROM
  Commands,       \* the EEPROM commands of the master: [cmd, addr, data]
  Moves,          \* the process data accesses: [dir, start, buf]
  MaxRequests,    \* bound on commands of the master and process data accesses together
  MaxRestarts

EECONTSTAT == 1282    \* 0x0502, the address in the two words behind it
EEDATA     == 1288    \* 0x0508
ALSTATUS   == 304     \* 0x0130
SYNCACT    == 2433    \* 0x0981
DCOFFSET   == 2336    \* 0x0920, eight bytes
ESCinit    == 1
EEP_CMD_IDLE == 0
EEP_CMD_READ == 1
EEP_CMD_WRITE == 2
EEP_CMD_RELOAD == 4
Cells == {ALSTATUS, ALEVENT, ALEVENT + 2, SYNCACT} \cup {EECONTSTAT + 2 * i : i \in 0 .. 6}
         \cup {DCOFFSET + 2 * i : i \in 0 .. 3}

ASSUME EepromAssumption ==
  /\ EepWords \subseteq Nat /\ Commands \subseteq [cmd : 0 .. 7, addr : Nat, data : Nat]
  /\ \A m \in Moves : /\ m \in [dir : {"read", "write"}, start : Nat, buf : Seq(Nat)]
                       /\ m.start >= PRAM /\ m.buf # <<>>
                       /\ \A i \in 1 .. Len(m.buf) : m.start + i - 1 \in Pram

VARIABLES
  task,           \* what the access in hand is for; "idle" between two rounds
  stat,           \* contstat and address as EEP_process read them
  found,          \* what ESC_init has read so far
  eep_read_size,  \* 4 or 8, set by the application
  eeprom,
  asked,          \* the last command of the master, or none if the core was reset
  older,          \* history: a master had configured the ESC when ESC_init began
  requests, restarts

bounds == <<requests, restarts>>
app  == <<task, stat, found>>
vars == <<lanVars, app, eep_read_size, eeprom, asked, older, bounds>>


-----------------------------------------------------------------------------
(* The control and status word of the EEPROM.                              *)

Busy(c)   == c >= 32768
Cmd(c)    == (c \div 256) % 8
AckErr(c) == (c \div 8192) % 2 = 1
Command(cmd) == 32768 + 256 * cmd
WithAckErr(c) == c + 8192

\* csumErr, eeLoading, ackErr and wrErr cleared.
NoErrors(c)   == (c \div 32768) * 32768 + (c % 2048)
\* EEP_read answers if all of the words are there.
EEP_reads(word, n) == \A i \in 0 .. n - 1 : word + i \in EepWords
WordsOf(word, n) == [i \in 1 .. n |-> IF word + i - 1 \in EepWords THEN eeprom[word + i - 1] ELSE 0]

\* What a write of the slave does to the registers: the command is over when
\* its acknowledgement is written.
Written(r, at, data) ==
  [a \in Cells |->
     IF at = EECONTSTAT /\ a = at THEN data[1] % 32768
     ELSE IF at = EECONTSTAT /\ a = ALEVENT THEN 0
     ELSE IF \E i \in 1 .. Len(data) : a = at + 2 * (i - 1) THEN data[(a - at) \div 2 + 1] ELSE r[a]]

-----------------------------------------------------------------------------
(* ESC_init.                                                               *)

Configured(r) == r[ALSTATUS] % 16 > ESCinit \/ r[SYNCACT] # 0 \/ \E i \in 0 .. 3 : r[DCOFFSET + 2 * i] # 0

InitReads == << [at |-> ALSTATUS, len |-> 2], [at |-> SYNCACT, len |-> 1],
                [at |-> DCOFFSET, len |-> 4], [at |-> DCOFFSET + 4, len |-> 4] >>

\* Mutant: the offset looked at in its low half.
ByLowHalf(read) == read[1] <= ESCinit /\ read[2] = 0 /\ read[3] = 0 /\ read[4] = 0

\* lan9252_init_core_reset
CoreReset(read) == read[1] % 16 <= ESCinit /\ \A i \in 2 .. Len(read) : read[i] = 0

InitRead(i) ==
  /\ ESC_read_csr(InitReads[i].at, InitReads[i].len) /\ task' = <<"init", i>>
  /\ UNCHANGED <<sawBusy, count, ALevent, csr, fifo, regs, pmem, before>>

InitReadNext ==
  /\ pc = "done" /\ task[1] = "init" /\ task[2] < Len(InitReads)
  /\ found' = found \o acc.buf /\ InitRead(task[2] + 1)
  /\ UNCHANGED <<hw_fault, stat, eep_read_size, eeprom, asked, older, bounds>>

\* The registers of the core after a reset.
PowerUp == [a \in Cells |-> IF a = ALSTATUS THEN ESCinit ELSE 0]

\* The reset is sent after a fault as well, and may itself fail.
InitDecides ==
  /\ pc = "done" /\ task[1] = "init" /\ task[2] = Len(InitReads)
  /\ found' = found \o acc.buf /\ pc' = "idle" /\ acc' = NoAccess /\ task' = <<"idle">>
  /\ IF CoreReset(found')
     THEN \/ regs' = PowerUp /\ asked' = {} /\ hw_fault' \in {hw_fault, TRUE}
          \/ hw_fault' = TRUE /\ UNCHANGED <<regs, asked>>
     ELSE UNCHANGED <<hw_fault, regs, asked>>
  /\ UNCHANGED <<sawBusy, count, ALevent, csr, fifo, pmem, before, stat, eep_read_size, eeprom, older, bounds>>

\* The process is killed and started again; by then the chip has done what it was told.
Emptied == fifo.dir = "write" => fifo.words = <<>>
Restart ==
  /\ restarts < MaxRestarts /\ restarts' = restarts + 1 /\ ~csr.busy /\ Emptied
  /\ hw_fault' = FALSE /\ ALevent' = 0 /\ sawBusy' = FALSE /\ count' = 0
  /\ found' = <<>> /\ stat' = <<0, 0>> /\ older' = Configured(regs)
  /\ ESC_read_csr(InitReads[1].at, InitReads[1].len) /\ task' = <<"init", 1>>
  /\ UNCHANGED <<csr, fifo, regs, pmem, before, eep_read_size, eeprom, asked, requests>>

-----------------------------------------------------------------------------
(* EEP_process.                                                            *)

Client == UNCHANGED <<found, eep_read_size, asked, older, bounds>>
Returns == /\ pc' = "idle" /\ acc' = NoAccess /\ task' = <<"idle">>
           /\ UNCHANGED <<hw_fault, sawBusy, count, ALevent, chipVars, before, stat, eeprom>>
Next_access(name, access) == task' = <<name>> /\ access
Acknowledge(c) == Next_access("ack", ESC_write(EECONTSTAT, 2, <<c>>))
ReadStatus == Next_access("status", ESC_read(EECONTSTAT, 6))

\* The main loop: the event register is polled, ESC_read publishes it.
Poll ==
  /\ pc = "idle" /\ Next_access("poll", ESC_read(ALEVENT, 4))
  /\ Client /\ UNCHANGED <<stat, eeprom>>

Event ==
  /\ pc = "done" /\ task[1] = "poll" /\ Client
  /\ IF (ALevent \div 32) % 2 = 1 THEN ReadStatus /\ UNCHANGED <<stat, eeprom>> ELSE Returns

\* The data of a read or reload command, from word and n words long.
Fetched(word, n) ==
  IF EEP_reads(word, n)
  THEN Next_access("data", ESC_write(EEDATA, 2 * n, WordsOf(word, n))) /\ stat' = <<NoErrors(acc.buf[1]), word>>
  ELSE Acknowledge(WithAckErr(NoErrors(acc.buf[1]))) /\ UNCHANGED stat

Serve ==
  /\ pc = "done" /\ task[1] = "status" /\ Client
  /\ LET c    == acc.buf[1]
         addr == acc.buf[2] + 65536 * acc.buf[3]
     IN CASE ~Busy(c) -> Returns
          [] Busy(c) /\ Cmd(c) = EEP_CMD_IDLE -> Acknowledge(NoErrors(c)) /\ UNCHANGED <<stat, eeprom>>
          [] Busy(c) /\ Cmd(c) = EEP_CMD_READ ->
               Fetched(addr, eep_read_size \div 2) /\ UNCHANGED eeprom
          [] Busy(c) /\ Cmd(c) = EEP_CMD_RELOAD ->
               (IF eep_read_size = 8 THEN Fetched(addr, 4) ELSE Fetched(4, 1)) /\ UNCHANGED eeprom
          [] Busy(c) /\ Cmd(c) = EEP_CMD_WRITE ->
               Next_access("take", ESC_read(EEDATA, 2)) /\ stat' = <<NoErrors(c), addr>> /\ UNCHANGED eeprom
          [] OTHER -> Acknowledge(WithAckErr(NoErrors(c))) /\ UNCHANGED <<stat, eeprom>>

\* The data is in the register: the command is acknowledged.
DataWritten ==
  /\ pc = "done" /\ task[1] = "data" /\ Acknowledge(stat[1])
  /\ Client /\ UNCHANGED <<stat, eeprom>>

Store ==
  /\ pc = "done" /\ task[1] = "take" /\ Client /\ UNCHANGED stat
  /\ IF EEP_reads(stat[2], 1)
     THEN Acknowledge(stat[1]) /\ eeprom' = [eeprom EXCEPT ![stat[2]] = acc.buf[1]]
     ELSE Acknowledge(WithAckErr(stat[1])) /\ UNCHANGED eeprom

\* Once more round the loop of EEP_process, until the command is over.
Acknowledged ==
  /\ pc = "done" /\ task[1] = "ack" /\ ReadStatus
  /\ Client /\ UNCHANGED <<stat, eeprom>>

EEP_process == Event \/ Serve \/ DataWritten \/ Store \/ Acknowledged

-----------------------------------------------------------------------------
(* Process data, the master, and the specification.                        *)

\* Process data is moved; the chip has emptied the FIFO before the next access.
Move ==
  /\ pc = "idle" /\ requests < MaxRequests /\ requests' = requests + 1 
  /\ \E m \in Moves : IF m.dir = "read" THEN ESC_read(m.start, Len(m.buf)) ELSE ESC_write(m.start, Len(m.buf), m.buf)
  /\ task' = <<"move">>
  /\ UNCHANGED <<stat, found, eep_read_size, eeprom, asked, older, restarts>>

MoveReturns ==
  /\ pc = "done" /\ task[1] = "move" /\ Emptied /\ Returns /\ Client

\* The master may command the EEPROM when the last command is over.
MasterCommands ==
  /\ requests < MaxRequests /\ requests' = requests + 1 /\ ~Busy(regs[EECONTSTAT])
  /\ \E c \in Commands :
       /\ asked' = {c}
       /\ regs' = [regs EXCEPT ![EECONTSTAT] = IF AckErr(@) THEN WithAckErr(Command(c.cmd)) ELSE Command(c.cmd),
                               ![EECONTSTAT + 2] = c.addr, ![EECONTSTAT + 4] = 0, ![EEDATA] = c.data, ![ALEVENT] = 32]
  /\ UNCHANGED <<halVars, csr, fifo, pmem, before, app, eep_read_size, eeprom, older, restarts>>

\* The master takes the slave out of INIT, sets the clock offset, activates SYNC0:
\* what matters is that it may while ESC_init reads.
MasterConfigures ==
  /\ task[1] = "init" /\ ~Configured(regs)
  /\ \E a \in {ALSTATUS, SYNCACT, DCOFFSET, DCOFFSET + 6} : regs' = [regs EXCEPT ![a] = 2]
  /\ UNCHANGED <<halVars, csr, fifo, pmem, before, app, eep_read_size, eeprom, asked, older, bounds>>

\* The ESC is powered up, or left by a process before with the clock offset of
\* the master and an error of the EEPROM.
InitialPram == [a \in Pram |-> 200 + (a % 32)]
Init ==
  /\ hw_fault = FALSE /\ pc = "cmd" /\ sawBusy = FALSE /\ count = 0 /\ ALevent = 0
  /\ acc = [NoAccess EXCEPT !.dir = "read", !.start = ALSTATUS, !.len = 2, !.at = ALSTATUS, !.left = 2, !.part = "raw"]
  /\ csr = NoCommand /\ fifo = NoTransfer
  /\ older \in BOOLEAN
  /\ regs = IF older THEN [PowerUp EXCEPT ![DCOFFSET + 6] = 2, ![EECONTSTAT] = WithAckErr(0)] ELSE PowerUp
  /\ pmem = InitialPram /\ before = InitialPram
  /\ task = <<"init", 1>> /\ stat = <<0, 0>> /\ found = <<>> /\ eep_read_size \in {4, 8}
  /\ eeprom = [w \in EepWords |-> 100 + w]
  /\ asked = {}
  /\ requests = 0 /\ restarts = 0

Outside == UNCHANGED <<app, eep_read_size, eeprom, asked, older, bounds>>
HalStep   == Hal /\ Outside
Fails     == FrameFails /\ Outside
Chip      == (ChipCommand(Written(regs, csr.at, csr.data)) \/ ChipFills \/ ChipDrains) /\ Outside
Process   == HalStep \/ InitReadNext \/ InitDecides \/ Poll \/ EEP_process
Environment == MasterCommands \/ MasterConfigures \/ Restart

Next == Process \/ Fails \/ Chip \/ Move \/ MoveReturns \/ Environment

\* The process runs; nothing is assumed of the chip but that its FIFO drains.
Fairness == WF_vars(Process) /\ WF_vars(MoveReturns) /\ WF_vars(ChipDrains /\ Outside)
Spec == Init /\ [][Next]_vars /\ Fairness

-----------------------------------------------------------------------------
(* Properties.                                                             *)

\* Process memory is moved byte for byte, whatever the alignment, the words the
\* FIFO reports and the pace of the chip: a read returns the memory, a write
\* changes its own bytes and no others (ESC_read_pram, ESC_write_pram).
PramIsWhole ==
  (pc = "done" /\ task[1] = "move" /\ ~hw_fault) =>
    IF acc.dir = "read" THEN acc.buf = [i \in 1 .. acc.len |-> pmem[acc.start + i - 1]]
    ELSE Emptied => pmem = [a \in Pram |-> IF a \in acc.start .. acc.start + acc.len - 1
                                           THEN acc.buf[a - acc.start + 1] ELSE before[a]]

\* What a command asks for: so many words, from the first on; all of them must be there.
WordsAsked(c) == IF c.cmd = EEP_CMD_WRITE \/ (c.cmd = EEP_CMD_RELOAD /\ eep_read_size = 4) THEN 1
                 ELSE eep_read_size \div 2
FirstAsked(c) == IF c.cmd = EEP_CMD_RELOAD /\ eep_read_size = 4 THEN 4 ELSE c.addr
Possible(c) ==
  \/ c.cmd = EEP_CMD_IDLE
  \/ c.cmd \in {EEP_CMD_READ, EEP_CMD_RELOAD, EEP_CMD_WRITE} /\ EEP_reads(FirstAsked(c), WordsAsked(c))

\* The answer to c, with v in the status register.
Answer(c, v) ==
  /\ AckErr(v) <=> ~Possible(c)
  /\ (Possible(c) /\ c.cmd \in {EEP_CMD_READ, EEP_CMD_RELOAD})
        => \A i \in 0 .. WordsAsked(c) - 1 : regs[EEDATA + 2 * i] = eeprom[FirstAsked(c) + i]
  /\ (Possible(c) /\ c.cmd = EEP_CMD_WRITE) => eeprom[c.addr] = c.data

\* A command that is over was answered as asked, faults and restarts between or
\* not: the data register shows the words of a read, a word written is in the
\* EEPROM, and an error is reported for what cannot be done and nothing else.
Answered == \A c \in asked : ~Busy(regs[EECONTSTAT]) => Answer(c, regs[EECONTSTAT])

\* The core is reset only if no master had configured it when ESC_init began
\* ("Reset the EtherCAT core over SPI only if no master has configured the ESC
\* yet", esc_hw.c:994), unless the bus has failed.
KeepsConfiguration ==
  [][ (asked' = {} /\ found' # found /\ regs' # regs) => (~older \/ hw_fault) ]_vars

\* "Every busy-wait below is bounded" (esc_hw.c:100): with the chip standing still
\* every access and EEP_process return all the same.
ProcessReturns == pc # "idle" ~> pc = "idle"

\* A command of the master is over some time, or the bus has failed.
CommandAnswered == Busy(regs[EECONTSTAT]) ~> (~Busy(regs[EECONTSTAT]) \/ hw_fault)
=============================================================================
