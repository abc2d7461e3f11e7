-------------------------------- MODULE FoE --------------------------------
(***************************************************************************)
(* Files sent to the device, soes/esc_foe.c as it is built (without        *)
(* FOE_READ_SUPPORTED): the write session, its packets and the flushes to  *)
(* the application's write function, which may fail; the mailbox may lack  *)
(* a buffer for an answer or restart in the middle.  The mailbox below is  *)
(* ReplyChannel: requests one at a time, answers in the order queued.      *)
(***************************************************************************)
EXTENDS Integers, Sequences, SequencesExt

CONSTANTS
  Table,          \* foe_cfg->files: a sequence of [name, max, boot]
  Names,          \* the file names a master asks for
  FileSizes,      \* units of the files it sends
  Wanted,         \* the one it never ceases to try: [name, size]
  PacketSize,     \* ESC_FOE_DATA_SIZE
  FlushSize,      \* foe_cfg->buffer_size
  Versions,       \* versions of a file
  MaxFaults       \* bound on failed writes, missing buffers and restarts

ASSUME FoeConstantsAssumption ==
  /\ Table \in Seq([name : Seq(STRING), max : Nat, boot : BOOLEAN])
  /\ FileSizes \subseteq Nat /\ Versions \subseteq Nat
  /\ PacketSize \in Nat \ {0} /\ FlushSize \in Nat \ {0} /\ MaxFaults \in Nat

VARIABLES
  foestate, foepacket, fposition,   \* FOEvar: "ready" (FOE_READY) or "data" (FOE_WAIT_FOR_DATA)
  fbuffer,                          \* foe_cfg->fbuffer up to fbufposition
  foe_file, address_offset,         \* the file opened last and how far it is written
  flash,                            \* what the write function has stored of each file
  ALstatus, req, replies,           \* "boot" or "preop"; the mailbox
  master,                           \* the master's transfer
  version,                          \* history: the version the open session was asked to take
  faults

foeVars  == <<foestate, foepacket, fposition, fbuffer, foe_file, address_offset>>
vars == <<foeVars, flash, ALstatus, req, replies, master, version, faults>>

None  == 0
Files == DOMAIN Table
Nothing   == [op |-> "none"]
ACK(n)    == [op |-> "ack", packet |-> n]
ERR(code) == [op |-> "err", code |-> code]
Value(v, from, to) == [i \in 1 .. to - from |-> <<v, from + i>>]
Idle == [phase |-> "idle", name |-> CHOOSE n \in Names : TRUE, version |-> 0,
         size |-> 0, sent |-> 0, packet |-> 0, last |-> FALSE]
Failed == [Idle EXCEPT !.phase = "failed"]

Init ==
  /\ foestate = "ready" /\ foepacket = 0 /\ fposition = 0 /\ fbuffer = <<>>
  /\ foe_file = None /\ address_offset = 0 /\ flash = [f \in Files |-> <<>>]
  /\ ALstatus \in {"boot", "preop"} /\ req = Nothing /\ replies = <<>>
  /\ master = Idle /\ version \in Versions /\ faults = 0

Fault == faults < MaxFaults /\ faults' = faults + 1

-----------------------------------------------------------------------------
(* The handlers.  Each says what it answers; Answer(rs) sends as many of   *)
(* them as there are buffers.                                              *)

Least(a, b) == IF a < b THEN a ELSE b
\* The write function stores d from offset on.
Stored(fl, offset, d) ==
  [fl EXCEPT ![foe_file] = SubSeq(@, 1, offset) \o d \o SubSeq(@, offset + Len(d) + 1, Len(@))]

\* Mutants: the session left open or its buffer filled; the rest of a packet dropped.
SessionKept == [state |-> foestate, packet |-> 0, buffer |-> <<>>]
BufferKept  == [state |-> "ready", packet |-> 0, buffer |-> fbuffer]
NoneKept(buf, k) == <<>>

\* What FOE_init makes of the session.
Cleared == [state |-> "ready", packet |-> 0, buffer |-> <<>>]
FOE_init == /\ foestate' = Cleared.state /\ foepacket' = Cleared.packet
            /\ fposition' = 0 /\ fbuffer' = Cleared.buffer
NotInBoot(f)  == Table[f].boot /\ ALstatus # "boot"
DiskFull(n)   == fposition + n > Table[foe_file].max
\* What stays in the buffer after k flushes.
Rest(buf, k)  == SubSeq(buf, k * FlushSize + 1, Len(buf))

\* FOE_abort, and FOE_send_ack of the last packet: the session ends, answered
\* if there is a buffer.
FOE_abort(code) ==
  /\ FOE_init
  /\ \/ replies' = Append(replies, ERR(code)) /\ UNCHANGED faults
     \/ UNCHANGED replies /\ Fault
AckAndEnd ==
  /\ FOE_init
  /\ \/ replies' = Append(replies, ACK(foepacket)) /\ UNCHANGED faults
     \/ UNCHANGED replies /\ Fault

\* FOE_send_ack in a session that goes on: without a buffer it is aborted.
AckAndGoOn(packet, position, buf) ==
  \/ /\ foestate' = "data" /\ foepacket' = packet + 1 /\ fposition' = position
     /\ fbuffer' = buf /\ replies' = Append(replies, ACK(packet)) /\ UNCHANGED faults
  \/ FOE_init /\ Fault /\ UNCHANGED replies

\* FOE_fopen: the first file whose name begins with the name asked for.
FOE_fopen(name, pass) ==
  LET fs == {f \in Files : IsPrefix(name, Table[f].name)}
      f  == CHOOSE g \in fs : \A h \in fs : g <= h
  IN IF fs = {} THEN [error |-> "NOTFOUND", file |-> None]
     ELSE IF ~pass THEN [error |-> "NORIGHTS", file |-> None]
     ELSE IF NotInBoot(f) THEN [error |-> "NOTINBOOTSTRAP", file |-> None]
     ELSE [error |-> "none", file |-> f]

FOE_write ==
  LET opened == FOE_fopen(req.name, req.pass)
      error  == IF foestate # "ready" THEN "ILLEGAL" ELSE opened.error
  IN /\ UNCHANGED flash
     /\ IF error # "none"
        THEN FOE_abort(error) /\ UNCHANGED <<foe_file, address_offset, version>>
        ELSE /\ foe_file' = opened.file /\ address_offset' = 0 /\ AckAndGoOn(Cleared.packet, 0, Cleared.buffer)
             /\ version' = IF foestate' = "data" THEN req.version ELSE version

\* FOE_fwrite, all of d taken: one flush each time the buffer is full.
FOE_fwrite(d) ==
  LET buf == fbuffer \o d
      k   == Len(buf) \div FlushSize
  IN [k |-> k, rest |-> Rest(buf, k), offset |-> address_offset + k * FlushSize,
      flash |-> Stored(flash, address_offset, SubSeq(buf, 1, k * FlushSize))]

\* The write function fails at flush j: what came before it is stored, the
\* session ends.  A full packet of which some was copied is acknowledged too,
\* after the error.
FlushFails(d) ==
  LET buf == fbuffer \o d
  IN \E j \in 1 .. Len(buf) \div FlushSize :
       LET copied  == j * FlushSize - Len(fbuffer) - 1
           both    == Len(d) = PacketSize /\ copied > 0
           answers == IF both THEN <<ERR("PROGERROR"), ACK(Cleared.packet)>> ELSE <<ERR("PROGERROR")>>
       IN /\ Fault
          /\ flash' = Stored(flash, address_offset, SubSeq(buf, 1, (j - 1) * FlushSize))
          /\ address_offset' = address_offset + j * FlushSize
          /\ foestate' = Cleared.state /\ fposition' = 0 /\ fbuffer' = Cleared.buffer
          /\ \E n \in 0 .. Len(answers) :
               /\ replies' = replies \o SubSeq(answers, 1, n)
               /\ foepacket' = Cleared.packet + (IF n = 2 THEN 1 ELSE 0)

\* FOE_fclose after a write w: the rest goes to the write function.
CloseWell(w) == /\ flash' = Stored(w.flash, w.offset, w.rest)
                /\ address_offset' = w.offset + Len(w.rest)
CloseFails(w) == flash' = w.flash /\ address_offset' = w.offset + Len(w.rest)

\* FOE_data.  An empty packet ends the session and is acknowledged whether or
\* not the rest could be written; a short one only if it could.
FOE_data ==
  LET d == req.data
      w == FOE_fwrite(d)
      refused == IF foestate # "data" THEN "ILLEGAL"
                 ELSE IF req.packet # foepacket THEN "PACKETNO"
                 ELSE IF d # <<>> /\ DiskFull(Len(d)) THEN "DISKFULL" ELSE "none"
  IN /\ UNCHANGED <<foe_file, version>>
     /\ IF refused # "none" THEN FOE_abort(refused) /\ UNCHANGED <<address_offset, flash>>
        ELSE IF d = <<>>
        THEN \/ CloseWell(w) /\ AckAndEnd
             \/ CloseFails(w) /\ Fault /\ FOE_init /\ replies' = Append(replies, ACK(foepacket))
        ELSE \/ FlushFails(d)
             \/ /\ Len(d) = PacketSize
                /\ flash' = w.flash /\ address_offset' = w.offset
                /\ AckAndGoOn(foepacket, fposition + Len(d), w.rest)
             \/ Len(d) < PacketSize /\ CloseWell(w) /\ AckAndEnd
             \/ /\ Len(d) < PacketSize /\ CloseFails(w) /\ Fault
                /\ FOE_init /\ replies' = Append(replies, ERR("PROGERROR"))

FOE_error == FOE_init /\ UNCHANGED <<foe_file, address_offset, flash, version, replies, faults>>

\* ESC_foeprocess.  A read request is not defined in this build.
ESC_foeprocess ==
  /\ req # Nothing /\ req' = Nothing
  /\ \/ req.op = "wrq" /\ FOE_write
     \/ req.op = "data" /\ FOE_data
     \/ req.op = "err" /\ FOE_error
     \/ /\ req.op = "rrq" /\ FOE_abort("NOTDEFINED")
        /\ UNCHANGED <<foe_file, address_offset, flash, version>>
  /\ UNCHANGED <<ALstatus, master>>

-----------------------------------------------------------------------------
(* The master, one transfer at a time, and the mailbox.                    *)

SlaveOnly == UNCHANGED <<foeVars, flash, ALstatus, version>>

Start(n, pass, size, v) ==
  /\ master.phase # "running" /\ req = Nothing /\ replies = <<>>
  /\ master' = [phase |-> "running", name |-> n, version |-> v, size |-> size,
                sent |-> 0, packet |-> 0, last |-> FALSE]
  /\ req' = [op |-> "wrq", name |-> n, pass |-> pass, version |-> v]
  /\ SlaveOnly /\ UNCHANGED <<replies, faults>>

AskForFile ==
  /\ master.phase # "running" /\ req = Nothing /\ replies = <<>>
  /\ req' = [op |-> "rrq"] /\ SlaveOnly /\ UNCHANGED <<replies, master, faults>>

\* The next packet; the last one is shorter than the others.
SendNext ==
  LET n == Least(PacketSize, master.size - master.sent)
  IN /\ master' = [master EXCEPT !.sent = @ + n, !.packet = @ + 1, !.last = n < PacketSize]
     /\ req' = [op |-> "data", packet |-> master.packet + 1,
                data |-> Value(master.version, master.sent, master.sent + n)]

TakeReply ==
  /\ replies # <<>> /\ req = Nothing /\ replies' = Tail(replies)
  /\ LET r == Head(replies)
     IN IF master.phase # "running" THEN UNCHANGED <<master, req>>
        ELSE IF r.op = "err" THEN master' = Failed /\ UNCHANGED req
        ELSE IF r.packet # master.packet THEN master' = Failed /\ req' = [op |-> "err"]
        ELSE IF ~master.last THEN SendNext
        ELSE master' = [master EXCEPT !.phase = "done"] /\ UNCHANGED req
  /\ SlaveOnly /\ UNCHANGED faults

\* The master gives up for want of an answer or, now and then, of its own
\* accord, with an error packet or without a word.
GiveUp ==
  /\ master.phase = "running" /\ req = Nothing
  /\ IF replies = <<>> THEN UNCHANGED faults ELSE Fault
  /\ master' = Failed /\ replies' = <<>> /\ req' \in {Nothing, [op |-> "err"]}
  /\ SlaveOnly

\* The mailbox stops and starts again, in one state or the other: the master
\* gives up what it was sending, FOEvar stays.
RestartMbx ==
  /\ Fault
  /\ req' = Nothing /\ replies' = <<>> /\ ALstatus' \in {"boot", "preop"}
  /\ master' = IF master.phase = "running" THEN Failed ELSE master
  /\ UNCHANGED <<foeVars, flash, version>>

Next ==
  \/ ESC_foeprocess \/ AskForFile \/ TakeReply \/ GiveUp \/ RestartMbx
  \/ \E n \in Names, pass \in BOOLEAN, size \in FileSizes, v \in Versions : Start(n, pass, size, v)

\* The stack is polled; the master reads its mailbox, gives up on an answer
\* that does not come and tries one file again and again.
Fairness ==
  /\ WF_vars(ESC_foeprocess) /\ WF_vars(TakeReply) /\ WF_vars(GiveUp /\ replies = <<>>)
  /\ SF_vars(Start(Wanted.name, TRUE, Wanted.size, CHOOSE v \in Versions : TRUE))

Spec == Init /\ [][Next]_vars /\ Fairness

-----------------------------------------------------------------------------
Open == foestate = "data"
InSession == IF Open THEN SubSeq(flash[foe_file], 1, address_offset) \o fbuffer ELSE <<>>
Store == INSTANCE FileStore WITH open <- IF Open THEN foe_file ELSE None, taken <- InSession,
                                 MaxPart <- PacketSize

\* The device takes files as FileStore does: what is written and buffered is
\* what was sent, in order and once, however sessions ended before.
TakesInOrder == Store!Spec

\* A file the master has seen through is in the flash, unless it ended with an
\* empty packet and the write that packet causes failed (FOE_data does not look
\* at what FOE_fclose returns there).
DoneIsStored ==
  (master.phase = "done" /\ master.size % PacketSize # 0) =>
    \E f \in Files : /\ IsPrefix(master.name, Table[f].name) /\ Len(flash[f]) >= master.size
                    /\ SubSeq(flash[f], 1, master.size) = Value(master.version, 0, master.size)

\* A file that may be written now is taken in the end, although a session was
\* left open by a master that went away: the request it makes fail closes it.
TakenInTheEnd ==
  LET opened == FOE_fopen(Wanted.name, TRUE)
      fits   == opened.error = "none" /\ Wanted.size <= Table[opened.file].max
  IN <>[]fits => []<>(master.phase = "done" /\ master.name = Wanted.name)
=============================================================================
