# SOES: TLA+ specifications

SOES is an EtherCAT slave stack: a C library (`soes/`) that runs on a small
controller next to an EtherCAT slave controller chip (ESC), and the
applications that use it (`applications/`). This directory holds TLA+ models of
the parts whose correctness depends on the order in which things happen, the
TLC configurations that check them on small instances, and proofs for every
value of the constants.

## 1. Inventory

One thread of the slave runs everything. What makes the program hard is not
threads but the two other parties: the master writes registers of the chip at
any moment, also between two statements of the slave, and the chip answers on
its own (watchdogs, events, mailbox locks). The slave sees them only through
registers it has read, each copy being stale from then on.

| Component | Source | State it keeps | Operations |
|---|---|---|---|
| AL state machine | `soes/esc.c` | AL status and error code, `App.state`, `MBXrun`, SyncManager lengths, the held request for OP | `ESC_state`, `ESC_sm_act_event`, `ESC_ALstatusgotoerror`, `ESC_op_pending_step`, start and stop of mailbox, inputs, outputs |
| Cyclic loops | `soes/ecat_slv.c` | watchdog counters, `hw_wd_state`, the copy `ESCvar.ALevent`, `sm_event_seen` | `ecat_slv`, `ecat_slv_poll`, `ecat_slv_run_dc`, `ecat_slv_worker`, `DIG_process`, `hw_watchdog_check` |
| Sync error counter | `soes/ecat_slv.c` | `synccounter`, `synccounterlimit`, `syncerror` | `ecat_slv_sync0_account` |
| Mailbox link layer | `soes/esc.c` | buffer states, `mbxoutpost`, `mbxbackup`, `txcue`, `toggle`, counters | `ESC_mbxprocess`, `ESC_claimbuffer`, `ESC_xoeprocess` |
| CoE | `soes/esc_coe.c` | segmented transfer (`segmented`, `frags`, `fragsleft`, `data`), the held reply, the staging buffer `mbxdata` | `ESC_coeprocess` and the SDO services, `ESC_SDO_complete` |
| Process data mapping | `soes/esc_coe.c` | `SMmap2`, `SMmap3`, `rxpdo`, `txpdo` | `sizeOfPDO`, `COE_pdoPack`, `COE_pdoUnpack`, `COE_bitsliceGet`, `COE_bitsliceSet` |
| FoE | `soes/esc_foe.c` | session state, packet number, file position, flush buffer | `ESC_foeprocess` |
| EoE | `soes/esc_eoe.c` | the frame in hand either way with its fragment and frame counters, the network settings | `ESC_eoeprocess`, `ESC_eoeprocess_tx` |
| EEPROM emulation | `soes/esc_eep.c` | none of its own: the command register of the chip | `EEP_process` |
| Hardware layer | `soes/hal/linux-lan9252-spidev` | `hw_fault`, GPIO lines, SYNC0 timestamp | `ESC_init`, `ESC_read`, `ESC_write`: registers and process memory over SPI with bounded waits |
| Applications | `applications/` | setpoints, the loop in use | `dc_checker`, process data hooks, main loops |
| Tools | `tools/` | none at run time | dictionary generator and its checks |

How they interact: the loops call everything else, in a fixed order, once per
pass. The state machine starts and stops the mailbox and the process data; the
process data step and the sync error counter report errors back to the state
machine (`ESC_ALstatusgotoerror`); the state machine calls the application to
accept DC (`ESC_checkDC`, `dc_checker`) and to go to its safe state
(`APP_safe_state`). CoE, FoE and EoE share the mailbox buffers and the field
`xoe`, which says who holds the received one. Objects of the dictionary carry
the configuration the state machine reads (`sizeOfPDO`, 0x10F1:02), are read
and written by SDO transfers and by the application, and are what process data
is packed from and unpacked into. Every register and all process data go
through `ESC_read` and `ESC_write` of the hardware layer, each a series of SPI
frames with the chip at work between them; `ALevent` is refreshed as their tail.

What is hard, and which property has to rule it out:

- *Interleaving with the master.* A request, a changed SyncManager and a frame
  may each arrive between any two register accesses. Outputs, error code and
  mailbox must agree with AL status whatever the order
  (`OutputsMatchState`, `ErrorHasReason`, `MailboxMatchesState`).
- *Two loops.* The application picks the free-running or the SYNC0 loop anew
  for each pass; what one loop starts the other may have to finish
  (`OpAnswered`).
- *Latched verdicts.* The hardware watchdog is judged from a state machine of
  its own that must follow the outputs (`EnforcedAfterFirstFrame`,
  `HeldExpiredBounded`).
- *A held request.* Under DC the request for OP stays open for many passes and
  must not outlive the situation it was made in (`PendingIsSafeop`), yet must be
  answered even if the master repeats it (`OpAnswered`).
- *Counting.* The sync error counter adds 3 and subtracts 1 in a 16-bit
  variable (`BurstEndsInError`, `SparseMissesTolerated`, `MissedRunBounded`).
- *Lost answers.* The master may lose the answer to a request it wrote and write
  it again, or lose a reply and ask to have it repeated, while the slave has gone
  on (`AnswersOpenRequest`, `RepliesInOrder`, `RepeatAcknowledged`).
- *Three buffers.* The request, the reply in the mailbox, the backup of the last
  one, replies waiting and a download held back compete for them
  (`BufferAccounting`, `EveryRequestAnswered`); a refused segment even keeps one until
  the mailbox stops.
- *Transfers in pieces.* SDO segments, FoE packets and EoE fragments are moved one
  message at a time with all their state in static variables. A master may give
  up in the middle, the mailbox may restart, the application may write to the
  same object, a write or a reply may fail, and the next transfer starts on what
  is left (`UploadIsTheObject`, `DownloadStored`, `CaObjectsWhole`,
  `TransferEnds`; `TakesInOrder`, `DoneIsStored`, `TakenInTheEnd`;
  `FramesArrive`, `FrameIsSent`, `BuffersConserved`, `SettingsReadBack`).
- *Bits.* Mapped entries begin at any bit and may cross a word or fill it, and the
  master rewrites the mapping between activations (`OutputsArrive`,
  `InputsShown`); out of OP no position, velocity or torque may look
  commanded (`ForgottenOutOfOp`).
- *A bus that fails.* A register access is several SPI frames; the data is read
  ahead of the flag that says whether it is there; any wait may run out and the
  process may be killed between any two frames (`PramIsWhole`, `Answered`,
  `CommandAnswered`, `ProcessReturns`, `KeepsConfiguration`).
- *Silence.* A master that disappears must leave a drive in its safe state
  (`SilenceReachesSafe`).

`PROJECT.json` lists each hazard with its line.

## 2. Plan

1. `ESC`, `SyncError`, `SlaveLoop`: state machine, both loops, watchdogs, DC.
   *Done: modelled, checked, first theorems proved.*
2. `SyncCounter`: the sync error counter at its real width. *Done, proved.*
3. `MbxLink`, `CoE`, `Mailbox`: the mailbox with the CoE dispatch on top: lost
   answers and repeat requests, duplicate requests, buffers running out, a held
   reply; `ReplyChannel`, the abstract channel it implements. *Done: modelled,
   checked; buffers, order, answers and the refinement proved.*
4. `SdoTransfer`: segmented upload and download, Complete Access; what a
   completed transfer has moved is the object. *Done: modelled, checked, all safety
   proved.*
5. `FoE` and `EoE` with their abstract specifications `FileStore` and
   `FrameChannel`. *Done: modelled, checked, all safety and both refinements
   proved.*
6. `BitSlice`, `ProcessData`: mapping, packing and unpacking, the echo and the safe
   state of the drive. *Done: modelled, checked, proved.*
7. `AccessSizes`, `Lan9252`, `Eeprom`: the SPI hardware layer with `ESC_init` and
   the EEPROM commands on top. *Done: modelled, checked, all safety proved.*
8. Theorems. *Done:* every safety property of the runs of `SlaveLoop`, `Mailbox`,
   `SyncCounter`, `SdoTransfer`, `FoE`, `EoE`, `ProcessData` and `Eeprom`.

## 3. Modules

| Module | Content |
|---|---|
| `ESC` | Shared state and one operator per handler of `esc.c`. No next-state relation: everything runs on one thread, called by the loops. |
| `SyncError` | The arithmetic of the counter, used by two modules. |
| `SlaveLoop` | The composition: the passes of both loops over the handlers of `ESC`, process data and watchdogs, with the master and the chip acting between steps. |
| `ReplyChannel` | What the mailbox promises for replies, in three variables. |
| `MbxLink` | The mailbox link layer of `esc.c`: buffers, posting, repeats. One operator per function or branch. |
| `CoE` | What the handlers of `esc_coe.c` do to buffers and replies; `ESC_xoeprocess`. |
| `Mailbox` | The composition: the mailbox step of both loops over `MbxLink` and `CoE`, stop and start, the application that finishes a held download, the master. `Channel == INSTANCE ReplyChannel` is the refinement. |
| `SyncCounter` | The counter on its own, one step per SYNC0 period. |
| `SdoTransfer` | The data of SDO uploads and downloads: expedited, segmented, Complete Access, hooks, a held download, the application at work on the same objects. |
| `FileStore` | What a device that takes files promises, in three variables. |
| `FoE` | The file write service with its flush buffer and the master's side. `Store == INSTANCE FileStore` is the refinement. |
| `FrameChannel` | What either direction of EoE promises, in two variables. |
| `EoE` | Fragments both ways, frame buffers, network settings. Two instances of `FrameChannel`, one for each direction, are the refinement. |
| `BitSlice` | `COE_bitsliceGet` and `COE_bitsliceSet` on words as sets of bits. |
| `ProcessData` | Mapping lists, `sizeOfPDO`, packing and unpacking, `DIG_process`, the mirror and the safe state of the drive. |
| `AccessSizes` | `csr_chunk_size` and `pram_fifo_range`. |
| `Lan9252` | An access of the stack frame by frame: CSR commands, the FIFO of process memory, bounded waits, the latched fault; the chip. |
| `Eeprom` | The composition: `ESC_init`, the poll of `ALevent`, `EEP_process` and process data over `Lan9252`, with a master, faults and restarts of the process. |
| `MCSlaveLoop`, `MCSyncCounter`, `MCSdoTransfer`, `MCFoE`, `MCEoE`, `MCProcessData`, `MCEeprom` | Definitions for the configurations: what the master writes, the objects, files, frames and mappings. |
| `SlaveLoopProofs` | Types; outputs, setpoints, error codes, mailbox, requested state, sync errors, inputs, held requests and the hardware watchdog of `SlaveLoop`, proved. |
| `SyncCounterProofs` | Lemmas on the arithmetic of `SyncError` and proofs about `SyncCounter`. |
| `MailboxProofs` | Buffers, order, answers and the refinement of `Mailbox`, proved. |
| `SdoTransferProofs`, `FoEProofs`, `EoEProofs` | The safety of the transfers, with the refinements of `FileStore` and `FrameChannel`, proved. |
| `ProcessDataProofs` | The slices of `BitSlice`, the wire and the map; outputs, inputs and the safe state of `ProcessData`, proved. |
| `EepromProofs` | The sizes of `AccessSizes`, the shape of every access and the command in the chip; configurations kept, process memory whole and commands answered, proved. |

### State and code

Variables keep the names of the fields they stand for. `events` is the AL event
register of the chip and `ALevent` the copy the slave acts on; the same pair is
`control` and `ALcontrol`. `alState` and `alErr` are the two parts of AL status.
`AppState` is `App.state` as a set. `mailbox` merges `MBXrun` with the settings
`activemb0` and `activemb1` point to. `pdiOff` and `mbxOff` are the SyncManagers
the slave has disabled. `setpoint` is the application: `"applied"` once
`APP_setoutputs` has run, `"safe"` after `APP_safe_state`.

A step of `SlaveLoop` is the code between two looks at the event register.
`pc` says which step of the pass comes next: a free-running pass is `Poll`,
`StateStep`, `SmActStep`, `ProcessData`; a SYNC0 pass is `WaitSync0` (or a
timeout), `ProcessOutputs`, `Sync0Edge`, and the state steps if the captured
events ask for them. The master and the chip act between any two of these.

In the mailbox modules `sm0` and `sm1` are what the two mailboxes of the chip hold,
`MBXcontrol` and `MBX` the buffers (0 for the request), `MBXstat0`, `MBXstat1` and
`ECrep` the copies in `ESCvar.SM`, which are as old as the last read: that is where the
divergence `ReplyOverwritten` below comes from. `ESC_mbxprocess` is five alternatives,
one for each way through it (`OutboxRead`, `RepeatRequest`, `Post`, `ESC_readmbx`,
`LinkQuiet`); what it returns decides whether `pc` goes on to `"coe"` and `"xoe"`.
Within one step the master does not act: the accesses of a step work on one mailbox that
is full or empty throughout, or refresh a copy whose age the model lets grow anyway.

The master keeps `open`, the requests it waits for, and takes a reply whose count
is the last one for a repetition. The session ends with `ESC_stopmbx`, where
`lastGot` (a history variable at that point) takes over the slave's count.

Abstractions. A SyncManager block is what the checks conclude from it: `"std"`,
`"boot"`, `"bad"`, a length, or `BadSM`. A `sizeOfPDO` result is 0, 1 or
`MapError`. Times are counted in SYNC0 periods. A mailbox
message is its number, its kind and the request it is for; the counters of the
header, 3 bits wide, are plain numbers, which is the same while at most one
message per direction is unsure. The state machine of `Mailbox` is only what
starts and stops the mailbox.

`SdoTransfer`, `FoE` and `EoE` stand on what `Mailbox` shows: requests are handled
one at a time and replies arrive in the order they were queued (`req`, `reply`,
`replies`). What may go wrong below them is a reply that finds no buffer and, in
`FoE` and `EoE`, a restart of the mailbox. Contents are units, each the value it
belongs to and its place in it, so that a unit in the wrong place, from another
transfer or of another moment is told apart; nothing else about data is kept. A
unit of `EoE` is 32 octets, the unit of its header. An action of these modules is
one call of the handler: dispatch, service, answer. The master's side (what it
asks for next, when it gives up) is an action of its own and keeps to the protocol.

`ProcessData` keeps words, objects and SyncManager memories as sets of the bits
that are 1. `Wire` lays the entries of the mapping lists one after another as they
are now, `SMmap` is what `sizeOfPDO` made of them: the properties read the wire by
the lists (`Shown`) while the code packs by the map, so a map that is wrong or old
does not agree with itself unnoticed. They are about mappings that are `Regular`:
`sizeOfPDO` accepts others, see section 6.

In `Lan9252` a frame and what is done with its answer are one step, `pc` names the next
frame and `acc` is the access with its loop variables. The chip acts between frames
(`ChipCommand`, `ChipFills`, `ChipDrains`), a frame may fail (`CsrFrameFails`,
`PramFrameFails`) and a wait may find its deadline passed at any time. A killed process
is started again when the chip has done what it was told: no command in it and no words
left to be written. `Eeprom` drives it: `task` says what the access is for, and the
locals of `EEP_process` are `stat`.

### Bounds

`MaxSyncCounter` stops SYNC0 while the counter is above it; the limits used are
far below, so it is reached only when the limit is 0 (the check disabled).
`heldExpired` saturates one above what is tolerated. `OpSyncValid` (200 ms in the
code) is 2 periods, `OpPendingTimeout` (8.1 s) 3 to 6: the order of the two is
what matters, and both outcomes occur. `WatchdogCnt` and `HwWdQuietCycles` are 1
or 2 with the cases 0, 1 and above the limit all reached. Limits of the sync
error counter in the loop are 3 or 4, so that one missed period is tolerated and
two are not; `SyncCounter` has limits 1 to 60 and the proofs have all of them.

`OutBuffers` is 2, as in every build of the repository (`MBXBUFFERS` 3).
`ListFrags` is 2 or 3 mailboxes for the object list: a first, a last, and one in
between. `MaxRequests` 2 or 3, `MaxLosses` 2 and `MaxRestarts` 1 are enough for
every state of a buffer, for two queued replies, for a service that waits for a
buffer and for a reply pushed out by a repeat (`"again"`).

`DistributedClocks` has a master on its way up (`Rising`: it acknowledges nothing
and does not ask for INIT) that may stop for good; DC is on or off once and for all.
That DC may be off and on again between two activations is left to the theorem
`MissedRunsBounded`, which has every order of them. The requests, errors and
acknowledgements the run leaves out are those of `StateMachine`.

`SdoTransfers` has an object for each way of moving one: a byte (expedited, its
download may be held), a string of a first message and one segment that may be
written shorter, and in PREOP only, a record of a first message and two segments
under Complete Access, and a record that Complete Access cannot move because it is
longer than the preallocated buffer (`BufferSize`, `PREALLOC_BUFFER_SIZE` without the
headers). With two written values (`MaxValues`) and the initial one a unit from a
transfer before is told from one of this transfer; `MaxDrops` 1 loses one reply
anywhere; a refused last segment under Complete Access keeps a buffer (`kept`), after
which any reply may find none.

`FileDownload`: packets of 3 units, a flush of 2, files of 2, 6 and 7 units: a packet
fills the buffer once, twice, or leaves a rest in it; a file ends with an empty packet
(6) or with a short one, and two are longer than the place of one name. `MaxFaults` 2 of
failed writes, lost answers and restarts together.

`EthernetFrames`: two frames each way, of two and three fragments, one with a time
stamp of its own fragment; `FrameNos` 4 (16 in the header), so that no number
comes up twice; `Pool` 2 frame buffers run out; `MaxFaults` 2 restarts, the second
in the middle of the frame that follows the first. `queue` holds one frame of the
stack. The settings are three fields in the order of a request: an address (`mac`, which
the device does not mark) and a name in two parts, so that a request may end before any
field, before the name and within it; the proof has any number of fields and parts.
`MaxValues` 3 times a setting is asked for or made by the device before any frame;
`Apart`, a constraint on the steps TLC explores, keeps it to one alongside frames, with
which the settings share nothing but the mailbox and its restarts. It prunes no step
under fairness: none of those sets a value, and a frame is not begun once there were more.

`ProcessImage`: words of 4 bits and bytes of 2, five words. Entries of 2, 3 and 6
bits begin at every bit of a word, cross it, and one is wider than it.
`MaxDownloads` 2 rewrites two lists, so that a mapping changes on one side, on
both, or becomes impossible (an unknown object, more entries than `MaxMappings`) and
possible again; in one an object is mapped twice, before and behind an entry shorter
than its object. The frames are all ones and every third bit. Of the two values the
drive echoes, the safe state clears one, a position that SDO writes as well, and leaves
the other, a mode of operation.

`EepromOverSpi`: a FIFO of two words (16 in the chip), process data of 1 to 9 bytes
beginning at every byte of a word; six EEPROM words with both read sizes; each
command, good and bad address. One command or one move (`MaxRequests`) and one
restart (`MaxRestarts`); faults and timeouts are not counted, as `hw_fault` latches.
The process begins on a chip as powered up or as a process before left it. It is
restarted between two commands of the chip, not while one runs, and the master
configures the chip only while `ESC_init` reads.

## 4. Runs

| Run | Question |
|---|---|
| `StateMachine` | Every request of the master, valid or not, in every state, while it sets SyncManagers up rightly and wrongly: does everything agree with AL status? |
| `HwWatchdog` | A polling slave with the hardware watchdog (as `lan9252_diag`), asked for every state and for state 0: does it trip neither early nor late, and are inputs alive? |
| `DistributedClocks` | The SYNC0 loop with DC on or off: does a held request stay true to the state it was made in, are missed periods bounded, is the request answered in the end, and does silence end in the safe state? |
| `SyncRate` | Does the counter stand for the burst and the rate its comment gives? |
| `Mailbox` | Two requests under way, held downloads, refused segments and object lists, both loops, a restart: is every reply put on its way delivered, and every request answered while there are buffers? |
| `MailboxRepeats` | Requests written twice, reads lost on either way and repeated, malformed and unmatched requests, refused segments: is every buffer accounted for, is any reply taken twice? |
| `SdoTransfers` | Objects of every length and kind, with the application writing to them, transfers given up or ended too early and replies lost: is what was moved the object, and does every transfer end? |
| `FileDownload` | Files in packets that fill the flush buffer more than once, failing writes, abandoned sessions: does the slave take files in order, is what it confirms stored, and can the wanted file always be sent in the end? |
| `EthernetFrames` | Fragments, frame buffers and restarts: do frames arrive whole and in order, is each taken frame sent, does each buffer come back? Requests for settings whole or cut short anywhere, the name among them: does the master read back what it was told is set? |
| `ProcessImage` | Mappings rewritten between activations: does every bit reach its object and every object its place, and does what the safe state clears stay clear out of OP? |
| `EepromOverSpi` | Frames that fail, waits that run out, a process restarted anywhere: is process memory moved whole, are EEPROM commands answered with what was asked, and is the configuration of a master kept? |
| `ReplyOverwritten` | Ends in a violation and shows where the code and its comment differ: section 6. |

Fairness. `FairSpec` assumes weak fairness of the slave's thread as a whole
(the loop of `main` never blocks: its wait is bounded by a timeout, see
`ESC_hw_wait`) and of the chip's watchdog (an unfed watchdog expires). Nothing
is assumed of the master, which may stop for good, nor of SYNC0: when it does not
come the wait times out.

`Mailbox` assumes weak fairness of the slave's thread, strong fairness of the
application's held work (it is looked at in every pass and ends at some point) and
of the master that it keeps reading its mailbox and asks for what it lost:
without that no reply can be promised. It need not write again what it is unsure
of, start a session or ask for anything.

`SdoTransfer`, `FoE` and `EoE` assume weak fairness of their handlers, called in
every pass of the loop, and of the master that it reads its mailbox and gives up an
answer that does not come. `SdoTransfer` also has the application end a held
download. `FoE` has the master try the wanted file again and again (strong fairness
of `Start`): without it nothing is ever taken. `EoE` has the stack give frame
buffers back. `ProcessData` states no fairness.

`Eeprom` assumes weak fairness of the process, of the caller of a move and of the
FIFO, which drains by itself. Of the chip's commands it assumes nothing: they may
never finish, which is what the bounded waits are for.

## 5. Proofs

| Theorem | Statement |
|---|---|
| `SlaveLoopProofs!TypeCorrect` | `Spec => []TypeOK` |
| `SlaveLoopProofs!OutputsFollowState` | `Spec => []OutputsMatchState` |
| `SlaveLoopProofs!SetpointsOnlyInOp` | `Spec => []SetpointOnlyInOp` |
| `SlaveLoopProofs!ErrorsHaveReasons` | `Spec => []ErrorHasReason` |
| `SlaveLoopProofs!MailboxFollowsState` | `WithoutDC` implies `Spec => []MailboxMatchesState` |
| `SlaveLoopProofs!PromotionsRequested` | `WithoutDC` implies `Spec => PromotionIsRequested` |
| `SlaveLoopProofs!MissedRunsBounded` | `Spec => []MissedRunBounded` |
| `SlaveLoopProofs!InputsRun` | `NoAckedOp`, and `SetUpBelowSafeop` or `WithoutDC`, imply `Spec => []InputsAreLive` |
| `SlaveLoopProofs!HeldRequestIsCurrent` | `NoAckedOp`, `SetUpBelowSafeop` imply `Spec => []PendingIsSafeop` |
| `SlaveLoopProofs!WatchdogWaitsForOutputs` | `WithoutDC`, `NoAckedOp` imply `Spec => []EnforcedAfterFirstFrame` |
| `SlaveLoopProofs!WatchdogActsInTime` | `WithoutDC` implies `Spec => []HeldExpiredBounded` |
| `SyncCounterProofs!BurstTolerance` | `Spec => []BurstEndsInError` |
| `SyncCounterProofs!RateTolerance` | `Spec => []SparseMissesTolerated` |
| `MailboxProofs!BuffersAccountedFor` | `Spec => []BufferAccounting` |
| `MailboxProofs!RepliesStayInOrder` | `OutBuffers <= 2` implies `Spec => RepliesInOrder` |
| `MailboxProofs!RepliesAnswerRequests` | `OutBuffers <= 2` implies `Spec => AnswersOpenRequest` |
| `MailboxProofs!MailboxIsAChannel` | `OutBuffers <= 2`, `ReplyLosses = {}` imply `Spec => RepliesArrive` (`ReplyChannel` implemented) |
| `SdoTransferProofs!UploadsAreTheObject` | `Spec => []UploadIsTheObject` |
| `SdoTransferProofs!DownloadsAreStored` | `Spec => []DownloadStored` |
| `SdoTransferProofs!CaObjectsStayWhole` | `Spec => []CaObjectsWhole` |
| `FoEProofs!FilesAreTakenInOrder` | `Spec => TakesInOrder` (`FileStore` implemented) |
| `FoEProofs!FilesSeenThroughAreStored` | `Spec => []DoneIsStored` |
| `EoEProofs!FrameBuffersConserved` | `Spec => []BuffersConserved` |
| `EoEProofs!SettingsAreReadBack` | `Spec => []SettingsReadBack` |
| `EoEProofs!FramesArriveInOrder` | `MaxFaults <= FrameNos`, `Bufs * MaxFaults <= FrameNos` imply `Spec => FramesArrive` (`FrameChannel` implemented twice) |
| `EepromProofs!RegistersInvariant` | `Spec => []RegInv` |
| `EepromProofs!ConfigurationKept` | `Spec => KeepsConfiguration` |
| `EepromProofs!ProcessMemoryIsWhole` | `Spec => []PramIsWhole` |
| `EepromProofs!CommandsAnswered` | `Spec => []Answered` |
| `ProcessDataProofs!DataInvariant` | `Spec => []DataInv` |
| `ProcessDataProofs!OutputsReachObjects` | `Spec => OutputsArrive` |
| `ProcessDataProofs!MasterReadsObjects` | `Spec => InputsShown` |
| `ProcessDataProofs!NoSetpointOutOfOp` | `Spec => ForgottenOutOfOp` |
| `ProcessDataProofs!SliceReadsBack` | what `BitsliceSet` writes `BitsliceGet` reads, wherever it lies |
| `ProcessDataProofs!SlicesAreSeparate` | a slice that does not overlap reads as before |
| `EepromProofs!ChunksAreAligned` | a chunk is 1, 2 or 4 bytes at an address it divides, and no longer than what is left |
| `EepromProofs!FifoWaitIsSatisfiable` | the words waited for are at least one, and no more than the FIFO and the transfer have |

They use the named assumptions on the constants and the hypotheses the table gives,
so they hold for every alphabet of the master, every limit and watchdog setting,
every number of buffers, objects, files, frames and losses, every size of an object,
a packet, a fragment or a word. The inductive invariants named below were checked by
TLC on the instances of the runs before they were proved.

`TypeCorrect` is by cases on the actions, one lemma per handler. The counter is
the part that is not routine: it stays an `int16_t` because `Stored` is the cast.

`OutputsFollowState` is inductive on its own: a step either leaves the outputs
and the state alone, or goes through `GotoError`, `StopOutput`, or a transition
that sets both. `SetpointsOnlyInOp` rests on it: a setpoint is applied only where
`OutputsOn` holds, hence in OP, and every step that leaves OP calls the safe
state; `ESC_stopinput` alone, which does not, is used only outside OP.

`ErrorsHaveReasons` is inductive on its own: `Reach`, `Refuse` and `GotoError` are
the only ways to write the error bit or the code, each writes both, and the codes
they are given are reasons (`ReasonsGiven`).

`MailboxFollowsState` and `PromotionsRequested` have the hypothesis `WithoutDC`: DC
is not configured, or the master never activates it. It is needed, for under DC a
sync error in INIT or PREOP raises AL status to SAFEOP (section 6). Without DC
there is never a SYNC0 pass or a held request (`Freerun`, inductive), so AL status
changes only in a transition, where a rise goes to the state asked for, in a step
down of `ESC_sm_act_event`, which stops the mailbox when it goes to INIT, and when
a watchdog trips with the outputs on, which by `Consistent` is in OP.

`MissedRunsBounded` is the claim of `BurstTolerance` inside the loop, where between
two periods anything may happen to the limit, the state and the outputs. The
invariant `Counted` is `3 * missedRun <= synccounter`, and
`synccounter <= synccounterlimit` while outputs are on under DC with a limit. The
second part survives because DC is accepted, and the limit replaced, only on the
way to SAFEOP with the outputs off; because a request for OP starts the outputs at
once only when DC is off; and because the held request starts them only at an edge
whose count has just been compared. The theorem has the bound of the model: no
SYNC0 pass begins with a counter above `MaxSyncCounter` (at most 32000), so it says
nothing of a counter that has wrapped.

`InputsRun` and `HeldRequestIsCurrent` have hypotheses on the master: `NoAckedOp`
(no request for OP that acknowledges an error in the same write) and
`SetUpBelowSafeop` (no SyncManager is changed in SAFEOP or OP). The masters of
`HwWatchdog` and `DistributedClocks` keep to both. Each is needed: with an
acknowledging request OP is reached without inputs, and under DC a step down leaves
the held request behind, which later reaches OP from where the slave then is (section
6). Without DC nothing is held, and `InputsRun` needs the first hypothesis only
(`Running`). Under DC the invariant is `Live`. Inputs and the held request can only be
undone by a change event that `ESC_sm_act_event` acts on, so it says of each such
event that it is seen: while SAFEOP or OP is shown without error the SyncManagers 2
and 3 are right, and so is the mailbox, or no change is waiting (`MbxSettled`), except
within the pass that has just captured one; and a change that the slave's copy
`ALevent` has is still in the chip.

`WatchdogWaitsForOutputs` rests on `Enforced`: while the verdict is `"RUNNING"` the
outputs are on and applied, or they are off and the slave is in error or still in the
pass that took them down, whose own check will find them off. This is what the
hypotheses are for: without DC each pass checks, and without an acknowledged request
for OP no single pass brings outputs back from an error. `WatchdogActsInTime` holds
for every master without DC. It rests on `Overdue`: the passes since the expiry are no
more than the quiet passes counted, and one more within a pass, as a pass that found
no SM2 event cannot have reset the count.

`BuffersAccountedFor` has no hypothesis. It does not say that every buffer comes back:
those a refused segment keeps do not until the mailbox stops, and they are counted
(`outclaim`). Without such requests there are none. `IInv` adds to the accounting that the
request in buffer 0 is of a kind its protocol can finish (`RequestKept`,
`RequestSeen`, `RequestWritten`), that a stopped mailbox holds nothing (`Stopped`),
and `PostedIsKnown`: while a reply is posted the link layer sees a full mailbox or
has the event of its read still ahead. Without it a second reply could be posted over
the first.

`RepliesStayInOrder` adds the numbers of the replies (`OrderInv`): those waiting leave
from the highest buffer down and are numbered so, all of them above the one posted
and the backup; what is in the mailbox is one of these two; a repeat is only ever
asked for when the reply repeated is not older than the last one taken: once the
master has taken a reply above the backup, it asks for nothing until the slave has
seen that read (`PostOrdered`). With three reply buffers it is false, as replies
overtake each other, hence `OutBuffers <= 2` (`MBXBUFFERS` is 3 in every build: one
for the request, two for replies).
`MailboxIsAChannel` further has no lost reply (`ReplyLosses = {}`: it is false
otherwise, see `ReplyOverwritten`). A reply is waiting (`Due`) while a buffer holds it
and the master has not got it; a buffer that a refused segment keeps was never asked to
be posted and is not among them. The invariant is `NothingLost`: no
repeat is asked for, the master has the backup, and the reply posted is in the chip
unless the master has that one too. Every step then maps to a step of
`ReplyChannel` or leaves its variables alone.

`RepliesAnswerRequests` follows a request from the master to its last answer
(`AnswerInv`). What the slave has read is numbered up to `mbxincnt`, and the master
writes again only its last request, so one number tells a repetition from a new
request (`RequestsNumbered`). A request on its way, in buffer 0, held or answered is
one the master waits for (`OpenKept`), and once its last reply is made it is nowhere at
work and no other reply to it is newer (`AnsweredOnce`); so when the master takes that
reply and closes the request, none to it is left to be taken. Malformed requests are
excepted: a bad header is answered each time it is read, and a request too short to be
CoE by two handlers. It rests on the order of the replies and so has its hypothesis.

The three theorems of `SdoTransferProofs` share `SdoInv`. It is about the transfer
from both ends at once: for every stage (asked, first answer, next segment,
confirmed, given up) what has been moved so far, and where `data`, `frags` and
`fragsleft` of the slave stand (`Reading`, `Writing`). It must say nothing of these
variables when no transfer runs, since they outlive one given up: that the next
request sets every one it will use is what the proof shows. For objects moved by
Complete Access it rests on the size checks at `esc_coe.c:702` and `:1075`
(`BufferSize`): without them a long object would run over the end of `mbxdata`.

`FoeInv` does the same for a file: between the two ends there is a request, a packet,
an acknowledgement or a refusal (`Asked`, `PacketSent`, `Acknowledged`, `Refused`), and
the flushed part with the flush buffer is the file up to there (`InStep`). A lost
answer leaves the device one packet ahead of a master that will give up, so the
invariant has a master in step only where an answer is under way.

`FramesArriveInOrder` is the refinement of `FrameChannel` in both directions. Going
down, what is being put together is the beginning of a frame already begun by the
master (`Receiving`); the fragment on its way may be joined to it only if frame number,
fragment number and offset agree (`SameFrame`). Frame numbers come round, so a frame
cut short by a restart could be completed by one `FrameNos` later: each frame between
the two costs a restart (`Restarts`), so with no more restarts than numbers this
cannot happen. Going up the replies waiting are consecutive fragments (`InSequence`),
and one restart loses at most `Bufs` of them (`Expected`), hence the second hypothesis.
With 16 numbers and two reply buffers the theorem covers every execution with up to
eight restarts. The bound is that of the model (`MaxFaults` counts all restarts); what
could go wrong beyond it is a frame cut short that waits while exactly sixteen others
are lost.

`SettingsAreReadBack` follows a value from the request to the answer (`AnswerHolds`).
What the master knows (`known`) is kept for each field on its own, the value asked for
and whether the master was told that it is set: an answer confirms the fields of its
own request that it carried, and not one that a later request has asked to change. A
name is a field for each of its parts.

`FrameBuffersConserved` needs to know which frame is in hand (`InHand`): a buffer is
given back at the last fragment only, so `txframeoffset` must not be left over from
another frame.

`BurstTolerance` needs `3 * missedRun <= synccounter`: a run of missed periods
has added 3 each, whatever was there before. `RateTolerance` needs that the
counter is at most 3 minus the served periods since the last miss, which is why
three of them are enough.

The theorems of `EepromProofs` follow an access frame by frame, for every EEPROM,
every set of commands and of process data accesses, every size of the FIFO, and any
number of faults and restarts. They assume `EepromAssumption` (an access is not empty
and stays within process memory, a command has three bits) and `Lan9252Assumption`.

`RegInv` is what they share. `Shape` says for each task where its access can stand:
which chunk, how many words read so far, or on the four bytes of AL event behind it.
`CommandShape` and `Handshake` say what the chip holds: from the frame that sends a
command until its answer is taken it is the command of this chunk (`Mine`), and data
is taken only when it is not busy. A command that was given up because of a fault or a
restart is still in the chip: `PendingKind` says which write can be left behind by
whom. It rests on the latched fault: a process that gave up a write sends nothing more
until it is started again, and it is not started again before the chip is done.

`ConfigurationKept` adds `OlderKept`: nothing takes a configuration back before the
reset is decided, so what `ESC_init` has read so far agrees with the registers, and one
of its four reads finds it. The property excepts a bus that has failed, since a failed
read returns zeros.

`ProcessMemoryIsWhole` adds `MoveInv`. `Through` is what the process has moved,
`NextWord` where its next word begins (on a word boundary once the access is aligned),
`fifo.at` where the chip stands, and `TransferLeft` that both go to the same end. In a
read, the words in the FIFO are the memory from `NextWord` on (`InFront`) and what was
read is the memory before it. In a write, the words in the FIFO are the words of
the caller behind what the chip has laid down (`Following`), and memory is what it was
with that part laid down (`Laid`). Before a transfer the FIFO holds nothing to be
written (`Emptied`).

`CommandsAnswered` adds `EepromInv`, which says of the command of the master how far it
has come: it is in the registers while busy (`Outstanding`); the status read is that
of this command or of one that was over (`StatusRead`); the data written so far is
what was asked (`DataRead`); the word to be stored is the one in the data register
(`WordTaken`); an acknowledgement about to be sent, or left in the chip, is the answer
(`Acknowledging`, `PendingInv`). A restart in between leaves a command outstanding, and
it is served again: the invariant has to say nothing of how often.

The three properties of `ProcessData` rest on `DataInv`: lists stay lists (`ListsKept`);
while inputs are exchanged the map is that of the lists as they are (`MapCurrent`),
since a master may write lists in PREOP only and every way to SAFEOP makes the map anew;
the types of what a pass reads (`DataTyped`); and the actual values that the safe state
clears are clear out of OP (`Forgotten`). What a pass does is then a matter of places.
`WireIs`: bit `k` of entry `j` comes at the offset of `j`, plus `k`, and nothing else
does, so `ShownIs` reads an entry of the wire as a range of the memory. One entry packed
or unpacked is that range of the bitmap (`At` names a bit of the bitmap by its place,
whatever word it is in), whether the code copies it as a slice or from byte to byte. For
outputs, an object holds after `i` entries what the last of its entries up to `i` gave
it. For inputs, the ranges of two entries lie apart because offsets grow
(`OffsetsGrow`), so packing the later ones leaves the earlier ones as they are.
`Regular` is a hypothesis inside the properties and leaves out what `sizeOfPDO` does not
check (section 6). `ForgottenOutOfOp` follows from `InputsShown` and `Forgotten`.

`SliceReadsBack` and `SlicesAreSeparate` say bit by bit which bits of which word a
slice is (`Within`): a bit of the lower word is moved up and back down, one of the
upper word down and back up, and the mask keeps the rest. `ChunksAreAligned` is
by cases on the remainder of the address; `FifoWaitIsSatisfiable` is the rounding
up of bytes to words.

Where a proof needs an induction it takes the least number for which the claim fails
(`WFMin` of the library, for the order of `Nat`); the induction theorems themselves
take an operator as parameter and cannot be used.

Only model-checked is liveness, which is out of reach of the prover: `OpAnswered`,
`SilenceReachesSafe`, `EveryRequestAnswered`, `RepeatAcknowledged`, `TransferEnds`,
`TakenInTheEnd`, `FrameIsSent`, `ProcessReturns` and `CommandAnswered`. Every safety
property of the passing runs is stated by one of the theorems.

## 6. Where code and documents differ

Shown by a run:

- `ReplyOverwritten`: a repeat request is served with the backup while the next
  reply is queued; the copy of the SyncManager status is not read again, so the
  next pass "posts" that reply into a full mailbox and it is lost. One lost answer
  during an object list is enough (`esc.c:624`, comment at 565).

Seen while modelling, without a run of their own. State machine and loops:

- A SyncManager changed in SAFEOP while OP is pending takes the slave to PREOP with
  error and leaves `op_pending` set (`esc.c:1003`; `docs/stack-review.md:492` says
  "any other request, an error, or DC turned off ends it"). The master of
  `DistributedClocks` sets its SyncManagers up in INIT only.
- Under DC with the sync error limit at 0 an expired hardware watchdog is not
  looked at while no frame comes (`ecat_slv.c:632`; the comment at 279 says
  "detection is late by at most this many cycles"). `SilenceReachesSafe` is
  checked with a limit of 3.
- With `force_freerun` and DC active a held request for OP is never answered:
  only `ecat_slv_run_dc` steps it (`docs/stack-review.md:494` says it is refused).
- The verdict of the hardware watchdog survives when outputs go down and up between
  two checks: the trip at the end of a pass and a request for OP that acknowledges it,
  handled in the next (`ecat_slv.c:318`, comments at 259 and 304). Under DC, where the
  check runs on events only, a request is enough that comes without a frame.
  `EnforcedAfterFirstFrame` is checked and proved without either: the slave polls and
  the master does not acknowledge an error together with a request for OP.
- `dcsync` is cleared only on the way to SAFEOP, so the SYNC0 loop and its count run on
  in INIT and PREOP, where a sync error *raises* AL status to SAFEOP with error
  (`ecat_slv.c:252`, 652; comments at `ecat_slv.c:211` and `esc.h:556` speak of a drop).
  `PromotionIsRequested` is checked and proved without DC.
- A limit above 32768 is never passed, as the 16-bit counter wraps negative before
  (`ecat_slv.c:240`; `esc.h:545`, and `docs/measurements.md:42` has 60000).
  `BurstEndsInError` and `SparseMissesTolerated` are about limits up to 32767.
- `syncerror` is not cleared when DC is accepted again without having been off
  (`esc.h:555` says it is cleared when DC is reactivated).
- With the limit at 0 the counter is never compared, and wraps after 10923 missed
  periods; a limit set at the next activation starts from a negative count
  (`ecat_slv.c:242`).
- With the hardware watchdog disabled by the master the software counter is not
  reloaded while outputs are inactive, so OP may start with what an earlier OP
  left of it (`ecat_slv.c:320`).
- With a sync error limit and no process data a request for OP is refused as out
  of step rather than for missing process data.
- A request with state 0 in SAFEOP stops the inputs (`esc.c:1331`); acknowledged
  together with a request for OP it reaches OP without them
  (`doc/tutorial.txt:230` has inputs updated from SAFEOP on).

Mailbox:

- `ESC_SDO_complete` clears `sdo_held` before it asks for a buffer; when there is
  none the reply is dropped for good (`esc_coe.c:311`; `esc_coe.h:128` "Send the
  reply to the download held back").
- A mailbox step that a repeat request pushed a reply out of (`"again"`) leaves
  the same stale status behind: a further reply is lost the same way.
- In the SYNC0 loop a repeat request that arrives together with the event of the
  read it repeats is not served until the next event: the step handles the read
  and returns, and the next pass sees neither event nor queued reply
  (`RepeatAcknowledged` fails with `Loops = {"dc"}`).
- A repeat request before the first reply of a session was read writes buffer 0,
  the request, as the reply (`esc.c:635`).
- An SDO request no branch of the dispatch takes, such as an abort by the master,
  leaves `xoe` set and buffer 0 claimed: no request is read any more until the
  mailbox restarts (`esc_coe.c:1619`; comment at 1528 "On Error an MBX_error or
  SDO Abort will be sent").
- A CoE message shorter than its header is answered twice, by `ESC_coeprocess` and
  by `ESC_xoeprocess`; a bad mailbox header each time it is read, as the check for
  repetitions comes after it. `AnswersOpenRequest` leaves both out.
- With more than two reply buffers replies can overtake each other:
  `ESC_outreqbuffer` takes the highest, not the oldest.
- An SDO request that finds no buffer is dropped without an answer
  (`MaxOpen` above 2 reaches it).

SDO transfers:

- An upload given up between segments leaves `segmented` set; a following expedited
  upload, which does not reset it, then skips its post hook.
- The object list counts its mailboxes in `frags` and `fragsleft`, those of a
  segmented transfer: asked for between two segments it moves the transfer. The
  master modelled asks between transfers.
- `SDO_downloadsegment` claims the buffer for its response first (`esc_coe.c:1133`). A
  last segment under Complete Access that comes too early, or whose object is not
  found, is refused with an abort in another buffer (1157-1160, 1166-1169): the first
  one stays claimed until `ESC_stopmbx`, and `txcue` one too high with it. Two such
  segments, or one and the backup, leave a slave with two send buffers without any for
  a reply until the master asks for INIT, and with `txcue` above 0
  `ecat_slv_worker` (`ecat_slv.c:476`, not modelled) would not leave its loop. The
  models have it (`RefuseSegment`, `kept`): `BufferAccounting` counts these buffers,
  `EveryRequestAnswered` excepts a session that has one. `segmented` stays set as well.
- A download of a string shorter than the object that a hook refuses has zeroed the
  tail already; one longer than the object gives `memset` a negative length.
- A Complete Access download passes over an entry that may no longer be written and
  reports success: `DownloadStored` leaves these objects out.
- Aborts of a segment take their index from the request, which has none.

FoE:

- For an empty last packet `FOE_data` does not look at what `FOE_fclose` returns
  and acknowledges the file (`esc_foe.c:462`). `DoneIsStored` leaves these out.
- When a flush in the middle of a full packet fails, an error and an
  acknowledgement are both sent.
- The name of a file is compared up to the length the master gives: a prefix opens
  the file.
- Whether a boot file may be written is decided when it is opened; the session
  survives a restart of the mailbox, also out of BOOT (`esc_foe.c:79`).
- The first write request after an abandoned session is refused; it also closes
  the session, so the second is taken (`TakenInTheEnd`).

EoE:

- `EOE_ecat_set_mac` does not mark the address as set.
- A SET request that turns out too short has been stored as far as it went, and what
  it lacks is taken from beyond its end (`esc_eoe.c:705`).
- One that ends within the DNS name is not too short: the name is cut to what is left,
  copied over the one there is, whose rest stays, and confirmed (`esc_eoe.c:694-703`).
  A shorter name therefore reads back with the tail of the old one. `SettingsReadBack`
  is about the parts of a name a request carried.
- The length of a frame is not compared with the size `get_buffer` returns.
- `ESC_eoeprocess` of a request comes before `ESC_eoeprocess_tx` in each pass: a
  master that keeps asking keeps frames of the device waiting.
- Without `free_buffer` the last fragment would be sent again and again.

Process data:

- `sizeOfPDO` does not compare the length of a mapping entry with that of its
  object: offsets count the one, packing uses the other (`esc_coe.c:209`). Nor does
  it compare the size it returns with `rxpdo` and `txpdo`. `Regular` leaves both out.
- An object of more than 64 bits mapped off a byte boundary is copied to the byte
  before it, over its neighbour (`esc_coe.c:1922`): `Regular` leaves these out.
- Padding of the inputs keeps the bits an older mapping had there.
- `app_safe_state` clears the setpoints and actual values of position, velocity and
  torque; `ModesOfOperationDisplay`, which `cb_apply_rxpdo` echoes as well
  (`main.c:208`), keeps the mode last commanded. `Cleared` names the actual values
  the safe state clears, and `ForgottenOutOfOp` is about those.
- A PDO in 0x1C12 or 0x1C13 that is not in the dictionary is passed over in silence.

Hardware layer and EEPROM:

- A bus fault while `EEP_process` serves a write reads zeros for the address and the
  data and stores them, at address 0, where they stay (`esc_hw.c:692`).
- `ESC_init` resets the core when the registers it reads are zero: a fault among
  those reads looks the same, and a master that configures the chip between the
  reads and the reset loses its configuration (`esc_hw.c:1018`; comment at 994).
  `KeepsConfiguration` is about a configuration older than the reads, without
  faults.
- After a fault in the middle of an access its other chunks and the tail still use
  the bus; the AL event register is then taken from what they return.
- `ESC_read_pram` leaves the buffer as it was on a fault, register reads zero it.
- No application of the repository calls `EEP_process` on this hardware layer, nor
  enables FoE or EoE.

## 7. Not modelled

- *Generated dictionaries* (`applications/cia402_drive/generated`, more than half of
  the lines of the repository): tables without behaviour. What the stack does with
  entries of every kind is in `SdoTransfer` and `ProcessData`.
- *Bits within Complete Access* (`complete_access_subindex_loop`): entries of one bit
  and padding inside a record are packed with the shifts of `BitSlice`, but where
  an entry is write-only or crosses a byte the reply keeps bits that were in the
  mailbox before. `SdoTransfer` moves whole units.
- *SDO information*: who answers, in how many mailboxes and with which buffer is in
  `CoE`; the text of descriptions is formatting.
- *The read service of FoE* is compiled out (`FOE_READ_SUPPORTED`).
- *GPIO* (`ESC_hw_wait`, at most eight edges coalesced, and the reset pulse), opening
  the device and the SPI statistics: `WaitSync0` takes from them that a wait ends
  with SYNC0 or with its timeout.
- Transfers of a master that does not keep to the protocol, other than a download under
  Complete Access ended too early and those named in section 6.
- `ecat_slv_worker`, which no application calls; the state change hooks, which only
  print; `rtl_xmc4_dynpdo`, an application of another port; the measurements of
  `lan9252_diag`; the generator and the bench tools, which are not part of the slave.
