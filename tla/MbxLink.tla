------------------------------ MODULE MbxLink ------------------------------
(***************************************************************************)
(* The mailbox link layer of soes/esc.c: the buffers, the two mailbox      *)
(* SyncManagers, posting of replies, requests that arrive twice and        *)
(* replies the master asks to have repeated.                               *)
(*                                                                         *)
(* One operator per function; the protocols above are CoE.tla, the loop    *)
(* that calls them and the master are Mailbox.tla.                         *)
(*                                                                         *)
(* Abstractions.  A message is what the master or the slave tells apart:   *)
(* a request by its number and kind, a reply by its number, the request it *)
(* is for and whether more replies to that request follow.  Counters that  *)
(* wrap from 7 to 1 in the header are plain numbers here.  A SyncManager   *)
(* holds one message: full, it refuses another; read, it is empty.         *)
(***************************************************************************)
EXTENDS Integers, FiniteSets, FiniteSetsExt

CONSTANT OutBuffers       \* MBXBUFFERS - 1: buffer 0 is for the request

ASSUME LinkConstantsAssumption == OutBuffers \in Nat \ {0}

OutBufs == 1 .. OutBuffers
NoMsg   == [id |-> -1]                      \* an empty mailbox

VARIABLES
  \* The chip.
  sm0, sm1,           \* the message in the receive and in the send mailbox
  ecrep, pdirep,      \* repeat request of the master and its acknowledgement
  events,             \* AL event request register
  \* ESCvar, MBX and MBXcontrol.
  ALevent,
  MBXrun,
  MBXstat0, MBXstat1, \* SM[0].MBXstat, SM[1].MBXstat as last read
  ECrep,              \* SM[1].ECrep as last read
  toggle, mbxfree,
  MBXcontrol,         \* buffer -> its state
  MBX,                \* buffer -> the message in it
  mbxoutpost, mbxbackup, txcue, mbxincnt, mbxcnt,
  xoe                 \* "none", "CoE" or "ODL": who works on buffer 0

chipVars == <<sm0, sm1, ecrep, pdirep>>
statVars == <<MBXstat0, MBXstat1, ECrep>>
bufVars  == <<MBXcontrol, MBX, txcue, mbxcnt>>
postVars == <<mbxoutpost, mbxbackup, mbxfree, toggle>>
linkVars == <<chipVars, events, ALevent, MBXrun, statVars, bufVars, postVars,
              mbxincnt, xoe>>

-----------------------------------------------------------------------------
(* Buffers.                                                                *)

InState(st) == {n \in OutBufs : MBXcontrol[n] = st}

\* The highest of a set of buffers, 0 for none.
Highest(S) == IF S = {} THEN 0 ELSE Max(S)

LowestOutreq == IF InState("outreq") = {} THEN 0 ELSE Min(InState("outreq"))  \* mutant

ESC_claimbuffer == Highest(InState("idle"))
ESC_outreqbuffer == Highest(InState("outreq"))

\* Buffer 0 with the request is given back.
Released == [MBXcontrol EXCEPT ![0] = "idle"]

\* A reply to request `to' is put in a claimed buffer and asked to be posted;
\* `more' tells that it is not the last one.  Without a free buffer there is no
\* reply.  control and content: the buffers at that point.
QueueReply(control, content, to, more) ==
  LET n == ESC_claimbuffer
  IN  IF n = 0
      THEN MBXcontrol' = control /\ MBX' = content /\ UNCHANGED <<txcue, mbxcnt>>
      ELSE /\ MBXcontrol' = [control EXCEPT ![n] = "outreq"]
           /\ MBX' = [content EXCEPT ![n] = [id |-> mbxcnt + 1, to |-> to, more |-> more]]
           /\ txcue' = txcue + 1 /\ mbxcnt' = mbxcnt + 1

-----------------------------------------------------------------------------
(* Starting and stopping.                                                  *)

ESC_stopmbx ==
  /\ MBXrun' = FALSE
  /\ MBXcontrol' = [n \in 0 .. OutBuffers |-> "idle"]
  /\ mbxoutpost' = 0 /\ mbxbackup' = 0 /\ mbxfree' = TRUE /\ toggle' = FALSE
  /\ txcue' = 0 /\ mbxincnt' = 0 /\ xoe' = "none"
  /\ sm0' = NoMsg /\ sm1' = NoMsg
  /\ UNCHANGED <<MBX, mbxcnt, ecrep, pdirep>>

\* The repeat toggle is taken over from the master, not answered.
ESC_startmbx ==
  /\ MBXrun' = TRUE
  /\ MBXstat0' = (sm0 # NoMsg) /\ MBXstat1' = (sm1 # NoMsg) /\ ECrep' = ecrep
  /\ toggle' = ecrep /\ pdirep' = ecrep
  /\ UNCHANGED <<sm0, sm1, ecrep, bufVars, mbxoutpost, mbxbackup, mbxfree, mbxincnt, xoe>>

-----------------------------------------------------------------------------
BackupKept(n) == IF n = mbxoutpost THEN "backup" ELSE MBXcontrol[n]  \* mutant of AfterRead
RepeatIfPosted == ECrep # toggle /\ mbxoutpost # 0                   \* mutant of RepeatAsked
NeverRepeated == FALSE                                               \* mutant of Repeated

(* ESC_mbxprocess.  It refreshes the SyncManager status on a mailbox event, *)
(* and every access reads the event register with it.                      *)

Refreshes == ALevent \cap {"SM0", "SM1"} # {}
Seen  == IF Refreshes THEN events ELSE ALevent
Full0 == IF Refreshes THEN sm0 # NoMsg ELSE MBXstat0
Full1 == IF Refreshes THEN sm1 # NoMsg ELSE MBXstat1

\* ESC_writembx: a full mailbox keeps what it holds; writing its first byte
\* takes back the event that it was read.
Written(n) == IF sm1 = NoMsg THEN MBX[n] ELSE sm1

\* Of a buffer when the posted reply was read.
AfterRead(n) == CASE n = mbxoutpost           -> "backup"
                  [] n = mbxbackup /\ n # 0   -> "idle"
                  [] OTHER                    -> MBXcontrol[n]

\* The posted reply was read: it becomes the backup; a reply a repeat request
\* pushed out of the mailbox is written again.
OutboxRead ==
  /\ mbxoutpost # 0 /\ "SM1" \in Seen
  /\ LET again == MBXcontrol[mbxoutpost] = "again"
     IN  /\ sm1' = IF again THEN Written(mbxoutpost) ELSE sm1
         /\ mbxfree' = ~again
  /\ MBXcontrol' = [n \in 0 .. OutBuffers |-> AfterRead(n)]
  /\ mbxbackup' = mbxoutpost /\ mbxoutpost' = 0
  /\ events' = events \ {"SM1"} /\ ALevent' = events'
  /\ MBXstat0' = Full0 /\ MBXstat1' = Full1
  /\ UNCHANGED <<sm0, ecrep, pdirep, ECrep, MBX, txcue, mbxcnt, toggle, mbxincnt, xoe>>

RepeatAsked == ECrep # toggle

\* The master asks for the last reply once more.  A reply posted since is taken
\* out of the mailbox to be sent later.
RepeatRequest ==
  /\ ~(mbxoutpost # 0 /\ "SM1" \in Seen)
  /\ RepeatAsked
  /\ IF mbxoutpost = 0 /\ mbxbackup = 0
     THEN /\ UNCHANGED <<sm1, pdirep, events, MBXcontrol, mbxfree, toggle>>
          /\ ALevent' = Seen
     ELSE /\ sm1' = IF mbxoutpost # 0 THEN MBX[mbxbackup] ELSE Written(mbxbackup)
          /\ MBXcontrol' = IF mbxoutpost = 0 THEN MBXcontrol
                           ELSE [MBXcontrol EXCEPT ![mbxoutpost] = "again"]
          /\ mbxfree' = FALSE
          /\ toggle' = ECrep /\ pdirep' = ECrep
          /\ events' = events \ {"SM1"} /\ ALevent' = events'
  /\ MBXstat0' = Full0 /\ MBXstat1' = Full1
  /\ UNCHANGED <<sm0, ecrep, ECrep, MBX, txcue, mbxcnt, mbxoutpost, mbxbackup, mbxincnt, xoe>>

LinkIdle ==
  /\ ~(mbxoutpost # 0 /\ "SM1" \in Seen)
  /\ ~RepeatAsked

MayPost == txcue > 0 /\ (mbxfree \/ ~Full1) /\ ESC_outreqbuffer # 0

\* The next reply is posted, and the status of SM1 read once more.
Post ==
  /\ LinkIdle /\ MayPost
  /\ LET n == ESC_outreqbuffer
     IN  /\ sm1' = Written(n)
         /\ MBXcontrol' = [MBXcontrol EXCEPT ![n] = "outpost"]
         /\ mbxoutpost' = n
  /\ mbxfree' = FALSE /\ txcue' = txcue - 1
  /\ events' = events \ {"SM1"} /\ ALevent' = events'
  /\ MBXstat0' = Full0 /\ MBXstat1' = TRUE
  /\ UNCHANGED <<sm0, ecrep, pdirep, ECrep, MBX, mbxcnt, mbxbackup, toggle, mbxincnt, xoe>>

MayRead ==
  LinkIdle /\ ~MayPost /\ Full0 /\ MBXcontrol[0] = "idle" /\ mbxoutpost = 0 /\ xoe = "none"

Repeated == sm0.id = mbxincnt        \* the request read before has come again

\* A request is taken from its mailbox: dropped with an error reply when its
\* header is bad, dropped when it is the one before, else kept for a protocol.
ESC_readmbx ==
  /\ MayRead
  /\ sm0' = NoMsg
  /\ LET content == [MBX EXCEPT ![0] = sm0]
     IN  IF sm0.kind = "badheader"
         THEN QueueReply(Released, content, sm0, FALSE)
         ELSE /\ MBXcontrol' = [MBXcontrol EXCEPT ![0] = IF Repeated THEN "idle" ELSE "inclaim"]
              /\ MBX' = content
              /\ UNCHANGED <<txcue, mbxcnt>>
  /\ mbxincnt' = sm0.id
  /\ events' = events \ {"SM0"} /\ ALevent' = events'
  /\ MBXstat0' = FALSE /\ MBXstat1' = Full1
  /\ UNCHANGED <<sm1, ecrep, pdirep, ECrep, postVars, xoe>>

\* Nothing to post and nothing to read.
LinkQuiet ==
  /\ LinkIdle /\ ~MayPost /\ ~MayRead
  /\ ALevent' = Seen
  /\ MBXstat0' = Full0 /\ MBXstat1' = Full1
  /\ UNCHANGED <<chipVars, events, ECrep, bufVars, postVars, mbxincnt, xoe>>

=============================================================================
