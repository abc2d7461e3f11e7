------------------------------ MODULE Mailbox ------------------------------
(***************************************************************************)
(* The mailbox of a slave and its master: the mailbox step of a pass of    *)
(* ecat_slv_poll or ecat_slv_run_dc over the link layer of MbxLink.tla and *)
(* the handlers of CoE.tla; the requests for INIT and PREOP that stop and  *)
(* start it; an application that finishes a held download; a master that   *)
(* reads its answers, or loses one and asks to have it repeated.           *)
(*                                                                         *)
(* Of the state machine only what starts and stops the mailbox is here,    *)
(* the rest is ESC.tla.  The process data of a pass is SlaveLoop.tla.      *)
(***************************************************************************)
EXTENDS CoE

CONSTANTS
  Loops,              \* the loops the application runs: "poll", "dc"
  \* The master.
  Kinds,              \* what it asks for
  MaxOpen,            \* requests without an answer it may have at a time
  ReplyLosses,        \* where its reads are lost: on the way "there", "back"
  MaxRequests,        \* bounds
  MaxLosses,
  MaxRestarts

ASSUME MailboxConstantsAssumption ==
  /\ Loops \subseteq {"poll", "dc"} /\ Loops # {}
  /\ Kinds \subseteq {"badheader", "foreign", "short", "service", "hold", "refused", "other",
                      "info", "list", "unmatched"}
  /\ MaxOpen \in Nat /\ MaxRequests \in Nat /\ MaxLosses \in Nat /\ MaxRestarts \in Nat
  /\ ReplyLosses \subseteq {"there", "back"}

VARIABLES
  pc,                 \* the next step of the pass
  stateEvent,         \* the captured events call for the state handlers
  \* The master.
  control,            \* the state it asks for: "INIT", "PREOP"
  lastReq,            \* its last request
  unsure,             \* the answer to writing it was lost
  open,               \* the requests it waits for an answer to
  lastGot,            \* the last reply it has taken
  askRepeat,          \* a read was lost, its reply is to be repeated
  losses, restarts

masterVars == <<control, lastReq, unsure, open, lastGot, askRepeat, losses, restarts>>
vars == <<linkVars, coeVars, pc, stateEvent, masterVars>>

Init ==
  /\ sm0 = NoMsg /\ sm1 = NoMsg /\ ecrep = FALSE /\ pdirep = FALSE
  /\ events = {} /\ ALevent = {}
  /\ MBXrun = FALSE /\ MBXstat0 = FALSE /\ MBXstat1 = FALSE /\ ECrep = FALSE
  /\ toggle = FALSE /\ mbxfree = TRUE
  /\ MBXcontrol = [n \in 0 .. OutBuffers |-> "idle"]
  /\ MBX = [n \in 0 .. OutBuffers |-> NoMsg]
  /\ mbxoutpost = 0 /\ mbxbackup = 0 /\ txcue = 0 /\ mbxincnt = 0 /\ mbxcnt = 0
  /\ xoe = "none" /\ held = NoMsg /\ fragsleft = 0
  /\ pc = "wait" /\ stateEvent = FALSE
  /\ control = "INIT" /\ lastReq = [id |-> 0, kind |-> "service"] /\ unsure = FALSE
  /\ open = {} /\ lastGot = 0 /\ askRepeat = FALSE /\ losses = 0 /\ restarts = 0

-----------------------------------------------------------------------------
(* The master.  It uses the mailbox while it wants it and the slave runs it. *)

MasterUses == control = "PREOP" /\ MBXrun
slaveVars  == <<ALevent, MBXrun, statVars, bufVars, postVars, mbxincnt, xoe, coeVars,
                pc, stateEvent>>

AskPreop ==
  /\ control = "INIT" /\ ~MBXrun
  /\ control' = "PREOP" /\ events' = events \cup {"CONTROL"}
  /\ UNCHANGED <<chipVars, slaveVars, lastReq, unsure, open, lastGot, askRepeat, losses,
                 restarts>>

\* With INIT the master forgets what it waits for.
AskInit ==
  /\ MasterUses /\ restarts < MaxRestarts /\ restarts' = restarts + 1
  /\ control' = "INIT" /\ events' = events \cup {"CONTROL"}
  /\ unsure' = FALSE /\ open' = {} /\ askRepeat' = FALSE
  /\ UNCHANGED <<chipVars, slaveVars, lastReq, lastGot, losses>>

\* The frame arrives; its answer may be lost.
WriteRequest ==
  /\ MasterUses /\ sm0 = NoMsg /\ ~unsure
  /\ lastReq.id < MaxRequests /\ Cardinality(open) < MaxOpen
  /\ \E k \in Kinds : lastReq' = [id |-> lastReq.id + 1, kind |-> k]
  /\ sm0' = lastReq' /\ open' = open \cup {lastReq'}
  /\ events' = events \cup {"SM0"}
  /\ unsure' \in BOOLEAN
  /\ losses' = IF unsure' THEN losses + 1 ELSE losses
  /\ losses' <= MaxLosses
  /\ UNCHANGED <<sm1, ecrep, pdirep, slaveVars, control, lastGot, askRepeat, restarts>>

\* It writes the same request once more, with the same count.
ResendRequest ==
  /\ MasterUses /\ unsure /\ sm0 = NoMsg
  /\ sm0' = lastReq /\ unsure' = FALSE
  /\ events' = events \cup {"SM0"}
  /\ UNCHANGED <<sm1, ecrep, pdirep, slaveVars, control, lastReq, open, lastGot, askRepeat,
                 losses, restarts>>

\* A reply whose count the master has seen already is a repeated one.
IsReply(m) == "to" \in DOMAIN m
MayTake == MasterUses /\ ~askRepeat /\ ecrep = pdirep /\ sm1 # NoMsg

ReadReply ==
  /\ MayTake
  /\ sm1' = NoMsg /\ events' = events \cup {"SM1"}
  /\ IF IsReply(sm1) /\ sm1.id # lastGot
     THEN /\ lastGot' = sm1.id
          /\ open' = IF sm1.more THEN open ELSE open \ {sm1.to}
     ELSE UNCHANGED <<lastGot, open>>
  /\ UNCHANGED <<sm0, ecrep, pdirep, slaveVars, control, lastReq, unsure, askRepeat, losses,
                 restarts>>

\* The master has no answer to its read.
LoseReply ==
  /\ MayTake /\ losses < MaxLosses /\ losses' = losses + 1
  /\ \/ "back" \in ReplyLosses /\ sm1' = NoMsg /\ events' = events \cup {"SM1"}
     \/ "there" \in ReplyLosses /\ UNCHANGED <<sm1, events>>
  /\ askRepeat' = TRUE
  /\ UNCHANGED <<sm0, ecrep, pdirep, slaveVars, control, lastReq, unsure, open, lastGot,
                 restarts>>

\* It toggles the repeat request and reads again once that is acknowledged.
AskRepeat ==
  /\ MasterUses /\ askRepeat /\ askRepeat' = FALSE
  /\ ecrep' = ~ecrep /\ events' = events \cup {"SMCHANGE"}
  /\ UNCHANGED <<sm0, sm1, pdirep, slaveVars, control, lastReq, unsure, open, lastGot,
                 losses, restarts>>

-----------------------------------------------------------------------------
(* The slave.                                                              *)

Poll ==
  /\ pc = "wait" /\ "poll" \in Loops
  /\ ALevent' = events /\ pc' = "state"
  /\ UNCHANGED <<chipVars, events, MBXrun, statVars, bufVars, postVars, mbxincnt, xoe,
                 coeVars, stateEvent, masterVars>>

\* ecat_slv_run_dc captures the events once, and decides by them.
SyncPass ==
  /\ pc = "wait" /\ "dc" \in Loops
  /\ ALevent' = events /\ stateEvent' = (events # {}) /\ pc' = "edge"
  /\ UNCHANGED <<chipVars, events, MBXrun, statVars, bufVars, postVars, mbxincnt, xoe,
                 coeVars, masterVars>>

EventsOnly == IF stateEvent THEN "state" ELSE "wait"             \* mutant of AfterEdge
\* The mailbox step also runs while a reply is queued.
AfterEdge == CASE stateEvent                -> "state"
               [] ~stateEvent /\ txcue > 0  -> "mbx"
               [] OTHER                     -> "wait"

\* Reading the SYNC0 status, when there is one, reads the events again.
SyncEdge ==
  /\ pc = "edge"
  /\ ALevent' \in {ALevent, events}
  /\ pc' = AfterEdge
  /\ stateEvent' = FALSE
  /\ UNCHANGED <<chipVars, events, MBXrun, statVars, bufVars, postVars, mbxincnt, xoe,
                 coeVars, masterVars>>

\* ESC_state, as far as it starts and stops the mailbox.  With the mailbox go
\* the request that is held and the replies of the session.
StopMailbox ==
  /\ control = "INIT" /\ MBXrun
  /\ ESC_stopmbx
  /\ held' = NoMsg /\ fragsleft' = 0 /\ lastGot' = mbxcnt
  /\ events' = events \ {"CONTROL", "SM0", "SM1"}
  /\ UNCHANGED statVars

StartMailbox ==
  /\ control = "PREOP" /\ ~MBXrun
  /\ ESC_startmbx
  /\ events' = events \ {"CONTROL", "SMCHANGE"}
  /\ UNCHANGED <<coeVars, mbxincnt, lastGot>>

StateStep ==
  /\ pc = "state" /\ pc' = "smact"
  /\ \/ /\ "CONTROL" \in ALevent
        /\ \/ StopMailbox
           \/ StartMailbox
           \/ /\ MBXrun = (control = "PREOP")
              /\ events' = events \ {"CONTROL"}
              /\ UNCHANGED <<chipVars, MBXrun, statVars, bufVars, postVars, mbxincnt, xoe,
                             coeVars, lastGot>>
        /\ ALevent' = events'
     \/ "CONTROL" \notin ALevent /\ UNCHANGED <<linkVars, coeVars, lastGot>>
  /\ UNCHANGED <<stateEvent, control, lastReq, unsure, open, askRepeat, losses, restarts>>

\* ESC_sm_act_event: reading the SyncManagers shows the repeat request.
SmActStep ==
  /\ pc = "smact" /\ pc' = "mbx"
  /\ IF "SMCHANGE" \in ALevent
     THEN /\ events' = events \ {"SMCHANGE"} /\ ALevent' = events'
          /\ IF MBXrun
             THEN MBXstat0' = (sm0 # NoMsg) /\ MBXstat1' = (sm1 # NoMsg) /\ ECrep' = ecrep
             ELSE UNCHANGED statVars
     ELSE UNCHANGED <<events, ALevent, statVars>>
  /\ UNCHANGED <<chipVars, MBXrun, bufVars, postVars, mbxincnt, xoe, coeVars, stateEvent,
                 masterVars>>

\* ESC_mbxprocess: the protocols run after a request was read, and after a reply
\* was while one of them is at work.
MbxStep ==
  /\ pc = "mbx"
  /\ \/ ~MBXrun /\ pc' = "wait" /\ UNCHANGED <<linkVars>>
     \/ MBXrun /\ UNCHANGED MBXrun
        /\ \/ OutboxRead /\ pc' = IF xoe # "none" THEN "coe" ELSE "wait"
           \/ ESC_readmbx /\ pc' = "coe"
           \/ (RepeatRequest \/ Post \/ LinkQuiet) /\ pc' = "wait"
  /\ UNCHANGED <<coeVars, stateEvent, masterVars>>

CoeStep ==
  /\ pc = "coe" /\ pc' = "xoe"
  /\ ESC_coeprocess
  /\ UNCHANGED <<chipVars, events, ALevent, MBXrun, statVars, postVars, mbxincnt,
                 stateEvent, masterVars>>

XoeStep ==
  /\ pc = "xoe" /\ pc' = "wait"
  /\ ESC_xoeprocess
  /\ UNCHANGED <<chipVars, events, ALevent, MBXrun, statVars, postVars, mbxincnt, xoe,
                 coeVars, stateEvent, masterVars>>

\* The application's work on a held download is done.
HeldDone ==
  /\ pc \in {"wait", "edge"}
  /\ ESC_SDO_complete
  /\ UNCHANGED <<chipVars, events, ALevent, MBXrun, statVars, postVars, mbxincnt, pc,
                 stateEvent, masterVars>>

-----------------------------------------------------------------------------

Pass == Poll \/ SyncPass \/ SyncEdge \/ StateStep \/ SmActStep \/ MbxStep \/ CoeStep \/ XoeStep
Master == AskPreop \/ AskInit \/ WriteRequest \/ ResendRequest \/ ReadReply \/ LoseReply
          \/ AskRepeat

Next == Pass \/ HeldDone \/ Master

Spec == Init /\ [][Next]_vars

\* The loop runs, the application finishes its work, the master polls for replies
\* and asks for those it lost.
FairSpec == Spec /\ WF_vars(Pass) /\ SF_vars(HeldDone) /\ WF_vars(ReadReply)
                 /\ WF_vars(AskRepeat)

-----------------------------------------------------------------------------

\* Every buffer is accounted for, and none is used twice: one posted reply and one
\* backup at most, which are the ones the link layer knows of; txcue is the number
\* of replies that wait to be posted and of buffers that a refused segment keeps,
\* which are the only ones nobody gives back until the mailbox stops; a protocol at
\* work has the request in buffer 0.
BufferAccounting ==
  /\ \A n \in OutBufs : MBXcontrol[n] \in {"outpost", "again"} <=> n = mbxoutpost
  /\ \A n \in OutBufs : MBXcontrol[n] = "backup" <=> n = mbxbackup
  /\ txcue = Cardinality(InState("outreq")) + Cardinality(InState("outclaim"))
  /\ InState("outclaim") # {} => "refused" \in Kinds
  /\ xoe # "none" => MBXcontrol[0] = "inclaim"

\* The buffers with a reply that was asked to be posted, and those whose reply the
\* master has not got yet.
Holds(n) == MBXcontrol[n] \in {"outreq", "outpost", "again", "backup"}
Due(n)   == Holds(n) /\ lastGot < MBX[n].id

\* The mailbox implements the reply channel: the master gets every reply that was
\* asked to be posted, once and in order.  True while no reply is lost on the way
\* (see README for what happens otherwise).
Channel == INSTANCE ReplyChannel
             WITH up <- MBXrun, waiting <- {MBX[n].id : n \in {k \in OutBufs : Due(k)}},
                  got <- lastGot
RepliesArrive == Channel!Spec

\* Even when replies are lost and repeated the master never takes an older reply
\* after a newer one.
RepliesInOrder == [][lastGot' >= lastGot]_vars

\* What the master takes is the answer to a request of this session it still
\* waits on: a request written twice is served once, a held reply does not
\* survive INIT, a repeated reply is told from a new one.  A malformed request
\* is answered each time it is read.
AnswersOpenRequest ==
  [][lastGot' # lastGot /\ MBXrun'
       => sm1.to \in open \/ sm1.to.kind \in {"badheader", "short"}]_vars

\* Every request but a held one is answered, by either loop, unless a refused segment
\* has left the session short of buffers.
EveryRequestAnswered ==
  \A r \in [id : 1 .. MaxRequests, kind : Kinds \ {"hold"}] :
    r \in open ~> r \notin open \/ InState("outclaim") # {}

\* The polling loop acknowledges every repeat request or ends the session.
RepeatAcknowledged == ecrep # pdirep ~> ecrep = pdirep \/ ~MBXrun

=============================================================================
