----------------------------- MODULE SlaveLoop -----------------------------
(***************************************************************************)
(* The slave as soes/ecat_slv.c runs it: one thread that executes either a *)
(* pass of the free-running loop (ecat_slv) or a pass of the SYNC0 loop    *)
(* (ecat_slv_run_dc), chosen anew for every pass by the application, over  *)
(* the handlers of ESC.tla; the process data step with its two watchdogs;  *)
(* the sync error counter.  The master and the chip act between any two    *)
(* steps of a pass.                                                        *)
(*                                                                         *)
(* A step of a pass is the stretch of code between two points where the    *)
(* event register is looked at.  The mailbox step of a pass is Mailbox.tla.*)
(* A wait that fails (rc < 0) makes the pass a stuttering step.            *)
(***************************************************************************)
EXTENDS ESC, SyncError

CONSTANTS
  UseHwWatchdog,      \* esc_cfg_t.use_hw_watchdog
  WatchdogCnt,        \* esc_cfg_t.watchdog_cnt
  HwWdQuietCycles,    \* HW_WD_QUIET_CYCLES
  ForceFreerun,       \* the application's freerun option
  \* The master.
  Requests,           \* the AL control words it writes
  ReconfigStates,     \* the AL states in which it reconfigures the slave
  MbxSettings,        \* what it may set SM0/SM1 up for
  OutLengths,         \* what it may set SM2 and SM3 to, BadSM included
  InLengths,
  Frames,             \* which of SM2, SM3 one of its cyclic frames addresses
  DcModes,            \* what it may write to the SYNC activation
  WdArmings,          \* whether it arms the process data watchdog
  MasterMayStop,
  MaxSyncCounter      \* bound: no more SYNC0 while the counter is above this

ASSUME LoopConstantsAssumption ==
  /\ UseHwWatchdog \in BOOLEAN /\ ForceFreerun \in BOOLEAN /\ MasterMayStop \in BOOLEAN
  /\ WatchdogCnt \in Nat \ {0}
  /\ HwWdQuietCycles \in Nat
  /\ Requests \subseteq [req : ReqCodes, ack : BOOLEAN, id : BOOLEAN]
  /\ ReconfigStates \subseteq States
  /\ MbxSettings \subseteq {"std", "boot", "bad"}
  /\ OutLengths \subseteq Nat \cup {BadSM} /\ InLengths \subseteq Nat \cup {BadSM}
  /\ Frames \subseteq {{"SM2"}, {"SM3"}, {"SM2", "SM3"}}
  /\ DcModes \subseteq BOOLEAN
  /\ WdArmings \subseteq BOOLEAN /\ WdArmings # {}
  /\ MaxSyncCounter \in Nat /\ MaxSyncCounter <= 32000

VARIABLES
  pc,                 \* the next step of the pass
  dcPass,             \* the pass is one of ecat_slv_run_dc
  sync0,              \* the wait of this pass ended at a SYNC0 edge (rc = 1)
  stateEvent,         \* the captured events call for the state handlers
  hw_wd_state, hw_wd_quiet, watchdog,
  wdOk,               \* process data watchdog status, 0x0440
  masterUp,
  \* History: passes in a row begun with outputs active and the hardware watchdog
  \* enforced and expired, without a frame since (no code; saturates just above
  \* what is tolerated).
  heldExpired

wdVars   == <<hw_wd_state, hw_wd_quiet, watchdog>>
passVars == <<pc, dcPass, sync0, stateEvent>>
envVars  == <<wdOk, masterUp>>
vars     == <<escVars, passVars, wdVars, envVars, heldExpired>>

EventBits == {"CONTROL", "SMCHANGE", "SM2", "SM3"}

Init ==
  /\ control = [req |-> "INIT", ack |-> FALSE, id |-> FALSE]
  /\ ALcontrol = control
  /\ smMbx = "bad" /\ smOut = BadSM /\ smIn = BadSM /\ syncAct = FALSE
  /\ events = {} /\ ALevent = {}
  /\ alState = "INIT" /\ alErr = FALSE /\ ALerror = "NONE"
  /\ mailbox = "off" /\ mbxOff = TRUE /\ pdiOff = {2, 3}
  /\ sm2sml = 0 /\ sm3sml = 0
  /\ AppState = {} /\ setpoint = "safe"
  /\ dcsync = FALSE /\ synccounterlimit = 0 /\ synccounter = 0
  /\ syncerror = FALSE /\ sm_event_seen = FALSE
  /\ op_pending = FALSE /\ op_seen_sync0 = FALSE /\ op_seen_sm = FALSE
  /\ op_pending_ns = 0 /\ op_valid_ns = 0
  /\ missedRun = 0 /\ heldExpired = 0
  /\ pc = "wait" /\ dcPass = FALSE /\ sync0 = FALSE /\ stateEvent = FALSE
  /\ hw_wd_state = "UNCHECKED" /\ hw_wd_quiet = 0 /\ watchdog = WatchdogCnt
  /\ wdOk = FALSE /\ masterUp = TRUE

-----------------------------------------------------------------------------
(* The master and the chip.                                                *)

WriteControl ==
  /\ masterUp /\ "CONTROL" \notin events
  /\ control' \in Requests
  /\ events' = events \cup {"CONTROL"}
  /\ UNCHANGED <<ALcontrol, ALevent, alVars, mbxVars, sizeVars, pdVars, dcVars,
                 opVars, smRegs, passVars, wdVars, envVars, heldExpired>>

\* One SyncManager is set up anew.
Reconfigure ==
  /\ masterUp /\ alState \in ReconfigStates
  /\ \/ smMbx' \in MbxSettings /\ UNCHANGED <<smOut, smIn>>
     \/ smOut' \in OutLengths /\ UNCHANGED <<smMbx, smIn>>
     \/ smIn' \in InLengths /\ UNCHANGED <<smMbx, smOut>>
  /\ events' = events \cup {"SMCHANGE"}
  /\ UNCHANGED <<control, ALcontrol, ALevent, alVars, mbxVars, sizeVars, pdVars, dcVars,
                 opVars, syncAct, passVars, wdVars, envVars, heldExpired>>

SwitchDC ==
  /\ masterUp /\ alState \in ReconfigStates
  /\ syncAct' \in DcModes
  /\ UNCHANGED <<control, events, ALcontrol, ALevent, alVars, mbxVars, sizeVars, pdVars,
                 dcVars, opVars, smMbx, smOut, smIn, passVars, wdVars, envVars,
                 heldExpired>>

\* A cyclic frame reaches the enabled SyncManagers; SM2 feeds the watchdog.
Frame ==
  /\ masterUp
  /\ \E S \in Frames :
       /\ "SM2" \in S => smOut > 0 /\ 2 \notin pdiOff
       /\ "SM3" \in S => smIn > 0 /\ 3 \notin pdiOff
       /\ events' = events \cup S
       /\ wdOk' = (wdOk \/ "SM2" \in S)
       /\ heldExpired' = IF "SM2" \in S THEN 0 ELSE heldExpired
  /\ UNCHANGED <<control, ALcontrol, ALevent, alVars, mbxVars, sizeVars, pdVars, dcVars,
                 opVars, smRegs, passVars, wdVars, masterUp>>

WatchdogExpires ==
  /\ wdOk /\ wdOk' = FALSE
  /\ UNCHANGED <<escVars, passVars, wdVars, masterUp, heldExpired>>

MasterStops ==
  /\ MasterMayStop /\ masterUp /\ masterUp' = FALSE
  /\ UNCHANGED <<escVars, passVars, wdVars, wdOk, heldExpired>>

-----------------------------------------------------------------------------
(* DIG_process.                                                            *)

HwWdEnforced(armed) == IF armed THEN "RUNNING" ELSE "DISABLED"  \* mutant of HwWdEntered
QuietOneMore == hw_wd_quiet <= HwWdQuietCycles                  \* mutant of QuietPeriod

\* The hardware watchdog waits for the first frame before it is enforced, and
\* tolerates a few cycles without one.
HwWdEntered(armed) == IF armed THEN "WAITING" ELSE "DISABLED"
QuietPeriod == hw_wd_quiet < HwWdQuietCycles

\* hw_watchdog_check: the new state and quiet count, whether the hardware
\* watchdog is in charge and whether it trips.  seen: the event register holds
\* SM2.  armed: the configuration, read when the outputs have just come up.
HwWatchdogCheck(armed, seen) ==
  LET st == IF hw_wd_state # "UNCHECKED" THEN hw_wd_state
            ELSE HwWdEntered(armed)
      verdict(s, q, c, t) == [state |-> s, quiet |-> q, inCharge |-> c, trip |-> t]
  IN  IF ~OutputsOn \/ sm2sml = 0 THEN verdict("UNCHECKED", 0, TRUE, FALSE)
      ELSE IF st = "DISABLED" THEN verdict(st, hw_wd_quiet, FALSE, FALSE)
      ELSE IF seen THEN verdict("RUNNING", 0, TRUE, FALSE)
      ELSE IF QuietPeriod
           THEN verdict(st, hw_wd_quiet + 1, TRUE, FALSE)
      ELSE verdict(st, hw_wd_quiet, TRUE, ~wdOk /\ st = "RUNNING")

CountdownUnderflows == watchdog - 1           \* mutant of Countdown

\* The software counter: what it counts down to, and whether it trips.
Countdown == IF watchdog > 0 THEN watchdog - 1 ELSE watchdog
\* Mutant: the state of the outputs is not looked at.
CountdownTripsAnywhere == Countdown = 0 /\ sm2sml > 0
CountdownTrips == Countdown = 0 /\ OutputsOn /\ sm2sml > 0

\* Fresh outputs reload it, and so does a pass with the outputs inactive.
Reloaded(soft, apply) ==
  IF apply \/ (soft /\ ~OutputsOn) THEN WatchdogCnt
  ELSE IF soft THEN Countdown ELSE watchdog

\* DIG_PROCESS_WD_FLAG and DIG_PROCESS_RXPDO_FLAG; inputs: DIG_PROCESS_TXPDO_FLAG
\* as well, whose write of SM3 takes the SM3 event back.  ALevent is the register
\* as last read; reading the watchdog configuration reads it again.
WatchdogAndOutputs(inputs) ==
  \E armed \in WdArmings :
    LET reread == UseHwWatchdog /\ OutputsOn /\ sm2sml > 0 /\ hw_wd_state = "UNCHECKED"
        seen   == "SM2" \in (IF reread THEN events ELSE ALevent)
        check  == HwWatchdogCheck(armed, seen)
        soft   == ~UseHwWatchdog \/ ~check.inCharge
        trip   == IF soft THEN CountdownTrips ELSE check.trip
        sm2    == "SM2" \in (IF reread \/ trip THEN events ELSE ALevent)
        apply  == OutputsOn /\ ~trip /\ sm2
    IN  /\ IF UseHwWatchdog
           THEN hw_wd_state' = check.state /\ hw_wd_quiet' = check.quiet
           ELSE UNCHANGED <<hw_wd_state, hw_wd_quiet>>
        /\ watchdog' = Reloaded(soft, apply)
        /\ IF trip THEN GotoError("WATCHDOG")
           ELSE /\ setpoint' = IF apply THEN "applied" ELSE setpoint
                /\ UNCHANGED <<AppState, pdiOff, alVars, opVars>>
        /\ events' = events \ {e \in {"SM2", "SM3"} : IF e = "SM2" THEN sm2
                                                   ELSE inputs /\ AppState' # {}}
        /\ ALevent' = IF reread \/ trip THEN events ELSE ALevent

-----------------------------------------------------------------------------
(* ecat_slv_sync0_account and the SYNC0 branch of ecat_slv_run_dc.         *)

SyncCount(served) ==
  IF served THEN CountServed(synccounter) ELSE CountMissed(synccounter)
SyncTrips(served) == OverLimit(synccounterlimit, SyncCount(served))

Sync0Period ==
  LET served == sm_event_seen
  IN  /\ synccounter' = IF SyncTrips(served) THEN 0 ELSE Stored(SyncCount(served))
      /\ missedRun' = IF served \/ SyncTrips(served) THEN 0 ELSE missedRun + 1
      /\ sm_event_seen' = FALSE
      /\ IF SyncTrips(served)
         THEN syncerror' = TRUE /\ GotoError("SYNCERROR")
         ELSE UNCHANGED syncerror /\ OpPendingStep(TRUE, served, 1)
      /\ UNCHANGED <<dcsync, synccounterlimit>>

-----------------------------------------------------------------------------
(* The passes.                                                             *)

Capture ==
  /\ ALevent' = events
  /\ stateEvent' = (events \cap {"CONTROL", "SMCHANGE"} # {})
  /\ heldExpired' = IF OutputsOn /\ hw_wd_state = "RUNNING" /\ ~wdOk /\ "SM2" \notin events
                    THEN IF heldExpired <= HwWdQuietCycles + 1 THEN heldExpired + 1
                                                               ELSE heldExpired
                    ELSE 0

\* The application's choice of loop.
RunsDC == dcsync /\ ~ForceFreerun

\* ecat_slv_poll reads the events.
Poll ==
  /\ pc = "wait" /\ ~RunsDC
  /\ Capture
  /\ pc' = "state" /\ dcPass' = FALSE /\ sync0' = FALSE
  /\ UNCHANGED <<control, events, ALcontrol, alVars, mbxVars, sizeVars, pdVars, dcVars,
                 opVars, smRegs, wdVars, envVars>>

WaitSync0 ==
  /\ pc = "wait" /\ RunsDC
  /\ syncAct /\ synccounter <= MaxSyncCounter
  /\ Capture
  /\ pc' = "pd" /\ dcPass' = TRUE /\ sync0' = TRUE
  /\ UNCHANGED <<control, events, ALcontrol, alVars, mbxVars, sizeVars, pdVars, dcVars,
                 opVars, smRegs, wdVars, envVars>>

\* Twice the SYNC0 period without an edge, outputs active: the whole pass.
WaitTimeoutFatal ==
  /\ pc = "wait" /\ RunsDC /\ OutputsOn
  /\ syncerror' = TRUE
  /\ GotoError("FATALSYNCERROR")
  /\ ALevent' = events
  /\ UNCHANGED <<control, events, ALcontrol, mbxVars, sizeVars, dcsync, synccounterlimit,
                 synccounter, sm_event_seen, missedRun, smRegs, passVars, wdVars,
                 envVars, heldExpired>>

WaitTimeout ==
  /\ pc = "wait" /\ RunsDC /\ ~OutputsOn
  /\ UNCHANGED dcVars
  /\ OpPendingStep(FALSE, FALSE, 2)
  /\ Capture
  /\ pc' = "pd" /\ dcPass' = TRUE /\ sync0' = FALSE
  /\ UNCHANGED <<control, events, ALcontrol, mbxVars, sizeVars, smRegs, wdVars, envVars>>

\* The process data branch under DC: outputs now, inputs at the SYNC0 edge.
ProcessOutputs ==
  /\ pc = "pd" /\ dcPass
  /\ IF ALevent \cap {"SM2", "SM3"} # {}
     THEN WatchdogAndOutputs(FALSE) /\ sm_event_seen' = TRUE
     ELSE UNCHANGED <<events, ALevent, alVars, pdVars, opVars, wdVars, sm_event_seen>>
  /\ pc' = "sync"
  /\ UNCHANGED <<control, ALcontrol, mbxVars, sizeVars, dcsync, synccounterlimit,
                 synccounter, syncerror, missedRun, smRegs, dcPass, sync0, stateEvent,
                 envVars, heldExpired>>

Sync0Edge ==
  /\ pc = "sync"
  /\ IF sync0
     THEN /\ Sync0Period
          /\ events' = IF AppState' # {} THEN events \ {"SM3"} ELSE events
          /\ ALevent' = events'
     ELSE UNCHANGED <<events, ALevent, alVars, pdVars, opVars, dcVars>>
  /\ pc' = IF stateEvent THEN "state" ELSE "wait"
  /\ UNCHANGED <<control, ALcontrol, mbxVars, sizeVars, smRegs, dcPass, sync0, stateEvent,
                 wdVars, envVars, heldExpired>>

StateStep ==
  /\ pc = "state"
  /\ ESC_state
  /\ pc' = "smact"
  /\ UNCHANGED <<dcPass, sync0, stateEvent, wdVars, envVars, heldExpired>>

SmActStep ==
  /\ pc = "smact"
  /\ ESC_sm_act_event
  /\ pc' = IF dcPass THEN "wait" ELSE "pd"
  /\ UNCHANGED <<dcPass, sync0, stateEvent, wdVars, envVars, heldExpired>>

\* DIG_process with every flag, at the end of a free-running pass.
ProcessData ==
  /\ pc = "pd" /\ ~dcPass
  /\ WatchdogAndOutputs(TRUE)
  /\ pc' = "wait"
  /\ UNCHANGED <<control, ALcontrol, mbxVars, sizeVars, dcVars, smRegs, dcPass, sync0,
                 stateEvent, envVars, heldExpired>>

-----------------------------------------------------------------------------
(* Specification.                                                          *)

Slave ==
  \/ Poll \/ WaitSync0 \/ WaitTimeoutFatal \/ WaitTimeout
  \/ ProcessOutputs \/ Sync0Edge \/ StateStep \/ SmActStep \/ ProcessData

Master == WriteControl \/ Reconfigure \/ SwitchDC \/ Frame \/ MasterStops

Next == Slave \/ Master \/ WatchdogExpires

\* The thread is scheduled and its wait is bounded; a watchdog left unfed expires.
Fairness == WF_vars(Slave) /\ WF_vars(WatchdogExpires)

Spec == Init /\ [][Next]_vars
FairSpec == Spec /\ Fairness

-----------------------------------------------------------------------------
(* Properties.                                                             *)

\* Every variable has its type, group by group.
ControlWords == [req : ReqCodes, ack : BOOLEAN, id : BOOLEAN]

MasterTypes ==
  /\ control \in ControlWords
  /\ smMbx \in {"std", "boot", "bad"} /\ syncAct \in BOOLEAN
  /\ smOut \in Nat \cup {BadSM} /\ smIn \in Nat \cup {BadSM}
  /\ wdOk \in BOOLEAN /\ masterUp \in BOOLEAN

EventTypes ==
  /\ events \subseteq EventBits /\ ALevent \subseteq EventBits
  /\ ALcontrol \in ControlWords

AlTypes ==
  /\ alState \in States /\ alErr \in BOOLEAN /\ ALerror \in AlErrors
  /\ mailbox \in {"off", "std", "boot"} /\ mbxOff \in BOOLEAN

PdTypes ==
  /\ AppState \subseteq {"INPUT", "OUTPUT"} /\ pdiOff \subseteq {2, 3}
  /\ setpoint \in {"safe", "applied"}
  /\ sm2sml \in Nat /\ sm3sml \in Nat

DcTypes ==
  /\ dcsync \in BOOLEAN /\ synccounterlimit \in Nat /\ synccounter \in Int16
  /\ syncerror \in BOOLEAN /\ sm_event_seen \in BOOLEAN /\ missedRun \in Nat

OpTypes ==
  /\ op_pending \in BOOLEAN /\ op_seen_sync0 \in BOOLEAN /\ op_seen_sm \in BOOLEAN
  /\ op_pending_ns \in Nat /\ op_valid_ns \in Nat

LoopTypes ==
  /\ pc \in {"wait", "state", "smact", "pd", "sync"} /\ dcPass \in BOOLEAN
  /\ sync0 \in BOOLEAN /\ stateEvent \in BOOLEAN
  /\ hw_wd_state \in {"UNCHECKED", "WAITING", "RUNNING", "DISABLED"}
  /\ hw_wd_quiet \in Nat /\ watchdog \in Nat /\ heldExpired \in Nat

TypeOK ==
  /\ MasterTypes /\ EventTypes /\ AlTypes /\ PdTypes /\ DcTypes /\ OpTypes /\ LoopTypes

\* Outputs are processed exactly while AL status shows OP, and OP is never
\* shown with an error: every way out of OP goes through ESC_stopoutput.
OutputsMatchState ==
  /\ OutputsOn <=> alState = "OP"
  /\ alState = "OP" => ~alErr

\* The drive acts on the master's setpoint only in OP: whatever ends OP has
\* called APP_safe_state before AL status shows another state.
SetpointOnlyInOp == setpoint = "applied" => alState = "OP"

\* AL status code: a reason whenever the error bit is up, and never one left
\* over from an error that is gone.
ErrorHasReason == alErr <=> ALerror \notin {"NONE", "DEVICEID"}

\* A held request for OP is about a slave that waits in SAFEOP without error,
\* inputs running, DC active (ESC_state, SAFEOP_TO_OP).
PendingIsSafeop ==
  op_pending => alState = "SAFEOP" /\ ~alErr /\ dcsync /\ AppState = {"INPUT"}

\* In SAFEOP without error and in OP the inputs are processed: AL status tells
\* the master they are valid (ESC_startinput before either state is shown).
InputsAreLive ==
  alState \in {"SAFEOP", "OP"} /\ ~alErr => "INPUT" \in AppState

\* The mailbox runs in every state but INIT, in BOOT with the boot settings: no
\* step down or refused start leaves AL status and the mailbox apart.
MailboxMatchesState ==
  /\ alState = "INIT" <=> mailbox = "off"
  /\ alState = "BOOT" => mailbox = "boot"

\* No more than limit / 3 fully missed SYNC0 periods in a row are tolerated
\* in OP (ecat_slv_sync0_account).
MissedRunBounded ==
  dcsync /\ OutputsOn /\ synccounterlimit > 0 => 3 * missedRun <= synccounterlimit

\* The hardware watchdog is enforced only once output data has been applied
\* since the outputs came up (hw_watchdog_check).
EnforcedAfterFirstFrame ==
  OutputsOn /\ hw_wd_state = "RUNNING" => setpoint = "applied"

\* Detection is late by at most the quiet cycles (HW_WD_QUIET_CYCLES).
HeldExpiredBounded == heldExpired <= HwWdQuietCycles + 1

Rank(st) == CASE st = "INIT" -> 1 [] st \in {"PREOP", "BOOT"} -> 2
              [] st = "SAFEOP" -> 3 [] st = "OP" -> 4

\* The AL state rises only to the state the master last asked for.
PromotionIsRequested ==
  [][Rank(alState') > Rank(alState) => alState' = ALcontrol'.req]_vars

\* A held request for OP is completed or refused (ESC_op_pending_step).
OpAnswered == op_pending ~> ~op_pending

\* When the master falls silent the drive reaches its safe state and stays.
SilenceReachesSafe == ~masterUp ~> [](setpoint = "safe")

=============================================================================
