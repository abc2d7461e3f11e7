-------------------------------- MODULE ESC --------------------------------
(***************************************************************************)
(* The EtherCAT state machine of soes/esc.c: the AL state, the checks of   *)
(* the SyncManager configuration the master wrote, starting and stopping   *)
(* the mailbox, the inputs and the outputs, and the request for OP that is *)
(* held back under distributed clocks (DC).                                *)
(*                                                                         *)
(* The module declares the state these handlers share and one operator per *)
(* handler.  It has no next-state relation of its own: the handlers run on *)
(* one thread, called by the cyclic loops of SlaveLoop.tla.                *)
(*                                                                         *)
(* Abstractions.  A SyncManager register block is reduced to what the      *)
(* checks conclude from it; a sizeOfPDO result is a small number or        *)
(* MapError; times are counted in SYNC0 periods.                           *)
(***************************************************************************)
EXTENDS Integers

CONSTANTS
  UseInterrupt,       \* esc_cfg_t.use_interrupt
  RxSizes, TxSizes,   \* what sizeOfPDO may return for 0x1C12 and 0x1C13
  SyncLimits,         \* values 0x10F1:02 may hold when the master starts DC
  DcErrors,           \* codes the application's DC check may refuse with
  DeviceIds,          \* {TRUE} an ID is configured, {FALSE} it is 0
  OpSyncValid,        \* ESC_OP_SYNC_VALID_NS, in SYNC0 periods
  OpPendingTimeout    \* ESC_OP_PENDING_TIMEOUT_NS, in SYNC0 periods

States   == {"INIT", "PREOP", "BOOT", "SAFEOP", "OP"}
\* "ZERO" is the request 0, "OTHER" any other value that is not a state.
ReqCodes == States \cup {"ZERO", "OTHER"}
AlErrors == {"NONE", "INVALIDSTATECHANGE", "UNKNOWNSTATE", "INVALIDBOOTMBXCONFIG",
             "INVALIDMBXCONFIG", "SYNCERROR", "WATCHDOG", "INVALIDOUTPUTSM",
             "INVALIDINPUTSM", "FATALSYNCERROR", "NOSYNCERROR", "DEVICEID"} \cup DcErrors
MapError == -1        \* sizeOfPDO reported a negative number of mappings
BadSM    == -1        \* registers of a SyncManager that fail every check

ASSUME ConstantsAssumption ==
  /\ UseInterrupt \in BOOLEAN
  /\ RxSizes \subseteq Nat \cup {MapError} /\ RxSizes # {}
  /\ TxSizes \subseteq Nat \cup {MapError} /\ TxSizes # {}
  /\ SyncLimits \subseteq Nat
  /\ DcErrors \subseteq {"DCINVALIDSYNCCFG", "DCSYNC0CYCLETIME"}
  /\ DeviceIds \subseteq BOOLEAN /\ DeviceIds # {}
  /\ OpSyncValid \in Nat \ {0}
  /\ OpPendingTimeout \in Nat \ {0}

VARIABLES
  \* Registers of the EtherCAT slave controller, written by the master.
  control,            \* AL control: [req, ack, id]
  smMbx,              \* what SM0/SM1 are set up for: "std", "boot" or "bad"
  smOut, smIn,        \* length set in SM2 / SM3, or BadSM
  syncAct,            \* SYNC0 generation activated (0x0981)
  events,             \* AL event request register (0x0220)
  \* Registers written by the slave.
  alState, alErr,     \* AL status: state and error indication
  ALerror,            \* AL status code
  mbxOff, pdiOff,     \* SM0 and SM1 / members of {2, 3} disabled by the PDI
  \* ESCvar.
  ALcontrol,          \* the control word as last read
  ALevent,            \* the event register as last read
  mailbox,            \* "off" is MBXrun = 0; else the settings activemb0/1 name
  sm2sml, sm3sml,     \* ESC_SM2_sml, ESC_SM3_sml
  AppState,           \* App.state, a subset of {"INPUT", "OUTPUT"}
  dcsync, synccounterlimit, synccounter, syncerror, sm_event_seen,
  op_pending, op_seen_sync0, op_seen_sm, op_pending_ns, op_valid_ns,
  \* The application.
  setpoint,           \* "safe", or "applied" once master outputs are in force
  \* History: SYNC0 periods in a row without process data (no code).
  missedRun

alVars   == <<alState, alErr, ALerror>>
mbxVars  == <<mailbox, mbxOff>>
sizeVars == <<sm2sml, sm3sml>>
pdVars   == <<AppState, pdiOff, setpoint>>
dcVars   == <<dcsync, synccounterlimit, synccounter, syncerror, sm_event_seen,
              missedRun>>
opVars   == <<op_pending, op_seen_sync0, op_seen_sm, op_pending_ns, op_valid_ns>>
smRegs   == <<smMbx, smOut, smIn, syncAct>>
escVars  == <<control, events, ALcontrol, ALevent, alVars, mbxVars, sizeVars,
              pdVars, dcVars, opVars, smRegs>>

OutputsOn == "OUTPUT" \in AppState

-----------------------------------------------------------------------------
(* Process data and mailbox: starting, stopping, checking.                 *)

\* Mutants of StopOutput: APP_safe_state not called; both flags cleared.
StopOutputSilently ==
  AppState' = AppState \cap {"INPUT"} /\ pdiOff' = pdiOff \cup {2} /\ UNCHANGED setpoint
StopOutputAll ==
  AppState' = {} /\ pdiOff' = pdiOff \cup {2} /\ setpoint' = "safe"

\* ESC_stopoutput: the application is told to go to its safe state.
StopOutput ==
  /\ AppState' = AppState \cap {"INPUT"}
  /\ pdiOff' = pdiOff \cup {2}
  /\ setpoint' = "safe"

\* ESC_stopinput alone; the outputs are not told.
StopInput ==
  /\ AppState' = {}
  /\ pdiOff' = {2, 3}
  /\ UNCHANGED setpoint

StopOutputAndInput ==
  /\ AppState' = {}
  /\ pdiOff' = {2, 3}
  /\ setpoint' = "safe"

StartOutput ==
  /\ AppState' = AppState \cup {"OUTPUT"}
  /\ pdiOff' = IF sm2sml > 0 THEN pdiOff \ {2} ELSE pdiOff
  /\ UNCHANGED setpoint

StopMbxKeepsRun == UNCHANGED mailbox /\ mbxOff' = TRUE   \* mutant: MBXrun not cleared

StopMbx == mailbox' = "off" /\ mbxOff' = TRUE

\* ESC_checkmbx against the settings in force.
MbxBad == smMbx # mailbox

\* ESC_checkSM23: the SyncManager that fails, SM2 before SM3.
SM23Error(s2, s3) ==
  IF smOut # s2 THEN "INVALIDOUTPUTSM"
  ELSE IF smIn # s3 THEN "INVALIDINPUTSM" ELSE "NONE"


-----------------------------------------------------------------------------
(* ESC_ALstatusgotoerror: an error found by the slave itself.              *)

\* Mutant: the outputs are left running.
GotoErrorKeepsOutputs(code) ==
  /\ alState' = "SAFEOP" /\ alErr' = TRUE /\ ALerror' = code
  /\ op_pending' = FALSE
  /\ UNCHANGED <<pdVars, op_seen_sync0, op_seen_sm, op_pending_ns, op_valid_ns>>

GotoError(code) ==
  /\ alState' = "SAFEOP" /\ alErr' = TRUE /\ ALerror' = code
  /\ IF OutputsOn THEN StopOutput ELSE UNCHANGED pdVars
  /\ op_pending' = FALSE
  /\ UNCHANGED <<op_seen_sync0, op_seen_sm, op_pending_ns, op_valid_ns>>

-----------------------------------------------------------------------------
(* ESC_state: the master's request.  Request is the word just read.        *)

Request == control
Acknowledges(c) == c.ack \/ c.req = "INIT"

\* ESC_check_id_request, once the AL status code has been cleared.
AsksForId(st) ==
  /\ Request.id /\ Request.req # "BOOT"
  /\ Request.req \in {"INIT", "PREOP", "ZERO"} \/ st \in {"SAFEOP", "OP"}

\* Mutant of Reach: ESC_ALerror(0) missing.
ReachKeepsCode(st) == alState' = st /\ alErr' = FALSE /\ UNCHANGED ALerror

\* The tail of ESC_state: a state without error clears the AL status code,
\* after which the code may carry the device identification.
Reach(st) ==
  /\ alState' = st /\ alErr' = FALSE
  /\ \E known \in DeviceIds :
       ALerror' = IF AsksForId(st) /\ known THEN "DEVICEID" ELSE "NONE"

Refuse(st, code) == alState' = st /\ alErr' = TRUE /\ ALerror' = code

From(S) == alState \in S
To(S)   == Request.req \in S

EndPendingForgotten == UNCHANGED opVars     \* mutant of EndPending

\* A request that replaces, or finds no, pending request for OP.
EndPending ==
  /\ op_pending' = FALSE
  /\ UNCHANGED <<op_seen_sync0, op_seen_sm, op_pending_ns, op_valid_ns>>

\* INIT_TO_INIT, PREOP_TO_PREOP, OP_TO_OP
SameState ==
  /\ From({"INIT", "PREOP", "OP"}) /\ To({alState})
  /\ Reach(alState)
  /\ EndPending
  /\ UNCHANGED <<mbxVars, pdVars, sizeVars, dcVars>>

\* INIT_TO_PREOP, INIT_TO_BOOT, BOOT_TO_BOOT: ESC_startmbx, ESC_startmbxboot.
StartMbx ==
  LET boot  == To({"BOOT"})
      kind  == IF boot THEN "boot" ELSE "std"
  IN  /\ \/ From({"INIT"}) /\ To({"PREOP", "BOOT"})
         \/ From({"BOOT"}) /\ To({"BOOT"})
      /\ IF smMbx = kind
         THEN /\ mailbox' = kind /\ mbxOff' = FALSE
              /\ Reach(Request.req)
         ELSE /\ mailbox' = "off" /\ mbxOff' = TRUE
              /\ Refuse("INIT", IF boot THEN "INVALIDBOOTMBXCONFIG"
                                        ELSE "INVALIDMBXCONFIG")
      /\ EndPending
      /\ UNCHANGED <<pdVars, sizeVars, dcVars>>

\* The transitions the state machine does not have, outputs inactive.
RefuseTransition ==
  /\ \/ From({"INIT"})   /\ To({"SAFEOP", "OP"}) /\ Refuse("INIT", "INVALIDSTATECHANGE")
     \/ From({"PREOP"})  /\ To({"BOOT", "OP"})   /\ Refuse("PREOP", "INVALIDSTATECHANGE")
     \/ From({"BOOT"})   /\ To({"PREOP", "SAFEOP", "OP"})
                         /\ Refuse("PREOP", "INVALIDSTATECHANGE")
     \/ From({"SAFEOP"}) /\ To({"BOOT"})         /\ Refuse("SAFEOP", "INVALIDSTATECHANGE")
  /\ EndPending
  /\ UNCHANGED <<mbxVars, pdVars, sizeVars, dcVars>>

ToInit ==
  /\ From(States \ {"INIT"}) /\ To({"INIT"})
  /\ Reach("INIT")
  /\ CASE alState = "OP"     -> StopOutputAndInput
       [] alState = "SAFEOP" -> StopInput
       [] OTHER              -> UNCHANGED pdVars
  /\ StopMbx
  /\ EndPending
  /\ UNCHANGED <<sizeVars, dcVars>>

BackToPreop ==
  /\ From({"SAFEOP", "OP"}) /\ To({"PREOP"})
  /\ Reach("PREOP")
  /\ IF alState = "OP" THEN StopOutputAndInput ELSE StopInput
  /\ EndPending
  /\ UNCHANGED <<mbxVars, sizeVars, dcVars>>

\* ESC_checkDC, DC not activated.
ClearDC ==
  /\ dcsync' = FALSE /\ synccounter' = 0 /\ syncerror' = FALSE
  /\ sm_event_seen' = FALSE /\ missedRun' = 0
  /\ UNCHANGED synccounterlimit

\* dc_checker of cia402_drive, DC activated and accepted.
AcceptDC ==
  /\ dcsync' = TRUE
  /\ synccounterlimit' \in SyncLimits
  /\ UNCHANGED <<synccounter, syncerror, sm_event_seen, missedRun>>

\* ESC_startinput once ESC_checkSM23 has passed.
InputsStarted ==
  /\ AppState' = {"INPUT"} /\ UNCHANGED setpoint
  /\ pdiOff' = pdiOff \ (IF sm3sml' > 0 THEN {2, 3} ELSE {2})
  /\ Reach("SAFEOP")

InputsRefused(code) ==
  /\ pdiOff' = {2, 3} /\ UNCHANGED setpoint
  /\ Refuse("PREOP", code)

\* PREOP_TO_SAFEOP, SAFEOP_TO_SAFEOP
ToSafeop ==
  /\ From({"PREOP", "SAFEOP"}) /\ To({"SAFEOP"})
  /\ \/ /\ MapError \in RxSizes
        /\ sm2sml' = 0 /\ UNCHANGED sm3sml
        /\ Refuse("PREOP", "INVALIDOUTPUTSM")
        /\ UNCHANGED <<pdVars, dcVars>>
     \/ /\ sm2sml' \in RxSizes \ {MapError}
        /\ MapError \in TxSizes /\ sm3sml' = 0
        /\ Refuse("PREOP", "INVALIDINPUTSM")
        /\ UNCHANGED <<pdVars, dcVars>>
     \/ /\ sm2sml' \in RxSizes \ {MapError} /\ sm3sml' \in TxSizes \ {MapError}
        /\ IF SM23Error(sm2sml', sm3sml') # "NONE"
           THEN /\ InputsRefused(SM23Error(sm2sml', sm3sml'))
                /\ UNCHANGED <<AppState, dcVars>>
           ELSE \/ /\ ~UseInterrupt
                   /\ InputsStarted /\ UNCHANGED dcVars
                \/ /\ UseInterrupt /\ ~syncAct
                   /\ InputsStarted /\ ClearDC
                \/ /\ UseInterrupt /\ syncAct
                   /\ InputsStarted /\ AcceptDC
                \/ /\ UseInterrupt /\ syncAct
                   /\ \E code \in DcErrors : InputsRefused(code)
                   /\ AppState' = {} /\ UNCHANGED dcVars
  /\ EndPending
  /\ UNCHANGED mbxVars

\* SAFEOP_TO_OP: at once, or under DC held for ESC_op_pending_step.
SafeopToOp ==
  /\ From({"SAFEOP"}) /\ To({"OP"})
  /\ IF dcsync
     THEN /\ op_pending' = TRUE
          /\ op_seen_sync0' = FALSE /\ op_seen_sm' = FALSE
          /\ op_pending_ns' = 0 /\ op_valid_ns' = 0
          /\ Reach("SAFEOP")
          /\ UNCHANGED pdVars
     ELSE /\ StartOutput
          /\ Reach("OP")
          /\ EndPending
  /\ UNCHANGED <<mbxVars, sizeVars, dcVars>>

OpToSafeop ==
  /\ From({"OP"}) /\ To({"SAFEOP"})
  /\ Reach("SAFEOP")
  /\ StopOutput
  /\ EndPending
  /\ UNCHANGED <<mbxVars, sizeVars, dcVars>>

\* OP_TO_BOOT, and a request that is no state: without outputs, SM3 signals it.
LeaveOpWithError(code) ==
  /\ Refuse("SAFEOP", code)
  /\ AppState' = AppState \cap {"INPUT"}
  /\ pdiOff' = pdiOff \cup (IF sm2sml = 0 /\ sm3sml > 0 THEN {2, 3} ELSE {2})
  /\ setpoint' = "safe"

OpToBoot ==
  /\ From({"OP"}) /\ To({"BOOT"})
  /\ LeaveOpWithError("INVALIDSTATECHANGE")
  /\ EndPending
  /\ UNCHANGED <<mbxVars, sizeVars, dcVars>>

UnknownRequest ==
  /\ To({"ZERO", "OTHER"})
  /\ IF alState = "OP" THEN LeaveOpWithError("UNKNOWNSTATE")
     ELSE /\ Refuse(alState, "UNKNOWNSTATE")
          /\ IF alState = "SAFEOP" /\ To({"ZERO"}) THEN StopInput
             ELSE UNCHANGED pdVars
  /\ EndPending
  /\ UNCHANGED <<mbxVars, sizeVars, dcVars>>

\* Mutant of RequestIgnored: OP asked for again starts the wait again.
RequestIgnoredInError == alErr /\ ~Acknowledges(Request)

\* Nothing changes: the error is not acknowledged, or OP is already pending.
RequestIgnored ==
  \/ (alErr /\ ~Acknowledges(Request))
  \/ (op_pending /\ From({"SAFEOP"}) /\ To({"OP"}))

Transition ==
  \/ SameState \/ StartMbx \/ RefuseTransition \/ ToInit \/ BackToPreop
  \/ ToSafeop \/ SafeopToOp \/ OpToSafeop \/ OpToBoot \/ UnknownRequest

\* Reading AL control acknowledges its event; the event register is read with it.
ReadControl ==
  /\ ALcontrol' = control
  /\ events' = events \ {"CONTROL"}
  /\ ALevent' = events'

ESC_state ==
  /\ UNCHANGED <<control, smRegs>>
  /\ IF "CONTROL" \notin ALevent
     THEN UNCHANGED <<events, ALcontrol, ALevent, alVars, mbxVars, pdVars,
                      sizeVars, dcVars, opVars>>
     ELSE /\ ReadControl
          /\ IF RequestIgnored
             THEN UNCHANGED <<alVars, mbxVars, pdVars, sizeVars, dcVars, opVars>>
             ELSE Transition

-----------------------------------------------------------------------------
(* ESC_sm_act_event: the master changed a SyncManager.                     *)

\* In the error state with no acknowledgement in the last control word read.
ErrorStands == alErr /\ ~Acknowledges(ALcontrol)

\* Not in INIT, and in BOOT only when its error bit makes `as' differ from it.
ChecksSyncManagers ==
  /\ mailbox # "off"
  /\ alState \in {"PREOP", "SAFEOP", "OP"} \/ (alState = "BOOT" /\ alErr)

StepDownToInit ==
  /\ ~ErrorStands /\ MbxBad
  /\ IF AppState # {} THEN StopOutputAndInput ELSE UNCHANGED pdVars
  /\ StopMbx
  /\ Refuse("INIT", "INVALIDMBXCONFIG")

\* ESC_checkSM23 returns the state it is given when it passes, and the state
\* given is AL status with its error bit: PREOP with error reads as a failure,
\* reported with whatever SMtestresult an earlier check left.
SM23Fails == SM23Error(sm2sml, sm3sml) # "NONE" \/ (alState = "PREOP" /\ alErr)

StepDownToPreop ==
  /\ ~ErrorStands /\ ~MbxBad
  /\ AppState # {} /\ SM23Fails
  /\ StopOutputAndInput
  /\ \E code \in IF SM23Error(sm2sml, sm3sml) # "NONE"
                  THEN {SM23Error(sm2sml, sm3sml)}
                  ELSE {"INVALIDOUTPUTSM", "INVALIDINPUTSM"} : Refuse("PREOP", code)
  /\ UNCHANGED mbxVars

\* No step down; a mailbox check that fails has disabled SM0 and SM1 even so.
KeepState ==
  /\ ErrorStands \/ (~MbxBad /\ (AppState = {} \/ ~SM23Fails))
  /\ mbxOff' = (mbxOff \/ MbxBad)
  /\ UNCHANGED <<mailbox, alVars, pdVars>>

\* Reading the activation registers acknowledges the event; a check that
\* fails at SM2 never reads SM3, whose event may then stay.
ESC_sm_act_event ==
  /\ UNCHANGED <<control, smRegs, ALcontrol, sizeVars, dcVars, opVars>>
  /\ IF "SMCHANGE" \notin ALevent
     THEN UNCHANGED <<events, ALevent, alVars, mbxVars, pdVars>>
     ELSE /\ \/ events' = events \ {"SMCHANGE"}
             \/ /\ ChecksSyncManagers
                /\ SM23Error(sm2sml, sm3sml) = "INVALIDOUTPUTSM"
                /\ events' = events
          /\ ALevent' = events'
          /\ IF ChecksSyncManagers
             THEN StepDownToInit \/ StepDownToPreop \/ KeepState
             ELSE UNCHANGED <<alVars, mbxVars, pdVars>>

-----------------------------------------------------------------------------
(* ESC_op_pending_step.  synccounter' is the count this period leaves.     *)

OpPendingStep(sync0, sm, elapsed) ==
  LET pending == op_pending_ns + elapsed
      seen0   == op_seen_sync0 \/ sync0
      seenSm  == op_seen_sm \/ sm
      good    == /\ sync0
                 /\ IF synccounterlimit > 0 THEN synccounter' < synccounterlimit
                                            ELSE sm \/ sm2sml = 0
      valid   == IF good THEN op_valid_ns + elapsed ELSE 0
      inStep  == valid >= OpSyncValid /\ (seenSm \/ sm2sml = 0)
      missing == IF ~seen0 THEN "NOSYNCERROR"
                 ELSE IF ~seenSm /\ sm2sml > 0 THEN "WATCHDOG" ELSE "SYNCERROR"
  IN  IF ~op_pending
      THEN UNCHANGED <<opVars, alVars, pdVars>>
      ELSE /\ op_pending_ns' = pending /\ op_valid_ns' = valid
           /\ op_seen_sync0' = seen0 /\ op_seen_sm' = seenSm
           /\ op_pending' = ~(inStep \/ pending >= OpPendingTimeout)
           /\ IF inStep
              THEN StartOutput /\ alState' = "OP" /\ alErr' = FALSE /\ ALerror' = "NONE"
              ELSE IF pending >= OpPendingTimeout
              THEN Refuse("SAFEOP", missing) /\ UNCHANGED pdVars
              ELSE UNCHANGED <<alVars, pdVars>>

=============================================================================
