-------------------------- MODULE SlaveLoopProofs --------------------------
(***************************************************************************)
(* Proofs about SlaveLoop, for every value of the constants, whatever the  *)
(* chip and the wait do. For every master: what the slave does with the    *)
(* outputs agrees with the AL state it shows, an error has a reason, and   *)
(* runs of missed SYNC0 periods are bounded. Without DC: the mailbox       *)
(* follows the state and promotions are asked for. For a master that sets  *)
(* up below SAFEOP and acknowledges below OP: inputs, held requests, and   *)
(* the verdicts of the hardware watchdog.                                  *)
(***************************************************************************)
EXTENDS SlaveLoop, TLAPS

-----------------------------------------------------------------------------
(* Types: one lemma per group of variables and handler, then one per group *)
(* and step.                                                              *)

USE DEF alVars, mbxVars, sizeVars, pdVars, dcVars, opVars, smRegs, escVars, passVars,
        wdVars, envVars

-----------------------------------------------------------------------------
(* The initial state.                                                      *)

LEMMA ZeroCounter == 0 \in Int16
BY DEF Int16

LEMMA InitTypes == Init => TypeOK
<1> SUFFICES ASSUME Init PROVE TypeOK
  OBVIOUS
<1>1. MasterTypes
  BY DEF Init, MasterTypes, ControlWords, ReqCodes, States
<1>2. EventTypes
  BY DEF Init, EventTypes, EventBits, ControlWords, ReqCodes, States
<1>3. AlTypes
  BY DEF Init, AlTypes, States, AlErrors
<1>4. PdTypes
  BY DEF Init, PdTypes
<1>5. DcTypes
  BY ZeroCounter DEF Init, DcTypes
<1>6. OpTypes
  BY DEF Init, OpTypes
<1>7. LoopTypes
  <2>1. watchdog \in Nat
    BY LoopConstantsAssumption DEF Init
  <2>2. /\ pc \in {"wait", "state", "smact", "pd", "sync"} /\ dcPass \in BOOLEAN
        /\ sync0 \in BOOLEAN /\ stateEvent \in BOOLEAN
        /\ hw_wd_state \in {"UNCHECKED", "WAITING", "RUNNING", "DISABLED"}
    BY DEF Init
  <2>3. hw_wd_quiet \in Nat /\ heldExpired \in Nat
    BY DEF Init
  <2> QED BY <2>1, <2>2, <2>3 DEF LoopTypes
<1> QED BY <1>1, <1>2, <1>3, <1>4, <1>5, <1>6, <1>7 DEF TypeOK

-----------------------------------------------------------------------------
(* What the master writes, and the event registers.                        *)

LEMMA MasterTypesStep ==
  ASSUME MasterTypes, [Next]_vars
  PROVE  MasterTypes'
<1>1. ASSUME UNCHANGED <<control, smRegs, envVars>> PROVE MasterTypes'
  BY <1>1 DEF MasterTypes
<1>2. CASE Slave
  <2>1. UNCHANGED <<control, smRegs, envVars>>
    BY <1>2 DEF Slave, Poll, WaitSync0, WaitTimeoutFatal, WaitTimeout, ProcessOutputs,
                Sync0Edge, StateStep, SmActStep, ProcessData, ESC_state, ESC_sm_act_event
  <2> QED BY <2>1, <1>1
<1>3. CASE WriteControl
  BY <1>3, LoopConstantsAssumption DEF WriteControl, ControlWords, MasterTypes
<1>4. CASE Reconfigure
  <2>1. /\ MbxSettings \subseteq {"std", "boot", "bad"}
        /\ OutLengths \subseteq Nat \cup {BadSM} /\ InLengths \subseteq Nat \cup {BadSM}
    BY LoopConstantsAssumption
  <2>2. /\ smMbx' \in MbxSettings \/ smMbx' = smMbx
        /\ smOut' \in OutLengths \/ smOut' = smOut
        /\ smIn' \in InLengths \/ smIn' = smIn
        /\ UNCHANGED <<control, syncAct, wdOk, masterUp>>
    BY <1>4 DEF Reconfigure
  <2>3. smMbx' \in {"std", "boot", "bad"}
    BY <2>1, <2>2 DEF MasterTypes
  <2>4. smOut' \in Nat \cup {BadSM} /\ smIn' \in Nat \cup {BadSM}
    BY <2>1, <2>2 DEF MasterTypes
  <2> QED BY <2>2, <2>3, <2>4 DEF MasterTypes
<1>5. CASE SwitchDC
  <2>1. syncAct' \in BOOLEAN
    BY <1>5, LoopConstantsAssumption DEF SwitchDC
  <2> QED BY <1>5, <2>1 DEF SwitchDC, MasterTypes
<1>6. CASE Frame
  <2>1. wdOk' \in BOOLEAN
    BY <1>6 DEF Frame, MasterTypes
  <2> QED BY <1>6, <2>1 DEF Frame, MasterTypes
<1>7. CASE MasterStops
  BY <1>7 DEF MasterStops, MasterTypes
<1>8. CASE WatchdogExpires
  BY <1>8 DEF WatchdogExpires, MasterTypes
<1>9. CASE UNCHANGED vars
  BY <1>9, <1>1 DEF vars
<1> QED
  BY <1>2, <1>3, <1>4, <1>5, <1>6, <1>7, <1>8, <1>9 DEF Next, Master

LEMMA EventTypesStep ==
  ASSUME EventTypes, MasterTypes, [Next]_vars
  PROVE  EventTypes'
<1>1. ASSUME UNCHANGED <<events, ALevent, ALcontrol>> PROVE EventTypes'
  BY <1>1 DEF EventTypes
<1>2. CASE Poll \/ WaitSync0 \/ WaitTimeoutFatal \/ WaitTimeout
  BY <1>2 DEF Poll, WaitSync0, WaitTimeoutFatal, WaitTimeout, Capture, EventTypes
<1>3. CASE ProcessOutputs
  BY <1>3 DEF ProcessOutputs, WatchdogAndOutputs, EventTypes
<1>4. CASE Sync0Edge
  BY <1>4 DEF Sync0Edge, EventTypes
<1>5. CASE StateStep
  BY <1>5 DEF StateStep, ESC_state, ReadControl, EventTypes, MasterTypes
<1>6. CASE SmActStep
  BY <1>6 DEF SmActStep, ESC_sm_act_event, EventTypes
<1>7. CASE ProcessData
  BY <1>7 DEF ProcessData, WatchdogAndOutputs, EventTypes
<1>8. CASE WriteControl \/ Reconfigure
  BY <1>8 DEF WriteControl, Reconfigure, EventTypes, EventBits
<1>9. CASE Frame
  <2>1. PICK S \in Frames : events' = events \cup S
    BY <1>9 DEF Frame
  <2>2. S \subseteq EventBits
    BY <2>1, LoopConstantsAssumption DEF EventBits
  <2> QED BY <1>9, <2>1, <2>2 DEF Frame, EventTypes
<1>10. CASE SwitchDC \/ MasterStops \/ WatchdogExpires
  BY <1>10, <1>1 DEF SwitchDC, MasterStops, WatchdogExpires
<1>11. CASE UNCHANGED vars
  BY <1>11, <1>1 DEF vars
<1> QED
  BY <1>2, <1>3, <1>4, <1>5, <1>6, <1>7, <1>8, <1>9, <1>10, <1>11
     DEF Next, Slave, Master
-----------------------------------------------------------------------------
(* AL status and the mailbox.                                              *)

LEMMA AlTypesUnchanged ==
  ASSUME AlTypes, UNCHANGED <<alVars, mbxVars>>
  PROVE  AlTypes'
BY DEF AlTypes

LEMMA TransitionAlTypes ==
  ASSUME AlTypes, Transition
  PROVE  AlTypes'
<1> USE DEF Reach, Refuse, From, To, States, AlErrors, AlTypes
<1>1. CASE SameState
  BY <1>1 DEF SameState
<1>2. CASE StartMbx
  BY <1>2 DEF StartMbx
<1>3. CASE RefuseTransition
  BY <1>3 DEF RefuseTransition
<1>4. CASE ToInit
  BY <1>4 DEF ToInit, StopMbx
<1>5. CASE BackToPreop
  BY <1>5 DEF BackToPreop
<1>6. CASE ToSafeop
  BY <1>6 DEF ToSafeop, InputsStarted, InputsRefused, SM23Error
<1>7. CASE SafeopToOp
  BY <1>7 DEF SafeopToOp
<1>8. CASE OpToSafeop
  BY <1>8 DEF OpToSafeop
<1>9. CASE OpToBoot
  BY <1>9 DEF OpToBoot, LeaveOpWithError
<1>10. CASE UnknownRequest
  BY <1>10 DEF UnknownRequest, LeaveOpWithError
<1> QED BY <1>1, <1>2, <1>3, <1>4, <1>5, <1>6, <1>7, <1>8, <1>9, <1>10 DEF Transition

LEMMA SmActAlTypes ==
  ASSUME AlTypes, ESC_sm_act_event
  PROVE  AlTypes'
<1>1. CASE UNCHANGED <<alVars, mbxVars>>
  BY <1>1, AlTypesUnchanged
<1>2. CASE StepDownToInit
  BY <1>2 DEF StepDownToInit, StopMbx, Refuse, AlTypes, States, AlErrors
<1>3. CASE StepDownToPreop
  BY <1>3 DEF StepDownToPreop, Refuse, SM23Error, AlTypes, States, AlErrors
<1>4. CASE KeepState
  BY <1>4 DEF KeepState, AlTypes
<1> QED BY <1>1, <1>2, <1>3, <1>4 DEF ESC_sm_act_event

LEMMA GotoErrorAlTypes ==
  ASSUME AlTypes, NEW code \in AlErrors, GotoError(code), UNCHANGED mbxVars
  PROVE  AlTypes'
BY DEF GotoError, AlTypes, States

LEMMA OpPendingStepAlTypes ==
  ASSUME AlTypes, NEW rc, NEW sm, NEW elapsed, OpPendingStep(rc, sm, elapsed),
         UNCHANGED mbxVars
  PROVE  AlTypes'
<1>1. \/ UNCHANGED alVars
      \/ alState' = "OP" /\ alErr' = FALSE /\ ALerror' = "NONE"
      \/ \E code \in {"NOSYNCERROR", "WATCHDOG", "SYNCERROR"} : Refuse("SAFEOP", code)
  BY DEF OpPendingStep
<1> QED BY <1>1 DEF AlTypes, States, AlErrors, Refuse

LEMMA WatchdogAlTypes ==
  ASSUME AlTypes, NEW inputs, WatchdogAndOutputs(inputs), UNCHANGED mbxVars
  PROVE  AlTypes'
<1>1. CASE GotoError("WATCHDOG")
  BY <1>1, GotoErrorAlTypes DEF AlErrors
<1>2. CASE UNCHANGED alVars
  BY <1>2, AlTypesUnchanged
<1> QED BY <1>1, <1>2 DEF WatchdogAndOutputs

LEMMA AlTypesStep ==
  ASSUME AlTypes, [Next]_vars
  PROVE  AlTypes'
<1>1. CASE Poll \/ WaitSync0
  BY <1>1, AlTypesUnchanged DEF Poll, WaitSync0
<1>2. CASE WaitTimeoutFatal
  BY <1>2, GotoErrorAlTypes DEF WaitTimeoutFatal, AlErrors
<1>3. CASE WaitTimeout
  BY <1>3, OpPendingStepAlTypes DEF WaitTimeout
<1>4. CASE ProcessOutputs
  BY <1>4, WatchdogAlTypes, AlTypesUnchanged DEF ProcessOutputs
<1>5. CASE Sync0Edge
  <2>1. UNCHANGED mbxVars
    BY <1>5 DEF Sync0Edge
  <2>2. \/ UNCHANGED alVars \/ GotoError("SYNCERROR")
        \/ OpPendingStep(TRUE, sm_event_seen, 1)
    BY <1>5 DEF Sync0Edge, Sync0Period
  <2> QED
    BY <2>1, <2>2, AlTypesUnchanged, GotoErrorAlTypes, OpPendingStepAlTypes DEF AlErrors
<1>6. CASE StateStep
  BY <1>6, TransitionAlTypes, AlTypesUnchanged DEF StateStep, ESC_state
<1>7. CASE SmActStep
  BY <1>7, SmActAlTypes DEF SmActStep
<1>8. CASE ProcessData
  BY <1>8, WatchdogAlTypes DEF ProcessData
<1>9. CASE Master \/ WatchdogExpires
  BY <1>9, AlTypesUnchanged
     DEF Master, WriteControl, Reconfigure, SwitchDC, Frame, MasterStops, WatchdogExpires
<1>10. CASE UNCHANGED vars
  BY <1>10, AlTypesUnchanged DEF vars
<1> QED
  BY <1>1, <1>2, <1>3, <1>4, <1>5, <1>6, <1>7, <1>8, <1>9, <1>10 DEF Next, Slave

-----------------------------------------------------------------------------
(* Process data.                                                           *)

LEMMA PdTypesUnchanged ==
  ASSUME PdTypes, UNCHANGED <<pdVars, sizeVars>>
  PROVE  PdTypes'
BY DEF PdTypes

LEMMA StopsKeepPdTypes ==
  ASSUME PdTypes, StopOutput \/ StopInput \/ StopOutputAndInput \/ StartOutput,
         UNCHANGED sizeVars
  PROVE  PdTypes'
<1>1. AppState' \subseteq {"INPUT", "OUTPUT"}
  BY DEF StopOutput, StopInput, StopOutputAndInput, StartOutput, PdTypes
<1>2. pdiOff' \subseteq {2, 3}
  BY DEF StopOutput, StopInput, StopOutputAndInput, StartOutput, PdTypes
<1>3. setpoint' \in {"safe", "applied"}
  BY DEF StopOutput, StopInput, StopOutputAndInput, StartOutput, PdTypes
<1> QED BY <1>1, <1>2, <1>3 DEF PdTypes

LEMMA ToSafeopPdTypes ==
  ASSUME PdTypes, ToSafeop
  PROVE  PdTypes'
<1>0. /\ RxSizes \ {MapError} \subseteq Nat
      /\ TxSizes \ {MapError} \subseteq Nat
  BY ConstantsAssumption
<1>1. sm2sml' = 0 \/ sm2sml' \in RxSizes \ {MapError}
  BY DEF ToSafeop
<1>2. sm3sml' = 0 \/ sm3sml' = sm3sml \/ sm3sml' \in TxSizes \ {MapError}
  BY DEF ToSafeop
<1>3. AppState' \subseteq {"INPUT", "OUTPUT"} /\ UNCHANGED setpoint
  BY DEF ToSafeop, InputsStarted, InputsRefused, PdTypes
<1>4. pdiOff' \subseteq {2, 3}
  BY DEF ToSafeop, InputsStarted, InputsRefused, PdTypes
<1>5. sm2sml' \in Nat /\ sm3sml' \in Nat
  BY <1>0, <1>1, <1>2 DEF PdTypes
<1> QED BY <1>3, <1>4, <1>5 DEF PdTypes

LEMMA LeaveOpPdTypes ==
  ASSUME PdTypes, NEW code, LeaveOpWithError(code), UNCHANGED sizeVars
  PROVE  PdTypes'
<1>1. pdiOff' \subseteq {2, 3}
  BY DEF LeaveOpWithError, PdTypes
<1> QED BY <1>1 DEF LeaveOpWithError, PdTypes

LEMMA TransitionPdTypes ==
  ASSUME PdTypes, Transition
  PROVE  PdTypes'
<1>1. CASE SameState \/ StartMbx \/ RefuseTransition
  BY <1>1, PdTypesUnchanged DEF SameState, StartMbx, RefuseTransition
<1>2. CASE ToInit
  BY <1>2, PdTypesUnchanged, StopsKeepPdTypes DEF ToInit
<1>3. CASE BackToPreop
  BY <1>3, StopsKeepPdTypes DEF BackToPreop
<1>4. CASE ToSafeop
  BY <1>4, ToSafeopPdTypes
<1>5. CASE SafeopToOp
  BY <1>5, PdTypesUnchanged, StopsKeepPdTypes DEF SafeopToOp
<1>6. CASE OpToSafeop
  BY <1>6, StopsKeepPdTypes DEF OpToSafeop
<1>7. CASE OpToBoot
  BY <1>7, LeaveOpPdTypes DEF OpToBoot
<1>8. CASE UnknownRequest
  BY <1>8, LeaveOpPdTypes, PdTypesUnchanged, StopsKeepPdTypes DEF UnknownRequest
<1> QED BY <1>1, <1>2, <1>3, <1>4, <1>5, <1>6, <1>7, <1>8 DEF Transition

LEMMA GotoErrorPdTypes ==
  ASSUME PdTypes, NEW code, GotoError(code), UNCHANGED sizeVars
  PROVE  PdTypes'
BY PdTypesUnchanged, StopsKeepPdTypes DEF GotoError

LEMMA OpPendingStepPdTypes ==
  ASSUME PdTypes, NEW rc, NEW sm, NEW elapsed, OpPendingStep(rc, sm, elapsed),
         UNCHANGED sizeVars
  PROVE  PdTypes'
<1>1. UNCHANGED pdVars \/ StartOutput
  BY DEF OpPendingStep
<1> QED BY <1>1, PdTypesUnchanged, StopsKeepPdTypes

LEMMA WatchdogPdTypes ==
  ASSUME PdTypes, NEW inputs, WatchdogAndOutputs(inputs), UNCHANGED sizeVars
  PROVE  PdTypes'
<1>1. CASE GotoError("WATCHDOG")
  BY <1>1, GotoErrorPdTypes
<1>2. CASE setpoint' \in {"applied", setpoint} /\ UNCHANGED <<AppState, pdiOff>>
  BY <1>2 DEF PdTypes
<1> QED BY <1>1, <1>2 DEF WatchdogAndOutputs

LEMMA PdTypesStep ==
  ASSUME PdTypes, [Next]_vars
  PROVE  PdTypes'
<1>1. CASE Poll \/ WaitSync0
  BY <1>1, PdTypesUnchanged DEF Poll, WaitSync0
<1>2. CASE WaitTimeoutFatal
  BY <1>2, GotoErrorPdTypes DEF WaitTimeoutFatal
<1>3. CASE WaitTimeout
  BY <1>3, OpPendingStepPdTypes DEF WaitTimeout
<1>4. CASE ProcessOutputs
  BY <1>4, WatchdogPdTypes, PdTypesUnchanged DEF ProcessOutputs
<1>5. CASE Sync0Edge
  <2>1. UNCHANGED sizeVars
    BY <1>5 DEF Sync0Edge
  <2>2. \/ UNCHANGED pdVars \/ GotoError("SYNCERROR")
        \/ OpPendingStep(TRUE, sm_event_seen, 1)
    BY <1>5 DEF Sync0Edge, Sync0Period
  <2> QED BY <2>1, <2>2, PdTypesUnchanged, GotoErrorPdTypes, OpPendingStepPdTypes
<1>6. CASE StateStep
  BY <1>6, TransitionPdTypes, PdTypesUnchanged DEF StateStep, ESC_state
<1>7. CASE SmActStep
  BY <1>7, PdTypesUnchanged, StopsKeepPdTypes
     DEF SmActStep, ESC_sm_act_event, StepDownToInit, StepDownToPreop, KeepState
<1>8. CASE ProcessData
  BY <1>8, WatchdogPdTypes DEF ProcessData
<1>9. CASE Master \/ WatchdogExpires
  BY <1>9, PdTypesUnchanged
     DEF Master, WriteControl, Reconfigure, SwitchDC, Frame, MasterStops, WatchdogExpires
<1>10. CASE UNCHANGED vars
  BY <1>10, PdTypesUnchanged DEF vars
<1> QED
  BY <1>1, <1>2, <1>3, <1>4, <1>5, <1>6, <1>7, <1>8, <1>9, <1>10 DEF Next, Slave

-----------------------------------------------------------------------------
(* Distributed clocks and the held request for OP.                         *)

LEMMA DcTypesUnchanged ==
  ASSUME DcTypes, UNCHANGED <<dcsync, synccounterlimit, synccounter, missedRun>>,
         syncerror' \in BOOLEAN, sm_event_seen' \in BOOLEAN
  PROVE  DcTypes'
BY DEF DcTypes

LEMMA ToSafeopDcTypes ==
  ASSUME DcTypes, ToSafeop
  PROVE  DcTypes'
<1>1. CASE UNCHANGED dcVars
  BY <1>1, DcTypesUnchanged DEF DcTypes
<1>2. CASE ClearDC
  BY <1>2, ZeroCounter DEF ClearDC, DcTypes
<1>3. CASE AcceptDC
  <2>1. SyncLimits \subseteq Nat
    BY ConstantsAssumption
  <2> QED BY <1>3, <2>1 DEF AcceptDC, DcTypes
<1> QED BY <1>1, <1>2, <1>3 DEF ToSafeop

LEMMA TransitionDcTypes ==
  ASSUME DcTypes, Transition
  PROVE  DcTypes'
<1>1. CASE UNCHANGED dcVars
  BY <1>1, DcTypesUnchanged DEF DcTypes
<1> QED BY <1>1, ToSafeopDcTypes
      DEF Transition, SameState, StartMbx, RefuseTransition, ToInit, BackToPreop,
          SafeopToOp, OpToSafeop, OpToBoot, UnknownRequest

\* Whatever the period counts, the counter keeps what an int16_t can hold.
LEMMA Sync0PeriodDcTypes ==
  ASSUME DcTypes, Sync0Period
  PROVE  DcTypes'
<1>1. synccounter \in Int
  BY DEF DcTypes, Int16
<1>2. SyncCount(sm_event_seen) \in Int
  BY <1>1 DEF SyncCount, CountServed, CountMissed
<1>3. synccounter' \in Int16
  BY <1>2 DEF Sync0Period, Stored, Int16
<1>4. missedRun' \in Nat
  BY DEF Sync0Period, DcTypes
<1>5. syncerror' \in BOOLEAN /\ sm_event_seen' \in BOOLEAN
  BY DEF Sync0Period, DcTypes
<1>6. UNCHANGED <<dcsync, synccounterlimit>>
  BY DEF Sync0Period
<1> QED BY <1>3, <1>4, <1>5, <1>6 DEF DcTypes

LEMMA DcTypesStep ==
  ASSUME DcTypes, [Next]_vars
  PROVE  DcTypes'
<1>1. CASE UNCHANGED dcVars
  BY <1>1, DcTypesUnchanged DEF DcTypes
<1>2. CASE WaitTimeoutFatal
  BY <1>2, DcTypesUnchanged DEF WaitTimeoutFatal, DcTypes
<1>3. CASE ProcessOutputs
  BY <1>3, DcTypesUnchanged DEF ProcessOutputs, DcTypes
<1>4. CASE Sync0Edge
  BY <1>4, <1>1, Sync0PeriodDcTypes DEF Sync0Edge
<1>5. CASE StateStep
  BY <1>5, <1>1, TransitionDcTypes DEF StateStep, ESC_state
<1>6. CASE Poll \/ WaitSync0 \/ WaitTimeout \/ SmActStep \/ ProcessData
  BY <1>6, <1>1 DEF Poll, WaitSync0, WaitTimeout, SmActStep, ESC_sm_act_event, ProcessData
<1>7. CASE Master \/ WatchdogExpires
  BY <1>7, <1>1
     DEF Master, WriteControl, Reconfigure, SwitchDC, Frame, MasterStops, WatchdogExpires
<1>8. CASE UNCHANGED vars
  BY <1>8, <1>1 DEF vars
<1> QED
  BY <1>2, <1>3, <1>4, <1>5, <1>6, <1>7, <1>8 DEF Next, Slave

LEMMA OpTypesUnchanged ==
  ASSUME OpTypes, UNCHANGED opVars \/ EndPending
  PROVE  OpTypes'
BY DEF OpTypes, EndPending

LEMMA TransitionOpTypes ==
  ASSUME OpTypes, Transition
  PROVE  OpTypes'
<1>1. CASE SafeopToOp
  <2>1. CASE EndPending
    BY <2>1, OpTypesUnchanged
  <2>2. CASE /\ op_pending' = TRUE /\ op_seen_sync0' = FALSE /\ op_seen_sm' = FALSE
             /\ op_pending_ns' = 0 /\ op_valid_ns' = 0
    BY <2>2 DEF OpTypes
  <2> QED BY <1>1, <2>1, <2>2 DEF SafeopToOp
<1> QED BY <1>1, OpTypesUnchanged
      DEF Transition, SameState, StartMbx, RefuseTransition, ToInit, BackToPreop,
          ToSafeop, OpToSafeop, OpToBoot, UnknownRequest

LEMMA OpPendingStepOpTypes ==
  ASSUME OpTypes, NEW rc \in BOOLEAN, NEW sm \in BOOLEAN, NEW elapsed \in Nat,
         OpPendingStep(rc, sm, elapsed)
  PROVE  OpTypes'
<1>1. op_pending_ns' \in Nat
  BY DEF OpPendingStep, OpTypes
<1>2. op_valid_ns' \in Nat
  BY DEF OpPendingStep, OpTypes
<1>3. op_pending' \in BOOLEAN
  BY DEF OpPendingStep, OpTypes
<1>4. op_seen_sync0' \in BOOLEAN /\ op_seen_sm' \in BOOLEAN
  BY DEF OpPendingStep, OpTypes
<1> QED BY <1>1, <1>2, <1>3, <1>4 DEF OpTypes

LEMMA GotoErrorOpTypes ==
  ASSUME OpTypes, NEW code, GotoError(code)
  PROVE  OpTypes'
BY DEF GotoError, OpTypes

LEMMA OpTypesStep ==
  ASSUME OpTypes, DcTypes, [Next]_vars
  PROVE  OpTypes'
<1>1. CASE UNCHANGED opVars
  BY <1>1, OpTypesUnchanged
<1>2. CASE WaitTimeoutFatal
  BY <1>2, GotoErrorOpTypes DEF WaitTimeoutFatal
<1>3. CASE WaitTimeout
  BY <1>3, OpPendingStepOpTypes DEF WaitTimeout
<1>4. CASE ProcessOutputs \/ ProcessData
  BY <1>4, <1>1, GotoErrorOpTypes DEF ProcessOutputs, ProcessData, WatchdogAndOutputs
<1>5. CASE Sync0Edge
  <2>1. sm_event_seen \in BOOLEAN
    BY DEF DcTypes
  <2> QED
    BY <1>5, <1>1, <2>1, GotoErrorOpTypes, OpPendingStepOpTypes DEF Sync0Edge, Sync0Period
<1>6. CASE StateStep
  BY <1>6, <1>1, TransitionOpTypes DEF StateStep, ESC_state
<1>7. CASE Poll \/ WaitSync0 \/ SmActStep
  BY <1>7, <1>1 DEF Poll, WaitSync0, SmActStep, ESC_sm_act_event
<1>8. CASE Master \/ WatchdogExpires
  BY <1>8, <1>1
     DEF Master, WriteControl, Reconfigure, SwitchDC, Frame, MasterStops, WatchdogExpires
<1>9. CASE UNCHANGED vars
  BY <1>9, <1>1 DEF vars
<1> QED
  BY <1>2, <1>3, <1>4, <1>5, <1>6, <1>7, <1>8, <1>9 DEF Next, Slave

-----------------------------------------------------------------------------
(* The loop and its watchdogs.                                             *)

Pc == pc \in {"wait", "state", "smact", "pd", "sync"}
PassTypes == dcPass \in BOOLEAN /\ sync0 \in BOOLEAN /\ stateEvent \in BOOLEAN
WatchdogTypes ==
  /\ hw_wd_state \in {"UNCHECKED", "WAITING", "RUNNING", "DISABLED"}
  /\ hw_wd_quiet \in Nat /\ watchdog \in Nat

LEMMA LoopTypesParts ==
  LoopTypes <=> Pc /\ PassTypes /\ WatchdogTypes /\ heldExpired \in Nat
BY DEF LoopTypes, Pc, PassTypes, WatchdogTypes

LEMMA WatchdogTypesStep ==
  ASSUME WatchdogTypes, NEW inputs, WatchdogAndOutputs(inputs)
  PROVE  WatchdogTypes'
<1>1. PICK armed, seen :
        /\ armed \in WdArmings
        /\ \/ UNCHANGED <<hw_wd_state, hw_wd_quiet>>
           \/ /\ hw_wd_state' = HwWatchdogCheck(armed, seen).state
              /\ hw_wd_quiet' = HwWatchdogCheck(armed, seen).quiet
        /\ watchdog' \in {WatchdogCnt, Countdown, watchdog}
  BY DEF WatchdogAndOutputs, Reloaded
<1>2. hw_wd_state' \in {"UNCHECKED", "WAITING", "RUNNING", "DISABLED"}
  BY <1>1 DEF HwWatchdogCheck, HwWdEntered, WatchdogTypes
<1>3. hw_wd_quiet' \in Nat
  BY <1>1 DEF HwWatchdogCheck, WatchdogTypes
<1>4. watchdog' \in Nat
  <2>1. WatchdogCnt \in Nat
    BY LoopConstantsAssumption
  <2>2. Countdown \in Nat
    BY DEF Countdown, WatchdogTypes
  <2> QED BY <1>1, <2>1, <2>2 DEF WatchdogTypes
<1> QED BY <1>2, <1>3, <1>4 DEF WatchdogTypes

LEMMA CaptureTypes ==
  ASSUME heldExpired \in Nat, Capture
  PROVE  heldExpired' \in Nat /\ stateEvent' \in BOOLEAN
BY DEF Capture

LEMMA LoopTypesStep ==
  ASSUME LoopTypes, [Next]_vars
  PROVE  LoopTypes'
<1>0. Pc /\ PassTypes /\ WatchdogTypes /\ heldExpired \in Nat
  BY LoopTypesParts
<1>1. ASSUME UNCHANGED <<passVars, wdVars, heldExpired>> PROVE LoopTypes'
  BY <1>1 DEF LoopTypes
<1>2. ASSUME Pc', PassTypes', WatchdogTypes', heldExpired' \in Nat PROVE LoopTypes'
  BY <1>2 DEF LoopTypes, Pc, PassTypes, WatchdogTypes
<1>3. CASE Poll \/ WaitSync0 \/ WaitTimeout
  <2>1. Pc' /\ WatchdogTypes'
    BY <1>0, <1>3 DEF Poll, WaitSync0, WaitTimeout, Pc, WatchdogTypes
  <2>2. heldExpired' \in Nat /\ stateEvent' \in BOOLEAN
    BY <1>0, <1>3, CaptureTypes DEF Poll, WaitSync0, WaitTimeout
  <2>3. PassTypes'
    BY <1>3, <2>2 DEF Poll, WaitSync0, WaitTimeout, PassTypes
  <2> QED BY <2>1, <2>2, <2>3, <1>2
<1>4. CASE ProcessOutputs \/ ProcessData
  <2>1. Pc' /\ PassTypes' /\ heldExpired' \in Nat
    BY <1>0, <1>4 DEF ProcessOutputs, ProcessData, Pc, PassTypes
  <2>2. WatchdogTypes'
    <3>1. CASE UNCHANGED wdVars
      BY <1>0, <3>1 DEF WatchdogTypes
    <3> QED BY <1>0, <1>4, <3>1, WatchdogTypesStep DEF ProcessOutputs, ProcessData
  <2> QED BY <2>1, <2>2, <1>2
<1>5. CASE Sync0Edge \/ StateStep \/ SmActStep
  <2>1. Pc' /\ PassTypes' /\ heldExpired' \in Nat
    BY <1>0, <1>5 DEF Sync0Edge, StateStep, SmActStep, Pc, PassTypes
  <2>2. WatchdogTypes'
    BY <1>0, <1>5 DEF Sync0Edge, StateStep, SmActStep, WatchdogTypes
  <2> QED BY <2>1, <2>2, <1>2
<1>6. CASE WaitTimeoutFatal
  BY <1>6, <1>1 DEF WaitTimeoutFatal
<1>7. CASE Frame
  <2>1. heldExpired' \in Nat
    BY <1>0, <1>7 DEF Frame
  <2>2. Pc' /\ PassTypes' /\ WatchdogTypes'
    BY <1>0, <1>7 DEF Frame, Pc, PassTypes, WatchdogTypes
  <2> QED BY <2>1, <2>2, <1>2
<1>8. CASE WriteControl \/ Reconfigure \/ SwitchDC \/ MasterStops \/ WatchdogExpires
  BY <1>8, <1>1 DEF WriteControl, Reconfigure, SwitchDC, MasterStops, WatchdogExpires
<1>9. CASE UNCHANGED vars
  BY <1>9, <1>1 DEF vars
<1> QED
  BY <1>3, <1>4, <1>5, <1>6, <1>7, <1>8, <1>9 DEF Next, Slave, Master

-----------------------------------------------------------------------------
\* Every variable keeps its type, for every value of the constants: the sync
\* error counter stays an int16_t whatever limit the master configured, and no
\* handler leaves a state, error code or mailbox setting that does not exist.
THEOREM TypeCorrect == Spec => []TypeOK
<1>1. TypeOK /\ [Next]_vars => TypeOK'
  BY MasterTypesStep, EventTypesStep, AlTypesStep, PdTypesStep, DcTypesStep, OpTypesStep,
     LoopTypesStep DEF TypeOK
<1> QED BY InitTypes, <1>1, PTL DEF Spec

HIDE DEF alVars, mbxVars, sizeVars, pdVars, dcVars, opVars, smRegs, escVars, passVars,
         wdVars, envVars

-----------------------------------------------------------------------------
(* The outputs and the state shown.                                        *)

\* The two safety properties are not inductive alone: ESC_op_pending_step may
\* refuse a pending request without stopping the outputs, which is right only
\* because nothing is pending in OP.
Consistent ==
  /\ AppState \subseteq {"INPUT", "OUTPUT"}
  /\ OutputsMatchState
  /\ SetpointOnlyInOp
  /\ op_pending => alState # "OP"

USE DEF OutputsMatchState, SetpointOnlyInOp, OutputsOn

LEMMA ConsistentInit == Init => Consistent
BY DEF Init, Consistent

\* Steps that touch neither the AL state nor the process data.
LEMMA ConsistentUnchanged ==
  ASSUME Consistent, UNCHANGED <<alState, alErr, AppState, setpoint>>,
         op_pending' = op_pending \/ op_pending' = FALSE
  PROVE  Consistent'
BY DEF Consistent

\* An error the slave raises itself stops the outputs, in every state.
LEMMA GotoErrorConsistent ==
  ASSUME Consistent, NEW code, GotoError(code)
  PROVE  Consistent'
BY DEF GotoError, StopOutput, pdVars, Consistent

-----------------------------------------------------------------------------
(* The handlers of ESC.tla.                                                *)

LEMMA TransitionConsistent ==
  ASSUME Consistent, Transition
  PROVE  Consistent'
<1> USE DEF Reach, Refuse, From, To, EndPending, pdVars, StopOutput, StopInput,
            StopOutputAndInput, StartOutput, States
<1>1. CASE SameState
  BY <1>1, ConsistentUnchanged DEF SameState, Consistent
<1>2. CASE StartMbx
  BY <1>2 DEF StartMbx, Consistent
<1>3. CASE RefuseTransition
  BY <1>3 DEF RefuseTransition, Consistent
<1>4. CASE ToInit
  BY <1>4 DEF ToInit, Consistent
<1>5. CASE BackToPreop
  BY <1>5 DEF BackToPreop, Consistent
<1>6. CASE ToSafeop
  BY <1>6 DEF ToSafeop, InputsStarted, InputsRefused, Consistent
<1>7. CASE SafeopToOp
  BY <1>7 DEF SafeopToOp, Consistent
<1>8. CASE OpToSafeop
  BY <1>8 DEF OpToSafeop, Consistent
<1>9. CASE OpToBoot
  BY <1>9 DEF OpToBoot, LeaveOpWithError, Consistent
<1>10. CASE UnknownRequest
  BY <1>10 DEF UnknownRequest, LeaveOpWithError, Consistent
<1> QED BY <1>1, <1>2, <1>3, <1>4, <1>5, <1>6, <1>7, <1>8, <1>9, <1>10 DEF Transition

LEMMA ESC_stateConsistent ==
  ASSUME Consistent, ESC_state
  PROVE  Consistent'
<1>1. CASE UNCHANGED <<alVars, pdVars, opVars>>
  BY <1>1, ConsistentUnchanged DEF alVars, pdVars, opVars
<1>2. CASE Transition
  BY <1>2, TransitionConsistent
<1> QED BY <1>1, <1>2 DEF ESC_state

\* Both ways down clear App.state whenever it is not clear already.
LEMMA ESC_sm_act_eventConsistent ==
  ASSUME Consistent, ESC_sm_act_event
  PROVE  Consistent'
<1>1. CASE UNCHANGED <<alVars, pdVars>> /\ op_pending' = op_pending
  BY <1>1, ConsistentUnchanged DEF alVars, pdVars
<1>2. CASE StepDownToInit /\ op_pending' = op_pending
  BY <1>2 DEF StepDownToInit, StopOutputAndInput, Refuse, pdVars, Consistent
<1>3. CASE StepDownToPreop /\ op_pending' = op_pending
  BY <1>3 DEF StepDownToPreop, StopOutputAndInput, Refuse, Consistent
<1> QED BY <1>1, <1>2, <1>3 DEF ESC_sm_act_event, KeepState, opVars

\* The pending request for OP: none, completed, refused or pending still.
LEMMA OpPendingStepConsistent ==
  ASSUME Consistent, NEW edge, NEW sm, NEW elapsed,
         OpPendingStep(edge, sm, elapsed)
  PROVE  Consistent'
<1>1. CASE UNCHANGED <<opVars, alVars, pdVars>>
  BY <1>1, ConsistentUnchanged DEF opVars, alVars, pdVars
<1>2. CASE /\ op_pending' = FALSE
           /\ StartOutput /\ alState' = "OP" /\ alErr' = FALSE
  BY <1>2 DEF StartOutput, Consistent
<1>3. CASE /\ op_pending /\ op_pending' = FALSE
           /\ alState' = "SAFEOP" /\ UNCHANGED pdVars
  BY <1>3 DEF pdVars, Consistent
<1>4. CASE /\ op_pending /\ UNCHANGED <<alVars, pdVars>>
  BY <1>4 DEF alVars, pdVars, Consistent
<1> QED BY <1>1, <1>2, <1>3, <1>4 DEF OpPendingStep, Refuse

\* DIG_process: either the watchdog trips, or outputs are applied in OP only.
LEMMA WatchdogAndOutputsConsistent ==
  ASSUME Consistent, NEW inputs, WatchdogAndOutputs(inputs)
  PROVE  Consistent'
<1>1. CASE GotoError("WATCHDOG")
  BY <1>1, GotoErrorConsistent
<1>2. CASE /\ UNCHANGED <<AppState, pdiOff, alVars, opVars>>
           /\ \/ setpoint' = setpoint
              \/ OutputsOn /\ setpoint' = "applied"
  BY <1>2 DEF alVars, opVars, Consistent
<1> QED BY <1>1, <1>2 DEF WatchdogAndOutputs

\* A SYNC0 period: the sync error, or else the pending request.
LEMMA Sync0PeriodConsistent ==
  ASSUME Consistent, Sync0Period
  PROVE  Consistent'
<1>1. CASE GotoError("SYNCERROR")
  BY <1>1, GotoErrorConsistent
<1>2. CASE OpPendingStep(TRUE, sm_event_seen, 1)
  BY <1>2, OpPendingStepConsistent
<1> QED BY <1>1, <1>2 DEF Sync0Period

-----------------------------------------------------------------------------
(* The step: one case per action.                                          *)

LEMMA ConsistentStep ==
  ASSUME Consistent, [Next]_vars
  PROVE  Consistent'
<1> USE DEF escVars, alVars, pdVars, opVars
<1>1. CASE WriteControl
  BY <1>1, ConsistentUnchanged DEF WriteControl
<1>2. CASE Reconfigure
  BY <1>2, ConsistentUnchanged DEF Reconfigure
<1>3. CASE SwitchDC
  BY <1>3, ConsistentUnchanged DEF SwitchDC
<1>4. CASE Frame
  BY <1>4, ConsistentUnchanged DEF Frame
<1>5. CASE MasterStops
  BY <1>5, ConsistentUnchanged DEF MasterStops
<1>6. CASE WatchdogExpires
  BY <1>6, ConsistentUnchanged DEF WatchdogExpires
<1>7. CASE Poll
  BY <1>7, ConsistentUnchanged DEF Poll
<1>8. CASE WaitSync0
  BY <1>8, ConsistentUnchanged DEF WaitSync0
<1>9. CASE WaitTimeoutFatal
  <2>1. GotoError("FATALSYNCERROR")
    BY <1>9 DEF WaitTimeoutFatal
  <2> QED BY <2>1, GotoErrorConsistent
<1>10. CASE WaitTimeout
  <2>1. OpPendingStep(FALSE, FALSE, 2)
    BY <1>10 DEF WaitTimeout
  <2> QED BY <2>1, OpPendingStepConsistent
<1>11. CASE ProcessOutputs
  <2>1. CASE WatchdogAndOutputs(FALSE)
    BY <2>1, WatchdogAndOutputsConsistent
  <2>2. CASE UNCHANGED <<alVars, pdVars, opVars>>
    BY <2>2, ConsistentUnchanged
  <2> QED BY <1>11, <2>1, <2>2 DEF ProcessOutputs
<1>12. CASE Sync0Edge
  <2>1. CASE Sync0Period
    BY <2>1, Sync0PeriodConsistent
  <2>2. CASE UNCHANGED <<alVars, pdVars, opVars>>
    BY <2>2, ConsistentUnchanged
  <2> QED BY <1>12, <2>1, <2>2 DEF Sync0Edge
<1>13. CASE StateStep
  BY <1>13, ESC_stateConsistent DEF StateStep
<1>14. CASE SmActStep
  BY <1>14, ESC_sm_act_eventConsistent DEF SmActStep
<1>15. CASE ProcessData
  BY <1>15, WatchdogAndOutputsConsistent DEF ProcessData
<1>16. CASE UNCHANGED vars
  BY <1>16, ConsistentUnchanged DEF vars
<1> QED
  BY <1>1, <1>2, <1>3, <1>4, <1>5, <1>6, <1>7, <1>8, <1>9, <1>10, <1>11, <1>12,
     <1>13, <1>14, <1>15, <1>16 DEF Next, Slave, Master

LEMMA ConsistentInvariant == Spec => []Consistent
BY ConsistentInit, ConsistentStep, PTL DEF Spec

-----------------------------------------------------------------------------
\* Outputs are processed exactly in OP, and OP is never shown with an error:
\* no step of the master or the chip, no failed check, trip or refused
\* request leaves the outputs running in another state.
THEOREM OutputsFollowState == Spec => []OutputsMatchState
<1>1. Consistent => OutputsMatchState
  BY DEF Consistent
<1> QED BY ConsistentInvariant, <1>1, PTL

\* The drive holds a setpoint of the master only in OP: each way out of OP has
\* called APP_safe_state before AL status shows another state.
THEOREM SetpointsOnlyInOp == Spec => []SetpointOnlyInOp
<1>1. Consistent => SetpointOnlyInOp
  BY DEF Consistent
<1> QED BY ConsistentInvariant, <1>1, PTL


-----------------------------------------------------------------------------
(* The error bit and the error code always agree; without DC the mailbox   *)
(* agrees with the AL state, and the state rises only where the master     *)
(* asked for it.                                                           *)

\* Codes of errors: neither the absence of one nor the device identification.
Reasons == AlErrors \ {"NONE", "DEVICEID"}

LEMMA ReasonsGiven ==
  /\ {"INVALIDSTATECHANGE", "UNKNOWNSTATE", "INVALIDBOOTMBXCONFIG", "INVALIDMBXCONFIG",
      "SYNCERROR", "WATCHDOG", "INVALIDOUTPUTSM", "INVALIDINPUTSM", "FATALSYNCERROR",
      "NOSYNCERROR"} \subseteq Reasons
  /\ DcErrors \subseteq Reasons
<1>1. DcErrors \subseteq {"DCINVALIDSYNCCFG", "DCSYNC0CYCLETIME"}
  BY ConstantsAssumption
<1> QED BY <1>1 DEF Reasons, AlErrors

\* An error raised or a request refused for a reason, and a state reached.
LEMMA RefusedForReason ==
  ASSUME NEW st, NEW code \in Reasons, Refuse(st, code)
  PROVE  ErrorHasReason'
BY DEF Refuse, ErrorHasReason, Reasons

LEMMA ReachedWithoutError ==
  ASSUME NEW st, Reach(st)
  PROVE  ErrorHasReason'
BY DEF Reach, ErrorHasReason

LEMMA ReasonUnchanged ==
  ASSUME ErrorHasReason, UNCHANGED alVars
  PROVE  ErrorHasReason'
BY DEF ErrorHasReason, alVars

LEMMA RaisedForReason ==
  ASSUME NEW code \in Reasons, GotoError(code)
  PROVE  ErrorHasReason'
BY DEF GotoError, ErrorHasReason, Reasons

-----------------------------------------------------------------------------
(* The handlers.                                                           *)

LEMMA ToSafeopHasReason ==
  ASSUME ToSafeop
  PROVE  ErrorHasReason'
<1>1. CASE Reach("SAFEOP")
  BY <1>1, ReachedWithoutError
<1>2. CASE \E code \in Reasons : Refuse("PREOP", code)
  BY <1>2, RefusedForReason
<1>3. "INVALIDOUTPUTSM" \in Reasons /\ "INVALIDINPUTSM" \in Reasons /\ DcErrors \subseteq Reasons
  BY ReasonsGiven
<1>4. SM23Error(sm2sml', sm3sml') \in {"NONE", "INVALIDOUTPUTSM", "INVALIDINPUTSM"}
  BY DEF SM23Error
<1>5. Reach("SAFEOP") \/ \E code \in Reasons : Refuse("PREOP", code)
  BY <1>3, <1>4 DEF ToSafeop, InputsStarted, InputsRefused
<1> QED BY <1>1, <1>2, <1>5

LEMMA TransitionHasReason ==
  ASSUME Transition
  PROVE  ErrorHasReason'
<1> USE ReachedWithoutError
<1>1. CASE SameState
  BY <1>1 DEF SameState
<1>2. CASE StartMbx
  <2>1. CASE Reach(Request.req)
    BY <2>1
  <2>2. CASE Refuse("INIT", "INVALIDBOOTMBXCONFIG") \/ Refuse("INIT", "INVALIDMBXCONFIG")
    BY <2>2, RefusedForReason, ReasonsGiven
  <2> QED BY <1>2, <2>1, <2>2 DEF StartMbx
<1>3. CASE RefuseTransition
  <2>1. \E st \in States : Refuse(st, "INVALIDSTATECHANGE")
    BY <1>3 DEF RefuseTransition, States
  <2> QED BY <2>1, RefusedForReason, ReasonsGiven
<1>4. CASE ToInit
  BY <1>4 DEF ToInit
<1>5. CASE BackToPreop
  BY <1>5 DEF BackToPreop
<1>6. CASE ToSafeop
  BY <1>6, ToSafeopHasReason
<1>7. CASE SafeopToOp
  BY <1>7 DEF SafeopToOp
<1>8. CASE OpToSafeop
  BY <1>8 DEF OpToSafeop
<1>9. CASE OpToBoot
  <2>1. Refuse("SAFEOP", "INVALIDSTATECHANGE")
    BY <1>9 DEF OpToBoot, LeaveOpWithError
  <2> QED BY <2>1, RefusedForReason, ReasonsGiven
<1>10. CASE UnknownRequest
  <2>1. Refuse("SAFEOP", "UNKNOWNSTATE") \/ Refuse(alState, "UNKNOWNSTATE")
    BY <1>10 DEF UnknownRequest, LeaveOpWithError
  <2> QED BY <2>1, RefusedForReason, ReasonsGiven
<1> QED BY <1>1, <1>2, <1>3, <1>4, <1>5, <1>6, <1>7, <1>8, <1>9, <1>10 DEF Transition

LEMMA ESC_stateHasReason ==
  ASSUME ErrorHasReason, ESC_state
  PROVE  ErrorHasReason'
BY TransitionHasReason, ReasonUnchanged DEF ESC_state

LEMMA ESC_sm_act_eventHasReason ==
  ASSUME ErrorHasReason, ESC_sm_act_event
  PROVE  ErrorHasReason'
<1>1. CASE UNCHANGED alVars
  BY <1>1, ReasonUnchanged
<1>2. CASE StepDownToInit
  <2>1. Refuse("INIT", "INVALIDMBXCONFIG")
    BY <1>2 DEF StepDownToInit
  <2> QED BY <2>1, RefusedForReason, ReasonsGiven
<1>3. CASE StepDownToPreop
  <2>1. SM23Error(sm2sml, sm3sml) \in {"NONE", "INVALIDOUTPUTSM", "INVALIDINPUTSM"}
    BY DEF SM23Error
  <2>2. Refuse("PREOP", "INVALIDOUTPUTSM") \/ Refuse("PREOP", "INVALIDINPUTSM")
    BY <1>3, <2>1 DEF StepDownToPreop
  <2> QED BY <2>2, RefusedForReason, ReasonsGiven
<1> QED BY <1>1, <1>2, <1>3 DEF ESC_sm_act_event, KeepState

LEMMA OpPendingStepHasReason ==
  ASSUME ErrorHasReason, NEW edge, NEW sm, NEW elapsed, OpPendingStep(edge, sm, elapsed)
  PROVE  ErrorHasReason'
<1>1. CASE UNCHANGED alVars
  BY <1>1, ReasonUnchanged
<1>2. CASE alErr' = FALSE /\ ALerror' = "NONE"
  BY <1>2 DEF ErrorHasReason
<1>3. CASE \E code \in {"NOSYNCERROR", "WATCHDOG", "SYNCERROR"} : Refuse("SAFEOP", code)
  BY <1>3, RefusedForReason, ReasonsGiven
<1> QED BY <1>1, <1>2, <1>3 DEF OpPendingStep

-----------------------------------------------------------------------------
LEMMA ErrorHasReasonStep ==
  ASSUME ErrorHasReason, [Next]_vars
  PROVE  ErrorHasReason'
<1>1. CASE UNCHANGED alVars
  BY <1>1, ReasonUnchanged
<1>2. CASE WaitTimeoutFatal
  <2>1. GotoError("FATALSYNCERROR")
    BY <1>2 DEF WaitTimeoutFatal
  <2> QED BY <2>1, RaisedForReason, ReasonsGiven
<1>3. CASE WaitTimeout
  <2>1. OpPendingStep(FALSE, FALSE, 2)
    BY <1>3 DEF WaitTimeout
  <2> QED BY <2>1, OpPendingStepHasReason
<1>4. CASE ProcessOutputs \/ ProcessData
  <2>1. GotoError("WATCHDOG") \/ UNCHANGED alVars
    BY <1>4 DEF ProcessOutputs, ProcessData, WatchdogAndOutputs
  <2> QED BY <2>1, <1>1, RaisedForReason, ReasonsGiven
<1>5. CASE Sync0Edge
  <2>1. UNCHANGED alVars \/ GotoError("SYNCERROR") \/ OpPendingStep(TRUE, sm_event_seen, 1)
    BY <1>5 DEF Sync0Edge, Sync0Period
  <2> QED BY <2>1, <1>1, RaisedForReason, ReasonsGiven, OpPendingStepHasReason
<1>6. CASE StateStep
  BY <1>6, ESC_stateHasReason DEF StateStep
<1>7. CASE SmActStep
  BY <1>7, ESC_sm_act_eventHasReason DEF SmActStep
<1>8. CASE Poll \/ WaitSync0
  BY <1>8, <1>1 DEF Poll, WaitSync0
<1>9. CASE Master \/ WatchdogExpires
  <2>1. UNCHANGED alVars
    BY <1>9 DEF Master, WriteControl, Reconfigure, SwitchDC, Frame, MasterStops,
                WatchdogExpires, escVars
  <2> QED BY <2>1, <1>1
<1>10. CASE UNCHANGED vars
  BY <1>10, <1>1 DEF vars, escVars
<1> QED
  BY <1>2, <1>3, <1>4, <1>5, <1>6, <1>7, <1>8, <1>9, <1>10 DEF Next, Slave

\* AL status code says why the error bit is up, and says nothing of an error that
\* is gone: each handler that writes one writes the other.
THEOREM ErrorsHaveReasons == Spec => []ErrorHasReason
<1>1. Init => ErrorHasReason
  BY DEF Init, ErrorHasReason
<1>2. ErrorHasReason /\ [Next]_vars => ErrorHasReason'
  BY ErrorHasReasonStep
<1> QED BY <1>1, <1>2, PTL DEF Spec

-----------------------------------------------------------------------------
(* Without DC: DC is not configured, or the master never activates it.     *)

WithoutDC == ~UseInterrupt \/ DcModes \subseteq {FALSE}

\* What is never so without DC: a SYNC0 pass, a held request.
Freerun ==
  /\ ~dcsync /\ ~op_pending
  /\ UseInterrupt => syncAct = FALSE
  /\ ~dcPass /\ pc # "sync"

InStates == alState \in States /\ Consistent /\ MailboxMatchesState

LEMMA FreerunTransition ==
  ASSUME Freerun, Transition, UNCHANGED smRegs
  PROVE  ~dcsync' /\ ~op_pending'
<1> USE DEF Freerun, EndPending, dcVars, smRegs
<1>1. CASE ToSafeop
  BY <1>1 DEF ToSafeop, ClearDC
<1>2. CASE SafeopToOp
  BY <1>2 DEF SafeopToOp
<1>3. CASE SameState \/ StartMbx \/ RefuseTransition \/ ToInit \/ BackToPreop
           \/ OpToSafeop \/ OpToBoot \/ UnknownRequest
  BY <1>3 DEF SameState, StartMbx, RefuseTransition, ToInit, BackToPreop, OpToSafeop,
              OpToBoot, UnknownRequest
<1> QED BY <1>1, <1>2, <1>3 DEF Transition

LEMMA FreerunStep ==
  ASSUME WithoutDC, Freerun, [Next]_vars
  PROVE  Freerun'
<1> USE DEF Freerun, escVars, dcVars, opVars, smRegs, passVars
<1>1. CASE WriteControl \/ Reconfigure \/ Frame \/ MasterStops \/ WatchdogExpires
  BY <1>1 DEF WriteControl, Reconfigure, Frame, MasterStops, WatchdogExpires
<1>2. CASE SwitchDC
  <2>1. UseInterrupt => syncAct' = FALSE
    BY <1>2 DEF SwitchDC, WithoutDC
  <2> QED BY <1>2, <2>1 DEF SwitchDC
<1>3. CASE Poll
  BY <1>3 DEF Poll
<1>4. CASE StateStep
  <2>1. UNCHANGED <<syncAct, dcPass>> /\ pc' = "smact"
    BY <1>4 DEF StateStep, ESC_state
  <2>2. UNCHANGED <<dcVars, opVars>> \/ (Transition /\ UNCHANGED smRegs)
    BY <1>4 DEF StateStep, ESC_state
  <2>3. ~dcsync' /\ ~op_pending'
    <3>1. CASE UNCHANGED <<dcVars, opVars>>
      BY <3>1
    <3>2. CASE Transition /\ UNCHANGED smRegs
      BY <3>2, FreerunTransition
    <3> QED BY <2>2, <3>1, <3>2
  <2> QED BY <2>1, <2>3
<1>5. CASE SmActStep
  BY <1>5 DEF SmActStep, ESC_sm_act_event
<1>6. CASE ProcessData
  BY <1>6 DEF ProcessData, WatchdogAndOutputs, GotoError
<1>7. CASE WaitSync0 \/ WaitTimeoutFatal \/ WaitTimeout \/ ProcessOutputs \/ Sync0Edge
  BY <1>7 DEF WaitSync0, WaitTimeoutFatal, WaitTimeout, ProcessOutputs, Sync0Edge, RunsDC
<1>8. CASE UNCHANGED vars
  BY <1>8 DEF vars
<1> QED
  BY <1>1, <1>2, <1>3, <1>4, <1>5, <1>6, <1>7, <1>8 DEF Next, Slave, Master

\* A step without DC goes through the request handler, the SyncManager handler or a
\* watchdog that trips in OP, or leaves AL status and mailbox as they are.
LEMMA FreerunCases ==
  ASSUME Freerun, [Next]_vars
  PROVE  \/ UNCHANGED <<alState, mailbox>>
         \/ Transition /\ ALcontrol' = control
         \/ ChecksSyncManagers /\ (StepDownToInit \/ StepDownToPreop)
         \/ OutputsOn /\ alState' = "SAFEOP" /\ mailbox' = mailbox
<1> USE DEF escVars, alVars, mbxVars
<1>1. CASE Master \/ WatchdogExpires \/ Poll \/ UNCHANGED vars
  BY <1>1 DEF Master, WriteControl, Reconfigure, SwitchDC, Frame, MasterStops,
              WatchdogExpires, Poll, vars
<1>2. CASE StateStep
  BY <1>2 DEF StateStep, ESC_state, ReadControl
<1>3. CASE SmActStep
  BY <1>3 DEF SmActStep, ESC_sm_act_event, KeepState
<1>4. CASE ProcessData
  <2>1. UNCHANGED mailbox
    BY <1>4 DEF ProcessData
  <2>2. UNCHANGED alState \/ (OutputsOn /\ alState' = "SAFEOP")
    BY <1>4 DEF ProcessData, WatchdogAndOutputs, GotoError, HwWatchdogCheck, CountdownTrips
  <2> QED BY <2>1, <2>2
<1>5. CASE WaitSync0 \/ WaitTimeoutFatal \/ WaitTimeout \/ ProcessOutputs \/ Sync0Edge
  BY <1>5 DEF WaitSync0, WaitTimeoutFatal, WaitTimeout, ProcessOutputs, Sync0Edge, RunsDC,
              Freerun
<1> QED BY <1>1, <1>2, <1>3, <1>4, <1>5 DEF Next, Slave

\* Where a transition leads: down or along, or up to the state asked for.
LEMMA TransitionMailbox ==
  ASSUME alState \in States, MailboxMatchesState, Transition
  PROVE  alState' \in States /\ MailboxMatchesState'
<1> USE DEF MailboxMatchesState, Reach, Refuse, From, To, mbxVars, States
<1>1. CASE SameState
  BY <1>1 DEF SameState
<1>2. CASE StartMbx
  BY <1>2 DEF StartMbx
<1>3. CASE RefuseTransition
  BY <1>3 DEF RefuseTransition
<1>4. CASE ToInit
  BY <1>4 DEF ToInit, StopMbx
<1>5. CASE BackToPreop
  BY <1>5 DEF BackToPreop
<1>6. CASE ToSafeop
  BY <1>6 DEF ToSafeop, InputsStarted, InputsRefused
<1>7. CASE SafeopToOp
  BY <1>7 DEF SafeopToOp
<1>8. CASE OpToSafeop
  BY <1>8 DEF OpToSafeop
<1>9. CASE OpToBoot
  BY <1>9 DEF OpToBoot, LeaveOpWithError
<1>10. CASE UnknownRequest
  BY <1>10 DEF UnknownRequest, LeaveOpWithError
<1> QED BY <1>1, <1>2, <1>3, <1>4, <1>5, <1>6, <1>7, <1>8, <1>9, <1>10 DEF Transition

LEMMA TransitionRises ==
  ASSUME alState \in States, Transition, Rank(alState') > Rank(alState)
  PROVE  alState' = control.req
<1> USE DEF Rank, Reach, Refuse, From, To, Request, States
<1>1. CASE SameState
  BY <1>1 DEF SameState
<1>2. CASE StartMbx
  BY <1>2 DEF StartMbx
<1>3. CASE RefuseTransition
  BY <1>3 DEF RefuseTransition
<1>4. CASE ToInit
  BY <1>4 DEF ToInit
<1>5. CASE BackToPreop
  BY <1>5 DEF BackToPreop
<1>6. CASE ToSafeop
  BY <1>6 DEF ToSafeop, InputsStarted, InputsRefused
<1>7. CASE SafeopToOp
  BY <1>7 DEF SafeopToOp
<1>8. CASE OpToSafeop
  BY <1>8 DEF OpToSafeop
<1>9. CASE OpToBoot
  BY <1>9 DEF OpToBoot, LeaveOpWithError
<1>10. CASE UnknownRequest
  BY <1>10 DEF UnknownRequest, LeaveOpWithError
<1> QED BY <1>1, <1>2, <1>3, <1>4, <1>5, <1>6, <1>7, <1>8, <1>9, <1>10 DEF Transition

LEMMA InStatesStep ==
  ASSUME Freerun, InStates, [Next]_vars
  PROVE  InStates'
<1>1. Consistent'
  BY ConsistentStep DEF InStates
<1>2. alState' \in States /\ MailboxMatchesState'
  <2> USE DEF InStates, MailboxMatchesState, States
  <2>1. CASE UNCHANGED <<alState, mailbox>>
    BY <2>1
  <2>2. CASE Transition
    BY <2>2, TransitionMailbox
  <2>3. CASE ChecksSyncManagers /\ StepDownToInit
    BY <2>3 DEF StepDownToInit, Refuse, StopMbx
  <2>4. CASE ChecksSyncManagers /\ StepDownToPreop
    BY <2>4 DEF ChecksSyncManagers, StepDownToPreop, Refuse, mbxVars
  <2>5. CASE OutputsOn /\ alState' = "SAFEOP" /\ mailbox' = mailbox
    <3>1. alState = "OP"
      BY <2>5 DEF Consistent, OutputsMatchState
    <3> QED BY <2>5, <3>1
  <2> QED BY <2>1, <2>2, <2>3, <2>4, <2>5, FreerunCases
<1> QED BY <1>1, <1>2 DEF InStates

LEMMA RiseIsRequested ==
  ASSUME Freerun, InStates, [Next]_vars, Rank(alState') > Rank(alState)
  PROVE  alState' = ALcontrol'.req
<1> USE DEF InStates
<1>1. CASE UNCHANGED <<alState, mailbox>>
  <2>1. Rank(alState') = Rank(alState) /\ Rank(alState) \in 1 .. 4
    BY <1>1 DEF Rank, States
  <2> QED BY <2>1
<1>2. CASE Transition /\ ALcontrol' = control
  BY <1>2, TransitionRises
<1>3. CASE ChecksSyncManagers /\ (StepDownToInit \/ StepDownToPreop)
  BY <1>3 DEF ChecksSyncManagers, StepDownToInit, StepDownToPreop, Refuse, Rank, States
<1>4. CASE OutputsOn /\ alState' = "SAFEOP"
  <2>1. alState = "OP"
    BY <1>4 DEF Consistent, OutputsMatchState
  <2> QED BY <1>4, <2>1 DEF Rank
<1> QED BY <1>1, <1>2, <1>3, <1>4, FreerunCases

LEMMA FreerunInvariant ==
  ASSUME WithoutDC
  PROVE  Spec => [](Freerun /\ InStates)
<1>1. Init => Freerun /\ InStates
  <2>1. Init => Freerun
    BY DEF Init, Freerun
  <2>2. Init => InStates
    BY ConsistentInit DEF Init, InStates, MailboxMatchesState, States
  <2> QED BY <2>1, <2>2
<1>2. Freerun /\ InStates /\ [Next]_vars => (Freerun /\ InStates)'
  BY FreerunStep, InStatesStep
<1> QED BY <1>1, <1>2, PTL DEF Spec

\* Without DC the mailbox runs in every state but INIT, in BOOT with the boot
\* settings: no refused start and no step down leaves AL status and mailbox apart.
THEOREM MailboxFollowsState ==
  ASSUME WithoutDC
  PROVE  Spec => []MailboxMatchesState
<1>1. InStates => MailboxMatchesState
  BY DEF InStates
<1> QED BY FreerunInvariant, <1>1, PTL

\* Without DC the AL state rises only to the state in the control word read last.
THEOREM PromotionsRequested ==
  ASSUME WithoutDC
  PROVE  Spec => PromotionIsRequested
<1>1. Freerun /\ InStates /\ [Next]_vars
        => [Rank(alState') > Rank(alState) => alState' = ALcontrol'.req]_vars
  BY RiseIsRequested
<1> QED BY FreerunInvariant, <1>1, PTL DEF Spec, PromotionIsRequested

-----------------------------------------------------------------------------
(* The sync error counter inside the cyclic loop, with requests, refusals, *)
(* step downs and changes of the limit between its periods.                *)
HIDE DEF OutputsMatchState, SetpointOnlyInOp

\* The counter is 3 for each period of the current run of misses at least, and
\* within the limit whenever the outputs run under DC.
Counted ==
  /\ synccounterlimit \in Nat /\ synccounter \in Nat /\ missedRun \in Nat
  /\ 3 * missedRun <= synccounter
  /\ dcsync /\ OutputsOn /\ synccounterlimit > 0 => synccounter <= synccounterlimit

\* A SYNC0 pass counts from what the wait let through.
PassCounted ==
  (pc = "sync" \/ (pc = "pd" /\ dcPass)) /\ sync0 => synccounter <= MaxSyncCounter

counters == <<dcsync, synccounterlimit, synccounter, missedRun>>

USE DEF counters, pdVars, dcVars

LEMMA CountedUnchanged ==
  ASSUME Counted, UNCHANGED counters, OutputsOn' => OutputsOn
  PROVE  Counted'
BY DEF Counted

\* The counter left alone, outputs that were off come on only without DC.
LEMMA CountedWithoutDC ==
  ASSUME Counted, UNCHANGED counters, ~dcsync
  PROVE  Counted'
BY DEF Counted

LEMMA GotoErrorStopsOutputs ==
  ASSUME NEW code, GotoError(code)
  PROVE  ~OutputsOn'
BY DEF GotoError, StopOutput

-----------------------------------------------------------------------------
(* ESC_state.  DC is accepted, with a new limit, only with the outputs off. *)

LEMMA ToSafeopCounted ==
  ASSUME Counted, ToSafeop
  PROVE  Counted'
<1>1. CASE UNCHANGED counters
  <2>1. OutputsOn' => OutputsOn
    BY DEF ToSafeop, InputsStarted, InputsRefused
  <2> QED BY <1>1, <2>1, CountedUnchanged
<1>2. CASE ClearDC
  BY <1>2 DEF ClearDC, Counted
<1>3. CASE AcceptDC /\ ~OutputsOn'
  <2>1. synccounterlimit' \in Nat
    BY <1>3, ConstantsAssumption DEF AcceptDC
  <2> QED BY <1>3, <2>1 DEF AcceptDC, Counted
<1> QED BY <1>1, <1>2, <1>3 DEF ToSafeop, InputsStarted

LEMMA TransitionCounted ==
  ASSUME Counted, Transition
  PROVE  Counted'
<1>1. CASE ToSafeop
  BY <1>1, ToSafeopCounted
<1>2. CASE SafeopToOp
  <2>1. UNCHANGED counters /\ (UNCHANGED AppState \/ ~dcsync)
    BY <1>2 DEF SafeopToOp
  <2> QED BY <2>1, CountedUnchanged, CountedWithoutDC
<1>3. CASE SameState \/ StartMbx \/ RefuseTransition \/ ToInit \/ BackToPreop
           \/ OpToSafeop \/ OpToBoot \/ UnknownRequest
  <2>1. UNCHANGED counters
    BY <1>3 DEF SameState, StartMbx, RefuseTransition, ToInit, BackToPreop, OpToSafeop,
                OpToBoot, UnknownRequest
  <2>2. AppState' \subseteq AppState
    BY <1>3 DEF SameState, StartMbx, RefuseTransition, ToInit, BackToPreop, OpToSafeop,
                OpToBoot, UnknownRequest, LeaveOpWithError, StopOutput, StopInput,
                StopOutputAndInput
  <2> QED BY <2>1, <2>2, CountedUnchanged
<1> QED BY <1>1, <1>2, <1>3 DEF Transition

-----------------------------------------------------------------------------
(* ESC_op_pending_step: without a SYNC0 edge the outputs do not come on.    *)

LEMMA NoEdgeNoOutputs ==
  ASSUME NEW sm, NEW elapsed, OpPendingStep(FALSE, sm, elapsed)
  PROVE  UNCHANGED AppState
<1>1. ~(0 >= OpSyncValid)
  BY ConstantsAssumption
<1> QED BY <1>1 DEF OpPendingStep

-----------------------------------------------------------------------------
(* ecat_slv_sync0_account and the step of the held request behind it.       *)

LEMMA Sync0PeriodCounted ==
  ASSUME Counted, Sync0Period, synccounter <= MaxSyncCounter
  PROVE  Counted'
<1> DEFINE served == sm_event_seen
           count  == SyncCount(served)
<1>1. MaxSyncCounter \in Nat /\ MaxSyncCounter <= 32000
  BY LoopConstantsAssumption
<1>2. /\ synccounterlimit \in Nat /\ synccounter \in Nat /\ missedRun \in Nat
      /\ 3 * missedRun <= synccounter
  BY DEF Counted
<1>3. UNCHANGED <<dcsync, synccounterlimit>>
  BY DEF Sync0Period
<1>4. CASE SyncTrips(served)
  <2>1. synccounter' = 0 /\ missedRun' = 0
    BY <1>4 DEF Sync0Period
  <2> QED BY <1>2, <1>3, <2>1 DEF Counted
<1>5. CASE ~SyncTrips(served)
  <2>1. count \in Nat /\ count <= 32003
    BY <1>1, <1>2 DEF SyncCount, CountServed, CountMissed
  <2>2. synccounter' = count
    <3>1. Stored(count) = count
      BY <2>1 DEF Stored
    <3> QED BY <1>5, <3>1 DEF Sync0Period
  <2>3. synccounterlimit > 0 => count <= synccounterlimit
    <3>1. ~OverLimit(synccounterlimit, count)
      BY <1>5 DEF SyncTrips
    <3> QED BY <1>2, <2>1, <3>1 DEF OverLimit
  <2>4. missedRun' = IF served THEN 0 ELSE missedRun + 1
    BY <1>5 DEF Sync0Period
  <2>5. missedRun' \in Nat /\ 3 * missedRun' <= count
    <3>1. CASE served
      <4>1. missedRun' = 0
        BY <2>4, <3>1, Zenon
      <4> HIDE DEF count
      <4> QED BY <2>1, <4>1
    <3>2. CASE ~served
      <4>1. missedRun' = missedRun + 1
        BY <2>4, <3>2, Zenon
      <4>2. count = synccounter + 3
        BY <3>2 DEF SyncCount, CountMissed
      <4> HIDE DEF count
      <4> QED BY <1>2, <4>1, <4>2
    <3> QED BY <3>1, <3>2
  <2> QED BY <1>2, <1>3, <2>1, <2>2, <2>3, <2>5 DEF Counted
<1> QED BY <1>4, <1>5

-----------------------------------------------------------------------------
(* The steps.                                                              *)

LEMMA CountedStep ==
  ASSUME Counted, PassCounted, [Next]_vars
  PROVE  Counted'
<1>1. CASE UNCHANGED <<counters, AppState>>
  BY <1>1, CountedUnchanged
<1>2. CASE WaitTimeoutFatal
  <2>1. UNCHANGED counters
    BY <1>2 DEF WaitTimeoutFatal
  <2> QED BY <1>2, <2>1, CountedUnchanged DEF WaitTimeoutFatal
<1>3. CASE WaitTimeout
  BY <1>3, <1>1, NoEdgeNoOutputs DEF WaitTimeout
<1>4. CASE ProcessOutputs \/ ProcessData
  <2>1. UNCHANGED counters
    BY <1>4 DEF ProcessOutputs, ProcessData
  <2>2. UNCHANGED AppState \/ GotoError("WATCHDOG")
    BY <1>4 DEF ProcessOutputs, ProcessData, WatchdogAndOutputs
  <2>3. OutputsOn' => OutputsOn
    BY <2>2, GotoErrorStopsOutputs
  <2> QED BY <2>1, <2>3, CountedUnchanged
<1>5. CASE Sync0Edge
  <2>1. CASE ~sync0
    BY <1>1, <1>5, <2>1 DEF Sync0Edge
  <2>2. CASE sync0
    BY <1>5, <2>2, Sync0PeriodCounted DEF Sync0Edge, PassCounted
  <2> QED BY <2>1, <2>2
<1>6. CASE StateStep
  <2>1. UNCHANGED <<counters, AppState>> \/ Transition
    BY <1>6 DEF StateStep, ESC_state
  <2> QED BY <2>1, <1>1, TransitionCounted
<1>7. CASE SmActStep
  <2>1. UNCHANGED counters
    BY <1>7 DEF SmActStep, ESC_sm_act_event
  <2>2. AppState' \subseteq AppState
    BY <1>7 DEF SmActStep, ESC_sm_act_event, StepDownToInit, StepDownToPreop, KeepState,
                StopOutputAndInput
  <2> QED BY <2>1, <2>2, CountedUnchanged
<1>8. CASE Poll \/ WaitSync0
  BY <1>8, <1>1 DEF Poll, WaitSync0
<1>9. CASE Master \/ WatchdogExpires
  BY <1>9, <1>1 DEF Master, WriteControl, Reconfigure, SwitchDC, Frame, MasterStops,
                    WatchdogExpires, escVars
<1>10. CASE UNCHANGED vars
  BY <1>10, <1>1 DEF vars, escVars
<1> QED
  BY <1>2, <1>3, <1>4, <1>5, <1>6, <1>7, <1>8, <1>9, <1>10 DEF Next, Slave

LEMMA PassCountedStep ==
  ASSUME PassCounted, [Next]_vars
  PROVE  PassCounted'
<1> USE DEF PassCounted, passVars, escVars
<1>1. CASE WaitSync0
  BY <1>1 DEF WaitSync0
<1>2. CASE WaitTimeout
  BY <1>2 DEF WaitTimeout
<1>3. CASE WaitTimeoutFatal
  BY <1>3 DEF WaitTimeoutFatal
<1>4. CASE ProcessOutputs
  BY <1>4 DEF ProcessOutputs
<1>5. CASE Poll \/ Sync0Edge \/ StateStep
  BY <1>5 DEF Poll, Sync0Edge, StateStep
<1>6. CASE SmActStep
  BY <1>6 DEF SmActStep
<1>7. CASE ProcessData
  BY <1>7 DEF ProcessData
<1>8. CASE Master \/ WatchdogExpires \/ UNCHANGED vars
  BY <1>8 DEF Master, WriteControl, Reconfigure, SwitchDC, Frame, MasterStops,
              WatchdogExpires, vars
<1> QED BY <1>1, <1>2, <1>3, <1>4, <1>5, <1>6, <1>7, <1>8 DEF Next, Slave

\* "limit/3 is the number of consecutive fully missed cycles tolerated", in the
\* loop: in OP under DC a run of missed SYNC0 periods is never longer, whatever
\* the counter held, and whatever the limit was, when the request for OP came.
THEOREM MissedRunsBounded == Spec => []MissedRunBounded
<1>1. Init => Counted /\ PassCounted
  BY DEF Init, Counted, PassCounted
<1>2. Counted /\ PassCounted /\ [Next]_vars => (Counted /\ PassCounted)'
  BY CountedStep, PassCountedStep
<1>3. Counted => MissedRunBounded
  BY DEF Counted, MissedRunBounded
<1> QED BY <1>1, <1>2, <1>3, PTL DEF Spec

-----------------------------------------------------------------------------
(* The inputs, and the held request: a master that sets its SyncManagers   *)
(* up below SAFEOP and acknowledges an error before it asks for OP again.  *)
HIDE DEF counters, pdVars, dcVars

NoAckedOp == \A w \in Requests : w.req = "OP" => ~w.ack
SetUpBelowSafeop == ReconfigStates \cap {"SAFEOP", "OP"} = {}

\* What such a master has asked for.
Unacknowledged == control.req = "OP" => ~control.ack

Shown == alState \in {"SAFEOP", "OP"} /\ ~alErr

\* A change of a SyncManager that is still to be acted on finds the mailbox right.
MbxSettled == mailbox \in {"off", smMbx} \/ "SMCHANGE" \notin events

\* What a master of this kind can rely on once SAFEOP or OP is shown: neither the
\* inputs nor a held request for OP is undone by a check of the SyncManagers.
Live ==
  /\ Unacknowledged
  /\ "SMCHANGE" \in ALevent => "SMCHANGE" \in events
  /\ Shown => /\ "INPUT" \in AppState /\ SM23Error(sm2sml, sm3sml) = "NONE"
              /\ MbxSettled \/ (pc = "smact" /\ "SMCHANGE" \in ALevent)
  /\ op_pending => Shown /\ alState = "SAFEOP" /\ dcsync /\ MbxSettled

\* Steps that keep what the slave has checked.
LEMMA LiveUnchanged ==
  ASSUME Live, control' \in Requests \/ control' = control, NoAckedOp,
         UNCHANGED <<alState, alErr, sizeVars, mailbox, dcsync, smOut, smIn, smMbx>>,
         "INPUT" \in AppState => "INPUT" \in AppState', op_pending' => op_pending,
         "SMCHANGE" \in events' <=> "SMCHANGE" \in events,
         "SMCHANGE" \in ALevent' => "SMCHANGE" \in ALevent \/ "SMCHANGE" \in events,
         pc = "smact" => pc' = "smact" /\ ("SMCHANGE" \in ALevent => "SMCHANGE" \in ALevent')
  PROVE  Live'
<1>1. Unacknowledged'
  BY DEF Live, NoAckedOp, Unacknowledged
<1>2. Shown' <=> Shown
  BY DEF Shown
<1>3. MbxSettled' <=> MbxSettled
  BY DEF MbxSettled
<1>4. SM23Error(sm2sml, sm3sml)' = SM23Error(sm2sml, sm3sml)
  BY DEF SM23Error, sizeVars
<1> QED
  BY <1>1, <1>2, <1>3, <1>4 DEF Live

\* An error ends what could be relied on.
LEMMA LiveInError ==
  ASSUME Live, UNCHANGED control, alErr' = TRUE, op_pending' = FALSE,
         "SMCHANGE" \in ALevent' => "SMCHANGE" \in events'
  PROVE  Live'
  BY DEF Live, Shown, Unacknowledged

LEMMA TransitionLive ==
  ASSUME Live, Consistent, pc = "state", pc' = "smact", UNCHANGED <<control, smRegs>>, ReadControl,
         ~RequestIgnored, Transition
  PROVE  Live'
<1> USE DEF Reach, Refuse, From, To, EndPending, pdVars, smRegs, Request, sizeVars, mbxVars, dcVars
<1>1. /\ "SMCHANGE" \in ALevent' <=> "SMCHANGE" \in events'
      /\ "SMCHANGE" \in events' <=> "SMCHANGE" \in events
      /\ smMbx' = smMbx /\ smOut' = smOut /\ smIn' = smIn /\ control' = control
  BY DEF ReadControl
<1>2. Unacknowledged'
  BY <1>1 DEF Live, Unacknowledged
\* Where the check of the SyncManagers is behind, or the state is below SAFEOP.
<1>3. ASSUME op_pending' = FALSE,
             Shown' => UNCHANGED <<alState, sizeVars, mailbox>> /\ ~alErr /\ "INPUT" \in AppState'
      PROVE  Live'
  <2>1. CASE ~Shown'
    BY <1>1, <1>2, <1>3, <2>1 DEF Live
  <2>2. CASE /\ UNCHANGED <<alState, sizeVars, mailbox>> /\ ~alErr /\ "INPUT" \in AppState' /\ Shown'
    <3>1. Shown
      BY <2>2 DEF Shown
    <3>2. MbxSettled /\ SM23Error(sm2sml, sm3sml) = "NONE"
      BY <3>1 DEF Live
    <3>3. MbxSettled' /\ SM23Error(sm2sml, sm3sml)' = "NONE"
      BY <1>1, <2>2, <3>2 DEF MbxSettled, SM23Error
    <3> QED
      BY <1>1, <1>2, <1>3, <2>2, <3>3 DEF Live
  <2> QED
    BY <1>3, <2>1, <2>2
<1>4. CASE SameState
  <2>1. op_pending' = FALSE /\ UNCHANGED <<alState, sizeVars, mailbox, AppState>>
    BY <1>4 DEF SameState
  <2>2. Shown' => ~alErr /\ "INPUT" \in AppState'
    BY <1>4, <2>1 DEF SameState, Shown, Consistent, OutputsMatchState, Live
  <2>3. Shown' => UNCHANGED <<alState, sizeVars, mailbox>> /\ ~alErr /\ "INPUT" \in AppState'
    BY <2>1, <2>2
  <2>4. op_pending' = FALSE
    BY <2>1
  <2> HIDE DEF sizeVars
  <2> QED
    BY <1>3, <2>3, <2>4
<1>5. CASE StartMbx \/ RefuseTransition \/ ToInit \/ BackToPreop \/ OpToBoot \/ UnknownRequest
  <2>1. op_pending' = FALSE /\ ~Shown'
    BY <1>5 DEF StartMbx, RefuseTransition, ToInit, BackToPreop, OpToBoot, UnknownRequest,
                LeaveOpWithError, Shown
  <2>2. op_pending' = FALSE
    BY <2>1
  <2>3. Shown' => UNCHANGED <<alState, sizeVars, mailbox>> /\ ~alErr /\ "INPUT" \in AppState'
    BY <2>1
  <2> HIDE DEF sizeVars
  <2> QED
    BY <1>3, <2>2, <2>3
<1>6. CASE ToSafeop
  <2>1. op_pending' = FALSE /\ mailbox' = mailbox
    BY <1>6 DEF ToSafeop
  <2>2. Shown' => "INPUT" \in AppState' /\ SM23Error(sm2sml', sm3sml') = "NONE"
    BY <1>6 DEF ToSafeop, InputsStarted, InputsRefused, Shown
  <2>3. SM23Error(sm2sml', sm3sml') = SM23Error(sm2sml, sm3sml)'
    BY <1>1 DEF SM23Error
  <2>4. MbxSettled' \/ "SMCHANGE" \in ALevent'
    BY <1>1 DEF MbxSettled
  <2> QED
    BY <1>1, <1>2, <2>1, <2>2, <2>3, <2>4 DEF Live
<1>7. CASE SafeopToOp
  <2>1. control.req = "OP" /\ alState = "SAFEOP"
    BY <1>7 DEF SafeopToOp
  <2>2. ~alErr
    BY <2>1 DEF RequestIgnored, Acknowledges, Live, Unacknowledged
  <2>3. Shown /\ MbxSettled /\ "INPUT" \in AppState /\ SM23Error(sm2sml, sm3sml) = "NONE"
    BY <2>1, <2>2 DEF Shown, Live
  <2>4. MbxSettled' /\ SM23Error(sm2sml, sm3sml)' = "NONE" /\ "INPUT" \in AppState'
    BY <1>1, <1>7, <2>3 DEF SafeopToOp, MbxSettled, SM23Error, StartOutput
  <2>5. op_pending' => Shown' /\ alState' = "SAFEOP" /\ dcsync'
    BY <1>7 DEF SafeopToOp, Shown
  <2> QED
    BY <1>1, <1>2, <2>4, <2>5 DEF Live
<1>8. CASE OpToSafeop
  <2>1. op_pending' = FALSE /\ UNCHANGED <<sizeVars, mailbox>> /\ alState = "OP" /\ AppState' = AppState \cap {"INPUT"}
    BY <1>8 DEF OpToSafeop, StopOutput
  <2>2. Shown /\ MbxSettled /\ "INPUT" \in AppState /\ SM23Error(sm2sml, sm3sml) = "NONE"
    BY <2>1 DEF Shown, Live, Consistent, OutputsMatchState
  <2>3. MbxSettled' /\ SM23Error(sm2sml, sm3sml)' = "NONE" /\ "INPUT" \in AppState'
    BY <1>1, <2>1, <2>2 DEF MbxSettled, SM23Error
  <2> QED
    BY <1>1, <1>2, <2>1, <2>3 DEF Live
<1> QED
  BY <1>4, <1>5, <1>6, <1>7, <1>8 DEF Transition

\* A check of the SyncManagers goes down only where nothing could be relied on.
LEMMA SmActLive ==
  ASSUME Live, pc = "smact", pc' # "smact", ESC_sm_act_event
  PROVE  Live'
<1> USE DEF pdVars, smRegs, sizeVars, mbxVars, alVars, dcVars, opVars
<1>1. /\ control' = control /\ UNCHANGED <<smRegs, sizeVars, dcVars, opVars>>
      /\ "SMCHANGE" \in ALevent' => "SMCHANGE" \in events'
      /\ "SMCHANGE" \in events' => "SMCHANGE" \in events
  BY DEF ESC_sm_act_event, Live
<1>2. CASE UNCHANGED <<alVars, mailbox, pdVars>>
  <2>1. Shown' <=> Shown
    BY <1>2 DEF Shown
  <2>2. SM23Error(sm2sml, sm3sml)' = SM23Error(sm2sml, sm3sml)
    BY <1>1 DEF SM23Error
  <2>3. MbxSettled => MbxSettled'
    BY <1>1, <1>2 DEF MbxSettled
  <2>4. Shown => MbxSettled'
    <3>1. CASE Shown /\ ~MbxSettled
      <4>1. "SMCHANGE" \in ALevent /\ SM23Error(sm2sml, sm3sml) = "NONE" /\ mailbox # "off" /\ smMbx # mailbox
        BY <3>1 DEF Live, MbxSettled
      <4>2. ChecksSyncManagers /\ ~ErrorStands /\ MbxBad
        BY <3>1, <4>1 DEF ChecksSyncManagers, ErrorStands, MbxBad, Shown
      <4>3. StepDownToInit
        BY <4>1, <4>2 DEF ESC_sm_act_event, StepDownToPreop, KeepState
      <4> QED
        BY <1>2, <3>1, <4>3 DEF StepDownToInit, Refuse, Shown
    <3> QED
      BY <2>3, <3>1
  <2> QED
    BY <1>1, <1>2, <2>1, <2>2, <2>3, <2>4 DEF Live, Unacknowledged
<1>3. CASE "SMCHANGE" \in ALevent /\ ChecksSyncManagers /\ (StepDownToInit \/ StepDownToPreop)
  <2>1. ~Shown'
    BY <1>3 DEF StepDownToInit, StepDownToPreop, Refuse, Shown
  <2>2. ~op_pending
    <3>1. CASE op_pending
      <4>1. Shown /\ alState = "SAFEOP" /\ MbxSettled /\ SM23Error(sm2sml, sm3sml) = "NONE" /\ "SMCHANGE" \in events
        BY <1>3, <3>1 DEF Live
      <4>2. mailbox # "off" /\ mailbox = smMbx
        BY <1>3, <4>1 DEF MbxSettled, ChecksSyncManagers
      <4> QED
        BY <1>3, <4>1, <4>2 DEF StepDownToInit, StepDownToPreop, MbxBad, SM23Fails
    <3> QED
      BY <3>1
  <2> QED
    BY <1>1, <2>1, <2>2 DEF Live, Unacknowledged
<1> QED
  BY <1>2, <1>3 DEF ESC_sm_act_event, KeepState

LEMMA OpPendingStepLive ==
  ASSUME Live, NEW edge, NEW sm, NEW elapsed, OpPendingStep(edge, sm, elapsed), pc # "smact", pc' # "smact",
         UNCHANGED <<control, sizeVars, mailbox, dcsync, smOut, smIn, smMbx>>,
         "SMCHANGE" \in events' <=> "SMCHANGE" \in events,
         "SMCHANGE" \in ALevent' => "SMCHANGE" \in events'
  PROVE  Live'
<1>1. MbxSettled' <=> MbxSettled
  BY DEF MbxSettled
<1>2. SM23Error(sm2sml, sm3sml)' = SM23Error(sm2sml, sm3sml)
  BY DEF SM23Error, sizeVars
<1>3. CASE UNCHANGED <<alState, alErr, AppState>> /\ (op_pending' => op_pending)
  BY <1>1, <1>2, <1>3 DEF Live, Shown, Unacknowledged
<1>4. CASE op_pending /\ op_pending' = FALSE /\ alErr' = TRUE
  BY <1>4 DEF Live, Shown, Unacknowledged
<1>5. CASE op_pending /\ op_pending' = FALSE /\ AppState' = AppState \cup {"OUTPUT"}
  BY <1>1, <1>2, <1>5 DEF Live, Unacknowledged
<1> QED
  BY <1>3, <1>4, <1>5 DEF OpPendingStep, Refuse, StartOutput, alVars, pdVars, opVars

LEMMA WatchdogLive ==
  ASSUME Live, NEW inputs, WatchdogAndOutputs(inputs), pc # "smact", pc' # "smact", NoAckedOp,
         UNCHANGED <<control, sizeVars, mailbox, dcsync, smOut, smIn, smMbx>>
  PROVE  Live'
<1>1. /\ "SMCHANGE" \in events' <=> "SMCHANGE" \in events
      /\ "SMCHANGE" \in ALevent' => "SMCHANGE" \in ALevent \/ "SMCHANGE" \in events
  BY DEF WatchdogAndOutputs
<1>2. CASE GotoError("WATCHDOG")
  BY <1>1, <1>2, LiveInError DEF GotoError, Live
<1>3. CASE UNCHANGED <<AppState, alVars, opVars>>
  BY <1>1, <1>3, LiveUnchanged DEF alVars, opVars
<1> QED
  BY <1>2, <1>3 DEF WatchdogAndOutputs

LEMMA LiveStep ==
  ASSUME NoAckedOp, SetUpBelowSafeop, Live, Consistent, [Next]_vars
  PROVE  Live'
<1> USE DEF escVars, alVars, mbxVars, pdVars, opVars, dcVars, smRegs, passVars, envVars
<1>1. CASE WriteControl
  BY <1>1, LiveUnchanged DEF WriteControl
<1>2. CASE Reconfigure
  <2>1. ~Shown /\ ~op_pending
    BY <1>2 DEF Reconfigure, SetUpBelowSafeop, Shown, Live
  <2>2. UNCHANGED <<control, alState, alErr, op_pending, ALevent>> /\ events \subseteq events'
    BY <1>2 DEF Reconfigure
  <2> QED
    BY <2>1, <2>2 DEF Live, Shown, Unacknowledged
<1>3. CASE SwitchDC
  BY <1>3, LiveUnchanged DEF SwitchDC
<1>4. CASE Frame
  <2>1. "SMCHANGE" \in events' <=> "SMCHANGE" \in events
    BY <1>4, LoopConstantsAssumption DEF Frame
  <2> QED
    BY <1>4, <2>1, LiveUnchanged DEF Frame
<1>5. CASE MasterStops
  BY <1>5, LiveUnchanged DEF MasterStops
<1>6. CASE WatchdogExpires
  BY <1>6, LiveUnchanged DEF WatchdogExpires
<1>7. CASE Poll
  BY <1>7, LiveUnchanged DEF Poll, Capture
<1>8. CASE WaitSync0
  BY <1>8, LiveUnchanged DEF WaitSync0, Capture
<1>9. CASE WaitTimeoutFatal
  BY <1>9, LiveInError DEF WaitTimeoutFatal, GotoError
<1>10. CASE WaitTimeout
  <2>1. OpPendingStep(FALSE, FALSE, 2) /\ pc # "smact" /\ pc' # "smact" /\ ALevent' = events
        /\ UNCHANGED <<control, sizeVars, mailbox, dcsync, smOut, smIn, smMbx, events>>
    BY <1>10 DEF WaitTimeout, Capture
  <2> QED
    BY <2>1, OpPendingStepLive
<1>11. CASE ProcessOutputs
  <2>1. /\ UNCHANGED <<control, sizeVars, mailbox, dcsync, smOut, smIn, smMbx>>
        /\ pc # "smact" /\ pc' # "smact"
    BY <1>11 DEF ProcessOutputs
  <2>2. CASE WatchdogAndOutputs(FALSE)
    BY <2>1, <2>2, WatchdogLive
  <2>3. CASE UNCHANGED <<events, ALevent, alVars, pdVars, opVars>>
    BY <2>1, <2>3, LiveUnchanged
  <2> QED
    BY <1>11, <2>2, <2>3 DEF ProcessOutputs
<1>12. CASE Sync0Edge
  <2>1. /\ UNCHANGED <<control, sizeVars, mailbox, smOut, smIn, smMbx>>
        /\ pc # "smact" /\ pc' # "smact"
    BY <1>12 DEF Sync0Edge
  <2>2. CASE UNCHANGED <<events, ALevent, alVars, pdVars, opVars, dcVars>>
    BY <2>1, <2>2, LiveUnchanged
  <2>3. CASE Sync0Period /\ ALevent' = events' /\ events' \in {events, events \ {"SM3"}}
    <3>1. /\ "SMCHANGE" \in events' <=> "SMCHANGE" \in events
          /\ "SMCHANGE" \in ALevent' => "SMCHANGE" \in events'
          /\ dcsync' = dcsync
      BY <2>3 DEF Sync0Period
    <3>2. CASE GotoError("SYNCERROR")
      BY <2>1, <3>1, <3>2, LiveInError DEF GotoError
    <3>3. CASE OpPendingStep(TRUE, sm_event_seen, 1)
      BY <2>1, <3>1, <3>3, OpPendingStepLive
    <3> QED
      BY <2>3, <3>2, <3>3 DEF Sync0Period
  <2> QED
    BY <1>12, <2>2, <2>3 DEF Sync0Edge
<1>13. CASE StateStep
  <2>1. pc = "state" /\ pc' = "smact" /\ ESC_state /\ UNCHANGED <<control, smRegs>>
    BY <1>13 DEF StateStep, ESC_state
  <2>2. CASE UNCHANGED <<events, ALevent, alVars, mbxVars, pdVars, sizeVars, dcVars, opVars>>
    BY <2>1, <2>2, LiveUnchanged
  <2>3. CASE ReadControl /\ UNCHANGED <<alVars, mbxVars, pdVars, sizeVars, dcVars, opVars>>
    BY <2>1, <2>3, LiveUnchanged DEF ReadControl
  <2>4. CASE ReadControl /\ ~RequestIgnored /\ Transition
    BY <2>1, <2>4, TransitionLive
  <2> QED
    BY <2>1, <2>2, <2>3, <2>4 DEF ESC_state
<1>14. CASE SmActStep
  BY <1>14, SmActLive DEF SmActStep
<1>15. CASE ProcessData
  <2>1. /\ UNCHANGED <<control, sizeVars, mailbox, dcsync, smOut, smIn, smMbx>>
        /\ pc # "smact" /\ pc' # "smact" /\ WatchdogAndOutputs(TRUE)
    BY <1>15 DEF ProcessData
  <2> QED
    BY <2>1, WatchdogLive
<1>16. CASE UNCHANGED vars
  BY <1>16, LiveUnchanged DEF vars
<1> QED
  BY <1>1, <1>2, <1>3, <1>4, <1>5, <1>6, <1>7, <1>8, <1>9, <1>10, <1>11, <1>12,
     <1>13, <1>14, <1>15, <1>16 DEF Next, Slave, Master

LEMMA LiveInvariant ==
  ASSUME NoAckedOp, SetUpBelowSafeop
  PROVE  Spec => [](Live /\ Consistent)
<1>1. Init => Live
  BY DEF Init, Live, Shown, Unacknowledged
<1>2. Live /\ Consistent /\ [Next]_vars => (Live /\ Consistent)'
  BY LiveStep, ConsistentStep
<1> QED
  BY <1>1, <1>2, ConsistentInit, PTL DEF Spec

\* What stands in for Live without DC, where nothing else ends the inputs: no check
\* of a SyncManager that goes down keeps the state.
Running ==
  /\ Unacknowledged
  /\ Shown => "INPUT" \in AppState

LEMMA UnacknowledgedStep ==
  ASSUME NoAckedOp, Unacknowledged, [Next]_vars
  PROVE  Unacknowledged'
<1>1. control' = control \/ control' \in Requests
  BY DEF Next, Slave, Master, WriteControl, Reconfigure, SwitchDC, Frame, MasterStops, WatchdogExpires, Poll,
         WaitSync0, WaitTimeoutFatal, WaitTimeout, ProcessOutputs, Sync0Edge, StateStep, ESC_state, SmActStep,
         ESC_sm_act_event, ProcessData, vars, escVars
<1> QED
  BY <1>1 DEF Unacknowledged, NoAckedOp

LEMMA TransitionRunning ==
  ASSUME Running, Consistent, Freerun, ~RequestIgnored, Transition
  PROVE  Shown' => "INPUT" \in AppState'
<1> USE DEF Reach, Refuse, From, To, Request, pdVars, Shown
<1>1. CASE SameState \/ StartMbx
  BY <1>1 DEF SameState, StartMbx, Running, Consistent, OutputsMatchState
<1>2. CASE RefuseTransition \/ ToInit \/ BackToPreop \/ OpToBoot \/ UnknownRequest
  BY <1>2 DEF RefuseTransition, ToInit, BackToPreop, OpToBoot, UnknownRequest, LeaveOpWithError
<1>3. CASE ToSafeop
  BY <1>3 DEF ToSafeop, InputsStarted, InputsRefused
<1>4. CASE SafeopToOp
  <2>1. control.req = "OP" /\ alState = "SAFEOP"
    BY <1>4 DEF SafeopToOp
  <2>2. "INPUT" \in AppState
    BY <2>1 DEF RequestIgnored, Acknowledges, Running, Unacknowledged
  <2> QED
    BY <1>4, <2>2 DEF SafeopToOp, StartOutput, Freerun
<1>5. CASE OpToSafeop
  <2>1. alState = "OP" /\ AppState' = AppState \cap {"INPUT"}
    BY <1>5 DEF OpToSafeop, StopOutput
  <2>2. "INPUT" \in AppState
    BY <2>1 DEF Running, Consistent, OutputsMatchState
  <2> QED
    BY <2>1, <2>2
<1> QED
  BY <1>1, <1>2, <1>3, <1>4, <1>5 DEF Transition

LEMMA RunningStep ==
  ASSUME NoAckedOp, Running, Consistent, Freerun, [Next]_vars
  PROVE  Running'
<1> USE DEF escVars, alVars, pdVars
<1>1. Unacknowledged'
  BY UnacknowledgedStep DEF Running
<1>2. Shown' => "INPUT" \in AppState'
  <2>1. CASE UNCHANGED <<alState, alErr, AppState>>
    BY <2>1 DEF Running, Shown
  <2>2. CASE Master \/ WatchdogExpires \/ Poll \/ UNCHANGED vars
    BY <2>1, <2>2 DEF Master, WriteControl, Reconfigure, SwitchDC, Frame, MasterStops, WatchdogExpires, Poll,
                      vars
  <2>3. CASE StateStep
    BY <2>1, <2>3, TransitionRunning DEF StateStep, ESC_state
  <2>4. CASE SmActStep
    BY <2>1, <2>4 DEF SmActStep, ESC_sm_act_event, StepDownToInit, StepDownToPreop, KeepState, Refuse, Shown
  <2>5. CASE ProcessData
    BY <2>1, <2>5 DEF ProcessData, WatchdogAndOutputs, GotoError, Shown
  <2>6. CASE WaitSync0 \/ WaitTimeoutFatal \/ WaitTimeout \/ ProcessOutputs \/ Sync0Edge
    BY <2>6 DEF WaitSync0, WaitTimeoutFatal, WaitTimeout, ProcessOutputs, Sync0Edge, RunsDC, Freerun
  <2> QED
    BY <2>2, <2>3, <2>4, <2>5, <2>6 DEF Next, Slave
<1> QED
  BY <1>1, <1>2 DEF Running

LEMMA RunningInvariant ==
  ASSUME NoAckedOp, WithoutDC
  PROVE  Spec => []Running
<1>1. Init => Running
  BY DEF Init, Running, Shown, Unacknowledged
<1>2. Running /\ Freerun /\ InStates /\ [Next]_vars => Running'
  BY RunningStep DEF InStates
<1> QED
  BY <1>1, <1>2, FreerunInvariant, PTL DEF Spec

\* In SAFEOP without error and in OP the inputs are processed, if the master does
\* not acknowledge an error in the request for OP itself and, where it uses DC, sets
\* its SyncManagers up below SAFEOP (ESC_startinput, ESC_state).
THEOREM InputsRun ==
  ASSUME NoAckedOp, SetUpBelowSafeop \/ WithoutDC
  PROVE  Spec => []InputsAreLive
<1>1. CASE SetUpBelowSafeop
  <2>1. Live => InputsAreLive
    BY DEF Live, Shown, InputsAreLive
  <2> QED
    BY <1>1, <2>1, LiveInvariant, PTL
<1>2. CASE WithoutDC
  <2>1. Running => InputsAreLive
    BY DEF Running, Shown, InputsAreLive
  <2> QED
    BY <1>2, <2>1, RunningInvariant, PTL
<1> QED
  BY <1>1, <1>2

\* With a master that sets up below SAFEOP a held request for OP is always about a slave that waits in
\* SAFEOP without error, inputs running, outputs off, DC active: nothing that ends
\* this state leaves the request behind (ESC_op_pending_step).
THEOREM HeldRequestIsCurrent ==
  ASSUME NoAckedOp, SetUpBelowSafeop
  PROVE  Spec => []PendingIsSafeop
<1>1. Live /\ Consistent => PendingIsSafeop
  BY DEF Live, Shown, Consistent, OutputsMatchState, PendingIsSafeop, OutputsOn
<1> QED
  BY <1>1, LiveInvariant, PTL

-----------------------------------------------------------------------------
(* The hardware watchdog in the free-running loop.                         *)

\* The watchdog is enforced over outputs that were applied; where they have gone
\* down since, an error keeps them down until the check has seen it.
Enforced ==
  hw_wd_state = "RUNNING" =>
    \/ OutputsOn /\ setpoint = "applied"
    \/ ~OutputsOn /\ (alErr \/ pc \in {"smact", "pd"})

\* Every pass begun without a frame is counted as quiet by the check at its end.
Overdue ==
  /\ ~UseHwWatchdog => hw_wd_state = "UNCHECKED"
  /\ heldExpired \in Nat /\ hw_wd_quiet \in Nat
  /\ heldExpired <= HwWdQuietCycles + 1 /\ hw_wd_quiet <= HwWdQuietCycles
  /\ heldExpired > 0 => "SM2" \notin events /\ "SM2" \notin ALevent /\ ~wdOk
  /\ heldExpired > 0 /\ pc = "state" => OutputsOn
  /\ heldExpired > 0 /\ OutputsOn /\ hw_wd_state = "RUNNING" =>
       heldExpired <= IF pc = "wait" THEN hw_wd_quiet ELSE hw_wd_quiet + 1

\* hw_watchdog_check: what a verdict means.
LEMMA WatchdogVerdict ==
  ASSUME NEW armed, NEW seen \in BOOLEAN, NEW check, check = HwWatchdogCheck(armed, seen),
         hw_wd_quiet \in Nat, hw_wd_quiet <= HwWdQuietCycles
  PROVE  /\ check.quiet \in Nat /\ check.quiet <= HwWdQuietCycles
         /\ check.state = "RUNNING" =>
              /\ OutputsOn /\ check.inCharge /\ (seen \/ hw_wd_state = "RUNNING")
              /\ ~seen /\ hw_wd_quiet < HwWdQuietCycles => check.quiet = hw_wd_quiet + 1
              /\ ~seen /\ hw_wd_quiet >= HwWdQuietCycles => (check.trip <=> ~wdOk)
<1> DEFINE st == IF hw_wd_state # "UNCHECKED" THEN hw_wd_state ELSE HwWdEntered(armed)
           off == ~OutputsOn \/ sm2sml = 0
           verdict(s, q, c, t) == [state |-> s, quiet |-> q, inCharge |-> c, trip |-> t]
<1>1. HwWdQuietCycles \in Nat
  BY LoopConstantsAssumption
<1>2. check = IF off THEN verdict("UNCHECKED", 0, TRUE, FALSE)
              ELSE IF st = "DISABLED" THEN verdict(st, hw_wd_quiet, FALSE, FALSE)
              ELSE IF seen THEN verdict("RUNNING", 0, TRUE, FALSE)
              ELSE IF hw_wd_quiet < HwWdQuietCycles THEN verdict(st, hw_wd_quiet + 1, TRUE, FALSE)
              ELSE verdict(st, hw_wd_quiet, TRUE, ~wdOk /\ st = "RUNNING")
  BY DEF HwWatchdogCheck, QuietPeriod
<1>3. st = "RUNNING" => hw_wd_state = "RUNNING"
  BY DEF HwWdEntered
<1> HIDE DEF st
<1>4. CASE off
  <2>1. check.state = "UNCHECKED" /\ check.quiet = 0
    BY <1>2, <1>4
  <2> QED
    BY <1>1, <2>1
<1>5. CASE ~off /\ st = "DISABLED"
  <2>1. check.state = "DISABLED" /\ check.quiet = hw_wd_quiet
    BY <1>2, <1>5
  <2> QED
    BY <1>1, <2>1
<1>6. CASE ~off /\ st # "DISABLED" /\ seen
  <2>1. check.state = "RUNNING" /\ check.quiet = 0 /\ check.inCharge = TRUE
    BY <1>2, <1>6
  <2>2. OutputsOn
    BY <1>6
  <2>3. check.quiet \in Nat /\ check.quiet <= HwWdQuietCycles
    BY <1>1, <2>1
  <2> QED
    BY <1>6, <2>1, <2>2, <2>3, Zenon
<1>7. CASE ~off /\ st # "DISABLED" /\ ~seen /\ hw_wd_quiet < HwWdQuietCycles
  <2>1. check.state = st /\ check.quiet = hw_wd_quiet + 1 /\ check.inCharge = TRUE
    BY <1>2, <1>7
  <2> QED
    BY <1>1, <1>3, <1>7, <2>1
<1>8. CASE ~off /\ st # "DISABLED" /\ ~seen /\ ~(hw_wd_quiet < HwWdQuietCycles)
  <2> DEFINE late == ~wdOk /\ st = "RUNNING"
  <2>1. check = verdict(st, hw_wd_quiet, TRUE, late)
    BY <1>2, <1>8
  <2> HIDE DEF late
  <2>2. check.state = st /\ check.quiet = hw_wd_quiet /\ check.inCharge = TRUE
    BY <2>1
  <2>3. check.trip = late
    BY <2>1
  <2>4. check.trip <=> ~wdOk /\ st = "RUNNING"
    BY <2>3, Zenon DEF late
  <2> QED
    BY <1>1, <1>3, <1>8, <2>2, <2>4
<1> QED
  BY <1>4, <1>5, <1>6, <1>7, <1>8

\* DIG_process at the end of a pass.
LEMMA CheckedAtTheEnd ==
  ASSUME Overdue, Consistent, pc = "pd", pc' = "wait", WatchdogAndOutputs(TRUE),
         UNCHANGED <<wdOk, heldExpired>>
  PROVE  Overdue' /\ (Enforced => Enforced')
<1>1. PICK armed \in WdArmings :
    LET reread == UseHwWatchdog /\ OutputsOn /\ sm2sml > 0 /\ hw_wd_state = "UNCHECKED"
        seen   == "SM2" \in (IF reread THEN events ELSE ALevent)
        check  == HwWatchdogCheck(armed, seen)
        soft   == ~UseHwWatchdog \/ ~check.inCharge
        trip   == IF soft THEN CountdownTrips ELSE check.trip
        sm2    == "SM2" \in (IF reread \/ trip THEN events ELSE ALevent)
        apply  == OutputsOn /\ ~trip /\ sm2
    IN  /\ IF UseHwWatchdog
           THEN hw_wd_state' = check.state /\ hw_wd_quiet' = check.quiet
           ELSE UNCHANGED <<hw_wd_state, hw_wd_quiet>>
        /\ IF trip THEN GotoError("WATCHDOG")
           ELSE /\ setpoint' = IF apply THEN "applied" ELSE setpoint
                /\ UNCHANGED <<AppState, pdiOff, alVars, opVars>>
        /\ events' = events \ {e \in {"SM2", "SM3"} : IF e = "SM2" THEN sm2
                                                   ELSE TRUE /\ AppState' # {}}
        /\ ALevent' = IF reread \/ trip THEN events ELSE ALevent
  BY DEF WatchdogAndOutputs
<1> DEFINE reread == UseHwWatchdog /\ OutputsOn /\ sm2sml > 0 /\ hw_wd_state = "UNCHECKED"
           seen   == "SM2" \in (IF reread THEN events ELSE ALevent)
           check  == HwWatchdogCheck(armed, seen)
           soft   == ~UseHwWatchdog \/ ~check.inCharge
           trip   == IF soft THEN CountdownTrips ELSE check.trip
           sm2    == "SM2" \in (IF reread \/ trip THEN events ELSE ALevent)
           apply  == OutputsOn /\ ~trip /\ sm2
<1>2. hw_wd_quiet \in Nat /\ hw_wd_quiet <= HwWdQuietCycles /\ HwWdQuietCycles \in Nat
  BY LoopConstantsAssumption DEF Overdue
<1>3. seen \in BOOLEAN
  OBVIOUS
<1>4. /\ check.quiet \in Nat /\ check.quiet <= HwWdQuietCycles
      /\ check.state = "RUNNING" =>
           /\ OutputsOn /\ check.inCharge /\ (seen \/ hw_wd_state = "RUNNING")
           /\ ~seen /\ hw_wd_quiet < HwWdQuietCycles => check.quiet = hw_wd_quiet + 1
           /\ ~seen /\ hw_wd_quiet >= HwWdQuietCycles => (check.trip <=> ~wdOk)
  BY <1>2, <1>3, WatchdogVerdict
<1>5. /\ UseHwWatchdog => hw_wd_state' = check.state /\ hw_wd_quiet' = check.quiet
      /\ ~UseHwWatchdog => UNCHANGED <<hw_wd_state, hw_wd_quiet>>
  BY <1>1
<1>6. /\ trip => GotoError("WATCHDOG")
      /\ ~trip => setpoint' = (IF apply THEN "applied" ELSE setpoint) /\ UNCHANGED <<AppState, alVars>>
  BY <1>1
<1>7. events' \subseteq events /\ ALevent' \in {events, ALevent}
  BY <1>1
<1>8. check.state = "RUNNING" /\ UseHwWatchdog => (trip <=> check.trip)
  BY <1>4
<1>9. ~trip => (sm2 <=> seen)
  OBVIOUS
<1> HIDE DEF reread, seen, check, soft, trip, sm2
<1>10. trip => ~OutputsOn' /\ alErr' = TRUE
  BY <1>6 DEF GotoError, StopOutput, pdVars
<1>11. ASSUME Enforced PROVE Enforced'
  <2>1. CASE UseHwWatchdog /\ hw_wd_state' = "RUNNING"
    <3>1. check.state = "RUNNING"
      BY <1>5, <2>1
    <3>2. OutputsOn /\ (seen \/ hw_wd_state = "RUNNING")
      BY <1>4, <3>1
    <3>3. CASE trip
      BY <1>10, <2>1, <3>3 DEF Enforced
    <3>4. CASE ~trip
      <4>1. setpoint' = (IF apply THEN "applied" ELSE setpoint) /\ AppState' = AppState
        BY <1>6, <3>4
      <4>2. seen => setpoint' = "applied"
        BY <1>9, <3>2, <3>4, <4>1
      <4>3. hw_wd_state = "RUNNING" => setpoint = "applied"
        BY <1>11, <3>2 DEF Enforced
      <4> QED
        BY <2>1, <3>2, <4>1, <4>2, <4>3 DEF Enforced
    <3> QED
      BY <3>3, <3>4
  <2>2. CASE UseHwWatchdog /\ hw_wd_state' # "RUNNING"
    BY <2>2 DEF Enforced
  <2>3. CASE ~UseHwWatchdog
    BY <1>5, <2>3 DEF Overdue, Enforced
  <2> QED
    BY <2>1, <2>2, <2>3
<1>12. Overdue'
  <2>1. hw_wd_quiet' \in Nat /\ hw_wd_quiet' <= HwWdQuietCycles
    BY <1>2, <1>4, <1>5
  <2>2. heldExpired > 0 => "SM2" \notin events' /\ "SM2" \notin ALevent' /\ ~wdOk'
    BY <1>7 DEF Overdue
  <2>3. ASSUME heldExpired > 0, OutputsOn', hw_wd_state' = "RUNNING" PROVE heldExpired <= hw_wd_quiet'
    <3>1. UseHwWatchdog
      BY <1>5, <2>3 DEF Overdue
    <3>2. check.state = "RUNNING" /\ hw_wd_quiet' = check.quiet
      BY <1>5, <2>3, <3>1
    <3>3. ~seen /\ ~wdOk
      BY <2>3 DEF Overdue, seen
    <3>4. ~trip /\ ~check.trip
      BY <1>8, <1>10, <2>3, <3>1, <3>2
    <3>5. hw_wd_quiet < HwWdQuietCycles /\ check.quiet = hw_wd_quiet + 1
      BY <1>2, <1>4, <3>2, <3>3, <3>4
    <3>6. OutputsOn /\ hw_wd_state = "RUNNING"
      BY <1>4, <3>2, <3>3
    <3>7. heldExpired <= hw_wd_quiet + 1
      BY <2>3, <3>6 DEF Overdue
    <3> QED
      BY <3>2, <3>5, <3>7
  <2>4. ~UseHwWatchdog => hw_wd_state' = "UNCHECKED"
    BY <1>5 DEF Overdue
  <2> QED
    BY <2>1, <2>2, <2>3, <2>4 DEF Overdue
<1> QED
  BY <1>11, <1>12

\* Outputs come up only where no error stands, and what they show is kept.
LEMMA TransitionOutputs ==
  ASSUME Consistent, Unacknowledged, ~RequestIgnored, Transition
  PROVE  OutputsOn' => UNCHANGED <<AppState, setpoint>> \/ (~OutputsOn /\ ~alErr)
<1> USE DEF Reach, Refuse, From, To, pdVars, Request, Consistent, OutputsMatchState
<1>1. CASE SameState \/ StartMbx \/ RefuseTransition
  BY <1>1 DEF SameState, StartMbx, RefuseTransition
<1>2. CASE ToInit \/ BackToPreop \/ OpToSafeop \/ OpToBoot \/ UnknownRequest
  BY <1>2 DEF ToInit, BackToPreop, OpToSafeop, OpToBoot, UnknownRequest, LeaveOpWithError, StopOutput, StopInput,
              StopOutputAndInput
<1>3. CASE ToSafeop
  BY <1>3 DEF ToSafeop, InputsStarted, InputsRefused
<1>4. CASE SafeopToOp
  <2>1. control.req = "OP" /\ alState = "SAFEOP"
    BY <1>4 DEF SafeopToOp
  <2>2. ~alErr
    BY <2>1 DEF RequestIgnored, Acknowledges, Unacknowledged
  <2> QED
    BY <2>1, <2>2
<1> QED
  BY <1>1, <1>2, <1>3, <1>4 DEF Transition

LEMMA OverdueStep ==
  ASSUME Overdue, Consistent, Freerun, [Next]_vars
  PROVE  Overdue'
<1> USE DEF escVars, alVars, pdVars, wdVars, passVars, envVars
<1>0. HwWdQuietCycles \in Nat
  BY LoopConstantsAssumption
<1>1. CASE \/ WriteControl \/ Reconfigure \/ SwitchDC \/ MasterStops \/ WatchdogExpires \/ UNCHANGED vars
  <2>1. /\ UNCHANGED <<ALevent, AppState, pc, hw_wd_state, hw_wd_quiet, heldExpired>>
        /\ "SM2" \in events' => "SM2" \in events
        /\ wdOk' => wdOk
    BY <1>1 DEF WriteControl, Reconfigure, SwitchDC, MasterStops, WatchdogExpires, vars
  <2> QED
    BY <2>1 DEF Overdue
<1>2. CASE Frame
  <2>1. PICK S \in Frames :
          /\ events' = events \cup S /\ wdOk' = (wdOk \/ "SM2" \in S)
          /\ heldExpired' = IF "SM2" \in S THEN 0 ELSE heldExpired
    BY <1>2 DEF Frame
  <2>2. UNCHANGED <<ALevent, AppState, pc, hw_wd_state, hw_wd_quiet>>
    BY <1>2 DEF Frame
  <2>3. CASE "SM2" \in S
    BY <1>0, <2>1, <2>2, <2>3 DEF Overdue
  <2>4. CASE "SM2" \notin S
    BY <2>1, <2>2, <2>4 DEF Overdue
  <2> QED
    BY <2>3, <2>4
<1>3. CASE Poll
  <2>1. /\ pc = "wait" /\ pc' = "state" /\ ALevent' = events
        /\ UNCHANGED <<events, AppState, hw_wd_state, hw_wd_quiet, wdOk>>
    BY <1>3 DEF Poll, Capture
  <2>2. heldExpired' = IF OutputsOn /\ hw_wd_state = "RUNNING" /\ ~wdOk /\ "SM2" \notin events
                       THEN IF heldExpired <= HwWdQuietCycles + 1 THEN heldExpired + 1 ELSE heldExpired
                       ELSE 0
    BY <1>3 DEF Poll, Capture
  <2>3. CASE OutputsOn /\ hw_wd_state = "RUNNING" /\ ~wdOk /\ "SM2" \notin events
    <3>1. heldExpired \in Nat /\ hw_wd_quiet \in Nat /\ heldExpired <= hw_wd_quiet /\ hw_wd_quiet <= HwWdQuietCycles
      BY <2>1, <2>3 DEF Overdue
    <3>2. heldExpired' = heldExpired + 1
      BY <1>0, <2>2, <2>3, <3>1
    <3> QED
      BY <1>0, <2>1, <2>3, <3>1, <3>2 DEF Overdue
  <2>4. CASE ~(OutputsOn /\ hw_wd_state = "RUNNING" /\ ~wdOk /\ "SM2" \notin events)
    <3>1. heldExpired' = 0
      BY <2>2, <2>4
    <3> QED
      BY <1>0, <2>1, <3>1 DEF Overdue
  <2> QED
    BY <2>3, <2>4
\* Outputs may come up here, but then no pass has been counted yet.
<1>4. CASE StateStep
  <2>1. /\ pc = "state" /\ pc' = "smact" /\ UNCHANGED <<hw_wd_state, hw_wd_quiet, wdOk, heldExpired>>
        /\ "SM2" \in events' => "SM2" \in events
        /\ "SM2" \in ALevent' => "SM2" \in events \/ "SM2" \in ALevent
    BY <1>4 DEF StateStep, ESC_state, ReadControl
  <2> QED
    BY <2>1 DEF Overdue
<1>5. CASE SmActStep
  <2>1. /\ pc = "smact" /\ pc' = "pd" /\ UNCHANGED <<hw_wd_state, hw_wd_quiet, wdOk, heldExpired>>
        /\ "SM2" \in events' => "SM2" \in events
        /\ "SM2" \in ALevent' => "SM2" \in events \/ "SM2" \in ALevent
    BY <1>5 DEF SmActStep, ESC_sm_act_event, Freerun
  <2>2. OutputsOn' => OutputsOn
    BY <1>5 DEF SmActStep, ESC_sm_act_event, StepDownToInit, StepDownToPreop, KeepState, StopOutputAndInput
  <2> QED
    BY <2>1, <2>2 DEF Overdue
<1>6. CASE ProcessData
  BY <1>6, CheckedAtTheEnd DEF ProcessData
<1>7. CASE WaitSync0 \/ WaitTimeoutFatal \/ WaitTimeout \/ ProcessOutputs \/ Sync0Edge
  BY <1>7 DEF WaitSync0, WaitTimeoutFatal, WaitTimeout, ProcessOutputs, Sync0Edge, RunsDC, Freerun
<1> QED
  BY <1>1, <1>2, <1>3, <1>4, <1>5, <1>6, <1>7 DEF Next, Slave, Master

LEMMA OverdueInvariant ==
  ASSUME WithoutDC
  PROVE  Spec => []Overdue
<1>1. Init => Overdue
  <2>1. HwWdQuietCycles \in Nat
    BY LoopConstantsAssumption
  <2> QED
    BY <2>1 DEF Init, Overdue
<1>2. Overdue /\ Freerun /\ InStates /\ [Next]_vars => Overdue'
  BY OverdueStep DEF InStates
<1> QED
  BY <1>1, <1>2, FreerunInvariant, PTL DEF Spec

LEMMA EnforcedStep ==
  ASSUME Enforced, Overdue, Consistent, Freerun, Unacknowledged, [Next]_vars
  PROVE  Enforced'
<1> USE DEF escVars, alVars, pdVars, wdVars, passVars, envVars
<1>1. CASE \/ Master \/ WatchdogExpires \/ Poll \/ UNCHANGED vars
  <2>1. UNCHANGED <<AppState, setpoint, alErr, hw_wd_state>> /\ (pc' = pc \/ pc = "wait")
    BY <1>1 DEF Master, WriteControl, Reconfigure, SwitchDC, Frame, MasterStops, WatchdogExpires, Poll, vars
  <2> QED
    BY <2>1 DEF Enforced
<1>2. CASE StateStep
  <2>1. pc = "state" /\ pc' = "smact" /\ UNCHANGED hw_wd_state
    BY <1>2 DEF StateStep
  <2>2. OutputsOn' => UNCHANGED <<AppState, setpoint>> \/ (~OutputsOn /\ ~alErr)
    BY <1>2, TransitionOutputs DEF StateStep, ESC_state
  <2> QED
    BY <2>1, <2>2 DEF Enforced
<1>3. CASE SmActStep
  <2>1. pc = "smact" /\ pc' = "pd" /\ UNCHANGED hw_wd_state
    BY <1>3 DEF SmActStep, Freerun
  <2>2. OutputsOn' => UNCHANGED <<AppState, setpoint>>
    BY <1>3 DEF SmActStep, ESC_sm_act_event, StepDownToInit, StepDownToPreop, KeepState, StopOutputAndInput
  <2> QED
    BY <2>1, <2>2 DEF Enforced
<1>4. CASE ProcessData
  BY <1>4, CheckedAtTheEnd DEF ProcessData
<1>5. CASE WaitSync0 \/ WaitTimeoutFatal \/ WaitTimeout \/ ProcessOutputs \/ Sync0Edge
  BY <1>5 DEF WaitSync0, WaitTimeoutFatal, WaitTimeout, ProcessOutputs, Sync0Edge, RunsDC, Freerun
<1> QED
  BY <1>1, <1>2, <1>3, <1>4, <1>5 DEF Next, Slave

\* Without DC the hardware watchdog is enforced only over outputs that have been
\* applied since they came up, if the master acknowledges an error before it asks
\* for OP again (hw_watchdog_check: a verdict counts once the
\* watchdog has been seen running).
THEOREM WatchdogWaitsForOutputs ==
  ASSUME WithoutDC, NoAckedOp
  PROVE  Spec => []EnforcedAfterFirstFrame
<1> DEFINE I == Enforced /\ Unacknowledged
<1>1. Init => I
  BY DEF Init, Enforced, Unacknowledged
<1>2. I /\ Overdue /\ Freerun /\ InStates /\ [Next]_vars => I'
  BY EnforcedStep, UnacknowledgedStep DEF InStates
<1>3. I => EnforcedAfterFirstFrame
  BY DEF Enforced, EnforcedAfterFirstFrame
<1> HIDE DEF I
<1> QED
  BY <1>1, <1>2, <1>3, OverdueInvariant, FreerunInvariant, PTL DEF Spec

\* Without DC a watchdog that has expired is acted upon after HW_WD_QUIET_CYCLES
\* passes and the one that trips at the latest, whatever the master does
\* (hw_watchdog_check).
THEOREM WatchdogActsInTime ==
  ASSUME WithoutDC
  PROVE  Spec => []HeldExpiredBounded
<1>1. Overdue => HeldExpiredBounded
  BY DEF Overdue, HeldExpiredBounded
<1> QED
  BY <1>1, OverdueInvariant, PTL
=============================================================================
