SPECIFICATION Spec
CONSTANTS
  UseInterrupt = TRUE
  RxSizes = {1}
  TxSizes = {1}
  SyncLimits = {0}
  DcErrors = {}
  DeviceIds = {TRUE}
  OpSyncValid = 2
  OpPendingTimeout = 6
  UseHwWatchdog = FALSE
  WatchdogCnt = 2
  HwWdQuietCycles = 0
  ForceFreerun = FALSE
  Requests <- AllRequests
  ReconfigStates <- AllStates
  MbxSettings = {"std", "boot", "bad"}
  OutLengths <- OneOrBad
  InLengths <- OneOrBad
  Frames <- WriteOnly
  DcModes = {FALSE}
  WdArmings = {TRUE}
  MasterMayStop = FALSE
  MaxSyncCounter = 30
INVARIANTS
  TypeOK
  OutputsMatchState
  SetpointOnlyInOp
  ErrorHasReason
  MailboxMatchesState
PROPERTY
  PromotionIsRequested
