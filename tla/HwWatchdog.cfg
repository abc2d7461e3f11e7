SPECIFICATION Spec
CONSTANTS
  UseInterrupt = FALSE
  RxSizes <- LengthsOrMapError
  TxSizes <- OneOrMapError
  SyncLimits = {0}
  DcErrors = {}
  DeviceIds = {TRUE}
  OpSyncValid = 2
  OpPendingTimeout = 6
  UseHwWatchdog = TRUE
  WatchdogCnt = 2
  HwWdQuietCycles = 2
  ForceFreerun = FALSE
  Requests <- AcksBelowOpOrZero
  ReconfigStates = {"INIT", "PREOP"}
  MbxSettings = {"std"}
  OutLengths <- Lengths
  InLengths = {1}
  Frames <- ReadOrBoth
  DcModes = {FALSE}
  WdArmings <- Both
  MasterMayStop = FALSE
  MaxSyncCounter = 30
INVARIANTS
  EnforcedAfterFirstFrame
  HeldExpiredBounded
  InputsAreLive
