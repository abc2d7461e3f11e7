SPECIFICATION FairSpec
CONSTANTS
  UseInterrupt = TRUE
  RxSizes = {1}
  TxSizes = {1}
  SyncLimits = {3}
  DcErrors = {"DCSYNC0CYCLETIME"}
  DeviceIds = {FALSE}
  OpSyncValid = 2
  OpPendingTimeout = 3
  UseHwWatchdog = TRUE
  WatchdogCnt = 1
  HwWdQuietCycles = 0
  ForceFreerun = FALSE
  Requests <- Rising
  ReconfigStates = {"INIT"}
  MbxSettings = {"std"}
  OutLengths = {1}
  InLengths = {1}
  Frames <- ReadWrite
  DcModes <- Both
  WdArmings = {TRUE}
  MasterMayStop = TRUE
  MaxSyncCounter = 30
INVARIANTS
  PendingIsSafeop
  MissedRunBounded
PROPERTIES
  OpAnswered
  SilenceReachesSafe
