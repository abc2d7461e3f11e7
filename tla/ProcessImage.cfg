SPECIFICATION Spec
CONSTANTS
  WordBits = 4
  ByteBits = 2
  Words = 5
  BitLength <- Widths
  Target <- Mirrors
  Cleared <- InSafeState
  Written <- ByMaster
  ListOf <- PowerOn
  Writable <- Dynamic
  Wishes <- ByDownload
  Patterns <- Some
  MaxMappings = 4
  MaxDownloads = 2
PROPERTIES
  OutputsArrive
  InputsShown
  ForgottenOutOfOp
