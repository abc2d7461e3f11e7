SPECIFICATION Spec
CONSTANTS
  Sizes <- FrameSizes
  Stamped = {1}
  FragRoom = 2
  FrameNos = 4
  Bufs = 2
  Pool = 2
  Fields = {"mac", "name 1", "name 2"}
  Name = {"name 1", "name 2"}
  Place <- Places
  MaxValues = 3
  MaxFaults = 2
ACTION_CONSTRAINT
  Apart
INVARIANTS
  BuffersConserved
  SettingsReadBack
PROPERTIES
  FramesArrive
  FrameIsSent
