SPECIFICATION Spec
CONSTANTS
  Table <- OneTable
  Names <- AskedNames
  FileSizes = {2, 6, 7}
  Wanted <- Firmware
  PacketSize = 3
  FlushSize = 2
  Versions = {1, 2}
  MaxFaults = 2
INVARIANTS
  DoneIsStored
PROPERTIES
  TakesInOrder
  TakenInTheEnd
