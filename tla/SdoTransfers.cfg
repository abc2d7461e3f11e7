SPECIFICATION Spec
CONSTANTS
  Objects = {"byte", "name", "table", "recipe"}
  Size <- ObjectSizes
  ByCA = {"table", "recipe"}
  Strings = {"name"}
  PreopOnly = {"name"}
  Refusing = {"name", "table"}
  Holding = {"byte"}
  ExpeditedRoom = 1
  InitRoom = 2
  SegRoom = 3
  BufferSize = 6
  ListFrags = 2
  MaxValues = 2
  MaxDrops = 1
INVARIANTS
  UploadIsTheObject
  DownloadStored
  CaObjectsWhole
PROPERTIES
  TransferEnds
