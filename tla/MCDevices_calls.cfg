SPECIFICATION DevicesSpec
CONSTANTS
  Name <- MCName
  FolderName <- MCFolderName
  Value = {v1}
  MaxCalls = 4
  SectorEntries = 8
  SlotsPerCluster = 5
  NameLength = 2
  ExtensionLength = 2
  root_dir_first_cluster = 2
  InitialFat <- MCInitialFat
  InitialData <- MCInitialData
  Codes = {30, 42, 54, 58, 87}
  CodePlaces = 2
  MaxMoves = 4
  Thread = {t1, t2}
  InitThread = t1
  Device = {1, 10, 11}
  Drivers = {33, 42, 43}
  Exceptions = {6, 14}
  MaxFrames = 2
INVARIANTS
  DiskSound
  NodesMatchEntries
  ContentsKept
  ClustersAccounted
  ModifiersFollowKeys
  WritesWhatWasMeant
  InterruptsSound
CHECK_DEADLOCK FALSE
