CONSTANTS
  root = root
  dev = dev
  disk = disk
  mount = mount
  f = f
  g = g
  t1 = t1
  t2 = t2
  p1 = p1
  p2 = p2
  Node = {root, dev, disk, mount, f, g}
  vfs_root = root
  vfs_dev = dev
  name <- NodeName
  type <- NodeType
  capabilities <- NodeCaps
  home <- HomeOf
  InitialDevice <- DeviceOf
  process <- ProcessOf
  Thread = {t1, t2}
  IoThread = {t1}
  Cells = 3
  Value = {1}
  Pages = 2
  InitialLength <- LengthOf
  Buffers = 3
  Flags <- AskedFlags
  Counts = {2, 6}
  GlobalEntries = 2
  LocalEntries <- RoomOf
SPECIFICATION FilesSpec
INVARIANTS
  DescriptorsCounted
  BuffersApart
  CleanPagesOnDeviceIfWhole
  ReadsSeeWrites
CONSTRAINT Followed
CHECK_DEADLOCK FALSE
