CONSTANTS
  t1 = t1
  t2 = t2
  root = root
  mnt = mnt
  Tasks <- MCTasks
  NoTask = NoTask
  Mounts <- OneMount
  NoMount = NoMount
  NFd = 1
  CountMod = 2
  Dirs <- MCDirs
  DirOwner <- MCDirOwner
  Names <- OneName
  Covers <- MCCovers
  PointMax = 4
  PointLen <- MCPointLen
  Implements <- MCImplements
  HasDirOps <- NoDirs
  Calls <- LiveCalls
  StaleFds = FALSE
  CanForce = TRUE
  OpenModes <- MCOpenModes
  Offsets <- MCOffsets
  MaxPos = 0
SPECIFICATION FairSpec
PROPERTIES
  CallsReturn
