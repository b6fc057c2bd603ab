CONSTANTS
  t1 = t1
  t2 = t2
  root = root
  mnt = mnt
  Tasks <- MCTasks
  NoTask = NoTask
  Mounts <- OneMount
  NoMount = NoMount
  NFd = 2
  CountMod = 65536
  Dirs <- NoDirs
  DirOwner <- MCDirOwner
  Names <- OneName
  Covers <- MCCovers
  PointMax = 4
  PointLen <- MCPointLen
  Implements <- MCImplements
  HasDirOps <- OneMount
  Calls <- RaceCalls
  StaleFds = FALSE
  CanForce = FALSE
  OpenModes <- MCOpenModes
  Offsets <- MCOffsets
  MaxPos = 0
SPECIFICATION Spec
INVARIANTS
  RefsCounted
