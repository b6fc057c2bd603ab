CONSTANTS
  t1 = t1
  root = root
  mnt = mnt
  d1 = d1
  Tasks <- MCTasks
  NoTask = NoTask
  Mounts <- MCMounts
  NoMount = NoMount
  NFd = 2
  CountMod = 65536
  Dirs <- MCDirs
  DirOwner <- MCDirOwner
  Names <- MCNames
  Covers <- MCCovers
  PointMax = 4
  PointLen <- MCPointLen
  Implements <- MCImplements
  HasDirOps <- MCMounts
  Calls <- ApiCalls
  StaleFds = TRUE
  CanForce = FALSE
  OpenModes <- MCOpenModes
  Offsets <- MCOffsets
  MaxPos = 1
SPECIFICATION Spec
INVARIANTS
  TypeOK
  RefsCounted
  HeldIsMounted
PROPERTIES
  ApiSpec
