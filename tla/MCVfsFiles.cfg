CONSTANTS
  t1 = t1
  t2 = t2
  root = root
  mnt = mnt
  Tasks <- MCTasks
  NoTask = NoTask
  Mounts <- MCMounts
  NoMount = NoMount
  NFd = 2
  CountMod = 2
  Dirs <- NoDirs
  DirOwner <- MCDirOwner
  Names <- OneName
  Covers <- MCCovers
  PointMax = 4
  PointLen <- MCPointLen
  Implements <- MCImplements
  HasDirOps <- MCMounts
  Calls <- FileTableCalls
  StaleFds = FALSE
  CanForce = FALSE
  OpenModes <- MCOpenModes
  Offsets <- MCOffsets
  MaxPos = 0
SYMMETRY Symmetry
SPECIFICATION Spec
INVARIANTS
  MutexOwned
  FdExclusive
  HeldIsOpen
  NoFdLeak
  MountListSound
PROPERTIES
  HeldIsStable
