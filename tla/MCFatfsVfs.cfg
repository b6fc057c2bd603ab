CONSTANTS
  t1 = t1
  t2 = t2
  va = va
  vb = vb
  vbad = vbad
  ram0 = ram0
  ram1 = ram1
  Tasks <- TwoTasks
  NoTask = NoTask
  Descs <- ThreeVolumes
  NoDesc = NoDesc
  Disks <- RamDisks
  NoDisk = NoDisk
  DiskOf <- MCDiskOf
  Names = {"a"}
  MaxId = 2
  MaxNest = 1
SPECIFICATION Spec
INVARIANTS
  TypeOK
  StaleFilesRejected
  FileOnHome
  WorkExclusive
  OneVolume
PROPERTIES
  FormatReturns
