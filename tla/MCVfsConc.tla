------------------------------ MODULE MCVfsConc ------------------------------
(***************************************************************************)
(* Two tasks that the kernel may interleave at any step.                    *)
(***************************************************************************)
EXTENDS VfsProperties, TLC

CONSTANTS t1, t2, root, mnt

MCTasks == {t1, t2}
MCMounts == {root, mnt}
OneMount == {mnt}
MCCovers == [m \in Mounts |-> Names]
MCPointLen == [m \in Mounts |-> IF m = root THEN 1 ELSE 4]
MCImplements == [m \in Mounts |-> ApiCalls]
MCDirs == {"d1"}
NoDirs == {}
MCDirOwner == [d \in Dirs |-> t1]
OneName == {"/mnt/y"}
MCOpenModes == {"rw"}
MCOffsets == {}
FileTableCalls == {"open", "close", "read", "mount", "umount"}
RaceCalls == {"open", "close", "mount"}
LiveCalls == {"open", "close", "rename", "opendir", "mount", "umount", "format"}
Symmetry == Permutations(MCTasks)
=============================================================================
