------------------------------ MODULE MCVfsSeq ------------------------------
(***************************************************************************)
(* One task, as in app.c, on a full-featured volume at "/" and a volume     *)
(* without lseek, mkdir, opendir and several others at "/mnt".             *)
(***************************************************************************)
EXTENDS VfsProperties

CONSTANTS t1, root, mnt, d1

MCTasks == {t1}
MCMounts == {root, mnt}
MCDirs == {d1}
MCDirOwner == [d \in MCDirs |-> t1]
MCNames == {"/x", "/mnt/y"}
MCCovers == [m \in MCMounts |-> IF m = root THEN MCNames ELSE {"/mnt/y"}]
MCPointLen == [m \in MCMounts |-> IF m = root THEN 1 ELSE 4]
MCOptional == {"open", "close", "lseek", "fsync", "opendir", "readdir",
               "closedir", "mkdir", "rmdir", "unlink", "stat", "mount",
               "umount", "format"}
MCImplements == [m \in MCMounts |-> IF m = root THEN ApiCalls
                                    ELSE ApiCalls \ MCOptional]
MCOpenModes == {"r", "rw"}
MCOffsets == {-1, 1}
=============================================================================
