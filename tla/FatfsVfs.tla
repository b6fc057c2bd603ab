------------------------------ MODULE FatfsVfs ------------------------------
(***************************************************************************)
(* The FatFs adapter src/src/vfs/fatfs/fatfs_vfs.c as several tasks use it *)
(* through the VFS: volumes (fatfs_desc_t objects) that share the one      *)
(* drive the library is built for (FF_VOLUMES is 1), the one RAM disk      *)
(* pointer fat_disk that every mount and format overwrites, one path       *)
(* buffer per volume, and the static format buffer behind work_mtx.        *)
(*                                                                         *)
(* A driver entry point is two or three steps: what it does before the     *)
(* library call (fill the path buffer, set fat_disk), then the library     *)
(* call.  f_mkfs is itself two steps, because it drops the mounted volume  *)
(* long before it writes.  Of a disk only whether it holds a file system   *)
(* is kept: what the library does inside it is the subject of FatFs.tla,   *)
(* so here an open finds its file or does not, and a call on an open file  *)
(* is only the question whether the library accepts the object (Valid).    *)
(*                                                                         *)
(* A call the VFS refuses before it reaches the driver is not a step.      *)
(***************************************************************************)
EXTENDS Integers, FiniteSets

CONSTANTS
  Tasks,        \* the tasks that call the VFS
  NoTask,       \* a mutex without owner
  Descs,        \* the fatfs_desc_t objects, one per vfs_mount_t
  NoDesc,       \* FatFs[0] == NULL
  Disks,        \* the RAM disks that exist: ramdisk.c's disks[]
  NoDisk,       \* a NULL ramdisk_t pointer
  DiskOf,       \* ramdisk_open of a mount's dno: a disk, or NoDisk
  Names,        \* the paths the tasks pass
  MaxId,        \* bound on Fsid, the number of mounts the library makes
  MaxNest       \* bound on the nesting of work_mtx by its owner

ASSUME FatfsVfsConstants ==
  /\ IsFiniteSet(Tasks)
  /\ NoTask \notin Tasks
  /\ NoDesc \notin Descs
  /\ NoDisk \notin Disks
  /\ DiskOf \in [Descs -> Disks \cup {NoDisk}]
  /\ MaxId \in Nat
  /\ MaxNest \in Nat

RootPath == "/"         \* the path buffer after _build_abs_path(fs_desc, "")

ASSUME RootIsNoName == RootPath \notin Names

NoFile == [mp |-> NoDesc]

VARIABLES
  fatDisk,      \* the global fat_disk
  workMtx,      \* work_mtx: owner, nesting count, formats that left with it
  mountMutex,   \* owner of the VFS's _mount_mutex
  listed,       \* the volumes in the VFS's mount list
  drive,        \* FatFs[0]: the volume registered for the only drive
  fs,           \* the FATFS object of each volume: fs_type # 0, its id, and the
                \* disks whose sectors its window may hold
  fsid,         \* Fsid, the last id given to a mounted volume
  path,         \* abs_path_str_buff of each volume
  formatted,    \* the RAM disks that hold a file system
  file,         \* the FIL or DIR object each task has open
  pc,           \* where each task is
  loc           \* its locals: the volume, and what a path call does

vars == <<fatDisk, workMtx, mountMutex, listed, drive, fs, fsid, path, formatted,
          file, pc, loc>>

Unmounted == [mounted |-> FALSE, id |-> 0, win |-> {}]
Blank == [d |-> NoDesc, opens |-> FALSE]

Init ==
  /\ fatDisk = NoDisk
  /\ workMtx = [owner |-> NoTask, depth |-> 0, leaks |-> 0]
  /\ mountMutex = NoTask
  /\ listed = {}
  /\ drive = NoDesc
  /\ fs = [d \in Descs |-> Unmounted]
  /\ fsid = 0
  /\ path = [d \in Descs |-> RootPath]
  /\ formatted = {}
  /\ file = [t \in Tasks |-> NoFile]
  /\ pc = [t \in Tasks |-> "idle"]
  /\ loc = [t \in Tasks |-> Blank]

Goto(t, l) == pc' = [pc EXCEPT ![t] = l]
Finish(t) == Goto(t, "idle") /\ loc' = [loc EXCEPT ![t] = Blank]

(* A mount or a path call under way may mount a volume once. *)
Room == fsid + Cardinality({t \in Tasks : pc[t] \in {"mntInit", "mntReg", "lib"}}) < MaxId

(* Some f_mkfs has dropped the volume and has yet to write. *)
MkfsHalfway == \E u \in Tasks : pc[u] = "mkfsWrite"

(* What has happened to the volume under an open file, which the code does
   not record and must detect (validate): its FATFS object lost the volume
   ("dropped"), or f_mkfs wrote a new file system on the disk the file is on
   ("formatted"; "overwritten" when the file was opened amid an f_mkfs). *)
Fates == {"sound", "amid", "formatted", "overwritten", "dropped"}
Written == [sound |-> "formatted", amid |-> "overwritten", formatted |-> "formatted",
            overwritten |-> "overwritten", dropped |-> "dropped"]

Opened == {t \in Tasks : file[t] # NoFile}

Invalidate(ds) ==
  file' = [t \in Tasks |->
            IF t \in Opened /\ file[t].desc \in ds
            THEN [file[t] EXCEPT !.fate = "dropped"] ELSE file[t]]

Reformat(disk) ==
  file' = [t \in Tasks |->
            IF t \in Opened /\ file[t].home = disk
            THEN [file[t] EXCEPT !.fate = Written[@]] ELSE file[t]]

Registered == {drive} \ {NoDesc}
ClearType(ds) == [d \in Descs |->
                    IF d \in ds THEN [fs[d] EXCEPT !.mounted = FALSE, !.win = {}]
                    ELSE fs[d]]

(***************************************************************************)
(* The library's view of a volume.                                         *)
(***************************************************************************)
(* mount_volume, for the volume d registered as drive 0: nothing to do when
   it has a type, otherwise the boot sector is read through fat_disk. *)
MountVolume(f, d) ==
  IF f[d].mounted THEN "OK"
  ELSE IF fatDisk = NoDisk THEN "DISK_ERR"
  ELSE IF fatDisk \in formatted THEN "OK" ELSE "NO_FILESYSTEM"

(* A volume that is mounted gets the next id, ++Fsid. *)
AfterMount(f, d) ==
  IF ~f[d].mounted /\ MountVolume(f, d) = "OK"
  THEN /\ fs' = [f EXCEPT ![d] = [mounted |-> TRUE, id |-> fsid + 1, win |-> {fatDisk}]]
       /\ fsid' = fsid + 1
  ELSE fs' = f /\ UNCHANGED fsid

(* What fat_disk names from now on is what a mounted volume reads next. *)
Sees(disk) ==
  [d \in Descs |-> IF fs[d].mounted THEN [fs[d] EXCEPT !.win = @ \cup ({disk} \cap Disks)]
                   ELSE fs[d]]

BugValid(f) == fs[f.desc].mounted
(* validate: the object's volume is mounted and is still the same mount. *)
Valid(f) == fs[f.desc].mounted /\ f.id = fs[f.desc].id

(***************************************************************************)
(* vfs_format                                                              *)
(***************************************************************************)
FormatCall(t) ==
  /\ pc[t] = "idle" /\ mountMutex = NoTask
  /\ \E d \in Descs \ listed :
       /\ DiskOf[d] = NoDisk => workMtx.depth < MaxNest
       /\ loc' = [loc EXCEPT ![t] = [d |-> d, opens |-> FALSE]]
  /\ Goto(t, "fmtLock")
  /\ UNCHANGED <<fatDisk, workMtx, mountMutex, listed, drive, fs, fsid, path,
                 formatted, file>>

BugFormatLock(t) ==
  /\ pc[t] = "fmtLock"
  /\ workMtx' = [workMtx EXCEPT !.owner = t, !.depth = @ + 1]
  /\ Goto(t, "fmtInit")
  /\ UNCHANGED <<fatDisk, mountMutex, listed, drive, fs, fsid, path, formatted,
                 file, loc>>

FormatLock(t) ==
  /\ pc[t] = "fmtLock"
  /\ workMtx.owner \in {NoTask, t}
  /\ workMtx' = [workMtx EXCEPT !.owner = t, !.depth = @ + 1]
  /\ Goto(t, "fmtInit")
  /\ UNCHANGED <<fatDisk, mountMutex, listed, drive, fs, fsid, path, formatted,
                 file, loc>>

(* A disk number that names no disk leaves by the return that does not
   release work_mtx. *)
FormatInit(t) ==
  /\ pc[t] = "fmtInit"
  /\ fatDisk' = DiskOf[loc[t].d]
  /\ IF fatDisk' = NoDisk
     THEN workMtx' = [workMtx EXCEPT !.leaks = @ + 1] /\ Finish(t)
     ELSE Goto(t, "mkfs") /\ UNCHANGED <<workMtx, loc>>
  /\ fs' = Sees(fatDisk')
  /\ UNCHANGED <<mountMutex, listed, drive, fsid, path, formatted, file>>

BugMkfsClear(t) ==
  /\ pc[t] = "mkfs"
  /\ Goto(t, "mkfsWrite")
  /\ UNCHANGED <<fatDisk, workMtx, mountMutex, listed, drive, fs, fsid, path,
                 formatted, file, loc>>

(* f_mkfs first takes drive 0 away from whichever volume holds it. *)
MkfsClear(t) ==
  /\ pc[t] = "mkfs"
  /\ fs' = ClearType(Registered)
  /\ Invalidate(Registered)
  /\ Goto(t, "mkfsWrite")
  /\ UNCHANGED <<fatDisk, workMtx, mountMutex, listed, drive, fsid, path, formatted, loc>>

BugUnlockWork == UNCHANGED workMtx

UnlockWork ==
  workMtx' = [workMtx EXCEPT !.owner = IF workMtx.depth = 1 THEN NoTask ELSE @,
                             !.depth = @ - 1]

BugMkfsWrite(t) ==
  /\ pc[t] = "mkfsWrite"
  /\ formatted' = formatted \cup ({fatDisk} \cap Disks)
  /\ Reformat(fatDisk)
  /\ Finish(t)
  /\ UNCHANGED <<fatDisk, workMtx, mountMutex, listed, drive, fs, fsid, path>>

(* The writes of f_mkfs go to the disk fat_disk names by then, under the files
   that another task may have opened there since MkfsClear. *)
MkfsWrite(t) ==
  /\ pc[t] = "mkfsWrite"
  /\ formatted' = formatted \cup ({fatDisk} \cap Disks)
  /\ Reformat(fatDisk)
  /\ UnlockWork
  /\ Finish(t)
  /\ UNCHANGED <<fatDisk, mountMutex, listed, drive, fs, fsid, path>>

(***************************************************************************)
(* vfs_mount and vfs_umount, under _mount_mutex from end to end            *)
(***************************************************************************)
MountCall(t) ==
  /\ pc[t] = "idle" /\ mountMutex = NoTask /\ Room
  /\ mountMutex' = t
  /\ \E d \in Descs \ listed :
       loc' = [loc EXCEPT ![t] = [d |-> d, opens |-> FALSE]]
  /\ Goto(t, "mntInit")
  /\ UNCHANGED <<fatDisk, workMtx, listed, drive, fs, fsid, path, formatted, file>>

(* _init, _build_abs_path and the memset of the FATFS object. *)
MountInit(t) ==
  LET d == loc[t].d IN
  /\ pc[t] = "mntInit"
  /\ fatDisk' = DiskOf[d]
  /\ IF fatDisk' = NoDisk
     THEN mountMutex' = NoTask /\ Finish(t) /\ UNCHANGED <<path, fs, file>>
     ELSE /\ path' = [path EXCEPT ![d] = RootPath]
          /\ fs' = [Sees(fatDisk') EXCEPT ![d] = Unmounted]
          /\ Invalidate({d})
          /\ Goto(t, "mntReg")
          /\ UNCHANGED <<mountMutex, loc>>
  /\ UNCHANGED <<workMtx, listed, drive, fsid, formatted>>

BugMountRegister(t) ==
  LET d == loc[t].d IN
  /\ pc[t] = "mntReg"
  /\ drive' = d
  /\ AfterMount(fs, d)
  /\ listed' = IF MountVolume(fs, d) = "OK" THEN listed \cup {d} ELSE listed
  /\ mountMutex' = NoTask
  /\ Finish(t)
  /\ UNCHANGED <<fatDisk, workMtx, path, formatted, file>>

(* f_mount: the volume that held drive 0 loses it, this one is registered
   and stays so even when no file system is found on the disk. *)
MountRegister(t) ==
  LET d == loc[t].d
      f == ClearType(Registered \cup {d})
  IN
  /\ pc[t] = "mntReg"
  /\ drive' = d
  /\ Invalidate(Registered \cup {d})
  /\ AfterMount(f, d)
  /\ listed' = IF MountVolume(f, d) = "OK" THEN listed \cup {d} ELSE listed
  /\ mountMutex' = NoTask
  /\ Finish(t)
  /\ UNCHANGED <<fatDisk, workMtx, path, formatted>>

Uses(t, d) == \/ file[t] # NoFile /\ file[t].mp = d
              \/ pc[t] = "lib" /\ loc[t].d = d

(* A volume in use is taken away only by force. *)
UmountCall(t) ==
  /\ pc[t] = "idle" /\ mountMutex = NoTask
  /\ \E d \in listed, force \in BOOLEAN :
       /\ force \/ \A u \in Tasks : ~Uses(u, d)
       /\ path' = [path EXCEPT ![d] = RootPath]
       /\ loc' = [loc EXCEPT ![t] = [d |-> d, opens |-> FALSE]]
  /\ mountMutex' = t
  /\ Goto(t, "umount")
  /\ UNCHANGED <<fatDisk, workMtx, listed, drive, fs, fsid, formatted, file>>

(* f_unmount drops whichever volume holds drive 0; the memset that follows
   clears this one. *)
Umount(t) ==
  LET d == loc[t].d IN
  /\ pc[t] = "umount"
  /\ drive' = NoDesc
  /\ fs' = [ClearType(Registered) EXCEPT ![d] = Unmounted]
  /\ Invalidate(Registered \cup {d})
  /\ listed' = listed \ {d}
  /\ mountMutex' = NoTask
  /\ Finish(t)
  /\ UNCHANGED <<fatDisk, workMtx, fsid, path, formatted>>

(***************************************************************************)
(* Calls that take a path: the buffer is filled, then the library reads it *)
(***************************************************************************)
PathCall(t) ==
  /\ pc[t] = "idle" /\ Room
  /\ \E d \in listed, n \in Names, opens \in BOOLEAN :
       /\ opens => file[t] = NoFile
       /\ path' = [path EXCEPT ![d] = n]
       /\ loc' = [loc EXCEPT ![t] = [d |-> d, opens |-> opens]]
  /\ Goto(t, "lib")
  /\ UNCHANGED <<fatDisk, workMtx, mountMutex, listed, drive, fs, fsid, formatted, file>>

(* The library call, on the path the buffer holds by then, on the volume
   registered as drive 0 by then, on the disk fat_disk names by then or on
   what the window still holds.  An open or opendir may find what it is asked
   for; no file has an empty path, which is what a umount leaves in the
   buffer. *)
LibraryCall(t) ==
  LET d == loc[t].d IN
  /\ pc[t] = "lib"
  /\ IF drive = NoDesc THEN UNCHANGED <<fs, fsid>> ELSE AfterMount(fs, drive)
  /\ \/ /\ loc[t].opens /\ path[d] # RootPath
        /\ drive # NoDesc /\ MountVolume(fs, drive) = "OK"
        /\ \E home \in fs'[drive].win :
             file' = [file EXCEPT ![t] = [mp |-> d, desc |-> drive, id |-> fs'[drive].id,
                                          home |-> home,
                                          fate |-> IF MkfsHalfway THEN "amid" ELSE "sound"]]
     \/ UNCHANGED file
  /\ Finish(t)
  /\ UNCHANGED <<fatDisk, workMtx, mountMutex, listed, drive, path, formatted>>

(* vfs_close gives the descriptor back whatever f_close answers. *)
Close(t) ==
  /\ pc[t] = "idle" /\ file[t] # NoFile
  /\ file' = [file EXCEPT ![t] = NoFile]
  /\ UNCHANGED <<fatDisk, workMtx, mountMutex, listed, drive, fs, fsid, path,
                 formatted, pc, loc>>

Step(t) ==
  \/ FormatCall(t) \/ FormatLock(t) \/ FormatInit(t) \/ MkfsClear(t) \/ MkfsWrite(t)
  \/ MountCall(t) \/ MountInit(t) \/ MountRegister(t) \/ UmountCall(t) \/ Umount(t)
  \/ PathCall(t) \/ LibraryCall(t) \/ Close(t)

(* Steps of a call already made: the kernel runs a ready task eventually. *)
Continue(t) ==
  \/ FormatLock(t) \/ FormatInit(t) \/ MkfsClear(t) \/ MkfsWrite(t)
  \/ MountInit(t) \/ MountRegister(t) \/ Umount(t) \/ LibraryCall(t)

Next == \E t \in Tasks : Step(t)

Spec == Init /\ [][Next]_vars /\ \A t \in Tasks : WF_vars(Continue(t)) /\ SF_vars(FormatLock(t))

(***************************************************************************)
(* Properties                                                              *)
(***************************************************************************)
Labels == {"idle", "fmtLock", "fmtInit", "mkfs", "mkfsWrite", "mntInit", "mntReg",
           "umount", "lib"}

Objects == [mp : Descs, desc : Descs, id : 0 .. MaxId, home : Disks, fate : Fates]

TypeOK ==
  /\ fatDisk \in Disks \cup {NoDisk}
  /\ workMtx \in [owner : Tasks \cup {NoTask}, depth : 0 .. MaxNest + 1,
                  leaks : 0 .. MaxNest]
  /\ mountMutex \in Tasks \cup {NoTask}
  /\ listed \subseteq Descs
  /\ drive \in Descs \cup {NoDesc}
  /\ fs \in [Descs -> [mounted : BOOLEAN, id : 0 .. MaxId, win : SUBSET Disks]]
  /\ fsid \in 0 .. MaxId
  /\ path \in [Descs -> Names \cup {RootPath}]
  /\ formatted \subseteq Disks
  /\ file \in [Tasks -> {NoFile} \cup Objects]
  /\ pc \in [Tasks -> Labels]
  /\ loc \in [Tasks -> [d : Descs \cup {NoDesc}, opens : BOOLEAN]]

(* A file or directory whose volume was unmounted, replaced on the drive or
   had its type cleared by f_mkfs is never accepted again, however the volume
   is mounted later: validate (ff.c:3628) and the id of each mount keep it
   out, also across a forced umount that leaves the file open.  Nor is one
   whose disk f_mkfs has written since, unless it was opened between the
   clearing of the type and the write of some f_mkfs: there f_mkfs does not
   look again whether the volume was mounted meanwhile (ff.c:6283-6395), and
   the file lives on ("overwritten"). *)
StaleFilesRejected ==
  \A t \in Opened : file[t].fate \in {"dropped", "formatted"} => ~Valid(file[t])

Between(u) == pc[u] \in {"mntReg", "mkfs"}

(* A file the library accepts is on the disk the library reads: fat_disk can
   differ from it only while some task is between the assignment of fat_disk
   and the library call that drops the mounted volume, or after a mount or
   format with a bad disk number has set fat_disk to NULL. *)
FileOnHome ==
  \A t \in Tasks : file[t] # NoFile /\ Valid(file[t]) =>
    fatDisk \in {file[t].home, NoDisk} \/ \E u \in Tasks : Between(u)

(* The static buffer of _format is used by one task at a time: work_mtx. *)
WorkExclusive ==
  \A t, u \in Tasks : pc[t] \in {"fmtInit", "mkfs", "mkfsWrite"}
                      /\ pc[u] \in {"fmtInit", "mkfs", "mkfsWrite"} => t = u

(* The volume the drive is registered for is mounted only if it is the one in
   FatFs[0]: two volumes are never mounted at once in the library, whatever
   the VFS lists, so no two FATFS objects cache the same disk. *)
OneVolume == \A d \in Descs : fs[d].mounted => d = drive

(* A task that waits for work_mtx formats and returns, unless an earlier
   format left with the mutex (fatfs_vfs.c:48). *)
FormatReturns == \A t \in Tasks : pc[t] = "fmtLock" ~> (pc[t] = "idle" \/ workMtx.leaks > 0)
=============================================================================
