--------------------------------- MODULE Vfs ---------------------------------
(***************************************************************************)
(* The VFS layer of src/src/vfs/vfs.c: the mount list, the table of open   *)
(* files, the caller-owned directory streams, the two mutexes and the      *)
(* per-mount reference counter open_files, as several uC/OS-III tasks see   *)
(* them when the kernel may preempt a task between any two accesses to     *)
(* shared memory.                                                          *)
(*                                                                         *)
(* A task is a program counter and a record of locals.  One action is one  *)
(* access to shared state that another task can observe: the test of a     *)
(* table slot, the load or the store of a counter, a driver call.  Code    *)
(* that runs under a mutex and touches only what that mutex guards is one  *)
(* step with the acquisition or the release next to it.                    *)
(*                                                                         *)
(* File system drivers appear as the outcomes of their calls ("ok" or      *)
(* "EIO") and as two facts the VFS must respect: which volumes a driver    *)
(* holds mounted (live) and which files it holds open (the field drv).     *)
(*                                                                         *)
(* An operator named Bug... is its namesake with a seeded fault.  No action *)
(* uses it; it stands in for the operator it precedes to show that a       *)
(* property notices the fault.                                             *)
(***************************************************************************)
EXTENDS Integers, Sequences, FiniteSets

CONSTANTS
  Tasks,        \* the tasks that call the VFS
  NoTask,       \* p_tcb == NULL, a mutex without owner
  Mounts,       \* the vfs_mount_t objects of the application
  NoMount,      \* the NULL mount pointer
  NFd,          \* VFS_MAX_OPEN_FILES
  CountMod,     \* 2^16: open_files is a uint16_t
  Dirs,         \* the vfs_DIR objects of the application
  DirOwner,     \* the task whose stack a vfs_DIR lives on
  Names,        \* the path names in use
  Covers,       \* the names a mount's mount_point is a directory prefix of
  PointMax,     \* the largest mount_point_len, a size_t
  PointLen,     \* mount_point_len
  Implements,   \* the driver entry points of a mount that are not NULL
  HasDirOps,    \* the mounts whose driver has a d_op table
  Calls,        \* the API functions the tasks call
  StaleFds,     \* whether tasks also pass descriptors they do not hold
  CanForce,     \* whether tasks pass force = true to vfs_umount
  OpenModes,    \* the access modes passed to vfs_open
  Offsets,      \* the offsets passed to vfs_lseek
  MaxPos        \* bound on filp->pos

Fds == 0 .. NFd - 1
Modes == {"r", "w", "rw"}
FileCalls == {"fstat", "lseek", "read", "write", "fsync"}
PathCalls == {"unlink", "mkdir", "rmdir", "stat", "rename"}
MountCalls == {"mount", "umount", "format"}
ApiCalls == {"open", "close", "opendir", "readdir", "closedir"}
              \cup FileCalls \cup PathCalls \cup MountCalls

ASSUME VfsConstants ==
  /\ NoTask \notin Tasks
  /\ NoMount \notin Mounts
  /\ NFd \in Nat
  /\ CountMod \in Nat \ {0}
  /\ DirOwner \in [Dirs -> Tasks]
  /\ Covers \in [Mounts -> SUBSET Names]
  /\ PointMax \in Nat
  /\ PointLen \in [Mounts -> 1 .. PointMax]
  /\ Implements \in [Mounts -> SUBSET ApiCalls]
  /\ HasDirOps \subseteq Mounts
  /\ Calls \subseteq ApiCalls
  /\ StaleFds \in BOOLEAN
  /\ CanForce \in BOOLEAN
  /\ OpenModes \subseteq Modes
  /\ Offsets \subseteq Int
  /\ MaxPos \in Nat

VARIABLES
  mounts,       \* _vfs_mounts_list, oldest first
  openFiles,    \* mount -> its open_files counter
  live,         \* mounts the driver holds mounted
  mountMutex,   \* owner of _mount_mutex
  openMutex,    \* owner of _open_mutex
  fds,          \* _vfs_open_files
  dirs,         \* contents of the vfs_DIR objects
  pc, loc,      \* control point and locals of each task
  ret,          \* what the last call of a task returned, "none" inside a call
  held,         \* task -> the descriptors vfs_open gave it, not yet closed
  openDirs      \* the vfs_DIR objects successfully opened, not yet closed

vars == <<mounts, openFiles, live, mountMutex, openMutex, fds, dirs, pc, loc,
          ret, held, openDirs>>

tableVars == <<fds, openMutex, held>>
mountVars == <<mounts, live>>
dirVars == <<dirs, openDirs>>

Codes == {"ok", "none", "EBADF", "EBUSY", "EINVAL", "EIO", "ENFILE", "ENOENT",
          "ENOTSUP", "EPERM", "EROFS", "EXDEV"}

Outcomes == {"ok", "EIO"}       \* of a driver call: a result >= 0, or < 0

FreeSlot == [tcb |-> NoTask, mp |-> NoMount, mode |-> "r", pos |-> 0,
             drv |-> FALSE]

NullDir == [mp |-> NoMount, drv |-> FALSE]

\* Locals: op the function called, name/to its path arguments, m a mount
\* argument or the mount found, refs the mounts whose open_files this call
\* has incremented and not yet decremented, tmp a counter value in a
\* register, res the pending result.
Blank == [op |-> "none", names |-> <<>>, m |-> NoMount, fd |-> NFd,
          dir |-> "none", mode |-> "r", force |-> FALSE, tmp |-> 0,
          refs |-> <<>>, res |-> "none"]

Init ==
  /\ mounts = <<>>
  /\ openFiles = [m \in Mounts |-> 0]
  /\ live = {}
  /\ mountMutex = NoTask
  /\ openMutex = NoTask
  /\ fds = [f \in Fds |-> FreeSlot]
  /\ dirs = [d \in Dirs |-> NullDir]
  /\ pc = [t \in Tasks |-> "idle"]
  /\ loc = [t \in Tasks |-> Blank]
  /\ ret = [t \in Tasks |-> "ok"]
  /\ held = [t \in Tasks |-> {}]
  /\ openDirs = {}

Listed == {mounts[i] : i \in DOMAIN mounts}

-----------------------------------------------------------------------------
\* How a call moves on, ends, and gives its references back.

Goto(t, label) == pc' = [pc EXCEPT ![t] = label]

Finish(t, code) ==
  /\ Goto(t, "idle")
  /\ loc' = [loc EXCEPT ![t] = Blank]
  /\ ret' = [ret EXCEPT ![t] = code]

\* BugRelease: the early return forgets the references it holds.
BugRelease(t, code) ==
  /\ Goto(t, "dec")
  /\ loc' = [loc EXCEPT ![t].res = code, ![t].refs = <<>>]
  /\ UNCHANGED ret

\* The early returns that still hold references: "remember to decrement the
\* open_files count".
Release(t, code) ==
  /\ Goto(t, "dec")
  /\ loc' = [loc EXCEPT ![t].res = code]
  /\ UNCHANGED ret

\* The client calls function op with the arguments args.
Begin(t, op, label, args) ==
  /\ pc[t] = "idle"
  /\ op \in Calls
  /\ Goto(t, label)
  /\ loc' = [loc EXCEPT ![t] = [args EXCEPT !.op = op]]
  /\ ret' = [ret EXCEPT ![t] = "none"]

\* The function rejects its arguments before it touches shared state.
Reject(t, op, code) ==
  /\ pc[t] = "idle"
  /\ op \in Calls
  /\ Finish(t, code)

CallPath(t) ==
  /\ \E op \in {"open"} \cup (PathCalls \ {"rename"}), nm \in Names, md \in OpenModes \cup {"r"} :
       /\ IF op = "open" THEN md \in OpenModes ELSE md = "r"
       /\ Begin(t, op, "find", [Blank EXCEPT !.names = <<nm>>, !.mode = md])
  /\ UNCHANGED <<openFiles, tableVars, mountVars, dirVars, mountMutex>>

CallRename(t) ==
  /\ \E from, to \in Names :
       Begin(t, "rename", "find", [Blank EXCEPT !.names = <<from, to>>])
  /\ UNCHANGED <<openFiles, tableVars, mountVars, dirVars, mountMutex>>

CallOpendir(t) ==
  /\ \E nm \in Names, d \in Dirs \ openDirs :
       /\ DirOwner[d] = t
       /\ Begin(t, "opendir", "find",
                [Blank EXCEPT !.names = <<nm>>, !.dir = d])
  /\ UNCHANGED <<openFiles, tableVars, mountVars, dirVars, mountMutex>>

CallMount(t) ==
  /\ \E op \in MountCalls, m \in Mounts, force \in BOOLEAN :
       /\ force => op = "umount" /\ CanForce
       /\ Begin(t, op, "check", [Blank EXCEPT !.m = m, !.force = force])
  /\ UNCHANGED <<openFiles, tableVars, mountVars, dirVars, mountMutex>>

-----------------------------------------------------------------------------
\* _find_mount: the longest mount point wins, the newest among equals; the
\* length of "/" does not count, so that every other mount point beats it.

Weight(m) == IF PointLen[m] > 1 THEN PointLen[m] ELSE 0

Beats(i, j) ==
  \/ Weight(mounts[i]) > Weight(mounts[j])
  \/ Weight(mounts[i]) = Weight(mounts[j]) /\ i >= j

Resolve(nm) ==
  LET found == {i \in DOMAIN mounts : nm \in Covers[mounts[i]]}
  IN  IF found = {} THEN NoMount
      ELSE mounts[CHOOSE i \in found : \A j \in found : Beats(i, j)]

FindMount(t) ==
  /\ pc[t] = "find"
  /\ mountMutex = NoTask
  /\ LET m == Resolve(Head(loc[t].names)) IN
       \/ /\ m = NoMount
          /\ loc[t].refs = <<>>
          /\ Finish(t, "ENOENT")
          /\ UNCHANGED mountMutex
       \/ /\ m = NoMount
          /\ loc[t].refs # <<>>          \* the second lookup of vfs_rename
          /\ Release(t, "ENOENT")
          /\ UNCHANGED mountMutex
       \/ /\ m # NoMount
          /\ mountMutex' = t
          /\ Goto(t, "inc")
          /\ loc' = [loc EXCEPT ![t].m = m, ![t].tmp = openFiles[m],
                                ![t].names = Tail(@)]
          /\ UNCHANGED ret
  /\ UNCHANGED <<openFiles, tableVars, mountVars, dirVars>>

FoundMount(t) ==
  /\ pc[t] = "inc"
  /\ openFiles' = [openFiles EXCEPT ![loc[t].m] = (loc[t].tmp + 1) % CountMod]
  /\ mountMutex' = NoTask
  /\ Goto(t, "found")
  /\ loc' = [loc EXCEPT ![t].refs = Append(@, loc[t].m), ![t].tmp = 0]
  /\ UNCHANGED <<tableVars, mountVars, dirVars, ret>>

\* open_files-- is a load and a store, with no mutex held.
DecLoad(t) ==
  /\ pc[t] = "dec"
  /\ loc[t].refs # <<>>
  /\ Goto(t, "dec_store")
  /\ loc' = [loc EXCEPT ![t].tmp = openFiles[Head(loc[t].refs)]]
  /\ UNCHANGED <<openFiles, tableVars, mountVars, dirVars, mountMutex, ret>>

DecStore(t) ==
  /\ pc[t] = "dec_store"
  /\ openFiles' = [openFiles EXCEPT ![Head(loc[t].refs)] =
                     (loc[t].tmp - 1) % CountMod]
  /\ Goto(t, "dec")
  /\ loc' = [loc EXCEPT ![t].refs = Tail(@), ![t].tmp = 0]
  /\ UNCHANGED <<tableVars, mountVars, dirVars, mountMutex, ret>>

\* BugClearSlot: the slot of a failed vfs_open or of a vfs_close stays taken.
BugClearSlot(fd) == UNCHANGED fds

ClearSlot(fd) ==
  IF fd \in Fds THEN fds' = [fds EXCEPT ![fd].tcb = NoTask] ELSE UNCHANGED fds

\* The end of the calls that gave their references back; _free_fd clears
\* p_tcb last.
Return(t) ==
  /\ pc[t] = "dec"
  /\ loc[t].refs = <<>>
  /\ ClearSlot(loc[t].fd)
  /\ Finish(t, loc[t].res)
  /\ UNCHANGED <<openFiles, openMutex, held, mountVars, dirVars, mountMutex>>

-----------------------------------------------------------------------------
\* vfs_open after _find_mount.

\* BugOpenLock: _open_mutex is not taken.
BugOpenLock(t) ==
  /\ pc[t] = "found"
  /\ loc[t].op = "open"
  /\ Goto(t, "alloc")
  /\ loc' = [loc EXCEPT ![t].fd = 0]
  /\ UNCHANGED <<openFiles, tableVars, mountVars, dirVars, mountMutex, ret>>

OpenLock(t) ==
  /\ pc[t] = "found"
  /\ loc[t].op = "open"
  /\ openMutex = NoTask
  /\ openMutex' = t
  /\ Goto(t, "alloc")
  /\ loc' = [loc EXCEPT ![t].fd = 0]
  /\ UNCHANGED <<openFiles, fds, held, mountVars, dirVars, mountMutex, ret>>

\* BugSlotFree: the scan ignores p_tcb.
BugSlotFree(fd) == TRUE

SlotFree(fd) == fds[fd].tcb = NoTask

\* The scan of _allocate_fd(VFS_ANY_FD), one slot of the table at a time.  The
\* slot it stops at is only taken in InitFd: _open_mutex must keep other tasks
\* from taking it in between.
AllocateFd(t) ==
  /\ pc[t] = "alloc"
  /\ LET fd == loc[t].fd IN
       \/ /\ fd = NFd
          /\ openMutex' = NoTask
          /\ Release(t, "ENFILE")
       \/ /\ fd < NFd
          /\ ~SlotFree(fd)
          /\ loc' = [loc EXCEPT ![t].fd = fd + 1]
          /\ UNCHANGED <<openMutex, pc, ret>>
       \/ /\ fd < NFd
          /\ SlotFree(fd)
          /\ Goto(t, "init")
          /\ UNCHANGED <<loc, openMutex, ret>>
  /\ UNCHANGED <<openFiles, fds, held, mountVars, dirVars, mountMutex>>

\* The client receives descriptor fd; its reference now belongs to the file.
GrantFd(t, fd) ==
  /\ held' = [held EXCEPT ![t] = @ \cup {fd}]
  /\ Finish(t, "ok")

InitFd(t) ==
  /\ pc[t] = "init"
  /\ openMutex' = NoTask
  /\ LET fd == loc[t].fd
         m  == Head(loc[t].refs)
     IN  /\ fds' = [fds EXCEPT ![fd] =
                      [@ EXCEPT !.tcb = t, !.mp = m, !.mode = loc[t].mode, !.pos = 0,
                                !.drv = "open" \notin Implements[m]]]
         /\ \/ /\ "open" \in Implements[m]
               /\ Goto(t, "open_drv")
               /\ UNCHANGED <<loc, ret, held>>
            \/ /\ "open" \notin Implements[m]
               /\ GrantFd(t, fd)
  /\ UNCHANGED <<openFiles, mountVars, dirVars, mountMutex>>

\* BugOpenDriver: the driver's error is not looked at.
BugOpenDriver(t) ==
  /\ pc[t] = "open_drv"
  /\ \E opened \in BOOLEAN : fds' = [fds EXCEPT ![loc[t].fd].drv = opened]
  /\ GrantFd(t, loc[t].fd)
  /\ UNCHANGED <<openFiles, openMutex, mountVars, dirVars, mountMutex>>

OpenDriver(t) ==
  /\ pc[t] = "open_drv"
  /\ \/ /\ fds' = [fds EXCEPT ![loc[t].fd].drv = TRUE]
        /\ GrantFd(t, loc[t].fd)
     \/ /\ Release(t, "EIO")             \* clean up with _free_fd
        /\ UNCHANGED <<fds, held>>
  /\ UNCHANGED <<openFiles, openMutex, mountVars, dirVars, mountMutex>>

-----------------------------------------------------------------------------
\* Calls on a descriptor.  A client that holds fd may use it; with StaleFds it
\* may also pass one it has closed, never received, or that is out of range.

Usable(t, fd) == fd \in held[t] \/ StaleFds

FdIsValid(fd) ==
  /\ fd \in Fds
  /\ fds[fd].tcb # NoTask
  /\ fds[fd].mp # NoMount                \* f_op is set together with mp

CallClose(t) ==
  /\ \E fd \in 0 .. NFd :
       /\ Usable(t, fd)
       /\ \/ /\ ~FdIsValid(fd)
             /\ Reject(t, "close", "EBADF")
             /\ UNCHANGED held
          \/ /\ FdIsValid(fd)
             /\ LET m == fds[fd].mp IN
                  Begin(t, "close",
                        IF "close" \in Implements[m] THEN "close_drv" ELSE "dec",
                        [Blank EXCEPT !.fd = fd, !.refs = <<m>>, !.res = "ok"])
             /\ held' = [held EXCEPT ![t] = @ \ {fd}]
  /\ UNCHANGED <<openFiles, fds, openMutex, mountVars, dirVars, mountMutex>>

\* "We will invalidate the fd regardless of the outcome" of the driver.
CloseDriver(t) ==
  /\ pc[t] = "close_drv"
  /\ fds' = [fds EXCEPT ![loc[t].fd].drv = FALSE]
  /\ \E code \in Outcomes : Release(t, code)
  /\ UNCHANGED <<openFiles, openMutex, held, mountVars, dirVars, mountMutex>>

NeedsMode(op) == CASE op = "read" -> {"r", "rw"}
                   [] op \in {"write", "fsync"} -> {"w", "rw"}
                   [] OTHER -> Modes

Permits(fd, op) == FdIsValid(fd) /\ fds[fd].mode \in NeedsMode(op)

CallFile(t) ==
  /\ \E op \in FileCalls, fd \in 0 .. NFd :
       /\ Usable(t, fd)
       /\ \/ /\ ~Permits(fd, op)
             /\ Reject(t, op, "EBADF")
          \/ /\ Permits(fd, op)
             /\ op \notin Implements[fds[fd].mp] \cup {"lseek"}
             /\ Reject(t, op, "EINVAL")
          \/ /\ Permits(fd, op)
             /\ op \in Implements[fds[fd].mp]
             /\ Begin(t, op, "file_drv", [Blank EXCEPT !.fd = fd])
  /\ UNCHANGED <<openFiles, tableVars, mountVars, dirVars, mountMutex>>

\* BugBadSeek: a negative offset is let through.
BugBadSeek(whence, pos) == whence = "END"

BadSeek(whence, pos) == whence = "END" \/ pos < 0

\* vfs_lseek when the driver has none: SEEK_SET and SEEK_CUR on filp->pos.
SeekPos(t) ==
  /\ \E fd \in Fds, off \in Offsets, whence \in {"SET", "CUR", "END"} :
       /\ Usable(t, fd)
       /\ FdIsValid(fd)
       /\ "lseek" \notin Implements[fds[fd].mp]
       /\ LET pos == IF whence = "CUR" THEN fds[fd].pos + off ELSE off IN
            \/ /\ BadSeek(whence, pos)
               /\ Reject(t, "lseek", "EINVAL")
               /\ UNCHANGED fds
            \/ /\ ~BadSeek(whence, pos)
               /\ pos <= MaxPos
               /\ Reject(t, "lseek", "ok")
               /\ fds' = [fds EXCEPT ![fd].pos = pos]
  /\ UNCHANGED <<openFiles, openMutex, held, mountVars, dirVars, mountMutex>>

FileDriver(t) ==
  /\ pc[t] = "file_drv"
  /\ \E code \in Outcomes : Finish(t, code)
  /\ UNCHANGED <<openFiles, tableVars, mountVars, dirVars, mountMutex>>


-----------------------------------------------------------------------------
\* Calls on paths: the driver call or its absence, then the reference back.

Unsupported(op) == CASE op \in {"rename", "unlink"} -> "EROFS"
                     [] op \in {"mkdir", "rmdir"} -> "ENOTSUP"
                     [] OTHER -> "EPERM"

PathCall(t) ==
  /\ pc[t] = "found"
  /\ loc[t].op \in PathCalls
  /\ LET op == loc[t].op
         refs == loc[t].refs
     IN  \/ /\ op \notin Implements[Head(refs)]
            /\ Release(t, Unsupported(op))
         \/ /\ op \in Implements[Head(refs)]
            /\ loc[t].names # <<>>       \* vfs_rename looks up to_path
            /\ Goto(t, "find")
            /\ UNCHANGED <<loc, ret>>
         \/ /\ op \in Implements[Head(refs)]
            /\ loc[t].names = <<>>
            /\ refs[Len(refs)] # Head(refs)
            /\ Release(t, "EXDEV")
         \/ /\ op \in Implements[Head(refs)]
            /\ loc[t].names = <<>>
            /\ refs[Len(refs)] = Head(refs)
            /\ Goto(t, "path_drv")
            /\ UNCHANGED <<loc, ret>>
  /\ UNCHANGED <<openFiles, tableVars, mountVars, dirVars, mountMutex>>

PathDriver(t) ==
  /\ pc[t] = "path_drv"
  /\ \E code \in Outcomes : Release(t, code)
  /\ UNCHANGED <<openFiles, tableVars, mountVars, dirVars, mountMutex>>

-----------------------------------------------------------------------------
\* Directory streams.

OpendirInit(t) ==
  /\ pc[t] = "found"
  /\ loc[t].op = "opendir"
  /\ LET m == Head(loc[t].refs)
         d == loc[t].dir
     IN  \/ /\ m \notin HasDirOps        \* returns without the decrement
            /\ Finish(t, "EINVAL")
            /\ UNCHANGED dirVars
         \/ /\ m \in HasDirOps
            /\ "opendir" \in Implements[m]
            /\ dirs' = [dirs EXCEPT ![d] = [mp |-> m, drv |-> FALSE]]
            /\ Goto(t, "opendir_drv")
            /\ UNCHANGED <<loc, ret, openDirs>>
         \/ /\ m \in HasDirOps
            /\ "opendir" \notin Implements[m]
            /\ dirs' = [dirs EXCEPT ![d] = [mp |-> m, drv |-> TRUE]]
            /\ openDirs' = openDirs \cup {d}
            /\ Finish(t, "ok")
  /\ UNCHANGED <<openFiles, tableVars, mountVars, mountMutex>>

OpendirDriver(t) ==
  /\ pc[t] = "opendir_drv"
  /\ \/ /\ dirs' = [dirs EXCEPT ![loc[t].dir].drv = TRUE]
        /\ openDirs' = openDirs \cup {loc[t].dir}
        /\ Finish(t, "ok")
     \/ /\ Release(t, "EIO")
        /\ UNCHANGED dirVars
  /\ UNCHANGED <<openFiles, tableVars, mountVars, mountMutex>>

\* A client reads and closes the streams it holds; a cleared vfs_DIR is
\* recognised and refused.
CallReaddir(t) ==
  /\ \E d \in Dirs :
       /\ DirOwner[d] = t
       /\ \/ /\ \/ dirs[d].mp = NoMount
                \/ d \in openDirs /\ "readdir" \notin Implements[dirs[d].mp]
             /\ Reject(t, "readdir", "EINVAL")
          \/ /\ d \in openDirs
             /\ "readdir" \in Implements[dirs[d].mp]
             /\ Begin(t, "readdir", "dir_drv", [Blank EXCEPT !.dir = d])
  /\ UNCHANGED <<openFiles, tableVars, mountVars, dirVars, mountMutex>>

ReaddirDriver(t) ==
  /\ pc[t] = "dir_drv"
  /\ \E code \in Outcomes : Finish(t, code)
  /\ UNCHANGED <<openFiles, tableVars, mountVars, dirVars, mountMutex>>

CallClosedir(t) ==
  /\ \E d \in Dirs :
       /\ DirOwner[d] = t
       /\ \/ /\ dirs[d].mp = NoMount
             /\ Reject(t, "closedir", "EBADF")
             /\ UNCHANGED dirVars
          \/ /\ d \in openDirs
             /\ "closedir" \in Implements[dirs[d].mp]
             /\ Begin(t, "closedir", "closedir_drv",
                      [Blank EXCEPT !.dir = d, !.refs = <<dirs[d].mp>>])
             /\ openDirs' = openDirs \ {d}
             /\ UNCHANGED dirs
          \/ /\ d \in openDirs
             /\ "closedir" \notin Implements[dirs[d].mp]
             /\ Begin(t, "closedir", "dec",
                      [Blank EXCEPT !.refs = <<dirs[d].mp>>, !.res = "ok"])
             /\ openDirs' = openDirs \ {d}
             /\ dirs' = [dirs EXCEPT ![d] = NullDir]
  /\ UNCHANGED <<openFiles, tableVars, mountVars, mountMutex>>

ClosedirDriver(t) ==
  /\ pc[t] = "closedir_drv"
  /\ dirs' = [dirs EXCEPT ![loc[t].dir] = NullDir]
  /\ \E code \in Outcomes : Release(t, code)
  /\ UNCHANGED <<openFiles, tableVars, mountVars, openDirs, mountMutex>>

-----------------------------------------------------------------------------
\* vfs_mount, vfs_umount and vfs_format.

\* check_mount, with what its caller does with the answer before the mutex is
\* next needed: vfs_mount keeps the mutex, vfs_format and vfs_umount do not.
CheckMount(t) ==
  /\ pc[t] = "check"
  /\ mountMutex = NoTask
  /\ LET op == loc[t].op
         listed == loc[t].m \in Listed
     IN  \/ /\ listed /\ op # "umount"
            /\ Finish(t, "EBUSY")
            /\ UNCHANGED mountMutex
         \/ /\ listed /\ op = "umount"
            /\ Goto(t, "umount_lock")
            /\ UNCHANGED <<loc, ret, mountMutex>>
         \/ /\ ~listed /\ op = "umount"
            /\ Finish(t, "EINVAL")
            /\ UNCHANGED mountMutex
         \/ /\ ~listed /\ op = "mount"
            /\ mountMutex' = t
            /\ Goto(t, "mount_drv")
            /\ UNCHANGED <<loc, ret>>
         \/ /\ ~listed /\ op = "format"
            /\ Goto(t, "format_drv")
            /\ UNCHANGED <<loc, ret, mountMutex>>
  /\ UNCHANGED <<openFiles, tableVars, mountVars, dirVars>>

\* BugMountDriver: the driver's error is returned with the mutex held.
BugMountDriver(t) ==
  /\ pc[t] = "mount_drv"
  /\ LET m == loc[t].m IN
       \/ /\ mounts' = Append(mounts, m)
          /\ live' = live \cup {m}
          /\ mountMutex' = NoTask
          /\ Finish(t, "ok")
       \/ /\ Finish(t, "EIO")
          /\ UNCHANGED <<mountVars, mountMutex>>
  /\ UNCHANGED <<openFiles, tableVars, dirVars>>

MountDriver(t) ==
  /\ pc[t] = "mount_drv"
  /\ mountMutex' = NoTask
  /\ LET m == loc[t].m IN
       \/ /\ mounts' = Append(mounts, m)
          /\ live' = live \cup {m}
          /\ Finish(t, "ok")
       \/ /\ "mount" \in Implements[m]
          /\ Finish(t, "EIO")
          /\ UNCHANGED mountVars
  /\ UNCHANGED <<openFiles, tableVars, dirVars>>

\* BugMayUmount: open_files is not looked at.
BugMayUmount(m, force) == TRUE

MayUmount(m, force) == openFiles[m] = 0 \/ force

UmountLock(t) ==
  /\ pc[t] = "umount_lock"
  /\ mountMutex = NoTask
  /\ \/ /\ ~MayUmount(loc[t].m, loc[t].force)
        /\ Finish(t, "EBUSY")
        /\ UNCHANGED mountMutex
     \/ /\ MayUmount(loc[t].m, loc[t].force)
        /\ mountMutex' = t
        /\ Goto(t, "umount_drv")
        /\ UNCHANGED <<loc, ret>>
  /\ UNCHANGED <<openFiles, tableVars, mountVars, dirVars>>

\* clist_remove: the other mounts keep their order.
WithoutMount(m) ==
  IF m \notin Listed THEN mounts
  ELSE LET at == CHOOSE i \in DOMAIN mounts : mounts[i] = m
       IN  SubSeq(mounts, 1, at - 1) \o SubSeq(mounts, at + 1, Len(mounts))

\* BugUmountDriver: the mount leaves the list although the driver refused.
BugUmountDriver(t) ==
  /\ pc[t] = "umount_drv"
  /\ mountMutex' = NoTask
  /\ mounts' = WithoutMount(loc[t].m)
  /\ live' \in {live, live \ {loc[t].m}}
  /\ Finish(t, "ok")
  /\ UNCHANGED <<openFiles, tableVars, dirVars>>

UmountDriver(t) ==
  /\ pc[t] = "umount_drv"
  /\ mountMutex' = NoTask
  /\ LET m == loc[t].m IN
       \/ /\ mounts' = WithoutMount(m)
          /\ live' = live \ {m}
          /\ Finish(t, IF m \in Listed THEN "ok" ELSE "EINVAL")
       \/ /\ "umount" \in Implements[m]
          /\ Finish(t, "EIO")
          /\ UNCHANGED mountVars
  /\ UNCHANGED <<openFiles, tableVars, dirVars>>

\* The driver's format leaves the volume unmounted, whether it succeeds or not.
FormatDriver(t) ==
  /\ pc[t] = "format_drv"
  /\ LET m == loc[t].m IN
       \/ /\ "format" \in Implements[m]
          /\ live' = live \ {m}
          /\ \E code \in Outcomes : Finish(t, code)
       \/ /\ "format" \notin Implements[m]
          /\ Finish(t, "ENOTSUP")
          /\ UNCHANGED live
  /\ UNCHANGED <<mounts, openFiles, tableVars, dirVars, mountMutex>>

-----------------------------------------------------------------------------
Call(t) ==
  \/ CallPath(t) \/ CallRename(t) \/ CallOpendir(t) \/ CallMount(t)
  \/ CallClose(t) \/ CallFile(t) \/ SeekPos(t)
  \/ CallReaddir(t) \/ CallClosedir(t)

\* The steps that acquire a mutex, and the other steps inside a call.
Acquire(t) == FindMount(t) \/ OpenLock(t) \/ CheckMount(t) \/ UmountLock(t)

Run(t) ==
  \/ FoundMount(t) \/ DecLoad(t) \/ DecStore(t) \/ Return(t)
  \/ AllocateFd(t) \/ InitFd(t) \/ OpenDriver(t)
  \/ CloseDriver(t) \/ FileDriver(t) \/ PathCall(t) \/ PathDriver(t)
  \/ OpendirInit(t) \/ OpendirDriver(t) \/ ReaddirDriver(t) \/ ClosedirDriver(t)
  \/ MountDriver(t) \/ UmountDriver(t) \/ FormatDriver(t)

Next == \E t \in Tasks : Call(t) \/ Acquire(t) \/ Run(t)

Spec == Init /\ [][Next]_vars

\* A task inside a call keeps running, and OSMutexPost hands the mutex to a
\* waiting task, so that a task that waits for a mutex again and again free
\* gets it.
Fairness == \A t \in Tasks : WF_vars(Run(t)) /\ SF_vars(Acquire(t))

FairSpec == Spec /\ Fairness
=============================================================================
