---------------------------- MODULE VfsProperties ----------------------------
(***************************************************************************)
(* What the VFS layer promises its callers and its drivers, over the states *)
(* and steps of module Vfs.                                                *)
(***************************************************************************)
EXTENDS Vfs

Labels == {"idle", "find", "inc", "found", "dec", "dec_store", "alloc", "init",
           "open_drv", "close_drv", "file_drv", "path_drv", "opendir_drv",
           "dir_drv", "closedir_drv", "check", "mount_drv", "umount_lock",
           "umount_drv", "format_drv"}

Locals == [op : ApiCalls \cup {"none"}, names : Seq(Names),
           m : Mounts \cup {NoMount}, fd : 0 .. NFd, dir : Dirs \cup {"none"},
           mode : Modes, force : BOOLEAN, tmp : 0 .. CountMod - 1,
           refs : Seq(Mounts), res : Codes]

\* Every variable keeps the type its C declaration gives it: open_files stays
\* in the range of a uint16_t, a reference is always to a mount object, and a
\* slot of _vfs_open_files names a mount as soon as a client holds it.
TypeOK ==
  /\ mounts \in Seq(Mounts)
  /\ openFiles \in [Mounts -> 0 .. CountMod - 1]
  /\ live \subseteq Mounts
  /\ mountMutex \in Tasks \cup {NoTask}
  /\ openMutex \in Tasks \cup {NoTask}
  /\ fds \in [Fds -> [tcb : Tasks \cup {NoTask}, mp : Mounts \cup {NoMount},
                      mode : Modes, pos : Nat, drv : BOOLEAN]]
  /\ dirs \in [Dirs -> [mp : Mounts \cup {NoMount}, drv : BOOLEAN]]
  /\ pc \in [Tasks -> Labels]
  /\ loc \in [Tasks -> Locals]
  /\ ret \in [Tasks -> Codes]
  /\ held \in [Tasks -> SUBSET Fds]
  /\ openDirs \subseteq Dirs

-----------------------------------------------------------------------------
\* The mutexes.

InMountSection(t) == pc[t] \in {"inc", "mount_drv", "umount_drv"}
InOpenSection(t) == pc[t] \in {"alloc", "init"}

\* A task owns _mount_mutex or _open_mutex exactly while it is in a section the
\* code brackets with that mutex: no two tasks are in one section, and no exit
\* path of vfs_mount, vfs_umount, vfs_format, vfs_open or _find_mount returns
\* to the client with a mutex still held.
MutexOwned ==
  \A t \in Tasks : /\ mountMutex = t <=> InMountSection(t)
                   /\ openMutex = t <=> InOpenSection(t)

-----------------------------------------------------------------------------
\* Descriptors.

\* The slots task t is opening or closing right now.
Working(t) == IF pc[t] \in {"open_drv", "close_drv", "dec", "dec_store"}
              THEN {loc[t].fd} \cap Fds ELSE {}

Claimed(t) == held[t] \cup Working(t)

\* A slot of _vfs_open_files belongs to at most one client at a time: what
\* vfs_open hands out, or vfs_open and vfs_close still work on, is marked with
\* its task's p_tcb and is nobody else's, whatever the order in which tasks
\* scan, fill and free the table.
FdExclusive ==
  /\ \A t \in Tasks, f \in Fds : f \in Claimed(t) => fds[f].tcb = t
  /\ \A t \in Tasks : held[t] \cap Working(t) = {}

\* A descriptor a client holds is open in the driver it was opened with.
HeldIsOpen ==
  \A t \in Tasks : \A f \in held[t] : fds[f].drv /\ fds[f].mp # NoMount

\* While a client holds a descriptor nobody redirects it: no call of another
\* task changes its mount or its access mode, or closes it in the driver.
HeldIsStable ==
  [][\A t \in Tasks : \A f \in held[t] \cap held'[t] :
       /\ fds'[f].mp = fds[f].mp
       /\ fds'[f].mode = fds[f].mode
       /\ fds'[f].drv]_vars

\* No slot is lost: a slot marked used is claimed by some task, so that a
\* vfs_open that fails, and vfs_close, always give the slot back.
NoFdLeak == \A f \in Fds : fds[f].tcb # NoTask => f \in Claimed(fds[f].tcb)

-----------------------------------------------------------------------------
\* References to mounts.

\* Everything that keeps mount m busy: open files, open directory streams, and
\* the references of calls between _find_mount and their decrement.
FileUsers(m) == {u \in {"file"} \X Tasks \X Fds :
                   u[3] \in held[u[2]] /\ fds[u[3]].mp = m}

DirUsers(m) == {u \in {"dir"} \X Tasks \X Dirs :
                  u[3] \in openDirs /\ DirOwner[u[3]] = u[2] /\ dirs[u[3]].mp = m}

CallUsers(m) == {u \in {"call"} \X Tasks \X {1, 2} :
                   u[3] \in DOMAIN loc[u[2]].refs /\ loc[u[2]].refs[u[3]] = m}

Users(m) == FileUsers(m) \cup DirUsers(m) \cup CallUsers(m)

\* open_files counts exactly the users of its mount: every path through the API
\* that took a reference in _find_mount gives back exactly that one.
RefsCounted == \A m \in Mounts : openFiles[m] = Cardinality(Users(m))

\* A file or a directory stream a client holds is on a volume that is listed
\* and mounted in its driver: vfs_umount refuses to unmount under it.
HeldIsMounted ==
  /\ \A t \in Tasks : \A f \in held[t] : fds[f].mp \in live \cap Listed
  /\ \A d \in openDirs : dirs[d].mp \in live \cap Listed

-----------------------------------------------------------------------------
\* The mount list.

\* The list names a mount at most once, and outside the critical sections it
\* lists exactly the volumes the drivers hold mounted, failed mounts and
\* umounts included.
MountListSound ==
  /\ \A i, j \in DOMAIN mounts : mounts[i] = mounts[j] => i = j
  /\ mountMutex = NoTask => Listed = live

-----------------------------------------------------------------------------
\* Every call returns: no task waits for a mutex for ever, and no loop of the
\* layer runs for ever, as long as the driver calls return.
CallsReturn == \A t \in Tasks : pc[t] # "idle" ~> pc[t] = "idle"

-----------------------------------------------------------------------------
\* The client's view of the state: a handle exists from the answer of the call
\* that opened it to the call that closes it.

FileMounts == [f \in Fds |-> IF \E t \in Tasks : f \in held[t] THEN fds[f].mp
                             ELSE NoMount]

StreamMounts == [d \in Dirs |-> IF d \in openDirs THEN dirs[d].mp ELSE NoMount]

Api == INSTANCE VfsApi WITH mounted <- Listed, files <- FileMounts,
                            streams <- StreamMounts, answer <- ret,
                            Answers <- Codes \ {"none"}

\* Every behaviour of the VFS with one task is a behaviour of VfsApi: each call
\* has the effect on the handles and the name space that its answer says, once,
\* and nothing else changes between an invocation and its answer.
ApiSpec == Api!Spec
=============================================================================
