# A verification project for uC-VFS

uC-VFS is a virtual file system layer for uC/OS-III on an ARM MPS2 board. It is a
port of the VFS of RIOT OS: an application calls `vfs_open`, `vfs_mount` and so
on, and the layer finds the mounted volume and calls its file system driver
(FatFs, SPIFFS or LittleFS), whose blocks live in two RAM disks. This directory
models the layer, its list and disks, the FatFs adapter and the three file system
libraries in TLA+, checks the models with TLC on small instances, and proves with
TLAPS what matters most about the layer, the adapter, the list and the disk, and what
the FAT library writes where, for all instances.

Paths below are relative to the repository's root.

## 1. Inventory

| component | state it keeps | operations | what makes it correct | modules |
|---|---|---|---|---|
| VFS core, `src/src/vfs/vfs.c` | `_vfs_open_files`, `_vfs_mounts_list`, `open_files` of each mount, `_mount_mutex`, `_open_mutex`; the caller's `vfs_DIR` | open, close, fstat, lseek, read, readline, write, fsync, opendir, readdir, closedir, format, mount, umount, rename, unlink, mkdir, rmdir, stat, normalize_path | a descriptor has one owner and is never lost; `open_files` counts the users of a mount; a volume is not unmounted under its users; the list agrees with the drivers; no mutex is kept; a path goes to the right volume | `Vfs`, `VfsProperties`, `VfsApi`, `VfsText` |
| circular list, `src/src/vfs/clist.h` | the ring of `next` pointers | push, pop, rotate, find, remove | one ring, and the behaviour of a sequence | `Clist`, `ListApi` |
| RAM disk, `src/src/vfs/ramdisk.c` | two arrays of 512 KiB | read and write by sector or address, erase | no access outside the array, whatever the arguments | `Ramdisk` |
| mutex wrapper, `src/src/vfs/mutex.c` | a kernel mutex | init, lock, unlock | mutual exclusion (kernel) | in `Vfs`, `FatfsVfs` |
| FatFs adapter, `src/src/vfs/fatfs/fatfs_vfs.c` | `work_mtx`, the global `fat_disk`, one path buffer per volume | the driver tables | a file is read from the disk it is on; a dead file is refused, and no format writes under a live one; the format buffer has one user | `FatfsVfs` |
| FatFs library, `src/src/vfs/fatfs/ff.c` | the sector window, the FAT, directory tables, file buffers | f_open ... f_mkfs | chains and entries agree at every forced unmount; no cluster is lost; a file system | `FatFs`, `FileSystem` |
| SPIFFS, `src/src/vfs/spiffs/*.c` | pages and their index, descriptors, one write cache page, counters | open, read, write, seek, flush, close, remove, rename, format, mount | the index stays sound through garbage collection; a call changes its file only | `Spiffs` |
| LittleFS, `src/src/vfs/littlefs/*.c` | metadata pairs, the global state, the allocator's lookahead, open files | open ... rename, mount, format | every call is done or not, also across a power failure; no block has two uses | `LittleFs`, `CommitFs` |
| block pool, `src/src/vfs/mem.c` | a uC/LIB pool | create, alloc, free | no block lost (its user is LittleFS) | |
| timer and UART drivers, `src/src/device`, `src/src/boards/mps2_an385/drv` | registers, a callback | start, stop, poll | no callback after stop | |
| `printf.c`, logging, application, board support | | | output, one task, configuration | |

How they interact: the application's tasks call the VFS core directly; the core
calls driver functions through tables (`f_op`, `d_op`, `fs_op`), sometimes with
`_mount_mutex` held (mount, umount) and usually without (everything else); the
adapters call their library, which calls back the adapter's block functions,
which call the RAM disk. Everything is shared memory; the kernel is preemptive,
so that a task can be stopped between any two accesses. SPIFFS and LittleFS lock
each volume around a call, FatFs does not. The disks are RAM and do not outlive a
power cycle; LittleFS is written for media that do, and its model includes power
failures for that reason.

Hard to test, and the reason for the models: interleavings of two tasks inside
the layer (the counter, the descriptor scan, check-then-act in umount and
format) and inside the FatFs adapter; the failure exits, each of which must undo
what came before it; stale descriptors and file objects; the pointer surgery of the
list; wrapping arithmetic in the disk; the character loops at their boundaries; the
order in which a library writes its sectors, pages or commits, and what it keeps in
RAM meanwhile. `PROJECT.json` lists each hazard at its line with the properties that
watch it. The repository's tests (`src/src/app/vfs/vfs_test_*.c`) run one task
through one successful sequence per file system.

## 2. Plan

Written, in this order:

1. `Vfs`, `VfsProperties`: the core, with its interleavings.
2. `VfsApi`: what a client sees; `Vfs` with one task implements it.
3. `Clist` and `ListApi`: the list `Vfs` takes as a sequence is one.
4. `Ramdisk`: the disk's bounds tests.
5. `VfsText`: the loops over strings that `Vfs` takes as one step.
6. `FatfsVfs`: the state that volumes and tasks share in the FatFs adapter.
7. `FatFs` and `FileSystem`; `Spiffs`; `LittleFs` and `CommitFs`: the libraries.
8. The proofs: `VfsProofs` (mutexes, types, mount list, descriptors), `VfsRefsProofs`
   (reference counts), `VfsApiProofs` (refinement), `ClistProofs`, `VfsTextProofs`,
   `FatfsVfsProofs`, `RamdiskProofs`, `FatFsProofs`.

Left:

- Theorems: action properties of `FatfsVfs` (which step may change what a file sees).
- `ChainsSound` and `NoneLost` of `FatFs` as theorems. The step is from a lookup
  (`Scan`, a loop over the FAT) to the slots `view` is made of (`Slots`): that
  `dir_find` returns the slot that carries the name in every volume. With it, "no
  cluster is the successor of two" and "no free cluster is anybody's successor" are a
  start of an inductive invariant.
- `Spiffs` and `LittleFs` are written with recursive operators over a record of the
  volume, in the shape of the C functions. Proofs about them need those rewritten
  with loops of a known number of rounds, as `FatFs` has them (`Times`).
- The pool of cache blocks of the LittleFS adapter and the timer driver.

## 3. The modules

### Vfs: the core

A task has a control point `pc[t]`, a record of locals `loc[t]`, and `ret[t]`,
what its last call returned. `pc[t] = "idle"` means that the client's code runs,
and the actions under *Call* choose the next function and its arguments. What
the client owns is kept in `held` (descriptors that `vfs_open` returned and that
were not passed to `vfs_close`) and `openDirs`.

The state of the code maps as follows:

| code | model |
|---|---|
| `_vfs_mounts_list` | `mounts`, a sequence, oldest first |
| `mountp->open_files` (uint16_t) | `openFiles[m]`, modulo `CountMod` |
| a volume mounted inside its driver | `m \in live` |
| `_mount_mutex`, `_open_mutex` | `mountMutex`, `openMutex`: the owner or `NoTask` |
| `_vfs_open_files[fd]`: `p_tcb`, `mp` (with `f_op`), `flags`, `pos` | `fds[fd].tcb`, `.mp`, `.mode`, `.pos` |
| the file being open inside its driver | `fds[fd].drv` |
| `vfs_DIR` | `dirs[d]` |
| the references a call took in `_find_mount` and must give back | `loc[t].refs` |

What is one step:

- `_find_mount` is two steps, both with `_mount_mutex` held: `FindMount` (lock,
  search, load `open_files`) and `FoundMount` (store, unlock). The search reads only
  what the mutex guards, and the lock orders it, so that lock, search and load
  are one step without losing an interleaving; the load and the store stay apart
  because decrements happen without the mutex.
- `open_files--` is `DecLoad` and `DecStore`. It is in every function that took a
  reference, in `_free_fd`, and in `vfs_closedir`; the model has it once, fed by
  `loc[t].refs`, and `Return` ends the call. For `vfs_close` and a failed `vfs_open`
  `Return` also clears `p_tcb`, which `_free_fd` does after the decrement.
- `_allocate_fd` tests one slot per step, because `_free_fd` of other tasks clears
  slots without `_open_mutex`. `InitFd` sets `p_tcb`, `mp`, `f_op`, `flags` and `pos`
  together and unlocks: other tasks that use only descriptors they hold read at
  most `p_tcb` of that slot, and no other task scans while the mutex is held.
- A driver call is one step that ends `"ok"` or `"EIO"`. `live` and `drv` record
  what the driver did, so that a property can say that the layer and the driver
  agree. `vfs_format` leaves its volume unmounted in the driver.
- The guards of a call (`_fd_is_valid`, the access mode, a missing driver function)
  are part of the action that begins it; the order of the tests is the code's.

Abstracted: path names are members of `Names`, with `Covers` and `PointLen` saying
which mount points are directory prefixes (`VfsText` checks the real comparison);
data, buffers and directory entries; arguments that are NULL or a mount point
that does not start with a slash, which return before any state is touched;
`vfs_readline`, which for the descriptor table is `read`. `StaleFds` lets clients
pass descriptors they do not hold, `CanForce` lets them force an unmount.

`VfsProperties` holds the properties over this state, and the refinement mapping to
`VfsApi`.

### VfsApi: what a client may rely on

Handles on mounted volumes: a call is invoked, has its effect at one instant, and
answers. No table, counters, mutexes or drivers. The mapping (`Api` in
`VfsProperties`): `mounted` is the mount list as a set, `files[fd]` the mount of a held
descriptor, `streams[d]` that of an open directory stream, `answer` is `ret`. It
says in particular that `ENFILE` comes only when every descriptor is in use, that
an unmount happens only when no handle is open on the volume, that an open
succeeds only on a mounted volume with a descriptor nobody has, and that a call
that fails changes nothing.

### Clist and ListApi

`Clist` keeps `list->next` (`last`) and the `next` pointer of every node; a removed
node keeps a stale pointer, as in the code. The loops of `clist.h` walk from
`list->next->next` until they are back at `list->next`; `Walk` is that walk, bounded
by the number of nodes plus one. `ListApi` is the sequence that `Vfs` uses, and
`ListSpec` is the refinement with `list <- Walk`. Pushing a listed node would break
the ring; `check_mount` exists to prevent it, and `Offered` is its test.

### Ramdisk

Every call is `Call` (arguments arrive) followed by `Reject` or `Transfer`. Addresses
are computed modulo `Word`, as in `size_t`; `fault` records an access outside the
array, and `MeantAddr` is the address in unbounded arithmetic.

### VfsText

A behaviour runs one loop on one input: an iteration per mount for `_find_mount`,
per component for `vfs_normalize_path`, per byte for `vfs_readline`. The properties
compare the result with a definition that does not share the loop's structure:
the longest directory prefix by quantifiers; the directories a path means by a walk
(`Walk`) over its components (`Parts`), two recursive functions; the first end of line
by a minimum. The inputs are constants;
`TextInputs` says that they are strings over a set of characters and that mount points
begin with a slash, which `check_mount` tests before a volume is listed.

### FatfsVfs: the FatFs adapter

Several tasks use several volumes. A driver call is two or three steps: what comes
before the library call (`FormatInit`, `MountInit`: `fat_disk` is overwritten;
`PathCall`: the path buffer is filled), and the library call; `f_mkfs` is two, because it
drops the mounted volume (`MkfsClear`) long before it writes (`MkfsWrite`).
`drive` is `FatFs[0]`, `fs[d]` the FATFS object, and `fsid` the library's counter of
mounts. `file[t]` is the object a task has open, with two facts the code does not
record: the disk it is on (`home`) and what has happened to it (`fate`): its volume was
lost (`"dropped"`, by an unmount, another mount or `MkfsClear`), or `MkfsWrite` wrote a new
file system on its disk (`"formatted"`). A file opened by one task while the `f_mkfs` of
another is between its two steps is `"amid"`, and then `"overwritten"`: the code goes on
accepting it, which `StaleFilesRejected` excepts and a finding reports.
`Valid` is `validate`. `fs[d].win` is the set of disks whose sectors the volume's window
may hold: a path call may find its file there rather than on `fat_disk`. Mounts and
umounts hold `_mount_mutex`, as the VFS makes them.

### FatFs and FileSystem

A C function of `ff.c` is an operator on the record of the volume: sectors on the disk,
and of the FATFS object the sector window and `last_clst`. A loop is `Times` of one round,
with a bound on the rounds that no loop of the code passes unless a chain runs in a
circle; a round that finds the loop ended changes nothing. `err` of a file is its abort
flag: such a file is only synchronised and closed. A step is one call of the
adapter; inside it the order of the window's flushes is the code's, because that is what
a forced unmount (`Umount` with `CanForce`) leaves behind. `view` is what the volume stands
for: each action computes it from the disk, the window and the open files, and
`IsFileSystem` says that it moves only as `FileSystem` allows. Left out: `f_getfree`, `f_truncate`, FAT12
packing, FAT32, exFAT and long names (not configured), the text of `create_name`,
directory streams that are open while the directory changes, a rename of a directory into
itself (which the code accepts).

### Spiffs

Blocks of pages; a page is free, deleted, data or index. Operators carry the names of the
C functions they model. The garbage collector runs inside the calls that need room, moves
pages and tells the descriptors (`object_event`). `f.short` remembers that some call ran
out of pages half way, or gave up a cache page that it could not write. The code then leaves
pages that nobody owns; or a descriptor stands behind the end of its file, and the next
write through it puts pages there that the header does not count. `IndexSound`,
`FdsFollow` and the exact half of `CallsExact` speak of the time before. `call` is what
the last call was asked to do. Left out: `spiffs_check.c`, the read cache (written
through), `creat`, `fremove`, `stat`, `info`, `tell` and `eof`, seeks from the current
position or the end, opening by entry or page, truncation to a size other than zero, the
index map, a bad magic.

### LittleFs and CommitFs

Metadata pairs with what their valid commits add up to; commits, compaction, splits,
relocation of worn pairs, the global state with its deltas, the list of open files that
every commit adjusts, the block allocator, inline and listed files. A call is computed
once without and once for each point at which the power may fail in it (`Outcomes`); after
a failure the volume is unmounted and holds what was committed. `seen` is the tree and
the handles as a reader finds them, and `IsCommitFs` says that it moves as `CommitFs`
allows: whole calls only. The header of `LittleFs.tla` lists what is left out.

No call of the library is taken out of the model. There are calls in which the code loses
track of what is on the disk (findings below), and they are followed with what comes after
them; `f.lost`, which the code does not have, collects their marks until the next format,
and a property names the marks behind which it does not hold of the code:

| mark | set when | what is not kept from then on |
|---|---|---|
| `"blind"` | a scan for free blocks missed a block of a file that stands on the disk | that the blocks of committed files have one use |
| `"state"` | a global state (move, orphans) was to be written with a commit and is not on the disk | that the library's copy of it is the disk's, and what rests on it: moves, orphans, every directory on the list, files apart |
| `"move"` | the note of a rename that failed reached the disk | that a noted move names an entry |
| `"orphan"` | a directory without an entry stays on the list and nothing counts it | that the disk says to look for orphans |
| `"entry"` | a removed open file was stored in another's entry | that the disk says to look for orphans |
| `"kind"`, `"count"` | that entry was a directory's; the number of orphans went below zero | the behaviour ends (a bound): the words left there mean nothing |

`IsCommitFs` speaks of every call after which nothing but orphans was lost track of. That
the list of pairs ends with sorted names, and that pairs and newly given blocks are apart,
holds always. A good four fifths of the states of the run have no mark.

### Seeded faults

Operators named `Bug...` are a plausible mistake in the operator they stand in
front of: a dropped guard, a lock not taken, an error not looked at. No action uses
them. Each shows that a property can fail: `PROJECT.json` ("mutants") pairs them.

## 4. The runs

| run | instance | checks | states |
|---|---|---|---|
| `vfs_seq` | 1 task, mounts `/` (all driver functions) and `/mnt` (almost none), 2 descriptors, 1 directory stream, every function, stale descriptors | `TypeOK`, `RefsCounted`, `HeldIsMounted`, `ApiSpec` | 280 000 |
| `vfs_files` | 2 tasks, the two mounts, 2 descriptors; open, close, read, mount, umount | `MutexOwned`, `FdExclusive`, `HeldIsOpen`, `NoFdLeak`, `MountListSound`, `HeldIsStable` | 510 000 |
| `vfs_live` | 2 tasks, 1 mount, 1 descriptor; open, close, rename, opendir, mount, umount (also forced), format | `CallsReturn` | 49 000 |
| `clist` | 4 nodes | `Ring`, `ListSpec` | 11 000 |
| `ramdisk` | 1 disk of 2 sectors of 2 bytes, addresses of 3 bits, all arguments | `InBounds`, `ExactTransfer` | 540 000 |
| `vfs_text` | up to 3 mount points of up to 3 characters and names of up to 4; paths of up to 6 characters over `/ . a`; inputs of up to 4 reads | `LookupLongest`, `RelPathRooted`, `NormalizeRight`, `LineWhole` | 71 000 |
| `fatfs_vfs` | 2 tasks, 3 volumes (one with a disk number that does not exist), 2 disks, 2 mounts in the library, 1 format that leaves with the mutex | `TypeOK`, `StaleFilesRejected`, `FileOnHome`, `WorkExclusive`, `OneVolume`, `FormatReturns` | 430 000 |
| `fatfs` | 3 clusters of 2 bytes, 1 handle, a directory with two names | `TypeOK`, `NoneLost`, `ListingExact`, `ReadsBack`, `IsFileSystem` | 18 000 |
| `fatfs_force` | the same with 2 handles, one name in the directory, forced unmounts | `ChainsSound`, `SizeCovered`, `IsFileSystem` | 16 000 |
| `spiffs` | 5 blocks of 3 pages, 2 names, 2 handles, 9 calls | `Counted`, `FdsFollow`, `IndexSound`, `CallsExact` | 37 000 |
| `littlefs` | 9 blocks of 4 tags or 7 pointers, 3 paths, 1 handle, 9 calls, 1 power failure | `TreeSound`, `BlocksDisjoint`, `IsCommitFs` | 58 000 |
| `vfs_race` | 2 tasks, 1 mount; open, close, mount | `RefsCounted`, violated | |

Why these bounds. Two tasks are enough for every race found, since each
is between one task inside a section or a two-step update and one other. Two
descriptors let one task hold a slot while the other scans past it, and let
the table fill up: `vfs_seq` reaches ENFILE with both in use, `vfs_files`
with any split between the tasks. Two mounts are needed for `EXDEV`, for the choice
of the longest prefix and for a list with more than one node. In the concurrent
runs without `RefsCounted` the counter is taken modulo 2: lost updates already make
its value arbitrary, and the properties of those runs hold whatever it is. `MaxPos`
bounds `filp->pos` in `vfs_seq`. The bounds of the RAM disk keep the ratio that
matters, a disk no larger than half the word. For these modules the theorems remove
the bounds.

The bounds of the libraries are chosen so that everything runs out: three clusters hold
a directory that grows by one and a file of two; five blocks of three pages fill up and
are collected after a few writes and rewrites; four tags in a metadata block make the
root directory split and wear out, and nine blocks make the allocator meet blocks in use
and run out of them.
`MaxCalls` cuts the behaviours of SPIFFS and LittleFS at nine calls, enough for
a format, a mount, two files and the collections, splits and relocations they set off,
and for every mark of LittleFS to be set; LittleFS with nine calls on four paths (107 000
states) has been checked once as well. A `VIEW` drops what only a property or a
bound looks at (`call`, `calls`, `seen`).

All runs check for deadlock except three. In `vfs_text` a behaviour ends with its loop,
and `spiffs` and `littlefs` end with their last call.

What they show. With one task, which is how the application uses the layer today
(`src/src/app/app.c`), the layer is correct: references are exact, nothing is
unmounted under a handle, and every call does what `VfsApi` says. `vfs_opendir` on a
driver without directories, which keeps its reference, is not in `vfs_seq` (both drivers
have `d_op`, as all three of the repository have), and names that begin with a dot are
not in `vfs_text`; both are findings. With two tasks the descriptor table and the mount
list stay sound, every call returns, and the reference counters do not stay exact.
`vfs_files` does not call `format`: two tasks can race so that a volume is formatted
after another task mounted it, because `vfs_format` unlocks before it calls the
driver, and then `MountListSound` does not hold. No comment or document of the
repository says that this must not happen, so it is listed as a hazard and not as
a finding.

The FatFs adapter never uses a file of a volume that was unmounted, replaced or cleared by
a format since the file was opened. When a format writes, the only files it may write
under are those opened since it began; under these it does write. An accepted file is read
from its own disk except in the window between the two steps of another task's mount or
format. The FAT library is a file system, and what a forced unmount leaves can be mounted
again. SPIFFS keeps its index until a call runs out of pages half way or loses a cache
page. LittleFS does every call as a whole or not at all, also when the power fails in it,
until one of the calls that lose track: what they need is a directory that splits or a
pair that wears out in the middle of a rename or a removal, or no free block. After such a
call a file may share its blocks, stand under another name, or be found in another's
entry; the table in section 3 says which promise goes with which.

### Findings

One has a run: `vfs_race` shows that `open_files--` runs without `_mount_mutex`, while the
increment holds it. In the shortest trace the open of a driver fails, the first task takes
its reference back in `_free_fd` while a second is in the increment of `_find_mount`, and
one of the two updates is lost: the counter is 2 or 0 with one reference in use. The same
holds at every other place of the decrement. The others were met while translating; the
models contain them, or keep out of their way, as the text above says:

- the layer: `vfs_opendir` keeps its reference when the driver has no `d_op`;
  `vfs_umount` can call the driver twice; `vfs_normalize_path` loses the first dot of `.a`;
- the FatFs adapter: the shared disk, path buffer and mutex, `_fstat` and `_lseek`; a format
  under a volume that was mounted after the format began;
- SPIFFS: a read that does not see cached bytes, the collection of free blocks, an
  allocation whose failure is ignored;
- LittleFS: a move that is noted for good although its commit failed; a removed open file
  that is stored in another file's entry; a global state left out when a worn pair finds no
  free block; a scan for free blocks that misses those of the file being renamed; orphans
  nobody counts, and a count of orphans below zero; and, in the adapter, the file
  configuration on a dead stack frame.

`PROJECT.json` ("findings") gives each with its lines. The races need two tasks; the
single-task application meets the shared disk, `_fstat` and the libraries' own.

## 5. Fairness

Only `vfs_live` and `fatfs_vfs` use fairness. `WF_vars(Run(t))` and
`WF_vars(Continue(t))`: a task inside a call is eventually scheduled and a driver or
library call returns. `SF_vars(Acquire(t))` and `SF_vars(FormatLock(t))`: a task that
waits for a mutex which is free again and again gets it. The kernel justifies the second:
`OSMutexPost` hands the mutex directly to the waiting task of highest priority, in
arrival order among equals, and `mutex_lock` pends without a timeout. Neither holds
for a task that a busy task of higher priority never lets run; the assumption is
that tasks of higher priority block between their calls. No fairness is assumed of
clients: an idle task need not call.

## 6. What is proved

All for any number of tasks, mounts, descriptors, names, streams, nodes, disks, volumes,
clusters, sectors and files, from the assumptions on the constants (`VfsConstants`,
`RamdiskConstants`, `ClistConstants`, `TextInputs`, `FatfsVfsConstants`,
`FatFsConstants`: their types, no bound) and the hypotheses named here.

`VfsProofs`:
- `MutexSafe`, `Spec => []MutexOwned`. `MutexInv` adds to the property that control
  points are labels. Each action that enters a section takes a free mutex, and each
  that leaves one releases it; the lemma on moves of one task carries the others.
- `TypeSafe`, `Spec => []TypeOK`. `TypeOK` alone is not inductive: that
  `Head(loc[t].refs)` is a mount needs to know that a reference is there. `TypeInv`
  adds `CallOK`, which says at every control point which locals are meaningful
  (`Stage`), and `DirOK`, that an open stream names a mount.
- `ListSound`, `Spec => []MountListSound`, under `FormatAlone`: either nobody formats, or
  there is one task. `ListInv` keeps, between `check_mount` and the driver's mount, that
  the volume is not listed; `_mount_mutex` carries that over the steps of other tasks, and
  `vfs_format`, which gives the mutex up, is why the hypothesis is needed.

Also in `VfsProofs`, all under `OwnFds`, that clients pass only descriptors they hold
(`~StaleFds`), or there is only one client:
- `FdsExclusive`, `FdsNotLeaked`, `HeldStaysOpen`, and the action property
  `HeldStaysStable`. The inductive invariant `FdInv` turns the two halves of ownership
  into one equivalence: slot `f` carries `p_tcb = t` exactly if `t` holds `f` or works on
  it (`Owned`). The step that matters is `InitFd`: the slot was found free one step
  earlier, and it still is because a slot becomes used only in `InitFd`, which needs
  `_open_mutex`; this is where `MutexInv` is used (`FdStages` keeps the fact at `"init"`).
  Slots are freed without a mutex, which does no harm, because only the task that claims a
  slot frees it. `OwnFds` is necessary: a client that closes a descriptor of another
  task frees a slot under it.

`VfsRefsProofs`, under `Sequential`: one task, a counter with more values than there can
be references, drivers with directories. Each part is a case the code gets wrong (the run
`vfs_race`, the wrap at 65536, `vfs_opendir`).
- `RefsExact`, `Spec => []RefsCounted`. `RefInv` splits the users of a mount into held
  descriptors, open streams and the references of the call under way, and says for every
  control point how many references the call still has to take or to give back
  (`Pending`, `RefStage`); the work is the arithmetic of cardinalities in each step.
- `HeldOnMounted`, `Spec => []HeldIsMounted`, also without force: with `RefInv` and
  `FdInv`, a mount whose counter is not zero is listed (`BusyListed`), because
  `vfs_umount` tests the counter under the mutex.

`VfsApiProofs`: `VfsImplementsApi`, `Spec => ApiSpec` under `Sequential` and without
force. Each step of `Vfs` is a step of `VfsApi` or leaves what a client sees unchanged; one
lemma per action. `ApiInv` keeps what a call has found out when it answers: that the scan
saw every descriptor below in use, that the list was not empty when a call says `EXDEV`.

`ClistProofs`: `RingKept` and `ClistImplementsList`. `ClistInv` says that `Walk` is a
sequence without repetition that `next` links into a ring through `last` (`RingOf`). The
lemma `WalkIsRing` goes the other way: whatever sequence is so linked is what the bounded
walk returns; with it each operation only has to exhibit the sequence it leaves. Facts
about a walk of any length are shown by the least step at which they would fail
(`NatMinimum`), which needs no induction over an operator.

`VfsTextProofs`: `LookupRight`, `DriverPathRooted` and `LineRight`, with the loop
invariants `LookupInv` (the best of the mount points seen so far, the later of equals) and
`LineInv` (what was read so far is the input's beginning, without an end of line).
- `NormalizeSound`, `Spec => []NormalizeRight`, under `NoDotNames`: no path has a name
  that begins with a dot and is neither `.` nor `..`, because the code drops the dot in
  front of such a name. `NormalInv` says that between two iterations `buf` is tidy (a
  single slash in front of each name) and its components are what the characters before
  `i` mean (`Scanning`). Its lemmas say what each stretch of characters adds to the
  components of a path (`PartsOfSlashes`, `PartsOfWord`, `PartsOfPrefix`), what a
  component adds to what they mean (`MeaningOfAppend`, `OutsideStays`), and what the
  code's three moves do to `buf` (`NameAdded`, `NameDropped`, `SlashAdded`). That the
  tables of the two recursive functions exist (`TableExists`), and facts about all their
  entries, follow from the least entry at which they would fail (`RangeInduction`).

`FatfsVfsProofs`: `AdapterTyped`, `StaleStayRejected`, `FilesStayHome`, `OneFormatter`,
`OneMounted`, from one inductive invariant `IInv`: ids given out are at most `fsid` and a
lost volume has a smaller one or no type (`IdsOK`); `work_mtx` is nested once for the
task that formats and once for each format that left with it (`WorkOK`); what a mounted
volume's window holds comes from `fat_disk`, unless some task is between the two steps of
a mount or format (`WindowOK`), which is what makes `FileOnHome` inductive; and while an
`f_mkfs` is between its two steps, an accepted file was opened since the first
(`HalfwayOK`), which with `WorkOK`, only one `f_mkfs` at a time, gives the second half of
`StaleFilesRejected`.

`FatFsProofs`: `VolumeTyped`, `Spec => []TypeOK`. `TypeOK` is more than types: a sector
of the FAT holds FAT entries and a sector of the root directory holds directory entries,
in the window and on the disk; every cluster number in an entry, in a file and in the
FAT names a cluster; a file that is not aborted stands inside its size, and in the middle
of a sector with that sector in its buffer. The inductive invariant (`IInv`) adds that the
window is never older than the disk on the boot sector, the FAT and the root directory
(`Coherent`; a file's buffer does write past a window that stands on data), and that a
volume that is not mounted has no window and no open file. It holds with forced unmounts
and with chains of any shape. There is one lemma for each function of the library: from a volume of
this kind it makes a volume of this kind, and its result is what the caller may assume
(`GetFat`, `CreateChain`, `DirNext`, `FindFree`). What a function does not touch is kept
(`Kept`), which is how `TruncateType` knows that the directory entry an open truncates is
still in the window after the file's chain was removed. A loop is shown round by round: that the table of its
rounds exists (`TableExists`) and that what each round keeps holds after the last
(`StaysIn`) both follow from the least round at which they would fail. The arithmetic is
that of `Geometry`: the areas do not overlap, and the entry of a cluster lies in a sector
of the FAT.

Also in `FatFsProofs`, two action properties, `Spec => [][...]_vars`, in which the state is
read through the window (`Seen`):
- `ChainsNeverRelinked`: mounting, stat, reading, `f_sync` and `f_close` leave the FAT as it
  is (`FatKept`); writing, seeking and renaming only give a value to free clusters and lead
  the end of a chain on to a cluster (`Extends`); removing only frees (`Frees`); opening
  does one of the two; and `f_mkdir`, which gives its cluster back when it cannot register
  the directory, makes no link name another cluster (`NoRelink`). That `create_chain` takes
  only a free cluster and links only the end of a chain is in the lemmas `FindFreeType` and
  `CreateChain`; the rest carries it through every loop and error path. Formatting and
  unmounting are not restricted: the first starts anew, the second drops the window.
- `OnlyOwnEntry`: `f_sync` and `f_close` change one cell of the boot sector, the FAT and the
  root directory at most, the directory entry of their own file, and the other calls on
  files and the lookups none of the boot sector and the root directory. Entries in
  subdirectories lie among the data, where `TypeOK` is what is proved.

They use `IInv`, for `Coherent` says when a sector that was flushed or read again is still
the one that was seen. No run lists them; in the runs a fault in these functions shows in
`ChainsSound`, `NoneLost` and `IsFileSystem`.

`RamdiskProofs`: `RamdiskInBounds` and `RamdiskExact`. The lemma `OneWrap`
says that a sum below two words wraps at most once, so that the remainder is
smaller than an operand exactly if it wrapped; `Bounds` derives from it that the
tests accept a call exactly when it lies inside the disk. They need that the disk is
at most half the address space (512 KiB of 4 GiB).

Only model-checked:
- `CallsReturn` and `FormatReturns`: liveness under fairness, out of the prover's reach.
- `ChainsSound`, `NoneLost`, `SizeCovered`, `ListingExact`, `ReadsBack` and
  `IsFileSystem` of `FatFs`. They speak of chains of any length as two computations see
  them, the library's lookups and `view`, and that these agree is an induction over the
  contents of directories that is not done (see section 2).
- Everything of `Spiffs` and `LittleFs`: their operators are recursive, and the
  prover has no SMT backend for a module with recursive operators. Even `Counted` and
  `BlocksDisjoint` rest on the whole index: the code deletes and reuses a page or a block
  because the index says so.
- Parts of the statements above without their hypotheses: `RefsCounted` with two tasks is
  false, `MountListSound` with formats of two tasks too, and `NormalizeRight` for a path
  such as `/.a`.

A note on the prover. Its SMT encoding gives every value a length in `Nat`, so a leaf
that has a function which is not a sequence among its facts, together with `Len`, can
be proved from a contradiction. All leaves of the eight proof modules were also checked
with that axiom left out.

## 7. Not modelled

- The block pool (`mem.c`) and the LittleFS adapter's cache blocks; the timer.
- `spiffs_check.c`, which the adapter does not call; `printf.c`.
- What the sections on the libraries name as left out.
- UART, logging, board support, kernel hooks: register access and output.
- The kernel: a mutex that works. The errors `mutex_lock` can report are ignored by
  all callers and cannot arise in this code, except that `_format` of the FatFs adapter
  can nest `work_mtx`, which `FatfsVfs` counts.
- Clients that share a descriptor between tasks, and clients that close a stream
  whose `vfs_opendir` failed: the layer promises nothing for them. Both are in the
  list of hazards.
- `vfs_file_get` (a const pointer into the table) and `vfs_sysop_stat_from_fstat`
  (part of a driver).

## 8. Running

    tlc -workers 2 -config MCVfsFiles.cfg MCVfsConc
    tlapm VfsProofs.tla

Each configuration finishes within five minutes on two cores, most within one;
`VfsRefsProofs`, `VfsApiProofs` and `FatFsProofs` take the longest of the proofs, a few
minutes each.
