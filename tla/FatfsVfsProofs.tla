--------------------------- MODULE FatfsVfsProofs ---------------------------
(****************************************************************************)
(* The adapter's safety for every number of tasks, volumes, disks and       *)
(* mounts.  The argument: f_mount, f_unmount and f_mkfs always take the     *)
(* type away from the volume registered as drive 0, and only the registered *)
(* volume can be mounted, so at most one is (OneVolume); each mount takes a *)
(* new id, so a file of an earlier mount never matches (IdsOK); the only    *)
(* calls that change fat_disk drop that one volume in their next step,      *)
(* unless they set it to NULL (WindowOK, FileOnHome); and from the step in  *)
(* which f_mkfs drops the volume to its write, a file that is accepted was  *)
(* opened in between (HalfwayOK).                                           *)
(****************************************************************************)
EXTENDS FatfsVfs, FiniteSetTheorems, TLAPS

\* The tasks that may still mount a volume in the call they are in.
Mounters == {t \in Tasks : pc[t] \in {"mntInit", "mntReg", "lib"}}

Formatting == {"fmtInit", "mkfs", "mkfsWrite"}

\* What the calls rely on between their steps.
CallsOK ==
  /\ \A t \in Tasks : pc[t] # "idle" => loc[t].d \in Descs
  /\ fsid + Cardinality(Mounters) <= MaxId

\* work_mtx is held by the task that formats, once for it and once for every
\* format that left with it.
WorkOK ==
  /\ workMtx.owner = NoTask <=> workMtx.depth = 0
  /\ \A t \in Tasks : pc[t] \in Formatting =>
       workMtx.owner = t /\ workMtx.depth = workMtx.leaks + 1
  /\ (\A t \in Tasks : pc[t] \notin Formatting) => workMtx.depth = workMtx.leaks
  /\ \A t \in Tasks : pc[t] \in {"fmtLock", "fmtInit"} /\ DiskOf[loc[t].d] = NoDisk =>
       MaxNest > 0 /\ (workMtx.owner = t => workMtx.leaks < MaxNest)

\* No id is given twice: the ids in use are at most Fsid.
IdsOK ==
  /\ \A d \in Descs : fs[d].id <= fsid
  /\ \A t \in Tasks : file[t] # NoFile => file[t].id <= fsid

\* The window of a mounted volume holds nothing but the disk that fat_disk
\* names, outside the calls that are about to replace the volume.
WindowOK ==
  \A d \in Descs : fs[d].mounted =>
    fs[d].win \subseteq {fatDisk} \/ fatDisk = NoDisk \/ \E u \in Tasks : Between(u)

\* Of the files open while an f_mkfs is halfway, the library accepts only
\* those opened since it dropped the volume: its write makes no other stale.
HalfwayOK ==
  MkfsHalfway => \A t \in Opened : Valid(file[t]) => file[t].fate = "amid"

VolumesOK == OneVolume /\ IdsOK /\ StaleFilesRejected /\ HalfwayOK

IInv == TypeOK /\ CallsOK /\ WorkOK /\ VolumesOK /\ WindowOK /\ FileOnHome

LEMMA NoFileNotObject == NoFile \notin Objects
BY FatfsVfsConstants DEF NoFile, Objects

LEMMA InitInv == Init => IInv
<1> SUFFICES ASSUME Init PROVE IInv
  OBVIOUS
<1>1. TypeOK
  BY FatfsVfsConstants DEF Init, TypeOK, Unmounted, Labels, Blank
<1>2. CallsOK
  <2>1. Mounters = {}
    BY DEF Init, Mounters
  <2> QED BY <2>1, FS_EmptySet, FatfsVfsConstants DEF Init, CallsOK
<1>3. WorkOK
  BY DEF Init, WorkOK, Formatting
<1>4. VolumesOK /\ WindowOK /\ FileOnHome
  BY DEF Init, VolumesOK, OneVolume, IdsOK, StaleFilesRejected, HalfwayOK, Opened, WindowOK,
         FileOnHome, Unmounted
<1> QED BY <1>1, <1>2, <1>3, <1>4 DEF IInv

-----------------------------------------------------------------------------
\* The helpers of the actions.

FsType == [Descs -> [mounted : BOOLEAN, id : 0 .. MaxId, win : SUBSET Disks]]
FileType == [Tasks -> {NoFile} \cup Objects]

LEMMA InvalidateFacts ==
  ASSUME file \in FileType, NEW ds, Invalidate(ds)
  PROVE  /\ file' \in FileType
         /\ \A t \in Tasks : file'[t] # NoFile =>
              /\ file[t] # NoFile
              /\ file'[t].desc = file[t].desc
              /\ file'[t].id = file[t].id
              /\ file'[t].home = file[t].home
              /\ file[t].desc \notin ds => file'[t] = file[t]
<1>1. ASSUME NEW t \in Tasks
      PROVE  \/ file[t] = NoFile /\ file'[t] = NoFile
             \/ /\ file[t] \in Objects /\ file'[t] \in Objects
                /\ file'[t].desc = file[t].desc
                /\ file'[t].id = file[t].id
                /\ file'[t].home = file[t].home
                /\ file[t].desc \notin ds => file'[t] = file[t]
  <2>1. CASE file[t] = NoFile
    BY <2>1 DEF Invalidate, Opened
  <2>2. CASE file[t] \in Objects
    <3>1. file[t] # NoFile
      BY <2>2, NoFileNotObject
    <3>2. CASE file[t].desc \in ds
      <4>1. file'[t] = [file[t] EXCEPT !.fate = "dropped"]
        BY <3>1, <3>2 DEF Invalidate, Opened
      <4> QED BY <4>1, <2>2, <3>2 DEF Objects, Fates
    <3>3. CASE file[t].desc \notin ds
      <4>1. file'[t] = file[t]
        BY <3>1, <3>3 DEF Invalidate
      <4> QED BY <4>1, <2>2, <3>3
    <3> QED BY <3>2, <3>3
  <2> QED BY <2>1, <2>2 DEF FileType
<1>2. DOMAIN file' = Tasks /\ file' = [t \in Tasks |-> file'[t]]
  BY DEF Invalidate
<1> QED BY <1>1, <1>2, NoFileNotObject DEF FileType

LEMMA ReformatFacts ==
  ASSUME file \in FileType, NEW disk, Reformat(disk)
  PROVE  /\ file' \in FileType
         /\ \A t \in Tasks : file'[t] # NoFile =>
              /\ file[t] # NoFile
              /\ file'[t].desc = file[t].desc
              /\ file'[t].id = file[t].id
              /\ file'[t].home = file[t].home
              /\ file'[t].fate \in {"dropped", "formatted"} =>
                   file[t].fate \in {"dropped", "formatted", "sound"}
<1>1. ASSUME NEW t \in Tasks
      PROVE  \/ file[t] = NoFile /\ file'[t] = NoFile
             \/ /\ file[t] \in Objects /\ file'[t] \in Objects
                /\ file'[t].desc = file[t].desc
                /\ file'[t].id = file[t].id
                /\ file'[t].home = file[t].home
                /\ file'[t].fate \in {"dropped", "formatted"} =>
                     file[t].fate \in {"dropped", "formatted", "sound"}
  <2>1. CASE file[t] = NoFile
    BY <2>1 DEF Reformat, Opened
  <2>2. CASE file[t] \in Objects
    <3>1. file[t] # NoFile /\ file[t].fate \in Fates
      BY <2>2, NoFileNotObject DEF Objects
    <3>2. CASE file[t].home = disk
      <4>1. file'[t] = [file[t] EXCEPT !.fate = Written[file[t].fate]]
        BY <3>1, <3>2 DEF Reformat, Opened
      <4>2. /\ Written[file[t].fate] \in Fates
            /\ Written[file[t].fate] \in {"dropped", "formatted"} =>
                 file[t].fate \in {"dropped", "formatted", "sound"}
        BY <3>1 DEF Written, Fates
      <4> QED BY <4>1, <4>2, <2>2 DEF Objects
    <3>3. CASE file[t].home # disk
      <4>1. file'[t] = file[t]
        BY <3>1, <3>3 DEF Reformat
      <4> QED BY <4>1, <2>2
    <3> QED BY <3>2, <3>3
  <2> QED BY <2>1, <2>2 DEF FileType
<1>2. DOMAIN file' = Tasks /\ file' = [t \in Tasks |-> file'[t]]
  BY DEF Reformat
<1> QED BY <1>1, <1>2, NoFileNotObject DEF FileType

LEMMA ClearFacts ==
  ASSUME fs \in FsType, NEW ds
  PROVE  /\ ClearType(ds) \in FsType
         /\ \A d \in Descs : /\ ClearType(ds)[d].id = fs[d].id
                             /\ ClearType(ds)[d].mounted <=> fs[d].mounted /\ d \notin ds
BY DEF ClearType, FsType

LEMMA SeesFacts ==
  ASSUME fs \in FsType, NEW disk
  PROVE  /\ Sees(disk) \in FsType
         /\ \A d \in Descs : /\ Sees(disk)[d].id = fs[d].id
                             /\ Sees(disk)[d].mounted = fs[d].mounted
BY DEF Sees, FsType

\* The ids a mount gives are new.
LEMMA MountFacts ==
  ASSUME NEW f \in FsType, NEW d \in Descs, fsid \in Nat, fsid < MaxId,
         MountVolume(f, d) = "OK" /\ ~f[d].mounted => fatDisk \in Disks, AfterMount(f, d)
  PROVE  /\ fs' \in FsType /\ fsid' \in 0 .. MaxId /\ fsid <= fsid' /\ fsid' <= fsid + 1
         /\ \A e \in Descs : e # d => fs'[e] = f[e]
         /\ \/ fs'[d] = f[d] /\ fsid' = fsid
            \/ /\ ~f[d].mounted /\ fs'[d].mounted /\ fs'[d].win = {fatDisk}
               /\ fs'[d].id = fsid + 1 /\ fsid' = fsid + 1
<1>1. MaxId \in Nat
  BY FatfsVfsConstants
<1>2. CASE ~f[d].mounted /\ MountVolume(f, d) = "OK"
  <2>1. fs' = [f EXCEPT ![d] = [mounted |-> TRUE, id |-> fsid + 1, win |-> {fatDisk}]]
        /\ fsid' = fsid + 1
    BY <1>2 DEF AfterMount
  <2>2. fsid + 1 \in 0 .. MaxId /\ {fatDisk} \in SUBSET Disks
    BY <1>1, <1>2
  <2> QED BY <2>1, <2>2, <1>2 DEF FsType
<1>3. CASE ~(~f[d].mounted /\ MountVolume(f, d) = "OK")
  BY <1>1, <1>3 DEF AfterMount
<1> QED BY <1>2, <1>3

-----------------------------------------------------------------------------
\* How the number of tasks that may still mount changes with a step of t.

LEMMA FsidType == TypeOK => fsid \in Nat /\ fsid <= MaxId /\ MaxId \in Nat
BY FatfsVfsConstants DEF TypeOK

\* Only a RAM disk that exists holds a file system.
LEMMA MountOK ==
  ASSUME TypeOK, NEW f, NEW d, MountVolume(f, d) = "OK", ~f[d].mounted
  PROVE  fatDisk \in Disks
BY DEF MountVolume, TypeOK

LEMMA MountersFinite ==
  IsFiniteSet(Mounters) /\ Cardinality(Mounters) \in Nat
<1>1. Mounters \subseteq Tasks
  BY DEF Mounters
<1>2. IsFiniteSet(Mounters)
  BY <1>1, FatfsVfsConstants, FS_Subset
<1> QED BY <1>2, FS_CardinalityType

LEMMA MountersStep ==
  ASSUME TypeOK, NEW t \in Tasks, NEW l, pc' = [pc EXCEPT ![t] = l]
  PROVE  /\ l \in {"mntInit", "mntReg", "lib"} => Mounters' = Mounters \cup {t}
         /\ l \notin {"mntInit", "mntReg", "lib"} => Mounters' = Mounters \ {t}
BY DEF TypeOK, Mounters

\* A step that gives no id, from and to a label of the same kind, or away from
\* the mounting ones.
LEMMA RoomKept ==
  ASSUME TypeOK, CallsOK, NEW t \in Tasks, NEW l, pc' = [pc EXCEPT ![t] = l], fsid' = fsid,
         l \in {"mntInit", "mntReg", "lib"} => pc[t] \in {"mntInit", "mntReg", "lib"}
  PROVE  fsid' + Cardinality(Mounters') <= MaxId
<1>1. Mounters' \subseteq Mounters
  BY MountersStep DEF Mounters
<1>2. Cardinality(Mounters') <= Cardinality(Mounters) /\ Cardinality(Mounters') \in Nat
  BY <1>1, MountersFinite, FS_Subset, FS_CardinalityType
<1> QED BY <1>2, MountersFinite, FsidType DEF CallsOK

LEMMA RoomTaken ==
  ASSUME TypeOK, Room, NEW t \in Tasks, NEW l, pc' = [pc EXCEPT ![t] = l], fsid' = fsid,
         l \in {"mntInit", "lib"}
  PROVE  fsid' + Cardinality(Mounters') <= MaxId
<1>1. Mounters' = Mounters \cup {t}
  BY MountersStep
<1>2. Cardinality(Mounters') <= Cardinality(Mounters) + 1 /\ Cardinality(Mounters') \in Nat
  <2>1. /\ IsFiniteSet(Mounters \cup {t})
        /\ Cardinality(Mounters \cup {t}) \in {Cardinality(Mounters), Cardinality(Mounters) + 1}
    BY MountersFinite, FS_AddElement
  <2>2. Cardinality(Mounters \cup {t}) \in Nat
    BY <2>1, FS_CardinalityType
  <2> QED BY <1>1, <2>1, <2>2, MountersFinite
<1>3. fsid + Cardinality(Mounters) < MaxId
  BY DEF Room, Mounters
<1> QED BY <1>2, <1>3, MountersFinite, FsidType

LEMMA RoomSpent ==
  ASSUME TypeOK, CallsOK, NEW t \in Tasks, pc' = [pc EXCEPT ![t] = "idle"],
         pc[t] \in {"mntReg", "lib"}, fsid' \in Nat, fsid' <= fsid + 1
  PROVE  fsid' + Cardinality(Mounters') <= MaxId
<1>1. Mounters' = Mounters \ {t}
  <2>1. "idle" \notin {"mntInit", "mntReg", "lib"}
    OBVIOUS
  <2> QED BY <2>1, MountersStep, Zenon
<1>a. t \in Mounters
  BY DEF Mounters
<1>2. Cardinality(Mounters') = Cardinality(Mounters) - 1 /\ Cardinality(Mounters') \in Nat
  BY <1>1, <1>a, MountersFinite, FS_RemoveElement, FS_CardinalityType
<1> QED BY <1>2, MountersFinite, FsidType DEF CallsOK

\* A task that may mount has an id left to give.
LEMMA RoomLeft ==
  ASSUME TypeOK, CallsOK, NEW t \in Tasks, t \in Mounters
  PROVE  fsid \in Nat /\ fsid < MaxId
<1>1. Mounters # {}
  OBVIOUS
<1>2. Cardinality(Mounters) # 0
  BY <1>1, MountersFinite, FS_EmptySet
<1> QED BY <1>2, MountersFinite, FsidType DEF CallsOK

-----------------------------------------------------------------------------
\* A step of task t preserves the types, but for the bounds of work_mtx and of
\* the ids, which the other parts give.

LocType == [d : Descs \cup {NoDesc}, opens : BOOLEAN]
MutexType == [owner : Tasks \cup {NoTask}, depth : 0 .. MaxNest + 1, leaks : 0 .. MaxNest]

LEMMA PcStep ==
  ASSUME TypeOK, NEW t \in Tasks, NEW l \in Labels, Goto(t, l)
  PROVE  /\ pc' \in [Tasks -> Labels]
         /\ pc'[t] = l
         /\ \A u \in Tasks : u # t => pc'[u] = pc[u]
BY DEF TypeOK, Goto

LEMMA FinishStep ==
  ASSUME TypeOK, NEW t \in Tasks, Finish(t)
  PROVE  /\ pc' \in [Tasks -> Labels]
         /\ pc'[t] = "idle"
         /\ \A u \in Tasks : u # t => pc'[u] = pc[u]
         /\ loc' \in [Tasks -> LocType]
         /\ \A u \in Tasks : u # t => loc'[u] = loc[u]
<1>1. Goto(t, "idle") /\ "idle" \in Labels
  BY DEF Finish, Labels
<1>2. loc' \in [Tasks -> LocType] /\ \A u \in Tasks : u # t => loc'[u] = loc[u]
  BY DEF TypeOK, Finish, LocType, Blank
<1> QED BY <1>1, <1>2, PcStep

LEMMA LocStep ==
  ASSUME TypeOK, NEW t \in Tasks, NEW d \in Descs, NEW b \in BOOLEAN,
         loc' = [loc EXCEPT ![t] = [d |-> d, opens |-> b]]
  PROVE  /\ loc' \in [Tasks -> LocType]
         /\ loc'[t].d = d
         /\ \A u \in Tasks : u # t => loc'[u] = loc[u]
BY DEF TypeOK, LocType

\* The labels as far as CallsOK and the types of pc and loc are concerned.
ControlOK ==
  /\ pc \in [Tasks -> Labels]
  /\ loc \in [Tasks -> LocType]
  /\ \A t \in Tasks : pc[t] # "idle" => loc[t].d \in Descs

LEMMA ControlStep ==
  ASSUME IInv, NEW t \in Tasks, Step(t)
  PROVE  ControlOK'
<1> USE DEF IInv, CallsOK
<1>1. ASSUME NEW l \in Labels, Goto(t, l), NEW d \in Descs, NEW b \in BOOLEAN,
             loc' = [loc EXCEPT ![t] = [d |-> d, opens |-> b]]
      PROVE  ControlOK'
  <2>1. /\ pc' \in [Tasks -> Labels]
        /\ \A u \in Tasks : u # t => pc'[u] = pc[u]
    BY <1>1, PcStep
  <2>2. /\ loc' \in [Tasks -> LocType]
        /\ loc'[t].d = d
        /\ \A u \in Tasks : u # t => loc'[u] = loc[u]
    BY <1>1, LocStep
  <2> QED BY <2>1, <2>2 DEF ControlOK
<1>2. ASSUME NEW l \in Labels, Goto(t, l), loc' = loc, pc[t] # "idle"
      PROVE  ControlOK'
  <2>1. loc \in [Tasks -> LocType]
    BY DEF TypeOK, LocType
  <2> QED BY <2>1, <1>2, PcStep DEF ControlOK
<1>3. ASSUME Finish(t)
      PROVE  ControlOK'
  BY <1>3, FinishStep DEF ControlOK
<1>5. CASE FormatCall(t)
  <2>1. Goto(t, "fmtLock") /\ \E d \in Descs : loc' = [loc EXCEPT ![t] = [d |-> d, opens |-> FALSE]]
    BY <1>5 DEF FormatCall
  <2> QED BY <2>1, <1>1 DEF Labels
<1>6. CASE MountCall(t)
  <2>1. Goto(t, "mntInit") /\ \E d \in Descs : loc' = [loc EXCEPT ![t] = [d |-> d, opens |-> FALSE]]
    BY <1>6 DEF MountCall
  <2> QED BY <2>1, <1>1 DEF Labels
<1>7. CASE UmountCall(t)
  <2>1. Goto(t, "umount") /\ \E d \in Descs : loc' = [loc EXCEPT ![t] = [d |-> d, opens |-> FALSE]]
    BY <1>7 DEF UmountCall, TypeOK
  <2> QED BY <2>1, <1>1 DEF Labels
<1>8. CASE PathCall(t)
  <2>1. Goto(t, "lib") /\ \E d \in Descs, b \in BOOLEAN : loc' = [loc EXCEPT ![t] = [d |-> d, opens |-> b]]
    BY <1>8 DEF PathCall, TypeOK
  <2> QED BY <2>1, <1>1 DEF Labels
<1>9. CASE FormatLock(t) \/ MkfsClear(t)
  BY <1>9, <1>2 DEF FormatLock, MkfsClear, Labels
<1>10. CASE FormatInit(t) \/ MountInit(t)
  BY <1>10, <1>2, <1>3 DEF FormatInit, MountInit, Labels
<1>11. CASE MkfsWrite(t) \/ MountRegister(t) \/ Umount(t) \/ LibraryCall(t)
  BY <1>11, <1>3 DEF MkfsWrite, MountRegister, Umount, LibraryCall
<1>12. CASE Close(t)
  BY <1>12 DEF Close, ControlOK, TypeOK, LocType
<1> QED BY <1>5, <1>6, <1>7, <1>8, <1>9, <1>10, <1>11, <1>12 DEF Step

LEMMA RoomStep ==
  ASSUME IInv, NEW t \in Tasks, Step(t)
  PROVE  fsid' \in 0 .. MaxId /\ fsid' + Cardinality(Mounters') <= MaxId
<1> USE DEF IInv
<1>1. fsid \in 0 .. MaxId /\ fs \in FsType /\ drive \in Descs \cup {NoDesc}
  BY DEF TypeOK, FsType
<1>2. CASE FormatCall(t) \/ FormatLock(t) \/ FormatInit(t) \/ MkfsClear(t) \/ MkfsWrite(t)
           \/ UmountCall(t) \/ Umount(t)
  <2>1. fsid' = fsid /\ \E l \in Labels \ {"mntInit", "mntReg", "lib"} : pc' = [pc EXCEPT ![t] = l]
    BY <1>2 DEF FormatCall, FormatLock, FormatInit, MkfsClear, MkfsWrite, UmountCall, Umount,
                Goto, Finish, Labels
  <2> QED BY <1>1, <2>1, RoomKept
<1>3. CASE MountCall(t) \/ PathCall(t)
  <2>1. fsid' = fsid /\ Room /\ \E l \in {"mntInit", "lib"} : pc' = [pc EXCEPT ![t] = l]
    BY <1>3 DEF MountCall, PathCall, Goto
  <2> QED BY <1>1, <2>1, RoomTaken
<1>4. CASE MountInit(t)
  <2>1. fsid' = fsid /\ pc[t] = "mntInit" /\ \E l \in {"idle", "mntReg"} : pc' = [pc EXCEPT ![t] = l]
    BY <1>4 DEF MountInit, Goto, Finish
  <2> QED BY <1>1, <2>1, RoomKept
<1>5. CASE MountRegister(t) \/ LibraryCall(t)
  <2>1. pc[t] \in {"mntReg", "lib"} /\ pc' = [pc EXCEPT ![t] = "idle"] /\ loc[t].d \in Descs
    BY <1>5 DEF MountRegister, LibraryCall, Finish, Goto, CallsOK
  <2>2. fsid \in Nat /\ fsid < MaxId
    BY <2>1, RoomLeft DEF Mounters
  <2>3. fsid' \in 0 .. MaxId /\ fsid' <= fsid + 1
    <3>1. CASE MountRegister(t)
      <4>1. AfterMount(ClearType(Registered \cup {loc[t].d}), loc[t].d)
        BY <3>1 DEF MountRegister
      <4> QED BY <1>1, <2>1, <2>2, <4>1, ClearFacts, MountOK, MountFacts
    <3>2. CASE LibraryCall(t)
      <4>1. fsid' = fsid \/ (drive \in Descs /\ AfterMount(fs, drive))
        BY <1>1, <3>2 DEF LibraryCall
      <4> QED BY <1>1, <2>2, <4>1, MountOK, MountFacts
    <3> QED BY <1>5, <3>1, <3>2
  <2>4. fsid' \in Nat
    BY <2>3, FsidType
  <2> QED BY <2>1, <2>3, <2>4, RoomSpent
<1>6. CASE Close(t)
  <2>1. fsid' = fsid /\ Mounters' = Mounters
    BY <1>6 DEF Close, Mounters
  <2> QED BY <1>1, <2>1 DEF CallsOK
<1> QED BY <1>2, <1>3, <1>4, <1>5, <1>6 DEF Step

-----------------------------------------------------------------------------
\* work_mtx.

\* A step of a task that neither formats nor waits to, and does not start to.
LEMMA WorkQuiet ==
  ASSUME IInv, NEW t \in Tasks, workMtx' = workMtx,
         pc[t] \notin Formatting, pc'[t] \notin Formatting \cup {"fmtLock"},
         \A u \in Tasks : u # t => pc'[u] = pc[u] /\ loc'[u] = loc[u]
  PROVE  WorkOK' /\ workMtx' \in MutexType
<1>1. workMtx' \in MutexType
  BY DEF IInv, TypeOK, MutexType
<1>2. \A u \in Tasks : pc'[u] \in Formatting <=> pc[u] \in Formatting
  OBVIOUS
<1>3. \A u \in Tasks : pc'[u] \in {"fmtLock", "fmtInit"} => u # t
  BY DEF Formatting
<1> QED BY <1>1, <1>2, <1>3 DEF IInv, WorkOK

LEMMA WorkStep ==
  ASSUME IInv, NEW t \in Tasks, Step(t)
  PROVE  WorkOK' /\ workMtx' \in MutexType
<1> USE DEF IInv
<1>1. /\ workMtx \in MutexType
      /\ pc \in [Tasks -> Labels] /\ loc \in [Tasks -> LocType]
      /\ MaxNest \in Nat /\ NoTask \notin Tasks
  BY FatfsVfsConstants DEF TypeOK, MutexType, LocType
<1>2. \A u, w \in Tasks : pc[u] \in Formatting /\ pc[w] \in Formatting => u = w
  BY DEF WorkOK
<1>3. CASE FormatCall(t)
  <2>1. PICK d \in Descs : /\ DiskOf[d] = NoDisk => workMtx.depth < MaxNest
                           /\ loc' = [loc EXCEPT ![t] = [d |-> d, opens |-> FALSE]]
    BY <1>3 DEF FormatCall
  <2>2. pc[t] = "idle" /\ pc' = [pc EXCEPT ![t] = "fmtLock"] /\ workMtx' = workMtx
    BY <1>3 DEF FormatCall, Goto
  <2>3. \A u \in Tasks : pc'[u] \in Formatting <=> pc[u] \in Formatting
    BY <1>1, <2>2 DEF Formatting
  <2>4. workMtx.leaks <= workMtx.depth
    BY <1>1 DEF WorkOK, MutexType
  <2>5. ASSUME NEW u \in Tasks, pc'[u] \in {"fmtLock", "fmtInit"}, DiskOf[loc'[u].d] = NoDisk
        PROVE  MaxNest > 0 /\ (workMtx'.owner = u => workMtx'.leaks < MaxNest)
    <3>1. CASE u = t
      <4>1. loc'[t].d = d
        BY <1>1, <2>1
      <4> QED BY <1>1, <2>1, <2>2, <2>4, <2>5, <3>1, <4>1 DEF MutexType
    <3>2. CASE u # t
      BY <1>1, <2>1, <2>2, <2>5, <3>2 DEF WorkOK
    <3> QED BY <3>1, <3>2
  <2> QED BY <1>1, <2>2, <2>3, <2>5 DEF WorkOK
<1>4. CASE FormatLock(t)
  <2>1. /\ pc[t] = "fmtLock" /\ workMtx.owner \in {NoTask, t}
        /\ workMtx' = [workMtx EXCEPT !.owner = t, !.depth = @ + 1]
        /\ pc' = [pc EXCEPT ![t] = "fmtInit"] /\ loc' = loc
    BY <1>4 DEF FormatLock, Goto
  <2>2. \A u \in Tasks : pc[u] \notin Formatting
    BY <1>1, <2>1 DEF WorkOK, Formatting
  <2>3. workMtx.depth = workMtx.leaks
    BY <2>2 DEF WorkOK
  <2>4. \A u \in Tasks : pc'[u] \in Formatting <=> u = t
    BY <1>1, <2>1, <2>2 DEF Formatting
  <2>5. workMtx'.owner = t /\ workMtx'.leaks = workMtx.leaks /\ workMtx'.depth = workMtx.leaks + 1
    BY <1>1, <2>1, <2>3 DEF MutexType
  <2>6. workMtx' \in MutexType
    <3>1. workMtx.depth + 1 \in 0 .. MaxNest + 1
      BY <1>1, <2>3 DEF MutexType
    <3> QED BY <1>1, <2>1, <3>1 DEF MutexType
  <2>7. ASSUME NEW u \in Tasks, pc'[u] \in {"fmtLock", "fmtInit"}, DiskOf[loc'[u].d] = NoDisk
        PROVE  MaxNest > 0 /\ (workMtx'.owner = u => workMtx'.leaks < MaxNest)
    <3>1. pc[u] \in {"fmtLock", "fmtInit"} /\ DiskOf[loc[u].d] = NoDisk
      BY <1>1, <2>1, <2>7
    <3>2. MaxNest > 0 /\ (workMtx.owner = u => workMtx.leaks < MaxNest)
      BY <3>1 DEF WorkOK
    <3>3. workMtx.owner = NoTask => workMtx.leaks = 0
      BY <2>3 DEF WorkOK
    <3> QED BY <2>1, <2>5, <3>2, <3>3
  <2>8. t # NoTask /\ workMtx'.depth # 0
    BY <1>1, <2>5 DEF MutexType
  <2> QED BY <2>4, <2>5, <2>6, <2>7, <2>8 DEF WorkOK
<1>5. CASE FormatInit(t)
  <2>1. pc[t] = "fmtInit" /\ workMtx.owner = t /\ workMtx.depth = workMtx.leaks + 1
    BY <1>5 DEF FormatInit, WorkOK, Formatting
  <2>2. \A u \in Tasks : u # t => pc[u] \notin Formatting
    BY <1>2, <2>1 DEF Formatting
  <2>3. \A u \in Tasks : u # t => pc'[u] = pc[u] /\ loc'[u] = loc[u]
    BY <1>1, <1>5 DEF FormatInit, Goto, Finish
  <2>4. CASE fatDisk' = NoDisk
    <3>1. workMtx' = [workMtx EXCEPT !.leaks = @ + 1] /\ pc'[t] = "idle"
          /\ DiskOf[loc[t].d] = NoDisk
      BY <1>1, <1>5, <2>4 DEF FormatInit, Finish, Goto
    <3>2. workMtx.leaks < MaxNest
      BY <2>1, <3>1 DEF WorkOK
    <3>3. workMtx' \in MutexType /\ workMtx'.owner = t /\ workMtx'.depth = workMtx'.leaks
          /\ workMtx'.depth # 0
      BY <1>1, <2>1, <3>1, <3>2 DEF MutexType
    <3>4. \A u \in Tasks : pc'[u] \notin Formatting
      BY <2>2, <2>3, <3>1 DEF Formatting
    <3>5. ASSUME NEW u \in Tasks, pc'[u] \in {"fmtLock", "fmtInit"}, DiskOf[loc'[u].d] = NoDisk
          PROVE  MaxNest > 0 /\ u # t
      BY <2>3, <3>1, <3>5 DEF WorkOK
    <3> QED BY <1>1, <3>3, <3>4, <3>5 DEF WorkOK
  <2>5. CASE fatDisk' # NoDisk
    <3>1. workMtx' = workMtx /\ pc'[t] = "mkfs" /\ loc' = loc
      BY <1>1, <1>5, <2>5 DEF FormatInit, Goto
    <3>2. \A u \in Tasks : pc'[u] \in Formatting <=> pc[u] \in Formatting
      BY <2>1, <2>3, <3>1 DEF Formatting
    <3>3. \A u \in Tasks : pc'[u] \in {"fmtLock", "fmtInit"} => pc[u] \in {"fmtLock", "fmtInit"}
      BY <2>3, <3>1
    <3> QED BY <1>1, <3>1, <3>2, <3>3 DEF WorkOK
  <2> QED BY <2>4, <2>5
<1>6. CASE MkfsClear(t)
  <2>1. workMtx' = workMtx /\ loc' = loc /\ pc[t] = "mkfs" /\ pc' = [pc EXCEPT ![t] = "mkfsWrite"]
    BY <1>6 DEF MkfsClear, Goto
  <2>2. \A u \in Tasks : pc'[u] \in Formatting <=> pc[u] \in Formatting
    BY <1>1, <2>1 DEF Formatting
  <2>3. \A u \in Tasks : pc'[u] \in {"fmtLock", "fmtInit"} => pc[u] \in {"fmtLock", "fmtInit"}
    BY <1>1, <2>1
  <2> QED BY <1>1, <2>1, <2>2, <2>3 DEF WorkOK
<1>7. CASE MkfsWrite(t)
  <2>1. pc[t] = "mkfsWrite" /\ workMtx.owner = t /\ workMtx.depth = workMtx.leaks + 1
    BY <1>7 DEF MkfsWrite, WorkOK, Formatting
  <2>2. \A u \in Tasks : u # t => pc[u] \notin Formatting
    BY <1>2, <2>1 DEF Formatting
  <2>3. pc'[t] = "idle" /\ \A u \in Tasks : u # t => pc'[u] = pc[u] /\ loc'[u] = loc[u]
    BY <1>1, <1>7 DEF MkfsWrite, Goto, Finish
  <2>4. \A u \in Tasks : pc'[u] \notin Formatting
    BY <2>2, <2>3 DEF Formatting
  <2>5. workMtx' = [workMtx EXCEPT !.owner = IF workMtx.depth = 1 THEN NoTask ELSE @,
                                   !.depth = @ - 1]
    BY <1>7 DEF MkfsWrite, UnlockWork
  <2>6. /\ workMtx' \in MutexType /\ workMtx'.leaks = workMtx.leaks
        /\ workMtx'.depth = workMtx.leaks
        /\ workMtx'.owner \in {t, NoTask}
        /\ workMtx'.owner = NoTask <=> workMtx.leaks = 0
    <3>1. workMtx.depth - 1 \in 0 .. MaxNest + 1 /\ workMtx.depth - 1 = workMtx.leaks
      BY <1>1, <2>1 DEF MutexType
    <3>2. CASE workMtx.depth = 1
      <4>1. workMtx' = [workMtx EXCEPT !.owner = NoTask, !.depth = @ - 1]
        BY <2>5, <3>2
      <4>2. workMtx' \in MutexType /\ workMtx'.leaks = workMtx.leaks
            /\ workMtx'.depth = workMtx.depth - 1 /\ workMtx'.owner = NoTask
        BY <1>1, <3>1, <4>1 DEF MutexType
      <4> QED BY <2>1, <3>1, <3>2, <4>2
    <3>3. CASE workMtx.depth # 1
      <4>1. workMtx' = [workMtx EXCEPT !.depth = @ - 1]
        BY <1>1, <2>5, <3>3 DEF MutexType
      <4>2. t # NoTask
        BY <1>1
      <4> QED BY <1>1, <2>1, <3>1, <3>3, <4>1, <4>2 DEF MutexType
    <3> QED BY <3>2, <3>3
  <2>7. ASSUME NEW u \in Tasks, pc'[u] \in {"fmtLock", "fmtInit"}, DiskOf[loc'[u].d] = NoDisk
        PROVE  MaxNest > 0 /\ u # t
    BY <2>3, <2>7 DEF WorkOK
  <2> QED BY <1>1, <2>4, <2>6, <2>7 DEF WorkOK
<1>8. CASE MountCall(t) \/ UmountCall(t) \/ PathCall(t)
  <2>1. /\ pc[t] = "idle" /\ pc'[t] \in {"mntInit", "umount", "lib"} /\ workMtx' = workMtx
        /\ \A u \in Tasks : u # t => pc'[u] = pc[u] /\ loc'[u] = loc[u]
    BY <1>1, <1>8 DEF MountCall, UmountCall, PathCall, Goto
  <2> QED BY <2>1, WorkQuiet DEF Formatting
<1>9. CASE MountInit(t) \/ MountRegister(t) \/ Umount(t) \/ LibraryCall(t)
  <2>1. /\ pc[t] \in {"mntInit", "mntReg", "umount", "lib"} /\ pc'[t] \in {"idle", "mntReg"}
        /\ workMtx' = workMtx
        /\ \A u \in Tasks : u # t => pc'[u] = pc[u] /\ loc'[u] = loc[u]
    BY <1>1, <1>9 DEF MountInit, MountRegister, Umount, LibraryCall, Goto, Finish
  <2> QED BY <2>1, WorkQuiet DEF Formatting
<1>10. CASE Close(t)
  <2>1. pc[t] = "idle" /\ pc' = pc /\ loc' = loc /\ workMtx' = workMtx
    BY <1>10 DEF Close
  <2> QED BY <2>1, WorkQuiet DEF Formatting
<1> QED BY <1>3, <1>4, <1>5, <1>6, <1>7, <1>8, <1>9, <1>10 DEF Step

-----------------------------------------------------------------------------
\* Volumes, files and fat_disk.

VolumeTypes == fs \in FsType /\ file \in FileType /\ drive \in Descs \cup {NoDesc}
                 /\ fatDisk \in Disks \cup {NoDisk}

VolumeInv == VolumeTypes /\ VolumesOK /\ WindowOK /\ FileOnHome

LEMMA ObjectFacts ==
  ASSUME file \in FileType, NEW t \in Tasks, file[t] # NoFile
  PROVE  file[t] \in Objects /\ file[t].desc \in Descs /\ file[t].home \in Disks
           /\ file[t].id \in Nat
BY FatfsVfsConstants DEF FileType, Objects

LEMMA VolumeTyped == IInv => VolumeInv
BY DEF IInv, TypeOK, VolumeInv, VolumeTypes, FsType, FileType

\* Only the step that drops the volume takes an f_mkfs halfway.
LEMMA HalfwayStep ==
  ASSUME IInv, NEW t \in Tasks, Step(t), ~MkfsClear(t)
  PROVE  MkfsHalfway' => MkfsHalfway
<1>1. pc' = pc \/ \E l \in Labels \ {"mkfsWrite"} : pc' = [pc EXCEPT ![t] = l]
  BY DEF Step, FormatCall, FormatLock, FormatInit, MkfsWrite, MountCall, MountInit,
         MountRegister, UmountCall, Umount, PathCall, LibraryCall, Close, Goto, Finish, Labels
<1>2. pc \in [Tasks -> Labels]
  BY DEF IInv, TypeOK
<1> QED BY <1>1, <1>2 DEF MkfsHalfway

\* A step that starts no f_mkfs and after which the library accepts no file
\* that it did not accept before with the same fate.
LEMMA FatesKept ==
  ASSUME VolumeInv, MkfsHalfway' => MkfsHalfway,
         \A u \in Tasks : file'[u] # NoFile =>
           /\ file[u] # NoFile
           /\ Valid(file[u])' => Valid(file[u]) /\ file'[u].fate = file[u].fate
  PROVE  StaleFilesRejected' /\ HalfwayOK'
BY DEF VolumeInv, VolumesOK, StaleFilesRejected, HalfwayOK, Opened

\* A step that leaves the volumes and the files alone and does not end the
\* danger of a call in between.
LEMMA VolumesQuiet ==
  ASSUME VolumeInv, UNCHANGED <<fatDisk, drive, fs, fsid, file>>, MkfsHalfway' => MkfsHalfway,
         NEW t \in Tasks, ~Between(t), \A u \in Tasks : u # t => pc'[u] = pc[u]
  PROVE  VolumeInv'
<1>1. VolumeTypes' /\ OneVolume' /\ IdsOK'
  BY DEF VolumeInv, VolumeTypes, VolumesOK, OneVolume, IdsOK
<1>2. \A r : Valid(r)' <=> Valid(r)
  BY DEF Valid
<1>3. StaleFilesRejected' /\ HalfwayOK'
  BY <1>2, FatesKept
<1>4. (\E u \in Tasks : Between(u)) => \E u \in Tasks : Between(u)'
  BY DEF Between
<1>5. WindowOK' /\ FileOnHome'
  BY <1>2, <1>4 DEF VolumeInv, WindowOK, FileOnHome
<1> QED BY <1>1, <1>3, <1>5 DEF VolumeInv, VolumesOK

\* A step after which no volume is mounted, or one that no open file is on.
LEMMA VolumesDropped ==
  ASSUME VolumeInv, VolumeTypes', fsid \in Nat, fsid' \in Nat, fsid <= fsid',
         fatDisk' = fatDisk,
         \A d \in Descs : fs'[d].id <= fsid',
         \A d \in Descs : fs'[d].mounted =>
           d = drive' /\ fs'[d].id > fsid /\ fs'[d].win \subseteq {fatDisk},
         \A t \in Tasks : file'[t] # NoFile =>
           file[t] # NoFile /\ file'[t].id = file[t].id
  PROVE  VolumeInv'
<1>1. \A d \in Descs : fs[d].id \in Nat /\ fs'[d].id \in Nat
  BY FatfsVfsConstants DEF VolumeInv, VolumeTypes, FsType
<1>2. ASSUME NEW t \in Tasks, file'[t] # NoFile
      PROVE  file'[t].id <= fsid /\ file'[t].id \in Nat /\ ~Valid(file[t])'
  <2>1. file[t] # NoFile /\ file'[t].id = file[t].id /\ file[t].id \in Nat
    BY <1>2, ObjectFacts DEF VolumeInv, VolumeTypes
  <2>2. file[t].id <= fsid
    BY <2>1 DEF VolumeInv, VolumesOK, IdsOK
  <2>3. file'[t].desc \in Descs
    <3>1. file'[t] \in Objects
      BY <1>2 DEF VolumeTypes, FileType
    <3> QED BY <3>1 DEF Objects
  <2>4. ~Valid(file[t])'
    BY <2>1, <2>2, <2>3, <1>1 DEF Valid
  <2> QED BY <2>1, <2>2, <2>4
<1>3. OneVolume' /\ IdsOK'
  <2>1. \A t \in Tasks : file'[t] # NoFile => file'[t].id <= fsid'
    BY <1>2
  <2> QED BY <2>1 DEF OneVolume, IdsOK
<1>4. StaleFilesRejected' /\ HalfwayOK' /\ FileOnHome'
  BY <1>2 DEF StaleFilesRejected, HalfwayOK, Opened, FileOnHome
<1>5. WindowOK'
  BY DEF WindowOK
<1> QED BY <1>3, <1>4, <1>5 DEF VolumeInv, VolumesOK

\* With one volume at most, taking the drive away leaves none mounted.
LEMMA NoneMounted ==
  ASSUME VolumeInv, NEW ds
  PROVE  /\ ClearType(Registered \cup ds) \in FsType
         /\ \A d \in Descs : ~ClearType(Registered \cup ds)[d].mounted
                             /\ ClearType(Registered \cup ds)[d].id = fs[d].id
<1>1. \A d \in Descs : fs[d].mounted => d \in Registered
  BY FatfsVfsConstants DEF VolumeInv, VolumesOK, OneVolume, Registered
<1> QED BY <1>1, ClearFacts DEF VolumeInv, VolumeTypes

LEMMA FormatInitStep ==
  ASSUME IInv, NEW t \in Tasks, FormatInit(t)
  PROVE  VolumeInv'
<1>1. VolumeInv /\ loc[t].d \in Descs /\ pc \in [Tasks -> Labels]
  BY VolumeTyped DEF IInv, CallsOK, FormatInit, TypeOK
<1>2. /\ fs' = Sees(fatDisk') /\ fsid' = fsid /\ file' = file /\ drive' = drive
      /\ fatDisk' \in Disks \cup {NoDisk}
  BY <1>1, FatfsVfsConstants DEF FormatInit
<1>3. fs' \in FsType /\ \A d \in Descs : fs'[d].id = fs[d].id /\ fs'[d].mounted = fs[d].mounted
  BY <1>1, <1>2, SeesFacts DEF VolumeInv, VolumeTypes
<1>4. VolumeTypes' /\ OneVolume' /\ IdsOK'
  BY <1>1, <1>2, <1>3 DEF VolumeInv, VolumeTypes, VolumesOK, OneVolume, IdsOK
<1>5. ASSUME NEW u \in Tasks, file[u] # NoFile
      PROVE  Valid(file[u])' <=> Valid(file[u])
  BY <1>1, <1>2, <1>3, <1>5, ObjectFacts DEF VolumeInv, VolumeTypes, Valid
<1>6. StaleFilesRejected' /\ HalfwayOK'
  <2>1. ~MkfsClear(t)
    BY DEF FormatInit, MkfsClear
  <2> QED BY <1>1, <1>2, <1>5, <2>1, HalfwayStep, FatesKept DEF Step
<1>7. fatDisk' = NoDisk \/ Between(t)'
  BY <1>1 DEF FormatInit, Goto, Between
<1>8. WindowOK' /\ FileOnHome'
  BY <1>7 DEF WindowOK, FileOnHome
<1> QED BY <1>4, <1>6, <1>8 DEF VolumeInv, VolumesOK

LEMMA MountInitStep ==
  ASSUME IInv, NEW t \in Tasks, MountInit(t)
  PROVE  VolumeInv'
<1>1. VolumeInv /\ loc[t].d \in Descs /\ pc \in [Tasks -> Labels]
  BY VolumeTyped DEF IInv, CallsOK, MountInit, TypeOK
<1>2. fsid' = fsid /\ drive' = drive /\ fatDisk' \in Disks \cup {NoDisk}
  BY <1>1, FatfsVfsConstants DEF MountInit
<1>5. MkfsHalfway' => MkfsHalfway
  <2>1. ~MkfsClear(t)
    BY DEF MountInit, MkfsClear
  <2> QED BY <2>1, HalfwayStep DEF Step
<1>3. CASE fatDisk' = NoDisk
  <2>1. fs' = fs /\ file' = file
    BY <1>3 DEF MountInit
  <2>2. VolumeTypes' /\ OneVolume' /\ IdsOK'
    BY <1>1, <1>2, <2>1 DEF VolumeInv, VolumeTypes, VolumesOK, OneVolume, IdsOK
  <2>3. \A r : Valid(r)' <=> Valid(r)
    BY <2>1 DEF Valid
  <2>4. StaleFilesRejected' /\ HalfwayOK'
    BY <1>1, <1>5, <2>1, <2>3, FatesKept
  <2>5. WindowOK' /\ FileOnHome'
    BY <1>3 DEF WindowOK, FileOnHome
  <2> QED BY <2>2, <2>4, <2>5 DEF VolumeInv, VolumesOK
<1>4. CASE fatDisk' # NoDisk
  <2>1. /\ fs' = [Sees(fatDisk') EXCEPT ![loc[t].d] = Unmounted]
        /\ Invalidate({loc[t].d}) /\ Between(t)'
    BY <1>1, <1>4 DEF MountInit, Goto, Between
  <2>2. /\ Sees(fatDisk') \in FsType
        /\ \A d \in Descs : /\ Sees(fatDisk')[d].id = fs[d].id
                            /\ Sees(fatDisk')[d].mounted = fs[d].mounted
    BY <1>1, SeesFacts DEF VolumeInv, VolumeTypes
  <2>3. Unmounted \in [mounted : BOOLEAN, id : 0 .. MaxId, win : SUBSET Disks]
    BY FatfsVfsConstants DEF Unmounted
  <2>4. /\ fs' \in FsType
        /\ \A d \in Descs : d # loc[t].d => fs'[d].id = fs[d].id /\ fs'[d].mounted = fs[d].mounted
        /\ ~fs'[loc[t].d].mounted /\ fs'[loc[t].d].id = 0
    BY <1>1, <2>1, <2>2, <2>3 DEF FsType, Unmounted
  <2>5. /\ file' \in FileType
        /\ \A u \in Tasks : file'[u] # NoFile =>
             /\ file[u] # NoFile /\ file'[u].desc = file[u].desc /\ file'[u].id = file[u].id
             /\ file[u].desc # loc[t].d => file'[u] = file[u]
    BY <1>1, <2>1, InvalidateFacts DEF VolumeInv, VolumeTypes
  <2>6. VolumeTypes'
    BY <1>1, <1>2, <2>4, <2>5 DEF VolumeInv, VolumeTypes
  <2>7. OneVolume' /\ IdsOK'
    <3>1. fsid \in Nat
      BY FsidType DEF IInv
    <3> QED BY <1>1, <1>2, <2>4, <2>5, <3>1 DEF VolumeInv, VolumesOK, OneVolume, IdsOK
  <2>8. ASSUME NEW u \in Tasks, file'[u] # NoFile, Valid(file[u])'
        PROVE  Valid(file[u]) /\ file'[u].fate = file[u].fate
    <3>1. file[u] # NoFile /\ file[u].desc \in Descs /\ file'[u].desc = file[u].desc
      BY <1>1, <2>5, <2>8, ObjectFacts DEF VolumeInv, VolumeTypes
    <3>2. file[u].desc # loc[t].d
      BY <2>4, <2>8, <3>1 DEF Valid
    <3> QED BY <2>4, <2>5, <2>8, <3>1, <3>2 DEF Valid
  <2>9. StaleFilesRejected' /\ HalfwayOK'
    BY <1>1, <1>5, <2>5, <2>8, FatesKept
  <2>10. WindowOK' /\ FileOnHome'
    BY <2>1 DEF WindowOK, FileOnHome
  <2> QED BY <2>6, <2>7, <2>9, <2>10 DEF VolumeInv, VolumesOK
<1> QED BY <1>3, <1>4

\* The steps that take the drive away from whichever volume holds it.
LEMMA DropStep ==
  ASSUME IInv, NEW t \in Tasks, MkfsClear(t) \/ MountRegister(t) \/ Umount(t)
  PROVE  VolumeInv'
<1>1. VolumeInv /\ loc[t].d \in Descs /\ fsid \in Nat
  BY VolumeTyped, FsidType DEF IInv, CallsOK, MkfsClear, MountRegister, Umount
<1>2. file \in FileType /\ fs \in FsType /\ fatDisk \in Disks \cup {NoDisk}
      /\ drive \in Descs \cup {NoDesc}
  BY <1>1 DEF VolumeInv, VolumeTypes
<1>3. \A d \in Descs : fs[d].id <= fsid /\ fs[d].id \in Nat
  BY <1>1, <1>2, FatfsVfsConstants DEF VolumeInv, VolumesOK, IdsOK, FsType
<1>4. fatDisk' = fatDisk /\ \E ds : Invalidate(ds)
  BY DEF MkfsClear, MountRegister, Umount
<1>5. /\ file' \in FileType
      /\ \A u \in Tasks : file'[u] # NoFile => file[u] # NoFile /\ file'[u].id = file[u].id
  BY <1>2, <1>4, InvalidateFacts
<1>6. CASE MkfsClear(t)
  <2>1. fs' = ClearType(Registered \cup {}) /\ fsid' = fsid /\ drive' = drive
    BY <1>6 DEF MkfsClear
  <2>2. fs' \in FsType /\ \A d \in Descs : ~fs'[d].mounted /\ fs'[d].id = fs[d].id
    BY <1>1, <2>1, NoneMounted
  <2> QED BY <1>1, <1>2, <1>3, <1>4, <1>5, <2>1, <2>2, VolumesDropped DEF VolumeTypes
<1>7. CASE Umount(t)
  <2> DEFINE f == ClearType(Registered \cup {})
  <2>1. fs' = [f EXCEPT ![loc[t].d] = Unmounted] /\ fsid' = fsid /\ drive' = NoDesc
    BY <1>7 DEF Umount
  <2>2. f \in FsType /\ \A d \in Descs : ~f[d].mounted /\ f[d].id = fs[d].id
    BY <1>1, NoneMounted
  <2>3. Unmounted \in [mounted : BOOLEAN, id : 0 .. MaxId, win : SUBSET Disks]
    BY FatfsVfsConstants DEF Unmounted
  <2> HIDE DEF f
  <2>4. fs' \in FsType /\ \A d \in Descs : ~fs'[d].mounted /\ fs'[d].id \in {fs[d].id, 0}
    BY <1>1, <2>1, <2>2, <2>3 DEF FsType, Unmounted
  <2>5. \A d \in Descs : fs'[d].id <= fsid'
    BY <1>1, <1>3, <2>1, <2>4
  <2> QED BY <1>1, <1>2, <1>4, <1>5, <2>1, <2>4, <2>5, VolumesDropped DEF VolumeTypes
<1>8. CASE MountRegister(t)
  <2> DEFINE f == ClearType(Registered \cup {loc[t].d})
  <2>1. drive' = loc[t].d /\ AfterMount(f, loc[t].d)
    BY <1>8 DEF MountRegister
  <2>2. f \in FsType /\ \A d \in Descs : ~f[d].mounted /\ f[d].id = fs[d].id
    BY <1>1, NoneMounted
  <2> HIDE DEF f
  <2>3. fsid < MaxId
    BY <1>8, RoomLeft DEF IInv, Mounters, MountRegister
  <2>4. MountVolume(f, loc[t].d) = "OK" /\ ~f[loc[t].d].mounted => fatDisk \in Disks
    BY MountOK DEF IInv
  <2>5. /\ fs' \in FsType /\ fsid' \in 0 .. MaxId /\ fsid <= fsid'
        /\ \A e \in Descs : e # loc[t].d => fs'[e] = f[e]
        /\ \/ fs'[loc[t].d] = f[loc[t].d] /\ fsid' = fsid
           \/ fs'[loc[t].d].win = {fatDisk} /\ fs'[loc[t].d].id = fsid + 1 /\ fsid' = fsid + 1
    BY <1>1, <2>1, <2>2, <2>3, <2>4, MountFacts
  <2>6. \A d \in Descs : fs'[d].mounted =>
          d = drive' /\ fs'[d].id > fsid /\ fs'[d].win \subseteq {fatDisk}
    BY <1>1, <2>1, <2>2, <2>5
  <2>7. \A d \in Descs : fs'[d].id <= fsid'
    BY <1>1, <1>3, <2>2, <2>5
  <2>8. fsid' \in Nat /\ VolumeTypes'
    BY <1>1, <1>2, <1>4, <1>5, <2>1, <2>5 DEF VolumeTypes
  <2> QED BY <1>1, <1>4, <1>5, <2>5, <2>6, <2>7, <2>8, VolumesDropped
<1> QED BY <1>6, <1>7, <1>8

\* The library call mounts the registered volume when it is not, and may open
\* a file on it.
LEMMA LibraryCallStep ==
  ASSUME IInv, NEW t \in Tasks, LibraryCall(t)
  PROVE  VolumeInv'
<1>1. VolumeInv /\ loc[t].d \in Descs /\ fsid \in Nat /\ fsid < MaxId
  BY VolumeTyped, RoomLeft DEF IInv, CallsOK, LibraryCall, Mounters
<1>2. file \in FileType /\ fs \in FsType /\ fatDisk \in Disks \cup {NoDisk}
      /\ drive \in Descs \cup {NoDesc} /\ pc \in [Tasks -> Labels]
  BY <1>1 DEF VolumeInv, VolumeTypes, IInv, TypeOK
<1>3. /\ drive' = drive /\ fatDisk' = fatDisk
      /\ ~Between(t) /\ \A u \in Tasks : u # t => pc'[u] = pc[u]
  BY <1>2 DEF LibraryCall, Finish, Goto, Between
<1>4. (\E u \in Tasks : Between(u)) => \E u \in Tasks : Between(u)'
  BY <1>3 DEF Between
<1>a. MkfsHalfway' => MkfsHalfway
  <2>1. ~MkfsClear(t)
    BY DEF LibraryCall, MkfsClear
  <2> QED BY <2>1, HalfwayStep DEF Step
<1>5. CASE drive = NoDesc
  <2>1. fs' = fs /\ fsid' = fsid /\ file' = file
    BY <1>5 DEF LibraryCall
  <2> QED BY <1>1, <1>3, <1>a, <2>1, VolumesQuiet
<1>6. CASE drive \in Descs
  <2>1. AfterMount(fs, drive)
    BY <1>6, FatfsVfsConstants DEF LibraryCall
  <2>2. /\ fs' \in FsType /\ fsid' \in 0 .. MaxId /\ fsid <= fsid'
        /\ \A e \in Descs : e # drive => fs'[e] = fs[e]
        /\ \/ fs'[drive] = fs[drive] /\ fsid' = fsid
           \/ /\ ~fs[drive].mounted /\ fs'[drive].mounted /\ fs'[drive].win = {fatDisk}
              /\ fs'[drive].id = fsid + 1 /\ fsid' = fsid + 1
    <3>1. MountVolume(fs, drive) = "OK" /\ ~fs[drive].mounted => fatDisk \in Disks
      BY MountOK DEF IInv
    <3> QED BY <1>1, <1>2, <1>6, <2>1, <3>1, MountFacts
  <2>3. \A d \in Descs : fs[d].id <= fsid /\ fs[d].id \in Nat /\ fs'[d].id \in Nat
                         /\ fs'[d].win \subseteq Disks
    BY <1>1, <1>2, <2>2, FatfsVfsConstants DEF VolumeInv, VolumesOK, IdsOK, FsType
  <2>4. OneVolume' /\ \A d \in Descs : fs'[d].id <= fsid'
    <3>1. \A d \in Descs : fs'[d].mounted => d = drive
      BY <1>1, <2>2 DEF VolumeInv, VolumesOK, OneVolume
    <3>2. \A d \in Descs : fs'[d].id <= fsid'
      BY <1>1, <2>2, <2>3
    <3> QED BY <1>3, <3>1, <3>2 DEF OneVolume
  <2>5. ASSUME NEW u \in Tasks, file'[u] # NoFile
        PROVE  \/ file'[u] = file[u]
               \/ /\ file'[u] \in Objects /\ file'[u].desc = drive
                  /\ file'[u].fate = IF MkfsHalfway THEN "amid" ELSE "sound"
                  /\ file'[u].id = fs'[drive].id /\ file'[u].home \in fs'[drive].win
                  /\ fs'[drive].mounted
    <3>1. CASE file' = file
      BY <3>1
    <3>2. CASE file' # file
      <4>1. PICK home \in fs'[drive].win :
              file' = [file EXCEPT ![t] = [mp |-> loc[t].d, desc |-> drive, id |-> fs'[drive].id,
                                           home |-> home,
                                           fate |-> IF MkfsHalfway THEN "amid" ELSE "sound"]]
        BY <3>2 DEF LibraryCall
      <4>2. MountVolume(fs, drive) = "OK"
        BY <3>2 DEF LibraryCall
      <4>3. fs'[drive].mounted
        BY <1>2, <1>6, <2>1, <2>2, <4>2 DEF AfterMount, FsType
      <4>4. home \in Disks /\ fs'[drive].id \in 0 .. MaxId
        BY <1>6, <2>2, <2>3, <4>1 DEF FsType
      <4>5. CASE u = t
        <5>1. file'[u] = [mp |-> loc[t].d, desc |-> drive, id |-> fs'[drive].id,
                          home |-> home, fate |-> IF MkfsHalfway THEN "amid" ELSE "sound"]
          BY <1>2, <4>1, <4>5 DEF FileType
        <5> QED BY <1>1, <1>6, <4>1, <4>3, <4>4, <5>1 DEF Objects, Fates
      <4>6. CASE u # t
        BY <1>2, <4>1, <4>6 DEF FileType
      <4> QED BY <4>5, <4>6
    <3> QED BY <3>1, <3>2
  <2>6. VolumeTypes'
    <3>1. file' = [u \in Tasks |-> file'[u]]
      BY <1>2 DEF LibraryCall, FileType
    <3>2. \A u \in Tasks : file'[u] \in {NoFile} \cup Objects
      BY <1>2, <2>5 DEF FileType
    <3>3. file' \in FileType
      BY <3>1, <3>2 DEF FileType
    <3> QED BY <1>2, <1>3, <2>2, <3>3 DEF VolumeTypes
  <2>7. ASSUME NEW u \in Tasks, file'[u] # NoFile
        PROVE  file'[u].id <= fsid'
    <3>1. CASE file'[u] = file[u]
      <4>1. file[u].id \in Nat /\ file[u].id <= fsid
        BY <1>1, <1>2, <2>7, <3>1, ObjectFacts DEF VolumeInv, VolumesOK, IdsOK
      <4> QED BY <1>1, <2>2, <3>1, <4>1
    <3> QED BY <1>6, <2>4, <2>5, <2>7, <3>1
  <2>8. ASSUME NEW u \in Tasks, file'[u] # NoFile, file'[u] = file[u]
        PROVE  Valid(file[u])' <=> Valid(file[u])
    <3>1. file[u].id \in Nat /\ file[u].id <= fsid /\ file[u].desc \in Descs
      BY <1>1, <1>2, <2>8, ObjectFacts DEF VolumeInv, VolumesOK, IdsOK
    <3>2. CASE fs'[file[u].desc] = fs[file[u].desc]
      BY <2>8, <3>2 DEF Valid
    <3>3. CASE fs'[file[u].desc] # fs[file[u].desc]
      <4>1. file[u].desc = drive /\ ~fs[drive].mounted /\ fs'[drive].id = fsid + 1
        BY <2>2, <3>1, <3>3
      <4>2. ~Valid(file[u]) /\ ~Valid(file[u])'
        BY <1>1, <2>8, <3>1, <4>1 DEF Valid
      <4> QED BY <4>2
    <3> QED BY <3>2, <3>3
  <2>9. StaleFilesRejected' /\ HalfwayOK'
    <3>1. ASSUME NEW u \in Tasks, file'[u] # NoFile, Valid(file[u])'
          PROVE  /\ file'[u].fate \notin {"dropped", "formatted"}
                 /\ MkfsHalfway' => file'[u].fate = "amid"
      <4>1. CASE file'[u] = file[u]
        BY <1>1, <1>a, <2>8, <3>1, <4>1
           DEF VolumeInv, VolumesOK, StaleFilesRejected, HalfwayOK, Opened
      <4>2. CASE file'[u] # file[u]
        BY <1>a, <2>5, <3>1, <4>2
      <4> QED BY <4>1, <4>2
    <3> QED BY <3>1 DEF StaleFilesRejected, HalfwayOK, Opened
  <2>10. WindowOK'
    <3>1. ASSUME NEW d \in Descs, fs'[d].mounted
          PROVE  fs'[d].win \subseteq {fatDisk} \/ fatDisk = NoDisk \/ \E u \in Tasks : Between(u)
      <4>1. CASE fs'[d] = fs[d]
        BY <1>1, <3>1, <4>1 DEF VolumeInv, WindowOK
      <4>2. CASE fs'[d] # fs[d]
        BY <2>2, <4>2
      <4> QED BY <4>1, <4>2
    <3> QED BY <1>3, <1>4, <3>1 DEF WindowOK
  <2>11. FileOnHome'
    <3>1. ASSUME NEW u \in Tasks, file'[u] # NoFile, Valid(file[u])',
                 ~ \E w \in Tasks : Between(w)'
          PROVE  fatDisk' \in {file'[u].home, NoDisk}
      <4>1. CASE file'[u] = file[u]
        BY <1>1, <1>3, <1>4, <2>8, <3>1, <4>1 DEF VolumeInv, FileOnHome
      <4>2. CASE file'[u] # file[u]
        <5>1. fs'[drive].mounted /\ file'[u].home \in fs'[drive].win
          BY <2>5, <3>1, <4>2
        <5>2. fs'[drive].win \subseteq {fatDisk'} \/ fatDisk' = NoDisk
          BY <1>3, <1>6, <2>10, <3>1, <5>1 DEF WindowOK
        <5> QED BY <5>1, <5>2
      <4> QED BY <4>1, <4>2
    <3> QED BY <3>1 DEF FileOnHome
  <2> QED BY <2>4, <2>6, <2>7, <2>9, <2>10, <2>11 DEF VolumeInv, VolumesOK, IdsOK
<1> QED BY <1>2, <1>5, <1>6

LEMMA CloseStep ==
  ASSUME IInv, NEW t \in Tasks, Close(t)
  PROVE  VolumeInv'
<1>1. VolumeInv
  BY VolumeTyped
<1>2. UNCHANGED <<fatDisk, drive, fs, fsid, pc>> /\ file' = [file EXCEPT ![t] = NoFile]
  BY DEF Close
<1>3. file' \in FileType
      /\ \A u \in Tasks : file'[u] # NoFile => file'[u] = file[u]
  BY <1>1, <1>2 DEF VolumeInv, VolumeTypes, FileType
<1>4. VolumeTypes' /\ OneVolume' /\ IdsOK'
  BY <1>1, <1>2, <1>3 DEF VolumeInv, VolumeTypes, VolumesOK, OneVolume, IdsOK
<1>5. \A r : Valid(r)' <=> Valid(r)
  BY <1>2 DEF Valid
<1>6. \A u \in Tasks : Between(u)' <=> Between(u)
  BY <1>2 DEF Between
<1>7. WindowOK' /\ FileOnHome'
  BY <1>1, <1>2, <1>3, <1>5, <1>6 DEF VolumeInv, WindowOK, FileOnHome
<1>8. StaleFilesRejected' /\ HalfwayOK'
  <2>1. MkfsHalfway' => MkfsHalfway
    BY <1>2 DEF MkfsHalfway
  <2> QED BY <1>1, <1>3, <1>5, <2>1, FatesKept
<1> QED BY <1>4, <1>7, <1>8 DEF VolumeInv, VolumesOK

\* The write of f_mkfs makes stale only files the library refuses already, or
\* that were opened while it was halfway; no other f_mkfs is.
LEMMA MkfsWriteStep ==
  ASSUME IInv, NEW t \in Tasks, MkfsWrite(t)
  PROVE  VolumeInv'
<1>1. VolumeInv /\ pc \in [Tasks -> Labels]
  BY VolumeTyped DEF IInv, TypeOK
<1>2. UNCHANGED <<fatDisk, drive, fs, fsid>> /\ Reformat(fatDisk)
  BY DEF MkfsWrite
<1>3. /\ pc[t] = "mkfsWrite"
      /\ pc'[t] = "idle"
      /\ \A u \in Tasks : u # t => pc'[u] = pc[u]
  BY <1>1 DEF MkfsWrite, Finish, Goto
<1>4. /\ file' \in FileType
      /\ \A u \in Tasks : file'[u] # NoFile =>
           /\ file[u] # NoFile
           /\ file'[u].desc = file[u].desc
           /\ file'[u].id = file[u].id
           /\ file'[u].home = file[u].home
           /\ file'[u].fate \in {"dropped", "formatted"} =>
                file[u].fate \in {"dropped", "formatted", "sound"}
  BY <1>1, <1>2, ReformatFacts DEF VolumeInv, VolumeTypes
<1>5. ASSUME NEW u \in Tasks, file'[u] # NoFile
      PROVE  Valid(file[u])' <=> Valid(file[u])
  BY <1>2, <1>4, <1>5 DEF Valid
<1>6. VolumeTypes' /\ OneVolume' /\ IdsOK'
  BY <1>1, <1>2, <1>4 DEF VolumeInv, VolumeTypes, VolumesOK, OneVolume, IdsOK
<1>7. StaleFilesRejected'
  <2>1. \A u \in Opened : Valid(file[u]) => file[u].fate = "amid"
    BY <1>1, <1>3 DEF VolumeInv, VolumesOK, HalfwayOK, MkfsHalfway
  <2> QED BY <1>1, <1>4, <1>5, <2>1 DEF StaleFilesRejected, Opened
<1>8. HalfwayOK'
  <2>1. \A u \in Tasks : pc[u] = "mkfsWrite" => u = t
    BY <1>3 DEF IInv, WorkOK, Formatting
  <2> QED BY <1>3, <2>1 DEF HalfwayOK, MkfsHalfway
<1>9. (\E u \in Tasks : Between(u)) => \E u \in Tasks : Between(u)'
  BY <1>3 DEF Between
<1>10. WindowOK' /\ FileOnHome'
  BY <1>1, <1>2, <1>4, <1>5, <1>9 DEF VolumeInv, WindowOK, FileOnHome
<1> QED BY <1>6, <1>7, <1>8, <1>10 DEF VolumeInv, VolumesOK

LEMMA VolumeStep ==
  ASSUME IInv, NEW t \in Tasks, Step(t)
  PROVE  VolumeInv'
<1>1. CASE FormatCall(t) \/ FormatLock(t) \/ MountCall(t) \/ UmountCall(t) \/ PathCall(t)
  <2>1. UNCHANGED <<fatDisk, drive, fs, fsid, file>>
    BY <1>1 DEF FormatCall, FormatLock, MountCall, UmountCall, PathCall
  <2>2. ~Between(t) /\ pc[t] # "mkfs"
    BY <1>1 DEF FormatCall, FormatLock, MountCall, UmountCall, PathCall, Between
  <2>3. \A u \in Tasks : u # t => pc'[u] = pc[u]
    BY <1>1 DEF FormatCall, FormatLock, MountCall, UmountCall, PathCall, Goto, IInv, TypeOK
  <2>4. MkfsHalfway' => MkfsHalfway
    BY <2>2, HalfwayStep DEF MkfsClear
  <2> QED BY <2>1, <2>2, <2>3, <2>4, VolumeTyped, VolumesQuiet
<1> QED BY <1>1, FormatInitStep, MkfsWriteStep, MountInitStep, DropStep, LibraryCallStep,
           CloseStep DEF Step

-----------------------------------------------------------------------------
\* The rest of the types, and the theorem.

LEMMA OtherTypes ==
  ASSUME IInv, NEW t \in Tasks, Step(t)
  PROVE  /\ mountMutex' \in Tasks \cup {NoTask} /\ listed' \subseteq Descs
         /\ path' \in [Descs -> Names \cup {RootPath}] /\ formatted' \subseteq Disks
<1> USE DEF IInv
<1>1. /\ mountMutex \in Tasks \cup {NoTask} /\ listed \subseteq Descs
      /\ path \in [Descs -> Names \cup {RootPath}] /\ formatted \subseteq Disks
  BY DEF TypeOK
<1>2. pc[t] # "idle" => loc[t].d \in Descs
  BY DEF CallsOK
<1>3. CASE FormatCall(t) \/ FormatLock(t) \/ FormatInit(t) \/ MkfsClear(t) \/ LibraryCall(t)
           \/ Close(t)
  BY <1>1, <1>3 DEF FormatCall, FormatLock, FormatInit, MkfsClear, LibraryCall, Close
<1>4. CASE MkfsWrite(t)
  BY <1>1, <1>4 DEF MkfsWrite
<1>5. CASE MountCall(t) \/ UmountCall(t) \/ PathCall(t)
  BY <1>1, <1>5 DEF MountCall, UmountCall, PathCall
<1>6. CASE MountInit(t) \/ MountRegister(t) \/ Umount(t)
  BY <1>1, <1>2, <1>6 DEF MountInit, MountRegister, Umount
<1> QED BY <1>3, <1>4, <1>5, <1>6 DEF Step

LEMMA StepInv ==
  ASSUME IInv, [Next]_vars
  PROVE  IInv'
<1>1. CASE UNCHANGED vars
  <2> USE <1>1 DEF vars
  <2>1. TypeOK' /\ WorkOK'
    BY DEF IInv, TypeOK, WorkOK
  <2>2. CallsOK'
    <3>1. Mounters' = Mounters
      BY DEF Mounters
    <3> QED BY <3>1 DEF IInv, CallsOK
  <2>3. VolumesOK'
    BY DEF IInv, VolumesOK, OneVolume, IdsOK, StaleFilesRejected, HalfwayOK, MkfsHalfway,
           Opened, Valid
  <2>4. WindowOK' /\ FileOnHome'
    BY DEF IInv, WindowOK, FileOnHome, Valid, Between
  <2> QED BY <2>1, <2>2, <2>3, <2>4 DEF IInv
<1>2. ASSUME NEW t \in Tasks, Step(t)
      PROVE  IInv'
  <2>1. VolumeInv'
    BY <1>2, VolumeStep
  <2>2. ControlOK'
    BY <1>2, ControlStep
  <2>3. WorkOK' /\ workMtx' \in MutexType
    BY <1>2, WorkStep
  <2>4. fsid' \in 0 .. MaxId /\ fsid' + Cardinality(Mounters') <= MaxId
    BY <1>2, RoomStep
  <2>5. CallsOK'
    BY <2>2, <2>4 DEF ControlOK, CallsOK
  <2>6. TypeOK'
    BY <1>2, <2>1, <2>2, <2>3, <2>4, OtherTypes
       DEF TypeOK, VolumeInv, VolumeTypes, ControlOK, MutexType, FsType, FileType, LocType
  <2> QED BY <2>1, <2>3, <2>5, <2>6 DEF IInv, VolumeInv
<1> QED BY <1>1, <1>2 DEF Next

LEMMA AdapterInv == Spec => []IInv
BY InitInv, StepInv, PTL DEF Spec

\* Every variable keeps its type; no id passes the bound on mounts, and
\* work_mtx is never nested deeper than the formats that left with it explain.
THEOREM AdapterTyped == Spec => []TypeOK
<1>1. IInv => TypeOK
  BY DEF IInv
<1> QED BY <1>1, AdapterInv, PTL

\* A file whose volume was unmounted, replaced or cleared by f_mkfs is rejected
\* whatever is mounted later: ids are not used twice.  One whose disk f_mkfs
\* wrote since is rejected unless it was opened while an f_mkfs was halfway.
THEOREM StaleStayRejected == Spec => []StaleFilesRejected
<1>1. IInv => StaleFilesRejected
  BY DEF IInv, VolumesOK
<1> QED BY <1>1, AdapterInv, PTL

\* What the library accepts is on the disk it reads, except between the steps
\* of a mount or a format, or after a bad disk number.
THEOREM FilesStayHome == Spec => []FileOnHome
<1>1. IInv => FileOnHome
  BY DEF IInv
<1> QED BY <1>1, AdapterInv, PTL

\* One task at a time is between the lock and the release of work_mtx.
THEOREM OneFormatter == Spec => []WorkExclusive
<1>1. IInv => WorkExclusive
  BY DEF IInv, WorkOK, WorkExclusive, Formatting
<1> QED BY <1>1, AdapterInv, PTL

\* The library never has two volumes mounted.
THEOREM OneMounted == Spec => []OneVolume
<1>1. IInv => OneVolume
  BY DEF IInv, VolumesOK
<1> QED BY <1>1, AdapterInv, PTL
=============================================================================
