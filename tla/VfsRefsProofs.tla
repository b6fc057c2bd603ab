---------------------------- MODULE VfsRefsProofs ----------------------------
(***************************************************************************)
(* With one task, as in app.c, open_files counts the users of each mount,   *)
(* so that vfs_umount never takes a volume away under an open file: for     *)
(* every size of the file table, every number of mounts and streams and     *)
(* every driver that has directory operations.                             *)
(*                                                                         *)
(* The hypotheses are the ones the code needs.  With two tasks the unlocked *)
(* open_files-- loses updates (see the run vfs_race); vfs_opendir keeps its *)
(* reference when the driver has no d_op table; and a counter of 16 bits    *)
(* cannot count more users than it has values.                             *)
(***************************************************************************)
EXTENDS VfsProofs, FiniteSetTheorems

OneTask == \E t : Tasks = {t}

CounterFits ==
  /\ IsFiniteSet(Dirs)
  /\ NFd + Cardinality(Dirs) + 2 < CountMod

\* The hypotheses of the module.
Sequential == OneTask /\ CounterFits /\ HasDirOps = Mounts

-----------------------------------------------------------------------------
LEMMA NoneOrOne == \A n \in Nat : n <= 1 => n = 0 \/ n = 1
OBVIOUS

LEMMA OneOrTwo == \A n \in Nat \ {0} : n <= 2 => n = 1 \/ n = 2
OBVIOUS

\* The users of mount m, by kind: files and streams that are open, and how
\* often the call of a task holds a reference to m.

Files(t, m) == {f \in held[t] : fds[f].mp = m}

Streams(m) == {d \in openDirs : dirs[d].mp = m}

Times(refs, m) == (IF Len(refs) >= 1 /\ refs[1] = m THEN 1 ELSE 0)
                + (IF Len(refs) >= 2 /\ refs[2] = m THEN 1 ELSE 0)

CountedAt(t) == \A m \in Mounts :
  openFiles[m] = Cardinality(Files(t, m)) + Cardinality(Streams(m))
                   + Times(loc[t].refs, m)

\* The mounts a call has still to look up, or has found and not given back.
Pending(l, r) == Len(r.refs) + Len(r.names) + (IF l = "inc" THEN 1 ELSE 0)

\* What the references of a call at label l with locals r are for.
RefStage(l, r) ==
  /\ Pending(l, r) <= 2
  /\ l \in {"find", "inc", "found"} /\ r.op # "rename" => Pending(l, r) = 1
  /\ l \in {"alloc", "init", "open_drv", "opendir_drv"} => Len(r.refs) = 1
  /\ l \in {"idle", "check", "mount_drv", "umount_lock", "umount_drv",
            "format_drv", "file_drv", "dir_drv"} => r.refs = <<>>
  /\ l = "open_drv" => fds[r.fd].mp = Head(r.refs)
  /\ l = "opendir_drv" => dirs[r.dir].mp = Head(r.refs)
  /\ l \in {"find", "inc", "found", "opendir_drv"} /\ r.op = "opendir"
       => r.dir \notin openDirs
  /\ l = "inc" => r.m \in Listed /\ r.tmp = openFiles[r.m]
  /\ l = "dec_store" => r.tmp = openFiles[Head(r.refs)]
  /\ l = "umount_drv" => r.force \/ openFiles[r.m] = 0
  /\ r.force => CanForce

RefInv == \A t \in Tasks : CountedAt(t) /\ RefStage(pc[t], loc[t])

-----------------------------------------------------------------------------
\* Counting.

LEMMA FilesFinite ==
  ASSUME TypeInv, NEW t \in Tasks, NEW m
  PROVE  /\ IsFiniteSet(Files(t, m)) /\ Cardinality(Files(t, m)) \in 0 .. NFd
<1>1. NFd \in Nat
  BY VfsConstants
<1>2. IsFiniteSet(0 .. NFd - 1) /\ Cardinality(0 .. NFd - 1) = NFd
  BY <1>1, FS_Interval
<1>3. Files(t, m) \in SUBSET (0 .. NFd - 1)
  <2>1. held[t] \in SUBSET (0 .. NFd - 1)
    BY DEF TypeInv, DataOK, Fds
  <2> QED BY <2>1 DEF Files
<1>4. IsFiniteSet(Files(t, m)) /\ Cardinality(Files(t, m)) <= NFd
  BY <1>2, <1>3, FS_Subset
<1> QED BY <1>1, <1>4, FS_CardinalityType

LEMMA StreamsFinite ==
  ASSUME TypeInv, CounterFits, NEW m
  PROVE  IsFiniteSet(Streams(m)) /\ Cardinality(Streams(m)) \in 0 .. Cardinality(Dirs)
<1>1. Streams(m) \in SUBSET Dirs
  BY DEF Streams, TypeInv, DataOK
<1>2. IsFiniteSet(Streams(m)) /\ Cardinality(Streams(m)) <= Cardinality(Dirs)
  BY <1>1, FS_Subset DEF CounterFits
<1> QED BY <1>2, FS_CardinalityType DEF CounterFits

LEMMA TimesType ==
  ASSUME NEW refs, NEW m
  PROVE  Times(refs, m) \in 0 .. 2
BY DEF Times

LEMMA TimesOfOne ==
  ASSUME NEW k, NEW m
  PROVE  Times(<<k>>, m) = IF k = m THEN 1 ELSE 0
BY DEF Times

LEMMA TimesOfNone ==
  ASSUME NEW m
  PROVE  Times(<<>>, m) = 0
BY DEF Times

LEMMA TimesAppend ==
  ASSUME NEW refs \in Seq(Mounts), Len(refs) <= 1, NEW k \in Mounts, NEW m
  PROVE  Times(Append(refs, k), m)
           = Times(refs, m) + (IF k = m THEN 1 ELSE 0)
<1>1. CASE Len(refs) = 0
  <2>1. refs = <<>> /\ Append(refs, k) = <<k>>
    BY <1>1
  <2> QED BY <2>1, TimesOfOne, TimesOfNone
<1>2. CASE Len(refs) = 1
  <2>1. /\ Len(Append(refs, k)) = 2 /\ Append(refs, k)[1] = refs[1]
        /\ Append(refs, k)[2] = k
    <3>1. Len(Append(refs, k)) = Len(refs) + 1
      BY AppendProperties, Zenon
    <3>2. \A i \in 1 .. Len(refs) : Append(refs, k)[i] = refs[i]
      BY AppendProperties
    <3>3. Append(refs, k)[Len(refs) + 1] = k
      BY AppendProperties, Zenon
    <3>4. 1 \in 1 .. Len(refs) /\ Len(refs) + 1 = 2
      BY <1>2
    <3> QED BY <3>1, <3>2, <3>3, <3>4
  <2>2. Times(Append(refs, k), m)
          = (IF refs[1] = m THEN 1 ELSE 0) + (IF k = m THEN 1 ELSE 0)
    BY <2>1 DEF Times
  <2>3. Times(refs, m) = IF refs[1] = m THEN 1 ELSE 0
    BY <1>2 DEF Times
  <2> QED BY <2>2, <2>3
<1>3. Len(refs) = 0 \/ Len(refs) = 1
  BY LenProperties, NoneOrOne, Zenon
<1> QED BY <1>1, <1>2, <1>3, Zenon

LEMMA TimesTail ==
  ASSUME NEW refs \in Seq(Mounts), refs # <<>>, Len(refs) <= 2, NEW m
  PROVE  Times(refs, m) = Times(Tail(refs), m) + (IF Head(refs) = m THEN 1 ELSE 0)
<1>1. /\ Len(refs) = 1 \/ Len(refs) = 2
      /\ Head(refs) = refs[1]
      /\ Tail(refs) \in Seq(Mounts) /\ Len(Tail(refs)) = Len(refs) - 1
      /\ \A i \in 1 .. Len(Tail(refs)) : Tail(refs)[i] = refs[i + 1]
  <2>1. Len(refs) \in Nat \ {0}
    BY EmptySeq, Zenon
  <2>2. Len(refs) = 1 \/ Len(refs) = 2
    BY <2>1, OneOrTwo, Zenon
  <2>3. /\ Tail(refs) \in Seq(Mounts) /\ Len(Tail(refs)) = Len(refs) - 1
        /\ \A i \in 1 .. Len(Tail(refs)) : Tail(refs)[i] = refs[i + 1]
    BY HeadTailProperties
  <2>4. Head(refs) = refs[1]
    OBVIOUS
  <2> QED BY <2>2, <2>3, <2>4
<1>2. CASE Len(refs) = 1
  <2> DEFINE rest == Tail(refs)
  <2>1. Times(rest, m) = 0
    <3>1. Len(rest) = 0
      BY <1>1, <1>2
    <3> HIDE DEF rest
    <3> QED BY <3>1 DEF Times
  <2>2. Times(refs, m) = IF refs[1] = m THEN 1 ELSE 0
    BY <1>2 DEF Times
  <2> QED BY <1>1, <2>1, <2>2
<1>3. CASE Len(refs) = 2
  <2> DEFINE rest == Tail(refs)
  <2>1. Len(rest) = 1 /\ rest[1] = refs[2]
    BY <1>1, <1>3
  <2>2. Times(refs, m)
          = (IF refs[1] = m THEN 1 ELSE 0) + (IF refs[2] = m THEN 1 ELSE 0)
    BY <1>3 DEF Times
  <2>3. Times(rest, m) = IF refs[2] = m THEN 1 ELSE 0
    <3> HIDE DEF rest
    <3> QED BY <2>1 DEF Times
  <2> QED BY <1>1, <2>2, <2>3
<1> QED BY <1>1, <1>2, <1>3

\* One more or one less file, or stream, counts once, for its mount.
LEMMA FilesAdded ==
  ASSUME TypeInv, NEW t \in Tasks, NEW fd \in Fds, fd \notin held[t],
         held'[t] = held[t] \cup {fd},
         \A f \in held[t] : fds'[f].mp = fds[f].mp, NEW m
  PROVE  Cardinality(Files(t, m)')
           = Cardinality(Files(t, m)) + (IF fds'[fd].mp = m THEN 1 ELSE 0)
<1>1. fd \notin Files(t, m)
  BY DEF Files
<1>2. CASE fds'[fd].mp = m
  <2>1. Files(t, m)' = Files(t, m) \cup {fd}
    BY <1>2 DEF Files
  <2> QED BY <1>1, <1>2, <2>1, FilesFinite, FS_AddElement
<1>3. CASE fds'[fd].mp # m
  <2>1. Files(t, m)' = Files(t, m)
    BY <1>3 DEF Files
  <2> QED BY <1>3, <2>1, FilesFinite
<1> QED BY <1>2, <1>3

LEMMA FilesRemoved ==
  ASSUME TypeInv, NEW t \in Tasks, NEW fd \in held[t],
         held'[t] = held[t] \ {fd}, UNCHANGED fds, NEW m
  PROVE  Cardinality(Files(t, m)')
           = Cardinality(Files(t, m)) - (IF fds[fd].mp = m THEN 1 ELSE 0)
<1>1. CASE fds[fd].mp = m
  <2>1. Files(t, m)' = Files(t, m) \ {fd} /\ fd \in Files(t, m)
    BY <1>1 DEF Files
  <2>2. Cardinality(Files(t, m)') = Cardinality(Files(t, m)) - 1
    BY <2>1, FilesFinite, FS_RemoveElement
  <2>3. Cardinality(Files(t, m)) \in Int
    BY FilesFinite
  <2> QED BY <1>1, <2>2, <2>3
<1>2. CASE fds[fd].mp # m
  <2>1. Files(t, m)' = Files(t, m)
    BY <1>2 DEF Files
  <2> QED BY <1>2, <2>1, FilesFinite
<1> QED BY <1>1, <1>2

LEMMA StreamsAdded ==
  ASSUME TypeInv, CounterFits, NEW d \in Dirs, d \notin openDirs,
         openDirs' = openDirs \cup {d},
         \A e \in openDirs : dirs'[e].mp = dirs[e].mp, NEW m
  PROVE  Cardinality(Streams(m)')
           = Cardinality(Streams(m)) + (IF dirs'[d].mp = m THEN 1 ELSE 0)
<1>1. d \notin Streams(m)
  BY DEF Streams
<1>2. CASE dirs'[d].mp = m
  <2>1. Streams(m)' = Streams(m) \cup {d}
    BY <1>2 DEF Streams
  <2> QED BY <1>1, <1>2, <2>1, StreamsFinite, FS_AddElement
<1>3. CASE dirs'[d].mp # m
  <2>1. Streams(m)' = Streams(m)
    BY <1>3 DEF Streams
  <2> QED BY <1>3, <2>1, StreamsFinite
<1> QED BY <1>2, <1>3

LEMMA StreamsRemoved ==
  ASSUME TypeInv, CounterFits, NEW d \in openDirs, openDirs' = openDirs \ {d},
         \A e \in openDirs' : dirs'[e].mp = dirs[e].mp, NEW m
  PROVE  Cardinality(Streams(m)')
           = Cardinality(Streams(m)) - (IF dirs[d].mp = m THEN 1 ELSE 0)
<1>1. CASE dirs[d].mp = m
  <2>1. Streams(m)' = Streams(m) \ {d} /\ d \in Streams(m)
    BY <1>1 DEF Streams
  <2>2. Cardinality(Streams(m)') = Cardinality(Streams(m)) - 1
    BY <2>1, StreamsFinite, FS_RemoveElement
  <2>3. Cardinality(Streams(m)) \in Int
    BY StreamsFinite
  <2> QED BY <1>1, <2>2, <2>3
<1>2. CASE dirs[d].mp # m
  <2>1. Streams(m)' = Streams(m)
    BY <1>2 DEF Streams
  <2> QED BY <1>2, <2>1, StreamsFinite
<1> QED BY <1>1, <1>2

-----------------------------------------------------------------------------
\* One task steps: what is to show of it, and of the steps that leave the
\* counts alone.

LEMMA OneStep ==
  ASSUME Sequential, NEW t \in Tasks, CountedAt(t)', RefStage(pc[t], loc[t])'
  PROVE  RefInv'
<1>1. \A u \in Tasks : u = t
  BY DEF Sequential, OneTask
<1> QED BY <1>1 DEF RefInv

LEMMA HereRefs ==
  ASSUME RefInv, NEW t \in Tasks
  PROVE  CountedAt(t) /\ RefStage(pc[t], loc[t])
BY DEF RefInv

\* The step changes no user of a mount, but for the references of the call.
Handles(t) ==
  /\ UNCHANGED <<held, openDirs>>
  /\ \A f \in held[t] : fds'[f].mp = fds[f].mp
  /\ \A d \in openDirs : dirs'[d].mp = dirs[d].mp

LEMMA HandlesCount ==
  ASSUME NEW t \in Tasks, Handles(t), NEW m
  PROVE  Files(t, m)' = Files(t, m) /\ Streams(m)' = Streams(m)
BY DEF Handles, Files, Streams

LEMMA CountKept ==
  ASSUME NEW t \in Tasks, CountedAt(t), Handles(t), UNCHANGED openFiles,
         loc'[t].refs = loc[t].refs
  PROVE  CountedAt(t)'
BY HandlesCount DEF CountedAt

LEMMA NoDirsHandles ==
  ASSUME NEW t \in Tasks, UNCHANGED <<held, fds, dirVars>>
  PROVE  Handles(t)
BY DEF Handles, dirVars

LEMMA PendingInc ==
  ASSUME NEW l, NEW r, Len(r.refs) \in Nat, Len(r.names) \in Nat, l = "inc"
  PROVE  Pending(l, r) = Len(r.refs) + Len(r.names) + 1
BY DEF Pending

LEMMA PendingElse ==
  ASSUME NEW l, NEW r, Len(r.refs) \in Nat, Len(r.names) \in Nat, l # "inc"
  PROVE  Pending(l, r) = Len(r.refs) + Len(r.names)
BY DEF Pending

LEMMA SameSum == \A a, b \in Nat : a + (b - 1) + 1 = a + b /\ (a + 1) + b = a + b + 1
OBVIOUS

LEMMA RoomForOne == \A a, b \in Nat : a + b + 1 <= 2 => a <= 1
OBVIOUS

LEMMA PendingLess ==
  \A a, b \in Nat : \A x \in {a + b + 1, a + b} : x <= 2 => a + b <= 2
OBVIOUS

\* The call ends without references.
LEMMA RefFinish ==
  ASSUME Sequential, TypeInv, RefInv, NEW t \in Tasks, NEW code, Finish(t, code),
         loc[t].refs = <<>>, Handles(t), UNCHANGED openFiles
  PROVE  RefInv'
<1>1. pc'[t] = "idle" /\ loc'[t] = Blank
  BY DEF Finish, Goto, TypeInv, ControlOK
<1>2. Blank.refs = <<>> /\ Blank.names = <<>> /\ ~Blank.force
  BY DEF Blank
<1>3. CountedAt(t)'
  BY <1>1, <1>2, CountKept, HereRefs
<1>4. RefStage(pc[t], loc[t])'
  BY <1>1, <1>2 DEF RefStage, Pending
<1> QED BY <1>3, <1>4, OneStep

\* The call turns to giving its references back.
LEMMA RefRelease ==
  ASSUME Sequential, TypeInv, RefInv, NEW t \in Tasks, NEW code, Release(t, code),
         Handles(t), UNCHANGED openFiles
  PROVE  RefInv'
<1>1. /\ pc'[t] = "dec" /\ loc'[t].refs = loc[t].refs
      /\ loc'[t].names = loc[t].names /\ loc'[t].force = loc[t].force
  BY LocalType DEF Release, Goto, TypeInv, ControlOK, Locals
<1>2. CountedAt(t)'
  BY <1>1, CountKept, HereRefs
<1>3. RefStage(pc[t], loc[t])
  BY HereRefs
<1>4. Len(loc[t].refs) \in Nat /\ Len(loc[t].names) \in Nat
  BY LocalType, LenProperties DEF TypeInv
<1>5. Pending("dec", loc'[t]) <= 2
  <2>1. Pending(pc[t], loc[t]) <= 2
    BY <1>3 DEF RefStage
  <2>2. Len(loc[t].refs) + Len(loc[t].names) <= 2
    <3>1. Pending(pc[t], loc[t]) \in {Len(loc[t].refs) + Len(loc[t].names) + 1,
                                     Len(loc[t].refs) + Len(loc[t].names)}
      BY <1>4, PendingInc, PendingElse, Zenon
    <3> QED BY <1>4, <2>1, <3>1, PendingLess, Zenon
  <2> QED BY <1>1, <1>4, <2>2, PendingElse
<1>6. RefStage(pc[t], loc[t])'
  BY <1>1, <1>3, <1>5 DEF RefStage, Pending
<1> QED BY <1>2, <1>6, OneStep

\* The call goes on with the same locals.
LEMMA RefGoto ==
  ASSUME Sequential, TypeInv, RefInv, NEW t \in Tasks, NEW l, Goto(t, l),
         UNCHANGED <<loc, openFiles>>, Handles(t), RefStage(l, loc[t])'
  PROVE  RefInv'
<1>1. pc'[t] = l /\ loc'[t] = loc[t]
  BY DEF Goto, TypeInv, ControlOK
<1>2. CountedAt(t)'
  BY <1>1, CountKept, HereRefs
<1> QED BY <1>1, <1>2, OneStep

\* The client calls a function that takes no reference yet.
LEMMA RefBegin ==
  ASSUME Sequential, TypeInv, RefInv, NEW t \in Tasks, NEW op, NEW l, NEW args,
         Begin(t, op, l, args), UNCHANGED openFiles, Handles(t),
         l \in {"find", "check", "file_drv", "dir_drv"}, args \in Locals,
         args.refs = <<>>, args.force => CanForce, Len(args.names) <= 2,
         l = "find" /\ op # "rename" => Len(args.names) = 1,
         op = "opendir" => args.dir \notin openDirs
  PROVE  RefInv'
<1> DEFINE r == [args EXCEPT !.op = op]
<1>1. pc[t] = "idle" /\ pc'[t] = l /\ loc'[t] = r
  BY DEF Begin, Goto, TypeInv, ControlOK
<1>2. /\ r.refs = <<>> /\ r.op = op /\ r.names = args.names /\ r.dir = args.dir
      /\ r.force = args.force
  BY DEF Locals
<1> HIDE DEF r
<1>3. loc[t].refs = <<>> /\ CountedAt(t)
  BY <1>1, HereRefs DEF RefStage
<1>4. CountedAt(t)'
  BY <1>1, <1>2, <1>3, CountKept
<1>5. Len(r.refs) = 0 /\ Len(r.names) = Len(args.names) /\ Len(args.names) \in Nat
  <2>1. args.names \in Seq(Names)
    BY DEF Locals
  <2> QED BY <1>2, <2>1, LenProperties, EmptySeq
<1>6. /\ Pending(l, r) <= 2
      /\ l = "find" /\ r.op # "rename" => Pending(l, r) = 1
  <2>1. l # "inc"
    OBVIOUS
  <2>2. Pending(l, r) = Len(r.refs) + Len(r.names)
    <3>1. Len(r.refs) \in Nat /\ Len(r.names) \in Nat
      BY <1>5
    <3> QED BY <2>1, <3>1, PendingElse, Zenon
  <2> QED BY <1>2, <1>5, <2>2
<1>7. openDirs' = openDirs
  BY DEF Handles
<1>8. RefStage(pc[t], loc[t])'
  BY <1>1, <1>2, <1>6, <1>7 DEF RefStage, Pending
<1> QED BY <1>4, <1>8, OneStep

-----------------------------------------------------------------------------
\* The calls that take no reference yet.

LEMMA RefCalls ==
  ASSUME Sequential, TypeInv, FdInv, RefInv, NEW t \in Tasks,
         CallPath(t) \/ CallRename(t) \/ CallOpendir(t) \/ CallMount(t)
           \/ CallFile(t) \/ SeekPos(t) \/ CallReaddir(t)
  PROVE  RefInv'
<1>1. CASE CallPath(t)
  <2>1. PICK op \in {"open"} \cup (PathCalls \ {"rename"}), nm \in Names,
             md \in OpenModes \cup {"r"} :
          Begin(t, op, "find", [Blank EXCEPT !.names = <<nm>>, !.mode = md])
    BY <1>1, Zenon DEF CallPath
  <2> DEFINE args == [Blank EXCEPT !.names = <<nm>>, !.mode = md]
  <2>2. args \in Locals
    <3>1. <<nm>> \in Seq(Names) /\ md \in Modes
      BY VfsConstants DEF Modes
    <3> QED BY <3>1, BlankType DEF Locals
  <2>3. args.refs = <<>> /\ ~args.force /\ Len(args.names) = 1
    BY DEF Blank
  <2>4. op # "opendir" /\ UNCHANGED openFiles /\ Handles(t)
    BY <1>1, NoDirsHandles DEF CallPath, tableVars, PathCalls
  <2>5. Begin(t, op, "find", args) /\ Len(args.names) <= 2
    BY <2>1, <2>3
  <2> HIDE DEF args
  <2> QED BY <2>2, <2>3, <2>4, <2>5, RefBegin, Zenon
<1>2. CASE CallRename(t)
  <2>1. PICK from \in Names, to \in Names :
          Begin(t, "rename", "find", [Blank EXCEPT !.names = <<from, to>>])
    BY <1>2, Zenon DEF CallRename
  <2> DEFINE args == [Blank EXCEPT !.names = <<from, to>>]
  <2>2. args \in Locals
    <3>1. <<from, to>> \in Seq(Names)
      OBVIOUS
    <3> QED BY <3>1, BlankType DEF Locals
  <2>3. args.refs = <<>> /\ ~args.force /\ Len(args.names) = 2
    BY DEF Blank
  <2>4. UNCHANGED openFiles /\ Handles(t)
    BY <1>2, NoDirsHandles DEF CallRename, tableVars
  <2>5. Begin(t, "rename", "find", args) /\ Len(args.names) <= 2
    BY <2>1, <2>3
  <2>6. "rename" # "opendir"
    OBVIOUS
  <2> HIDE DEF args
  <2> QED BY <2>2, <2>3, <2>4, <2>5, <2>6, RefBegin, Zenon
<1>3. CASE CallOpendir(t)
  <2>1. PICK nm \in Names, d \in Dirs \ openDirs :
          Begin(t, "opendir", "find", [Blank EXCEPT !.names = <<nm>>, !.dir = d])
    BY <1>3, Zenon DEF CallOpendir
  <2> DEFINE args == [Blank EXCEPT !.names = <<nm>>, !.dir = d]
  <2>2. args \in Locals
    <3>1. <<nm>> \in Seq(Names)
      OBVIOUS
    <3> QED BY <3>1, BlankType DEF Locals
  <2>3. /\ args.refs = <<>> /\ ~args.force /\ Len(args.names) = 1
        /\ args.dir \notin openDirs
    BY DEF Blank
  <2>4. UNCHANGED openFiles /\ Handles(t)
    BY <1>3, NoDirsHandles DEF CallOpendir, tableVars
  <2>5. Begin(t, "opendir", "find", args) /\ Len(args.names) <= 2
    BY <2>1, <2>3
  <2> HIDE DEF args
  <2> QED BY <2>2, <2>3, <2>4, <2>5, RefBegin, Zenon
<1>4. CASE CallMount(t)
  <2>1. PICK op \in MountCalls, m \in Mounts, force \in BOOLEAN :
          /\ force => op = "umount" /\ CanForce
          /\ Begin(t, op, "check", [Blank EXCEPT !.m = m, !.force = force])
    BY <1>4, Zenon DEF CallMount
  <2> DEFINE args == [Blank EXCEPT !.m = m, !.force = force]
  <2>2. args \in Locals
    BY BlankType DEF Locals
  <2>3. args.refs = <<>> /\ args.force = force /\ Len(args.names) = 0
    BY DEF Blank
  <2>4. op # "opendir" /\ UNCHANGED openFiles /\ Handles(t)
    BY <1>4, NoDirsHandles DEF CallMount, tableVars, MountCalls
  <2>5. /\ Begin(t, op, "check", args) /\ Len(args.names) <= 2
        /\ args.force => CanForce
    BY <2>1, <2>3
  <2>6. "check" # "find"
    OBVIOUS
  <2> HIDE DEF args
  <2> QED BY <2>2, <2>3, <2>4, <2>5, <2>6, RefBegin, Zenon
<1>5. CASE CallFile(t)
  <2>1. PICK op \in FileCalls, fd \in 0 .. NFd :
          \/ Reject(t, op, "EBADF")
          \/ Reject(t, op, "EINVAL")
          \/ Begin(t, op, "file_drv", [Blank EXCEPT !.fd = fd])
    BY <1>5, Zenon DEF CallFile
  <2> DEFINE args == [Blank EXCEPT !.fd = fd]
  <2>2. args \in Locals /\ args.refs = <<>> /\ ~args.force /\ Len(args.names) = 0
    BY BlankType DEF Locals, Blank
  <2>3. op # "opendir" /\ UNCHANGED openFiles /\ Handles(t)
    BY <1>5, NoDirsHandles DEF CallFile, tableVars, FileCalls
  <2>4. pc[t] = "idle" => loc[t].refs = <<>>
    BY HereRefs DEF RefStage
  <2>5. Len(args.names) <= 2 /\ "file_drv" # "find"
    BY <2>2
  <2>6. \/ \E code : Reject(t, op, code)
        \/ Begin(t, op, "file_drv", args)
    BY <2>1, Zenon
  <2> HIDE DEF args
  <2>7. CASE \E code : Reject(t, op, code)
    BY <2>3, <2>4, <2>7, RefFinish DEF Reject
  <2>8. CASE Begin(t, op, "file_drv", args)
    BY <2>2, <2>3, <2>5, <2>8, RefBegin, Zenon
  <2> QED BY <2>6, <2>7, <2>8
<1>6. CASE SeekPos(t)
  <2>1. PICK fd \in Fds :
          /\ pc[t] = "idle" /\ UNCHANGED <<openFiles, held, dirs, openDirs>>
          /\ \E code : Finish(t, code)
          /\ UNCHANGED fds \/ \E pos : fds' = [fds EXCEPT ![fd].pos = pos]
    BY <1>6 DEF SeekPos, Reject, dirVars
  <2>2. Handles(t)
    <3>1. \A f \in Fds : fds'[f].mp = fds[f].mp
      <4>1. fds \in [Fds -> [tcb : Tasks \cup {NoTask}, mp : Mounts \cup {NoMount},
                             mode : Modes, pos : Nat, drv : BOOLEAN]]
        BY DEF TypeInv, DataOK
      <4> QED BY <2>1, <4>1
    <3>2. held[t] \subseteq Fds
      BY DEF TypeInv, DataOK
    <3> QED BY <2>1, <3>1, <3>2 DEF Handles
  <2>3. loc[t].refs = <<>>
    BY <2>1, HereRefs DEF RefStage
  <2> QED BY <2>1, <2>2, <2>3, RefFinish
<1>7. CASE CallReaddir(t)
  <2>1. PICK d \in Dirs :
          \/ Reject(t, "readdir", "EINVAL")
          \/ Begin(t, "readdir", "dir_drv", [Blank EXCEPT !.dir = d])
    BY <1>7, Zenon DEF CallReaddir
  <2> DEFINE args == [Blank EXCEPT !.dir = d]
  <2>2. args \in Locals /\ args.refs = <<>> /\ ~args.force /\ Len(args.names) = 0
    BY BlankType DEF Locals, Blank
  <2>3. UNCHANGED openFiles /\ Handles(t)
    BY <1>7, NoDirsHandles DEF CallReaddir, tableVars
  <2>4. pc[t] = "idle" => loc[t].refs = <<>>
    BY HereRefs DEF RefStage
  <2>5. Len(args.names) <= 2 /\ "dir_drv" # "find" /\ "readdir" # "opendir"
    BY <2>2
  <2>6. \/ \E code : Reject(t, "readdir", code)
        \/ Begin(t, "readdir", "dir_drv", args)
    BY <2>1, Zenon
  <2> HIDE DEF args
  <2>7. CASE \E code : Reject(t, "readdir", code)
    BY <2>3, <2>4, <2>7, RefFinish DEF Reject
  <2>8. CASE Begin(t, "readdir", "dir_drv", args)
    BY <2>2, <2>3, <2>5, <2>8, RefBegin, Zenon
  <2> QED BY <2>6, <2>7, <2>8
<1> QED BY <1>1, <1>2, <1>3, <1>4, <1>5, <1>6, <1>7

\* A close takes over the reference of its file.
LEMMA RefCallClose ==
  ASSUME Sequential, OwnFds, TypeInv, FdInv, RefInv, NEW t \in Tasks, CallClose(t)
  PROVE  RefInv'
<1>1. UNCHANGED <<openFiles, fds, dirs, openDirs>> /\ pc[t] = "idle"
  BY DEF CallClose, dirVars, Reject, Begin
<1>2. loc[t].refs = <<>> /\ CountedAt(t)
  BY <1>1, HereRefs DEF RefStage
<1>3. PICK fd \in 0 .. NFd :
        \/ Reject(t, "close", "EBADF") /\ UNCHANGED held
        \/ /\ Usable(t, fd) /\ FdIsValid(fd)
           /\ Begin(t, "close",
                    IF "close" \in Implements[fds[fd].mp] THEN "close_drv" ELSE "dec",
                    [Blank EXCEPT !.fd = fd, !.refs = <<fds[fd].mp>>, !.res = "ok"])
           /\ held' = [held EXCEPT ![t] = @ \ {fd}]
  BY Zenon DEF CallClose
<1>4. CASE Reject(t, "close", "EBADF") /\ UNCHANGED held
  BY <1>1, <1>2, <1>4, RefFinish, NoDirsHandles DEF Reject, dirVars
<1>5. CASE /\ Usable(t, fd) /\ FdIsValid(fd)
           /\ Begin(t, "close",
                    IF "close" \in Implements[fds[fd].mp] THEN "close_drv" ELSE "dec",
                    [Blank EXCEPT !.fd = fd, !.refs = <<fds[fd].mp>>, !.res = "ok"])
           /\ held' = [held EXCEPT ![t] = @ \ {fd}]
  <2> DEFINE args == [Blank EXCEPT !.fd = fd, !.refs = <<fds[fd].mp>>, !.res = "ok"]
             r == [args EXCEPT !.op = "close"]
  <2>1. fd \in held[t]
    BY <1>1, <1>5, UsableHeld
  <2>2. held'[t] = held[t] \ {fd} /\ fds[fd].mp # NoMount
    BY <1>5 DEF TypeInv, DataOK, FdIsValid
  <2>3. pc'[t] \in {"close_drv", "dec"} /\ loc'[t] = r
    BY <1>5 DEF Begin, Goto, TypeInv, ControlOK
  <2>4. r.refs = <<fds[fd].mp>> /\ r.names = <<>> /\ ~r.force
    BY DEF Blank
  <2> HIDE DEF r
  <2>5. CountedAt(t)'
    <3> SUFFICES ASSUME NEW m \in Mounts
                 PROVE  openFiles'[m] = Cardinality(Files(t, m)')
                          + Cardinality(Streams(m)') + Times(loc'[t].refs, m)
      BY DEF CountedAt
    <3>1. Streams(m)' = Streams(m)
      BY <1>1 DEF Streams
    <3>2. Times(loc'[t].refs, m) = IF fds[fd].mp = m THEN 1 ELSE 0
      BY <2>3, <2>4, TimesOfOne
    <3>3. Cardinality(Files(t, m)')
            = Cardinality(Files(t, m)) - (IF fds[fd].mp = m THEN 1 ELSE 0)
      BY <1>1, <2>1, <2>2, FilesRemoved
    <3>4. openFiles'[m] = Cardinality(Files(t, m)) + Cardinality(Streams(m)) + 0
      BY <1>1, <1>2, TimesOfNone DEF CountedAt
    <3>5. /\ Cardinality(Files(t, m)) \in Int /\ Cardinality(Streams(m)) \in Int
      BY FilesFinite, StreamsFinite DEF Sequential
    <3> QED BY <3>1, <3>2, <3>3, <3>4, <3>5
  <2>6. Pending(pc'[t], loc'[t]) <= 2
    <3>1. Len(r.refs) = 1 /\ Len(r.names) = 0
      BY <2>4
    <3>2. Pending(pc'[t], r) = Len(r.refs) + Len(r.names)
      <4>1. /\ Len(r.refs) \in Nat /\ Len(r.names) \in Nat /\ pc'[t] # "inc"
        BY <2>3, <3>1
      <4> QED BY <4>1, PendingElse, Zenon
    <3> QED BY <2>3, <3>1, <3>2
  <2>7. RefStage(pc[t], loc[t])'
    BY <2>3, <2>4, <2>6 DEF RefStage, Pending
  <2> QED BY <2>5, <2>7, OneStep
<1> QED BY <1>3, <1>4, <1>5

LEMMA RefCallClosedir ==
  ASSUME Sequential, TypeInv, RefInv, NEW t \in Tasks, CallClosedir(t)
  PROVE  RefInv'
<1>1. UNCHANGED <<openFiles, fds, held>> /\ pc[t] = "idle"
  BY DEF CallClosedir, tableVars, Reject, Begin
<1>2. loc[t].refs = <<>> /\ CountedAt(t)
  BY <1>1, HereRefs DEF RefStage
<1>3. PICK d \in Dirs :
        \/ Reject(t, "closedir", "EBADF") /\ UNCHANGED <<dirs, openDirs>>
        \/ /\ d \in openDirs /\ openDirs' = openDirs \ {d}
           /\ Begin(t, "closedir", "closedir_drv",
                    [Blank EXCEPT !.dir = d, !.refs = <<dirs[d].mp>>])
           /\ UNCHANGED dirs
        \/ /\ d \in openDirs /\ openDirs' = openDirs \ {d}
           /\ Begin(t, "closedir", "dec",
                    [Blank EXCEPT !.refs = <<dirs[d].mp>>, !.res = "ok"])
           /\ dirs' = [dirs EXCEPT ![d] = NullDir]
  BY Zenon DEF CallClosedir, dirVars
<1>4. CASE Reject(t, "closedir", "EBADF") /\ UNCHANGED <<dirs, openDirs>>
  BY <1>1, <1>2, <1>4, RefFinish, NoDirsHandles DEF Reject, dirVars
<1>5. ASSUME NEW args, NEW l \in {"closedir_drv", "dec"}, d \in openDirs,
             openDirs' = openDirs \ {d}, Begin(t, "closedir", l, args),
             \A e \in openDirs' : dirs'[e].mp = dirs[e].mp,
             [args EXCEPT !.op = "closedir"].refs = <<dirs[d].mp>>,
             [args EXCEPT !.op = "closedir"].names = <<>>,
             ~[args EXCEPT !.op = "closedir"].force
      PROVE  RefInv'
  <2> DEFINE r == [args EXCEPT !.op = "closedir"]
  <2>1. pc'[t] = l /\ loc'[t] = r
    BY <1>5 DEF Begin, Goto, TypeInv, ControlOK
  <2>2. r.refs = <<dirs[d].mp>> /\ r.names = <<>> /\ ~r.force
    BY <1>5
  <2> HIDE DEF r
  <2>3. CountedAt(t)'
    <3> SUFFICES ASSUME NEW m \in Mounts
                 PROVE  openFiles'[m] = Cardinality(Files(t, m)')
                          + Cardinality(Streams(m)') + Times(loc'[t].refs, m)
      BY DEF CountedAt
    <3>1. Files(t, m)' = Files(t, m)
      BY <1>1 DEF Files
    <3>2. Times(loc'[t].refs, m) = IF dirs[d].mp = m THEN 1 ELSE 0
      BY <2>1, <2>2, TimesOfOne
    <3>3. Cardinality(Streams(m)')
            = Cardinality(Streams(m)) - (IF dirs[d].mp = m THEN 1 ELSE 0)
      BY <1>5, StreamsRemoved DEF Sequential
    <3>4. openFiles'[m] = Cardinality(Files(t, m)) + Cardinality(Streams(m)) + 0
      BY <1>1, <1>2, TimesOfNone DEF CountedAt
    <3>5. Cardinality(Files(t, m)) \in Int /\ Cardinality(Streams(m)) \in Int
      BY FilesFinite, StreamsFinite DEF Sequential
    <3> QED BY <3>1, <3>2, <3>3, <3>4, <3>5
  <2>4. Pending(pc'[t], loc'[t]) <= 2
    <3>1. Len(r.refs) = 1 /\ Len(r.names) = 0
      BY <2>2
    <3>2. Pending(pc'[t], r) = Len(r.refs) + Len(r.names)
      <4>1. /\ Len(r.refs) \in Nat /\ Len(r.names) \in Nat /\ pc'[t] # "inc"
        BY <1>5, <2>1, <3>1
      <4> QED BY <4>1, PendingElse, Zenon
    <3> QED BY <2>1, <3>1, <3>2
  <2>5. RefStage(pc[t], loc[t])'
    BY <1>5, <2>1, <2>2, <2>4 DEF RefStage, Pending
  <2> QED BY <2>3, <2>5, OneStep
<1>6. CASE /\ d \in openDirs /\ openDirs' = openDirs \ {d}
           /\ Begin(t, "closedir", "closedir_drv",
                    [Blank EXCEPT !.dir = d, !.refs = <<dirs[d].mp>>])
           /\ UNCHANGED dirs
  <2> DEFINE args == [Blank EXCEPT !.dir = d, !.refs = <<dirs[d].mp>>]
  <2>1. /\ [args EXCEPT !.op = "closedir"].refs = <<dirs[d].mp>>
        /\ [args EXCEPT !.op = "closedir"].names = <<>>
        /\ ~[args EXCEPT !.op = "closedir"].force
    BY DEF Blank
  <2>2. Begin(t, "closedir", "closedir_drv", args)
    BY <1>6
  <2> HIDE DEF args
  <2>3. \A e \in openDirs' : dirs'[e].mp = dirs[e].mp
    BY <1>6
  <2> QED BY <1>5, <1>6, <2>1, <2>2, <2>3
<1>7. CASE /\ d \in openDirs /\ openDirs' = openDirs \ {d}
           /\ Begin(t, "closedir", "dec",
                    [Blank EXCEPT !.refs = <<dirs[d].mp>>, !.res = "ok"])
           /\ dirs' = [dirs EXCEPT ![d] = NullDir]
  <2> DEFINE args == [Blank EXCEPT !.refs = <<dirs[d].mp>>, !.res = "ok"]
  <2>1. /\ [args EXCEPT !.op = "closedir"].refs = <<dirs[d].mp>>
        /\ [args EXCEPT !.op = "closedir"].names = <<>>
        /\ ~[args EXCEPT !.op = "closedir"].force
    BY DEF Blank
  <2>2. Begin(t, "closedir", "dec", args)
    BY <1>7
  <2> HIDE DEF args
  <2>3. \A e \in openDirs' : dirs'[e].mp = dirs[e].mp
    BY <1>7 DEF TypeInv, DataOK
  <2> QED BY <1>5, <1>7, <2>1, <2>2, <2>3
<1> QED BY <1>3, <1>4, <1>6, <1>7

-----------------------------------------------------------------------------
\* The steps that count: a reference taken in _find_mount, and given back.

LEMMA LocalLens ==
  ASSUME TypeInv, NEW t \in Tasks
  PROVE  Len(loc[t].refs) \in Nat /\ Len(loc[t].names) \in Nat
BY LocalType, LenProperties DEF TypeInv

LEMMA RefFindMount ==
  ASSUME Sequential, TypeInv, RefInv, NEW t \in Tasks, FindMount(t)
  PROVE  RefInv'
<1>1. /\ pc[t] = "find" /\ UNCHANGED <<openFiles, tableVars, mountVars, dirVars>>
      /\ Handles(t)
  BY NoDirsHandles DEF FindMount, tableVars
<1>2. \/ loc[t].refs = <<>> /\ Finish(t, "ENOENT")
      \/ Release(t, "ENOENT")
      \/ \E m : /\ m = Resolve(Head(loc[t].names)) /\ m # NoMount /\ Goto(t, "inc")
                /\ loc' = [loc EXCEPT ![t].m = m, ![t].tmp = openFiles[m],
                                      ![t].names = Tail(@)]
  BY Zenon DEF FindMount
<1>3. ASSUME NEW m, m = Resolve(Head(loc[t].names)), m # NoMount, Goto(t, "inc"),
             loc' = [loc EXCEPT ![t].m = m, ![t].tmp = openFiles[m],
                                ![t].names = Tail(@)]
      PROVE  RefInv'
  <2>1. m \in Listed
    BY <1>3, ResolveType DEF TypeInv
  <2> DEFINE r == [loc[t] EXCEPT !.m = m, !.tmp = openFiles[m],
                                 !.names = Tail(loc[t].names)]
  <2>2. pc'[t] = "inc" /\ loc'[t] = r
    BY <1>3 DEF Goto, TypeInv, ControlOK
  <2>3. /\ r.m = m /\ r.tmp = openFiles[m] /\ r.names = Tail(loc[t].names)
        /\ r.refs = loc[t].refs /\ r.force = loc[t].force /\ r.op = loc[t].op
        /\ r.dir = loc[t].dir
    BY LocalType DEF TypeInv, Locals
  <2> HIDE DEF r
  <2>4. Len(r.names) = Len(loc[t].names) - 1 /\ Len(r.names) \in Nat
    <3>1. loc[t].names # <<>> /\ loc[t].names \in Seq(Names)
      BY <1>1, HereStage, LocalType DEF Stage, TypeInv
    <3>2. /\ Len(Tail(loc[t].names)) = Len(loc[t].names) - 1
          /\ Tail(loc[t].names) \in Seq(Names)
      BY <3>1, HeadTailProperties
    <3> QED BY <2>3, <3>2, LenProperties
  <2>5. Pending("inc", r) = Pending("find", loc[t])
    <3>1. Len(loc[t].refs) \in Nat /\ Len(loc[t].names) \in Nat
      BY LocalLens
    <3>2. Pending("find", loc[t]) = Len(loc[t].refs) + Len(loc[t].names)
      BY <3>1, PendingElse
    <3>3. Pending("inc", r) = Len(r.refs) + Len(r.names) + 1
      BY <2>3, <2>4, <3>1, PendingInc
    <3>4. Pending("inc", r) = Len(loc[t].refs) + (Len(loc[t].names) - 1) + 1
      BY <2>3, <2>4, <3>3, Zenon
    <3> QED BY <3>1, <3>2, <3>4, SameSum, Zenon
  <2>6. CountedAt(t)'
    BY <1>1, <2>2, <2>3, CountKept, HereRefs
  <2>7. RefStage("find", loc[t])
    BY <1>1, HereRefs
  <2>8. Listed' = Listed /\ openDirs' = openDirs
    BY <1>1 DEF Listed, mountVars, dirVars
  <2>9. RefStage(pc[t], loc[t])'
    BY <1>1, <2>1, <2>2, <2>3, <2>5, <2>7, <2>8 DEF RefStage, Pending
  <2> QED BY <2>6, <2>9, OneStep
<1> QED BY <1>1, <1>2, <1>3, RefFinish, RefRelease

LEMMA RefFoundMount ==
  ASSUME Sequential, TypeInv, RefInv, NEW t \in Tasks, FoundMount(t)
  PROVE  RefInv'
<1> DEFINE k == loc[t].m
           r == [loc[t] EXCEPT !.refs = Append(loc[t].refs, k), !.tmp = 0]
<1>1. /\ pc[t] = "inc" /\ UNCHANGED <<tableVars, mountVars, dirVars>> /\ Handles(t)
      /\ openFiles' = [openFiles EXCEPT ![k] = (loc[t].tmp + 1) % CountMod]
  BY NoDirsHandles DEF FoundMount, tableVars
<1>2. pc'[t] = "found" /\ loc'[t] = r
  BY DEF FoundMount, Goto, TypeInv, ControlOK
<1>3. /\ r.refs = Append(loc[t].refs, k) /\ r.names = loc[t].names
      /\ r.force = loc[t].force /\ r.op = loc[t].op /\ r.dir = loc[t].dir
  BY LocalType DEF TypeInv, Locals
<1>4. /\ k \in Mounts /\ loc[t].refs \in Seq(Mounts)
      /\ openFiles \in [Mounts -> 0 .. CountMod - 1]
  BY <1>1, HereStage, LocalType DEF Stage, TypeInv, DataOK
<1>5. RefStage("inc", loc[t]) /\ CountedAt(t)
  BY <1>1, HereRefs
<1>6. loc[t].tmp = openFiles[k]
  BY <1>5 DEF RefStage
<1>7. Len(loc[t].refs) \in Nat /\ Len(loc[t].names) \in Nat
  BY LocalLens
<1>8. Pending("inc", loc[t]) = Len(loc[t].refs) + Len(loc[t].names) + 1
  BY <1>7, PendingInc
<1> HIDE DEF r, k
<1>9. Len(loc[t].refs) <= 1
  <2>1. Pending("inc", loc[t]) <= 2
    BY <1>5 DEF RefStage
  <2> QED BY <1>7, <1>8, <2>1, RoomForOne, Zenon
<1>10. Len(r.refs) = Len(loc[t].refs) + 1
  BY <1>3, <1>4
<1>11. Pending("found", r) = Pending("inc", loc[t])
  <2>1. Len(r.refs) \in Nat /\ Len(r.names) \in Nat
    BY <1>3, <1>7, <1>10
  <2>2. Pending("found", r) = Len(r.refs) + Len(r.names)
    BY <2>1, PendingElse
  <2>3. Pending("found", r) = (Len(loc[t].refs) + 1) + Len(loc[t].names)
    BY <1>3, <1>10, <2>2, Zenon
  <2> QED BY <1>7, <1>8, <2>3, SameSum, Zenon
<1>12. CountedAt(t)'
  <2> SUFFICES ASSUME NEW m \in Mounts
               PROVE  openFiles'[m] = Cardinality(Files(t, m)')
                        + Cardinality(Streams(m)') + Times(loc'[t].refs, m)
    BY DEF CountedAt
  <2>1. Files(t, m)' = Files(t, m) /\ Streams(m)' = Streams(m)
    BY <1>1, HandlesCount
  <2>2. Times(loc'[t].refs, m) = Times(loc[t].refs, m) + (IF k = m THEN 1 ELSE 0)
    BY <1>2, <1>3, <1>4, <1>9, TimesAppend
  <2>3. openFiles[m] = Cardinality(Files(t, m)) + Cardinality(Streams(m))
                         + Times(loc[t].refs, m)
    BY <1>5 DEF CountedAt
  <2>4. /\ Cardinality(Files(t, m)) \in 0 .. NFd
        /\ Cardinality(Streams(m)) \in 0 .. Cardinality(Dirs)
        /\ Times(loc[t].refs, m) \in 0 .. 1
        /\ Cardinality(Dirs) \in Nat /\ NFd \in Nat /\ CountMod \in Nat \ {0}
        /\ NFd + Cardinality(Dirs) + 2 < CountMod
    <3>1. Times(loc[t].refs, m) \in 0 .. 1
      BY <1>7, <1>9 DEF Times
    <3> QED BY <3>1, FilesFinite, StreamsFinite, FS_CardinalityType, VfsConstants
            DEF Sequential, CounterFits
  <2>5. CASE k = m
    <3>1. openFiles'[m] = (openFiles[m] + 1) % CountMod
      BY <1>1, <1>4, <1>6, <2>5
    <3>2. openFiles[m] + 1 \in 0 .. CountMod - 1
      BY <2>3, <2>4
    <3>3. (openFiles[m] + 1) % CountMod = openFiles[m] + 1
      BY <2>4, <3>2
    <3> QED BY <2>1, <2>2, <2>3, <2>4, <2>5, <3>1, <3>3
  <2>6. CASE k # m
    <3>1. openFiles'[m] = openFiles[m]
      BY <1>1, <1>4, <2>6
    <3> QED BY <2>1, <2>2, <2>3, <2>4, <2>6, <3>1
  <2> QED BY <2>5, <2>6
<1>13. openDirs' = openDirs
  BY <1>1 DEF dirVars
<1>14. RefStage(pc[t], loc[t])'
  BY <1>2, <1>3, <1>5, <1>11, <1>13 DEF RefStage, Pending
<1> QED BY <1>12, <1>14, OneStep

LEMMA RefDecLoad ==
  ASSUME Sequential, TypeInv, RefInv, NEW t \in Tasks, DecLoad(t)
  PROVE  RefInv'
<1> DEFINE r == [loc[t] EXCEPT !.tmp = openFiles[Head(loc[t].refs)]]
<1>1. /\ pc[t] = "dec" /\ UNCHANGED <<openFiles, tableVars, dirVars>> /\ Handles(t)
  BY NoDirsHandles DEF DecLoad, tableVars
<1>2. pc'[t] = "dec_store" /\ loc'[t] = r
  BY DEF DecLoad, Goto, TypeInv, ControlOK
<1>3. /\ r.refs = loc[t].refs /\ r.names = loc[t].names /\ r.force = loc[t].force
      /\ r.tmp = openFiles[Head(loc[t].refs)]
  BY LocalType DEF TypeInv, Locals
<1> HIDE DEF r
<1>4. CountedAt(t)'
  BY <1>1, <1>2, <1>3, CountKept, HereRefs
<1>5. RefStage("dec", loc[t])
  BY <1>1, HereRefs
<1>6. RefStage(pc[t], loc[t])'
  BY <1>1, <1>2, <1>3, <1>5 DEF RefStage, Pending
<1> QED BY <1>4, <1>6, OneStep

LEMMA RefDecStore ==
  ASSUME Sequential, TypeInv, RefInv, NEW t \in Tasks, DecStore(t)
  PROVE  RefInv'
<1> DEFINE k == Head(loc[t].refs)
           r == [loc[t] EXCEPT !.refs = Tail(loc[t].refs), !.tmp = 0]
<1>1. /\ pc[t] = "dec_store" /\ UNCHANGED <<tableVars, dirVars>> /\ Handles(t)
      /\ openFiles' = [openFiles EXCEPT ![k] = (loc[t].tmp - 1) % CountMod]
  BY NoDirsHandles DEF DecStore, tableVars
<1>2. pc'[t] = "dec" /\ loc'[t] = r
  BY DEF DecStore, Goto, TypeInv, ControlOK
<1>3. r.refs = Tail(loc[t].refs) /\ r.names = loc[t].names /\ r.force = loc[t].force
  BY LocalType DEF TypeInv, Locals
<1>4. RefStage("dec_store", loc[t]) /\ CountedAt(t)
  BY <1>1, HereRefs
<1>5. loc[t].tmp = openFiles[k]
  BY <1>4 DEF RefStage
<1>6. loc[t].refs \in Seq(Mounts) /\ loc[t].refs # <<>>
  BY <1>1, HereStage, LocalType DEF Stage, TypeInv
<1>7. k \in Mounts /\ Len(Tail(loc[t].refs)) = Len(loc[t].refs) - 1
  BY <1>6, HeadTailProperties
<1>8. Len(loc[t].refs) \in Nat \ {0} /\ Len(loc[t].names) \in Nat
  BY <1>6, EmptySeq, LocalLens, Zenon
<1>9. Len(loc[t].refs) + Len(loc[t].names) <= 2
  <2>1. Pending("dec_store", loc[t]) = Len(loc[t].refs) + Len(loc[t].names)
    BY <1>8, PendingElse
  <2> QED BY <1>4, <2>1 DEF RefStage
<1> HIDE DEF r
<1>10. Pending("dec", r) <= 2 /\ Len(loc[t].refs) <= 2
  <2>1. \A a \in Nat \ {0}, b \in Nat :
          a + b <= 2 => a <= 2 /\ a - 1 \in Nat /\ (a - 1) + b <= 2
    OBVIOUS
  <2>2. Len(r.refs) = Len(loc[t].refs) - 1 /\ Len(r.names) = Len(loc[t].names)
    BY <1>3, <1>7
  <2>3. Len(r.refs) \in Nat /\ Len(r.names) \in Nat
    BY <1>8, <1>9, <2>1, <2>2, Zenon
  <2>4. Pending("dec", r) = Len(r.refs) + Len(r.names)
    BY <2>3, PendingElse
  <2>5. Pending("dec", r) = (Len(loc[t].refs) - 1) + Len(loc[t].names)
    BY <2>2, <2>4, Zenon
  <2>6. /\ Len(loc[t].refs) <= 2
        /\ (Len(loc[t].refs) - 1) + Len(loc[t].names) <= 2
    BY <1>8, <1>9, <2>1, Zenon
  <2> QED BY <2>5, <2>6
<1>11. CountedAt(t)'
  <2> SUFFICES ASSUME NEW m \in Mounts
               PROVE  openFiles'[m] = Cardinality(Files(t, m)')
                        + Cardinality(Streams(m)') + Times(loc'[t].refs, m)
    BY DEF CountedAt
  <2> HIDE DEF k
  <2>1. Files(t, m)' = Files(t, m) /\ Streams(m)' = Streams(m)
    BY <1>1, HandlesCount
  <2>2. Times(loc[t].refs, m) = Times(loc'[t].refs, m) + (IF k = m THEN 1 ELSE 0)
    BY <1>2, <1>3, <1>6, <1>10, TimesTail DEF k
  <2>3. openFiles[m] = Cardinality(Files(t, m)) + Cardinality(Streams(m))
                         + Times(loc[t].refs, m)
    BY <1>4 DEF CountedAt
  <2>4. /\ Cardinality(Files(t, m)) \in Nat /\ Cardinality(Streams(m)) \in Nat
        /\ Times(loc'[t].refs, m) \in Nat
    <3>1. Cardinality(Files(t, m)) \in 0 .. NFd /\ NFd \in Nat
      BY FilesFinite, VfsConstants
    <3>2. /\ Cardinality(Streams(m)) \in 0 .. Cardinality(Dirs)
          /\ Cardinality(Dirs) \in Nat
      BY StreamsFinite, FS_CardinalityType DEF Sequential, CounterFits
    <3>3. Times(loc'[t].refs, m) \in 0 .. 2
      BY TimesType
    <3> QED BY <3>1, <3>2, <3>3
  <2>5. openFiles \in [Mounts -> 0 .. CountMod - 1] /\ CountMod \in Nat \ {0}
    BY VfsConstants DEF TypeInv, DataOK
  <2>6. CASE k = m
    <3>1. openFiles'[m] = (openFiles[m] - 1) % CountMod
      BY <1>1, <1>5, <2>5, <2>6 DEF k
    <3>2. openFiles[m] - 1 \in 0 .. CountMod - 1
      <4>1. openFiles[m] >= 1 /\ openFiles[m] \in 0 .. CountMod - 1
        BY <2>2, <2>3, <2>4, <2>5, <2>6
      <4> QED BY <2>5, <4>1
    <3>3. (openFiles[m] - 1) % CountMod = openFiles[m] - 1
      BY <2>5, <3>2
    <3> QED BY <2>1, <2>2, <2>3, <2>4, <2>6, <3>1, <3>3
  <2>7. CASE k # m
    <3>1. openFiles'[m] = openFiles[m]
      BY <1>1, <2>5, <2>7 DEF k
    <3> QED BY <2>1, <2>2, <2>3, <2>4, <2>7, <3>1
  <2> QED BY <2>6, <2>7
<1>12. RefStage(pc[t], loc[t])'
  BY <1>2, <1>3, <1>4, <1>10 DEF RefStage, Pending
<1> QED BY <1>11, <1>12, OneStep

LEMMA RefReturn ==
  ASSUME Sequential, TypeInv, RefInv, NEW t \in Tasks, Return(t)
  PROVE  RefInv'
<1>1. /\ loc[t].refs = <<>> /\ ClearSlot(loc[t].fd) /\ Finish(t, loc[t].res)
      /\ UNCHANGED <<openFiles, held, dirs, openDirs>>
  BY DEF Return, dirVars
<1>2. \A f \in Fds : fds'[f].mp = fds[f].mp
  <2>1. UNCHANGED fds \/ fds' = [fds EXCEPT ![loc[t].fd].tcb = NoTask]
    BY <1>1 DEF ClearSlot
  <2> QED BY <2>1 DEF TypeInv, DataOK
<1>3. held[t] \subseteq Fds
  BY DEF TypeInv, DataOK
<1>4. Handles(t)
  BY <1>1, <1>2, <1>3 DEF Handles
<1> QED BY <1>1, <1>4, RefFinish

-----------------------------------------------------------------------------
\* vfs_open: the reference of the call becomes that of the file.

LEMMA OneRef ==
  ASSUME TypeInv, NEW t \in Tasks, Len(loc[t].refs) = 1
  PROVE  loc[t].refs = <<Head(loc[t].refs)>>
<1>1. loc[t].refs \in Seq(Mounts)
  BY LocalType DEF TypeInv
<1> QED BY <1>1

LEMMA RefGrant ==
  ASSUME Sequential, TypeInv, RefInv, NEW t \in Tasks, NEW fd \in Fds,
         fd \notin held[t], GrantFd(t, fd), Len(loc[t].refs) = 1,
         fds'[fd].mp = Head(loc[t].refs),
         \A f \in held[t] : fds'[f].mp = fds[f].mp,
         UNCHANGED <<openFiles, dirVars>>
  PROVE  RefInv'
<1> DEFINE k == Head(loc[t].refs)
<1>1. pc'[t] = "idle" /\ loc'[t] = Blank /\ held'[t] = held[t] \cup {fd}
  BY DEF GrantFd, Finish, Goto, TypeInv, ControlOK, DataOK
<1>2. Blank.refs = <<>> /\ Blank.names = <<>> /\ ~Blank.force
  BY DEF Blank
<1>3. loc[t].refs = <<k>> /\ CountedAt(t)
  BY OneRef, HereRefs
<1> HIDE DEF k
<1>4. CountedAt(t)'
  <2> SUFFICES ASSUME NEW m \in Mounts
               PROVE  openFiles'[m] = Cardinality(Files(t, m)')
                        + Cardinality(Streams(m)') + Times(loc'[t].refs, m)
    BY DEF CountedAt
  <2>1. Streams(m)' = Streams(m) /\ openFiles' = openFiles
    BY DEF Streams, dirVars
  <2>2. Times(loc[t].refs, m) = IF k = m THEN 1 ELSE 0
    BY <1>3, TimesOfOne
  <2>3. Times(loc'[t].refs, m) = 0
    BY <1>1, <1>2, TimesOfNone
  <2>4. Cardinality(Files(t, m)') = Cardinality(Files(t, m)) + (IF k = m THEN 1 ELSE 0)
    BY <1>1, FilesAdded DEF k
  <2>5. openFiles[m] = Cardinality(Files(t, m)) + Cardinality(Streams(m))
                         + Times(loc[t].refs, m)
    BY <1>3 DEF CountedAt
  <2>6. Cardinality(Files(t, m)) \in Int /\ Cardinality(Streams(m)) \in Int
    BY FilesFinite, StreamsFinite DEF Sequential
  <2> QED BY <2>1, <2>2, <2>3, <2>4, <2>5, <2>6
<1>5. RefStage(pc[t], loc[t])'
  BY <1>1, <1>2 DEF RefStage, Pending
<1> QED BY <1>4, <1>5, OneStep

LEMMA RefOpenLock ==
  ASSUME Sequential, TypeInv, RefInv, NEW t \in Tasks, OpenLock(t)
  PROVE  RefInv'
<1> DEFINE r == [loc[t] EXCEPT !.fd = 0]
<1>1. /\ pc[t] = "found" /\ loc[t].op = "open" /\ Handles(t) /\ UNCHANGED openFiles
  BY NoDirsHandles DEF OpenLock
<1>2. pc'[t] = "alloc" /\ loc'[t] = r
  BY DEF OpenLock, Goto, TypeInv, ControlOK
<1>3. r.refs = loc[t].refs /\ r.names = loc[t].names /\ r.force = loc[t].force
  BY LocalType DEF TypeInv, Locals
<1> HIDE DEF r
<1>4. CountedAt(t)'
  BY <1>1, <1>2, <1>3, CountKept, HereRefs
<1>5. RefStage("found", loc[t]) /\ Pending("found", loc[t]) = 1
  <2>1. RefStage("found", loc[t])
    BY <1>1, HereRefs
  <2> QED BY <1>1, <2>1 DEF RefStage
<1>6. Len(loc[t].refs) = 1 /\ Len(loc[t].names) = 0
  <2>1. \A a \in Nat \ {0}, b \in Nat : a + b = 1 => a = 1 /\ b = 0
    OBVIOUS
  <2>2. Len(loc[t].refs) \in Nat \ {0} /\ Len(loc[t].names) \in Nat
    <3>1. loc[t].refs \in Seq(Mounts) /\ loc[t].refs # <<>>
      BY <1>1, HereStage, LocalType DEF Stage, TypeInv
    <3> QED BY <3>1, EmptySeq, LocalLens, Zenon
  <2>3. Pending("found", loc[t]) = Len(loc[t].refs) + Len(loc[t].names)
    BY <2>2, PendingElse
  <2> QED BY <1>5, <2>1, <2>2, <2>3, Zenon
<1>7. Pending("alloc", r) = 1
  <2>1. Len(r.refs) = 1 /\ Len(r.names) = 0
    BY <1>3, <1>6
  <2>2. Len(r.refs) \in Nat /\ Len(r.names) \in Nat /\ "alloc" # "inc"
    BY <2>1
  <2>3. Pending("alloc", r) = Len(r.refs) + Len(r.names)
    BY <2>2, PendingElse, Zenon
  <2> QED BY <2>1, <2>3
<1>8. RefStage(pc[t], loc[t])'
  BY <1>2, <1>3, <1>5, <1>6, <1>7 DEF RefStage, Pending
<1> QED BY <1>4, <1>8, OneStep

LEMMA RefAllocateFd ==
  ASSUME Sequential, TypeInv, RefInv, NEW t \in Tasks, AllocateFd(t)
  PROVE  RefInv'
<1>1. pc[t] = "alloc" /\ Handles(t) /\ UNCHANGED openFiles
  BY NoDirsHandles DEF AllocateFd
<1>2. \/ Release(t, "ENFILE")
      \/ UNCHANGED pc /\ loc' = [loc EXCEPT ![t].fd = loc[t].fd + 1]
      \/ Goto(t, "init") /\ UNCHANGED loc
  BY Zenon DEF AllocateFd
<1>3. RefStage("alloc", loc[t])
  BY <1>1, HereRefs
<1>4. CASE UNCHANGED pc /\ loc' = [loc EXCEPT ![t].fd = loc[t].fd + 1]
  <2> DEFINE r == [loc[t] EXCEPT !.fd = loc[t].fd + 1]
  <2>1. pc'[t] = "alloc" /\ loc'[t] = r
    BY <1>1, <1>4 DEF TypeInv, ControlOK
  <2>2. r.refs = loc[t].refs /\ r.names = loc[t].names /\ r.force = loc[t].force
    BY LocalType DEF TypeInv, Locals
  <2> HIDE DEF r
  <2>3. CountedAt(t)'
    BY <1>1, <2>1, <2>2, CountKept, HereRefs
  <2>4. RefStage(pc[t], loc[t])'
    BY <1>3, <2>1, <2>2 DEF RefStage, Pending
  <2> QED BY <2>3, <2>4, OneStep
<1>5. CASE Goto(t, "init") /\ UNCHANGED loc
  <2>1. RefStage("init", loc[t])'
    BY <1>3, <1>5 DEF RefStage, Pending
  <2> QED BY <1>1, <1>5, <2>1, RefGoto
<1> QED BY <1>1, <1>2, <1>4, <1>5, RefRelease

LEMMA RefInitFd ==
  ASSUME Sequential, TypeInv, FdInv, RefInv, NEW t \in Tasks, InitFd(t)
  PROVE  RefInv'
<1> DEFINE fd == loc[t].fd
           k == Head(loc[t].refs)
           slot == [fds[fd] EXCEPT !.tcb = t, !.mp = k, !.mode = loc[t].mode,
                                   !.pos = 0, !.drv = "open" \notin Implements[k]]
<1>1. pc[t] = "init" /\ UNCHANGED <<openFiles, dirs, openDirs, dirVars>>
  BY DEF InitFd, dirVars
<1>2. /\ fds' = [fds EXCEPT ![fd] = slot]
      /\ \/ Goto(t, "open_drv") /\ UNCHANGED <<loc, ret, held>>
         \/ GrantFd(t, fd)
  BY Zenon DEF InitFd
<1>3. fd \in Fds /\ fds[fd].tcb = NoTask
  BY <1>1, HereStage, HereFd DEF Stage, FdStage
<1>4. slot.mp = k
  BY <1>3 DEF TypeInv, DataOK
<1>5. RefStage("init", loc[t])
  BY <1>1, HereRefs
<1> HIDE DEF fd, slot
<1>6. fds'[fd].mp = k /\ \A f \in Fds : f # fd => fds'[f] = fds[f]
  <2>1. fds'[fd] = slot /\ \A f \in Fds : f # fd => fds'[f] = fds[f]
    BY <1>2, <1>3 DEF TypeInv, DataOK
  <2> QED BY <1>4, <2>1
<1>7. fd \notin held[t] /\ held[t] \subseteq Fds
  BY <1>3, VfsConstants DEF FdInv, Owned, Claimed, TypeInv, DataOK
<1>8. \A f \in held[t] : fds'[f].mp = fds[f].mp
  BY <1>6, <1>7
<1>9. CASE Goto(t, "open_drv") /\ UNCHANGED <<loc, ret, held>>
  <2>1. Handles(t)
    BY <1>1, <1>8, <1>9 DEF Handles
  <2>2. RefStage("open_drv", loc[t])'
    BY <1>5, <1>6, <1>9 DEF RefStage, Pending, fd
  <2> QED BY <1>1, <1>9, <2>1, <2>2, RefGoto
<1>10. CASE GrantFd(t, fd)
  <2>1. Len(loc[t].refs) = 1
    BY <1>5 DEF RefStage
  <2> QED BY <1>1, <1>3, <1>6, <1>7, <1>8, <1>10, <2>1, RefGrant
<1> QED BY <1>2, <1>9, <1>10

\* The slot the task works on is none that it holds.
LEMMA OwnSlot ==
  ASSUME TypeInv, FdInv, NEW t \in Tasks, pc[t] \in {"open_drv", "close_drv"},
         NEW b, fds' = [fds EXCEPT ![loc[t].fd].drv = b]
  PROVE  \A f \in Fds : fds'[f].mp = fds[f].mp
BY DEF TypeInv, DataOK

LEMMA RefOpenDriver ==
  ASSUME Sequential, TypeInv, FdInv, RefInv, NEW t \in Tasks, OpenDriver(t)
  PROVE  RefInv'
<1> DEFINE fd == loc[t].fd
<1>1. pc[t] = "open_drv" /\ UNCHANGED <<openFiles, dirVars>>
  BY DEF OpenDriver
<1>2. \/ fds' = [fds EXCEPT ![fd].drv = TRUE] /\ GrantFd(t, fd)
      \/ Release(t, "EIO") /\ UNCHANGED <<fds, held>>
  BY DEF OpenDriver
<1>3. CASE fds' = [fds EXCEPT ![fd].drv = TRUE] /\ GrantFd(t, fd)
  <2>1. fd \in Fds /\ fd \in Working(t)
    BY <1>1, HereStage DEF Stage, Working
  <2>2. fd \notin held[t] /\ held[t] \subseteq Fds
    BY <2>1 DEF FdInv, Apart, TypeInv, DataOK
  <2>3. \A f \in Fds : fds'[f].mp = fds[f].mp
    BY <1>1, <1>3, OwnSlot
  <2>4. RefStage("open_drv", loc[t])
    BY <1>1, HereRefs
  <2>5. fds[fd].mp = Head(loc[t].refs) /\ Len(loc[t].refs) = 1
    BY <2>4 DEF RefStage
  <2> HIDE DEF fd
  <2>6. fds'[fd].mp = Head(loc[t].refs) /\ \A f \in held[t] : fds'[f].mp = fds[f].mp
    BY <2>1, <2>2, <2>3, <2>5
  <2> QED BY <1>1, <1>3, <2>1, <2>2, <2>5, <2>6, RefGrant
<1>4. CASE Release(t, "EIO") /\ UNCHANGED <<fds, held>>
  BY <1>1, <1>4, NoDirsHandles, RefRelease
<1> QED BY <1>2, <1>3, <1>4

\* The steps of drivers that end a call or turn it to its references.
LEMMA RefDrivers ==
  ASSUME Sequential, TypeInv, FdInv, RefInv, NEW t \in Tasks,
         CloseDriver(t) \/ FileDriver(t) \/ ReaddirDriver(t) \/ PathDriver(t)
           \/ ClosedirDriver(t)
  PROVE  RefInv'
<1>1. CASE CloseDriver(t)
  <2>1. /\ pc[t] = "close_drv" /\ UNCHANGED <<openFiles, held, dirs, openDirs>>
        /\ fds' = [fds EXCEPT ![loc[t].fd].drv = FALSE]
        /\ \E code : Release(t, code)
    BY <1>1 DEF CloseDriver, dirVars
  <2>2. \A f \in Fds : fds'[f].mp = fds[f].mp
    BY <2>1, OwnSlot
  <2>3. held[t] \subseteq Fds
    BY DEF TypeInv, DataOK
  <2>4. Handles(t)
    BY <2>1, <2>2, <2>3 DEF Handles
  <2> QED BY <2>1, <2>4, RefRelease
<1>2. CASE FileDriver(t) \/ ReaddirDriver(t)
  <2>1. /\ pc[t] \in {"file_drv", "dir_drv"} /\ UNCHANGED openFiles
        /\ UNCHANGED <<fds, held, dirVars>> /\ \E code : Finish(t, code)
    BY <1>2 DEF FileDriver, ReaddirDriver, tableVars
  <2>2. loc[t].refs = <<>>
    BY <2>1, HereRefs DEF RefStage
  <2> QED BY <2>1, <2>2, NoDirsHandles, RefFinish
<1>3. CASE PathDriver(t)
  <2>1. /\ UNCHANGED openFiles /\ UNCHANGED <<fds, held, dirVars>>
        /\ \E code : Release(t, code)
    BY <1>3 DEF PathDriver, tableVars
  <2> QED BY <2>1, NoDirsHandles, RefRelease
<1>4. CASE ClosedirDriver(t)
  <2>1. /\ pc[t] = "closedir_drv" /\ UNCHANGED <<openFiles, fds, held, openDirs>>
        /\ dirs' = [dirs EXCEPT ![loc[t].dir] = NullDir]
        /\ \E code : Release(t, code)
    BY <1>4 DEF ClosedirDriver, tableVars
  <2>2. loc[t].dir \notin openDirs
    BY <2>1 DEF TypeInv, DirOK
  <2>3. \A d \in openDirs : dirs'[d] = dirs[d]
    BY <2>1, <2>2 DEF TypeInv, DataOK
  <2>4. Handles(t)
    BY <2>1, <2>3 DEF Handles
  <2> QED BY <2>1, <2>4, RefRelease
<1> QED BY <1>1, <1>2, <1>3, <1>4

LEMMA RefPathCall ==
  ASSUME Sequential, TypeInv, RefInv, NEW t \in Tasks, PathCall(t)
  PROVE  RefInv'
<1>1. /\ pc[t] = "found" /\ UNCHANGED <<openFiles, dirVars>> /\ Handles(t)
      /\ loc[t].op \in PathCalls
  BY NoDirsHandles DEF PathCall, tableVars
<1>2. \/ \E code : Release(t, code)
      \/ \E l \in {"find", "path_drv"} : Goto(t, l) /\ UNCHANGED loc
  BY Zenon DEF PathCall
<1>3. ASSUME NEW l \in {"find", "path_drv"}, Goto(t, l), UNCHANGED loc
      PROVE  RefInv'
  <2>1. RefStage("found", loc[t]) /\ loc[t].op # "opendir"
    BY <1>1, HereRefs DEF PathCalls
  <2>2. Pending(l, loc[t]) = Pending("found", loc[t])
    <3>1. Len(loc[t].refs) \in Nat /\ Len(loc[t].names) \in Nat
      BY LocalLens
    <3> QED BY <1>3, <3>1, PendingElse
  <2>3. RefStage(l, loc[t])'
    BY <1>3, <2>1, <2>2 DEF RefStage, Pending
  <2> QED BY <1>1, <1>3, <2>3, RefGoto
<1> QED BY <1>1, <1>2, <1>3, RefRelease

-----------------------------------------------------------------------------
\* vfs_opendir: the reference of the call becomes that of the stream.

LEMMA RefStream ==
  ASSUME Sequential, TypeInv, RefInv, NEW t \in Tasks, NEW d \in Dirs,
         d \notin openDirs, openDirs' = openDirs \cup {d}, Finish(t, "ok"),
         Len(loc[t].refs) = 1, dirs'[d].mp = Head(loc[t].refs),
         \A e \in openDirs : dirs'[e].mp = dirs[e].mp,
         UNCHANGED <<openFiles, fds, held>>
  PROVE  RefInv'
<1> DEFINE k == Head(loc[t].refs)
<1>1. pc'[t] = "idle" /\ loc'[t] = Blank
  BY DEF Finish, Goto, TypeInv, ControlOK
<1>2. Blank.refs = <<>> /\ Blank.names = <<>> /\ ~Blank.force
  BY DEF Blank
<1>3. loc[t].refs = <<k>> /\ CountedAt(t)
  BY OneRef, HereRefs
<1> HIDE DEF k
<1>4. CountedAt(t)'
  <2> SUFFICES ASSUME NEW m \in Mounts
               PROVE  openFiles'[m] = Cardinality(Files(t, m)')
                        + Cardinality(Streams(m)') + Times(loc'[t].refs, m)
    BY DEF CountedAt
  <2>1. Files(t, m)' = Files(t, m) /\ openFiles' = openFiles
    BY DEF Files
  <2>2. Times(loc[t].refs, m) = IF k = m THEN 1 ELSE 0
    BY <1>3, TimesOfOne
  <2>3. Times(loc'[t].refs, m) = 0
    BY <1>1, <1>2, TimesOfNone
  <2>4. Cardinality(Streams(m)') = Cardinality(Streams(m)) + (IF k = m THEN 1 ELSE 0)
    BY StreamsAdded DEF k, Sequential
  <2>5. openFiles[m] = Cardinality(Files(t, m)) + Cardinality(Streams(m))
                         + Times(loc[t].refs, m)
    BY <1>3 DEF CountedAt
  <2>6. Cardinality(Files(t, m)) \in Int /\ Cardinality(Streams(m)) \in Int
    BY FilesFinite, StreamsFinite DEF Sequential
  <2> QED BY <2>1, <2>2, <2>3, <2>4, <2>5, <2>6
<1>5. RefStage(pc[t], loc[t])'
  BY <1>1, <1>2 DEF RefStage, Pending
<1> QED BY <1>4, <1>5, OneStep

LEMMA RefOpendirInit ==
  ASSUME Sequential, TypeInv, RefInv, NEW t \in Tasks, OpendirInit(t)
  PROVE  RefInv'
<1> DEFINE m == Head(loc[t].refs)
           d == loc[t].dir
<1>1. /\ pc[t] = "found" /\ loc[t].op = "opendir" /\ UNCHANGED <<openFiles, fds, held>>
  BY DEF OpendirInit, tableVars
<1>2. RefStage("found", loc[t])
  BY <1>1, HereRefs
<1>3. /\ d \in Dirs /\ d \notin openDirs /\ loc[t].refs # <<>>
      /\ Pending("found", loc[t]) = 1
  BY <1>1, <1>2, HereStage DEF Stage, TypeInv, RefStage
<1>4. loc[t].refs \in Seq(Mounts) /\ m \in Mounts
  <2>1. loc[t].refs \in Seq(Mounts)
    BY LocalType DEF TypeInv
  <2> QED BY <1>3, <2>1
<1>5. Len(loc[t].refs) = 1
  <2>1. \A a \in Nat \ {0}, b \in Nat : a + b = 1 => a = 1 /\ b = 0
    OBVIOUS
  <2>2. Len(loc[t].refs) \in Nat \ {0} /\ Len(loc[t].names) \in Nat
    BY <1>3, <1>4, EmptySeq, LocalLens, Zenon
  <2>3. Pending("found", loc[t]) = Len(loc[t].refs) + Len(loc[t].names)
    BY <2>2, PendingElse
  <2> QED BY <1>3, <2>1, <2>2, <2>3, Zenon
<1>6. \E b \in BOOLEAN : /\ dirs' = [dirs EXCEPT ![d] = [mp |-> m, drv |-> b]]
                         /\ \/ Goto(t, "opendir_drv") /\ UNCHANGED <<loc, openDirs>>
                            \/ openDirs' = openDirs \cup {d} /\ Finish(t, "ok")
  BY <1>4 DEF OpendirInit, Sequential
<1> HIDE DEF d, m
<1>7. dirs'[d].mp = m /\ \A e \in openDirs : dirs'[e].mp = dirs[e].mp
  BY <1>3, <1>6 DEF TypeInv, DataOK
<1>8. CASE Goto(t, "opendir_drv") /\ UNCHANGED <<loc, openDirs>>
  <2>1. Handles(t)
    BY <1>1, <1>7, <1>8 DEF Handles
  <2>2. Pending("opendir_drv", loc[t]) = Pending("found", loc[t])
    BY LocalLens, PendingElse
  <2>3. RefStage("opendir_drv", loc[t])'
    BY <1>2, <1>3, <1>5, <1>7, <1>8, <2>2 DEF RefStage, Pending, d, m
  <2> QED BY <1>1, <1>8, <2>1, <2>3, RefGoto
<1>9. CASE openDirs' = openDirs \cup {d} /\ Finish(t, "ok")
  BY <1>1, <1>3, <1>5, <1>7, <1>9, RefStream DEF m
<1> QED BY <1>6, <1>8, <1>9

LEMMA RefOpendirDriver ==
  ASSUME Sequential, TypeInv, RefInv, NEW t \in Tasks, OpendirDriver(t)
  PROVE  RefInv'
<1> DEFINE d == loc[t].dir
<1>1. pc[t] = "opendir_drv" /\ UNCHANGED <<openFiles, fds, held>>
  BY DEF OpendirDriver, tableVars
<1>2. \/ /\ dirs' = [dirs EXCEPT ![d].drv = TRUE]
         /\ openDirs' = openDirs \cup {d} /\ Finish(t, "ok")
      \/ Release(t, "EIO") /\ UNCHANGED dirVars
  BY DEF OpendirDriver
<1>3. CASE /\ dirs' = [dirs EXCEPT ![d].drv = TRUE]
           /\ openDirs' = openDirs \cup {d} /\ Finish(t, "ok")
  <2>1. /\ RefStage("opendir_drv", loc[t]) /\ loc[t].op = "opendir"
        /\ d \in Dirs
    BY <1>1, HereRefs, HereStage DEF Stage, TypeInv
  <2>2. /\ d \notin openDirs /\ Len(loc[t].refs) = 1
        /\ dirs[d].mp = Head(loc[t].refs)
    BY <2>1 DEF RefStage
  <2> HIDE DEF d
  <2>3. \A e \in Dirs : dirs'[e].mp = dirs[e].mp
    BY <1>3 DEF TypeInv, DataOK
  <2>4. /\ dirs'[d].mp = Head(loc[t].refs)
        /\ \A e \in openDirs : dirs'[e].mp = dirs[e].mp
    BY <2>1, <2>2, <2>3 DEF TypeInv, DataOK
  <2> QED BY <1>1, <1>3, <2>1, <2>2, <2>4, RefStream
<1>4. CASE Release(t, "EIO") /\ UNCHANGED dirVars
  BY <1>1, <1>4, NoDirsHandles, RefRelease
<1> QED BY <1>2, <1>3, <1>4

-----------------------------------------------------------------------------
\* The calls on mounts take no reference.

LEMMA RefMountCalls ==
  ASSUME Sequential, TypeInv, RefInv, NEW t \in Tasks,
         CheckMount(t) \/ UmountLock(t) \/ MountDriver(t) \/ UmountDriver(t)
           \/ FormatDriver(t)
  PROVE  RefInv'
<1>1. /\ pc[t] \in {"check", "umount_lock", "mount_drv", "umount_drv", "format_drv"}
      /\ UNCHANGED <<openFiles, fds, held, dirVars>> /\ Handles(t)
      /\ \/ \E code : Finish(t, code)
         \/ /\ \E l \in {"umount_lock", "mount_drv", "format_drv"} : Goto(t, l)
            /\ UNCHANGED loc
         \/ /\ Goto(t, "umount_drv") /\ UNCHANGED loc
            /\ MayUmount(loc[t].m, loc[t].force)
  <2>1. CASE CheckMount(t)
    BY <2>1, NoDirsHandles, Zenon DEF CheckMount, tableVars
  <2>2. CASE UmountLock(t)
    BY <2>2, NoDirsHandles DEF UmountLock, tableVars
  <2>3. CASE MountDriver(t)
    BY <2>3, NoDirsHandles DEF MountDriver, tableVars
  <2>4. CASE UmountDriver(t)
    BY <2>4, NoDirsHandles DEF UmountDriver, tableVars
  <2>5. CASE FormatDriver(t)
    BY <2>5, NoDirsHandles DEF FormatDriver, tableVars
  <2> QED BY <2>1, <2>2, <2>3, <2>4, <2>5
<1>2. RefStage(pc[t], loc[t])
  BY HereRefs
<1>3. loc[t].refs = <<>>
  BY <1>1, <1>2 DEF RefStage
<1>4. ASSUME NEW l \in {"umount_lock", "mount_drv", "format_drv", "umount_drv"},
             Goto(t, l), UNCHANGED loc,
             l = "umount_drv" => MayUmount(loc[t].m, loc[t].force)
      PROVE  RefInv'
  <2>1. Pending(l, loc[t]) = Pending(pc[t], loc[t])
    BY <1>1, <1>4, LocalLens, PendingElse
  <2>2. RefStage(l, loc[t])'
    BY <1>1, <1>2, <1>3, <1>4, <2>1 DEF RefStage, Pending, MayUmount
  <2> QED BY <1>1, <1>4, <2>2, RefGoto
<1> QED BY <1>1, <1>3, <1>4, RefFinish

-----------------------------------------------------------------------------
LEMMA RefStep ==
  ASSUME Sequential
  PROVE  TypeInv /\ FdInv /\ RefInv /\ [Next]_vars => RefInv'
<1> SUFFICES ASSUME TypeInv, FdInv, RefInv, [Next]_vars PROVE RefInv'
  OBVIOUS
<1>1. OwnFds
  BY DEF OwnFds, Sequential, OneTask
<1>2. ASSUME NEW t \in Tasks, Call(t) PROVE RefInv'
  BY <1>1, <1>2, RefCalls, RefCallClose, RefCallClosedir, Zenon DEF Call
<1>3. ASSUME NEW t \in Tasks, Acquire(t) PROVE RefInv'
  BY <1>3, RefFindMount, RefOpenLock, RefMountCalls, Zenon DEF Acquire
<1>4. ASSUME NEW t \in Tasks, Run(t) PROVE RefInv'
  BY <1>4, RefFoundMount, RefDecLoad, RefDecStore, RefReturn, RefAllocateFd,
     RefInitFd, RefOpenDriver, RefDrivers, RefPathCall, RefOpendirInit,
     RefOpendirDriver, RefMountCalls, Zenon DEF Run
<1>5. ASSUME UNCHANGED vars PROVE RefInv'
  <2>1. ASSUME NEW t \in Tasks PROVE CountedAt(t)'
    <3>1. CountedAt(t)
      BY HereRefs
    <3> QED BY <1>5, <3>1 DEF vars, CountedAt, Files, Streams
  <2>2. ASSUME NEW t \in Tasks PROVE RefStage(pc[t], loc[t])'
    <3>1. RefStage(pc[t], loc[t])
      BY HereRefs
    <3> QED BY <1>5, <3>1 DEF vars, RefStage, Pending, Listed
  <2> QED BY <2>1, <2>2 DEF RefInv
<1> QED BY <1>2, <1>3, <1>4, <1>5 DEF Next

LEMMA RefInit == Init => RefInv
<1> SUFFICES ASSUME Init, NEW t \in Tasks
             PROVE  CountedAt(t) /\ RefStage(pc[t], loc[t])
  BY DEF RefInv
<1>1. pc[t] = "idle" /\ loc[t] = Blank
  BY DEF Init
<1>2. Blank.refs = <<>> /\ Blank.names = <<>> /\ ~Blank.force
  BY DEF Blank
<1>3. CountedAt(t)
  <2>1. \A m \in Mounts : /\ Files(t, m) = {} /\ Streams(m) = {}
                          /\ openFiles[m] = 0
    BY DEF Init, Files, Streams
  <2>2. Cardinality({}) = 0 /\ \A m : Times(loc[t].refs, m) = 0
    BY <1>1, <1>2, TimesOfNone, FS_EmptySet
  <2> QED BY <2>1, <2>2 DEF CountedAt
<1>4. RefStage(pc[t], loc[t])
  BY <1>1, <1>2 DEF RefStage, Pending
<1> QED BY <1>3, <1>4

LEMMA RefAlways ==
  ASSUME Sequential
  PROVE  Spec => [](TypeInv /\ FdInv /\ ListInv /\ RefInv)
<1>1. OwnFds /\ FormatAlone
  BY DEF OwnFds, FormatAlone, Sequential, OneTask
<1>2. Init => TypeInv /\ MutexInv /\ ListInv /\ RefInv
  BY TypeInit, MutexInit, ListInit, RefInit
<1>3. TypeInv /\ MutexInv /\ ListInv /\ [Next]_vars => ListInv'
  BY <1>1, ListStep
<1>4. TypeInv /\ FdInv /\ RefInv /\ [Next]_vars => RefInv'
  BY RefStep
<1>5. Spec => [](TypeInv /\ MutexInv /\ FdInv)
  BY <1>1, FdAlways
<1> QED BY <1>2, <1>3, <1>4, <1>5, PTL DEF Spec

-----------------------------------------------------------------------------
\* The users of a mount, told apart as VfsProperties does, are as many.

LEMMA Disjoint ==
  ASSUME NEW S, NEW T, IsFiniteSet(S), IsFiniteSet(T), S \cap T = {}
  PROVE  /\ IsFiniteSet(S \cup T)
         /\ Cardinality(S \cup T) = Cardinality(S) + Cardinality(T)
<1>1. Cardinality(S \cap T) = 0
  BY FS_EmptySet
<1>2. Cardinality(S) \in Nat /\ Cardinality(T) \in Nat
  BY FS_CardinalityType
<1>3. /\ IsFiniteSet(S \cup T)
      /\ Cardinality(S \cup T)
           = Cardinality(S) + Cardinality(T) - Cardinality(S \cap T)
  BY FS_Union, Zenon
<1> QED BY <1>1, <1>2, <1>3

LEMMA FileUsersCount ==
  ASSUME TypeInv, NEW t, Tasks = {t}, NEW m
  PROVE  IsFiniteSet(FileUsers(m)) /\ Cardinality(FileUsers(m)) = Cardinality(Files(t, m))
<1> DEFINE g == [f \in Files(t, m) |-> <<"file", t, f>>]
<1>1. Files(t, m) \subseteq Fds
  BY DEF Files, TypeInv, DataOK
<1>2. FileUsers(m) = {<<"file", t, f>> : f \in Files(t, m)}
  BY <1>1 DEF FileUsers, Files
<1>3. g \in Bijection(Files(t, m), FileUsers(m))
  BY <1>2 DEF Bijection, Injection, Surjection, IsInjective
<1>4. ExistsBijection(Files(t, m), FileUsers(m))
  BY <1>3, Zenon DEF ExistsBijection
<1>5. IsFiniteSet(Files(t, m))
  BY FilesFinite
<1> QED BY <1>4, <1>5, FS_Bijection, Zenon

LEMMA DirUsersCount ==
  ASSUME TypeInv, CounterFits, NEW t, Tasks = {t}, NEW m
  PROVE  IsFiniteSet(DirUsers(m)) /\ Cardinality(DirUsers(m)) = Cardinality(Streams(m))
<1> DEFINE g == [d \in Streams(m) |-> <<"dir", t, d>>]
<1>1. Streams(m) \subseteq Dirs /\ \A d \in Dirs : DirOwner[d] = t
  BY VfsConstants DEF Streams, TypeInv, DataOK
<1>2. DirUsers(m) = {<<"dir", t, d>> : d \in Streams(m)}
  BY <1>1 DEF DirUsers, Streams
<1>3. g \in Bijection(Streams(m), DirUsers(m))
  BY <1>2 DEF Bijection, Injection, Surjection, IsInjective
<1>4. ExistsBijection(Streams(m), DirUsers(m))
  BY <1>3, Zenon DEF ExistsBijection
<1>5. IsFiniteSet(Streams(m))
  BY StreamsFinite
<1> QED BY <1>4, <1>5, FS_Bijection, Zenon

LEMMA CallUsersCount ==
  ASSUME TypeInv, NEW t, Tasks = {t}, NEW m
  PROVE  /\ IsFiniteSet(CallUsers(m))
         /\ Cardinality(CallUsers(m)) = Times(loc[t].refs, m)
<1> DEFINE refs == loc[t].refs
           A == IF Len(refs) >= 1 /\ refs[1] = m THEN {<<"call", t, 1>>} ELSE {}
           B == IF Len(refs) >= 2 /\ refs[2] = m THEN {<<"call", t, 2>>} ELSE {}
<1>1. Len(refs) \in Nat /\ DOMAIN refs = 1 .. Len(refs)
  <2>1. refs \in Seq(Mounts)
    BY LocalType DEF TypeInv
  <2> QED BY <2>1
<1>2. CallUsers(m) = A \cup B
  <2>1. CallUsers(m) = {u \in {"call"} \X {t} \X {1, 2} :
                          u[3] \in DOMAIN refs /\ refs[u[3]] = m}
    BY DEF CallUsers
  <2> HIDE DEF refs
  <2>2. 1 \in DOMAIN refs <=> Len(refs) >= 1
    BY <1>1
  <2>3. 2 \in DOMAIN refs <=> Len(refs) >= 2
    BY <1>1
  <2> QED BY <2>1, <2>2, <2>3
<1>3. IsFiniteSet(A) /\ Cardinality(A) = IF Len(refs) >= 1 /\ refs[1] = m THEN 1 ELSE 0
  BY FS_Singleton, FS_EmptySet
<1>4. IsFiniteSet(B) /\ Cardinality(B) = IF Len(refs) >= 2 /\ refs[2] = m THEN 1 ELSE 0
  BY FS_Singleton, FS_EmptySet
<1>5. A \cap B = {}
  OBVIOUS
<1> HIDE DEF A, B
<1>6. IsFiniteSet(A \cup B) /\ Cardinality(A \cup B) = Cardinality(A) + Cardinality(B)
  BY <1>3, <1>4, <1>5, Disjoint
<1> QED BY <1>2, <1>3, <1>4, <1>6 DEF Times

LEMMA UsersCount ==
  ASSUME TypeInv, CounterFits, NEW t, Tasks = {t}, NEW m
  PROVE  Cardinality(Users(m)) = Cardinality(Files(t, m)) + Cardinality(Streams(m))
                                   + Times(loc[t].refs, m)
<1> DEFINE F == FileUsers(m)
           D == DirUsers(m)
           C == CallUsers(m)
<1>1. F \cap D = {} /\ (F \cup D) \cap C = {}
  BY DEF FileUsers, DirUsers, CallUsers
<1>2. IsFiniteSet(F) /\ IsFiniteSet(D) /\ IsFiniteSet(C)
  BY FileUsersCount, DirUsersCount, CallUsersCount
<1>3. Users(m) = (F \cup D) \cup C
  BY DEF Users
<1> HIDE DEF F, D, C
<1>4. IsFiniteSet(F \cup D) /\ Cardinality(F \cup D) = Cardinality(F) + Cardinality(D)
  BY <1>1, <1>2, Disjoint
<1>5. Cardinality((F \cup D) \cup C) = Cardinality(F \cup D) + Cardinality(C)
  BY <1>1, <1>2, <1>4, Disjoint
<1>6. /\ Cardinality(F) = Cardinality(Files(t, m))
      /\ Cardinality(D) = Cardinality(Streams(m))
      /\ Cardinality(C) = Times(loc[t].refs, m)
  BY FileUsersCount, DirUsersCount, CallUsersCount DEF F, D, C
<1>7. Cardinality(F) \in Nat /\ Cardinality(D) \in Nat /\ Cardinality(C) \in Nat
  BY <1>2, FS_CardinalityType
<1> QED BY <1>3, <1>4, <1>5, <1>6, <1>7

\* With one task, open_files of every mount counts exactly its open files, its
\* open streams and the references of the call in progress: each early return
\* of vfs.c gives back what _find_mount took, and no decrement is done twice.
THEOREM RefsExact ==
  ASSUME Sequential
  PROVE  Spec => []RefsCounted
<1>1. TypeInv /\ RefInv => RefsCounted
  <2> SUFFICES ASSUME TypeInv, RefInv, NEW m \in Mounts
               PROVE  openFiles[m] = Cardinality(Users(m))
    BY DEF RefsCounted
  <2>1. PICK t : Tasks = {t}
    BY DEF Sequential, OneTask
  <2>2. CountedAt(t)
    BY <2>1, HereRefs
  <2> QED BY <2>1, <2>2, UsersCount DEF CountedAt, Sequential
<1> QED BY <1>1, RefAlways, PTL

-----------------------------------------------------------------------------
\* A volume with users is listed: vfs_umount refuses as long as it has any.

BusyListed == \A m \in Mounts : openFiles[m] # 0 => m \in Listed

LEMMA BusySame ==
  ASSUME BusyListed, UNCHANGED openFiles, Listed \subseteq Listed'
  PROVE  BusyListed'
BY DEF BusyListed

\* Every other step leaves the counters and the list alone.
LEMMA BusyElsewhere ==
  ASSUME NEW t \in Tasks, Call(t) \/ Acquire(t) \/ Run(t),
         ~(FoundMount(t) \/ DecStore(t) \/ MountDriver(t) \/ UmountDriver(t))
  PROVE  UNCHANGED <<openFiles, mounts>>
<1>1. CASE Call(t)
  BY <1>1, Zenon DEF Call, CallPath, CallRename, CallOpendir, CallMount, CallClose,
     CallFile, SeekPos, CallReaddir, CallClosedir, mountVars
<1>2. CASE Acquire(t)
  BY <1>2, Zenon DEF Acquire, FindMount, OpenLock, CheckMount, UmountLock, mountVars
<1>3. CASE Run(t)
  BY <1>3, Zenon DEF Run, DecLoad, Return, AllocateFd, InitFd, OpenDriver, CloseDriver,
     FileDriver, PathCall, PathDriver, OpendirInit, OpendirDriver, ReaddirDriver,
     ClosedirDriver, FormatDriver, mountVars
<1> QED BY <1>1, <1>2, <1>3

\* A reference that a call holds counts.
LEMMA RefCounts ==
  ASSUME TypeInv, CounterFits, NEW t \in Tasks, CountedAt(t), loc[t].refs # <<>>
  PROVE  Head(loc[t].refs) \in Mounts /\ openFiles[Head(loc[t].refs)] # 0
<1> DEFINE refs == loc[t].refs
           k == Head(refs)
<1>1. refs \in Seq(Mounts) /\ refs # <<>>
  BY LocalType DEF TypeInv
<1> HIDE DEF refs
<1>2. k \in Mounts /\ Len(refs) >= 1 /\ k = refs[1]
  BY <1>1
<1> HIDE DEF k
<1>3. Times(refs, k) >= 1
  BY <1>2 DEF Times
<1>4. openFiles[k] # 0
  <2>1. openFiles[k] = Cardinality(Files(t, k)) + Cardinality(Streams(k))
                         + Times(refs, k)
    BY <1>2 DEF CountedAt, refs
  <2>2. /\ Cardinality(Files(t, k)) \in Nat /\ Cardinality(Streams(k)) \in Nat
        /\ Times(refs, k) \in Nat
    <3>1. IsFiniteSet(Files(t, k)) /\ IsFiniteSet(Streams(k))
      BY FilesFinite, StreamsFinite
    <3>2. Times(refs, k) \in 0 .. 2
      BY TimesType
    <3> QED BY <3>1, <3>2, FS_CardinalityType
  <2> QED BY <1>3, <2>1, <2>2
<1> QED BY <1>2, <1>4 DEF k, refs

LEMMA BusyStep ==
  ASSUME Sequential, ~CanForce
  PROVE  TypeInv /\ ListInv /\ RefInv /\ BusyListed /\ [Next]_vars => BusyListed'
<1> SUFFICES ASSUME TypeInv, ListInv, RefInv, BusyListed, [Next]_vars
             PROVE  BusyListed'
  OBVIOUS
<1>1. ASSUME NEW t \in Tasks, FoundMount(t) PROVE BusyListed'
  <2>1. /\ pc[t] = "inc" /\ mounts' = mounts
        /\ openFiles' = [openFiles EXCEPT ![loc[t].m] = (loc[t].tmp + 1) % CountMod]
    BY <1>1 DEF FoundMount, mountVars
  <2>2. loc[t].m \in Listed
    BY <2>1, HereRefs DEF RefStage
  <2>3. \A m \in Mounts : m # loc[t].m => openFiles'[m] = openFiles[m]
    BY <2>1 DEF TypeInv, DataOK
  <2> QED BY <2>1, <2>2, <2>3 DEF BusyListed, Listed
<1>2. ASSUME NEW t \in Tasks, DecStore(t) PROVE BusyListed'
  <2> DEFINE k == Head(loc[t].refs)
  <2>1. /\ pc[t] = "dec_store" /\ mounts' = mounts
        /\ openFiles' = [openFiles EXCEPT ![k] = (loc[t].tmp - 1) % CountMod]
    BY <1>2 DEF DecStore, mountVars
  <2>2. k \in Mounts /\ openFiles[k] # 0
    BY <2>1, HereStage, HereRefs, RefCounts DEF Stage, TypeInv, Sequential
  <2>3. \A m \in Mounts : m # k => openFiles'[m] = openFiles[m]
    BY <2>1 DEF TypeInv, DataOK
  <2> HIDE DEF k
  <2> QED BY <2>1, <2>2, <2>3 DEF BusyListed, Listed
<1>3. ASSUME NEW t \in Tasks, MountDriver(t) PROVE BusyListed'
  <2>1. /\ pc[t] = "mount_drv" /\ UNCHANGED openFiles
        /\ mounts' = Append(mounts, loc[t].m) \/ UNCHANGED mounts
    BY <1>3 DEF MountDriver, mountVars
  <2>2. loc[t].m \in Mounts /\ loc[t].m \notin Listed
    BY <2>1, HereStage DEF Stage, ListInv, ListStages, ListStage
  <2>3. Listed' = Listed \cup {loc[t].m} \/ Listed' = Listed
    BY <2>1, <2>2, Appended DEF ListInv, Listed
  <2> QED BY <2>1, <2>3, BusySame
<1>4. ASSUME NEW t \in Tasks, UmountDriver(t) PROVE BusyListed'
  <2>1. /\ pc[t] = "umount_drv" /\ UNCHANGED openFiles
        /\ mounts' = WithoutMount(loc[t].m) \/ UNCHANGED mounts
    BY <1>4 DEF UmountDriver, mountVars
  <2>2. openFiles[loc[t].m] = 0
    BY <2>1, HereRefs DEF RefStage
  <2>3. Listed' = Listed \ {loc[t].m} \/ Listed' = Listed
    BY <2>1, Removed DEF ListInv, Listed
  <2> QED BY <2>1, <2>2, <2>3 DEF BusyListed
<1>5. ASSUME UNCHANGED <<openFiles, mounts>> PROVE BusyListed'
  BY <1>5 DEF BusyListed, Listed
<1>6. CASE UNCHANGED vars
  BY <1>5, <1>6 DEF vars
<1> QED BY <1>1, <1>2, <1>3, <1>4, <1>5, <1>6, BusyElsewhere DEF Next

LEMMA BusyAlways ==
  ASSUME Sequential, ~CanForce
  PROVE  Spec => [](TypeInv /\ FdInv /\ ListInv /\ RefInv /\ BusyListed)
<1>1. Init => BusyListed
  BY DEF Init, BusyListed
<1>2. TypeInv /\ ListInv /\ RefInv /\ BusyListed /\ [Next]_vars => BusyListed'
  BY BusyStep
<1>3. Spec => [](TypeInv /\ FdInv /\ ListInv /\ RefInv)
  BY RefAlways
<1> QED BY <1>1, <1>2, <1>3, PTL DEF Spec

LEMMA CountedUser ==
  ASSUME TypeInv, CounterFits, NEW t \in Tasks, CountedAt(t), NEW m \in Mounts,
         openFiles[m] = 0
  PROVE  Files(t, m) = {} /\ Streams(m) = {}
<1>1. openFiles[m] = Cardinality(Files(t, m)) + Cardinality(Streams(m))
                       + Times(loc[t].refs, m)
  BY DEF CountedAt
<1>2. Times(loc[t].refs, m) \in 0 .. 2
  BY TimesType
<1>3. IsFiniteSet(Files(t, m)) /\ IsFiniteSet(Streams(m))
  BY FilesFinite, StreamsFinite
<1>4. Cardinality(Files(t, m)) \in Nat /\ Cardinality(Streams(m)) \in Nat
  BY <1>3, FS_CardinalityType
<1>5. Cardinality(Files(t, m)) = 0 /\ Cardinality(Streams(m)) = 0
  BY <1>1, <1>2, <1>4
<1> QED BY <1>3, <1>5, FS_EmptySet

\* Without forced umounts, a file or a directory stream that the client holds
\* is on a volume that is in the list and that its driver holds mounted.
THEOREM HeldOnMounted ==
  ASSUME Sequential, ~CanForce
  PROVE  Spec => []HeldIsMounted
<1>1. Spec => [](TypeInv /\ FdInv /\ ListInv /\ RefInv /\ BusyListed)
  BY BusyAlways
<1>2. TypeInv /\ FdInv /\ ListInv /\ RefInv /\ BusyListed => HeldIsMounted
  <2> SUFFICES ASSUME TypeInv, FdInv, ListInv, RefInv, BusyListed PROVE HeldIsMounted
    OBVIOUS
  <2>1. ASSUME NEW t \in Tasks, NEW m \in Mounts, Files(t, m) # {} \/ Streams(m) # {}
        PROVE  m \in live \cap Listed
    <3>1. openFiles[m] # 0
      BY <2>1, HereRefs, CountedUser DEF Sequential
    <3> QED BY <3>1 DEF BusyListed, ListInv
  <2>2. ASSUME NEW t \in Tasks, NEW f \in held[t]
        PROVE  fds[f].mp \in live \cap Listed
    <3>1. fds[f].mp \in Mounts
      BY DEF FdInv, HeldIsOpen, TypeInv, DataOK
    <3> QED BY <2>1, <3>1 DEF Files
  <2>3. ASSUME NEW d \in openDirs PROVE dirs[d].mp \in live \cap Listed
    <3>1. dirs[d].mp \in Mounts
      BY DEF TypeInv, DirOK
    <3>2. PICK t : t \in Tasks
      BY DEF Sequential, OneTask
    <3> QED BY <2>1, <3>1, <3>2 DEF Streams
  <2> QED BY <2>2, <2>3 DEF HeldIsMounted
<1> QED BY <1>1, <1>2, PTL

=============================================================================
