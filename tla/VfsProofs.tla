------------------------------ MODULE VfsProofs ------------------------------
(***************************************************************************)
(* Theorems about module Vfs for every set of tasks and mounts, every size  *)
(* of the file table and every driver.                                     *)
(***************************************************************************)
EXTENDS VfsProperties, SequenceTheorems, WellFoundedInduction, TLAPS

USE DEF Fds, Modes

-----------------------------------------------------------------------------
\* The control part of the type invariant, and how calls move through it.

ControlOK == /\ pc \in [Tasks -> Labels]
             /\ loc \in [Tasks -> Locals]
             /\ ret \in [Tasks -> Codes]

LEMMA BlankType == Blank \in Locals
BY VfsConstants DEF Blank, Locals, Codes

\* What the call of task t has established when it reaches label l with
\* locals r.
Stage(t, l, r) ==
  /\ l = "find" => r.names # <<>>
  /\ l \in {"inc", "check", "mount_drv", "umount_lock", "umount_drv",
            "format_drv"} => r.m \in Mounts
  /\ l \in {"found", "dec_store", "alloc", "init", "open_drv", "path_drv",
            "opendir_drv"} => r.refs # <<>>
  /\ l \in {"init", "open_drv"} => r.fd \in Fds
  /\ l = "opendir_drv" => r.op = "opendir"
  /\ r.op = "opendir" \/ l = "closedir_drv"
       => r.dir \in Dirs /\ DirOwner[r.dir] = t

CallOK == \A t \in Tasks : Stage(t, pc[t], loc[t])

\* One task moves to label l with locals r, and the others stay.
LEMMA Moves ==
  ASSUME ControlOK, CallOK, NEW t \in Tasks, NEW l \in Labels, NEW r \in Locals,
         pc' = [pc EXCEPT ![t] = l], loc' = [loc EXCEPT ![t] = r],
         ret' \in [Tasks -> Codes], Stage(t, l, r)
  PROVE  ControlOK' /\ CallOK'
<1>1. ControlOK'
  BY DEF ControlOK
<1>2. ASSUME NEW u \in Tasks PROVE Stage(u, pc'[u], loc'[u])
  <2>1. CASE u = t
    <3>1. pc'[u] = l /\ loc'[u] = r
      BY <2>1 DEF ControlOK
    <3> QED BY <2>1, <3>1
  <2>2. CASE u # t
    <3>1. pc'[u] = pc[u] /\ loc'[u] = loc[u]
      BY <2>2 DEF ControlOK
    <3> QED BY <3>1 DEF CallOK
  <2> QED BY <2>1, <2>2
<1> QED BY <1>1, <1>2 DEF CallOK, Stage

LEMMA FinishMoves ==
  ASSUME ControlOK, CallOK, NEW t \in Tasks, NEW code \in Codes,
         Finish(t, code)
  PROVE  ControlOK' /\ CallOK'
<1>1. Stage(t, "idle", Blank)
  BY DEF Stage, Blank
<1>2. /\ "idle" \in Labels /\ ret' \in [Tasks -> Codes]
      /\ pc' = [pc EXCEPT ![t] = "idle"] /\ loc' = [loc EXCEPT ![t] = Blank]
  BY DEF ControlOK, Finish, Goto, Labels
<1> QED BY <1>1, <1>2, BlankType, Moves, Zenon

LEMMA ReleaseMoves ==
  ASSUME ControlOK, CallOK, NEW t \in Tasks, NEW code \in Codes,
         Release(t, code)
  PROVE  ControlOK' /\ CallOK'
<1> DEFINE r == [loc[t] EXCEPT !.res = code]
<1>1. r \in Locals /\ r.op = loc[t].op /\ r.dir = loc[t].dir
  BY DEF ControlOK, Locals
<1>2. Stage(t, "dec", r)
  BY <1>1 DEF Stage, CallOK
<1>3. /\ "dec" \in Labels /\ ret' \in [Tasks -> Codes]
      /\ pc' = [pc EXCEPT ![t] = "dec"] /\ loc' = [loc EXCEPT ![t] = r]
  BY DEF ControlOK, Release, Goto, Labels
<1> HIDE DEF r
<1> QED BY <1>1, <1>2, <1>3, Moves, Zenon

LEMMA BeginMoves ==
  ASSUME ControlOK, CallOK, NEW t \in Tasks, NEW op, NEW l \in Labels,
         NEW args \in Locals, Begin(t, op, l, args),
         Stage(t, l, [args EXCEPT !.op = op])
  PROVE  ControlOK' /\ CallOK'
<1> DEFINE r == [args EXCEPT !.op = op]
<1>1. r \in Locals
  BY VfsConstants DEF Begin, Locals
<1>2. /\ ret' \in [Tasks -> Codes] /\ Stage(t, l, r)
      /\ pc' = [pc EXCEPT ![t] = l] /\ loc' = [loc EXCEPT ![t] = r]
  BY DEF ControlOK, Begin, Goto, Codes
<1> HIDE DEF r
<1> QED BY <1>1, <1>2, Moves, Zenon

LEMMA GotoMoves ==
  ASSUME ControlOK, CallOK, NEW t \in Tasks, NEW l \in Labels, Goto(t, l),
         UNCHANGED <<loc, ret>>, Stage(t, l, loc[t])
  PROVE  ControlOK' /\ CallOK'
<1>1. /\ loc[t] \in Locals /\ ret' \in [Tasks -> Codes]
      /\ pc' = [pc EXCEPT ![t] = l] /\ loc' = [loc EXCEPT ![t] = loc[t]]
  BY DEF ControlOK, Goto
<1> QED BY <1>1, Moves, Zenon

-----------------------------------------------------------------------------
MutexInv == /\ mountMutex \in Tasks \cup {NoTask}
            /\ openMutex \in Tasks \cup {NoTask}
            /\ pc \in [Tasks -> Labels]
            /\ MutexOwned

LEMMA MutexStep == MutexInv /\ [Next]_vars => MutexInv'
<1> SUFFICES ASSUME MutexInv, [Next]_vars PROVE MutexInv'
  OBVIOUS
<1> USE VfsConstants DEF MutexInv, MutexOwned, InMountSection, InOpenSection,
        Labels, Goto, Finish, Release, Begin, Reject, GrantFd,
        tableVars, mountVars, dirVars
<1>1. ASSUME NEW t \in Tasks, Call(t) PROVE MutexInv'
  <2>1. CASE CallPath(t)
    BY <2>1 DEF CallPath
  <2>2. CASE CallRename(t)
    BY <2>2 DEF CallRename
  <2>3. CASE CallOpendir(t)
    BY <2>3 DEF CallOpendir
  <2>4. CASE CallMount(t)
    BY <2>4 DEF CallMount
  <2>5. CASE CallClose(t)
    BY <2>5 DEF CallClose
  <2>6. CASE CallFile(t)
    BY <2>6 DEF CallFile
  <2>7. CASE SeekPos(t)
    BY <2>7 DEF SeekPos
  <2>8. CASE CallReaddir(t)
    BY <2>8 DEF CallReaddir
  <2>9. CASE CallClosedir(t)
    BY <2>9 DEF CallClosedir
  <2> QED BY <1>1, <2>1, <2>2, <2>3, <2>4, <2>5, <2>6, <2>7, <2>8, <2>9 DEF Call
<1>2. ASSUME NEW t \in Tasks, Acquire(t) PROVE MutexInv'
  <2>1. CASE FindMount(t)
    <3>1. /\ pc[t] = "find" /\ mountMutex = NoTask /\ openMutex' = openMutex
          /\ \/ mountMutex' = NoTask /\ pc' = [pc EXCEPT ![t] = "idle"]
             \/ mountMutex' = NoTask /\ pc' = [pc EXCEPT ![t] = "dec"]
             \/ mountMutex' = t /\ pc' = [pc EXCEPT ![t] = "inc"]
      BY <2>1, Zenon DEF FindMount
    <3> QED BY <3>1
  <2>2. CASE OpenLock(t)
    BY <2>2 DEF OpenLock
  <2>3. CASE CheckMount(t)
    BY <2>3 DEF CheckMount
  <2>4. CASE UmountLock(t)
    BY <2>4 DEF UmountLock
  <2> QED BY <1>2, <2>1, <2>2, <2>3, <2>4 DEF Acquire
<1>3. ASSUME NEW t \in Tasks, Run(t) PROVE MutexInv'
  <2>1. CASE FoundMount(t)
    BY <2>1 DEF FoundMount
  <2>2. CASE DecLoad(t) \/ DecStore(t) \/ Return(t)
    BY <2>2 DEF DecLoad, DecStore, Return
  <2>3. CASE AllocateFd(t)
    BY <2>3 DEF AllocateFd
  <2>4. CASE InitFd(t)
    BY <2>4 DEF InitFd
  <2>5. CASE OpenDriver(t) \/ CloseDriver(t) \/ FileDriver(t) \/ PathDriver(t)
    BY <2>5 DEF OpenDriver, CloseDriver, FileDriver, PathDriver
  <2>6. CASE PathCall(t)
    <3>1. /\ pc[t] = "found" /\ UNCHANGED <<mountMutex, openMutex>>
          /\ \E l \in {"dec", "find", "path_drv"} : pc' = [pc EXCEPT ![t] = l]
      BY <2>6, Zenon DEF PathCall
    <3> QED BY <3>1
  <2>7. CASE OpendirInit(t) \/ OpendirDriver(t) \/ ReaddirDriver(t)
             \/ ClosedirDriver(t)
    BY <2>7 DEF OpendirInit, OpendirDriver, ReaddirDriver, ClosedirDriver
  <2>8. CASE MountDriver(t)
    <3>1. /\ pc[t] = "mount_drv" /\ mountMutex' = NoTask
          /\ openMutex' = openMutex /\ pc' = [pc EXCEPT ![t] = "idle"]
      BY <2>8, Zenon DEF MountDriver
    <3> QED BY <3>1
  <2>9. CASE UmountDriver(t)
    BY <2>9 DEF UmountDriver
  <2>10. CASE FormatDriver(t)
    BY <2>10 DEF FormatDriver
  <2> QED BY <1>3, <2>1, <2>2, <2>3, <2>4, <2>5, <2>6, <2>7, <2>8, <2>9, <2>10
          DEF Run
<1>4. CASE UNCHANGED vars
  BY <1>4 DEF vars
<1> QED BY <1>1, <1>2, <1>3, <1>4 DEF Next

LEMMA MutexInit == Init => MutexInv
BY VfsConstants DEF Init, MutexInv, MutexOwned, InMountSection, InOpenSection,
   Labels

\* No two tasks are in one critical section and no call returns with a mutex
\* held, for any number of tasks and any outcomes of the drivers.
THEOREM MutexSafe == Spec => []MutexOwned
BY MutexInit, MutexStep, PTL DEF Spec, MutexInv

-----------------------------------------------------------------------------
\* Type correctness.  DataOK is the rest of TypeOK.

DataOK ==
  /\ mounts \in Seq(Mounts)
  /\ openFiles \in [Mounts -> 0 .. CountMod - 1]
  /\ live \subseteq Mounts
  /\ mountMutex \in Tasks \cup {NoTask}
  /\ openMutex \in Tasks \cup {NoTask}
  /\ fds \in [Fds -> [tcb : Tasks \cup {NoTask}, mp : Mounts \cup {NoMount},
                      mode : Modes, pos : Nat, drv : BOOLEAN]]
  /\ dirs \in [Dirs -> [mp : Mounts \cup {NoMount}, drv : BOOLEAN]]
  /\ held \in [Tasks -> SUBSET Fds]
  /\ openDirs \subseteq Dirs

\* A stream that is open, or that the driver is opening, has a mount; one that
\* is being closed is no longer open.
DirOK ==
  /\ \A d \in openDirs : dirs[d].mp \in Mounts
  /\ \A t \in Tasks :
       /\ pc[t] = "opendir_drv" => dirs[loc[t].dir].mp \in Mounts
       /\ pc[t] = "closedir_drv" => loc[t].dir \notin openDirs

TypeInv == ControlOK /\ DataOK /\ CallOK /\ DirOK

LEMMA ModType ==
  ASSUME NEW x \in Int PROVE x % CountMod \in 0 .. CountMod - 1
BY VfsConstants, SMT

\* A task's locals are a record of the type Locals, field by field.
LEMMA LocalType ==
  ASSUME ControlOK, NEW t \in Tasks
  PROVE  /\ loc[t] \in Locals
         /\ loc[t].names \in Seq(Names)
         /\ loc[t].m \in Mounts \cup {NoMount}
         /\ loc[t].fd \in 0 .. NFd
         /\ loc[t].tmp \in 0 .. CountMod - 1
         /\ loc[t].refs \in Seq(Mounts)
         /\ loc[t].res \in Codes
BY DEF ControlOK, Locals

LEMMA NatMinimum ==
  ASSUME NEW T \in SUBSET Nat, T # {}
  PROVE  \E x \in T : \A y \in T : x <= y
<1>1. PICK x \in T : \A y \in T : ~(<<y, x>> \in OpToRel(<, Nat))
  BY WFMin, NatLessThanWellFounded, Zenon
<1>2. ASSUME NEW y \in T PROVE ~(y < x)
  <2>1. <<y, x>> \in Nat \X Nat
    OBVIOUS
  <2>2. OpToRel(<, Nat) = {ss \in Nat \X Nat : ss[1] < ss[2]}
    BY DEF OpToRel
  <2> QED BY <1>1, <2>1, <2>2
<1> QED BY <1>2

\* _find_mount finds a mount of the list.  The mount it prefers exists: among
\* the mounts that cover the name take those of the greatest weight, and among
\* those the last.
LEMMA ResolveType ==
  ASSUME DataOK, NEW nm, Resolve(nm) # NoMount
  PROVE  Resolve(nm) \in Listed /\ Resolve(nm) \in Mounts
<1> DEFINE found == {i \in DOMAIN mounts : nm \in Covers[mounts[i]]}
           W(i) == Weight(mounts[i])
<1>1. found # {} /\ found \subseteq 1 .. Len(mounts)
  BY DEF Resolve, DataOK
<1>2. Len(mounts) \in Nat
      /\ \A i \in found : mounts[i] \in Mounts /\ W(i) \in 0 .. PointMax
  <2>1. \A m \in Mounts : Weight(m) \in 0 .. PointMax
    BY VfsConstants, SMT DEF Weight
  <2> QED BY <1>1, <2>1 DEF DataOK
<1>3. PICK i1 \in found : \A j \in found : W(j) <= W(i1)
  <2> DEFINE T == {PointMax - W(i) : i \in found}
  <2>1. T \in SUBSET Nat /\ T # {}
    BY <1>1, <1>2, VfsConstants, SMT
  <2>2. PICK x \in T : \A y \in T : x <= y
    BY <2>1, NatMinimum
  <2>3. PICK i \in found : x = PointMax - W(i)
    BY <2>2
  <2>4. ASSUME NEW j \in found PROVE W(j) <= W(i)
    <3>1. PointMax - W(i) <= PointMax - W(j)
      BY <2>2, <2>3
    <3>2. PointMax \in Nat /\ W(i) \in Nat /\ W(j) \in Nat
      BY <1>2, VfsConstants, SMT
    <3> HIDE DEF W
    <3> QED BY <3>1, <3>2, SMT
  <2> QED BY <2>4
<1>4. PICK i2 \in found : /\ W(i2) = W(i1)
                          /\ \A j \in found : W(j) = W(i1) => j <= i2
  <2> DEFINE T == {Len(mounts) - i : i \in {k \in found : W(k) = W(i1)}}
  <2>1. T \in SUBSET Nat /\ T # {}
    BY <1>1, <1>2
  <2>2. PICK x \in T : \A y \in T : x <= y
    BY <2>1, NatMinimum
  <2>3. PICK i \in found : W(i) = W(i1) /\ x = Len(mounts) - i
    BY <2>2
  <2>4. ASSUME NEW j \in found, W(j) = W(i1) PROVE j <= i
    <3>1. Len(mounts) - i <= Len(mounts) - j
      <4>1. Len(mounts) - j \in T
        BY <2>4
      <4> QED BY <2>2, <2>3, <4>1
    <3>2. Len(mounts) \in Nat /\ i \in Nat /\ j \in Nat
      BY <1>1, <1>2
    <3> QED BY <3>1, <3>2, SMT
  <2> QED BY <2>3, <2>4
<1>5. \A j \in found : Beats(i2, j)
  BY <1>1, <1>2, <1>3, <1>4 DEF Beats
<1>6. (CHOOSE i \in found : \A j \in found : Beats(i, j)) \in found
  BY <1>5
<1>7. Resolve(nm) = mounts[CHOOSE i \in found : \A j \in found : Beats(i, j)]
  BY <1>1 DEF Resolve
<1>8. found \subseteq DOMAIN mounts
  OBVIOUS
<1> HIDE DEF found
<1> QED BY <1>2, <1>6, <1>7, <1>8 DEF Listed

LEMMA WithoutMountType ==
  ASSUME DataOK, NEW m
  PROVE  WithoutMount(m) \in Seq(Mounts)
<1>1. CASE m \notin Listed
  BY <1>1 DEF WithoutMount, DataOK
<1>2. CASE m \in Listed
  <2> DEFINE at == CHOOSE i \in DOMAIN mounts : mounts[i] = m
  <2>1. at \in 1 .. Len(mounts) /\ mounts \in Seq(Mounts) /\ Len(mounts) \in Nat
    BY <1>2 DEF Listed, DataOK
  <2> HIDE DEF at
  <2>2. SubSeq(mounts, 1, at - 1) \in Seq(Mounts)
    <3>1. 1 \in Int /\ at - 1 \in Int /\ \A i \in 1 .. at - 1 : mounts[i] \in Mounts
      BY <2>1
    <3> QED BY <2>1, <3>1, SubSeqProperties, Zenon
  <2>3. SubSeq(mounts, at + 1, Len(mounts)) \in Seq(Mounts)
    <3>1. /\ at + 1 \in Int /\ Len(mounts) \in Int
          /\ \A i \in at + 1 .. Len(mounts) : mounts[i] \in Mounts
      BY <2>1
    <3> QED BY <2>1, <3>1, SubSeqProperties, Zenon
  <2> USE DEF at
  <2>4. WithoutMount(m)
          = SubSeq(mounts, 1, at - 1) \o SubSeq(mounts, at + 1, Len(mounts))
    BY <1>2 DEF WithoutMount
  <2> QED BY <2>2, <2>3, <2>4, ConcatProperties
<1> QED BY <1>1, <1>2

-----------------------------------------------------------------------------
\* Every call starts from well-typed arguments.

LEMMA BeginType ==
  ASSUME TypeInv, NEW t \in Tasks, NEW op, NEW l \in Labels, NEW args \in Locals,
         Begin(t, op, l, args), Stage(t, l, [args EXCEPT !.op = op]),
         l \notin {"opendir_drv", "closedir_drv"}
  PROVE  /\ ControlOK' /\ CallOK'
         /\ UNCHANGED dirVars => DirOK'
<1>1. ControlOK' /\ CallOK'
  BY BeginMoves, Zenon DEF TypeInv
<1>2. ASSUME UNCHANGED dirVars PROVE DirOK'
  <2>1. /\ \A u \in Tasks : pc'[u] \in {"opendir_drv", "closedir_drv"}
                             => pc'[u] = pc[u] /\ loc'[u] = loc[u]
        /\ dirs' = dirs /\ openDirs' = openDirs
    BY <1>2 DEF TypeInv, ControlOK, Begin, Goto, dirVars
  <2>2. DirOK
    BY DEF TypeInv
  <2> QED BY <2>1, <2>2 DEF DirOK
<1> QED BY <1>1, <1>2

LEMMA RejectType ==
  ASSUME TypeInv, NEW t \in Tasks, NEW op, NEW code \in Codes,
         Reject(t, op, code), UNCHANGED dirVars
  PROVE  ControlOK' /\ CallOK' /\ DirOK'
<1>1. ControlOK' /\ CallOK'
  BY FinishMoves DEF TypeInv, Reject
<1>2. /\ \A u \in Tasks : pc'[u] \in {"opendir_drv", "closedir_drv"}
                           => pc'[u] = pc[u] /\ loc'[u] = loc[u]
      /\ dirs' = dirs /\ openDirs' = openDirs
  BY DEF TypeInv, ControlOK, Reject, Finish, Goto, dirVars
<1>3. DirOK
  BY DEF TypeInv
<1> QED BY <1>1, <1>2, <1>3 DEF DirOK

LEMMA CallPathType ==
  ASSUME TypeInv, NEW t \in Tasks, CallPath(t)
  PROVE  TypeInv'
<1>1. DataOK'
  BY DEF TypeInv, DataOK, CallPath, tableVars, mountVars, dirVars
<1>2. PICK op \in {"open"} \cup (PathCalls \ {"rename"}), nm \in Names,
           md \in OpenModes \cup {"r"} :
        Begin(t, op, "find", [Blank EXCEPT !.names = <<nm>>, !.mode = md])
  BY Zenon DEF CallPath
<1> DEFINE args == [Blank EXCEPT !.names = <<nm>>, !.mode = md]
<1>3. args \in Locals
  <2>1. <<nm>> \in Seq(Names) /\ md \in Modes
    BY VfsConstants
  <2> QED BY <2>1, BlankType DEF Locals
<1>4. Stage(t, "find", [args EXCEPT !.op = op])
  BY DEF Stage, Blank, PathCalls
<1>5. UNCHANGED dirVars
  BY DEF CallPath
<1> HIDE DEF args
<1> QED BY <1>1, <1>2, <1>3, <1>4, <1>5, BeginType DEF TypeInv, Labels, args

LEMMA CallRenameType ==
  ASSUME TypeInv, NEW t \in Tasks, CallRename(t)
  PROVE  TypeInv'
<1>1. DataOK' /\ UNCHANGED dirVars
  BY DEF TypeInv, DataOK, CallRename, tableVars, mountVars, dirVars
<1>2. PICK from \in Names, to \in Names :
        Begin(t, "rename", "find", [Blank EXCEPT !.names = <<from, to>>])
  BY Zenon DEF CallRename
<1> DEFINE args == [Blank EXCEPT !.names = <<from, to>>]
<1>3. args \in Locals
  <2>1. <<from, to>> \in Seq(Names)
    OBVIOUS
  <2> QED BY <2>1, BlankType DEF Locals
<1>4. Stage(t, "find", [args EXCEPT !.op = "rename"])
  BY DEF Stage, Blank
<1> HIDE DEF args
<1> QED BY <1>1, <1>2, <1>3, <1>4, BeginType DEF TypeInv, Labels, args

LEMMA CallOpendirType ==
  ASSUME TypeInv, NEW t \in Tasks, CallOpendir(t)
  PROVE  TypeInv'
<1>1. DataOK' /\ UNCHANGED dirVars
  BY DEF TypeInv, DataOK, CallOpendir, tableVars, mountVars, dirVars
<1>2. PICK nm \in Names, d \in Dirs :
        /\ DirOwner[d] = t
        /\ Begin(t, "opendir", "find", [Blank EXCEPT !.names = <<nm>>, !.dir = d])
  BY Zenon DEF CallOpendir
<1> DEFINE args == [Blank EXCEPT !.names = <<nm>>, !.dir = d]
<1>3. args \in Locals
  <2>1. <<nm>> \in Seq(Names)
    OBVIOUS
  <2> QED BY <2>1, BlankType DEF Locals
<1>4. Stage(t, "find", [args EXCEPT !.op = "opendir"])
  BY <1>2 DEF Stage, Blank
<1> HIDE DEF args
<1> QED BY <1>1, <1>2, <1>3, <1>4, BeginType DEF TypeInv, Labels, args

LEMMA CallMountType ==
  ASSUME TypeInv, NEW t \in Tasks, CallMount(t)
  PROVE  TypeInv'
<1>1. DataOK' /\ UNCHANGED dirVars
  BY DEF TypeInv, DataOK, CallMount, tableVars, mountVars, dirVars
<1>2. PICK op \in MountCalls, m \in Mounts, force \in BOOLEAN :
        Begin(t, op, "check", [Blank EXCEPT !.m = m, !.force = force])
  BY Zenon DEF CallMount
<1> DEFINE args == [Blank EXCEPT !.m = m, !.force = force]
<1>3. args \in Locals
  BY BlankType DEF Locals
<1>4. Stage(t, "check", [args EXCEPT !.op = op])
  BY DEF Stage, Blank, MountCalls
<1> HIDE DEF args
<1> QED BY <1>1, <1>2, <1>3, <1>4, BeginType DEF TypeInv, Labels, args

LEMMA CallCloseType ==
  ASSUME TypeInv, NEW t \in Tasks, CallClose(t)
  PROVE  TypeInv'
<1>1. UNCHANGED <<openFiles, fds, openMutex, mountVars, dirVars, mountMutex>>
  BY DEF CallClose
<1>2. PICK fd \in 0 .. NFd :
        \/ Reject(t, "close", "EBADF") /\ UNCHANGED held
        \/ /\ FdIsValid(fd)
           /\ Begin(t, "close",
                    IF "close" \in Implements[fds[fd].mp] THEN "close_drv" ELSE "dec",
                    [Blank EXCEPT !.fd = fd, !.refs = <<fds[fd].mp>>, !.res = "ok"])
           /\ held' = [held EXCEPT ![t] = @ \ {fd}]
  BY Zenon DEF CallClose
<1>3. CASE Reject(t, "close", "EBADF") /\ UNCHANGED held
  <2>1. DataOK'
    BY <1>1, <1>3 DEF TypeInv, DataOK, mountVars, dirVars
  <2> QED BY <1>1, <1>3, <2>1, RejectType DEF TypeInv, Codes
<1>4. CASE /\ FdIsValid(fd)
           /\ Begin(t, "close",
                    IF "close" \in Implements[fds[fd].mp] THEN "close_drv" ELSE "dec",
                    [Blank EXCEPT !.fd = fd, !.refs = <<fds[fd].mp>>, !.res = "ok"])
           /\ held' = [held EXCEPT ![t] = @ \ {fd}]
  <2> DEFINE l == IF "close" \in Implements[fds[fd].mp] THEN "close_drv" ELSE "dec"
             args == [Blank EXCEPT !.fd = fd, !.refs = <<fds[fd].mp>>, !.res = "ok"]
  <2>1. DataOK'
    BY <1>1, <1>4 DEF TypeInv, DataOK, mountVars, dirVars
  <2>2. args \in Locals
    <3>1. <<fds[fd].mp>> \in Seq(Mounts)
      BY <1>4 DEF FdIsValid, TypeInv, DataOK
    <3> QED BY <3>1, BlankType DEF Locals, Codes
  <2>3. l \in {"close_drv", "dec"}
    OBVIOUS
  <2>4. Stage(t, l, [args EXCEPT !.op = "close"])
    BY <2>3 DEF Stage, Blank
  <2>5. Begin(t, "close", l, args)
    BY <1>4
  <2> HIDE DEF l, args
  <2> QED BY <1>1, <2>1, <2>2, <2>3, <2>4, <2>5, BeginType DEF TypeInv, Labels
<1> QED BY <1>2, <1>3, <1>4

LEMMA CallFileType ==
  ASSUME TypeInv, NEW t \in Tasks, CallFile(t)
  PROVE  TypeInv'
<1>1. DataOK' /\ UNCHANGED dirVars
  BY DEF TypeInv, DataOK, CallFile, tableVars, mountVars, dirVars
<1>2. PICK op \in FileCalls, fd \in 0 .. NFd :
        \/ Reject(t, op, "EBADF")
        \/ Reject(t, op, "EINVAL")
        \/ Begin(t, op, "file_drv", [Blank EXCEPT !.fd = fd])
  BY Zenon DEF CallFile
<1>3. CASE Reject(t, op, "EBADF") \/ Reject(t, op, "EINVAL")
  BY <1>1, <1>3, RejectType DEF TypeInv, Codes
<1>4. CASE Begin(t, op, "file_drv", [Blank EXCEPT !.fd = fd])
  <2> DEFINE args == [Blank EXCEPT !.fd = fd]
  <2>1. args \in Locals
    BY BlankType DEF Locals
  <2>2. Stage(t, "file_drv", [args EXCEPT !.op = op])
    BY DEF Stage, Blank, FileCalls
  <2>3. Begin(t, op, "file_drv", args)
    BY <1>4
  <2> HIDE DEF args
  <2> QED BY <1>1, <2>1, <2>2, <2>3, BeginType DEF TypeInv, Labels
<1> QED BY <1>2, <1>3, <1>4

LEMMA SeekPosType ==
  ASSUME TypeInv, NEW t \in Tasks, SeekPos(t)
  PROVE  TypeInv'
<1>1. UNCHANGED <<openFiles, openMutex, held, mountVars, dirVars, mountMutex>>
  BY DEF SeekPos
<1>2. PICK fd \in Fds, pos \in Int, whence \in {"SET", "CUR", "END"} :
        \/ Reject(t, "lseek", "EINVAL") /\ UNCHANGED fds
        \/ /\ ~BadSeek(whence, pos)
           /\ Reject(t, "lseek", "ok")
           /\ fds' = [fds EXCEPT ![fd].pos = pos]
  <2>1. PICK fd \in Fds, off \in Offsets, whence \in {"SET", "CUR", "END"} :
          LET pos == IF whence = "CUR" THEN fds[fd].pos + off ELSE off IN
            \/ /\ BadSeek(whence, pos)
               /\ Reject(t, "lseek", "EINVAL")
               /\ UNCHANGED fds
            \/ /\ ~BadSeek(whence, pos)
               /\ pos <= MaxPos
               /\ Reject(t, "lseek", "ok")
               /\ fds' = [fds EXCEPT ![fd].pos = pos]
    BY Zenon DEF SeekPos
  <2> DEFINE pos == IF whence = "CUR" THEN fds[fd].pos + off ELSE off
  <2>2. pos \in Int
    BY VfsConstants DEF TypeInv, DataOK
  <2> QED BY <2>1, <2>2
<1>3. CASE Reject(t, "lseek", "EINVAL") /\ UNCHANGED fds
  <2>1. DataOK'
    BY <1>1, <1>3 DEF TypeInv, DataOK, mountVars, dirVars
  <2> QED BY <1>1, <1>3, <2>1, RejectType DEF TypeInv, Codes
<1>4. CASE /\ ~BadSeek(whence, pos)
           /\ Reject(t, "lseek", "ok")
           /\ fds' = [fds EXCEPT ![fd].pos = pos]
  <2>1. pos \in Nat
    BY <1>4 DEF BadSeek
  <2>2. DataOK'
    BY <1>1, <1>4, <2>1 DEF TypeInv, DataOK, mountVars, dirVars
  <2> QED BY <1>1, <1>4, <2>2, RejectType DEF TypeInv, Codes
<1> QED BY <1>2, <1>3, <1>4

LEMMA CallReaddirType ==
  ASSUME TypeInv, NEW t \in Tasks, CallReaddir(t)
  PROVE  TypeInv'
<1>1. DataOK' /\ UNCHANGED dirVars
  BY DEF TypeInv, DataOK, CallReaddir, tableVars, mountVars, dirVars
<1>2. PICK d \in Dirs :
        \/ Reject(t, "readdir", "EINVAL")
        \/ Begin(t, "readdir", "dir_drv", [Blank EXCEPT !.dir = d])
  BY Zenon DEF CallReaddir
<1>3. CASE Reject(t, "readdir", "EINVAL")
  BY <1>1, <1>3, RejectType DEF TypeInv, Codes
<1>4. CASE Begin(t, "readdir", "dir_drv", [Blank EXCEPT !.dir = d])
  <2> DEFINE args == [Blank EXCEPT !.dir = d]
  <2>1. args \in Locals
    BY BlankType DEF Locals
  <2>2. Stage(t, "dir_drv", [args EXCEPT !.op = "readdir"])
    BY DEF Stage, Blank
  <2>3. Begin(t, "readdir", "dir_drv", args)
    BY <1>4
  <2> HIDE DEF args
  <2> QED BY <1>1, <2>1, <2>2, <2>3, BeginType DEF TypeInv, Labels
<1> QED BY <1>2, <1>3, <1>4

LEMMA CallClosedirType ==
  ASSUME TypeInv, NEW t \in Tasks, CallClosedir(t)
  PROVE  TypeInv'
<1>1. UNCHANGED <<openFiles, tableVars, mountVars, mountMutex>>
  BY DEF CallClosedir
<1>2. PICK d \in Dirs :
        /\ DirOwner[d] = t
        /\ \/ Reject(t, "closedir", "EBADF") /\ UNCHANGED dirVars
           \/ /\ d \in openDirs
              /\ Begin(t, "closedir", "closedir_drv",
                       [Blank EXCEPT !.dir = d, !.refs = <<dirs[d].mp>>])
              /\ openDirs' = openDirs \ {d}
              /\ UNCHANGED dirs
           \/ /\ d \in openDirs
              /\ Begin(t, "closedir", "dec",
                       [Blank EXCEPT !.refs = <<dirs[d].mp>>, !.res = "ok"])
              /\ openDirs' = openDirs \ {d}
              /\ dirs' = [dirs EXCEPT ![d] = NullDir]
  BY Zenon DEF CallClosedir
<1>3. CASE Reject(t, "closedir", "EBADF") /\ UNCHANGED dirVars
  <2>1. DataOK'
    BY <1>1, <1>3 DEF TypeInv, DataOK, tableVars, mountVars, dirVars
  <2> QED BY <1>3, <2>1, RejectType DEF TypeInv, Codes
<1>4. ASSUME d \in openDirs PROVE <<dirs[d].mp>> \in Seq(Mounts)
  BY <1>4 DEF TypeInv, DirOK
<1>5. CASE /\ d \in openDirs
           /\ Begin(t, "closedir", "closedir_drv",
                    [Blank EXCEPT !.dir = d, !.refs = <<dirs[d].mp>>])
           /\ openDirs' = openDirs \ {d}
           /\ UNCHANGED dirs
  <2> DEFINE args == [Blank EXCEPT !.dir = d, !.refs = <<dirs[d].mp>>]
  <2>1. args \in Locals
    BY <1>4, <1>5, BlankType DEF Locals
  <2>2. Stage(t, "closedir_drv", [args EXCEPT !.op = "closedir"])
    BY <1>2 DEF Stage, Blank
  <2>3. Begin(t, "closedir", "closedir_drv", args)
    BY <1>5
  <2>4. DataOK'
    BY <1>1, <1>5 DEF TypeInv, DataOK, tableVars, mountVars
  <2>5. DirOK'
    <3>1. /\ pc' = [pc EXCEPT ![t] = "closedir_drv"]
          /\ loc' = [loc EXCEPT ![t] = [args EXCEPT !.op = "closedir"]]
      BY <2>3 DEF Begin, Goto
    <3>2. [args EXCEPT !.op = "closedir"].dir = d
      BY DEF Blank
    <3> HIDE DEF args
    <3> QED BY <1>5, <3>1, <3>2 DEF TypeInv, DirOK, ControlOK
  <2> HIDE DEF args
  <2> QED BY <2>1, <2>2, <2>3, <2>4, <2>5, BeginMoves DEF TypeInv, Labels
<1>6. CASE /\ d \in openDirs
           /\ Begin(t, "closedir", "dec",
                    [Blank EXCEPT !.refs = <<dirs[d].mp>>, !.res = "ok"])
           /\ openDirs' = openDirs \ {d}
           /\ dirs' = [dirs EXCEPT ![d] = NullDir]
  <2> DEFINE args == [Blank EXCEPT !.refs = <<dirs[d].mp>>, !.res = "ok"]
  <2>1. args \in Locals
    BY <1>4, <1>6, BlankType DEF Locals, Codes
  <2>2. Stage(t, "dec", [args EXCEPT !.op = "closedir"])
    BY DEF Stage, Blank
  <2>3. Begin(t, "closedir", "dec", args)
    BY <1>6
  <2>4. DataOK'
    BY <1>1, <1>6 DEF TypeInv, DataOK, tableVars, mountVars, NullDir
  <2>5. DirOK'
    <3>1. \A u \in Tasks : pc'[u] \in {"opendir_drv", "closedir_drv"}
             => u # t /\ pc'[u] = pc[u] /\ loc'[u] = loc[u]
      BY <2>3 DEF Begin, Goto, TypeInv, ControlOK
    <3>2. ASSUME NEW u \in Tasks, u # t, pc[u] = "opendir_drv"
          PROVE  loc[u].dir \in Dirs /\ loc[u].dir # d
      BY <3>2, <1>2 DEF TypeInv, CallOK, Stage
    <3>3. \A e \in Dirs : e # d => dirs'[e] = dirs[e]
      BY <1>6 DEF TypeInv, DataOK
    <3>4. DirOK /\ openDirs' = openDirs \ {d} /\ openDirs \subseteq Dirs
      BY <1>6 DEF TypeInv, DataOK
    <3>5. \A e \in openDirs' : dirs'[e].mp \in Mounts
      BY <3>3, <3>4 DEF DirOK
    <3>6. ASSUME NEW u \in Tasks, pc'[u] = "opendir_drv"
          PROVE  dirs'[loc'[u].dir].mp \in Mounts
      <4>1. u # t /\ pc[u] = "opendir_drv" /\ loc'[u] = loc[u]
        BY <3>1, <3>6
      <4>2. dirs'[loc[u].dir] = dirs[loc[u].dir]
        BY <3>2, <3>3, <4>1
      <4> QED BY <3>4, <4>1, <4>2 DEF DirOK
    <3>7. ASSUME NEW u \in Tasks, pc'[u] = "closedir_drv"
          PROVE  loc'[u].dir \notin openDirs'
      BY <3>1, <3>4, <3>7 DEF DirOK
    <3> QED BY <3>5, <3>6, <3>7 DEF DirOK
  <2> HIDE DEF args
  <2> QED BY <2>1, <2>2, <2>3, <2>4, <2>5, BeginMoves DEF TypeInv, Labels
<1> QED BY <1>2, <1>3, <1>5, <1>6

-----------------------------------------------------------------------------
\* The steps inside a call that leave the directory streams alone.

LEMMA DirStays ==
  ASSUME TypeInv, NEW t \in Tasks, NEW l, NEW r, UNCHANGED dirVars,
         l \notin {"opendir_drv", "closedir_drv"},
         pc' = [pc EXCEPT ![t] = l], loc' = [loc EXCEPT ![t] = r]
  PROVE  DirOK'
<1>1. /\ \A u \in Tasks : pc'[u] \in {"opendir_drv", "closedir_drv"}
                           => pc'[u] = pc[u] /\ loc'[u] = loc[u]
      /\ dirs' = dirs /\ openDirs' = openDirs
  BY DEF TypeInv, ControlOK, dirVars
<1>2. DirOK
  BY DEF TypeInv
<1> QED BY <1>1, <1>2 DEF DirOK

LEMMA QuietFinish ==
  ASSUME TypeInv, NEW t \in Tasks, NEW code \in Codes, Finish(t, code),
         UNCHANGED dirVars
  PROVE  ControlOK' /\ CallOK' /\ DirOK'
<1>1. pc' = [pc EXCEPT ![t] = "idle"] /\ loc' = [loc EXCEPT ![t] = Blank]
  BY DEF Finish, Goto
<1> QED BY <1>1, FinishMoves, DirStays DEF TypeInv

LEMMA QuietRelease ==
  ASSUME TypeInv, NEW t \in Tasks, NEW code \in Codes, Release(t, code),
         UNCHANGED dirVars
  PROVE  ControlOK' /\ CallOK' /\ DirOK'
<1>1. /\ pc' = [pc EXCEPT ![t] = "dec"]
      /\ loc' = [loc EXCEPT ![t] = [loc[t] EXCEPT !.res = code]]
  BY DEF Release, Goto, TypeInv, ControlOK
<1> QED BY <1>1, ReleaseMoves, DirStays DEF TypeInv

LEMMA QuietGoto ==
  ASSUME TypeInv, NEW t \in Tasks, NEW l \in Labels, Goto(t, l),
         UNCHANGED <<loc, ret>>, UNCHANGED dirVars, Stage(t, l, loc[t]),
         l \notin {"opendir_drv", "closedir_drv"}
  PROVE  ControlOK' /\ CallOK' /\ DirOK'
<1>1. pc' = [pc EXCEPT ![t] = l] /\ loc' = [loc EXCEPT ![t] = loc[t]]
  BY DEF Goto, TypeInv, ControlOK
<1> QED BY <1>1, GotoMoves, DirStays DEF TypeInv

\* The call of task t goes to label l with new locals r.
LEMMA QuietMove ==
  ASSUME TypeInv, NEW t \in Tasks, NEW l \in Labels, NEW r \in Locals, Goto(t, l),
         loc' = [loc EXCEPT ![t] = r], UNCHANGED ret, UNCHANGED dirVars,
         Stage(t, l, r), l \notin {"opendir_drv", "closedir_drv"}
  PROVE  ControlOK' /\ CallOK' /\ DirOK'
<1>1. pc' = [pc EXCEPT ![t] = l] /\ ret' \in [Tasks -> Codes]
  BY DEF Goto, TypeInv, ControlOK
<1> QED BY <1>1, Moves, DirStays DEF TypeInv

LEMMA HereStage ==
  ASSUME TypeInv, NEW t \in Tasks
  PROVE  Stage(t, pc[t], loc[t]) /\ pc[t] \in Labels
BY DEF TypeInv, CallOK, ControlOK

LEMMA FindMountType ==
  ASSUME TypeInv, NEW t \in Tasks, FindMount(t)
  PROVE  TypeInv'
<1> DEFINE m == Resolve(Head(loc[t].names))
           r == [loc[t] EXCEPT !.m = m, !.tmp = openFiles[m],
                               !.names = Tail(@)]
<1>1. /\ pc[t] = "find" /\ UNCHANGED dirVars
      /\ UNCHANGED <<mounts, live, openFiles, fds, openMutex, held, dirs, openDirs>>
  BY DEF FindMount, mountVars, tableVars, dirVars
<1>2. \/ Finish(t, "ENOENT") /\ UNCHANGED mountMutex
      \/ Release(t, "ENOENT") /\ UNCHANGED mountMutex
      \/ /\ m # NoMount /\ mountMutex' = t /\ Goto(t, "inc") /\ UNCHANGED ret
         /\ loc' = [loc EXCEPT ![t].m = m, ![t].tmp = openFiles[m],
                               ![t].names = Tail(@)]
  BY Zenon DEF FindMount
<1>3. DataOK'
  BY <1>1, <1>2 DEF TypeInv, DataOK
<1>4. CASE Finish(t, "ENOENT") /\ UNCHANGED mountMutex
  BY <1>1, <1>3, <1>4, QuietFinish DEF TypeInv, Codes
<1>5. CASE Release(t, "ENOENT") /\ UNCHANGED mountMutex
  BY <1>1, <1>3, <1>5, QuietRelease DEF TypeInv, Codes
<1>6. CASE /\ m # NoMount /\ mountMutex' = t /\ Goto(t, "inc") /\ UNCHANGED ret
           /\ loc' = [loc EXCEPT ![t].m = m, ![t].tmp = openFiles[m],
                                 ![t].names = Tail(@)]
  <2>1. loc' = [loc EXCEPT ![t] = r]
    BY <1>6 DEF TypeInv, ControlOK
  <2>2. m \in Mounts
    BY <1>6, ResolveType DEF TypeInv
  <2>3. loc[t].names # <<>>
    BY <1>1, HereStage DEF Stage
  <2>4. r \in Locals /\ r.m = m /\ r.op = loc[t].op /\ r.dir = loc[t].dir
    <3> HIDE DEF m
    <3>1. Tail(loc[t].names) \in Seq(Names) /\ openFiles[m] \in 0 .. CountMod - 1
      BY <2>2, <2>3, LocalType DEF TypeInv, DataOK
    <3> QED BY <2>2, <3>1, LocalType DEF TypeInv, Locals
  <2>5. Stage(t, "inc", r)
    <3> HIDE DEF r, m
    <3> QED BY <2>2, <2>4, HereStage DEF Stage
  <2> HIDE DEF r, m
  <2> QED BY <1>1, <1>3, <1>6, <2>1, <2>4, <2>5, QuietMove DEF TypeInv, Labels
<1> QED BY <1>2, <1>4, <1>5, <1>6

LEMMA OpenLockType ==
  ASSUME TypeInv, NEW t \in Tasks, OpenLock(t)
  PROVE  TypeInv'
<1> DEFINE r == [loc[t] EXCEPT !.fd = 0]
<1>1. /\ pc[t] = "found" /\ Goto(t, "alloc") /\ UNCHANGED <<ret, dirVars>>
      /\ loc' = [loc EXCEPT ![t] = r]
  BY DEF OpenLock, TypeInv, ControlOK
<1>2. DataOK'
  BY DEF OpenLock, TypeInv, DataOK, mountVars, dirVars
<1>3. /\ r \in Locals /\ r.refs = loc[t].refs /\ r.op = loc[t].op
      /\ r.dir = loc[t].dir
  <2>1. loc[t] \in Locals /\ 0 \in 0 .. NFd
    BY LocalType, VfsConstants DEF TypeInv
  <2> QED BY <2>1 DEF Locals
<1>4. Stage(t, "alloc", r)
  <2> HIDE DEF r
  <2> QED BY <1>1, <1>3, HereStage DEF Stage
<1> HIDE DEF r
<1> QED BY <1>1, <1>2, <1>3, <1>4, QuietMove DEF TypeInv, Labels

LEMMA CheckMountType ==
  ASSUME TypeInv, NEW t \in Tasks, CheckMount(t)
  PROVE  TypeInv'
<1>1. /\ pc[t] = "check" /\ UNCHANGED dirVars
      /\ UNCHANGED <<mounts, live, openFiles, fds, openMutex, held, dirs, openDirs>>
  BY DEF CheckMount, mountVars, tableVars, dirVars
<1>2. /\ mountMutex' = t \/ mountMutex' = mountMutex
      /\ \/ Finish(t, "EBUSY")
         \/ Finish(t, "EINVAL")
         \/ UNCHANGED <<loc, ret>> /\ Goto(t, "umount_lock")
         \/ UNCHANGED <<loc, ret>> /\ Goto(t, "mount_drv")
         \/ UNCHANGED <<loc, ret>> /\ Goto(t, "format_drv")
  BY Zenon DEF CheckMount
<1>3. DataOK'
  BY <1>1, <1>2 DEF TypeInv, DataOK
<1>4. ASSUME NEW l \in {"umount_lock", "mount_drv", "format_drv"}
      PROVE  Stage(t, l, loc[t]) /\ l \in Labels
  BY <1>1, HereStage DEF Stage, Labels
<1> QED BY <1>1, <1>2, <1>3, <1>4, QuietFinish, QuietGoto DEF TypeInv, Codes

LEMMA UmountLockType ==
  ASSUME TypeInv, NEW t \in Tasks, UmountLock(t)
  PROVE  TypeInv'
<1>1. /\ pc[t] = "umount_lock" /\ UNCHANGED dirVars
      /\ UNCHANGED <<mounts, live, openFiles, fds, openMutex, held, dirs, openDirs>>
  BY DEF UmountLock, mountVars, tableVars, dirVars
<1>2. \/ Finish(t, "EBUSY") /\ UNCHANGED mountMutex
      \/ Goto(t, "umount_drv") /\ mountMutex' = t /\ UNCHANGED <<loc, ret>>
  BY DEF UmountLock
<1>3. DataOK'
  BY <1>1, <1>2 DEF TypeInv, DataOK
<1>4. Stage(t, "umount_drv", loc[t]) /\ "umount_drv" \in Labels
  BY <1>1, HereStage DEF Stage, Labels
<1> QED BY <1>1, <1>2, <1>3, <1>4, QuietFinish, QuietGoto DEF TypeInv, Codes

LEMMA FoundMountType ==
  ASSUME TypeInv, NEW t \in Tasks, FoundMount(t)
  PROVE  TypeInv'
<1> DEFINE r == [loc[t] EXCEPT !.refs = Append(@, loc[t].m), !.tmp = 0]
<1>1. /\ pc[t] = "inc" /\ Goto(t, "found") /\ UNCHANGED <<ret, dirVars>>
      /\ loc' = [loc EXCEPT ![t] = r]
  BY DEF FoundMount, TypeInv, ControlOK
<1>2. loc[t].m \in Mounts
  BY <1>1, HereStage DEF Stage
<1>3. DataOK'
  <2>1. (loc[t].tmp + 1) % CountMod \in 0 .. CountMod - 1
    BY LocalType, ModType DEF TypeInv
  <2>2. openFiles' = [openFiles EXCEPT ![loc[t].m] = (loc[t].tmp + 1) % CountMod]
        /\ mountMutex' = NoTask
        /\ UNCHANGED <<mounts, live, fds, openMutex, held, dirs, openDirs>>
    BY DEF FoundMount, mountVars, tableVars, dirVars
  <2> QED BY <2>1, <2>2 DEF TypeInv, DataOK
<1>4. r \in Locals /\ r.refs # <<>> /\ r.op = loc[t].op /\ r.dir = loc[t].dir
  <2>1. /\ loc[t] \in Locals /\ 0 \in 0 .. CountMod - 1
        /\ loc[t].refs \in Seq(Mounts)
    BY LocalType, VfsConstants DEF TypeInv
  <2>2. /\ Append(loc[t].refs, loc[t].m) \in Seq(Mounts)
        /\ Append(loc[t].refs, loc[t].m) # <<>>
    BY <1>2, <2>1
  <2> QED BY <2>1, <2>2 DEF Locals
<1>5. Stage(t, "found", r)
  <2> HIDE DEF r
  <2> QED BY <1>1, <1>4, HereStage DEF Stage
<1> HIDE DEF r
<1> QED BY <1>1, <1>3, <1>4, <1>5, QuietMove DEF TypeInv, Labels

LEMMA DecLoadType ==
  ASSUME TypeInv, NEW t \in Tasks, DecLoad(t)
  PROVE  TypeInv'
<1> DEFINE r == [loc[t] EXCEPT !.tmp = openFiles[Head(loc[t].refs)]]
<1>1. /\ pc[t] = "dec" /\ Goto(t, "dec_store") /\ UNCHANGED <<ret, dirVars>>
      /\ loc' = [loc EXCEPT ![t] = r] /\ loc[t].refs # <<>>
  BY DEF DecLoad, TypeInv, ControlOK
<1>2. DataOK'
  BY DEF DecLoad, TypeInv, DataOK, mountVars, tableVars, dirVars
<1>3. /\ r \in Locals /\ r.refs = loc[t].refs /\ r.op = loc[t].op
      /\ r.dir = loc[t].dir
  <2>1. Head(loc[t].refs) \in Mounts
    BY <1>1, LocalType DEF TypeInv
  <2>2. loc[t] \in Locals /\ openFiles[Head(loc[t].refs)] \in 0 .. CountMod - 1
    BY <2>1, LocalType DEF TypeInv, DataOK
  <2> QED BY <2>2 DEF Locals
<1>4. Stage(t, "dec_store", r)
  <2> HIDE DEF r
  <2> QED BY <1>1, <1>3, HereStage DEF Stage
<1> HIDE DEF r
<1> QED BY <1>1, <1>2, <1>3, <1>4, QuietMove DEF TypeInv, Labels

LEMMA DecStoreType ==
  ASSUME TypeInv, NEW t \in Tasks, DecStore(t)
  PROVE  TypeInv'
<1> DEFINE r == [loc[t] EXCEPT !.refs = Tail(@), !.tmp = 0]
<1>1. /\ pc[t] = "dec_store" /\ Goto(t, "dec") /\ UNCHANGED <<ret, dirVars>>
      /\ loc' = [loc EXCEPT ![t] = r]
  BY DEF DecStore, TypeInv, ControlOK
<1>2. DataOK'
  <2>1. (loc[t].tmp - 1) % CountMod \in 0 .. CountMod - 1
    BY LocalType, ModType DEF TypeInv
  <2>2. openFiles' = [openFiles EXCEPT ![Head(loc[t].refs)] =
                        (loc[t].tmp - 1) % CountMod]
        /\ UNCHANGED <<mounts, live, mountMutex, fds, openMutex, held, dirs,
                       openDirs>>
    BY DEF DecStore, mountVars, tableVars, dirVars
  <2> QED BY <2>1, <2>2 DEF TypeInv, DataOK
<1>3. r \in Locals /\ r.op = loc[t].op /\ r.dir = loc[t].dir
  <2>1. loc[t].refs # <<>>
    BY <1>1, HereStage DEF Stage
  <2>2. /\ loc[t] \in Locals /\ 0 \in 0 .. CountMod - 1
        /\ Tail(loc[t].refs) \in Seq(Mounts)
    BY <2>1, LocalType, VfsConstants DEF TypeInv
  <2> QED BY <2>2 DEF Locals
<1>4. Stage(t, "dec", r)
  <2> HIDE DEF r
  <2> QED BY <1>1, <1>3, HereStage DEF Stage
<1> HIDE DEF r
<1> QED BY <1>1, <1>2, <1>3, <1>4, QuietMove DEF TypeInv, Labels

LEMMA ReturnType ==
  ASSUME TypeInv, NEW t \in Tasks, Return(t)
  PROVE  TypeInv'
<1>1. /\ Finish(t, loc[t].res) /\ ClearSlot(loc[t].fd) /\ UNCHANGED dirVars
      /\ UNCHANGED <<openFiles, openMutex, held, mounts, live, dirs, openDirs,
                     mountMutex>>
  BY DEF Return, mountVars, dirVars
<1>2. DataOK'
  <2>1. CASE loc[t].fd \in Fds
    <3> DEFINE slot == [fds[loc[t].fd] EXCEPT !.tcb = NoTask]
               Slots == [tcb : Tasks \cup {NoTask}, mp : Mounts \cup {NoMount},
                         mode : Modes, pos : Nat, drv : BOOLEAN]
    <3>1. fds' = [fds EXCEPT ![loc[t].fd] = slot] /\ fds \in [Fds -> Slots]
      BY <1>1, <2>1 DEF ClearSlot, TypeInv, DataOK
    <3>2. slot \in Slots
      BY <2>1, <3>1
    <3>3. fds' \in [Fds -> Slots]
      <4> HIDE DEF slot, Slots
      <4> QED BY <3>1, <3>2
    <3> QED BY <1>1, <3>3 DEF TypeInv, DataOK
  <2>2. CASE loc[t].fd \notin Fds
    <3>1. fds' = fds
      BY <1>1, <2>2 DEF ClearSlot
    <3> QED BY <1>1, <3>1 DEF TypeInv, DataOK
  <2> QED BY <2>1, <2>2
<1>3. loc[t].res \in Codes
  BY LocalType DEF TypeInv
<1> QED BY <1>1, <1>2, <1>3, QuietFinish DEF TypeInv

LEMMA AllocateFdType ==
  ASSUME TypeInv, NEW t \in Tasks, AllocateFd(t)
  PROVE  TypeInv'
<1> DEFINE r == [loc[t] EXCEPT !.fd = loc[t].fd + 1]
<1>1. /\ pc[t] = "alloc" /\ UNCHANGED dirVars
      /\ UNCHANGED <<openFiles, fds, held, mounts, live, dirs, openDirs,
                     mountMutex>>
  BY DEF AllocateFd, mountVars, dirVars
<1>2. \/ openMutex' = NoTask /\ Release(t, "ENFILE")
      \/ /\ loc[t].fd < NFd
         /\ loc' = [loc EXCEPT ![t].fd = loc[t].fd + 1]
         /\ UNCHANGED <<openMutex, pc, ret>>
      \/ /\ loc[t].fd < NFd
         /\ Goto(t, "init")
         /\ UNCHANGED <<loc, openMutex, ret>>
  BY Zenon DEF AllocateFd
<1>3. DataOK'
  BY <1>1, <1>2 DEF TypeInv, DataOK
<1>4. CASE openMutex' = NoTask /\ Release(t, "ENFILE")
  BY <1>1, <1>3, <1>4, QuietRelease DEF TypeInv, Codes
<1>5. CASE /\ loc[t].fd < NFd
           /\ loc' = [loc EXCEPT ![t].fd = loc[t].fd + 1]
           /\ UNCHANGED <<openMutex, pc, ret>>
  <2>1. loc' = [loc EXCEPT ![t] = r] /\ Goto(t, "alloc") /\ UNCHANGED ret
    BY <1>1, <1>5 DEF TypeInv, ControlOK, Goto
  <2>2. /\ r \in Locals /\ r.refs = loc[t].refs /\ r.op = loc[t].op
        /\ r.dir = loc[t].dir
    <3>1. loc[t] \in Locals /\ loc[t].fd + 1 \in 0 .. NFd
      BY <1>5, LocalType, VfsConstants DEF TypeInv
    <3> QED BY <3>1 DEF Locals
  <2>3. Stage(t, "alloc", r)
    <3> HIDE DEF r
    <3> QED BY <1>1, <2>2, HereStage DEF Stage
  <2> HIDE DEF r
  <2> QED BY <1>1, <1>3, <2>1, <2>2, <2>3, QuietMove DEF TypeInv, Labels
<1>6. CASE /\ loc[t].fd < NFd
           /\ Goto(t, "init")
           /\ UNCHANGED <<loc, openMutex, ret>>
  <2>1. loc[t].fd \in Fds
    BY <1>6, LocalType, VfsConstants DEF TypeInv
  <2>2. Stage(t, "init", loc[t])
    BY <1>1, <2>1, HereStage DEF Stage
  <2> QED BY <1>1, <1>3, <1>6, <2>2, QuietGoto DEF TypeInv, Labels
<1> QED BY <1>2, <1>4, <1>5, <1>6

LEMMA InitFdType ==
  ASSUME TypeInv, NEW t \in Tasks, InitFd(t)
  PROVE  TypeInv'
<1> DEFINE fd == loc[t].fd
           m == Head(loc[t].refs)
           slot == [fds[fd] EXCEPT !.tcb = t, !.mp = m, !.mode = loc[t].mode,
                                   !.pos = 0, !.drv = "open" \notin Implements[m]]
           Slots == [tcb : Tasks \cup {NoTask}, mp : Mounts \cup {NoMount},
                     mode : Modes, pos : Nat, drv : BOOLEAN]
<1>1. /\ pc[t] = "init" /\ openMutex' = NoTask /\ UNCHANGED dirVars
      /\ UNCHANGED <<openFiles, mounts, live, dirs, openDirs, mountMutex>>
  BY DEF InitFd, mountVars, dirVars
<1>2. /\ fds' = [fds EXCEPT ![fd] = slot]
      /\ \/ Goto(t, "open_drv") /\ UNCHANGED <<loc, ret, held>>
         \/ GrantFd(t, fd)
  BY Zenon DEF InitFd
<1>3. /\ fd \in Fds /\ m \in Mounts /\ loc[t].mode \in Modes
      /\ fds \in [Fds -> Slots]
  BY <1>1, HereStage, LocalType DEF Stage, TypeInv, DataOK, Locals
<1>4. slot \in Slots
  <2> HIDE DEF m, fd
  <2> QED BY <1>3
<1>5. fds' \in [Fds -> Slots]
  <2> HIDE DEF slot, Slots
  <2> QED BY <1>2, <1>3, <1>4
<1>6. DataOK'
  <2>1. held' \in [Tasks -> SUBSET Fds]
    BY <1>2, <1>3 DEF GrantFd, TypeInv, DataOK
  <2> QED BY <1>1, <1>5, <2>1 DEF TypeInv, DataOK
<1>7. Stage(t, "open_drv", loc[t])
  BY <1>1, HereStage DEF Stage
<1> HIDE DEF fd, slot, m
<1> QED BY <1>1, <1>2, <1>6, <1>7, QuietGoto, QuietFinish DEF TypeInv, Labels,
           Codes, GrantFd

LEMMA OpenDriverType ==
  ASSUME TypeInv, NEW t \in Tasks, OpenDriver(t)
  PROVE  TypeInv'
<1>1. /\ UNCHANGED dirVars
      /\ UNCHANGED <<openFiles, openMutex, mounts, live, dirs, openDirs, mountMutex>>
  BY DEF OpenDriver, mountVars, dirVars
<1>2. \/ fds' = [fds EXCEPT ![loc[t].fd].drv = TRUE] /\ GrantFd(t, loc[t].fd)
      \/ Release(t, "EIO") /\ UNCHANGED <<fds, held>>
  BY DEF OpenDriver
<1>3. pc[t] = "open_drv"
  BY DEF OpenDriver
<1>4. CASE fds' = [fds EXCEPT ![loc[t].fd].drv = TRUE] /\ GrantFd(t, loc[t].fd)
  <2> DEFINE fd == loc[t].fd
             slot == [fds[fd] EXCEPT !.drv = TRUE]
             Slots == [tcb : Tasks \cup {NoTask}, mp : Mounts \cup {NoMount},
                       mode : Modes, pos : Nat, drv : BOOLEAN]
  <2>1. fd \in Fds
    BY <1>3, HereStage DEF Stage
  <2>2. fds \in [Fds -> Slots]
    BY DEF TypeInv, DataOK
  <2>3. fds' = [fds EXCEPT ![fd] = slot] /\ slot \in Slots
    <3> HIDE DEF fd
    <3>1. fds' = [fds EXCEPT ![fd].drv = TRUE]
      BY <1>4 DEF fd
    <3> QED BY <2>1, <2>2, <3>1
  <2>4. fds' \in [Fds -> Slots]
    <3> HIDE DEF slot, Slots, fd
    <3> QED BY <2>1, <2>2, <2>3
  <2>5. held' \in [Tasks -> SUBSET Fds]
    BY <1>4, <2>1 DEF GrantFd, TypeInv, DataOK
  <2>6. DataOK'
    BY <1>1, <2>4, <2>5 DEF TypeInv, DataOK
  <2> QED BY <1>1, <1>4, <2>6, QuietFinish DEF TypeInv, GrantFd, Codes
<1>5. CASE Release(t, "EIO") /\ UNCHANGED <<fds, held>>
  <2>1. DataOK'
    BY <1>1, <1>5 DEF TypeInv, DataOK
  <2> QED BY <1>1, <1>5, <2>1, QuietRelease DEF TypeInv, Codes
<1> QED BY <1>2, <1>4, <1>5

LEMMA CloseDriverType ==
  ASSUME TypeInv, NEW t \in Tasks, CloseDriver(t)
  PROVE  TypeInv'
<1>1. /\ UNCHANGED dirVars
      /\ UNCHANGED <<openFiles, openMutex, held, mounts, live, dirs, openDirs,
                     mountMutex>>
      /\ fds' = [fds EXCEPT ![loc[t].fd].drv = FALSE]
  BY DEF CloseDriver, mountVars, dirVars
<1>2. PICK code \in Outcomes : Release(t, code)
  BY DEF CloseDriver
<1>3. DataOK'
  BY <1>1 DEF TypeInv, DataOK
<1> QED BY <1>1, <1>2, <1>3, QuietRelease DEF TypeInv, Codes, Outcomes

LEMMA FileDriverType ==
  ASSUME TypeInv, NEW t \in Tasks, FileDriver(t) \/ ReaddirDriver(t)
  PROVE  TypeInv'
<1>1. DataOK' /\ UNCHANGED dirVars
  BY DEF FileDriver, ReaddirDriver, TypeInv, DataOK, tableVars, mountVars, dirVars
<1>2. PICK code \in Outcomes : Finish(t, code)
  BY DEF FileDriver, ReaddirDriver
<1> QED BY <1>1, <1>2, QuietFinish DEF TypeInv, Codes, Outcomes

LEMMA PathDriverType ==
  ASSUME TypeInv, NEW t \in Tasks, PathDriver(t)
  PROVE  TypeInv'
<1>1. DataOK' /\ UNCHANGED dirVars
  BY DEF PathDriver, TypeInv, DataOK, tableVars, mountVars, dirVars
<1>2. PICK code \in Outcomes : Release(t, code)
  BY DEF PathDriver
<1> QED BY <1>1, <1>2, QuietRelease DEF TypeInv, Codes, Outcomes

LEMMA PathCallType ==
  ASSUME TypeInv, NEW t \in Tasks, PathCall(t)
  PROVE  TypeInv'
<1>1. DataOK' /\ UNCHANGED dirVars /\ pc[t] = "found"
  BY DEF PathCall, TypeInv, DataOK, tableVars, mountVars, dirVars
<1>2. \/ Release(t, Unsupported(loc[t].op))
      \/ Release(t, "EXDEV")
      \/ loc[t].names # <<>> /\ Goto(t, "find") /\ UNCHANGED <<loc, ret>>
      \/ Goto(t, "path_drv") /\ UNCHANGED <<loc, ret>>
  BY Zenon DEF PathCall
<1>3. Unsupported(loc[t].op) \in Codes /\ "EXDEV" \in Codes
  BY DEF Unsupported, Codes
<1>4. /\ loc[t].names # <<>> => Stage(t, "find", loc[t])
      /\ Stage(t, "path_drv", loc[t])
  BY <1>1, HereStage DEF Stage
<1> QED BY <1>1, <1>2, <1>3, <1>4, QuietRelease, QuietGoto DEF TypeInv, Labels

LEMMA MountDriverType ==
  ASSUME TypeInv, NEW t \in Tasks, MountDriver(t)
  PROVE  TypeInv'
<1>1. /\ pc[t] = "mount_drv" /\ mountMutex' = NoTask /\ UNCHANGED dirVars
      /\ UNCHANGED <<openFiles, fds, openMutex, held, dirs, openDirs>>
  BY DEF MountDriver, tableVars, dirVars
<1>2. \/ /\ mounts' = Append(mounts, loc[t].m) /\ live' = live \cup {loc[t].m}
         /\ Finish(t, "ok")
      \/ Finish(t, "EIO") /\ UNCHANGED <<mounts, live>>
  BY DEF MountDriver, mountVars
<1>3. loc[t].m \in Mounts
  BY <1>1, HereStage DEF Stage
<1>4. mounts' \in Seq(Mounts) /\ live' \subseteq Mounts
  <2>1. mounts \in Seq(Mounts) /\ live \subseteq Mounts
    BY DEF TypeInv, DataOK
  <2>2. Append(mounts, loc[t].m) \in Seq(Mounts)
    BY <1>3, <2>1
  <2> QED BY <1>2, <1>3, <2>1, <2>2
<1>5. DataOK'
  BY <1>1, <1>4 DEF TypeInv, DataOK
<1> QED BY <1>1, <1>2, <1>5, QuietFinish DEF TypeInv, Codes

LEMMA UmountDriverType ==
  ASSUME TypeInv, NEW t \in Tasks, UmountDriver(t)
  PROVE  TypeInv'
<1>1. /\ pc[t] = "umount_drv" /\ mountMutex' = NoTask /\ UNCHANGED dirVars
      /\ UNCHANGED <<openFiles, fds, openMutex, held, dirs, openDirs>>
  BY DEF UmountDriver, tableVars, dirVars
<1>2. /\ \/ mounts' = WithoutMount(loc[t].m) /\ live' = live \ {loc[t].m}
         \/ UNCHANGED <<mounts, live>>
      /\ Finish(t, "ok") \/ Finish(t, "EINVAL") \/ Finish(t, "EIO")
  BY DEF UmountDriver, mountVars
<1>3. WithoutMount(loc[t].m) \in Seq(Mounts)
  BY WithoutMountType DEF TypeInv
<1>4. DataOK'
  BY <1>1, <1>2, <1>3 DEF TypeInv, DataOK
<1> QED BY <1>1, <1>2, <1>4, QuietFinish DEF TypeInv, Codes

LEMMA FormatDriverType ==
  ASSUME TypeInv, NEW t \in Tasks, FormatDriver(t)
  PROVE  TypeInv'
<1>1. /\ UNCHANGED dirVars
      /\ UNCHANGED <<mounts, openFiles, fds, openMutex, held, dirs, openDirs,
                     mountMutex>>
  BY DEF FormatDriver, tableVars, dirVars
<1>2. /\ live' = live \ {loc[t].m} \/ live' = live
      /\ \E code \in Codes : Finish(t, code)
  BY DEF FormatDriver, Outcomes, Codes
<1>3. DataOK'
  BY <1>1, <1>2 DEF TypeInv, DataOK
<1> QED BY <1>1, <1>2, <1>3, QuietFinish DEF TypeInv

-----------------------------------------------------------------------------
\* The steps on directory streams.  A stream lives on one task's stack, so no
\* other task is opening or closing it.

LEMMA OtherDir ==
  ASSUME TypeInv, NEW t \in Tasks, NEW u \in Tasks, u # t,
         pc[t] = "closedir_drv" \/ loc[t].op = "opendir",
         pc[u] \in {"opendir_drv", "closedir_drv"}
  PROVE  /\ loc[t].dir \in Dirs /\ loc[u].dir \in Dirs
         /\ loc[t].dir # loc[u].dir
BY DEF TypeInv, CallOK, Stage

LEMMA OpendirInitType ==
  ASSUME TypeInv, NEW t \in Tasks, OpendirInit(t)
  PROVE  TypeInv'
<1> DEFINE m == Head(loc[t].refs)
           d == loc[t].dir
<1>1. /\ pc[t] = "found" /\ loc[t].op = "opendir"
      /\ UNCHANGED <<openFiles, fds, openMutex, held, mounts, live, mountMutex>>
  BY DEF OpendirInit, mountVars, tableVars
<1>2. \/ Finish(t, "EINVAL") /\ UNCHANGED dirVars
      \/ /\ dirs' = [dirs EXCEPT ![d] = [mp |-> m, drv |-> FALSE]]
         /\ Goto(t, "opendir_drv") /\ UNCHANGED <<loc, ret, openDirs>>
      \/ /\ dirs' = [dirs EXCEPT ![d] = [mp |-> m, drv |-> TRUE]]
         /\ openDirs' = openDirs \cup {d} /\ Finish(t, "ok")
  BY Zenon DEF OpendirInit
<1>3. d \in Dirs /\ m \in Mounts
  BY <1>1, HereStage, LocalType DEF Stage, TypeInv
<1>4. CASE Finish(t, "EINVAL") /\ UNCHANGED dirVars
  <2>1. DataOK'
    BY <1>1, <1>4 DEF TypeInv, DataOK, dirVars
  <2> QED BY <1>4, <2>1, QuietFinish DEF TypeInv, Codes
<1>5. ASSUME NEW b \in BOOLEAN, NEW l, l \in {"idle", "opendir_drv"},
             dirs' = [dirs EXCEPT ![d] = [mp |-> m, drv |-> b]],
             openDirs' = openDirs \/ openDirs' = openDirs \cup {d},
             Goto(t, l), l = "opendir_drv" => UNCHANGED loc,
             \A u \in Tasks : u # t => loc'[u] = loc[u]
      PROVE  DataOK' /\ DirOK'
  <2>1. DataOK'
    BY <1>1, <1>3, <1>5 DEF TypeInv, DataOK
  <2>2. /\ dirs'[d].mp = m
        /\ \A e \in Dirs : e # d => dirs'[e] = dirs[e]
    BY <1>3, <1>5 DEF TypeInv, DataOK
  <2>3. \A e \in openDirs' : dirs'[e].mp \in Mounts
    BY <1>3, <1>5, <2>2 DEF TypeInv, DirOK, DataOK
  <2>4. pc'[t] = l /\ \A u \in Tasks : u # t => pc'[u] = pc[u]
    BY <1>5 DEF Goto, TypeInv, ControlOK
  <2>5. ASSUME NEW u \in Tasks, pc'[u] = "opendir_drv"
        PROVE  dirs'[loc'[u].dir].mp \in Mounts
    <3>1. CASE u = t
      BY <1>3, <1>5, <2>2, <2>4, <2>5, <3>1
    <3>2. CASE u # t
      <4>1. pc[u] = "opendir_drv" /\ loc'[u] = loc[u]
        BY <1>5, <2>4, <2>5, <3>2
      <4>2. loc[u].dir \in Dirs /\ loc[u].dir # d
        BY <1>1, <3>2, <4>1, OtherDir
      <4> HIDE DEF d
      <4> QED BY <2>2, <4>1, <4>2 DEF TypeInv, DirOK
    <3> QED BY <3>1, <3>2
  <2>6. ASSUME NEW u \in Tasks, pc'[u] = "closedir_drv"
        PROVE  loc'[u].dir \notin openDirs'
    <3>1. u # t /\ pc[u] = "closedir_drv" /\ loc'[u] = loc[u]
      BY <1>5, <2>4, <2>6
    <3>2. loc[u].dir # d
      BY <1>1, <3>1, OtherDir
    <3> HIDE DEF d
    <3> QED BY <1>5, <3>1, <3>2 DEF TypeInv, DirOK
  <2> QED BY <2>1, <2>3, <2>5, <2>6 DEF DirOK
<1>6. CASE /\ dirs' = [dirs EXCEPT ![d] = [mp |-> m, drv |-> FALSE]]
           /\ Goto(t, "opendir_drv") /\ UNCHANGED <<loc, ret, openDirs>>
  <2>1. DataOK' /\ DirOK'
    <3> HIDE DEF d, m
    <3> QED BY <1>5, <1>6
  <2>2. Stage(t, "opendir_drv", loc[t])
    BY <1>1, HereStage DEF Stage
  <2> QED BY <1>6, <2>1, <2>2, GotoMoves DEF TypeInv, Labels
<1>7. CASE /\ dirs' = [dirs EXCEPT ![d] = [mp |-> m, drv |-> TRUE]]
           /\ openDirs' = openDirs \cup {d} /\ Finish(t, "ok")
  <2>1. Goto(t, "idle") /\ \A u \in Tasks : u # t => loc'[u] = loc[u]
    BY <1>7 DEF Finish, TypeInv, ControlOK
  <2>2. DataOK' /\ DirOK'
    <3> HIDE DEF d, m
    <3> QED BY <1>5, <1>7, <2>1
  <2> QED BY <1>7, <2>2, FinishMoves DEF TypeInv, Codes
<1> QED BY <1>2, <1>4, <1>6, <1>7

LEMMA OpendirDriverType ==
  ASSUME TypeInv, NEW t \in Tasks, OpendirDriver(t)
  PROVE  TypeInv'
<1> DEFINE d == loc[t].dir
<1>1. /\ pc[t] = "opendir_drv"
      /\ UNCHANGED <<openFiles, fds, openMutex, held, mounts, live, mountMutex>>
  BY DEF OpendirDriver, mountVars, tableVars
<1>2. \/ /\ dirs' = [dirs EXCEPT ![d].drv = TRUE]
         /\ openDirs' = openDirs \cup {d} /\ Finish(t, "ok")
      \/ Release(t, "EIO") /\ UNCHANGED dirVars
  BY DEF OpendirDriver
<1>3. d \in Dirs /\ loc[t].op = "opendir" /\ dirs[d].mp \in Mounts
  BY <1>1, HereStage DEF Stage, TypeInv, DirOK
<1>4. CASE Release(t, "EIO") /\ UNCHANGED dirVars
  <2>1. DataOK'
    BY <1>1, <1>4 DEF TypeInv, DataOK, dirVars
  <2> QED BY <1>4, <2>1, QuietRelease DEF TypeInv, Codes
<1>5. CASE /\ dirs' = [dirs EXCEPT ![d].drv = TRUE]
           /\ openDirs' = openDirs \cup {d} /\ Finish(t, "ok")
  <2>1. DataOK'
    BY <1>1, <1>3, <1>5 DEF TypeInv, DataOK
  <2>2. \A e \in Dirs : dirs'[e].mp = dirs[e].mp
    BY <1>5 DEF TypeInv, DataOK
  <2>3. \A u \in Tasks : pc'[u] \in {"opendir_drv", "closedir_drv"}
          => u # t /\ pc'[u] = pc[u] /\ loc'[u] = loc[u]
    BY <1>5 DEF Finish, Goto, TypeInv, ControlOK
  <2>4. \A e \in openDirs' : dirs'[e].mp \in Mounts
    <3> HIDE DEF d
    <3> QED BY <1>3, <1>5, <2>2 DEF TypeInv, DirOK, DataOK
  <2>5. ASSUME NEW u \in Tasks, pc'[u] = "opendir_drv"
        PROVE  dirs'[loc'[u].dir].mp \in Mounts
    <3>1. u # t /\ pc[u] = "opendir_drv" /\ loc'[u] = loc[u]
      BY <2>3, <2>5
    <3>2. loc[u].dir \in Dirs
      BY <1>3, <3>1, OtherDir
    <3> QED BY <2>2, <3>1, <3>2 DEF TypeInv, DirOK
  <2>6. ASSUME NEW u \in Tasks, pc'[u] = "closedir_drv"
        PROVE  loc'[u].dir \notin openDirs'
    <3>1. u # t /\ pc[u] = "closedir_drv" /\ loc'[u] = loc[u]
      BY <2>3, <2>6
    <3>2. loc[u].dir # d
      BY <1>3, <3>1, OtherDir
    <3> HIDE DEF d
    <3> QED BY <1>5, <3>1, <3>2 DEF TypeInv, DirOK
  <2>7. DirOK'
    BY <2>4, <2>5, <2>6 DEF DirOK
  <2> QED BY <1>5, <2>1, <2>7, FinishMoves DEF TypeInv, Codes
<1> QED BY <1>2, <1>4, <1>5

LEMMA ClosedirDriverType ==
  ASSUME TypeInv, NEW t \in Tasks, ClosedirDriver(t)
  PROVE  TypeInv'
<1> DEFINE d == loc[t].dir
<1>1. /\ pc[t] = "closedir_drv" /\ dirs' = [dirs EXCEPT ![d] = NullDir]
      /\ UNCHANGED <<openFiles, fds, openMutex, held, mounts, live, mountMutex,
                     openDirs>>
  BY DEF ClosedirDriver, mountVars, tableVars
<1>2. PICK code \in Outcomes : Release(t, code)
  BY DEF ClosedirDriver
<1>3. d \in Dirs /\ d \notin openDirs
  BY <1>1, HereStage DEF Stage, TypeInv, DirOK
<1>4. DataOK'
  BY <1>1, <1>3 DEF TypeInv, DataOK, NullDir
<1>5. DirOK'
  <2>1. \A u \in Tasks : pc'[u] \in {"opendir_drv", "closedir_drv"}
          => u # t /\ pc'[u] = pc[u] /\ loc'[u] = loc[u]
    BY <1>2 DEF Release, Goto, TypeInv, ControlOK
  <2>2. \A e \in Dirs : e # d => dirs'[e] = dirs[e]
    BY <1>1, <1>3 DEF TypeInv, DataOK
  <2>3. ASSUME NEW u \in Tasks, pc'[u] = "opendir_drv"
        PROVE  dirs'[loc'[u].dir].mp \in Mounts
    <3>1. u # t /\ pc[u] = "opendir_drv" /\ loc'[u] = loc[u]
      BY <2>1, <2>3
    <3>2. loc[u].dir \in Dirs /\ loc[u].dir # d
      BY <1>1, <3>1, OtherDir
    <3> HIDE DEF d
    <3> QED BY <2>2, <3>1, <3>2 DEF TypeInv, DirOK
  <2>4. \A e \in openDirs' : dirs'[e].mp \in Mounts
    <3> HIDE DEF d
    <3> QED BY <1>1, <1>3, <2>2 DEF TypeInv, DirOK, DataOK
  <2>5. \A u \in Tasks : pc'[u] = "closedir_drv" => loc'[u].dir \notin openDirs'
    BY <1>1, <2>1 DEF TypeInv, DirOK
  <2> QED BY <2>3, <2>4, <2>5 DEF DirOK
<1> QED BY <1>2, <1>4, <1>5, ReleaseMoves DEF TypeInv, Codes, Outcomes

-----------------------------------------------------------------------------
LEMMA TypeStep == TypeInv /\ [Next]_vars => TypeInv'
<1> SUFFICES ASSUME TypeInv, [Next]_vars PROVE TypeInv'
  OBVIOUS
<1>1. ASSUME NEW t \in Tasks, Call(t) PROVE TypeInv'
  BY <1>1, CallPathType, CallRenameType, CallOpendirType, CallMountType,
     CallCloseType, CallFileType, SeekPosType, CallReaddirType,
     CallClosedirType, Zenon DEF Call
<1>2. ASSUME NEW t \in Tasks, Acquire(t) PROVE TypeInv'
  BY <1>2, FindMountType, OpenLockType, CheckMountType, UmountLockType, Zenon
     DEF Acquire
<1>3. ASSUME NEW t \in Tasks, Run(t) PROVE TypeInv'
  BY <1>3, FoundMountType, DecLoadType, DecStoreType, ReturnType,
     AllocateFdType, InitFdType, OpenDriverType, CloseDriverType,
     FileDriverType, PathCallType, PathDriverType, OpendirInitType,
     OpendirDriverType, ClosedirDriverType, MountDriverType, UmountDriverType,
     FormatDriverType, Zenon DEF Run
<1>4. ASSUME UNCHANGED vars PROVE TypeInv'
  BY <1>4 DEF vars, TypeInv, ControlOK, DataOK, CallOK, DirOK, Stage
<1> QED BY <1>1, <1>2, <1>3, <1>4 DEF Next

LEMMA TypeInit == Init => TypeInv
<1> SUFFICES ASSUME Init PROVE TypeInv
  OBVIOUS
<1>1. ControlOK
  BY BlankType DEF Init, ControlOK, Labels, Codes
<1>2. DataOK
  BY VfsConstants DEF Init, DataOK, FreeSlot, NullDir
<1>3. CallOK /\ DirOK
  BY DEF Init, CallOK, DirOK, Stage, Blank
<1> QED BY <1>1, <1>2, <1>3 DEF TypeInv

\* For every number of tasks, mounts, streams and descriptors and every width
\* of open_files, no variable of the VFS layer leaves its type: open_files stays
\* in its range, and every reference a call holds is to a mount object.
THEOREM TypeSafe == Spec => []TypeOK
<1>1. TypeInv => TypeOK
  BY Zenon DEF TypeInv, ControlOK, DataOK, TypeOK
<1> QED BY <1>1, TypeInit, TypeStep, PTL DEF Spec

-----------------------------------------------------------------------------
(***************************************************************************)
(* The mount list names each mounted volume once, for every number of tasks *)
(* and mounts.  The list only changes in the section of _mount_mutex that   *)
(* vfs_mount and vfs_umount hold around the driver call, so what            *)
(* check_mount found before vfs_mount's driver call still holds after it.   *)
(* vfs_format gives the mutex up before its driver call: with more than one *)
(* task the theorem therefore excludes it.                                  *)
(***************************************************************************)
\* Nothing can mount the volume vfs_format works on.
FormatAlone == "format" \in Calls => \A t, u \in Tasks : t = u

\* What a call knows of the list at label l with locals r.
ListStage(l, r) ==
  /\ l \in {"mount_drv", "format_drv"} => r.m \notin Listed
  /\ (l = "check" /\ r.op = "format") \/ l = "format_drv" => "format" \in Calls

ListStages == \A t \in Tasks : ListStage(pc[t], loc[t])

NoRepeat == \A i, j \in DOMAIN mounts : mounts[i] = mounts[j] => i = j

ListInv == NoRepeat /\ Listed = live /\ ListStages

-----------------------------------------------------------------------------
\* The list after vfs_mount's clist_append and vfs_umount's clist_remove.

LEMMA Appended ==
  ASSUME TypeInv, NoRepeat, NEW m \in Mounts, m \notin Listed,
         mounts' = Append(mounts, m)
  PROVE  NoRepeat' /\ Listed' = Listed \cup {m}
<1> DEFINE n == Len(mounts)
<1>1. /\ n \in Nat /\ DOMAIN mounts = 1 .. n /\ DOMAIN mounts' = 1 .. n + 1
      /\ mounts'[n + 1] = m /\ \A i \in 1 .. n : mounts'[i] = mounts[i]
  BY DEF TypeInv, DataOK
<1> HIDE DEF n
<1>2. \A i \in 1 .. n : mounts[i] # m
  BY <1>1 DEF Listed
<1>3. \A i \in 1 .. n + 1 : i \in 1 .. n \/ i = n + 1
  BY <1>1
<1>4. NoRepeat'
  <2>1. ASSUME NEW i \in DOMAIN mounts', NEW j \in DOMAIN mounts', mounts'[i] = mounts'[j]
        PROVE  i = j
    <3>1. CASE i \in 1 .. n /\ j \in 1 .. n
      BY <1>1, <2>1, <3>1 DEF NoRepeat
    <3> QED BY <1>1, <1>2, <1>3, <2>1, <3>1
  <2> QED BY <2>1 DEF NoRepeat
<1>5. Listed' = Listed \cup {m}
  <2>1. ASSUME NEW x PROVE x \in Listed' <=> x \in Listed \cup {m}
    <3>1. ASSUME x \in Listed' PROVE x \in Listed \cup {m}
      <4>1. PICK i \in 1 .. n + 1 : x = mounts'[i]
        BY <1>1, <3>1 DEF Listed
      <4> QED BY <1>1, <1>3, <4>1 DEF Listed
    <3>2. ASSUME x \in Listed \cup {m} PROVE x \in Listed'
      <4>1. n + 1 \in 1 .. n + 1 /\ 1 .. n \subseteq 1 .. n + 1
        BY <1>1
      <4> QED BY <1>1, <3>2, <4>1 DEF Listed
    <3> QED BY <3>1, <3>2
  <2> QED BY <2>1
<1> QED BY <1>4, <1>5

LEMMA Removed ==
  ASSUME TypeInv, NoRepeat, NEW m, mounts' = WithoutMount(m)
  PROVE  NoRepeat' /\ Listed' = Listed \ {m}
<1>1. CASE m \notin Listed
  <2>1. mounts' = mounts
    BY <1>1 DEF WithoutMount
  <2> QED BY <1>1, <2>1 DEF NoRepeat, Listed
<1>2. CASE m \in Listed
  <2> DEFINE n == Len(mounts)
             at == CHOOSE i \in DOMAIN mounts : mounts[i] = m
             Old(i) == IF i < at THEN i ELSE i + 1
  <2>1. mounts \in Seq(Mounts) /\ n \in Nat /\ DOMAIN mounts = 1 .. n
    BY DEF TypeInv, DataOK
  <2>2. at \in 1 .. n /\ mounts[at] = m
    BY <1>2, <2>1 DEF Listed
  <2> HIDE DEF at
  <2>3. mounts' = SubSeq(mounts, 1, at - 1) \o SubSeq(mounts, at + 1, n)
    BY <1>2 DEF WithoutMount, at
  <2>4. /\ DOMAIN mounts' = 1 .. n - 1
        /\ \A i \in 1 .. n - 1 : mounts'[i] = mounts[Old(i)]
    <3> DEFINE a == SubSeq(mounts, 1, at - 1)
               b == SubSeq(mounts, at + 1, n)
    <3>1. /\ a \in Seq(Mounts) /\ Len(a) = at - 1
          /\ \A i \in 1 .. at - 1 : a[i] = mounts[i]
      <4>1. /\ 1 \in 1 .. n + 1 /\ at - 1 \in 0 .. n /\ at - 1 - 1 + 1 = at - 1
        BY <2>1, <2>2
      <4> QED BY <2>1, <2>2, <4>1
    <3>2. /\ b \in Seq(Mounts) /\ Len(b) = n - at
          /\ \A i \in 1 .. n - at : b[i] = mounts[at + i]
      <4>1. /\ at + 1 \in 1 .. n + 1 /\ n \in 0 .. n /\ n - (at + 1) + 1 = n - at
            /\ \A i \in 1 .. n - at : at + 1 + i - 1 = at + i
        BY <2>1, <2>2
      <4>2. at + 1 <= n + 1 /\ \A i \in at + 1 .. n : mounts[i] \in Mounts
        BY <2>1, <2>2
      <4>3. /\ b \in Seq(Mounts) /\ Len(b) = IF at + 1 <= n THEN n - (at + 1) + 1 ELSE 0
            /\ \A i \in 1 .. n - (at + 1) + 1 : b[i] = mounts[at + 1 + i - 1]
        BY <2>1, <2>2, <4>2, SubSeqProperties
      <4> HIDE DEF b
      <4>4. Len(b) = n - at
        <5> HIDE DEF n
        <5>1. n \in Int /\ at \in Int /\ at <= n
          BY <2>1, <2>2
        <5>2. Len(b) = IF at + 1 <= n THEN n - (at + 1) + 1 ELSE 0
          BY <4>3
        <5> QED BY <5>1, <5>2
      <4> QED BY <4>1, <4>3, <4>4
    <3> HIDE DEF a, b
    <3>3. mounts' = a \o b
      BY <2>3 DEF a, b
    <3>4. /\ DOMAIN mounts' = 1 .. (at - 1) + (n - at)
          /\ \A i \in 1 .. (at - 1) + (n - at) :
               mounts'[i] = IF i <= at - 1 THEN a[i] ELSE b[i - (at - 1)]
      <4>1. /\ Len(a \o b) = Len(a) + Len(b) /\ a \o b \in Seq(Mounts)
            /\ \A i \in 1 .. Len(a) + Len(b) :
                 (a \o b)[i] = IF i <= Len(a) THEN a[i] ELSE b[i - Len(a)]
        BY <3>1, <3>2, ConcatProperties, Zenon
      <4>2. DOMAIN (a \o b) = 1 .. Len(a \o b)
        BY <4>1
      <4> QED BY <3>1, <3>2, <3>3, <4>1, <4>2
    <3>5. (at - 1) + (n - at) = n - 1
      BY <2>1, <2>2
    <3>6. ASSUME NEW i \in 1 .. n - 1 PROVE mounts'[i] = mounts[Old(i)]
      <4>1. CASE i < at
        <5>1. i <= at - 1 /\ i \in 1 .. at - 1
          BY <2>1, <2>2, <4>1
        <5> QED BY <3>1, <3>4, <3>5, <4>1, <5>1
      <4>2. CASE ~(i < at)
        <5>1. ~(i <= at - 1) /\ i - (at - 1) \in 1 .. n - at
              /\ at + (i - (at - 1)) = i + 1
          BY <2>1, <2>2, <4>2
        <5> QED BY <3>2, <3>4, <3>5, <4>2, <5>1
      <4> QED BY <4>1, <4>2
    <3> QED BY <3>4, <3>5, <3>6
  <2>5. /\ \A i \in 1 .. n - 1 : Old(i) \in 1 .. n /\ Old(i) # at
        /\ \A i, j \in 1 .. n - 1 : Old(i) = Old(j) => i = j
        /\ \A k \in 1 .. n : k # at => \E i \in 1 .. n - 1 : Old(i) = k
    <3>1. ASSUME NEW k \in 1 .. n, k # at PROVE \E i \in 1 .. n - 1 : Old(i) = k
      <4>1. CASE k < at
        <5>1. k \in 1 .. n - 1
          BY <2>1, <2>2, <4>1
        <5> QED BY <4>1, <5>1
      <4>2. CASE k > at
        <5>1. k - 1 \in 1 .. n - 1 /\ ~(k - 1 < at) /\ k - 1 + 1 = k
          BY <2>1, <2>2, <4>2
        <5> QED BY <5>1
      <4> QED BY <2>1, <2>2, <3>1, <4>1, <4>2
    <3> QED BY <2>1, <2>2, <3>1
  <2> HIDE DEF n, Old
  <2>6. NoRepeat'
    BY <2>1, <2>4, <2>5 DEF NoRepeat
  <2>7. \A k \in 1 .. n : mounts[k] = m <=> k = at
    BY <2>1, <2>2 DEF NoRepeat
  <2>8. Listed' = Listed \ {m}
    <3>1. ASSUME NEW x \in Listed' PROVE x \in Listed \ {m}
      <4>1. PICK i \in 1 .. n - 1 : x = mounts[Old(i)]
        BY <2>4 DEF Listed
      <4> QED BY <2>1, <2>5, <2>7, <4>1 DEF Listed
    <3>2. ASSUME NEW x \in Listed \ {m} PROVE x \in Listed'
      <4>1. PICK k \in 1 .. n : x = mounts[k]
        BY <2>1 DEF Listed
      <4>2. k # at
        BY <2>7, <4>1
      <4>3. PICK i \in 1 .. n - 1 : Old(i) = k
        BY <2>5, <4>2
      <4> QED BY <2>4, <4>1, <4>3 DEF Listed
    <3> QED BY <3>1, <3>2
  <2> QED BY <2>6, <2>8
<1> QED BY <1>1, <1>2

-----------------------------------------------------------------------------
\* How one step of task t changes what the tasks know of the list.

\* Task t moves to label l with locals r; the others stay.
StepTo(t, l, r) ==
  /\ pc'[t] = l /\ loc'[t] = r
  /\ \A u \in Tasks : u # t => pc'[u] = pc[u] /\ loc'[u] = loc[u]

LEMMA ListKept ==
  ASSUME ListInv, NEW t \in Tasks, NEW l, NEW r, StepTo(t, l, r), ListStage(l, r),
         UNCHANGED mountVars
  PROVE  ListInv'
<1>1. mounts' = mounts /\ live' = live /\ Listed' = Listed
  BY DEF mountVars, Listed
<1>2. ASSUME NEW u \in Tasks PROVE ListStage(pc'[u], loc'[u])
  BY DEF StepTo, ListInv, ListStages
<1>3. ListStages'
  BY <1>1, <1>2 DEF ListStages, ListStage
<1> QED BY <1>1, <1>3 DEF ListInv, NoRepeat

\* A step to a label where no call relies on the list.
Elsewhere(t) ==
  /\ pc'[t] \notin {"check", "mount_drv", "format_drv"}
  /\ \A u \in Tasks : u # t => pc'[u] = pc[u] /\ loc'[u] = loc[u]
  /\ UNCHANGED mountVars

LEMMA ListElsewhere ==
  ASSUME ListInv, NEW t \in Tasks, Elsewhere(t)
  PROVE  ListInv'
<1>1. ListStage(pc'[t], loc'[t])
  BY DEF Elsewhere, ListStage
<1> QED BY <1>1, ListKept DEF Elsewhere, StepTo

LEMMA FinishElsewhere ==
  ASSUME ControlOK, NEW t \in Tasks, NEW code, Finish(t, code), UNCHANGED mountVars
  PROVE  Elsewhere(t)
BY DEF ControlOK, Finish, Goto, Elsewhere

LEMMA ReleaseElsewhere ==
  ASSUME ControlOK, NEW t \in Tasks, NEW code, Release(t, code), UNCHANGED mountVars
  PROVE  Elsewhere(t)
BY DEF ControlOK, Release, Goto, Elsewhere

LEMMA GotoElsewhere ==
  ASSUME ControlOK, NEW t \in Tasks, NEW l, Goto(t, l),
         l \notin {"check", "mount_drv", "format_drv"},
         \E r : loc' = [loc EXCEPT ![t] = r], UNCHANGED mountVars
  PROVE  Elsewhere(t)
BY DEF ControlOK, Goto, Elsewhere

LEMMA BeginElsewhere ==
  ASSUME ControlOK, NEW t \in Tasks, NEW op, NEW l, NEW args,
         Begin(t, op, l, args), l # "check", l # "mount_drv", l # "format_drv",
         UNCHANGED mountVars
  PROVE  Elsewhere(t)
BY DEF ControlOK, Begin, Goto, Elsewhere

LEMMA CallsElsewhere ==
  ASSUME ControlOK, NEW t \in Tasks, Call(t), ~CallMount(t)
  PROVE  Elsewhere(t)
<1>1. CASE CallPath(t)
  BY <1>1, BeginElsewhere, Zenon DEF CallPath
<1>2. CASE CallRename(t)
  BY <1>2, BeginElsewhere, Zenon DEF CallRename
<1>3. CASE CallOpendir(t)
  BY <1>3, BeginElsewhere, Zenon DEF CallOpendir
<1>4. CASE CallClose(t)
  <2>1. UNCHANGED mountVars
    BY <1>4 DEF CallClose
  <2>2. \/ Finish(t, "EBADF")
        \/ \E l \in {"close_drv", "dec"} : \E args : Begin(t, "close", l, args)
    <3>1. PICK fd \in 0 .. NFd :
            \/ Finish(t, "EBADF")
            \/ Begin(t, "close",
                     IF "close" \in Implements[fds[fd].mp] THEN "close_drv" ELSE "dec",
                     [Blank EXCEPT !.fd = fd, !.refs = <<fds[fd].mp>>, !.res = "ok"])
      BY <1>4, Zenon DEF CallClose, Reject
    <3>2. (IF "close" \in Implements[fds[fd].mp] THEN "close_drv" ELSE "dec")
            \in {"close_drv", "dec"}
      OBVIOUS
    <3> QED BY <3>1, <3>2, Zenon
  <2> QED BY <2>1, <2>2, BeginElsewhere, FinishElsewhere
<1>5. CASE CallFile(t)
  <2>1. UNCHANGED mountVars
    BY <1>5 DEF CallFile
  <2>2. \E op, code, args : \/ Finish(t, code)
                            \/ Begin(t, op, "file_drv", args)
    BY <1>5, Zenon DEF CallFile, Reject
  <2> QED BY <2>1, <2>2, BeginElsewhere, FinishElsewhere
<1>6. CASE SeekPos(t)
  BY <1>6, FinishElsewhere DEF SeekPos, Reject
<1>7. CASE CallReaddir(t)
  <2>1. UNCHANGED mountVars
    BY <1>7 DEF CallReaddir
  <2>2. \E code, args : \/ Finish(t, code)
                        \/ Begin(t, "readdir", "dir_drv", args)
    BY <1>7, Zenon DEF CallReaddir, Reject
  <2> QED BY <2>1, <2>2, BeginElsewhere, FinishElsewhere
<1>8. CASE CallClosedir(t)
  <2>1. UNCHANGED mountVars
    BY <1>8 DEF CallClosedir
  <2>2. \E code, args : \/ Finish(t, code)
                        \/ Begin(t, "closedir", "closedir_drv", args)
                        \/ Begin(t, "closedir", "dec", args)
    BY <1>8, Zenon DEF CallClosedir, Reject
  <2> QED BY <2>1, <2>2, BeginElsewhere, FinishElsewhere
<1> QED BY <1>1, <1>2, <1>3, <1>4, <1>5, <1>6, <1>7, <1>8 DEF Call

LEMMA StepsElsewhere ==
  ASSUME ControlOK, NEW t \in Tasks,
         \/ FindMount(t) \/ OpenLock(t) \/ UmountLock(t)
         \/ FoundMount(t) \/ DecLoad(t) \/ DecStore(t) \/ Return(t)
         \/ AllocateFd(t) \/ InitFd(t) \/ OpenDriver(t)
         \/ CloseDriver(t) \/ FileDriver(t) \/ PathCall(t) \/ PathDriver(t)
         \/ OpendirInit(t) \/ OpendirDriver(t) \/ ReaddirDriver(t)
         \/ ClosedirDriver(t)
  PROVE  Elsewhere(t)
<1> USE FinishElsewhere, ReleaseElsewhere, GotoElsewhere
<1>0. loc = [loc EXCEPT ![t] = loc[t]]
  BY DEF ControlOK
<1>1. CASE FindMount(t)
  <2>1. /\ UNCHANGED mountVars
        /\ \E r : \/ Finish(t, "ENOENT") \/ Release(t, "ENOENT")
                  \/ Goto(t, "inc") /\ loc' = [loc EXCEPT ![t] = r]
    BY <1>1 DEF FindMount
  <2> QED BY <2>1
<1>2. CASE OpenLock(t) \/ UmountLock(t)
  BY <1>0, <1>2 DEF OpenLock, UmountLock
<1>3. CASE FoundMount(t) \/ DecLoad(t) \/ DecStore(t)
  BY <1>3 DEF FoundMount, DecLoad, DecStore
<1>4. CASE Return(t) \/ OpenDriver(t) \/ CloseDriver(t) \/ FileDriver(t)
             \/ PathDriver(t) \/ ReaddirDriver(t)
  BY <1>4 DEF Return, OpenDriver, CloseDriver, FileDriver, PathDriver,
     ReaddirDriver, GrantFd
<1>5. CASE AllocateFd(t)
  <2>1. /\ UNCHANGED mountVars /\ pc[t] = "alloc"
        /\ \/ Release(t, "ENFILE")
           \/ UNCHANGED pc /\ \E r : loc' = [loc EXCEPT ![t] = r]
           \/ Goto(t, "init") /\ UNCHANGED loc
    BY <1>5 DEF AllocateFd
  <2>2. CASE UNCHANGED pc /\ \E r : loc' = [loc EXCEPT ![t] = r]
    BY <2>1, <2>2 DEF Elsewhere, ControlOK
  <2> QED BY <1>0, <2>1, <2>2
<1>6. CASE InitFd(t)
  BY <1>0, <1>6 DEF InitFd, GrantFd
<1>7. CASE PathCall(t)
  <2>1. /\ UNCHANGED mountVars
        /\ \/ \E code : Release(t, code)
           \/ Goto(t, "find") /\ UNCHANGED loc
           \/ Goto(t, "path_drv") /\ UNCHANGED loc
    BY <1>7, Zenon DEF PathCall
  <2> QED BY <1>0, <2>1
<1>8. CASE OpendirInit(t)
  <2>1. /\ UNCHANGED mountVars
        /\ \/ \E code : Finish(t, code)
           \/ Goto(t, "opendir_drv") /\ UNCHANGED loc
    BY <1>8, Zenon DEF OpendirInit
  <2> QED BY <1>0, <2>1
<1>9. CASE OpendirDriver(t) \/ ClosedirDriver(t)
  BY <1>9 DEF OpendirDriver, ClosedirDriver
<1> QED BY <1>1, <1>2, <1>3, <1>4, <1>5, <1>6, <1>7, <1>8, <1>9

-----------------------------------------------------------------------------
\* The steps that look at the list or change it.

LEMMA ListCallMount ==
  ASSUME TypeInv, ListInv, NEW t \in Tasks, CallMount(t)
  PROVE  ListInv'
<1>1. PICK op \in MountCalls, m \in Mounts, force \in BOOLEAN :
        Begin(t, op, "check", [Blank EXCEPT !.m = m, !.force = force])
  BY Zenon DEF CallMount
<1> DEFINE args == [Blank EXCEPT !.m = m, !.force = force]
           r == [args EXCEPT !.op = op]
<1>2. r.op = op /\ op \in Calls
  BY <1>1 DEF Blank, Begin
<1>3. StepTo(t, "check", r) /\ UNCHANGED mountVars
  BY <1>1 DEF CallMount, Begin, Goto, StepTo, TypeInv, ControlOK
<1> HIDE DEF r
<1>4. ListStage("check", r)
  BY <1>2 DEF ListStage
<1> QED BY <1>3, <1>4, ListKept

LEMMA ListCheckMount ==
  ASSUME TypeInv, ListInv, NEW t \in Tasks, CheckMount(t)
  PROVE  ListInv'
<1>1. /\ pc[t] = "check" /\ UNCHANGED mountVars
      /\ \/ \E code : Finish(t, code)
         \/ Goto(t, "umount_lock") /\ UNCHANGED loc
         \/ loc[t].m \notin Listed /\ Goto(t, "mount_drv") /\ UNCHANGED loc
         \/ /\ loc[t].m \notin Listed /\ loc[t].op = "format"
            /\ Goto(t, "format_drv") /\ UNCHANGED loc
  BY Zenon DEF CheckMount
<1>2. CASE \/ \E code : Finish(t, code)
           \/ Goto(t, "umount_lock") /\ UNCHANGED loc
  <2>1. loc = [loc EXCEPT ![t] = loc[t]]
    BY DEF TypeInv, ControlOK
  <2> QED BY <1>1, <1>2, <2>1, FinishElsewhere, GotoElsewhere, ListElsewhere
          DEF TypeInv
<1>3. CASE loc[t].m \notin Listed /\ Goto(t, "mount_drv") /\ UNCHANGED loc
  <2>1. StepTo(t, "mount_drv", loc[t])
    BY <1>3 DEF StepTo, Goto, TypeInv, ControlOK
  <2>2. ListStage("mount_drv", loc[t])
    BY <1>3 DEF ListStage
  <2> QED BY <1>1, <2>1, <2>2, ListKept
<1>4. CASE /\ loc[t].m \notin Listed /\ loc[t].op = "format"
           /\ Goto(t, "format_drv") /\ UNCHANGED loc
  <2>1. StepTo(t, "format_drv", loc[t])
    BY <1>4 DEF StepTo, Goto, TypeInv, ControlOK
  <2>2. ListStage("format_drv", loc[t])
    BY <1>1, <1>4 DEF ListInv, ListStages, ListStage
  <2> QED BY <1>1, <2>1, <2>2, ListKept
<1> QED BY <1>1, <1>2, <1>3, <1>4

\* While one task is in the section of the driver's mount or umount, no other
\* call relies on what it found in the list.
LEMMA AloneAtList ==
  ASSUME MutexInv, ListInv, FormatAlone, NEW t \in Tasks,
         pc[t] \in {"mount_drv", "umount_drv"},
         NEW u \in Tasks, u # t
  PROVE  pc[u] \notin {"mount_drv", "format_drv"}
<1>1. pc[u] # "mount_drv"
  BY DEF MutexInv, MutexOwned, InMountSection
<1>2. pc[u] # "format_drv"
  BY DEF ListInv, ListStages, ListStage, FormatAlone
<1> QED BY <1>1, <1>2

LEMMA ListChanged ==
  ASSUME TypeInv, MutexInv, ListInv, FormatAlone, NEW t \in Tasks,
         pc[t] \in {"mount_drv", "umount_drv"}, NEW code, Finish(t, code)
  PROVE  ListStages'
<1>1. ASSUME NEW u \in Tasks
      PROVE  /\ pc'[u] \notin {"mount_drv", "format_drv"}
             /\ pc'[u] = "check" /\ loc'[u].op = "format" => "format" \in Calls
  <2>1. CASE u = t
    BY <2>1 DEF Finish, Goto, TypeInv, ControlOK
  <2>2. CASE u # t
    <3>1. pc'[u] = pc[u] /\ loc'[u] = loc[u]
      BY <2>2 DEF Finish, Goto, TypeInv, ControlOK
    <3> QED BY <2>2, <3>1, AloneAtList DEF ListInv, ListStages, ListStage
  <2> QED BY <2>1, <2>2
<1> QED BY <1>1 DEF ListStages, ListStage

LEMMA ListMountDriver ==
  ASSUME TypeInv, MutexInv, ListInv, FormatAlone, NEW t \in Tasks, MountDriver(t)
  PROVE  ListInv'
<1>1. /\ pc[t] = "mount_drv"
      /\ \/ /\ mounts' = Append(mounts, loc[t].m) /\ live' = live \cup {loc[t].m}
            /\ Finish(t, "ok")
         \/ Finish(t, "EIO") /\ UNCHANGED mountVars
  BY DEF MountDriver
<1>2. loc[t].m \in Mounts /\ loc[t].m \notin Listed
  BY <1>1, HereStage DEF Stage, ListInv, ListStages, ListStage
<1>3. CASE Finish(t, "EIO") /\ UNCHANGED mountVars
  BY <1>3, FinishElsewhere, ListElsewhere DEF TypeInv
<1>4. CASE /\ mounts' = Append(mounts, loc[t].m) /\ live' = live \cup {loc[t].m}
           /\ Finish(t, "ok")
  <2>1. NoRepeat' /\ Listed' = Listed \cup {loc[t].m}
    BY <1>2, <1>4, Appended DEF ListInv
  <2>2. ListStages'
    BY <1>1, <1>4, ListChanged
  <2> QED BY <1>4, <2>1, <2>2 DEF ListInv
<1> QED BY <1>1, <1>3, <1>4

LEMMA ListUmountDriver ==
  ASSUME TypeInv, MutexInv, ListInv, FormatAlone, NEW t \in Tasks, UmountDriver(t)
  PROVE  ListInv'
<1>1. /\ pc[t] = "umount_drv"
      /\ \/ /\ mounts' = WithoutMount(loc[t].m) /\ live' = live \ {loc[t].m}
            /\ \E code : Finish(t, code)
         \/ Finish(t, "EIO") /\ UNCHANGED mountVars
  BY DEF UmountDriver
<1>2. CASE Finish(t, "EIO") /\ UNCHANGED mountVars
  BY <1>2, FinishElsewhere, ListElsewhere DEF TypeInv
<1>3. CASE /\ mounts' = WithoutMount(loc[t].m) /\ live' = live \ {loc[t].m}
           /\ \E code : Finish(t, code)
  <2>1. NoRepeat' /\ Listed' = Listed \ {loc[t].m}
    BY <1>3, Removed DEF ListInv
  <2>2. ListStages'
    BY <1>1, <1>3, ListChanged
  <2> QED BY <1>3, <2>1, <2>2 DEF ListInv
<1> QED BY <1>1, <1>2, <1>3

LEMMA ListFormatDriver ==
  ASSUME TypeInv, ListInv, NEW t \in Tasks, FormatDriver(t)
  PROVE  ListInv'
<1>1. /\ pc[t] = "format_drv" /\ mounts' = mounts
      /\ live' \in {live, live \ {loc[t].m}} /\ \E code : Finish(t, code)
  BY DEF FormatDriver
<1>2. live' = live
  <2>1. loc[t].m \notin live
    BY <1>1 DEF ListInv, ListStages, ListStage
  <2> QED BY <1>1, <2>1
<1> QED BY <1>1, <1>2, FinishElsewhere, ListElsewhere DEF TypeInv, mountVars

-----------------------------------------------------------------------------
LEMMA ListStep ==
  ASSUME FormatAlone
  PROVE  TypeInv /\ MutexInv /\ ListInv /\ [Next]_vars => ListInv'
<1> SUFFICES ASSUME TypeInv, MutexInv, ListInv, [Next]_vars PROVE ListInv'
  OBVIOUS
<1>1. ControlOK
  BY DEF TypeInv
<1>2. ASSUME NEW t \in Tasks, Call(t) PROVE ListInv'
  BY <1>1, <1>2, CallsElsewhere, ListElsewhere, ListCallMount
<1>3. ASSUME NEW t \in Tasks, Acquire(t) PROVE ListInv'
  BY <1>1, <1>3, StepsElsewhere, ListElsewhere, ListCheckMount DEF Acquire
<1>4. ASSUME NEW t \in Tasks, Run(t) PROVE ListInv'
  BY <1>1, <1>4, StepsElsewhere, ListElsewhere, ListMountDriver,
     ListUmountDriver, ListFormatDriver, Zenon DEF Run
<1>5. ASSUME UNCHANGED vars PROVE ListInv'
  BY <1>5 DEF vars, ListInv, NoRepeat, Listed, ListStages, ListStage
<1> QED BY <1>2, <1>3, <1>4, <1>5 DEF Next

LEMMA ListInit == Init => ListInv
<1> SUFFICES ASSUME Init PROVE ListInv
  OBVIOUS
<1>1. mounts = <<>> /\ Listed = {} /\ live = {}
  BY DEF Init, Listed
<1>2. ListStages
  BY DEF Init, ListStages, ListStage
<1> QED BY <1>1, <1>2 DEF ListInv, NoRepeat

\* However many tasks mount and unmount at once, the list names no mount twice
\* and holds exactly the volumes the drivers hold mounted, failed driver calls
\* included.
THEOREM ListSound ==
  ASSUME FormatAlone
  PROVE  Spec => []MountListSound
<1>1. Init => TypeInv /\ MutexInv /\ ListInv
  BY TypeInit, MutexInit, ListInit
<1>2. TypeInv /\ MutexInv /\ ListInv => MountListSound
  BY DEF ListInv, NoRepeat, MountListSound
<1> QED BY <1>1, <1>2, TypeStep, MutexStep, ListStep, PTL DEF Spec

-----------------------------------------------------------------------------
(***************************************************************************)
(* The table of open files is safe for every number of tasks and slots, as  *)
(* long as clients only use descriptors they hold, or there is one client   *)
(* only, which may pass any descriptor.  The argument: a slot               *)
(* with p_tcb = t is claimed by t and by nobody else, and the slot that     *)
(* _allocate_fd has found is still free when _init_fd takes it, because     *)
(* _open_mutex lets one task at a time look for a slot.                     *)
(***************************************************************************)

Work(l, r) == IF l \in {"open_drv", "close_drv", "dec", "dec_store"}
              THEN {r.fd} \cap Fds ELSE {}

\* What is true of the slot a task at label l with locals r works on.  The
\* calls that end with references to give back, but own no slot, have fd = NFd.
FdStage(l, r) ==
  /\ l = "init" => fds[r.fd].tcb = NoTask
  /\ l = "open_drv" => fds[r.fd].mp # NoMount
  /\ l \in {"find", "inc", "found", "path_drv", "opendir_drv", "closedir_drv"}
       => r.fd = NFd

FdStages == \A t \in Tasks : FdStage(pc[t], loc[t])

\* The inductive invariant: a slot is marked with a task exactly if that task
\* claims it.
Owned == \A t \in Tasks, f \in Fds : f \in Claimed(t) <=> fds[f].tcb = t
Apart == \A t \in Tasks : held[t] \cap Working(t) = {}

FdInv == Owned /\ Apart /\ FdStages /\ HeldIsOpen

LEMMA FdInvSafe ==
  ASSUME TypeInv, FdInv
  PROVE  FdExclusive /\ NoFdLeak /\ HeldIsOpen
<1>1. FdExclusive
  BY DEF FdInv, FdExclusive, Owned, Apart
<1>2. ASSUME NEW f \in Fds, fds[f].tcb # NoTask PROVE f \in Claimed(fds[f].tcb)
  <2>1. fds[f].tcb \in Tasks
    BY <1>2 DEF TypeInv, DataOK
  <2> QED BY <2>1 DEF FdInv, Owned
<1> QED BY <1>1, <1>2 DEF FdInv, NoFdLeak

LEMMA WorkingWork ==
  ASSUME NEW t \in Tasks
  PROVE  Working(t) = Work(pc[t], loc[t])
BY DEF Working, Work

LEMMA NoFdIsNFd == NFd \notin Fds
<1>1. NFd \in Nat
  BY VfsConstants
<1> QED BY <1>1 DEF Fds

LEMMA NoSlot ==
  ASSUME NEW l, NEW r, r.fd = NFd
  PROVE  Work(l, r) = {}
<1>1. NFd \notin Fds
  BY NoFdIsNFd
<1>2. {r.fd} \cap Fds = {}
  BY <1>1, Zenon
<1> QED BY <1>2, Zenon DEF Work

\* A step of task t that leaves the table alone and works on the same slot.
LEMMA FdQuiet ==
  ASSUME TypeInv, FdInv, NEW t \in Tasks, NEW l, NEW r,
         pc' = [pc EXCEPT ![t] = l], loc' = [loc EXCEPT ![t] = r],
         UNCHANGED <<fds, held>>, Work(l, r) = Work(pc[t], loc[t]), FdStage(l, r)
  PROVE  FdInv'
<1>1. \A u \in Tasks : /\ u = t => pc'[u] = l /\ loc'[u] = r
                       /\ u # t => pc'[u] = pc[u] /\ loc'[u] = loc[u]
  BY DEF TypeInv, ControlOK
<1>2. \A u \in Tasks : Work(pc'[u], loc'[u]) = Work(pc[u], loc[u])
  BY <1>1
<1>3. \A u \in Tasks : Working(u)' = Working(u)
  <2>1. ASSUME NEW u \in Tasks PROVE Working(u)' = Work(pc'[u], loc'[u])
    BY Zenon DEF Working, Work
  <2> QED BY <1>2, <2>1, WorkingWork, Zenon
<1>4. \A u \in Tasks : Claimed(u)' = Claimed(u)
  BY <1>3 DEF Claimed
<1>5. Owned' /\ Apart'
  BY <1>3, <1>4 DEF FdInv, Owned, Apart
<1>6. FdStages'
  <2>1. ASSUME NEW u \in Tasks PROVE FdStage(pc'[u], loc'[u])
    <3>1. CASE u = t
      <4>1. pc'[u] = l /\ loc'[u] = r
        BY <1>1, <3>1, Zenon
      <4> QED BY <4>1
    <3>2. CASE u # t
      <4>1. pc'[u] = pc[u] /\ loc'[u] = loc[u]
        BY <1>1, <3>2
      <4> QED BY <4>1 DEF FdInv, FdStages
    <3> QED BY <3>1, <3>2
  <2> QED BY <2>1 DEF FdStages, FdStage
<1>7. HeldIsOpen'
  BY DEF FdInv, HeldIsOpen
<1> QED BY <1>5, <1>6, <1>7 DEF FdInv

LEMMA FdFinish ==
  ASSUME TypeInv, FdInv, NEW t \in Tasks, NEW code, Finish(t, code),
         UNCHANGED <<fds, held>>, Work(pc[t], loc[t]) = {}
  PROVE  FdInv'
<1>1. /\ pc' = [pc EXCEPT ![t] = "idle"] /\ loc' = [loc EXCEPT ![t] = Blank]
      /\ Work("idle", Blank) = {} /\ FdStage("idle", Blank)
  BY DEF Finish, Goto, Work, FdStage
<1> QED BY <1>1, FdQuiet

LEMMA FdBegin ==
  ASSUME TypeInv, FdInv, NEW t \in Tasks, NEW op, NEW l, NEW args,
         Begin(t, op, l, args), UNCHANGED <<fds, held>>,
         l \in {"find", "check", "file_drv", "dir_drv", "closedir_drv", "dec"},
         args.fd = NFd \/ l = "file_drv", [args EXCEPT !.op = op].fd = args.fd
  PROVE  FdInv'
<1> DEFINE r == [args EXCEPT !.op = op]
<1>1. /\ pc' = [pc EXCEPT ![t] = l] /\ loc' = [loc EXCEPT ![t] = r]
      /\ pc[t] = "idle"
  BY DEF Begin, Goto
<1>2. Work(pc[t], loc[t]) = {}
  BY <1>1 DEF Work
<1>3. r.fd = NFd \/ l = "file_drv"
  OBVIOUS
<1> HIDE DEF r
<1>4. Work(l, r) = {} /\ FdStage(l, r)
  <2>1. Work(l, r) = {}
    <3>1. CASE r.fd = NFd
      BY <3>1, NoSlot
    <3>2. CASE l = "file_drv"
      BY <3>2 DEF Work
    <3> QED BY <1>3, <3>1, <3>2
  <2> QED BY <1>3, <2>1 DEF FdStage
<1> QED BY <1>1, <1>2, <1>4, FdQuiet

LEMMA FdRelease ==
  ASSUME TypeInv, FdInv, NEW t \in Tasks, NEW code \in Codes, Release(t, code),
         UNCHANGED <<fds, held>>,
         loc[t].fd = NFd \/ pc[t] \in {"open_drv", "close_drv"}
  PROVE  FdInv'
<1> DEFINE r == [loc[t] EXCEPT !.res = code]
<1>1. /\ pc' = [pc EXCEPT ![t] = "dec"] /\ loc' = [loc EXCEPT ![t] = r]
      /\ r.fd = loc[t].fd
  BY LocalType DEF Release, Goto, TypeInv, ControlOK, Locals
<1> HIDE DEF r
<1>2. Work("dec", r) = Work(pc[t], loc[t]) /\ FdStage("dec", r)
  <2>1. CASE loc[t].fd = NFd
    BY <1>1, <2>1, NoSlot DEF FdStage
  <2>2. CASE pc[t] \in {"open_drv", "close_drv"}
    BY <1>1, <2>2 DEF Work, FdStage
  <2> QED BY <2>1, <2>2
<1> QED BY <1>1, <1>2, FdQuiet

LEMMA FdGoto ==
  ASSUME TypeInv, FdInv, NEW t \in Tasks, NEW l, Goto(t, l),
         UNCHANGED <<loc, fds, held>>, Work(l, loc[t]) = Work(pc[t], loc[t]),
         FdStage(l, loc[t])
  PROVE  FdInv'
<1>1. pc' = [pc EXCEPT ![t] = l] /\ loc' = [loc EXCEPT ![t] = loc[t]]
  BY DEF Goto, TypeInv, ControlOK
<1> QED BY <1>1, FdQuiet

-----------------------------------------------------------------------------
\* The steps that do not touch the table.

LEMMA FdCalls ==
  ASSUME TypeInv, FdInv, NEW t \in Tasks,
         CallPath(t) \/ CallRename(t) \/ CallOpendir(t) \/ CallMount(t)
           \/ CallFile(t) \/ CallReaddir(t) \/ CallClosedir(t)
  PROVE  FdInv'
<1>1. CASE CallPath(t)
  <2>1. PICK op \in {"open"} \cup (PathCalls \ {"rename"}), nm \in Names,
             md \in OpenModes \cup {"r"} :
          Begin(t, op, "find", [Blank EXCEPT !.names = <<nm>>, !.mode = md])
    BY <1>1, Zenon DEF CallPath
  <2> DEFINE args == [Blank EXCEPT !.names = <<nm>>, !.mode = md]
  <2>2. args.fd = NFd /\ [args EXCEPT !.op = op].fd = args.fd
    BY DEF Blank
  <2>3. UNCHANGED <<fds, held>>
    BY <1>1 DEF CallPath, tableVars
  <2> HIDE DEF args
  <2> QED BY <2>1, <2>2, <2>3, FdBegin DEF args
<1>2. CASE CallRename(t)
  <2>1. PICK from \in Names, to \in Names :
          Begin(t, "rename", "find", [Blank EXCEPT !.names = <<from, to>>])
    BY <1>2, Zenon DEF CallRename
  <2> DEFINE args == [Blank EXCEPT !.names = <<from, to>>]
  <2>2. args.fd = NFd /\ [args EXCEPT !.op = "rename"].fd = args.fd
    BY DEF Blank
  <2>3. UNCHANGED <<fds, held>>
    BY <1>2 DEF CallRename, tableVars
  <2> HIDE DEF args
  <2> QED BY <2>1, <2>2, <2>3, FdBegin DEF args
<1>3. CASE CallOpendir(t)
  <2>1. PICK nm \in Names, d \in Dirs :
          Begin(t, "opendir", "find", [Blank EXCEPT !.names = <<nm>>, !.dir = d])
    BY <1>3, Zenon DEF CallOpendir
  <2> DEFINE args == [Blank EXCEPT !.names = <<nm>>, !.dir = d]
  <2>2. args.fd = NFd /\ [args EXCEPT !.op = "opendir"].fd = args.fd
    BY DEF Blank
  <2>3. UNCHANGED <<fds, held>>
    BY <1>3 DEF CallOpendir, tableVars
  <2> HIDE DEF args
  <2> QED BY <2>1, <2>2, <2>3, FdBegin DEF args
<1>4. CASE CallMount(t)
  <2>1. PICK op \in MountCalls, m \in Mounts, force \in BOOLEAN :
          Begin(t, op, "check", [Blank EXCEPT !.m = m, !.force = force])
    BY <1>4, Zenon DEF CallMount
  <2> DEFINE args == [Blank EXCEPT !.m = m, !.force = force]
  <2>2. args.fd = NFd /\ [args EXCEPT !.op = op].fd = args.fd
    BY DEF Blank
  <2>3. UNCHANGED <<fds, held>>
    BY <1>4 DEF CallMount, tableVars
  <2> HIDE DEF args
  <2> QED BY <2>1, <2>2, <2>3, FdBegin DEF args
<1>5. CASE CallFile(t)
  <2>1. PICK op \in FileCalls, fd \in 0 .. NFd :
          \/ Reject(t, op, "EBADF")
          \/ Reject(t, op, "EINVAL")
          \/ Begin(t, op, "file_drv", [Blank EXCEPT !.fd = fd])
    BY <1>5, Zenon DEF CallFile
  <2> DEFINE args == [Blank EXCEPT !.fd = fd]
  <2>2. [args EXCEPT !.op = op].fd = args.fd
    BY DEF Blank
  <2>3. UNCHANGED <<fds, held>>
    BY <1>5 DEF CallFile, tableVars
  <2>4. ASSUME NEW code, Reject(t, op, code) PROVE Work(pc[t], loc[t]) = {}
    BY <2>4 DEF Reject, Work
  <2> HIDE DEF args
  <2> QED BY <2>1, <2>2, <2>3, <2>4, FdBegin, FdFinish DEF args, Reject
<1>6. CASE CallReaddir(t)
  <2>1. PICK d \in Dirs :
          \/ Reject(t, "readdir", "EINVAL")
          \/ Begin(t, "readdir", "dir_drv", [Blank EXCEPT !.dir = d])
    BY <1>6, Zenon DEF CallReaddir
  <2> DEFINE args == [Blank EXCEPT !.dir = d]
  <2>2. args.fd = NFd /\ [args EXCEPT !.op = "readdir"].fd = args.fd
    BY DEF Blank
  <2>3. UNCHANGED <<fds, held>>
    BY <1>6 DEF CallReaddir, tableVars
  <2>4. ASSUME NEW code, Reject(t, "readdir", code)
        PROVE  Work(pc[t], loc[t]) = {}
    BY <2>4 DEF Reject, Work
  <2> HIDE DEF args
  <2> QED BY <2>1, <2>2, <2>3, <2>4, FdBegin, FdFinish DEF args, Reject
<1>7. CASE CallClosedir(t)
  <2>1. PICK d \in Dirs :
          \/ Reject(t, "closedir", "EBADF")
          \/ Begin(t, "closedir", "closedir_drv",
                   [Blank EXCEPT !.dir = d, !.refs = <<dirs[d].mp>>])
          \/ Begin(t, "closedir", "dec",
                   [Blank EXCEPT !.refs = <<dirs[d].mp>>, !.res = "ok"])
    BY <1>7, Zenon DEF CallClosedir
  <2> DEFINE a1 == [Blank EXCEPT !.dir = d, !.refs = <<dirs[d].mp>>]
             a2 == [Blank EXCEPT !.refs = <<dirs[d].mp>>, !.res = "ok"]
  <2>2. /\ a1.fd = NFd /\ [a1 EXCEPT !.op = "closedir"].fd = a1.fd
        /\ a2.fd = NFd /\ [a2 EXCEPT !.op = "closedir"].fd = a2.fd
    BY DEF Blank
  <2>3. UNCHANGED <<fds, held>>
    BY <1>7 DEF CallClosedir, tableVars
  <2>4. ASSUME NEW code, Reject(t, "closedir", code)
        PROVE  Work(pc[t], loc[t]) = {}
    BY <2>4 DEF Reject, Work
  <2>5. Reject(t, "closedir", "EBADF") \/ Begin(t, "closedir", "closedir_drv", a1)
          \/ Begin(t, "closedir", "dec", a2)
    BY <2>1
  <2> HIDE DEF a1, a2
  <2> QED BY <2>2, <2>3, <2>4, <2>5, FdBegin, FdFinish DEF Reject
<1> QED BY <1>1, <1>2, <1>3, <1>4, <1>5, <1>6, <1>7

LEMMA HereFd ==
  ASSUME FdInv, NEW t \in Tasks
  PROVE  FdStage(pc[t], loc[t])
BY DEF FdInv, FdStages

\* The steps of _find_mount, of the counter and of the scan for a free slot.
LEMMA FdLookups ==
  ASSUME TypeInv, FdInv, NEW t \in Tasks,
         FindMount(t) \/ FoundMount(t) \/ DecLoad(t) \/ DecStore(t)
           \/ OpenLock(t) \/ AllocateFd(t)
  PROVE  FdInv'
<1>1. CASE FindMount(t)
  <2>1. pc[t] = "find" /\ UNCHANGED <<fds, held>>
    BY <1>1 DEF FindMount, tableVars
  <2>2. \E m, x : \/ Finish(t, "ENOENT")
                  \/ Release(t, "ENOENT")
                  \/ /\ Goto(t, "inc")
                     /\ loc' = [loc EXCEPT ![t].m = m, ![t].tmp = x,
                                           ![t].names = Tail(@)]
    BY <1>1, Zenon DEF FindMount
  <2>3. loc[t].fd = NFd /\ Work(pc[t], loc[t]) = {}
    BY <2>1, HereFd, NoSlot DEF FdStage
  <2>4. CASE Finish(t, "ENOENT") \/ Release(t, "ENOENT")
    BY <2>1, <2>3, <2>4, FdFinish, FdRelease DEF Codes
  <2>5. ASSUME NEW m, NEW x, Goto(t, "inc"),
               loc' = [loc EXCEPT ![t].m = m, ![t].tmp = x, ![t].names = Tail(@)]
        PROVE  FdInv'
    <3> DEFINE r == [loc[t] EXCEPT !.m = m, !.tmp = x, !.names = Tail(@)]
    <3>1. pc' = [pc EXCEPT ![t] = "inc"] /\ loc' = [loc EXCEPT ![t] = r]
      BY <2>5 DEF Goto, TypeInv, ControlOK
    <3>2. r.fd = NFd
      BY <2>3, LocalType DEF TypeInv, Locals
    <3> HIDE DEF r
    <3>3. Work("inc", r) = {} /\ FdStage("inc", r)
      BY <3>2, NoSlot DEF FdStage
    <3> QED BY <2>1, <2>3, <3>1, <3>3, FdQuiet
  <2> QED BY <2>2, <2>4, <2>5
<1>2. CASE FoundMount(t)
  <2> DEFINE r == [loc[t] EXCEPT !.refs = Append(@, loc[t].m), !.tmp = 0]
  <2>1. /\ pc[t] = "inc" /\ UNCHANGED <<fds, held>>
        /\ pc' = [pc EXCEPT ![t] = "found"] /\ loc' = [loc EXCEPT ![t] = r]
    BY <1>2 DEF FoundMount, tableVars, Goto, TypeInv, ControlOK
  <2>2. loc[t].fd = NFd /\ r.fd = loc[t].fd
    BY <2>1, HereFd, LocalType DEF FdStage, TypeInv, Locals
  <2> HIDE DEF r
  <2>3. Work("found", r) = {} /\ Work(pc[t], loc[t]) = {} /\ FdStage("found", r)
    BY <2>2, NoSlot DEF FdStage
  <2> QED BY <2>1, <2>3, FdQuiet
<1>3. CASE DecLoad(t)
  <2> DEFINE r == [loc[t] EXCEPT !.tmp = openFiles[Head(loc[t].refs)]]
  <2>1. /\ pc[t] = "dec" /\ UNCHANGED <<fds, held>>
        /\ pc' = [pc EXCEPT ![t] = "dec_store"] /\ loc' = [loc EXCEPT ![t] = r]
    BY <1>3 DEF DecLoad, tableVars, Goto, TypeInv, ControlOK
  <2>2. r.fd = loc[t].fd
    BY LocalType DEF TypeInv, Locals
  <2> HIDE DEF r
  <2>3. Work("dec_store", r) = Work(pc[t], loc[t]) /\ FdStage("dec_store", r)
    BY <2>1, <2>2 DEF FdStage, Work
  <2> QED BY <2>1, <2>3, FdQuiet
<1>4. CASE DecStore(t)
  <2> DEFINE r == [loc[t] EXCEPT !.refs = Tail(@), !.tmp = 0]
  <2>1. /\ pc[t] = "dec_store" /\ UNCHANGED <<fds, held>>
        /\ pc' = [pc EXCEPT ![t] = "dec"] /\ loc' = [loc EXCEPT ![t] = r]
    BY <1>4 DEF DecStore, tableVars, Goto, TypeInv, ControlOK
  <2>2. r.fd = loc[t].fd
    BY LocalType DEF TypeInv, Locals
  <2> HIDE DEF r
  <2>3. Work("dec", r) = Work(pc[t], loc[t]) /\ FdStage("dec", r)
    BY <2>1, <2>2 DEF FdStage, Work
  <2> QED BY <2>1, <2>3, FdQuiet
<1>5. CASE OpenLock(t)
  <2> DEFINE r == [loc[t] EXCEPT !.fd = 0]
  <2>1. /\ pc[t] = "found" /\ UNCHANGED <<fds, held>>
        /\ pc' = [pc EXCEPT ![t] = "alloc"] /\ loc' = [loc EXCEPT ![t] = r]
    BY <1>5 DEF OpenLock, Goto, TypeInv, ControlOK
  <2> HIDE DEF r
  <2>2. Work("alloc", r) = {} /\ Work(pc[t], loc[t]) = {} /\ FdStage("alloc", r)
    BY <2>1 DEF FdStage, Work
  <2> QED BY <2>1, <2>2, FdQuiet
<1>6. CASE AllocateFd(t)
  <2>1. pc[t] = "alloc" /\ UNCHANGED <<fds, held>>
    BY <1>6 DEF AllocateFd
  <2>2. \/ loc[t].fd = NFd /\ Release(t, "ENFILE")
        \/ UNCHANGED pc /\ loc' = [loc EXCEPT ![t].fd = loc[t].fd + 1]
        \/ SlotFree(loc[t].fd) /\ Goto(t, "init") /\ UNCHANGED loc
    BY <1>6, Zenon DEF AllocateFd
  <2>3. CASE loc[t].fd = NFd /\ Release(t, "ENFILE")
    BY <2>1, <2>3, FdRelease DEF Codes
  <2>4. CASE UNCHANGED pc /\ loc' = [loc EXCEPT ![t].fd = loc[t].fd + 1]
    <3> DEFINE r == [loc[t] EXCEPT !.fd = loc[t].fd + 1]
    <3>1. pc' = [pc EXCEPT ![t] = "alloc"] /\ loc' = [loc EXCEPT ![t] = r]
      BY <2>1, <2>4 DEF TypeInv, ControlOK
    <3> HIDE DEF r
    <3>2. Work("alloc", r) = Work(pc[t], loc[t]) /\ FdStage("alloc", r)
      BY <2>1 DEF FdStage, Work
    <3> QED BY <2>1, <3>1, <3>2, FdQuiet
  <2>5. CASE SlotFree(loc[t].fd) /\ Goto(t, "init") /\ UNCHANGED loc
    <3>1. Work("init", loc[t]) = Work(pc[t], loc[t]) /\ FdStage("init", loc[t])
      BY <2>1, <2>5 DEF FdStage, Work, SlotFree
    <3> QED BY <2>1, <2>5, <3>1, FdGoto
  <2> QED BY <2>2, <2>3, <2>4, <2>5
<1> QED BY <1>1, <1>2, <1>3, <1>4, <1>5, <1>6

\* The steps of the calls on paths, streams and mounts.
LEMMA FdOthers ==
  ASSUME TypeInv, FdInv, NEW t \in Tasks,
         CheckMount(t) \/ UmountLock(t) \/ MountDriver(t) \/ UmountDriver(t)
           \/ FormatDriver(t) \/ FileDriver(t) \/ ReaddirDriver(t)
           \/ PathCall(t) \/ PathDriver(t) \/ OpendirInit(t)
           \/ OpendirDriver(t) \/ ClosedirDriver(t)
  PROVE  FdInv'
<1>1. CASE CheckMount(t) \/ UmountLock(t) \/ MountDriver(t) \/ UmountDriver(t)
             \/ FormatDriver(t) \/ FileDriver(t) \/ ReaddirDriver(t)
  <2>1. /\ pc[t] \in {"check", "umount_lock", "mount_drv", "umount_drv",
                      "format_drv", "file_drv", "dir_drv"}
        /\ UNCHANGED <<fds, held>>
    BY <1>1 DEF CheckMount, UmountLock, MountDriver, UmountDriver, FormatDriver,
                FileDriver, ReaddirDriver, tableVars
  <2>2. \/ \E code : Finish(t, code)
        \/ \E l \in {"umount_lock", "mount_drv", "umount_drv", "format_drv"} :
             Goto(t, l) /\ UNCHANGED loc
    <3>1. CASE CheckMount(t)
      <4>1. \/ Finish(t, "EBUSY") \/ Finish(t, "EINVAL")
            \/ Goto(t, "umount_lock") /\ UNCHANGED loc
            \/ Goto(t, "mount_drv") /\ UNCHANGED loc
            \/ Goto(t, "format_drv") /\ UNCHANGED loc
        BY <3>1, Zenon DEF CheckMount
      <4> QED BY <4>1
    <3>2. CASE UmountLock(t)
      BY <3>2 DEF UmountLock
    <3>3. CASE MountDriver(t) \/ UmountDriver(t)
      BY <3>3 DEF MountDriver, UmountDriver
    <3>4. CASE FormatDriver(t) \/ FileDriver(t) \/ ReaddirDriver(t)
      BY <3>4 DEF FormatDriver, FileDriver, ReaddirDriver
    <3> QED BY <1>1, <3>1, <3>2, <3>3, <3>4
  <2>3. Work(pc[t], loc[t]) = {}
    BY <2>1 DEF Work
  <2>4. ASSUME NEW l \in {"umount_lock", "mount_drv", "umount_drv", "format_drv"}
        PROVE  Work(l, loc[t]) = {} /\ FdStage(l, loc[t])
    BY DEF Work, FdStage
  <2> QED BY <2>1, <2>2, <2>3, <2>4, FdFinish, FdGoto
<1>2. CASE PathCall(t) \/ PathDriver(t) \/ OpendirInit(t) \/ OpendirDriver(t)
             \/ ClosedirDriver(t)
  <2>1. /\ pc[t] \in {"found", "path_drv", "opendir_drv", "closedir_drv"}
        /\ UNCHANGED <<fds, held>>
    BY <1>2 DEF PathCall, PathDriver, OpendirInit, OpendirDriver, ClosedirDriver,
                tableVars
  <2>2. loc[t].fd = NFd /\ Work(pc[t], loc[t]) = {}
    BY <2>1, HereFd, NoSlot DEF FdStage
  <2>3. \/ \E code : Finish(t, code)
        \/ \E code \in Codes : Release(t, code)
        \/ \E l \in {"find", "path_drv", "opendir_drv"} :
             Goto(t, l) /\ UNCHANGED loc
    <3>1. CASE PathCall(t)
      <4>1. \/ Release(t, Unsupported(loc[t].op)) \/ Release(t, "EXDEV")
            \/ Goto(t, "find") /\ UNCHANGED loc
            \/ Goto(t, "path_drv") /\ UNCHANGED loc
        BY <3>1, Zenon DEF PathCall
      <4>2. Unsupported(loc[t].op) \in Codes /\ "EXDEV" \in Codes
        BY DEF Unsupported, Codes
      <4> QED BY <4>1, <4>2
    <3>2. CASE PathDriver(t) \/ ClosedirDriver(t)
      BY <3>2 DEF PathDriver, ClosedirDriver, Outcomes, Codes
    <3>3. CASE OpendirInit(t)
      <4>1. \/ Finish(t, "EINVAL") \/ Finish(t, "ok")
            \/ Goto(t, "opendir_drv") /\ UNCHANGED loc
        BY <3>3, Zenon DEF OpendirInit
      <4> QED BY <4>1
    <3>4. CASE OpendirDriver(t)
      BY <3>4 DEF OpendirDriver, Codes
    <3> QED BY <1>2, <3>1, <3>2, <3>3, <3>4
  <2>4. ASSUME NEW l \in {"find", "path_drv", "opendir_drv"}
        PROVE  Work(l, loc[t]) = {} /\ FdStage(l, loc[t])
    BY <2>2, NoSlot DEF FdStage
  <2> QED BY <2>1, <2>2, <2>3, <2>4, FdFinish, FdRelease, FdGoto
<1> QED BY <1>1, <1>2

-----------------------------------------------------------------------------
\* A step of task t that changes slot fd, which is its own or free, or what t
\* claims of it: t goes to label l with locals r and then holds the slots h.
FdMove(t, l, r, h, fd) ==
  /\ pc' = [pc EXCEPT ![t] = l]
  /\ loc' = [loc EXCEPT ![t] = r]
  /\ held' = [held EXCEPT ![t] = h]
  /\ \A f \in Fds : f # fd => fds'[f] = fds[f]
  /\ \/ fd \in Claimed(t)
     \/ /\ fds[fd].tcb = NoTask
        /\ \A u \in Tasks : u # t => pc[u] # "init"
  /\ h \ {fd} = held[t] \ {fd}
  /\ Work(l, r) \ {fd} = Work(pc[t], loc[t]) \ {fd}
  /\ h \cap Work(l, r) = {}
  /\ fds'[fd].tcb = IF fd \in h \cup Work(l, r) THEN t ELSE NoTask
  /\ fd \in h => fds'[fd].drv /\ fds'[fd].mp # NoMount
  /\ l \in {"idle", "dec", "close_drv", "open_drv"}
  /\ l = "open_drv" => r.fd = fd /\ fds'[fd].mp # NoMount

LEMMA FdTable ==
  ASSUME TypeInv, FdInv, NEW t \in Tasks, NEW l, NEW r, NEW h \in SUBSET Fds,
         NEW fd \in Fds, FdMove(t, l, r, h, fd)
  PROVE  FdInv'
<1> USE DEF FdMove
<1>1. ASSUME NEW u \in Tasks, u # t
      PROVE  /\ pc'[u] = pc[u] /\ loc'[u] = loc[u] /\ held'[u] = held[u]
             /\ Working(u)' = Working(u) /\ Claimed(u)' = Claimed(u)
  <2>1. pc'[u] = pc[u] /\ loc'[u] = loc[u] /\ held'[u] = held[u]
    BY <1>1 DEF TypeInv, ControlOK, DataOK
  <2>2. Working(u)' = Working(u)
    BY <2>1, Zenon DEF Working
  <2> QED BY <2>1, <2>2 DEF Claimed
<1>2. /\ pc'[t] = l /\ loc'[t] = r /\ held'[t] = h
      /\ Working(t)' = Work(l, r) /\ Claimed(t)' = h \cup Work(l, r)
  <2>1. pc'[t] = l /\ loc'[t] = r /\ held'[t] = h
    BY DEF TypeInv, ControlOK, DataOK
  <2>2. Working(t)' = Work(l, r)
    BY <2>1, Zenon DEF Working, Work
  <2> QED BY <2>1, <2>2 DEF Claimed
<1>3. Claimed(t) = held[t] \cup Work(pc[t], loc[t])
  BY WorkingWork DEF Claimed
<1>4. \A u \in Tasks : u # t => fd \notin Claimed(u)
  <2>1. fds[fd].tcb \in {t, NoTask}
    BY DEF FdInv, Owned
  <2> QED BY <2>1, VfsConstants DEF FdInv, Owned
<1>5. Owned'
  <2>1. ASSUME NEW u \in Tasks, NEW f \in Fds
        PROVE  f \in Claimed(u)' <=> fds'[f].tcb = u
    <3>1. CASE f = fd /\ u = t
      BY <1>2, <3>1, VfsConstants
    <3>2. CASE f = fd /\ u # t
      BY <1>1, <1>4, <3>2, VfsConstants
    <3>3. CASE f # fd /\ u = t
      <4>1. f \in Claimed(t)' <=> f \in Claimed(t)
        BY <1>2, <1>3, <3>3
      <4>2. fds'[f] = fds[f]
        BY <3>3
      <4> QED BY <3>3, <4>1, <4>2 DEF FdInv, Owned
    <3>4. CASE f # fd /\ u # t
      BY <1>1, <3>4 DEF FdInv, Owned
    <3> QED BY <3>1, <3>2, <3>3, <3>4
  <2> QED BY <2>1 DEF Owned
<1>6. Apart'
  <2>1. ASSUME NEW u \in Tasks PROVE held'[u] \cap Working(u)' = {}
    <3>1. CASE u = t
      BY <1>2, <3>1
    <3>2. CASE u # t
      BY <1>1, <3>2 DEF FdInv, Apart
    <3> QED BY <3>1, <3>2
  <2> QED BY <2>1 DEF Apart
<1>7. HeldIsOpen'
  <2>1. ASSUME NEW u \in Tasks, NEW f \in held'[u]
        PROVE  fds'[f].drv /\ fds'[f].mp # NoMount
    <3>1. CASE f = fd
      <4>1. u = t
        BY <1>1, <1>4, <3>1 DEF Claimed
      <4> QED BY <1>2, <3>1, <4>1
    <3>2. CASE f # fd
      <4>1. f \in held[u] /\ f \in Fds
        BY <1>1, <1>2, <3>2 DEF TypeInv, DataOK
      <4> QED BY <3>2, <4>1 DEF FdInv, HeldIsOpen
    <3> QED BY <3>1, <3>2
  <2> QED BY <2>1 DEF HeldIsOpen
<1>8. FdStages'
  <2>1. ASSUME NEW u \in Tasks, pc'[u] = "init" PROVE fds'[loc'[u].fd].tcb = NoTask
    <3>1. u # t /\ pc[u] = "init" /\ loc'[u] = loc[u]
      BY <1>1, <1>2, <2>1
    <3>2. loc[u].fd \in Fds /\ fds[loc[u].fd].tcb = NoTask
      BY <3>1, HereFd, HereStage DEF FdStage, Stage
    <3>3. loc[u].fd # fd
      BY <3>1, <3>2, VfsConstants DEF FdInv, Owned
    <3> QED BY <3>1, <3>2, <3>3
  <2>2. ASSUME NEW u \in Tasks, pc'[u] = "open_drv"
        PROVE  fds'[loc'[u].fd].mp # NoMount
    <3>1. CASE u = t
      BY <1>2, <2>2, <3>1
    <3>2. CASE u # t
      <4>1. pc[u] = "open_drv" /\ loc'[u] = loc[u]
        BY <1>1, <2>2, <3>2
      <4>2. loc[u].fd \in Fds /\ fds[loc[u].fd].mp # NoMount
        BY <4>1, HereFd, HereStage DEF FdStage, Stage
      <4>3. loc[u].fd # fd
        BY <1>4, <3>2, <4>1, <4>2 DEF Claimed, Working
      <4> QED BY <4>1, <4>2, <4>3
    <3> QED BY <3>1, <3>2
  <2>3. ASSUME NEW u \in Tasks,
               pc'[u] \in {"find", "inc", "found", "path_drv", "opendir_drv",
                           "closedir_drv"}
        PROVE  loc'[u].fd = NFd
    <3>1. u # t
      BY <1>2, <2>3
    <3> QED BY <1>1, <2>3, <3>1, HereFd DEF FdStage
  <2> QED BY <2>1, <2>2, <2>3 DEF FdStages, FdStage
<1> QED BY <1>5, <1>6, <1>7, <1>8 DEF FdInv

\* No client passes a descriptor that another client holds.
OwnFds == ~StaleFds \/ \A t, u \in Tasks : t = u

LEMMA UsableHeld ==
  ASSUME OwnFds, TypeInv, FdInv, NEW t \in Tasks, pc[t] = "idle",
         NEW fd, Usable(t, fd), FdIsValid(fd)
  PROVE  fd \in held[t]
<1>1. CASE ~StaleFds
  BY <1>1 DEF Usable
<1>2. CASE \A u, v \in Tasks : u = v
  <2>1. fd \in Fds /\ fds[fd].tcb \in Tasks
    BY DEF FdIsValid, TypeInv, DataOK
  <2>2. fd \in Claimed(t)
    BY <1>2, <2>1 DEF FdInv, Owned
  <2>3. Working(t) = {}
    BY DEF Working
  <2> QED BY <2>2, <2>3 DEF Claimed
<1> QED BY <1>1, <1>2 DEF OwnFds

LEMMA FdCallClose ==
  ASSUME OwnFds, TypeInv, FdInv, NEW t \in Tasks, CallClose(t)
  PROVE  FdInv'
<1>1. UNCHANGED fds
  BY DEF CallClose
<1>2. PICK fd \in 0 .. NFd :
        /\ \/ Reject(t, "close", "EBADF") /\ UNCHANGED held
           \/ fd \in held[t] /\ \E l \in {"close_drv", "dec"} : \E m :
                /\ Begin(t, "close", l,
                         [Blank EXCEPT !.fd = fd, !.refs = <<m>>, !.res = "ok"])
                /\ held' = [held EXCEPT ![t] = @ \ {fd}]
  <2>1. PICK fd \in 0 .. NFd :
          /\ Usable(t, fd)
          /\ \/ Reject(t, "close", "EBADF") /\ UNCHANGED held
             \/ /\ FdIsValid(fd)
                /\ Begin(t, "close",
                         IF "close" \in Implements[fds[fd].mp]
                           THEN "close_drv" ELSE "dec",
                         [Blank EXCEPT !.fd = fd, !.refs = <<fds[fd].mp>>,
                                       !.res = "ok"])
                /\ held' = [held EXCEPT ![t] = @ \ {fd}]
    BY Zenon DEF CallClose
  <2>2. (IF "close" \in Implements[fds[fd].mp] THEN "close_drv" ELSE "dec")
          \in {"close_drv", "dec"}
    OBVIOUS
  <2>3. CASE Reject(t, "close", "EBADF") /\ UNCHANGED held
    BY <2>3, Zenon
  <2>4. CASE /\ FdIsValid(fd)
             /\ Begin(t, "close",
                      IF "close" \in Implements[fds[fd].mp]
                        THEN "close_drv" ELSE "dec",
                      [Blank EXCEPT !.fd = fd, !.refs = <<fds[fd].mp>>,
                                    !.res = "ok"])
             /\ held' = [held EXCEPT ![t] = @ \ {fd}]
    <3>1. fd \in held[t]
      BY <2>1, <2>4, UsableHeld DEF Begin
    <3> QED BY <2>2, <2>4, <3>1, Zenon
  <2> QED BY <2>1, <2>3, <2>4, Zenon
<1>3. CASE Reject(t, "close", "EBADF") /\ UNCHANGED held
  <2>1. Work(pc[t], loc[t]) = {}
    BY <1>3 DEF Reject, Work
  <2> QED BY <1>1, <1>3, <2>1, FdFinish DEF Reject
<1>4. ASSUME NEW l \in {"close_drv", "dec"}, NEW m, fd \in held[t],
             Begin(t, "close", l,
                   [Blank EXCEPT !.fd = fd, !.refs = <<m>>, !.res = "ok"]),
             held' = [held EXCEPT ![t] = @ \ {fd}]
      PROVE  FdInv'
  <2> DEFINE args == [Blank EXCEPT !.fd = fd, !.refs = <<m>>, !.res = "ok"]
             r == [args EXCEPT !.op = "close"]
             h == held[t] \ {fd}
  <2>1. fd \in Fds /\ h \in SUBSET Fds /\ fd \in Claimed(t)
    BY <1>4 DEF TypeInv, DataOK, Claimed
  <2>2. /\ pc[t] = "idle" /\ pc' = [pc EXCEPT ![t] = l]
        /\ loc' = [loc EXCEPT ![t] = r] /\ held' = [held EXCEPT ![t] = h]
    BY <1>4 DEF Begin, Goto, TypeInv, DataOK
  <2>3. r.fd = fd
    BY DEF Blank
  <2> HIDE DEF r
  <2>4. Work(l, r) = {fd} /\ Work(pc[t], loc[t]) = {}
    BY <2>1, <2>2, <2>3 DEF Work
  <2>5. fds'[fd].tcb = t
    BY <1>1, <2>1 DEF FdInv, Owned
  <2>6. /\ h \ {fd} = held[t] \ {fd} /\ fd \notin h
        /\ Work(l, r) \ {fd} = Work(pc[t], loc[t]) \ {fd}
        /\ h \cap Work(l, r) = {} /\ fd \in Work(l, r)
    BY <2>4
  <2> HIDE DEF h
  <2>7. FdMove(t, l, r, h, fd)
    BY <1>1, <2>1, <2>2, <2>5, <2>6 DEF FdMove
  <2> QED BY <2>1, <2>7, FdTable
<1> QED BY <1>2, <1>3, <1>4

LEMMA FdSeekPos ==
  ASSUME OwnFds, TypeInv, FdInv, NEW t \in Tasks, SeekPos(t)
  PROVE  FdInv'
<1>1. PICK fd \in Fds :
        /\ fd \in held[t]
        /\ \E code : Finish(t, code)
        /\ pc[t] = "idle" /\ UNCHANGED held
        /\ UNCHANGED fds \/ \E pos : fds' = [fds EXCEPT ![fd].pos = pos]
  BY UsableHeld DEF SeekPos, Reject
<1>2. /\ pc' = [pc EXCEPT ![t] = "idle"] /\ loc' = [loc EXCEPT ![t] = Blank]
      /\ held' = [held EXCEPT ![t] = held[t]] /\ held[t] \in SUBSET Fds
  BY <1>1 DEF Finish, Goto, TypeInv, DataOK
<1>3. Work("idle", Blank) = {} /\ Work(pc[t], loc[t]) = {}
  BY <1>1 DEF Work
<1>4. /\ \A f \in Fds : f # fd => fds'[f] = fds[f]
      /\ fds'[fd].tcb = fds[fd].tcb /\ fds'[fd].drv = fds[fd].drv
      /\ fds'[fd].mp = fds[fd].mp
  BY <1>1 DEF TypeInv, DataOK
<1>5. fd \in Claimed(t) /\ fds[fd].tcb = t /\ fds[fd].drv /\ fds[fd].mp # NoMount
  BY <1>1 DEF FdInv, Owned, HeldIsOpen, Claimed
<1>6. /\ Work("idle", Blank) \ {fd} = Work(pc[t], loc[t]) \ {fd}
      /\ held[t] \cap Work("idle", Blank) = {}
  BY <1>3
<1>7. FdMove(t, "idle", Blank, held[t], fd)
  BY <1>1, <1>2, <1>4, <1>5, <1>6 DEF FdMove
<1> QED BY <1>2, <1>7, FdTable

LEMMA FdReturn ==
  ASSUME TypeInv, FdInv, NEW t \in Tasks, Return(t)
  PROVE  FdInv'
<1> DEFINE fd == loc[t].fd
<1>1. /\ pc[t] = "dec" /\ UNCHANGED held /\ ClearSlot(fd)
      /\ Finish(t, loc[t].res)
  BY DEF Return
<1>2. CASE fd \notin Fds
  <2>1. UNCHANGED <<fds, held>> /\ Work(pc[t], loc[t]) = {}
    BY <1>1, <1>2 DEF ClearSlot, Work
  <2> QED BY <1>1, <2>1, FdFinish
<1>3. CASE fd \in Fds
  <2>1. fds' = [fds EXCEPT ![fd].tcb = NoTask]
    BY <1>1, <1>3 DEF ClearSlot
  <2>2. /\ pc' = [pc EXCEPT ![t] = "idle"] /\ loc' = [loc EXCEPT ![t] = Blank]
        /\ held' = [held EXCEPT ![t] = held[t]] /\ held[t] \in SUBSET Fds
    BY <1>1 DEF Finish, Goto, TypeInv, DataOK
  <2>3. Work("idle", Blank) = {} /\ Work(pc[t], loc[t]) = {fd}
    BY <1>1, <1>3 DEF Work
  <2>4. fd \in Claimed(t) /\ fd \notin held[t]
    BY <2>3, WorkingWork DEF Claimed, FdInv, Apart
  <2> HIDE DEF fd
  <2>5. (\A f \in Fds : f # fd => fds'[f] = fds[f]) /\ fds'[fd].tcb = NoTask
    BY <1>3, <2>1 DEF TypeInv, DataOK
  <2>6. /\ Work("idle", Blank) \ {fd} = Work(pc[t], loc[t]) \ {fd}
        /\ held[t] \cap Work("idle", Blank) = {}
        /\ fd \notin held[t] \cup Work("idle", Blank)
    BY <2>3, <2>4
  <2>7. FdMove(t, "idle", Blank, held[t], fd)
    BY <1>3, <2>2, <2>4, <2>5, <2>6 DEF FdMove
  <2> QED BY <1>3, <2>2, <2>7, FdTable
<1> QED BY <1>2, <1>3

LEMMA FdCloseDriver ==
  ASSUME TypeInv, FdInv, NEW t \in Tasks, CloseDriver(t)
  PROVE  FdInv'
<1> DEFINE fd == loc[t].fd
<1>1. /\ pc[t] = "close_drv" /\ UNCHANGED held
      /\ fds' = [fds EXCEPT ![fd].drv = FALSE]
  BY DEF CloseDriver
<1>2. PICK code \in Codes : Release(t, code)
  BY DEF CloseDriver, Outcomes, Codes
<1>3. CASE fd \notin Fds
  <2>1. UNCHANGED <<fds, held>>
    BY <1>1, <1>3 DEF TypeInv, DataOK
  <2> QED BY <1>1, <1>2, <2>1, FdRelease
<1>4. CASE fd \in Fds
  <2> DEFINE r == [loc[t] EXCEPT !.res = code]
  <2>1. /\ pc' = [pc EXCEPT ![t] = "dec"] /\ loc' = [loc EXCEPT ![t] = r]
        /\ held' = [held EXCEPT ![t] = held[t]] /\ held[t] \in SUBSET Fds
    BY <1>1, <1>2 DEF Release, Goto, TypeInv, DataOK, ControlOK
  <2>2. r.fd = fd
    BY LocalType DEF TypeInv, Locals
  <2> HIDE DEF r
  <2>3. Work("dec", r) = {fd} /\ Work(pc[t], loc[t]) = {fd}
    BY <1>1, <1>4, <2>2 DEF Work
  <2>4. fd \in Claimed(t) /\ fd \notin held[t] /\ fds[fd].tcb = t
    BY <1>4, <2>3, WorkingWork DEF Claimed, FdInv, Apart, Owned
  <2> HIDE DEF fd
  <2>5. (\A f \in Fds : f # fd => fds'[f] = fds[f]) /\ fds'[fd].tcb = fds[fd].tcb
    BY <1>1, <1>4 DEF TypeInv, DataOK
  <2>6. /\ Work("dec", r) = Work(pc[t], loc[t])
        /\ held[t] \cap Work("dec", r) = {} /\ fd \in Work("dec", r)
    BY <2>3, <2>4
  <2>7. FdMove(t, "dec", r, held[t], fd)
    BY <1>4, <2>1, <2>4, <2>5, <2>6 DEF FdMove
  <2> QED BY <1>4, <2>1, <2>7, FdTable
<1> QED BY <1>3, <1>4

LEMMA FdOpenDriver ==
  ASSUME TypeInv, FdInv, NEW t \in Tasks, OpenDriver(t)
  PROVE  FdInv'
<1> DEFINE fd == loc[t].fd
           h == held[t] \cup {fd}
<1>1. pc[t] = "open_drv" /\ fd \in Fds /\ fds[fd].mp # NoMount
  BY HereStage, HereFd DEF OpenDriver, Stage, FdStage
<1>2. \/ fds' = [fds EXCEPT ![fd].drv = TRUE] /\ GrantFd(t, fd)
      \/ Release(t, "EIO") /\ UNCHANGED <<fds, held>>
  BY DEF OpenDriver
<1>3. CASE Release(t, "EIO") /\ UNCHANGED <<fds, held>>
  BY <1>1, <1>3, FdRelease DEF Codes
<1>4. CASE fds' = [fds EXCEPT ![fd].drv = TRUE] /\ GrantFd(t, fd)
  <2>1. /\ pc' = [pc EXCEPT ![t] = "idle"] /\ loc' = [loc EXCEPT ![t] = Blank]
        /\ held' = [held EXCEPT ![t] = h] /\ h \in SUBSET Fds
    BY <1>1, <1>4 DEF GrantFd, Finish, Goto, TypeInv, DataOK
  <2>2. Work("idle", Blank) = {} /\ Work(pc[t], loc[t]) = {fd}
    BY <1>1 DEF Work
  <2>3. fd \in Claimed(t) /\ fds[fd].tcb = t
    BY <1>1, <2>2, WorkingWork DEF Claimed, FdInv, Owned
  <2> HIDE DEF fd
  <2>4. /\ \A f \in Fds : f # fd => fds'[f] = fds[f]
        /\ fds'[fd].tcb = fds[fd].tcb /\ fds'[fd].drv
        /\ fds'[fd].mp = fds[fd].mp
    BY <1>1, <1>4 DEF TypeInv, DataOK
  <2>5. fd \in h /\ h \ {fd} = held[t] \ {fd}
    OBVIOUS
  <2> HIDE DEF h
  <2>6. /\ Work("idle", Blank) \ {fd} = Work(pc[t], loc[t]) \ {fd}
        /\ h \cap Work("idle", Blank) = {}
    BY <2>2
  <2>7. FdMove(t, "idle", Blank, h, fd)
    BY <1>1, <2>1, <2>3, <2>4, <2>5, <2>6 DEF FdMove
  <2> QED BY <1>1, <2>1, <2>7, FdTable
<1> QED BY <1>2, <1>3, <1>4

\* Only _open_mutex keeps a second task from taking the free slot first.
LEMMA FdInitFd ==
  ASSUME TypeInv, MutexInv, FdInv, NEW t \in Tasks, InitFd(t)
  PROVE  FdInv'
<1> DEFINE fd == loc[t].fd
           m == Head(loc[t].refs)
           h == held[t] \cup {fd}
           b == "open" \notin Implements[m]
           slot == [fds[fd] EXCEPT !.tcb = t, !.mp = m, !.mode = loc[t].mode,
                                   !.pos = 0, !.drv = b]
<1>1. /\ pc[t] = "init" /\ fd \in Fds /\ m \in Mounts /\ fds[fd].tcb = NoTask
      /\ fds[fd] \in [tcb : Tasks \cup {NoTask}, mp : Mounts \cup {NoMount},
                      mode : Modes, pos : Nat, drv : BOOLEAN]
  <2>1. pc[t] = "init"
    BY DEF InitFd
  <2> QED BY <2>1, HereStage, HereFd, LocalType DEF Stage, FdStage, TypeInv, DataOK
<1>2. /\ fds' = [fds EXCEPT ![fd] = slot]
      /\ \/ ~b /\ Goto(t, "open_drv") /\ UNCHANGED <<loc, ret, held>>
         \/ b /\ GrantFd(t, fd)
  BY Zenon DEF InitFd
<1>3. \A u \in Tasks : u # t => pc[u] # "init"
  BY <1>1 DEF MutexInv, MutexOwned, InOpenSection
<1>4. slot.tcb = t /\ slot.mp = m /\ slot.drv = b
  <2> HIDE DEF m, b, fd
  <2> QED BY <1>1
<1>5. /\ \A f \in Fds : f # fd => fds'[f] = fds[f]
      /\ fds'[fd].tcb = t /\ fds'[fd].mp # NoMount /\ fds'[fd].drv = b
  <2>1. (\A f \in Fds : f # fd => fds'[f] = fds[f]) /\ fds'[fd] = slot
    <3> HIDE DEF slot, fd
    <3> QED BY <1>1, <1>2 DEF TypeInv, DataOK
  <2> HIDE DEF slot, m, b
  <2> QED BY <1>1, <1>4, <2>1, VfsConstants
<1>6. fd \notin held[t] /\ Work(pc[t], loc[t]) = {}
  <2>1. fd \notin Claimed(t)
    BY <1>1, VfsConstants DEF FdInv, Owned
  <2> QED BY <1>1, <2>1 DEF Claimed, Work
<1>7. CASE ~b /\ Goto(t, "open_drv") /\ UNCHANGED <<loc, ret, held>>
  <2>1. /\ pc' = [pc EXCEPT ![t] = "open_drv"]
        /\ loc' = [loc EXCEPT ![t] = loc[t]]
        /\ held' = [held EXCEPT ![t] = held[t]] /\ held[t] \in SUBSET Fds
    BY <1>7 DEF Goto, TypeInv, DataOK, ControlOK
  <2>2. Work("open_drv", loc[t]) = {fd}
    BY <1>1 DEF Work
  <2>3. fd = loc[t].fd
    OBVIOUS
  <2> HIDE DEF b, fd
  <2>4. FdMove(t, "open_drv", loc[t], held[t], fd)
    BY <1>1, <1>3, <1>5, <1>6, <2>1, <2>2, <2>3 DEF FdMove
  <2> QED BY <1>1, <2>1, <2>4, FdTable
<1>8. CASE b /\ GrantFd(t, fd)
  <2>1. /\ pc' = [pc EXCEPT ![t] = "idle"] /\ loc' = [loc EXCEPT ![t] = Blank]
        /\ held' = [held EXCEPT ![t] = h] /\ h \in SUBSET Fds
    BY <1>1, <1>8 DEF GrantFd, Finish, Goto, TypeInv, DataOK
  <2>2. Work("idle", Blank) = {}
    BY DEF Work
  <2>3. fd \in h /\ h \ {fd} = held[t] \ {fd}
    OBVIOUS
  <2> HIDE DEF b, h, fd
  <2>4. FdMove(t, "idle", Blank, h, fd)
    BY <1>1, <1>3, <1>5, <1>6, <1>8, <2>1, <2>2, <2>3 DEF FdMove
  <2> QED BY <1>1, <2>1, <2>4, FdTable
<1> QED BY <1>2, <1>7, <1>8

-----------------------------------------------------------------------------
LEMMA FdStep ==
  ASSUME OwnFds
  PROVE  TypeInv /\ MutexInv /\ FdInv /\ [Next]_vars => FdInv'
<1> SUFFICES ASSUME TypeInv, MutexInv, FdInv, [Next]_vars PROVE FdInv'
  OBVIOUS
<1>1. ASSUME NEW t \in Tasks, Call(t) PROVE FdInv'
  BY <1>1, FdCalls, FdCallClose, FdSeekPos, Zenon DEF Call
<1>2. ASSUME NEW t \in Tasks, Acquire(t) PROVE FdInv'
  BY <1>2, FdLookups, FdOthers, Zenon DEF Acquire
<1>3. ASSUME NEW t \in Tasks, Run(t) PROVE FdInv'
  BY <1>3, FdLookups, FdOthers, FdReturn, FdInitFd, FdOpenDriver, FdCloseDriver,
     Zenon DEF Run
<1>4. ASSUME UNCHANGED vars PROVE FdInv'
  BY <1>4 DEF vars, FdInv, Owned, Apart, FdStages, FdStage, HeldIsOpen, Claimed,
              Working
<1> QED BY <1>1, <1>2, <1>3, <1>4 DEF Next

LEMMA FdAlways ==
  ASSUME OwnFds
  PROVE  Spec => [](TypeInv /\ MutexInv /\ FdInv)
<1>1. Init => TypeInv /\ MutexInv
  BY TypeInit, MutexInit
<1>2. Init => FdInv
  <2> SUFFICES ASSUME Init PROVE FdInv
    OBVIOUS
  <2>1. \A t \in Tasks : held[t] = {} /\ Working(t) = {}
    BY DEF Init, Working
  <2>2. Owned /\ Apart
    BY <2>1, VfsConstants DEF Init, Owned, Apart, Claimed, FreeSlot
  <2>3. FdStages /\ HeldIsOpen
    BY <2>1 DEF Init, FdStages, FdStage, HeldIsOpen
  <2> QED BY <2>2, <2>3 DEF FdInv
<1> QED BY <1>1, <1>2, TypeStep, MutexStep, FdStep, PTL DEF Spec

\* A slot of _vfs_open_files is never given to two clients, however many tasks
\* open and close files at once, as long as no client uses a descriptor
\* another one holds.
THEOREM FdsExclusive ==
  ASSUME OwnFds
  PROVE  Spec => []FdExclusive
<1>1. TypeInv /\ MutexInv /\ FdInv => FdExclusive
  BY FdInvSafe
<1> QED BY <1>1, FdAlways, PTL

\* No failed open, failed driver call or close loses a slot of the table.
THEOREM FdsNotLeaked ==
  ASSUME OwnFds
  PROVE  Spec => []NoFdLeak
<1>1. TypeInv /\ MutexInv /\ FdInv => NoFdLeak
  BY FdInvSafe
<1> QED BY <1>1, FdAlways, PTL

\* A descriptor that vfs_open returned is open in its driver until its owner
\* closes it.
THEOREM HeldStaysOpen ==
  ASSUME OwnFds
  PROVE  Spec => []HeldIsOpen
<1>1. TypeInv /\ MutexInv /\ FdInv => HeldIsOpen
  BY FdInvSafe
<1> QED BY <1>1, FdAlways, PTL

-----------------------------------------------------------------------------
\* No step redirects a slot that a client holds.

Stable == \A t \in Tasks : \A f \in held[t] \cap held'[t] :
            /\ fds'[f].mp = fds[f].mp
            /\ fds'[f].mode = fds[f].mode
            /\ fds'[f].drv

\* The slot a task works on is held by nobody.
LEMMA WorkNotHeld ==
  ASSUME FdInv, NEW t \in Tasks, NEW fd \in Working(t), NEW u \in Tasks
  PROVE  fd \notin held[u]
<1>1. fd \in Fds /\ fd \in Claimed(t)
  BY DEF Working, Claimed
<1>2. CASE u = t
  BY <1>2 DEF FdInv, Apart
<1>3. CASE u # t
  <2>1. fd \notin Claimed(u)
    BY <1>1, <1>3 DEF FdInv, Owned
  <2> QED BY <2>1 DEF Claimed
<1> QED BY <1>2, <1>3

LEMMA StableSame ==
  ASSUME FdInv, UNCHANGED fds
  PROVE  Stable
BY DEF FdInv, HeldIsOpen, Stable

LEMMA StableSlot ==
  ASSUME TypeInv, FdInv, NEW fd, \A f \in Fds : f # fd => fds'[f] = fds[f],
         \A u \in Tasks : fd \notin held[u]
  PROVE  Stable
<1> SUFFICES ASSUME NEW t \in Tasks, NEW f \in held[t] \cap held'[t]
             PROVE  /\ fds'[f].mp = fds[f].mp
                    /\ fds'[f].mode = fds[f].mode
                    /\ fds'[f].drv
  BY DEF Stable
<1>1. f \in Fds /\ f # fd
  BY DEF TypeInv, DataOK
<1> QED BY <1>1 DEF FdInv, HeldIsOpen

LEMMA StableStep ==
  ASSUME TypeInv, FdInv, [Next]_vars
  PROVE  Stable
<1>1. ASSUME NEW t \in Tasks, Call(t) PROVE Stable
  <2>1. CASE SeekPos(t)
    <3>1. PICK fd \in Fds :
            UNCHANGED fds \/ \E pos : fds' = [fds EXCEPT ![fd].pos = pos]
      BY <2>1 DEF SeekPos
    <3>2. \A f \in Fds : /\ fds'[f].mp = fds[f].mp
                         /\ fds'[f].mode = fds[f].mode
                         /\ fds'[f].drv = fds[f].drv
      <4>1. fds \in [Fds -> [tcb : Tasks \cup {NoTask}, mp : Mounts \cup {NoMount},
                             mode : Modes, pos : Nat, drv : BOOLEAN]]
        BY DEF TypeInv, DataOK
      <4>2. CASE UNCHANGED fds
        BY <4>2
      <4>3. ASSUME NEW pos, fds' = [fds EXCEPT ![fd].pos = pos], NEW f \in Fds
            PROVE  fds'[f].mp = fds[f].mp /\ fds'[f].mode = fds[f].mode /\ fds'[f].drv = fds[f].drv
        <5>1. fds'[f] = IF f = fd THEN [fds[f] EXCEPT !.pos = pos] ELSE fds[f]
          BY <4>1, <4>3
        <5> QED BY <5>1
      <4> QED BY <3>1, <4>2, <4>3
    <3>3. \A u \in Tasks : held[u] \subseteq Fds
      BY DEF TypeInv, DataOK
    <3> QED BY <3>2, <3>3 DEF FdInv, HeldIsOpen, Stable
  <2>2. CASE ~SeekPos(t)
    <3>1. UNCHANGED fds
      BY <1>1, <2>2 DEF Call, CallPath, CallRename, CallOpendir, CallMount,
         CallClose, CallFile, CallReaddir, CallClosedir, tableVars
    <3> QED BY <3>1, StableSame
  <2> QED BY <2>1, <2>2
<1>2. ASSUME NEW t \in Tasks, Acquire(t) PROVE Stable
  <2>1. UNCHANGED fds
    BY <1>2 DEF Acquire, FindMount, OpenLock, CheckMount, UmountLock, tableVars
  <2> QED BY <2>1, StableSame
<1>3. ASSUME NEW t \in Tasks, Run(t) PROVE Stable
  <2> DEFINE fd == loc[t].fd
  <2>1. CASE OpenDriver(t) \/ CloseDriver(t) \/ Return(t)
    <3>1. /\ pc[t] \in {"open_drv", "close_drv", "dec"}
          /\ \/ UNCHANGED fds
             \/ \E x : fds' = [fds EXCEPT ![fd].drv = x]
             \/ \E x : fds' = [fds EXCEPT ![fd].tcb = x]
      BY <2>1 DEF OpenDriver, CloseDriver, Return, ClearSlot
    <3> HIDE DEF fd
    <3>2. CASE fd \in Fds
      <4>1. fd \in Working(t)
        BY <3>1, <3>2 DEF Working, fd
      <4>2. \A u \in Tasks : fd \notin held[u]
        BY <4>1, WorkNotHeld
      <4>3. \A f \in Fds : f # fd => fds'[f] = fds[f]
        BY <3>1 DEF TypeInv, DataOK
      <4> QED BY <4>2, <4>3, StableSlot
    <3>3. CASE fd \notin Fds
      <4>1. UNCHANGED fds
        <5>1. DOMAIN fds = Fds /\ fds = [f \in Fds |-> fds[f]]
          BY DEF TypeInv, DataOK
        <5>2. ASSUME NEW slot PROVE [fds EXCEPT ![fd] = slot] = fds
          BY <3>3, <5>1
        <5> QED BY <3>1, <5>2
      <4> QED BY <4>1, StableSame
    <3> QED BY <3>2, <3>3
  <2>2. CASE InitFd(t)
    <3>1. pc[t] = "init" /\ \E slot : fds' = [fds EXCEPT ![fd] = slot]
      BY <2>2, Zenon DEF InitFd
    <3>2. fd \in Fds /\ fds[fd].tcb = NoTask
      BY <3>1, HereStage, HereFd DEF Stage, FdStage
    <3> HIDE DEF fd
    <3>3. \A u \in Tasks : fd \notin held[u]
      BY <3>2, VfsConstants DEF FdInv, Owned, Claimed
    <3>4. \A f \in Fds : f # fd => fds'[f] = fds[f]
      BY <3>1 DEF TypeInv, DataOK
    <3> QED BY <3>3, <3>4, StableSlot
  <2>3. CASE ~(OpenDriver(t) \/ CloseDriver(t) \/ Return(t) \/ InitFd(t))
    <3>1. UNCHANGED fds
      BY <1>3, <2>3 DEF Run, FoundMount, DecLoad, DecStore, AllocateFd,
         FileDriver, PathCall, PathDriver, OpendirInit, OpendirDriver,
         ReaddirDriver, ClosedirDriver, MountDriver, UmountDriver, FormatDriver,
         tableVars
    <3> QED BY <3>1, StableSame
  <2> QED BY <2>1, <2>2, <2>3
<1>4. ASSUME UNCHANGED vars PROVE Stable
  BY <1>4, StableSame DEF vars
<1> QED BY <1>1, <1>2, <1>3, <1>4 DEF Next

\* While a client holds a descriptor, no call of any task changes the mount or
\* the access mode of its slot, or closes it in the driver.
THEOREM HeldStaysStable ==
  ASSUME OwnFds
  PROVE  Spec => HeldIsStable
<1>1. TypeInv /\ MutexInv /\ FdInv /\ [Next]_vars => [Stable]_vars
  BY StableStep
<1> QED BY <1>1, FdAlways, PTL DEF Spec, HeldIsStable, Stable

=============================================================================
