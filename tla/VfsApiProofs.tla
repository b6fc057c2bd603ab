----------------------------- MODULE VfsApiProofs -----------------------------
(***************************************************************************)
(* Vfs implements VfsApi: with one task and no forced umount, every step of *)
(* the layer is a step of the client's specification or changes nothing a   *)
(* client sees.  Most steps of a call are of the second kind; the argument  *)
(* is about what a call has found out when it answers: a descriptor was     *)
(* free, the volume is listed, no handle is open on it.                    *)
(***************************************************************************)
EXTENDS VfsRefsProofs

\* What a call at label l with locals r knows about the client's view.
Known(t, l, r) ==
  /\ l \in {"dec", "dec_store"} =>
       /\ r.res # "none"
       /\ r.res = "ENFILE" => Fds \subseteq held[t]
       /\ r.res \in {"EBUSY", "EROFS", "EXDEV", "EPERM"} => Listed # {}
  /\ l = "alloc" => \A f \in Fds : f < r.fd => f \in held[t]
  /\ l \in {"umount_lock", "umount_drv"} => r.m \in Listed

\* A task waits for an answer as long as it is inside a call.
Answering(t) == ret[t] = "none" <=> pc[t] # "idle"

ApiInv == \A t \in Tasks : Known(t, pc[t], loc[t]) /\ Answering(t)

\* What is to show of every step.
Simulated == ApiInv' /\ (Api!Next \/ UNCHANGED Api!apiVars)

LEMMA OneKnown ==
  ASSUME Sequential, NEW t \in Tasks, Known(t, pc[t], loc[t])', Answering(t)'
  PROVE  ApiInv'
<1>1. \A u \in Tasks : u = t
  BY DEF Sequential, OneTask
<1> QED BY <1>1 DEF ApiInv

LEMMA HereKnown ==
  ASSUME ApiInv, NEW t \in Tasks
  PROVE  Known(t, pc[t], loc[t]) /\ Answering(t)
BY DEF ApiInv

-----------------------------------------------------------------------------
\* Steps that leave the handles alone.

LEMMA SameView ==
  ASSUME Sequential, NEW t \in Tasks, Handles(t)
  PROVE  FileMounts' = FileMounts /\ StreamMounts' = StreamMounts
<1>1. \A u \in Tasks : u = t
  BY DEF Sequential, OneTask
<1>2. FileMounts' = FileMounts
  BY <1>1 DEF Handles, FileMounts
<1>3. StreamMounts' = StreamMounts
  BY DEF Handles, StreamMounts
<1> QED BY <1>2, <1>3

\* The steps inside a call.
LEMMA ApiMove ==
  ASSUME Sequential, TypeInv, ApiInv, NEW t \in Tasks, NEW l, NEW r,
         pc[t] # "idle", l # "idle", pc'[t] = l, loc'[t] = r, UNCHANGED ret,
         Handles(t), Listed' = Listed, Known(t, l, r)
  PROVE  Simulated
<1>1. Known(t, pc[t], loc[t])'
  BY DEF Known, Handles
<1>2. Answering(t)'
  BY HereKnown DEF Answering
<1>3. UNCHANGED Api!apiVars
  BY SameView DEF Api!apiVars
<1> QED BY <1>1, <1>2, <1>3, OneKnown DEF Simulated

LEMMA ApiGoto ==
  ASSUME Sequential, TypeInv, ApiInv, NEW t \in Tasks, NEW l, Goto(t, l),
         UNCHANGED <<loc, ret>>, pc[t] # "idle", Handles(t), Listed' = Listed,
         l \notin {"idle", "dec", "dec_store", "alloc"},
         l \in {"umount_lock", "umount_drv"} => loc[t].m \in Listed
  PROVE  Simulated
<1>1. pc'[t] = l /\ loc'[t] = loc[t]
  BY DEF Goto, TypeInv, ControlOK
<1>2. Known(t, l, loc[t])
  BY DEF Known
<1> QED BY <1>1, <1>2, ApiMove

\* The answers that say something of the client's view.
Truthful(t, code) ==
  /\ code \in Codes \ {"none"}
  /\ code = "ENFILE" => Fds \subseteq held[t]
  /\ code \in {"EBUSY", "EROFS", "EXDEV", "EPERM"} => Listed # {}

LEMMA ApiRelease ==
  ASSUME Sequential, TypeInv, ApiInv, NEW t \in Tasks, NEW code, Release(t, code),
         pc[t] # "idle", Handles(t), Listed' = Listed, Truthful(t, code)
  PROVE  Simulated
<1> DEFINE r == [loc[t] EXCEPT !.res = code]
<1>1. pc'[t] = "dec" /\ loc'[t] = r /\ UNCHANGED ret
  BY DEF Release, Goto, TypeInv, ControlOK
<1>2. r.res = code
  BY LocalType DEF TypeInv, Locals
<1> HIDE DEF r
<1>3. Known(t, "dec", r)
  BY <1>2 DEF Known, Truthful
<1> QED BY <1>1, <1>3, ApiMove

LEMMA ApiIdle ==
  ASSUME Sequential, TypeInv, NEW t \in Tasks, NEW code, Finish(t, code),
         code # "none"
  PROVE  ApiInv' /\ Api!Answer(t, code)
<1>1. pc'[t] = "idle" /\ ret'[t] = code /\ ret' = [ret EXCEPT ![t] = code]
  BY DEF Finish, Goto, TypeInv, ControlOK
<1>2. Known(t, pc[t], loc[t])' /\ Answering(t)'
  BY <1>1 DEF Known, Answering
<1> QED BY <1>1, <1>2, OneKnown DEF Api!Answer

\* A descriptor that is held has a volume.
LEMMA HeldMount ==
  ASSUME TypeInv, FdInv, NEW t \in Tasks, NEW f \in held[t]
  PROVE  f \in Fds /\ FileMounts[f] = fds[f].mp /\ fds[f].mp \in Mounts
<1>1. f \in Fds
  BY DEF TypeInv, DataOK
<1>2. fds[f].mp \in Mounts
  BY <1>1 DEF FdInv, HeldIsOpen, TypeInv, DataOK
<1> QED BY <1>1, <1>2 DEF FileMounts

\* A call answers and nothing else happens.
LEMMA ApiFinish ==
  ASSUME Sequential, TypeInv, FdInv, ApiInv, NEW t \in Tasks, NEW code,
         Finish(t, code), pc[t] # "idle", Handles(t), Listed' = Listed,
         Truthful(t, code)
  PROVE  Simulated
<1>1. ApiInv' /\ Api!Answer(t, code)
  BY ApiIdle DEF Truthful
<1>2. ret[t] = "none"
  BY HereKnown DEF Answering
<1>3. code = "ENFILE" => \A f \in Fds : FileMounts[f] # NoMount
  BY HeldMount, VfsConstants DEF Truthful
<1>4. UNCHANGED <<Listed, FileMounts, StreamMounts>>
  BY SameView
<1>5. Api!Other(t)
  BY <1>1, <1>2, <1>3, <1>4 DEF Api!Other, Truthful
<1> QED BY <1>1, <1>5 DEF Simulated, Api!Next

LEMMA ApiReject ==
  ASSUME Sequential, TypeInv, ApiInv, NEW t \in Tasks, NEW op, NEW code,
         Reject(t, op, code), code \in {"EBADF", "EINVAL", "ok"}, Handles(t),
         Listed' = Listed
  PROVE  Simulated
<1>1. ApiInv' /\ Api!Answer(t, code)
  BY ApiIdle DEF Reject
<1>2. ret[t] # "none"
  BY HereKnown DEF Answering, Reject
<1>3. Api!Refuse(t)
  BY <1>1, <1>2, SameView DEF Api!Refuse
<1> QED BY <1>1, <1>3 DEF Simulated, Api!Next

LEMMA ApiInvoked ==
  ASSUME Sequential, TypeInv, ApiInv, NEW t \in Tasks, NEW op, NEW l, NEW args,
         Begin(t, op, l, args),
         l \notin {"idle", "dec_store", "alloc", "umount_lock", "umount_drv"},
         l = "dec" => loc'[t].res = "ok"
  PROVE  ApiInv' /\ ret[t] # "none" /\ Api!Answer(t, "none")
<1>1. /\ pc'[t] = l /\ pc[t] = "idle"
      /\ ret'[t] = "none" /\ ret' = [ret EXCEPT ![t] = "none"]
  BY DEF Begin, Goto, TypeInv, ControlOK
<1>2. Known(t, pc[t], loc[t])'
  BY <1>1 DEF Known
<1>3. Answering(t)'
  BY <1>1 DEF Answering
<1>4. ret[t] # "none"
  BY <1>1, HereKnown DEF Answering
<1> QED BY <1>1, <1>2, <1>3, <1>4, OneKnown DEF Api!Answer

LEMMA ApiBegin ==
  ASSUME Sequential, TypeInv, ApiInv, NEW t \in Tasks, NEW op, NEW l, NEW args,
         Begin(t, op, l, args), l \in {"find", "check", "file_drv", "dir_drv"},
         Handles(t), Listed' = Listed
  PROVE  Simulated
<1>1. ApiInv' /\ ret[t] # "none" /\ Api!Answer(t, "none")
  BY ApiInvoked
<1>2. Api!Invoke(t)
  BY <1>1, SameView DEF Api!Invoke
<1> QED BY <1>1, <1>2 DEF Simulated, Api!Next

-----------------------------------------------------------------------------
\* The calls that give no handle up.

LEMMA ApiOtherCalls ==
  ASSUME Sequential, TypeInv, ApiInv, NEW t \in Tasks,
         CallPath(t) \/ CallRename(t) \/ CallOpendir(t) \/ CallMount(t)
           \/ CallFile(t) \/ SeekPos(t) \/ CallReaddir(t)
  PROVE  Simulated
<1>1. Listed' = Listed /\ UNCHANGED <<held, dirs, openDirs>>
  <2>1. UNCHANGED <<mounts, held, dirs, openDirs>>
    BY Zenon DEF CallPath, CallRename, CallOpendir, CallMount, CallFile, SeekPos,
       CallReaddir, mountVars, tableVars, dirVars
  <2> QED BY <2>1 DEF Listed
<1>2. CASE SeekPos(t)
  <2>1. /\ \E code \in {"EBADF", "EINVAL", "ok"} : Reject(t, "lseek", code)
        /\ UNCHANGED fds \/ \E fd \in Fds : \E pos : fds' = [fds EXCEPT ![fd].pos = pos]
    BY <1>2 DEF SeekPos
  <2>2. \A f \in Fds : fds'[f].mp = fds[f].mp
    <3>1. fds \in [Fds -> [tcb : Tasks \cup {NoTask}, mp : Mounts \cup {NoMount},
                           mode : Modes, pos : Nat, drv : BOOLEAN]]
      BY DEF TypeInv, DataOK
    <3> QED BY <2>1, <3>1
  <2>3. held[t] \subseteq Fds
    BY DEF TypeInv, DataOK
  <2>4. Handles(t)
    BY <1>1, <2>2, <2>3 DEF Handles
  <2> QED BY <1>1, <2>1, <2>4, ApiReject
<1>3. CASE ~SeekPos(t)
  <2>1. UNCHANGED fds
    BY <1>3 DEF CallPath, CallRename, CallOpendir, CallMount, CallFile, CallReaddir,
       tableVars
  <2>2. Handles(t)
    BY <1>1, <2>1 DEF Handles
  <2>3. \/ \E op, args : \E l \in {"find", "check", "file_drv", "dir_drv"} :
             Begin(t, op, l, args)
        \/ \E op : \E code \in {"EBADF", "EINVAL", "ok"} : Reject(t, op, code)
    <3>1. CASE CallPath(t) \/ CallRename(t) \/ CallOpendir(t) \/ CallMount(t)
      BY <3>1 DEF CallPath, CallRename, CallOpendir, CallMount
    <3>2. CASE CallFile(t)
      BY <3>2 DEF CallFile
    <3>3. CASE CallReaddir(t)
      BY <3>3 DEF CallReaddir
    <3> QED BY <1>3, <3>1, <3>2, <3>3
  <2> QED BY <1>1, <2>2, <2>3, ApiBegin, ApiReject
<1> QED BY <1>2, <1>3

\* A close gives its descriptor up when it is called, a closedir its stream.
LEMMA ApiCallClose ==
  ASSUME Sequential, OwnFds, TypeInv, FdInv, ApiInv, NEW t \in Tasks, CallClose(t)
  PROVE  Simulated
<1>1. UNCHANGED <<fds, dirs, openDirs>> /\ Listed' = Listed
  BY DEF CallClose, dirVars, mountVars, Listed
<1>2. PICK fd \in 0 .. NFd :
        \/ Reject(t, "close", "EBADF") /\ UNCHANGED held
        \/ /\ Usable(t, fd) /\ FdIsValid(fd)
           /\ Begin(t, "close",
                    IF "close" \in Implements[fds[fd].mp] THEN "close_drv" ELSE "dec",
                    [Blank EXCEPT !.fd = fd, !.refs = <<fds[fd].mp>>, !.res = "ok"])
           /\ held' = [held EXCEPT ![t] = @ \ {fd}]
  BY Zenon DEF CallClose
<1>3. CASE Reject(t, "close", "EBADF") /\ UNCHANGED held
  <2>1. Handles(t)
    BY <1>1, <1>3 DEF Handles
  <2> QED BY <1>1, <1>3, <2>1, ApiReject
<1>4. CASE /\ Usable(t, fd) /\ FdIsValid(fd)
           /\ Begin(t, "close",
                    IF "close" \in Implements[fds[fd].mp] THEN "close_drv" ELSE "dec",
                    [Blank EXCEPT !.fd = fd, !.refs = <<fds[fd].mp>>, !.res = "ok"])
           /\ held' = [held EXCEPT ![t] = @ \ {fd}]
  <2> DEFINE args == [Blank EXCEPT !.fd = fd, !.refs = <<fds[fd].mp>>, !.res = "ok"]
             l == IF "close" \in Implements[fds[fd].mp] THEN "close_drv" ELSE "dec"
  <2>1. pc[t] = "idle" /\ fd \in held[t]
    BY <1>4, UsableHeld DEF Begin
  <2>2. l \in {"close_drv", "dec"} /\ loc'[t].res = "ok"
    BY <1>4 DEF Begin, Blank, TypeInv, ControlOK
  <2>3. Begin(t, "close", l, args)
    BY <1>4
  <2> HIDE DEF args, l
  <2>4. ApiInv' /\ ret[t] # "none" /\ Api!Answer(t, "none")
    BY <2>2, <2>3, ApiInvoked
  <2>5. held'[t] = held[t] \ {fd} /\ \A u \in Tasks : u = t
    BY <1>4 DEF Sequential, OneTask, TypeInv, DataOK
  <2>6. FileMounts' = [FileMounts EXCEPT ![fd] = NoMount]
    BY <1>1, <2>5 DEF FileMounts
  <2>7. StreamMounts' = StreamMounts
    BY <1>1 DEF StreamMounts
  <2>8. fd \in Fds /\ FileMounts[fd] # NoMount
    BY <2>1, HeldMount, VfsConstants
  <2>9. Api!Invoke(t)
    BY <1>1, <2>4, <2>6, <2>7, <2>8 DEF Api!Invoke
  <2> QED BY <2>4, <2>9 DEF Simulated, Api!Next
<1> QED BY <1>2, <1>3, <1>4

LEMMA ApiCallClosedir ==
  ASSUME Sequential, TypeInv, ApiInv, NEW t \in Tasks, CallClosedir(t)
  PROVE  Simulated
<1>1. UNCHANGED <<fds, held>> /\ Listed' = Listed
  BY DEF CallClosedir, tableVars, mountVars, Listed
<1>2. PICK d \in Dirs :
        \/ Reject(t, "closedir", "EBADF") /\ UNCHANGED <<dirs, openDirs>>
        \/ /\ d \in openDirs /\ openDirs' = openDirs \ {d}
           /\ Begin(t, "closedir", "closedir_drv",
                    [Blank EXCEPT !.dir = d, !.refs = <<dirs[d].mp>>])
           /\ UNCHANGED dirs
        \/ /\ d \in openDirs /\ openDirs' = openDirs \ {d}
           /\ Begin(t, "closedir", "dec",
                    [Blank EXCEPT !.refs = <<dirs[d].mp>>, !.res = "ok"])
           /\ dirs' = [dirs EXCEPT ![d] = NullDir]
  BY Zenon DEF CallClosedir, dirVars
<1>3. CASE Reject(t, "closedir", "EBADF") /\ UNCHANGED <<dirs, openDirs>>
  <2>1. Handles(t)
    BY <1>1, <1>3 DEF Handles
  <2> QED BY <1>1, <1>3, <2>1, ApiReject
<1>4. ASSUME d \in openDirs, openDirs' = openDirs \ {d}, ApiInv',
             ret[t] # "none", Api!Answer(t, "none"),
             \A e \in openDirs' : dirs'[e].mp = dirs[e].mp
      PROVE  Simulated
  <2>1. StreamMounts' = [StreamMounts EXCEPT ![d] = NoMount]
    BY <1>4 DEF StreamMounts
  <2>2. FileMounts' = FileMounts
    BY <1>1 DEF FileMounts
  <2>3. d \in Dirs /\ StreamMounts[d] # NoMount
    BY <1>4, VfsConstants DEF StreamMounts, TypeInv, DirOK
  <2>4. Api!Invoke(t)
    BY <1>1, <1>4, <2>1, <2>2, <2>3 DEF Api!Invoke
  <2> QED BY <1>4, <2>4 DEF Simulated, Api!Next
<1>5. CASE /\ d \in openDirs /\ openDirs' = openDirs \ {d}
           /\ Begin(t, "closedir", "closedir_drv",
                    [Blank EXCEPT !.dir = d, !.refs = <<dirs[d].mp>>])
           /\ UNCHANGED dirs
  <2> DEFINE args == [Blank EXCEPT !.dir = d, !.refs = <<dirs[d].mp>>]
  <2>1. Begin(t, "closedir", "closedir_drv", args)
    BY <1>5
  <2> HIDE DEF args
  <2>2. ApiInv' /\ ret[t] # "none" /\ Api!Answer(t, "none")
    BY <2>1, ApiInvoked
  <2> QED BY <1>4, <1>5, <2>2
<1>6. CASE /\ d \in openDirs /\ openDirs' = openDirs \ {d}
           /\ Begin(t, "closedir", "dec",
                    [Blank EXCEPT !.refs = <<dirs[d].mp>>, !.res = "ok"])
           /\ dirs' = [dirs EXCEPT ![d] = NullDir]
  <2> DEFINE args == [Blank EXCEPT !.refs = <<dirs[d].mp>>, !.res = "ok"]
  <2>1. Begin(t, "closedir", "dec", args)
    BY <1>6
  <2>2. loc'[t].res = "ok"
    BY <1>6 DEF Begin, Blank, TypeInv, ControlOK
  <2> HIDE DEF args
  <2>3. ApiInv' /\ ret[t] # "none" /\ Api!Answer(t, "none")
    BY <2>1, <2>2, ApiInvoked
  <2>4. \A e \in openDirs' : dirs'[e].mp = dirs[e].mp
    BY <1>6 DEF TypeInv, DataOK
  <2> QED BY <1>4, <1>6, <2>3, <2>4
<1> QED BY <1>2, <1>3, <1>5, <1>6

-----------------------------------------------------------------------------
\* References: a mount with a reference is listed.

LEMMA RefListed ==
  ASSUME Sequential, TypeInv, RefInv, BusyListed, NEW t \in Tasks,
         loc[t].refs # <<>>
  PROVE  Head(loc[t].refs) \in Listed /\ Listed # {}
<1>1. Head(loc[t].refs) \in Mounts /\ openFiles[Head(loc[t].refs)] # 0
  BY HereRefs, RefCounts DEF Sequential
<1> QED BY <1>1 DEF BusyListed

LEMMA ApiLookups ==
  ASSUME Sequential, TypeInv, FdInv, ApiInv, NEW t \in Tasks,
         FindMount(t) \/ FoundMount(t) \/ DecLoad(t) \/ DecStore(t)
  PROVE  Simulated
<1>1. Listed' = Listed /\ Handles(t)
  <2>1. UNCHANGED <<mounts, held, fds, dirVars>>
    BY Zenon DEF FindMount, FoundMount, DecLoad, DecStore, mountVars, tableVars
  <2> QED BY <2>1, NoDirsHandles DEF Listed
<1>2. CASE FindMount(t)
  <2>1. /\ pc[t] = "find"
        /\ \/ Finish(t, "ENOENT")
           \/ Release(t, "ENOENT")
           \/ \E m : /\ Goto(t, "inc") /\ UNCHANGED ret
                     /\ loc' = [loc EXCEPT ![t].m = m, ![t].tmp = openFiles[m],
                                           ![t].names = Tail(@)]
    BY <1>2, Zenon DEF FindMount
  <2>2. Truthful(t, "ENOENT")
    BY DEF Truthful, Codes
  <2>3. ASSUME Goto(t, "inc"), UNCHANGED ret PROVE Simulated
    <3>1. pc'[t] = "inc" /\ Known(t, "inc", loc'[t])
      BY <2>3 DEF Goto, Known, TypeInv, ControlOK
    <3> QED BY <1>1, <2>1, <2>3, <3>1, ApiMove
  <2> QED BY <1>1, <2>1, <2>2, <2>3, ApiFinish, ApiRelease
<1>3. CASE FoundMount(t)
  <2>1. pc[t] = "inc" /\ pc'[t] = "found" /\ UNCHANGED ret
    BY <1>3 DEF FoundMount, Goto, TypeInv, ControlOK
  <2>2. Known(t, "found", loc'[t])
    BY DEF Known
  <2> QED BY <1>1, <2>1, <2>2, ApiMove
<1>4. CASE DecLoad(t) \/ DecStore(t)
  <2>1. /\ pc[t] \in {"dec", "dec_store"} /\ pc'[t] \in {"dec", "dec_store"}
        /\ UNCHANGED ret
    BY <1>4 DEF DecLoad, DecStore, Goto, TypeInv, ControlOK
  <2>2. loc'[t].res = loc[t].res
    BY <1>4, LocalType DEF DecLoad, DecStore, TypeInv, ControlOK, Locals
  <2>3. Known(t, pc[t], loc[t])
    BY HereKnown
  <2>4. Known(t, pc'[t], loc'[t])
    BY <2>1, <2>2, <2>3 DEF Known
  <2> QED BY <1>1, <2>1, <2>4, ApiMove
<1> QED BY <1>2, <1>3, <1>4

\* The call returns what it has known since it turned to its references.
LEMMA ApiReturn ==
  ASSUME Sequential, TypeInv, FdInv, ApiInv, NEW t \in Tasks, Return(t)
  PROVE  Simulated
<1>1. /\ pc[t] = "dec" /\ ClearSlot(loc[t].fd) /\ Finish(t, loc[t].res)
      /\ UNCHANGED <<held, dirs, openDirs>> /\ Listed' = Listed
  BY DEF Return, dirVars, mountVars, Listed
<1>2. \A f \in Fds : fds'[f].mp = fds[f].mp
  <2>1. UNCHANGED fds \/ fds' = [fds EXCEPT ![loc[t].fd].tcb = NoTask]
    BY <1>1 DEF ClearSlot
  <2> QED BY <2>1 DEF TypeInv, DataOK
<1>3. held[t] \subseteq Fds
  BY DEF TypeInv, DataOK
<1>4. Handles(t)
  BY <1>1, <1>2, <1>3 DEF Handles
<1>5. Truthful(t, loc[t].res)
  <2>1. loc[t].res \in Codes
    BY LocalType DEF TypeInv, Locals
  <2>2. Known(t, "dec", loc[t])
    BY <1>1, HereKnown
  <2> QED BY <2>1, <2>2 DEF Known, Truthful
<1> QED BY <1>1, <1>4, <1>5, ApiFinish

-----------------------------------------------------------------------------
\* vfs_open.

LEMMA ApiGrant ==
  ASSUME Sequential, TypeInv, FdInv, RefInv, BusyListed, ApiInv, NEW t \in Tasks,
         NEW fd \in Fds, fd \notin held[t], GrantFd(t, fd), pc[t] # "idle",
         loc[t].refs # <<>>, fds'[fd].mp = Head(loc[t].refs),
         \A f \in held[t] : fds'[f].mp = fds[f].mp,
         UNCHANGED <<dirs, openDirs>>, Listed' = Listed
  PROVE  Simulated
<1> DEFINE m == Head(loc[t].refs)
<1>1. m \in Listed
  BY RefListed
<1>2. held'[t] = held[t] \cup {fd} /\ \A u \in Tasks : u = t
  BY DEF GrantFd, Sequential, OneTask, TypeInv, DataOK
<1>3. ApiInv' /\ Api!Answer(t, "ok") /\ ret[t] = "none"
  BY ApiIdle, HereKnown DEF GrantFd, Answering
<1> HIDE DEF m
<1>4. FileMounts[fd] = NoMount
  BY <1>2 DEF FileMounts
<1>5. FileMounts' = [FileMounts EXCEPT ![fd] = m]
  BY <1>2 DEF FileMounts, m
<1>6. StreamMounts' = StreamMounts
  BY DEF StreamMounts
<1>7. Api!Open(t)
  BY <1>1, <1>3, <1>4, <1>5, <1>6 DEF Api!Open
<1> QED BY <1>3, <1>7 DEF Simulated, Api!Next

LEMMA ApiOpenLock ==
  ASSUME Sequential, TypeInv, ApiInv, NEW t \in Tasks, OpenLock(t)
  PROVE  Simulated
<1>1. /\ pc[t] = "found" /\ Handles(t) /\ Listed' = Listed /\ UNCHANGED ret
      /\ pc'[t] = "alloc"
  BY NoDirsHandles DEF OpenLock, Goto, TypeInv, ControlOK, mountVars, Listed
<1>2. loc'[t].fd = 0
  BY LocalType DEF OpenLock, TypeInv, ControlOK, Locals
<1>3. \A f \in Fds : ~(f < 0)
  BY VfsConstants DEF Fds
<1>4. Known(t, "alloc", loc'[t])
  BY <1>2, <1>3 DEF Known
<1> QED BY <1>1, <1>4, ApiMove

\* A slot the scan has passed is held by the client.
LEMMA ApiAllocateFd ==
  ASSUME Sequential, TypeInv, FdInv, ApiInv, NEW t \in Tasks, AllocateFd(t)
  PROVE  Simulated
<1> DEFINE fd == loc[t].fd
<1>1. pc[t] = "alloc" /\ Handles(t) /\ Listed' = Listed
  BY NoDirsHandles DEF AllocateFd, mountVars, Listed
<1>2. \/ fd = NFd /\ Release(t, "ENFILE")
      \/ /\ fd < NFd /\ fds[fd].tcb # NoTask
         /\ loc' = [loc EXCEPT ![t].fd = fd + 1] /\ UNCHANGED <<pc, ret>>
      \/ Goto(t, "init") /\ UNCHANGED <<loc, ret>>
  BY Zenon DEF AllocateFd, SlotFree
<1>3. Known(t, "alloc", loc[t]) /\ fd \in 0 .. NFd /\ NFd \in Nat
  BY <1>1, HereKnown, LocalType, VfsConstants DEF TypeInv, Locals
<1>4. \A f \in Fds : f < fd => f \in held[t]
  BY <1>3 DEF Known
<1>5. CASE fd = NFd /\ Release(t, "ENFILE")
  <2>1. Fds \subseteq held[t]
    BY <1>3, <1>4, <1>5 DEF Fds
  <2>2. Truthful(t, "ENFILE")
    BY <2>1 DEF Truthful, Codes
  <2> QED BY <1>1, <1>5, <2>2, ApiRelease
<1>6. CASE /\ fd < NFd /\ fds[fd].tcb # NoTask
           /\ loc' = [loc EXCEPT ![t].fd = fd + 1] /\ UNCHANGED <<pc, ret>>
  <2>1. pc'[t] = "alloc" /\ loc'[t].fd = fd + 1
    BY <1>1, <1>6, LocalType DEF TypeInv, ControlOK, Locals
  <2> HIDE DEF fd
  <2>2. fd \in Fds
    BY <1>3, <1>6 DEF Fds
  <2>3. fds[fd].tcb = t
    BY <1>6, <2>2 DEF Sequential, OneTask, TypeInv, DataOK
  <2>4. fd \in held[t]
    BY <1>1, <2>2, <2>3 DEF FdInv, Owned, Claimed, Working
  <2>5. \A f \in Fds : f < fd + 1 => f < fd \/ f = fd
    BY <1>3 DEF Fds
  <2>6. Known(t, "alloc", loc'[t])
    BY <1>4, <2>1, <2>4, <2>5 DEF Known
  <2> QED BY <1>1, <1>6, <2>1, <2>6, ApiMove
<1>7. CASE Goto(t, "init") /\ UNCHANGED <<loc, ret>>
  BY <1>1, <1>7, ApiGoto
<1> QED BY <1>2, <1>5, <1>6, <1>7

LEMMA ApiInitFd ==
  ASSUME Sequential, TypeInv, FdInv, RefInv, BusyListed, ApiInv, NEW t \in Tasks,
         InitFd(t)
  PROVE  Simulated
<1> DEFINE fd == loc[t].fd
           k == Head(loc[t].refs)
           slot == [fds[fd] EXCEPT !.tcb = t, !.mp = k, !.mode = loc[t].mode,
                                   !.pos = 0, !.drv = "open" \notin Implements[k]]
<1>1. pc[t] = "init" /\ UNCHANGED <<dirs, openDirs>> /\ Listed' = Listed
  BY DEF InitFd, dirVars, mountVars, Listed
<1>2. /\ fds' = [fds EXCEPT ![fd] = slot]
      /\ \/ Goto(t, "open_drv") /\ UNCHANGED <<loc, ret, held>>
         \/ GrantFd(t, fd)
  BY Zenon DEF InitFd
<1>3. fd \in Fds /\ fds[fd].tcb = NoTask /\ loc[t].refs # <<>>
  BY <1>1, HereStage, HereFd DEF Stage, FdStage, TypeInv
<1>4. slot.mp = k
  BY <1>3 DEF TypeInv, DataOK
<1> HIDE DEF fd, slot
<1>5. fds'[fd].mp = k /\ \A f \in Fds : f # fd => fds'[f] = fds[f]
  <2>1. fds'[fd] = slot /\ \A f \in Fds : f # fd => fds'[f] = fds[f]
    BY <1>2, <1>3 DEF TypeInv, DataOK
  <2> QED BY <1>4, <2>1
<1>6. fd \notin held[t] /\ held[t] \subseteq Fds
  BY <1>3, VfsConstants DEF FdInv, Owned, Claimed, TypeInv, DataOK
<1>7. \A f \in held[t] : fds'[f].mp = fds[f].mp
  BY <1>5, <1>6
<1>8. CASE Goto(t, "open_drv") /\ UNCHANGED <<loc, ret, held>>
  <2>1. Handles(t)
    BY <1>1, <1>7, <1>8 DEF Handles
  <2> QED BY <1>1, <1>8, <2>1, ApiGoto
<1>9. CASE GrantFd(t, fd)
  BY <1>1, <1>3, <1>5, <1>6, <1>7, <1>9, ApiGrant
<1> QED BY <1>2, <1>8, <1>9

LEMMA ApiOpenDriver ==
  ASSUME Sequential, TypeInv, FdInv, RefInv, BusyListed, ApiInv, NEW t \in Tasks,
         OpenDriver(t)
  PROVE  Simulated
<1> DEFINE fd == loc[t].fd
<1>1. pc[t] = "open_drv" /\ UNCHANGED <<dirs, openDirs>> /\ Listed' = Listed
  BY DEF OpenDriver, dirVars, mountVars, Listed
<1>2. \/ fds' = [fds EXCEPT ![fd].drv = TRUE] /\ GrantFd(t, fd)
      \/ Release(t, "EIO") /\ UNCHANGED <<fds, held>>
  BY DEF OpenDriver
<1>3. CASE fds' = [fds EXCEPT ![fd].drv = TRUE] /\ GrantFd(t, fd)
  <2>1. fd \in Fds /\ fd \in Working(t) /\ loc[t].refs # <<>>
    BY <1>1, HereStage DEF Stage, Working, TypeInv
  <2>2. fd \notin held[t] /\ held[t] \subseteq Fds
    BY <2>1 DEF FdInv, Apart, TypeInv, DataOK
  <2>3. \A f \in Fds : fds'[f].mp = fds[f].mp
    BY <1>1, <1>3, OwnSlot
  <2>4. RefStage("open_drv", loc[t])
    BY <1>1, HereRefs
  <2>5. fds[fd].mp = Head(loc[t].refs)
    BY <2>4 DEF RefStage
  <2> HIDE DEF fd
  <2>6. fds'[fd].mp = Head(loc[t].refs) /\ \A f \in held[t] : fds'[f].mp = fds[f].mp
    BY <2>1, <2>2, <2>3, <2>5
  <2> QED BY <1>1, <1>3, <2>1, <2>2, <2>6, ApiGrant
<1>4. CASE Release(t, "EIO") /\ UNCHANGED <<fds, held>>
  <2>1. Handles(t) /\ Truthful(t, "EIO")
    BY <1>1, <1>4 DEF Handles, Truthful, Codes
  <2> QED BY <1>1, <1>4, <2>1, ApiRelease
<1> QED BY <1>2, <1>3, <1>4

-----------------------------------------------------------------------------
\* The steps of drivers that end a call or turn it to its references.
LEMMA ApiDrivers ==
  ASSUME Sequential, TypeInv, FdInv, ApiInv, NEW t \in Tasks,
         CloseDriver(t) \/ FileDriver(t) \/ ReaddirDriver(t) \/ PathDriver(t)
           \/ ClosedirDriver(t)
  PROVE  Simulated
<1>1. /\ UNCHANGED <<held, openDirs>> /\ Listed' = Listed
      /\ pc[t] \in {"close_drv", "file_drv", "dir_drv", "path_drv", "closedir_drv"}
      /\ \E code \in Outcomes : Finish(t, code) \/ Release(t, code)
      /\ \/ pc[t] = "close_drv" /\ fds' = [fds EXCEPT ![loc[t].fd].drv = FALSE]
         \/ UNCHANGED fds
      /\ \/ pc[t] = "closedir_drv" /\ dirs' = [dirs EXCEPT ![loc[t].dir] = NullDir]
         \/ UNCHANGED dirs
  BY DEF CloseDriver, FileDriver, ReaddirDriver, PathDriver, ClosedirDriver, dirVars,
     tableVars, mountVars, Listed
<1>2. \A f \in Fds : fds'[f].mp = fds[f].mp
  BY <1>1, OwnSlot
<1>3. \A d \in openDirs : dirs'[d] = dirs[d]
  <2>1. CASE pc[t] = "closedir_drv" /\ dirs' = [dirs EXCEPT ![loc[t].dir] = NullDir]
    <3>1. loc[t].dir \notin openDirs
      BY <2>1 DEF TypeInv, DirOK
    <3> QED BY <2>1, <3>1 DEF TypeInv, DataOK
  <2> QED BY <1>1, <2>1
<1>4. held[t] \subseteq Fds
  BY DEF TypeInv, DataOK
<1>5. Handles(t)
  BY <1>1, <1>2, <1>3, <1>4 DEF Handles
<1>6. \A code \in Outcomes : Truthful(t, code)
  BY DEF Truthful, Outcomes, Codes
<1> QED BY <1>1, <1>5, <1>6, ApiFinish, ApiRelease

LEMMA ApiPathCall ==
  ASSUME Sequential, TypeInv, RefInv, BusyListed, ApiInv, NEW t \in Tasks,
         PathCall(t)
  PROVE  Simulated
<1>1. pc[t] = "found" /\ Handles(t) /\ Listed' = Listed
  BY NoDirsHandles DEF PathCall, tableVars, mountVars, Listed
<1>2. \/ \E code \in {"EROFS", "ENOTSUP", "EPERM", "EXDEV"} : Release(t, code)
      \/ \E l \in {"find", "path_drv"} : Goto(t, l) /\ UNCHANGED <<loc, ret>>
  BY DEF PathCall, Unsupported
<1>3. \A code \in {"EROFS", "ENOTSUP", "EPERM", "EXDEV"} : Truthful(t, code)
  <2>1. Listed # {}
    BY <1>1, RefListed, HereStage DEF Stage, TypeInv
  <2> QED BY <2>1 DEF Truthful, Codes
<1> QED BY <1>1, <1>2, <1>3, ApiRelease, ApiGoto

-----------------------------------------------------------------------------
\* vfs_opendir.

LEMMA ApiStream ==
  ASSUME Sequential, TypeInv, RefInv, BusyListed, ApiInv, NEW t \in Tasks,
         NEW d \in Dirs, d \notin openDirs, openDirs' = openDirs \cup {d},
         Finish(t, "ok"), pc[t] # "idle", loc[t].refs # <<>>,
         dirs'[d].mp = Head(loc[t].refs),
         \A e \in openDirs : dirs'[e].mp = dirs[e].mp,
         UNCHANGED <<fds, held>>, Listed' = Listed
  PROVE  Simulated
<1> DEFINE m == Head(loc[t].refs)
<1>1. m \in Listed
  BY RefListed
<1>2. ApiInv' /\ Api!Answer(t, "ok") /\ ret[t] = "none"
  BY ApiIdle, HereKnown DEF Answering
<1> HIDE DEF m
<1>3. StreamMounts[d] = NoMount
  BY DEF StreamMounts
<1>4. StreamMounts' = [StreamMounts EXCEPT ![d] = m]
  BY DEF StreamMounts, m
<1>5. FileMounts' = FileMounts
  BY DEF FileMounts
<1>6. Api!Opendir(t)
  BY <1>1, <1>2, <1>3, <1>4, <1>5 DEF Api!Opendir
<1> QED BY <1>2, <1>6 DEF Simulated, Api!Next

LEMMA ApiOpendirInit ==
  ASSUME Sequential, TypeInv, RefInv, BusyListed, ApiInv, NEW t \in Tasks,
         OpendirInit(t)
  PROVE  Simulated
<1> DEFINE m == Head(loc[t].refs)
           d == loc[t].dir
<1>1. /\ pc[t] = "found" /\ loc[t].op = "opendir" /\ UNCHANGED <<fds, held>>
      /\ Listed' = Listed
  BY DEF OpendirInit, tableVars, mountVars, Listed
<1>2. RefStage("found", loc[t])
  BY <1>1, HereRefs
<1>3. d \in Dirs /\ d \notin openDirs /\ loc[t].refs # <<>>
  BY <1>1, <1>2, HereStage DEF Stage, TypeInv, RefStage
<1>4. m \in Mounts
  BY <1>3, HereRefs, RefCounts DEF Sequential
<1>5. \E b \in BOOLEAN : /\ dirs' = [dirs EXCEPT ![d] = [mp |-> m, drv |-> b]]
                         /\ \/ /\ Goto(t, "opendir_drv")
                               /\ UNCHANGED <<loc, ret, openDirs>>
                            \/ openDirs' = openDirs \cup {d} /\ Finish(t, "ok")
  BY <1>4 DEF OpendirInit, Sequential
<1> HIDE DEF d, m
<1>6. dirs'[d].mp = m /\ \A e \in openDirs : dirs'[e].mp = dirs[e].mp
  BY <1>3, <1>5 DEF TypeInv, DataOK
<1>7. CASE Goto(t, "opendir_drv") /\ UNCHANGED <<loc, ret, openDirs>>
  <2>1. Handles(t)
    BY <1>1, <1>6, <1>7 DEF Handles
  <2> QED BY <1>1, <1>7, <2>1, ApiGoto
<1>8. CASE openDirs' = openDirs \cup {d} /\ Finish(t, "ok")
  BY <1>1, <1>3, <1>6, <1>8, ApiStream DEF m
<1> QED BY <1>5, <1>7, <1>8

LEMMA ApiOpendirDriver ==
  ASSUME Sequential, TypeInv, RefInv, BusyListed, ApiInv, NEW t \in Tasks,
         OpendirDriver(t)
  PROVE  Simulated
<1> DEFINE d == loc[t].dir
<1>1. pc[t] = "opendir_drv" /\ UNCHANGED <<fds, held>> /\ Listed' = Listed
  BY DEF OpendirDriver, tableVars, mountVars, Listed
<1>2. \/ /\ dirs' = [dirs EXCEPT ![d].drv = TRUE]
         /\ openDirs' = openDirs \cup {d} /\ Finish(t, "ok")
      \/ Release(t, "EIO") /\ UNCHANGED dirVars
  BY DEF OpendirDriver
<1>3. CASE /\ dirs' = [dirs EXCEPT ![d].drv = TRUE]
           /\ openDirs' = openDirs \cup {d} /\ Finish(t, "ok")
  <2>1. /\ RefStage("opendir_drv", loc[t]) /\ loc[t].op = "opendir"
        /\ d \in Dirs /\ loc[t].refs # <<>>
    BY <1>1, HereRefs, HereStage DEF Stage, TypeInv
  <2>2. d \notin openDirs /\ dirs[d].mp = Head(loc[t].refs)
    BY <2>1 DEF RefStage
  <2> HIDE DEF d
  <2>3. \A e \in Dirs : dirs'[e].mp = dirs[e].mp
    BY <1>3 DEF TypeInv, DataOK
  <2>4. /\ dirs'[d].mp = Head(loc[t].refs)
        /\ \A e \in openDirs : dirs'[e].mp = dirs[e].mp
    BY <2>1, <2>2, <2>3 DEF TypeInv, DataOK
  <2> QED BY <1>1, <1>3, <2>1, <2>2, <2>4, ApiStream
<1>4. CASE Release(t, "EIO") /\ UNCHANGED dirVars
  <2>1. Handles(t) /\ Truthful(t, "EIO")
    BY <1>1, <1>4, NoDirsHandles DEF Truthful, Codes
  <2> QED BY <1>1, <1>4, <2>1, ApiRelease
<1> QED BY <1>2, <1>3, <1>4

-----------------------------------------------------------------------------
\* The calls on mounts.

LEMMA ApiCheckMount ==
  ASSUME Sequential, TypeInv, FdInv, ApiInv, NEW t \in Tasks, CheckMount(t)
  PROVE  Simulated
<1>1. pc[t] = "check" /\ Handles(t) /\ Listed' = Listed
  BY NoDirsHandles DEF CheckMount, tableVars, mountVars, Listed
<1>2. \/ loc[t].m \in Listed /\ Finish(t, "EBUSY")
      \/ /\ loc[t].m \in Listed
         /\ Goto(t, "umount_lock") /\ UNCHANGED <<loc, ret>>
      \/ Finish(t, "EINVAL")
      \/ \E l \in {"mount_drv", "format_drv"} : Goto(t, l) /\ UNCHANGED <<loc, ret>>
  BY Zenon DEF CheckMount
<1>3. /\ Truthful(t, "EINVAL")
      /\ loc[t].m \in Listed => Truthful(t, "EBUSY")
  BY DEF Truthful, Codes
<1> QED BY <1>1, <1>2, <1>3, ApiFinish, ApiGoto

LEMMA ApiUmountLock ==
  ASSUME Sequential, TypeInv, FdInv, ApiInv, NEW t \in Tasks, UmountLock(t)
  PROVE  Simulated
<1>1. pc[t] = "umount_lock" /\ Handles(t) /\ Listed' = Listed
  BY NoDirsHandles DEF UmountLock, tableVars, mountVars, Listed
<1>2. \/ Finish(t, "EBUSY")
      \/ Goto(t, "umount_drv") /\ UNCHANGED <<loc, ret>>
  BY DEF UmountLock
<1>3. loc[t].m \in Listed
  BY <1>1, HereKnown DEF Known
<1>4. Truthful(t, "EBUSY")
  BY <1>3 DEF Truthful, Codes
<1> QED BY <1>1, <1>2, <1>3, <1>4, ApiFinish, ApiGoto

LEMMA ApiMountDriver ==
  ASSUME Sequential, TypeInv, FdInv, ListInv, ApiInv, NEW t \in Tasks, MountDriver(t)
  PROVE  Simulated
<1>1. /\ pc[t] = "mount_drv" /\ Handles(t)
      /\ \/ mounts' = Append(mounts, loc[t].m) /\ Finish(t, "ok")
         \/ Finish(t, "EIO") /\ UNCHANGED mounts
  BY NoDirsHandles DEF MountDriver, tableVars, mountVars
<1>2. CASE Finish(t, "EIO") /\ UNCHANGED mounts
  <2>1. Truthful(t, "EIO") /\ Listed' = Listed
    BY <1>2 DEF Truthful, Codes, Listed
  <2> QED BY <1>1, <1>2, <2>1, ApiFinish
<1>3. CASE mounts' = Append(mounts, loc[t].m) /\ Finish(t, "ok")
  <2>1. loc[t].m \in Mounts /\ loc[t].m \notin Listed
    BY <1>1, HereStage DEF Stage, TypeInv, ListInv, ListStages, ListStage
  <2>2. Listed' = Listed \cup {loc[t].m}
    BY <1>3, <2>1, Appended DEF ListInv
  <2>3. ApiInv' /\ Api!Answer(t, "ok") /\ ret[t] = "none"
    BY <1>1, <1>3, ApiIdle, HereKnown DEF Answering
  <2>4. Api!Mount(t)
    BY <1>1, <2>1, <2>2, <2>3, SameView DEF Api!Mount
  <2> QED BY <2>3, <2>4 DEF Simulated, Api!Next
<1> QED BY <1>1, <1>2, <1>3

LEMMA ApiUmountDriver ==
  ASSUME Sequential, ~CanForce, TypeInv, FdInv, ListInv, RefInv, ApiInv,
         NEW t \in Tasks, UmountDriver(t)
  PROVE  Simulated
<1> DEFINE m == loc[t].m
<1>1. pc[t] = "umount_drv" /\ Handles(t)
  BY NoDirsHandles DEF UmountDriver, tableVars
<1>2. m \in Listed /\ m \in Mounts /\ openFiles[m] = 0
  BY <1>1, HereKnown, HereStage, HereRefs DEF Known, Stage, TypeInv, RefStage
<1>3. \/ mounts' = WithoutMount(m) /\ Finish(t, "ok")
      \/ Finish(t, "EIO") /\ UNCHANGED mounts
  BY <1>2 DEF UmountDriver, mountVars
<1>4. CASE Finish(t, "EIO") /\ UNCHANGED mounts
  <2>1. Truthful(t, "EIO") /\ Listed' = Listed
    BY <1>4 DEF Truthful, Codes, Listed
  <2> QED BY <1>1, <1>4, <2>1, ApiFinish
<1>5. CASE mounts' = WithoutMount(m) /\ Finish(t, "ok")
  <2>1. Listed' = Listed \ {m}
    BY <1>5, Removed DEF ListInv
  <2>2. ApiInv' /\ Api!Answer(t, "ok") /\ ret[t] = "none"
    BY <1>1, <1>5, ApiIdle, HereKnown DEF Answering
  <2>3. Files(t, m) = {} /\ Streams(m) = {} /\ \A u \in Tasks : u = t
    BY <1>2, HereRefs, CountedUser DEF Sequential, OneTask
  <2> HIDE DEF m
  <2>4. ~Api!Busy(m)
    <3>1. m # NoMount
      BY <1>2, VfsConstants
    <3>2. \A f \in Fds : FileMounts[f] # m
      BY <2>3, <3>1 DEF FileMounts, Files
    <3>3. \A d \in Dirs : StreamMounts[d] # m
      BY <2>3, <3>1 DEF StreamMounts, Streams
    <3> QED BY <3>2, <3>3 DEF Api!Busy
  <2>5. Api!Umount(t)
    BY <1>1, <1>2, <2>1, <2>2, <2>4, SameView DEF Api!Umount
  <2> QED BY <2>2, <2>5 DEF Simulated, Api!Next
<1> QED BY <1>3, <1>4, <1>5

LEMMA ApiFormatDriver ==
  ASSUME Sequential, TypeInv, FdInv, ApiInv, NEW t \in Tasks, FormatDriver(t)
  PROVE  Simulated
<1>1. /\ pc[t] = "format_drv" /\ Handles(t) /\ Listed' = Listed
      /\ \E code \in Outcomes \cup {"ENOTSUP"} : Finish(t, code)
  BY NoDirsHandles DEF FormatDriver, tableVars, Listed
<1>2. \A code \in Outcomes \cup {"ENOTSUP"} : Truthful(t, code)
  BY DEF Truthful, Codes, Outcomes
<1> QED BY <1>1, <1>2, ApiFinish

-----------------------------------------------------------------------------
LEMMA ApiStep ==
  ASSUME Sequential, ~CanForce
  PROVE  TypeInv /\ FdInv /\ ListInv /\ RefInv /\ BusyListed /\ ApiInv /\ [Next]_vars
           => ApiInv' /\ [Api!Next]_(Api!apiVars)
<1> SUFFICES ASSUME TypeInv, FdInv, ListInv, RefInv, BusyListed, ApiInv, [Next]_vars
             PROVE  Simulated
  BY DEF Simulated
<1>1. OwnFds
  BY DEF OwnFds, Sequential, OneTask
<1>2. ASSUME NEW t \in Tasks, Call(t) PROVE Simulated
  BY <1>1, <1>2, ApiOtherCalls, ApiCallClose, ApiCallClosedir, Zenon DEF Call
<1>3. ASSUME NEW t \in Tasks, Acquire(t) PROVE Simulated
  BY <1>3, ApiLookups, ApiOpenLock, ApiCheckMount, ApiUmountLock, Zenon DEF Acquire
<1>4. ASSUME NEW t \in Tasks, Run(t) PROVE Simulated
  BY <1>4, ApiLookups, ApiReturn, ApiAllocateFd, ApiInitFd, ApiOpenDriver, ApiDrivers,
     ApiPathCall, ApiOpendirInit, ApiOpendirDriver, ApiMountDriver, ApiUmountDriver,
     ApiFormatDriver, Zenon DEF Run
<1>5. ASSUME UNCHANGED vars PROVE Simulated
  <2>1. ApiInv'
    BY <1>5 DEF vars, ApiInv, Known, Answering, Listed
  <2>2. UNCHANGED Api!apiVars
    BY <1>5 DEF vars, Api!apiVars, Listed, FileMounts, StreamMounts
  <2> QED BY <2>1, <2>2 DEF Simulated
<1> QED BY <1>2, <1>3, <1>4, <1>5 DEF Next

LEMMA ApiInit == Init => ApiInv /\ Api!Init
<1> SUFFICES ASSUME Init PROVE ApiInv /\ Api!Init
  OBVIOUS
<1>1. Listed = {}
  BY DEF Init, Listed
<1>2. ApiInv
  BY DEF Init, ApiInv, Known, Answering
<1>3. FileMounts = [f \in Fds |-> NoMount] /\ StreamMounts = [d \in Dirs |-> NoMount]
  BY DEF Init, FileMounts, StreamMounts
<1> QED BY <1>1, <1>2, <1>3 DEF Init, Api!Init

\* To one client the VFS is VfsApi: each call changes the client's handles and
\* the mounted volumes as its answer says, at one instant between the call and
\* the answer, and no other step changes them; vfs_open never hands out a
\* descriptor in use, and vfs_umount never takes a volume away under a handle.
THEOREM VfsImplementsApi ==
  ASSUME Sequential, ~CanForce
  PROVE  Spec => ApiSpec
<1>1. Spec => [](TypeInv /\ FdInv /\ ListInv /\ RefInv /\ BusyListed)
  BY BusyAlways
<1> QED BY <1>1, ApiInit, ApiStep, PTL DEF Spec, ApiSpec, Api!Spec

=============================================================================
