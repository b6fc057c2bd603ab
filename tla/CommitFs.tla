------------------------------- MODULE CommitFs -------------------------------
(***************************************************************************)
(* What littlefs promises: a tree of directories and files on a volume     *)
(* that may lose its power in any call, and handles that each hold a       *)
(* private version of their file.  The version replaces the file as a      *)
(* whole when the handle is synced or closed, or not at all; every call is *)
(* done as a whole, or not at all.                                         *)
(*                                                                         *)
(* A failed call changes nothing or does its work all the same, but breaks *)
(* a handle it was made through; a handle is cut off from a file that is   *)
(* removed, replaced or renamed.  Nothing goes through such handles.       *)
(***************************************************************************)
EXTENDS Integers, Sequences

CONSTANTS
  Paths,        \* the paths in use
  Handles,      \* open files
  OpenFlags,    \* the sets of open flags in use
  Data,         \* what a call may write
  Offsets       \* where a call may seek

VARIABLES
  tree,         \* path -> None, Dir or File(contents)
  handle        \* handle -> Closed, Cut, Broken, or a version of a file

None == [type |-> "none"]
Dir == [type |-> "dir"]
File(s) == [type |-> "file", data |-> s]
Closed == [state |-> "closed"]
Cut == [state |-> "cut"]
Broken == [state |-> "broken"]
vars == <<tree, handle>>

Exists(p) == tree[p].type # "none"
ParentIsDir(p) == Len(p) = 1 \/ tree[SubSeq(p, 1, Len(p) - 1)].type = "dir"
Within(p, q) == Len(q) > Len(p) /\ SubSeq(q, 1, Len(p)) = p
IsEmpty(p) == \A q \in Paths : Within(p, q) => ~Exists(q)
Usable(h) == handle[h].state = "open"
On(h, p) == Usable(h) /\ handle[h].path = p

Init == tree = [p \in Paths |-> None] /\ handle = [h \in Handles |-> Closed]

(* What the calls do to the tree. *)
Made(p, obj) == ~Exists(p) /\ ParentIsDir(p) /\ tree' = [tree EXCEPT ![p] = obj]
Stored(h) == Usable(h) /\ tree' = [tree EXCEPT ![handle[h].path] = File(handle[h].view)]
Removed(p) == Exists(p) /\ IsEmpty(p) /\ tree' = [tree EXCEPT ![p] = None]
Below(p, x) == x = p \/ Within(p, x)
Moved(p, q, x) == q \o SubSeq(x, Len(p) + 1, Len(x))
Renamed(p, q) ==
  /\ Exists(p) /\ p # q /\ ~Within(p, q) /\ ParentIsDir(q)
  /\ Exists(q) => tree[q].type = tree[p].type /\ IsEmpty(q)
  /\ \A x \in Paths : Below(p, x) /\ Exists(x) => Moved(p, q, x) \in Paths
  /\ tree' = [y \in Paths |->
       IF \E x \in Paths : Below(p, x) /\ Exists(x) /\ y = Moved(p, q, x)
       THEN tree[CHOOSE x \in Paths : Below(p, x) /\ y = Moved(p, q, x)]
       ELSE IF Below(p, y) THEN None ELSE tree[y]]

Open(h, p, w, flags) ==
  /\ handle[h] = Closed
  /\ IF Exists(p) THEN tree[p].type = "file" /\ "EXCL" \notin flags /\ UNCHANGED tree
     ELSE "CREAT" \in flags /\ Made(p, File(<<>>))
  /\ handle' = [handle EXCEPT ![h] =
       [state |-> "open", path |-> p, w |-> w, append |-> "APPEND" \in flags, pos |-> 0,
        view |-> IF Exists(p) /\ "TRUNC" \notin flags THEN tree[p].data ELSE <<>>,
        dirty |-> Exists(p) /\ "TRUNC" \in flags]]

\* A hole in front of what is written reads as zeros.
Written(v, pos, data) ==
  [i \in 1 .. (IF pos + Len(data) > Len(v) THEN pos + Len(data) ELSE Len(v)) |->
     IF i > pos /\ i <= pos + Len(data) THEN data[i - pos]
     ELSE IF i <= Len(v) THEN v[i] ELSE 0]
Write(h, data) ==
  /\ Usable(h) /\ handle[h].w
  /\ LET x == handle[h]
         pos == IF x.append /\ x.pos < Len(x.view) THEN Len(x.view) ELSE x.pos
     IN handle' = [handle EXCEPT ![h].view = Written(x.view, pos, data),
                                 ![h].pos = pos + Len(data), ![h].dirty = TRUE]
  /\ UNCHANGED tree

Read(h) ==
  /\ Usable(h)
  /\ handle' = [handle EXCEPT ![h].pos =
       IF @ > Len(handle[h].view) THEN @ ELSE Len(handle[h].view)]
  /\ UNCHANGED tree
Seek(h, off) == Usable(h) /\ handle' = [handle EXCEPT ![h].pos = off] /\ UNCHANGED tree

Sync(h) ==
  /\ Usable(h)
  /\ IF handle[h].dirty THEN Stored(h) ELSE UNCHANGED tree
  /\ handle' = [handle EXCEPT ![h].dirty = FALSE]
Close(h) ==
  /\ handle[h] # Closed
  /\ IF Usable(h) /\ handle[h].dirty THEN Stored(h) ELSE UNCHANGED tree
  /\ handle' = [handle EXCEPT ![h] = Closed]

Mkdir(p) == Made(p, Dir) /\ UNCHANGED handle
Remove(p) ==
  /\ Removed(p)
  /\ handle' = [h \in Handles |-> IF On(h, p) THEN Cut ELSE handle[h]]
Rename(p, q) ==
  /\ Renamed(p, q)
  /\ handle' = [h \in Handles |->
       IF On(h, p) \/ On(h, q) THEN Cut
       ELSE IF Usable(h) /\ Within(p, handle[h].path)
       THEN [handle[h] EXCEPT !.path = Moved(p, q, @)] ELSE handle[h]]

(* A call through a handle fails: the handle is broken, or closed if the
   call was to close it. *)
Fail(h) ==
  /\ Usable(h) \/ handle[h] = Cut
  /\ UNCHANGED tree \/ (Usable(h) /\ handle[h].dirty /\ Stored(h))
  /\ handle' \in {[handle EXCEPT ![h] = Broken], [handle EXCEPT ![h] = Closed]}
FailOpen(p) == Made(p, File(<<>>)) /\ UNCHANGED handle

PowerLoss ==
  /\ \/ UNCHANGED tree
     \/ \E p \in Paths : \/ Made(p, Dir) \/ Made(p, File(<<>>)) \/ Removed(p)
                         \/ \E q \in Paths : Renamed(p, q)
     \/ \E h \in Handles : Usable(h) /\ handle[h].dirty /\ Stored(h)
  /\ handle' = [h \in Handles |-> Closed]

Format == tree' = [p \in Paths |-> None] /\ UNCHANGED handle

Next ==
  \/ \E h \in Handles :
       \/ \E p \in Paths, w \in BOOLEAN, flags \in OpenFlags : Open(h, p, w, flags)
       \/ Read(h) \/ Sync(h) \/ Close(h) \/ Fail(h)
       \/ \E data \in Data : Write(h, data)
       \/ \E off \in Offsets : Seek(h, off)
  \/ \E p \in Paths : Mkdir(p) \/ Remove(p) \/ FailOpen(p) \/ \E q \in Paths : Rename(p, q)
  \/ PowerLoss \/ Format

Spec == Init /\ [][Next]_vars
=============================================================================
