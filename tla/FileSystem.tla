----------------------------- MODULE FileSystem -----------------------------
(***************************************************************************)
(* What a file system driver promises the VFS: a tree of directories and   *)
(* files, and handles with a position.  No blocks, no caches, no tables.   *)
(* FatFs implements it; what littlefs promises is CommitFs.                *)
(*                                                                         *)
(* A path is a non-empty sequence of names.  A step is a whole driver call *)
(* and a failed call is a stutter; lack of room may make any call that     *)
(* needs room fail, and a write or a seek stop short.                      *)
(***************************************************************************)
EXTENDS Integers, Sequences

CONSTANTS
  Paths,        \* the paths in use
  Handles,      \* open file objects
  OpenFlags,    \* the sets of open flags in use
  Creating,     \* the open flags that create a missing file
  Data,         \* what a call may write
  Offsets       \* where a call may seek

VARIABLES
  tree,         \* path -> None, Dir or File(contents)
  handle        \* handle -> Closed, Stale, or the file, position and rights

None == [type |-> "none"]
Dir == [type |-> "dir"]
File(s) == [type |-> "file", data |-> s]
Closed == [state |-> "closed"]
Stale == [state |-> "stale"]
vars == <<tree, handle>>

Exists(p) == tree[p].type # "none"
ParentIsDir(p) == Len(p) = 1 \/ tree[SubSeq(p, 1, Len(p) - 1)].type = "dir"
Within(p, q) == Len(q) > Len(p) /\ SubSeq(q, 1, Len(p)) = p
IsEmpty(p) == \A q \in Paths : Within(p, q) => ~Exists(q)
Usable(h) == handle[h].state = "open"
OpenOn(p) == {h \in Handles : Usable(h) /\ handle[h].path = p}

Init == tree = [p \in Paths |-> None] /\ handle = [h \in Handles |-> Closed]

Open(h, p, w, flags) ==
  /\ handle[h] = Closed
  /\ tree[p].type # "dir" /\ ParentIsDir(p)
  /\ Exists(p) => "EXCL" \notin flags
  /\ Exists(p) \/ flags \cap Creating # {}
  /\ LET old == IF Exists(p) /\ "TRUNC" \notin flags THEN tree[p].data ELSE <<>>
     IN /\ tree' = [tree EXCEPT ![p] = File(old)]
        /\ handle' = [handle EXCEPT ![h] =
             [state |-> "open", path |-> p, w |-> w,
              pos |-> IF "APPEND" \in flags THEN Len(old) ELSE 0,
              mod |-> ~Exists(p) \/ "TRUNC" \in flags]]

Read(h) ==
  /\ Usable(h) /\ handle'[h].state = "open"
  /\ handle'[h].pos \in handle[h].pos .. Len(tree[handle[h].path].data)
  /\ handle' = [handle EXCEPT ![h].pos = handle'[h].pos]
  /\ UNCHANGED tree

(* The file p alone changes, to size bytes, and keeps what it held before
   outside the positions in but. *)
Changes(p, size, but) ==
  /\ tree' = [tree EXCEPT ![p] = tree'[p]]
  /\ tree'[p].type = "file" /\ Len(tree'[p].data) = size
  /\ \A i \in 1 .. Len(tree[p].data) : i \in but \/ tree'[p].data[i] = tree[p].data[i]

(* As much of data as there is room for. *)
Write(h, data) ==
  /\ Usable(h) /\ handle[h].w /\ handle'[h].state = "open"
  /\ LET p == handle[h].path  pos == handle[h].pos  end == handle'[h].pos
         size == Len(tree[p].data)
     IN /\ end \in pos .. pos + Len(data)
        /\ Changes(p, IF end > size THEN end ELSE size, pos + 1 .. end)
        /\ \A i \in pos + 1 .. end : tree'[p].data[i] = data[i - pos]
        /\ handle' = [handle EXCEPT ![h].pos = end, ![h].mod = TRUE]

(* A seek behind the end of a file open for writing makes it longer, as far
   as there is room. *)
Lseek(h, off) ==
  /\ Usable(h) /\ handle'[h].state = "open"
  /\ LET p == handle[h].path  to == handle'[h].pos  size == Len(tree[p].data)
     IN /\ to = off \/ (size <= to /\ to < off)
        /\ to > size => handle[h].w
        /\ Changes(p, IF to > size THEN to ELSE size, {})
        /\ handle' = [handle EXCEPT ![h].pos = to, ![h].mod = @ \/ to > size]

Sync(h) == Usable(h) /\ handle' = [handle EXCEPT ![h].mod = FALSE] /\ UNCHANGED tree
Close(h) == handle[h] # Closed /\ handle' = [handle EXCEPT ![h] = Closed] /\ UNCHANGED tree

Unlink(p) ==
  /\ Exists(p) /\ IsEmpty(p) /\ OpenOn(p) = {}
  /\ tree' = [tree EXCEPT ![p] = None]
  /\ UNCHANGED handle

Mkdir(p) ==
  /\ ~Exists(p) /\ ParentIsDir(p)
  /\ tree' = [tree EXCEPT ![p] = Dir]
  /\ UNCHANGED handle

(* The object and everything below it change their path, also under open
   handles. *)
Rename(p, q) ==
  LET Below(x) == x = p \/ Within(p, x)
      Moved(x) == q \o SubSeq(x, Len(p) + 1, Len(x))
  IN
  /\ Exists(p) /\ ~Exists(q) /\ ParentIsDir(q) /\ ~Within(p, q)
  /\ OpenOn(p) = {}
  /\ \A x \in Paths : Below(x) /\ Exists(x) => Moved(x) \in Paths
  /\ tree' = [y \in Paths |->
       IF \E x \in Paths : Below(x) /\ Exists(x) /\ y = Moved(x)
       THEN tree[CHOOSE x \in Paths : Below(x) /\ y = Moved(x)]
       ELSE IF Below(y) THEN None ELSE tree[y]]
  /\ handle' = [h \in Handles |->
       IF Usable(h) /\ Below(handle[h].path)
       THEN [handle[h] EXCEPT !.path = Moved(@)] ELSE handle[h]]

(* The volume goes away.  A file changed through a handle since its last
   sync may be anything afterwards, or gone if the handle created it;
   nothing else changes.  Handles still open are refused from now on. *)
Umount ==
  /\ \A p \in Paths : (\E h \in OpenOn(p) : handle[h].mod) \/ tree'[p] = tree[p]
  /\ handle' = [h \in Handles |-> IF handle[h] = Closed THEN Closed ELSE Stale]

Format == tree' = [p \in Paths |-> None] /\ UNCHANGED handle

Next ==
  \/ \E h \in Handles :
       \/ \E p \in Paths, w \in BOOLEAN, flags \in OpenFlags : Open(h, p, w, flags)
       \/ Read(h) \/ Sync(h) \/ Close(h)
       \/ \E data \in Data : Write(h, data)
       \/ \E off \in Offsets : Lseek(h, off)
  \/ \E p \in Paths : Unlink(p) \/ Mkdir(p) \/ \E q \in Paths : Rename(p, q)
  \/ Umount \/ Format

Spec == Init /\ [][Next]_vars
=============================================================================
