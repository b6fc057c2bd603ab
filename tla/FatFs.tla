------------------------------- MODULE FatFs -------------------------------
(***************************************************************************)
(* The FAT library src/src/vfs/fatfs/ff.c, as configured (FAT12, 8.3       *)
(* names, one sector buffer per file, no lock control), on a volume of a   *)
(* few clusters of one sector each, which is the cluster size f_mkfs picks *)
(* for the RAM disk.                                                       *)
(*                                                                         *)
(* A C function is an operator on the record v of the volume: the sectors  *)
(* on the disk, and of the FATFS object the sector window (win, sect,      *)
(* dirty for wflag) and last_clst.  free_clst stays unknown, because only  *)
(* f_getfree computes it and nothing calls that.  A step is one call of    *)
(* the adapter; the order of the window's flushes inside it is kept, since *)
(* that order is what a forced unmount leaves on the disk.                 *)
(*                                                                         *)
(* A sector is a function from cell numbers to cells: FAT entries,         *)
(* directory entries or bytes.  Sector numbers count from the volume's     *)
(* boot sector.                                                            *)
(***************************************************************************)
EXTENDS Integers, Sequences, FiniteSets, SequencesExt, TLC

CONSTANTS
  NClusters,    \* data clusters of the volume
  SS,           \* cells of a sector
  RootSectors,  \* sectors of the root directory
  Handles,      \* the FIL objects
  Paths,        \* the paths in use, sequences of names
  Dirs,         \* the paths f_mkdir is called with
  Values,       \* what a write writes
  OpenFlags,    \* sets of open flags
  Lengths,      \* lengths of reads and writes
  Offsets,      \* where f_lseek is sent
  MaxSize,      \* bound on the size of a file
  CanForce      \* whether volumes are unmounted under open files

ASSUME FatFsConstants ==
  /\ NClusters \in Nat \ {0} /\ SS \in Nat \ {0, 1} /\ RootSectors \in Nat \ {0}
  /\ MaxSize \in Nat
  /\ \A p \in Paths : p \in Seq(ToSet(p)) /\ p # <<>>
  /\ OpenFlags \subseteq SUBSET {"CREAT", "EXCL", "TRUNC", "APPEND"}
  /\ Lengths \subseteq Nat \ {0} /\ Offsets \subseteq 0 .. MaxSize
  /\ Dirs \subseteq Paths /\ CanForce \in BOOLEAN

Cells == 0 .. SS - 1
NFatEnt == NClusters + 2                \* n_fatent
Clusters == 2 .. NFatEnt - 1
EOC == NFatEnt                          \* any value that names no cluster
FatSectors == (NFatEnt + SS - 1) \div SS
FatSect(c) == 1 + c \div SS
DirBase == 1 + FatSectors
DataBase == DirBase + RootSectors
clst2sect(c) == DataBase + c - 2
Sectors == 0 .. DataBase + NClusters - 1

(* A loop of the library: Step does nothing once the loop has ended, which it
   has after n steps at the latest. *)
Times(Step(_), start, n) ==
  LET after[k \in 0 .. n] == IF k = 0 THEN start ELSE Step(after[k - 1]) IN after[n]

(* The longest loops, if no chain runs in a circle (see ChainsSound). *)
MaxChain == NClusters + 1
MaxSlots == (RootSectors + NClusters) * SS

(* Cells: a zero byte is also the end of a directory. *)
Zero == [zero |-> TRUE]
Deleted == [deleted |-> TRUE]           \* DDEM
Entry(name, dir, clst, size) == [name |-> name, dir |-> dir, clst |-> clst, size |-> size]
IsEntry(cell) == "name" \in DOMAIN cell
Byte(x) == [byte |-> x]
ZeroSector == [i \in Cells |-> Zero]

VARIABLES
  v,            \* disk, win, sect, dirty, last
  mounted,      \* fs_type # 0
  fil,          \* the FIL objects
  view          \* the tree and handles all this stands for (see View)

vars == <<v, mounted, fil, view>>

Fresh(disk) == [disk |-> disk, win |-> ZeroSector, sect |-> -1, dirty |-> FALSE, last |-> 0]

(***************************************************************************)
(* The sector window                                                       *)
(***************************************************************************)
sync_window(x) ==
  IF x.dirty THEN [x EXCEPT !.disk[x.sect] = x.win, !.dirty = FALSE] ELSE x

Bugmove_window(x, s) ==
  IF s = x.sect THEN x ELSE [x EXCEPT !.sect = s, !.win = x.disk[s], !.dirty = FALSE]

move_window(x, s) ==
  IF s = x.sect THEN x
  ELSE LET y == sync_window(x) IN [y EXCEPT !.sect = s, !.win = y.disk[s]]

Poke(x, i, cell) == [x EXCEPT !.win[i] = cell, !.dirty = TRUE]

(* A sector as the library sees it: through the window if it is there. *)
Seen(x, s) == IF x.sect = s THEN x.win ELSE x.disk[s]

(***************************************************************************)
(* The FAT                                                                 *)
(***************************************************************************)
(* The value get_fat returns, 1 for a number that is no cluster's, and the
   window it leaves. *)
get_fat(x, c) == IF c \in Clusters THEN Seen(x, FatSect(c))[c % SS] ELSE 1
AtFat(x, c) == IF c \in Clusters THEN move_window(x, FatSect(c)) ELSE x

put_fat(x, c, val) == Poke(move_window(x, FatSect(c)), c % SS, val)

RemoveNext(l) ==
  LET nxt == get_fat(l.v, l.clst) IN
  IF l.clst = 0 THEN l
  ELSE IF nxt <= 1 THEN [v |-> AtFat(l.v, l.clst), clst |-> 0]
  ELSE [v |-> put_fat(l.v, l.clst, 0), clst |-> IF nxt < NFatEnt THEN nxt ELSE 0]
remove_chain(x, c) == Times(RemoveNext, [v |-> x, clst |-> c], MaxChain).v

(* The clusters create_chain looks at: from the one after scl around to scl. *)
Around(c) == IF c + 1 \in Clusters THEN c + 1 ELSE 2

TryNext(l) ==
  LET c == Around(l.clst) IN
  IF l.free THEN l ELSE [v |-> AtFat(l.v, c), clst |-> c, free |-> get_fat(l.v, c) = 0]
FindFree(x, scl) ==
  LET l == Times(TryNext, [v |-> x, clst |-> scl, free |-> FALSE], NClusters)
  IN [v |-> l.v, clst |-> IF l.free THEN l.clst ELSE 0]

Link(x, new, prev) ==
  LET y == put_fat(x, new, EOC)
  IN [(IF prev = 0 THEN y ELSE put_fat(y, prev, new)) EXCEPT !.last = new]

(* Stretches the chain that ends at c, or starts one for c = 0: the new
   cluster (0: disk full, 1: no such chain) and the volume.  A chain is
   first tried next to its end, then from last_clst on. *)
Stretched(found, c) ==
  IF found.clst = 0 THEN found ELSE [v |-> Link(found.v, found.clst, c), clst |-> found.clst]
FreeAfter(x, c) ==
  LET near == Around(c)
  IN IF c = 0 THEN FindFree(x, IF x.last = 0 THEN 1 ELSE x.last)
     ELSE IF get_fat(x, near) = 0 THEN [v |-> AtFat(x, near), clst |-> near]
     ELSE FindFree(AtFat(x, near), IF x.last \in Clusters THEN x.last ELSE c)
create_chain(x, c) ==
  LET cs == get_fat(x, c)
  IN IF c = 0 THEN Stretched(FreeAfter(x, 0), 0)
     ELSE IF cs < 2 THEN [v |-> AtFat(x, c), clst |-> 1]
     ELSE IF cs < NFatEnt THEN [v |-> AtFat(x, c), clst |-> cs]
     ELSE Stretched(FreeAfter(AtFat(x, c), c), c)

(***************************************************************************)
(* Directories.  A DIR object: the table (sclust, 0 for the root), the     *)
(* entry number, its cluster and its sector.                               *)
(***************************************************************************)
dir_clear(x, c) ==
  LET s == clst2sect(c) IN
  [sync_window(x) EXCEPT !.sect = s, !.win = ZeroSector, !.disk[s] = ZeroSector]

dir_sdi(tbl) ==
  [tbl |-> tbl, k |-> 0, clust |-> tbl, sect |-> IF tbl = 0 THEN DirBase ELSE clst2sect(tbl)]

EndOfTable(x, dp) == [v |-> x, dp |-> [dp EXCEPT !.sect = 0], res |-> "NO_FILE"]

(* A subdirectory that ends is stretched by a cleared cluster on demand. *)
NextSlot(x, dp, c) ==
  [v |-> x, dp |-> [dp EXCEPT !.k = @ + 1, !.clust = c, !.sect = clst2sect(c)], res |-> "OK"]
NewTable(new, dp) ==
  IF new.clst <= 1
  THEN [v |-> new.v, dp |-> dp, res |-> IF new.clst = 0 THEN "DENIED" ELSE "INT_ERR"]
  ELSE NextSlot(dir_clear(new.v, new.clst), dp, new.clst)
dir_next(x, dp, stretch) ==
  LET k == dp.k + 1
      nxt == get_fat(x, dp.clust)
      y == AtFat(x, dp.clust)
  IN IF dp.sect = 0 THEN EndOfTable(x, dp)
     ELSE IF k % SS # 0 THEN [v |-> x, dp |-> [dp EXCEPT !.k = k], res |-> "OK"]
     ELSE IF dp.clust = 0
     THEN IF k >= RootSectors * SS THEN EndOfTable(x, dp)
          ELSE [v |-> x, dp |-> [dp EXCEPT !.k = k, !.sect = @ + 1], res |-> "OK"]
     ELSE IF nxt <= 1 THEN [v |-> y, dp |-> dp, res |-> "INT_ERR"]
     ELSE IF nxt < NFatEnt THEN NextSlot(y, dp, nxt)
     ELSE IF ~stretch THEN EndOfTable(y, dp)
     ELSE NewTable(create_chain(y, dp.clust), dp)

BugEndMark(cell) == cell \in {Zero, Deleted}
EndMark(cell) == cell = Zero

(* What is looked for in a table: a free slot, any entry or a name. *)
FreeSlot == [kind |-> "free"]
AnyEntry == [kind |-> "any"]
Named(name) == [kind |-> "name", name |-> name]
IsDot(cell) == IsEntry(cell) /\ cell.name \in {".", ".."}
Matches(cell, want) ==
  CASE want.kind = "free" -> cell \in {Zero, Deleted}
    [] want.kind = "any" -> IsEntry(cell) /\ ~IsDot(cell)
    [] want.kind = "name" -> IsEntry(cell) /\ cell.name = want.name

(* Reads a table from n.dp on until an entry that is wanted, and fails with
   NO_FILE at its end; a zero entry is the end unless it is wanted.
   dir_find, dir_read and dir_alloc are this loop, which goes on while res
   is MORE. *)
GoOn(n) == [n EXCEPT !.res = IF @ = "OK" THEN "MORE" ELSE @]
ScanSlot(n, want, stretch) ==
  LET y == move_window(n.v, n.dp.sect)
      cell == y.win[n.dp.k % SS]
  IN IF Matches(cell, want) THEN [v |-> y, dp |-> n.dp, res |-> "OK"]
     ELSE IF EndMark(cell) THEN [v |-> y, dp |-> n.dp, res |-> "NO_FILE"]
     ELSE GoOn(dir_next(y, n.dp, stretch))
ScanNext(n, want, stretch) ==
  IF n.res # "MORE" THEN n
  ELSE IF n.dp.sect = 0 THEN EndOfTable(n.v, n.dp)
  ELSE ScanSlot(n, want, stretch)
Scan(n, want, stretch) == Times(LAMBDA l : ScanNext(l, want, stretch), n, MaxSlots)

From(x, dp) == [v |-> x, dp |-> dp, res |-> "MORE"]
dir_find(x, tbl, name) == Scan(From(x, dir_sdi(tbl)), Named(name), FALSE)
dir_read(x, dp) == Scan(From(x, dp), AnyEntry, FALSE)
dir_alloc(x, tbl) == Scan(From(x, dir_sdi(tbl)), FreeSlot, TRUE)

(* Puts an entry into a free slot; the window is left on it. *)
RegisterAt(r, entry) ==
  IF r.res = "OK" THEN [r EXCEPT !.v = Poke(move_window(@, r.dp.sect), r.dp.k % SS, entry)]
  ELSE [r EXCEPT !.res = IF @ = "NO_FILE" THEN "DENIED" ELSE @]
dir_register(x, tbl, entry) == RegisterAt(dir_alloc(x, tbl), entry)

dir_remove(x, dp) == Poke(move_window(x, dp.sect), dp.k % SS, Deleted)

(* The entry a DIR object stands on, the window being there. *)
EntryAt(r) == r.v.win[r.dp.k % SS]

FollowNext(r, name) ==
  IF r.res = "NO_FILE" THEN [r EXCEPT !.res = "NO_PATH"]
  ELSE IF r.res # "OK" THEN r
  ELSE IF ~EntryAt(r).dir THEN [r EXCEPT !.res = "NO_PATH"]
  ELSE dir_find(r.v, EntryAt(r).clst, name)
follow_path(x, path) ==
  LET at[i \in 1 .. Len(path)] ==
        IF i = 1 THEN dir_find(x, 0, path[1]) ELSE FollowNext(at[i - 1], path[i])
  IN at[Len(path)]

(***************************************************************************)
(* Files.  A FIL object holds one sector of the file (buf, sect), which is *)
(* newer than the disk when dirty; size and sclust are newer than the      *)
(* directory entry at (dsect, didx) when mod (FA_MODIFIED).                *)
(***************************************************************************)
NoFil == [st |-> "closed"]
StaleFil == [st |-> "stale"]            \* its volume is gone: validate fails
IsOpen(f) == f.st = "open"

NextCluster(x, c) == [v |-> AtFat(x, c), clst |-> get_fat(x, c)]
Follow(x, c, n) == Times(LAMBDA l : NextCluster(l.v, l.clst), [v |-> x, clst |-> c], n)

(* FA_OPEN_APPEND and FA_CREATE_ALWAYS create the file without O_CREAT. *)
Creating == {"CREAT", "TRUNC", "APPEND"}

BugEmptied(e) == [e EXCEPT !.clst = 0]
Emptied(e) == [e EXCEPT !.clst = 0, !.size = 0]

BugTruncate(x, r) ==
  LET e == EntryAt(r)
      y == move_window(remove_chain(x, e.clst), r.dp.sect)
  IN [Poke(y, r.dp.k % SS, Emptied(e)) EXCEPT !.last = IF e.clst = 0 THEN @ ELSE e.clst - 1]

(* f_open on an existing file in overwrite mode: the entry is emptied first,
   then its chain is freed. *)
Truncate(x, r) ==
  LET e == EntryAt(r)
      y == Poke(x, r.dp.k % SS, Emptied(e))
  IN IF e.clst = 0 THEN y
     ELSE [move_window(remove_chain(y, e.clst), r.dp.sect) EXCEPT !.last = e.clst - 1]

(* The entry of the file to open: found, created or emptied. *)
OpenEntry(r, path, flags) ==
  LET create == flags \cap Creating # {}
  IN IF r.res = "NO_FILE" /\ create
     THEN dir_register(r.v, r.dp.tbl, Entry(Last(path), FALSE, 0, 0))
     ELSE IF r.res # "OK" THEN r
     ELSE IF EntryAt(r).dir THEN [r EXCEPT !.res = IF create THEN "DENIED" ELSE "NO_FILE"]
     ELSE IF {"CREAT", "EXCL"} \subseteq flags THEN [r EXCEPT !.res = "EXIST"]
     ELSE IF "TRUNC" \in flags THEN [r EXCEPT !.v = Truncate(r.v, r)]
     ELSE r

(* For FA_SEEKEND the last sector of the file is loaded. *)
AtEnd(end, f) ==
  LET g == [f EXCEPT !.fptr = f.size, !.clust = end.clst]
      s == clst2sect(end.clst)
  IN IF end.clst <= 1 /\ f.size > SS THEN [v |-> end.v, f |-> NoFil, res |-> "INT_ERR"]
     ELSE IF f.size % SS = 0 THEN [v |-> end.v, f |-> g, res |-> "OK"]
     ELSE IF end.clst \notin Clusters THEN [v |-> end.v, f |-> NoFil, res |-> "INT_ERR"]
     ELSE [v |-> end.v, f |-> [g EXCEPT !.sect = s, !.buf = end.v.disk[s]], res |-> "OK"]

OpenFil(r, w, mod, append) ==
  LET e == EntryAt(r)
      f == [st |-> "open", w |-> w, mod |-> mod, dirty |-> FALSE, err |-> FALSE,
            sclust |-> e.clst, size |-> e.size, fptr |-> 0, clust |-> 0, sect |-> 0,
            buf |-> ZeroSector, dsect |-> r.v.sect, didx |-> r.dp.k % SS]
  IN IF r.res # "OK" THEN [v |-> r.v, f |-> NoFil, res |-> r.res]
     ELSE IF ~append \/ e.size = 0 THEN [v |-> r.v, f |-> f, res |-> "OK"]
     ELSE AtEnd(Follow(r.v, e.clst, (e.size - 1) \div SS), f)

OpenFound(found, path, w, flags) ==
  OpenFil(OpenEntry(found, path, flags), w, found.res # "OK" \/ "TRUNC" \in flags,
          "APPEND" \in flags)
f_open(x, path, w, flags) == OpenFound(follow_path(x, path), path, w, flags)

WriteBack(x, f) == IF f.dirty THEN [x EXCEPT !.disk[f.sect] = f.buf] ELSE x

(* Brings sector s into the buffer. *)
Load(x, f, s) ==
  IF f.sect = s THEN [v |-> x, f |-> f]
  ELSE LET y == WriteBack(x, f)
       IN [v |-> y, f |-> [f EXCEPT !.buf = y.disk[s], !.sect = s, !.dirty = FALSE]]

Few(a, b) == IF a < b THEN a ELSE b
Part(sector, from, n) == [i \in 1 .. n |-> sector[from + i - 1]]
(* ABORT: the file is not read, written or sought again (fp->err). *)
Aborted(l, x, f) == [l EXCEPT !.v = x, !.f = [f EXCEPT !.err = TRUE], !.res = "INT_ERR"]

BugWhole(x, f, s) == x.disk[s]
Whole(x, f, s) == IF f.dirty /\ f.sect = s THEN f.buf ELSE x.disk[s]

(* f_read after its checks: whole sectors come from the disk, or from the
   buffer if that is newer; the rest goes through the buffer. *)
ReadNext(l) ==
  LET f == l.f
      edge == f.fptr % SS = 0
      c == IF ~edge THEN f.clust ELSE IF f.fptr = 0 THEN f.sclust ELSE get_fat(l.v, f.clust)
      y == IF edge /\ f.fptr # 0 THEN AtFat(l.v, f.clust) ELSE l.v
      s == clst2sect(c)
      at == IF edge THEN Load(y, [f EXCEPT !.clust = c], s) ELSE [v |-> y, f |-> f]
      k == Few(SS - (f.fptr % SS), l.n)
  IN IF l.n = 0 \/ l.res # "OK" THEN l
     ELSE IF edge /\ c \notin Clusters THEN Aborted(l, y, f)
     ELSE IF edge /\ l.n >= SS
     THEN [l EXCEPT !.v = y, !.f = [f EXCEPT !.clust = c, !.fptr = @ + SS], !.n = @ - SS,
                    !.out = @ \o Part(Whole(y, f, s), 0, SS)]
     ELSE [l EXCEPT !.v = at.v, !.f = [at.f EXCEPT !.fptr = @ + k], !.n = @ - k,
                    !.out = @ \o Part(at.f.buf, f.fptr % SS, k)]

f_read(x, f, n) ==
  Times(ReadNext, [v |-> x, f |-> f, n |-> Few(n, f.size - f.fptr), out |-> <<>>, res |-> "OK"], n)

(* A sector that is only partly written is read first, if the file has it. *)
IntoBuffer(x, f, s) ==
  IF f.sect # s /\ f.fptr < f.size THEN [f EXCEPT !.buf = x.disk[s], !.sect = s]
  ELSE [f EXCEPT !.sect = s]

Patch(sector, from, data) ==
  [i \in Cells |-> IF i \in from .. from + Len(data) - 1 THEN data[i - from + 1] ELSE sector[i]]

BugAdvance(f, n) == [f EXCEPT !.fptr = @ + n]
Advance(f, n) ==
  [f EXCEPT !.fptr = @ + n, !.size = IF f.fptr + n > @ THEN f.fptr + n ELSE @]

(* f_write after its checks: at a cluster's edge the next one is taken, and
   a chain that ends is stretched; a full disk ends the write early. *)
WritePart(l, x, f) ==
  LET k == Few(SS - (f.fptr % SS), Len(l.data))
      filled == [f EXCEPT !.buf = Patch(@, f.fptr % SS, SubSeq(l.data, 1, k)), !.dirty = TRUE]
  IN [l EXCEPT !.v = x, !.f = Advance(filled, k), !.data = SubSeq(@, k + 1, Len(@))]
WriteEdge(l, got) ==
  LET c == got.clst
      s == clst2sect(c)
      f == l.f
      g == [f EXCEPT !.clust = c, !.sclust = IF @ = 0 THEN c ELSE @, !.dirty = FALSE]
      y == WriteBack(got.v, f)
      whole == Patch(ZeroSector, 0, SubSeq(l.data, 1, SS))
  IN IF c = 0 THEN [l EXCEPT !.v = got.v, !.data = <<>>]
     ELSE IF c \notin Clusters THEN Aborted(l, got.v, f)
     ELSE IF Len(l.data) >= SS
     THEN [l EXCEPT !.v = [y EXCEPT !.disk[s] = whole],
                    !.f = Advance([g EXCEPT !.buf = IF f.sect = s THEN whole ELSE @], SS),
                    !.data = SubSeq(@, SS + 1, Len(@))]
     ELSE WritePart(l, y, IntoBuffer(y, g, s))
WriteNext(l) ==
  LET f == l.f IN
  IF l.data = <<>> \/ l.res # "OK" THEN l
  ELSE IF f.fptr % SS # 0 THEN WritePart(l, l.v, f)
  ELSE IF f.fptr = 0 /\ f.sclust # 0 THEN WriteEdge(l, [v |-> l.v, clst |-> f.sclust])
  ELSE WriteEdge(l, create_chain(l.v, IF f.fptr = 0 THEN 0 ELSE f.clust))

Modified(r) == IF r.res = "OK" THEN [r EXCEPT !.f.mod = TRUE] ELSE r
f_write(x, f, data) ==
  Modified(Times(WriteNext, [v |-> x, f |-> f, data |-> data, res |-> "OK"], Len(data)))

Bugf_sync(x, f) ==
  LET y == move_window(x, f.dsect)
      z == Poke(y, f.didx, [y.win[f.didx] EXCEPT !.clst = f.sclust, !.size = f.size])
  IN IF ~f.mod THEN [v |-> x, f |-> f]
     ELSE [v |-> sync_window(z), f |-> [f EXCEPT !.mod = FALSE]]

(* The buffer, then the directory entry, then the window. *)
f_sync(x, f) ==
  LET y == move_window(WriteBack(x, f), f.dsect)
      z == Poke(y, f.didx, [y.win[f.didx] EXCEPT !.clst = f.sclust, !.size = f.size])
  IN IF ~f.mod THEN [v |-> x, f |-> f]
     ELSE [v |-> sync_window(z), f |-> [f EXCEPT !.mod = FALSE, !.dirty = FALSE]]

(* The cluster loop of f_lseek: ofs left to go from cluster clst on.  A disk
   that is full cuts it short. *)
SeekOn(l, r) ==
  LET g == [l.f EXCEPT !.fptr = @ + SS]
  IN IF l.ofs <= SS \/ l.res # "OK" THEN l
     ELSE IF l.f.w /\ r.clst = 0 THEN [l EXCEPT !.v = r.v, !.f = g, !.clst = 0, !.ofs = 0]
     ELSE IF r.clst \notin Clusters THEN Aborted(l, r.v, g)
     ELSE [l EXCEPT !.v = r.v, !.f = [g EXCEPT !.clust = r.clst], !.clst = r.clst, !.ofs = @ - SS]
SeekNext(l) ==
  SeekOn(l, IF l.f.w THEN create_chain(l.v, l.clst) ELSE NextCluster(l.v, l.clst))
SeekLoop(x, f, c, ofs) ==
  LET l == Times(SeekNext, [v |-> x, f |-> f, clst |-> c, ofs |-> ofs, res |-> "OK"], ofs)
  IN IF c = 0 THEN [v |-> x, f |-> f, clst |-> 0, res |-> "OK"]
     ELSE [v |-> l.v, clst |-> l.clst, res |-> l.res,
           f |-> IF l.res = "OK" THEN [l.f EXCEPT !.fptr = @ + l.ofs] ELSE l.f]

(* Forward from the current cluster when the target is not before it,
   otherwise from the first, which is created if there is none. *)
SeekFrom(first, f, ofs) ==
  SeekLoop(first.v, [f EXCEPT !.fptr = 0, !.sclust = first.clst, !.clust = first.clst],
           first.clst, ofs)
SeekTo(x, f, ofs) ==
  LET base == f.fptr - 1 - ((f.fptr - 1) % SS)      \* where its cluster begins
  IN IF ofs = 0 THEN [v |-> x, f |-> [f EXCEPT !.fptr = 0], clst |-> 0, res |-> "OK"]
     ELSE IF f.fptr > 0 /\ ofs > base THEN SeekLoop(x, [f EXCEPT !.fptr = base], f.clust, ofs - base)
     ELSE IF f.sclust = 0 THEN SeekFrom(create_chain(x, 0), f, ofs)
     ELSE SeekFrom([v |-> x, clst |-> f.sclust], f, ofs)
Sought(r) ==
  LET g == IF r.f.fptr > r.f.size THEN [r.f EXCEPT !.size = r.f.fptr, !.mod = TRUE] ELSE r.f
      l == Load(r.v, g, clst2sect(r.clst))
  IN IF r.res # "OK" THEN r
     ELSE IF r.f.fptr % SS = 0 THEN [v |-> r.v, f |-> g, res |-> "OK"]
     ELSE IF r.clst \notin Clusters THEN Aborted(r, r.v, r.f)
     ELSE [v |-> l.v, f |-> l.f, res |-> "OK"]
f_lseek(x, f, to) == Sought(SeekTo(x, f, IF to > f.size /\ ~f.w THEN f.size ELSE to))

(***************************************************************************)
(* Whole calls on paths                                                    *)
(***************************************************************************)
(* f_unlink refuses a directory in which dir_read finds anything. *)
Removable(x, e) ==
  IF e.dir THEN dir_read(x, dir_sdi(e.clst)) ELSE [v |-> x, res |-> "NO_FILE"]

BugRemoveEntry(t, e, dp) ==
  IF t.res = "OK" THEN t.v ELSE sync_window(dir_remove(t.v, dp))
RemoveEntry(t, e, dp) ==
  IF t.res = "OK" THEN t.v
  ELSE IF e.clst = 0 THEN sync_window(dir_remove(t.v, dp))
  ELSE sync_window(remove_chain(dir_remove(t.v, dp), e.clst))
RemoveFound(r) ==
  IF r.res # "OK" THEN r.v ELSE RemoveEntry(Removable(r.v, EntryAt(r)), EntryAt(r), r.dp)
f_unlink(x, path) == RemoveFound(follow_path(x, path))

(* The new table is written before it is registered; if that fails its
   cluster is given back, with nothing flushed. *)
MkdirDone(reg, clst) ==
  IF reg.res = "OK" THEN sync_window(reg.v) ELSE remove_chain(reg.v, clst)
MkdirTable(new, tbl, name) ==
  LET z == Poke(Poke(dir_clear(new.v, new.clst), 0, Entry(".", TRUE, new.clst, 0)),
                1, Entry("..", TRUE, tbl, 0))
  IN IF new.clst = 0 THEN new.v
     ELSE MkdirDone(dir_register(z, tbl, Entry(name, TRUE, new.clst, 0)), new.clst)
MkdirAt(r, name) ==
  IF r.res # "NO_FILE" THEN r.v ELSE MkdirTable(create_chain(r.v, 0), r.dp.tbl, name)
f_mkdir(x, path) == MkdirAt(follow_path(x, path), Last(path))

(* The new entry first, then the ".." of a moved directory, then the old
   entry goes. *)
MoveEntry(reg, e, from, to) ==
  LET dots == move_window(reg.v, clst2sect(e.clst))
      up == dots.win[1]
      moved == e.dir /\ from.tbl # to.tbl
      y == IF ~moved THEN reg.v
           ELSE IF IsDot(up) THEN Poke(dots, 1, [up EXCEPT !.clst = to.tbl]) ELSE dots
  IN IF reg.res # "OK" \/ (moved /\ e.clst = 0) THEN reg.v ELSE sync_window(dir_remove(y, from))
RenameTo(n, o, name) ==
  LET same == n.dp.tbl = o.dp.tbl /\ n.dp.k = o.dp.k
      e == EntryAt(o)
  IN IF n.res # "NO_FILE" /\ ~(n.res = "OK" /\ same) THEN n.v
     ELSE MoveEntry(dir_register(n.v, n.dp.tbl, [e EXCEPT !.name = name]), e, o.dp, n.dp)
RenameFound(o, to) ==
  IF o.res # "OK" THEN o.v ELSE RenameTo(follow_path(o.v, to), o, Last(to))
f_rename(x, from, to) == RenameFound(follow_path(x, from), to)

(***************************************************************************)
(* What the sectors and the buffers stand for, read without the code above *)
(***************************************************************************)
Chain(x, c) ==
  LET Next1(l) ==
        IF l.clst \notin Clusters THEN l
        ELSE [clst |-> Seen(x, FatSect(l.clst))[l.clst % SS], chain |-> Append(l.chain, l.clst)]
  IN Times(Next1, [clst |-> c, chain |-> <<>>], NClusters).chain

TableSectors(x, tbl) ==
  IF tbl = 0 THEN [i \in 1 .. RootSectors |-> DirBase + i - 1]
  ELSE LET ch == Chain(x, tbl) IN [i \in DOMAIN ch |-> clst2sect(ch[i])]

(* The slots of a table up to its end: sector, number and cell. *)
Slots(x, tbl) ==
  LET sects == TableSectors(x, tbl)
      size == SS * Len(sects)
      At(i) == [sect |-> sects[i \div SS + 1], idx |-> i % SS,
                cell |-> Seen(x, sects[i \div SS + 1])[i % SS]]
      ends == {i \in 0 .. size - 1 : At(i).cell = Zero}
  IN {At(i) : i \in 0 .. Min(ends \cup {size}) - 1}

Objects(x, tbl) == {o \in Slots(x, tbl) : IsEntry(o.cell) /\ ~IsDot(o.cell)}

(* The slots that carry a path: at most one in a sound volume. *)
NamedIn(x, tbl, name) == {o \in Objects(x, tbl) : o.cell.name = name}
SlotsOf(x, path) ==
  LET at[i \in 1 .. Len(path)] ==
        IF i = 1 THEN NamedIn(x, 0, path[1])
        ELSE UNION {NamedIn(x, o.cell.clst, path[i]) : o \in {p \in at[i - 1] : p.cell.dir}}
  IN at[Len(path)]

Bytes(x, c, size, f) ==
  LET ch == Chain(x, c) IN
  [i \in 1 .. Few(size, Len(ch) * SS) |->
     LET s == clst2sect(ch[(i - 1) \div SS + 1])
     IN (IF IsOpen(f) /\ f.dirty /\ f.sect = s THEN f.buf ELSE x.disk[s])[(i - 1) % SS]]

FS == INSTANCE FileSystem WITH
  tree <- view.tree, handle <- view.handle,
  Data <- {[i \in 1 .. n |-> Byte(x)] : n \in Lengths, x \in Values}

HandlesOn(fl, o) == {h \in Handles : IsOpen(fl[h]) /\ fl[h].dsect = o.sect /\ fl[h].didx = o.idx}

(* The tree and handles of FileSystem.  A file open on a handle is what the
   FIL object says, a closed one what its directory entry says. *)
ObjectAt(x, fl, os) ==
  LET o == CHOOSE o \in os : TRUE
      hs == HandlesOn(fl, o)
      f == fl[CHOOSE h \in hs : TRUE]
  IN IF os = {} THEN FS!None
     ELSE IF o.cell.dir THEN FS!Dir
     ELSE IF hs = {} THEN FS!File(Bytes(x, o.cell.clst, o.cell.size, NoFil))
     ELSE FS!File(Bytes(x, f.sclust, f.size, f))
HandleAt(f, ps) ==
  IF f = NoFil THEN FS!Closed
  ELSE IF f = StaleFil THEN FS!Stale
  ELSE IF ps = {} THEN [state |-> "lost"]
  ELSE [state |-> "open", path |-> CHOOSE p \in ps : TRUE, w |-> f.w, pos |-> f.fptr, mod |-> f.mod]
ViewOf(x, fl, named) ==
  [tree |-> [p \in Paths |-> ObjectAt(x, fl, {n[2] : n \in {m \in named : m[1] = p}})],
   handle |-> [h \in Handles |->
     HandleAt(fl[h], {n[1] : n \in {m \in named : h \in HandlesOn(fl, m[2])}})]]
View(x, fl) == ViewOf(x, fl, UNION {{<<p, o>> : o \in SlotsOf(x, p)} : p \in Paths})

(* What is left in a sector after its cluster was freed is not remembered: a
   value of its own stands for it.  Neither is a clean window on a sector
   that only the window writes, since reading it again changes nothing. *)
Garbage == [i \in Cells |-> [garbage |-> TRUE]]
Forget(x) ==
  LET free == {clst2sect(c) : c \in {d \in Clusters : 0 = Seen(x, FatSect(d))[d % SS]
                                                    /\ 0 = x.disk[FatSect(d)][d % SS]}}
      clean == ~x.dirty /\ x.sect < DataBase
  IN [x EXCEPT !.disk = [s \in Sectors |-> IF s \in free THEN Garbage ELSE @[s]],
               !.win = IF clean THEN ZeroSector ELSE IF x.sect \in free THEN Garbage ELSE @,
               !.sect = IF clean THEN -1 ELSE @]

Become(x, fl) == v' = Forget(x) /\ fil' = fl /\ view' = View(v', fl)

(***************************************************************************)
(* The calls of the adapter.  Objects are not removed, renamed or opened   *)
(* for writing while they are open, as ffconf.h asks of an application     *)
(* when FF_FS_LOCK is 0, and a directory is not moved into itself.         *)
(***************************************************************************)
Init ==
  /\ v = Fresh([s \in Sectors |-> IF s \in 1 .. FatSectors THEN [i \in Cells |-> 0]
                                  ELSE ZeroSector])
  /\ mounted = FALSE
  /\ fil = [h \in Handles |-> NoFil]
  /\ view = View(v, fil)

Boot == [i \in Cells |-> [vbr |-> TRUE]]

(* f_mkfs: boot sector, FAT and root directory; the data area keeps what it
   holds. *)
Format ==
  /\ ~mounted
  /\ Become([v EXCEPT !.disk = [s \in Sectors |->
       IF s = 0 THEN Boot
       ELSE IF s \in 1 .. FatSectors THEN [i \in Cells |-> IF s = 1 /\ i < 2 THEN EOC ELSE 0]
       ELSE IF s < DataBase THEN ZeroSector ELSE @[s]]], fil)
  /\ UNCHANGED mounted

Mount ==
  /\ ~mounted
  /\ v.disk[0] = Boot
  /\ mounted' = TRUE
  /\ Become(move_window(v, 0), fil)

(* f_mount(NULL) and the memset: the window is dropped, not flushed. *)
Umount ==
  /\ mounted
  /\ CanForce \/ \A h \in Handles : fil[h] = NoFil
  /\ mounted' = FALSE
  /\ Become(Fresh(v.disk), [h \in Handles |-> IF fil[h] = NoFil THEN NoFil ELSE StaleFil])

OpenOn(p) == {h \in Handles : IsOpen(fil[h]) /\ view.handle[h].path = p}

Open(h) ==
  /\ mounted /\ fil[h] = NoFil
  /\ \E p \in Paths, w \in BOOLEAN, flags \in OpenFlags :
       /\ \A g \in OpenOn(p) : ~w /\ ~fil[g].w
       /\ flags \cap Creating # {} => w
       /\ LET r == f_open(v, p, w, flags)
          IN Become(r.v, [fil EXCEPT ![h] = r.f])
  /\ UNCHANGED mounted

Read(h) ==
  /\ mounted /\ IsOpen(fil[h]) /\ ~fil[h].err
  /\ \E n \in Lengths :
       LET r == f_read(v, fil[h], n) IN Become(r.v, [fil EXCEPT ![h] = r.f])
  /\ UNCHANGED mounted

Write(h) ==
  /\ mounted /\ IsOpen(fil[h]) /\ ~fil[h].err /\ fil[h].w
  /\ \E n \in Lengths, val \in Values :
       /\ fil[h].fptr + n <= MaxSize
       /\ LET r == f_write(v, fil[h], [i \in 1 .. n |-> Byte(val)])
          IN Become(r.v, [fil EXCEPT ![h] = r.f])
  /\ UNCHANGED mounted

Lseek(h) ==
  /\ mounted /\ IsOpen(fil[h]) /\ ~fil[h].err
  /\ \E to \in Offsets :
       LET r == f_lseek(v, fil[h], to) IN Become(r.v, [fil EXCEPT ![h] = r.f])
  /\ UNCHANGED mounted

Sync(h) ==
  /\ mounted /\ IsOpen(fil[h])
  /\ LET r == f_sync(v, fil[h]) IN Become(r.v, [fil EXCEPT ![h] = r.f])
  /\ UNCHANGED mounted

(* f_close fails on a stale file; the VFS gives up the descriptor anyway. *)
Close(h) ==
  /\ fil[h] # NoFil
  /\ Become(IF IsOpen(fil[h]) THEN f_sync(v, fil[h]).v ELSE v, [fil EXCEPT ![h] = NoFil])
  /\ UNCHANGED mounted

Unlink ==
  /\ mounted
  /\ \E p \in Paths : OpenOn(p) = {} /\ Become(f_unlink(v, p), fil)
  /\ UNCHANGED mounted

Mkdir ==
  /\ mounted
  /\ \E p \in Dirs : Become(f_mkdir(v, p), fil)
  /\ UNCHANGED mounted

Rename ==
  /\ mounted
  /\ \E p, q \in Paths :
       /\ OpenOn(p) = {} /\ OpenOn(q) = {} /\ ~FS!Within(p, q)
       /\ \A r \in Paths : FS!Within(p, r) /\ FS!Exists(r) =>
            q \o SubSeq(r, Len(p) + 1, Len(r)) \in Paths
       /\ Become(f_rename(v, p, q), fil)
  /\ UNCHANGED mounted

(* f_stat, and f_opendir with f_readdir to the end: only the window moves. *)
ListNext(l) ==
  LET r == dir_read(l.v, l.dp)
      n == dir_next(r.v, r.dp, FALSE)
  IN IF ~l.more THEN l
     ELSE IF r.res # "OK" THEN [l EXCEPT !.more = FALSE]
     ELSE [l EXCEPT !.v = n.v, !.dp = n.dp, !.names = Append(@, EntryAt(r).name)]
Listing(x, tbl) ==
  Times(ListNext, [v |-> x, dp |-> dir_sdi(tbl), names |-> <<>>, more |-> TRUE], MaxSlots).names

Stat ==
  /\ mounted
  /\ \E p \in Paths : Become(follow_path(v, p).v, fil)
  /\ UNCHANGED mounted

Next ==
  \/ Format \/ Mount \/ Umount \/ Unlink \/ Mkdir \/ Rename \/ Stat
  \/ \E h \in Handles : Open(h) \/ Read(h) \/ Write(h) \/ Lseek(h) \/ Sync(h) \/ Close(h)

Spec == Init /\ [][Next]_vars

(***************************************************************************)
(* Properties                                                              *)
(***************************************************************************)
(* The chains the volume has: of every object in a directory, of the files
   whose FIL object is newer than the entry. *)
TablesAt == {0} \cup {o.cell.clst : o \in {p \in Objects(v, 0) : p.cell.dir}}
EntryObjects == UNION {Objects(v, tbl) : tbl \in TablesAt}
StartOf(o) ==
  LET hs == HandlesOn(fil, o)
  IN IF hs = {} THEN o.cell.clst ELSE fil[CHOOSE h \in hs : TRUE].sclust
Chains == {Chain(v, StartOf(o)) : o \in {p \in EntryObjects : StartOf(p) # 0}}
FatOf(c) == Seen(v, FatSect(c))[c % SS]

(* What a sector may hold, by the area it is in. *)
Names == {".", ".."} \cup UNION {ToSet(p) : p \in Paths}
Entries == [name : Names, dir : BOOLEAN, clst : {0} \cup Clusters, size : 0 .. MaxSize]
DirCells == {Zero, Deleted} \cup Entries
DataCells == DirCells \cup {Byte(x) : x \in Values} \cup {Garbage[0]}
DirSectors == DirBase .. DataBase - 1
DataSectors == DataBase .. DataBase + NClusters - 1
FatContents == [Cells -> 0 .. EOC]
DataContents == [Cells -> DataCells]
Contents(s) ==
  IF s = 0 THEN {Boot, ZeroSector}
  ELSE IF s \in 1 .. FatSectors THEN FatContents
  ELSE IF s \in DirSectors THEN [Cells -> DirCells] ELSE DataContents

IsVolume(x) ==
  /\ x \in [disk : {x.disk}, win : {x.win}, sect : Sectors \cup {-1}, dirty : BOOLEAN,
            last : 0 .. NFatEnt - 1]
  /\ x.disk = [s \in Sectors |-> x.disk[s]]
  /\ \A s \in Sectors : x.disk[s] \in Contents(s)
  /\ x.win \in IF x.sect = -1 THEN {ZeroSector} ELSE Contents(x.sect)
  /\ x.dirty => x.sect # -1

OpenFils ==
  [st : {"open"}, w : BOOLEAN, mod : BOOLEAN, dirty : BOOLEAN, err : BOOLEAN,
   sclust : {0} \cup Clusters, clust : 0 .. EOC, size : 0 .. MaxSize,
   fptr : 0 .. MaxSize, sect : {0} \cup DataSectors, buf : DataContents,
   dsect : DirSectors \cup DataSectors, didx : Cells]

(* A file that is not aborted stands inside its size, and in the middle of a
   sector only with that sector in its buffer. *)
Placed(f) == f.fptr % SS # 0 => f.clust \in Clusters /\ f.sect = clst2sect(f.clust)
Fits(f) == (f.dirty => f.sect # 0) /\ (~f.err => f.fptr <= f.size /\ Placed(f))

(* Every sector holds what belongs into its area, in the window and on the
   disk, so that no entry, chain or byte is ever written into another area,
   and every cluster number in use names a cluster. *)
TypeOK ==
  /\ IsVolume(v)
  /\ mounted \in BOOLEAN
  /\ fil \in [Handles -> {NoFil, StaleFil} \cup OpenFils]
  /\ \A h \in Handles : IsOpen(fil[h]) => Fits(fil[h])

(* No two objects share a cluster and every chain ends with an end mark,
   never in a free cluster: also after a volume was forced away under
   modified files and mounted again, because a cluster is marked before
   anything points to it and an entry is emptied before its chain is freed. *)
ChainsSound ==
  mounted =>
    LET owners == {o \in EntryObjects : StartOf(o) # 0}
        chains == Chains
    IN /\ Cardinality(chains) = Cardinality(owners)
       /\ \A ch \in chains : /\ ch # <<>> /\ FatOf(Last(ch)) = EOC
                              /\ Cardinality(ToSet(ch)) = Len(ch)
       /\ \A ch, dh \in chains : ch # dh => ToSet(ch) \cap ToSet(dh) = {}

(* No file is longer than its chain. *)
SizeCovered ==
  mounted => \A o \in EntryObjects : ~o.cell.dir =>
    o.cell.size <= SS * Len(Chain(v, o.cell.clst))

(* While no volume is forced away no cluster is lost: what the FAT marks
   belongs to a chain, after every partial write, failed f_mkdir, growth of
   a directory, truncation and removal. *)
NoneLost ==
  mounted /\ ~CanForce =>
    {c \in Clusters : FatOf(c) # 0} \subseteq UNION {ToSet(ch) : ch \in Chains}

(* dir_read lists the names of a directory, each of them once, and dir_find
   finds exactly these, whatever entries were deleted before them. *)
ListingExact ==
  mounted => \A tbl \in TablesAt :
    LET names == Listing(v, tbl)
        objs == Objects(v, tbl)
        set == {o.cell.name : o \in objs}
    IN /\ Cardinality(objs) = Cardinality(set)
       /\ Len(names) = Cardinality(set) /\ ToSet(names) = set
       /\ \A n \in {Last(p) : p \in Paths} : (dir_find(v, tbl, n).res = "OK") <=> n \in set

(* What the next f_read returns is what was written: from the disk, past
   the disk's stale sectors from the buffer, across sector boundaries. *)
ReadsBack ==
  \A h \in Handles : mounted /\ IsOpen(fil[h]) => \A n \in Lengths :
    LET r == f_read(v, fil[h], n)
        data == view.tree[view.handle[h].path].data
    IN /\ view.handle[h].state = "open" /\ r.res = "OK"
       /\ r.out = SubSeq(data, fil[h].fptr + 1, Few(fil[h].fptr + n, Len(data)))

(* The library is a file system: every call does to the tree and the
   handles what FileSystem says, or nothing. *)
IsFileSystem == FS!Spec
=============================================================================
