------------------------------ MODULE LittleFs ------------------------------
(***************************************************************************)
(* The littlefs library (lfs.c) as the adapter littlefs_vfs.c uses it.     *)
(* fs->lock serialises the calls of a volume, so one action is one call.   *)
(*                                                                         *)
(* A directory is a chain of metadata pairs, and all pairs are on one list *)
(* that starts at blocks 0 and 1.  A pair is two blocks that take turns: a *)
(* commit is appended to the newer one, and when it has no room its state  *)
(* is written to the older one.  A small file lives in its directory       *)
(* entry, a larger one in a list of blocks that is copied on write.  The   *)
(* power may fail in any commit of a call; the call then does nothing more *)
(* and the next mount finds what was committed.                            *)
(*                                                                         *)
(* A metadata block is modelled by the state its valid commits add up to:  *)
(* a commit without its checksum is skipped when the block is read, so it  *)
(* is there or it is not (torn).                                           *)
(*                                                                         *)
(* Left out: read and program caches, which are written through, so the    *)
(* power does not fail between the data of a file and the commit that      *)
(* names it; directory streams; custom attributes, which nothing sets;     *)
(* seeking and rewinding a directory and truncation, which the adapter     *)
(* does not call; bad blocks, which the RAM disk does not report; power    *)
(* failures while formatting; an open that creates a file for reading      *)
(* only; a file open in two handles of which one writes; a rename of a     *)
(* directory into itself; an unmount with open files; calls other than     *)
(* sync and close on a file after a failed commit or a removal; the pool   *)
(* of cache blocks of the adapter.  lfs_file_opencfg keeps a pointer into  *)
(* the stack frame of _open, and the model takes the outcome in which      *)
(* those words stay as they were.                                          *)
(*                                                                         *)
(* There are calls in which the library, on its own or when a step fails,  *)
(* loses track of what is on the disk.  They are followed like any other;  *)
(* f.lost, which the code does not have, marks until the next format       *)
(*   "blind"   that a scan for free blocks missed one of a committed file, *)
(*   "state"   that a global state was to be written, and is not,          *)
(*   "move"    that the note of a rename that failed was written later,    *)
(*   "orphan"  that a directory without an entry stays on the list and     *)
(*             nothing says so,                                            *)
(*   "entry"   that a removed open file was stored in another's entry,     *)
(*   "kind"    that this was the entry of a directory,                     *)
(*   "count"   that the number of orphans went below zero,                 *)
(* and a property names the marks behind which it is not kept.  Bound: the *)
(* last two end a behaviour, as the words they leave mean nothing.         *)
(***************************************************************************)
EXTENDS Integers, Sequences, FiniteSets, SequencesExt, FiniteSetsExt

CONSTANTS
  Paths,       \* the paths in use: sequences of names, a name is a number
  Handles,     \* open files
  OpenFlags,   \* the sets of open flags in use
  Data,        \* the sequences of bytes written, none of them 0
  Offsets,     \* where a call seeks
  Seeds,       \* where the search for free blocks starts after a mount
  NBlocks,     \* block_count
  MdirSize,    \* what fits in a metadata block, in tags
  BlockBytes,  \* block_size for file data, in pointers
  InlineMax,   \* inline_max
  LookSize,    \* blocks the lookahead buffer covers
  BlockCycles, \* block_cycles
  MaxCalls,    \* bound: calls of a behaviour
  MaxFailures  \* bound: power failures of a behaviour

VARIABLES
  f,           \* the volume on disk, and what the library keeps in RAM
  calls,       \* calls so far
  failures,    \* power failures so far
  seen         \* the tree and the open files as a reader of f finds them

vars == <<f, calls, failures, seen>>

ASSUME SizesAssumption ==
  /\ NBlocks > 4 /\ MdirSize > 2 /\ BlockBytes > 4 /\ InlineMax < BlockBytes
  /\ LookSize > 0 /\ BlockCycles > 0

Blocks == 0 .. NBlocks - 1
Null == <<-1, -1>>                   \* a pair of LFS_BLOCK_NULL
First == <<0, 1>>                    \* the pair every volume starts with
Blank == [kind |-> "blank"]
Inline == -2                         \* LFS_BLOCK_INLINE
Super == [t |-> "super"]
DirOf(pair) == [t |-> "dir", pair |-> pair]
InFile(s) == [t |-> "inline", data |-> s]
CtzFile(h, n) == [t |-> "ctz", head |-> h, size |-> n]
Temp == "temp"                       \* a pair a call wants to be kept current
Members == Handles \cup {Temp}
NotOpen == [on |-> FALSE]
NoFailure == 1000                    \* more commits than any call makes

Min2(a, b) == IF a < b THEN a ELSE b
Max2(a, b) == IF a > b THEN a ELSE b
Ok(g) == g.r = "ok"
Failed(g) == g.r \notin {"ok", "relocated", "dropped", "orphaned"}
With(x, F(_)) == F(x)                \* F of a value that is computed once
Then(g, F(_)) == IF Failed(g) THEN g ELSE F(g)
Without(marks) == f.lost \cap marks = {}
Marked(g, c, mark) == IF c /\ ~g.dead THEN [g EXCEPT !.lost = @ \cup {mark}] ELSE g

-----------------------------------------------------------------------------
(* Pairs, and the state of a metadata pair.  Revisions of the two blocks of
   a pair differ by one, so they are kept modulo the cycle of relocations. *)
lfs_pair_cmp(p, q) == \E i, j \in 1 .. 2 : p[i] = q[j]
lfs_pair_issync(p, q) == {p[1], p[2]} = {q[1], q[2]}

Cycle == IF BlockCycles % 2 = 0 THEN BlockCycles + 1 ELSE BlockCycles + 2
Newer(a, b) == a = (b + 1) % Cycle
lfs_dir_needsrelocation(m) == (m.rev + 1) % Cycle = 0

Corrupt(pair) == [pair |-> pair, rev |-> 0, ents |-> <<>>, tail |-> Null,
                  split |-> FALSE, delta |-> {}, used |-> 0, erased |-> FALSE,
                  ok |-> FALSE]

Readable(d, b) == b \in Blocks /\ d[b].kind = "m"
NewerBlock(d, pair) ==
  IF Readable(d, pair[2]) /\ (~Readable(d, pair[1]) \/ Newer(d[pair[2]].rev, d[pair[1]].rev))
  THEN 2 ELSE 1
lfs_dir_fetch(d, pair) ==
  With(NewerBlock(d, pair), LAMBDA i :
    IF ~Readable(d, pair[i]) THEN Corrupt(pair)
    ELSE With(d[pair[i]], LAMBDA b :
           [pair |-> <<pair[i], pair[3 - i]>>, rev |-> b.rev, ents |-> b.ents,
            tail |-> b.tail, split |-> b.split, delta |-> b.delta,
            used |-> b.used, erased |-> ~b.torn, ok |-> TRUE]))

(* The pairs of the list from p on; every loop over the list ends at a pair
   it has met or cannot read, as lfs_tortoise_detectcycles does. *)
RECURSIVE ListFrom(_, _, _)
ListFrom(d, p, met) ==
  IF p = Null \/ \E q \in met : lfs_pair_issync(p, q) THEN <<>>
  ELSE With(lfs_dir_fetch(d, p), LAMBDA m :
         IF ~m.ok THEN <<>> ELSE <<m>> \o ListFrom(d, m.tail, met \cup {p}))
Pairs(d) == ListFrom(d, First, {})

(* The first of a list of mdirs that satisfies P; 0 if none does. *)
FirstOf(s, P(_)) ==
  With({i \in DOMAIN s : P(s[i])}, LAMBDA I : IF I = {} THEN 0 ELSE Min(I))

\* The mdir whose tail is the pair.
lfs_fs_pred(g, pair) ==
  With(Pairs(g.disk), LAMBDA s :
  With(FirstOf(s, LAMBDA m : lfs_pair_cmp(m.tail, pair)), LAMBDA i :
    IF i = 0 THEN Corrupt(Null) ELSE s[i]))

-----------------------------------------------------------------------------
(* The global state: the number of orphans and one move, spread over the
   deltas of all pairs, which add up by exclusive or. *)
NoMove == [pair |-> Null, id |-> 0]
OrphanFlag == [pair |-> Null, id |-> -1]
NoState == [orphans |-> 0, move |-> NoMove]
Atoms(gs) == (IF gs.orphans > 0 THEN {OrphanFlag} ELSE {})
             \cup (IF gs.move # NoMove THEN {gs.move} ELSE {})
lfs_gstate_hasmove(gs) == gs.move # NoMove
lfs_gstate_hasmovehere(gs, pair) ==
  gs.move # NoMove /\ lfs_pair_cmp(gs.move.pair, pair)

(* A count below zero would run over the other bits of the tag; the call is
   not followed from there. *)
lfs_fs_preporphans(g, k) ==
  IF g.gstate.orphans + k < 0 THEN [Marked(g, TRUE, "count") EXCEPT !.r = "UNDERFLOW"]
  ELSE [g EXCEPT !.gstate.orphans = @ + k]
lfs_fs_prepmove(g, id, pair) ==
  [g EXCEPT !.gstate.move = IF id = 0 THEN NoMove ELSE [pair |-> pair, id |-> id]]

SumOfDeltas(s) == FoldSeq(LAMBDA m, sum : SymDiff(sum, m.delta), {}, s)

\* What the deltas of the pairs add up to.
StateOf(s) ==
  With(SumOfDeltas(s), LAMBDA sum :
    [orphans |-> IF OrphanFlag \in sum THEN 1 ELSE 0,
     move |-> IF sum \subseteq {OrphanFlag} THEN NoMove
              ELSE CHOOSE mv \in sum : mv # OrphanFlag])

(* Entry id of a pair, with a pending move taken for a deletion.  The entry
   behind the moved one, which a search finds at the moved one's id, is not
   found at all. *)
NoEnt == [t |-> "NOENT"]
lfs_dir_get(g, m, id) ==
  LET mv == g.gdisk.move
      i == IF lfs_gstate_hasmovehere(g.gdisk, m.pair) /\ mv.id < id THEN id + 1 ELSE id
  IN IF (lfs_gstate_hasmovehere(g.gdisk, m.pair) /\ mv.id = id) \/ i \notin DOMAIN m.ents
     THEN NoEnt ELSE m.ents[i].st

(* What a search for entry i of m answers: the id, or 0 if it is being moved. *)
Found(g, m, i) ==
  IF ~lfs_gstate_hasmovehere(g.gdisk, m.pair) \/ i < g.gdisk.move.id THEN i
  ELSE IF i = g.gdisk.move.id THEN 0 ELSE i - 1

\* The mdir and the id of the entry for the directory at pair; id 0 if none.
EntryOf(g, m, pair) ==
  With({i \in DOMAIN m.ents : m.ents[i].st.t = "dir" /\ lfs_pair_cmp(m.ents[i].st.pair, pair)},
       LAMBDA I : IF I = {} THEN 0 ELSE Found(g, m, Max(I)))
lfs_fs_parent(g, pair) ==
  With(Pairs(g.disk), LAMBDA s :
  With(FirstOf(s, LAMBDA m : EntryOf(g, m, pair) > 0), LAMBDA k :
    IF k = 0 THEN [m |-> Corrupt(Null), id |-> 0]
    ELSE [m |-> s[k], id |-> EntryOf(g, s[k], pair)]))

-----------------------------------------------------------------------------
(* The blocks of a file.  Block i holds ctz(i) + 1 pointers to earlier
   blocks in front of its bytes, block 0 none. *)
RECURSIVE lfs_ctz(_), lfs_popc(_), lfs_npw2(_)
lfs_ctz(i) == IF i % 2 = 1 THEN 0 ELSE 1 + lfs_ctz(i \div 2)
lfs_popc(i) == IF i = 0 THEN 0 ELSE (i % 2) + lfs_popc(i \div 2)
lfs_npw2(i) == IF i <= 1 THEN 0 ELSE 1 + lfs_npw2((i + 1) \div 2)

(* The index of a byte is exact if a block has room for the pointers of any
   index and four more words; lfs_init asserts a size that is enough. *)
ASSUME BlockAssumption == \A i \in 1 .. NBlocks - 3 : lfs_popc(i) + 4 <= BlockBytes

\* The block that holds the byte at off, and where in the block it is.
lfs_ctz_index(off) ==
  LET b == BlockBytes - 2
      i == off \div b
      j == (off - (lfs_popc(i - 1) + 2)) \div b
  IN IF i = 0 THEN [i |-> 0, off |-> off]
     ELSE [i |-> j, off |-> off - b * j - lfs_popc(j)]

RECURSIVE SkipTo(_, _, _, _)
SkipTo(d, head, current, target) ==
  IF current <= target \/ head \notin Blocks \/ d[head].kind # "data" THEN head
  ELSE LET skip == Min2(lfs_npw2(current - target + 1) - 1, lfs_ctz(current))
       IN SkipTo(d, d[head].ptrs[skip + 1], current - 2 ^ skip, target)

lfs_ctz_find(d, head, size, pos) ==
  IF size = 0 THEN [block |-> -1, off |-> 0]
  ELSE [block |-> SkipTo(d, head, lfs_ctz_index(size - 1).i, lfs_ctz_index(pos).i),
        off |-> lfs_ctz_index(pos).off]

RECURSIVE TraverseFrom(_, _, _)
TraverseFrom(d, head, i) ==
  IF head \notin Blocks \/ i = 0 \/ d[head].kind # "data" THEN {head}
  ELSE LET count == 2 - (i % 2)
           p == d[head].ptrs
       IN {head} \cup {p[k] : k \in 1 .. count - 1}
          \cup (IF i = 1 THEN {p[1]} ELSE TraverseFrom(d, p[count], i - count))
lfs_ctz_traverse(d, head, size) ==
  IF size = 0 THEN {} ELSE TraverseFrom(d, head, lfs_ctz_index(size - 1).i)

\* What a reader of the file gets; -1 where the list of blocks is broken.
ByteAt(d, at) ==
  With(at.off - Len(d[at.block].ptrs) + 1, LAMBDA k :
    IF at.block \in Blocks /\ d[at.block].kind = "data" /\ k \in DOMAIN d[at.block].bytes
    THEN d[at.block].bytes[k] ELSE -1)
Bytes(d, head, size) ==
  [p \in 1 .. size |-> With(lfs_ctz_find(d, head, size, p - 1), LAMBDA at : ByteAt(d, at))]

-----------------------------------------------------------------------------
(* Free blocks.  A scan marks the blocks of a window that are in use: those
   of the list of pairs, of the directories named in them, of their files,
   and of open files that are not committed. *)
Uncommitted(x) ==
  IF ~x.on \/ x.inline THEN {}
  ELSE (IF x.dirty THEN {<<x.head, x.size>>} ELSE {})
       \cup (IF x.writing THEN {<<x.block, x.pos>>} ELSE {})
\* EntsOf is what is on disk, StructsOf what a search finds.
EntsOf(m) == {e.st : e \in ToSet(m.ents)}
StructsOf(g, m) == {lfs_dir_get(g, m, i) : i \in DOMAIN m.ents}
SubDirs(sts) == {st.pair : st \in {st \in sts : st.t = "dir"}}
CtzLists(sts) == {<<st.head, st.size>> : st \in {st \in sts : st.t = "ctz"}}
ListBlocks(d, lists) == UNION {lfs_ctz_traverse(d, l[1], l[2]) : l \in lists}
\* Seeded fault: blocks of files that are not committed yet count as free.
BugTraverse(g) ==
  With(ToSet(Pairs(g.disk)), LAMBDA mdirs :
  With(UNION {StructsOf(g, m) : m \in mdirs}, LAMBDA sts :
    UNION {{p[1], p[2]} : p \in {m.pair : m \in mdirs} \cup SubDirs(sts)}
    \cup ListBlocks(g.disk, CtzLists(sts))))
lfs_fs_traverse_(g) ==
  With(ToSet(Pairs(g.disk)), LAMBDA mdirs :
  With(UNION {StructsOf(g, m) : m \in mdirs}, LAMBDA sts :
    UNION {{p[1], p[2]} : p \in {m.pair : m \in mdirs} \cup SubDirs(sts)}
    \cup ListBlocks(g.disk, CtzLists(sts) \cup UNION {Uncommitted(g.mlist[h]) : h \in Handles})))

(* The metadata pairs a walk from ps reaches, over tails and over entries as
   they stand on the disk. *)
RECURSIVE Mdirs(_, _)
Mdirs(d, ps) ==
  With({lfs_dir_fetch(d, p) : p \in ps \ {Null}}, LAMBDA mdirs :
  With(ps \cup UNION {{m.tail} \cup SubDirs(EntsOf(m)) : m \in mdirs}, LAMBDA more :
    IF more = ps THEN mdirs ELSE Mdirs(d, more)))

(* A scan is blind if it misses a block of a file that stands on the disk: of
   a file on its way to a split pair that is not on the list yet, when the
   library takes the note of its move for written and no longer sees the old
   entry; or of a pair that moved in its parent's entry and not yet in the
   list.  It hands the block out all the same. *)
Blind(g, blocks) ==
  With(Mdirs(g.disk, {First}), LAMBDA mdirs :
    ~(ListBlocks(g.disk, UNION {CtzLists(EntsOf(m)) : m \in mdirs}) \subseteq blocks))

lfs_alloc_ckpoint(g) == [g EXCEPT !.la.ckpoint = NBlocks]
lfs_alloc_drop(start) == [start |-> start, next |-> 0, size |-> 0,
                          ckpoint |-> NBlocks, used |-> {}]

lfs_alloc_scan(g) ==
  With(lfs_fs_traverse_(g), LAMBDA blocks :
    [Marked(g, Blind(g, blocks), "blind") EXCEPT !.la =
       LET start == (@.start + @.next) % NBlocks
           size == Min2(LookSize, @.ckpoint)
       IN [start |-> start, next |-> 0, size |-> size, ckpoint |-> @.ckpoint,
           used |-> {o \in {(b - start + NBlocks) % NBlocks : b \in blocks} : o < size}]])

\* The block found is g.block; what the window passes over counts as tried.
RECURSIVE lfs_alloc(_)
PassTo(la, n) == [la EXCEPT !.next = n, !.ckpoint = @ - (n - la.next)]
lfs_alloc(g) ==
  With({o \in g.la.next .. g.la.size - 1 : o \notin g.la.used}, LAMBDA free :
  With(PassTo(g.la, IF free # {} THEN Min((free \ {Min(free)}) \cup {g.la.size})
                    ELSE Max2(g.la.next, g.la.size)), LAMBDA la :
    IF free # {}
    THEN [g EXCEPT !.la = la, !.r = "ok", !.block = (la.start + Min(free)) % NBlocks]
    ELSE IF la.ckpoint = 0 THEN [g EXCEPT !.la = la, !.r = "NOSPC"]
    ELSE lfs_alloc(lfs_alloc_scan([g EXCEPT !.la = la]))))

(* What is written to the disk, until the power fails. *)
Put(g, b, content) == IF g.dead THEN g ELSE [g EXCEPT !.disk[b] = content]
Commit(g, b, whole, torn) ==
  IF g.dead THEN g
  ELSE IF g.power = 0
  THEN [Marked(g, g.owing, "state") EXCEPT !.disk[b] = torn, !.dead = TRUE]
  ELSE [g EXCEPT !.disk[b] = whole, !.power = @ - 1]

-----------------------------------------------------------------------------
(* Commits.  attrs is a sequence of tags: an entry created before id, an
   entry deleted, an entry's struct, or the pair's tail. *)
Create(id, name, st) == [t |-> "create", id |-> id, name |-> name, st |-> st]
Delete(id) == [t |-> "delete", id |-> id]
Struct(id, st) == [t |-> "struct", id |-> id, st |-> st]
TailTag(pair, split) == [t |-> "tail", tail |-> pair, split |-> split]
DeleteIf(c, id) == IF c THEN <<Delete(id)>> ELSE <<>>

Apply(m, a) ==
  CASE a.t = "create" -> [m EXCEPT !.ents = InsertAt(@, a.id, [name |-> a.name, st |-> a.st])]
    [] a.t = "delete" -> [m EXCEPT !.ents = RemoveAt(@, a.id)]
    [] a.t = "struct" /\ a.id \in DOMAIN m.ents -> [m EXCEPT !.ents[a.id].st = a.st]
    [] a.t = "tail" -> [m EXCEPT !.tail = a.tail, !.split = a.split]
    [] OTHER -> m
ApplyAll(m, attrs) == FoldLeft(LAMBDA n, a : Apply(n, a), m, attrs)

Content(m, torn) ==
  [kind |-> "m", rev |-> m.rev, ents |-> m.ents, tail |-> m.tail,
   split |-> m.split, delta |-> m.delta, used |-> m.used, torn |-> torn]

\* The commit of what changed in the global state goes with any other.
PendingDelta(g) == SymDiff(SymDiff(Atoms(g.gstate), Atoms(g.gdisk)), g.gdelta)
Settled(g) == [g EXCEPT !.gdisk = g.gstate, !.gdelta = {}, !.owing = FALSE]

(* Append to the newer block.  The old state stays when there is no room,
   but the block is not appended to again. *)
AppendCommit(g, m, cost) ==
  With(PendingDelta(g), LAMBDA delta :
  With([m EXCEPT !.delta = SymDiff(@, delta),
                 !.used = @ + cost + (IF delta = {} THEN 0 ELSE 1)], LAMBDA n :
  With([g.disk[m.pair[1]] EXCEPT !.torn = TRUE], LAMBDA torn :
    IF n.used > MdirSize THEN [Put(g, m.pair[1], torn) EXCEPT !.r = "NOSPC"]
    ELSE [Settled(Commit(g, m.pair[1], Content(n, FALSE), torn)) EXCEPT !.m = n, !.r = "ok"])))

(* Two free blocks for a new pair.  What the first one holds is older than
   anything the pair will say. *)
lfs_dir_alloc(g) ==
  Then(lfs_alloc(g), LAMBDA a :
  Then(lfs_alloc(a), LAMBDA b :
    [Put(b, b.block, Blank) EXCEPT
       !.m = [Corrupt(<<b.block, a.block>>) EXCEPT !.ok = TRUE]]))

(* Write the state with these entries to the older block, or to another
   block when the pair is worn: then without the global state, which goes
   with the commit to the parent.  If no block is free the pair stays, and
   the disk is still owed the global state. *)
Worn(m) == lfs_dir_needsrelocation(m) /\ ~lfs_pair_cmp(m.pair, First)
Used(m) == Len(m.ents) + (IF m.tail = Null THEN 0 ELSE 1) + (IF m.delta = {} THEN 0 ELSE 1)
lfs_dir_compact(g, m, ents) ==
  With(IF Worn(m) THEN lfs_alloc(g) ELSE [g EXCEPT !.r = "ok"], LAMBDA a :
  With(IF Worn(m) /\ Ok(a) THEN a.block ELSE m.pair[2], LAMBDA to :
  With([m EXCEPT !.pair = <<to, m.pair[1]>>, !.rev = (@ + 1) % Cycle, !.ents = ents,
                 !.delta = SymDiff(@, IF Worn(m) THEN g.gdelta ELSE PendingDelta(g))],
       LAMBDA x :
  With([x EXCEPT !.used = Used(x)], LAMBDA n :
    IF n.used > MdirSize THEN [Put(a, to, Blank) EXCEPT !.r = "NOSPC"]
    ELSE [Commit(a, to, Content(n, FALSE), Blank) EXCEPT
            !.m = n, !.gdelta = {}, !.gdisk = IF Worn(m) THEN @ ELSE g.gstate,
            !.owing = Worn(m) /\ (@ \/ (~Ok(a) /\ g.gstate # g.gdisk)),
            !.r = IF Worn(m) THEN "relocated" ELSE "ok"]))))

(* The entries of m from split on go to a new pair behind m. *)
lfs_dir_split(g, m, split, end) ==
  Then(lfs_dir_alloc(g), LAMBDA a :
  Then(lfs_dir_compact(a, [a.m EXCEPT !.tail = m.tail, !.split = m.split],
                       SubSeq(m.ents, split + 1, end)), LAMBDA c :
    [c EXCEPT !.m = [m EXCEPT !.tail = c.m.pair, !.split = TRUE], !.r = "ok",
              !.root = IF lfs_pair_cmp(m.pair, @) /\ split = 0 THEN c.m.pair ELSE @]))

\* Where a pair with entries begin + 1 to end is cut; begin when they fit.
RECURSIVE CutOf(_, _)
CutOf(split, end) ==
  IF end - split <= 1 \/ end - split <= MdirSize \div 2 THEN split
  ELSE CutOf(split + (end - split) \div 2, end)

\* The blocks a traversal calls back for, the same one more than once if two
\* lists share it, and without the pairs that directory entries name.
Callbacks(size) == IF size = 0 THEN 0 ELSE lfs_ctz_index(size - 1).i + 1
SizesOf(lists) == MapThenSumSet(LAMBDA l : Callbacks(l[2]), lists)
lfs_fs_size_(g) ==
  With(ToSet(Pairs(g.disk)), LAMBDA mdirs :
    MapThenSumSet(LAMBDA m :
      2 + MapThenSumSet(LAMBDA i : SizesOf(CtzLists({lfs_dir_get(g, m, i)})), DOMAIN m.ents), mdirs)
    + MapThenSumSet(LAMBDA h : SizesOf(Uncommitted(g.mlist[h])), Handles))

RECURSIVE SplitLoop(_, _, _)
SplitLoop(g, m, end) ==
  With(CutOf(0, end), LAMBDA cut :
    IF cut = 0 THEN [g EXCEPT !.m = m, !.id = end]
    ELSE With(lfs_dir_split(g, m, cut, end), LAMBDA s :
           IF s.r = "NOSPC" THEN [s EXCEPT !.r = "ok", !.m = m, !.id = end]
           ELSE SplitLoop(s, s.m, cut)))

Expands(g, m) == /\ lfs_dir_needsrelocation(m) /\ lfs_pair_cmp(m.pair, First)
                 /\ With(NBlocks - lfs_fs_size_(g), LAMBDA left : left < 0 \/ left > NBlocks \div 8)
lfs_dir_splittingcompact(g, m) ==
  With(SplitLoop([g EXCEPT !.r = "ok"], m, Len(m.ents)), LAMBDA s :
    IF ~Expands(s, m) THEN lfs_dir_compact(s, s.m, SubSeq(m.ents, 1, s.id))
    ELSE With(lfs_dir_split(s, s.m, 0, s.id), LAMBDA e :
           lfs_dir_compact(e, IF Ok(e) THEN e.m ELSE s.m,
                           SubSeq(m.ents, 1, IF Ok(e) THEN 1 ELSE s.id))))

-----------------------------------------------------------------------------
(* What open files (and the pair a call keeps) remember of the pair that
   was committed.  An open file that is deleted loses its pair; an id past
   the end of a split pair belongs to the next one. *)
ShiftId(x, a) ==
  CASE a.t = "delete" /\ x.id = a.id -> [x EXCEPT !.m.pair = Null, !.gone = TRUE]
    [] a.t = "delete" /\ x.id > a.id -> [x EXCEPT !.id = @ - 1]
    [] a.t = "create" /\ x.id >= a.id -> [x EXCEPT !.id = @ + 1]
    [] OTHER -> x
RECURSIVE NextPair(_, _)
NextPair(g, x) ==
  IF x.id <= Len(x.m.ents) \/ ~x.m.split THEN x
  ELSE NextPair(g, [x EXCEPT !.id = IF lfs_pair_cmp(x.m.tail, g.root) THEN @
                                    ELSE @ - Len(x.m.ents),
                             !.m = lfs_dir_fetch(g.disk, x.m.tail)])
FixMlist(g, old, own, attrs) ==
  [g EXCEPT !.mlist = [h \in Members |->
     IF ~@[h].on \/ ~lfs_pair_cmp(@[h].m.pair, old) THEN @[h]
     ELSE With([@[h] EXCEPT !.m = g.m], LAMBDA x :
            NextPair(g, IF h = own THEN x
                        ELSE FoldLeft(LAMBDA y, a : ShiftId(y, a), x, attrs)))]]

(* One pair is committed.  own is the open file whose copy of the pair is
   used, if it is one's.  An emptied pair that is not the first of its
   directory is dropped, and the commit is left to its predecessor. *)
CommitHere(g, old, m, attrs) ==
  With(IF old.erased THEN AppendCommit(g, m, Len(attrs)) ELSE [g EXCEPT !.r = "NOSPC"],
       LAMBDA a : IF Ok(a) THEN a ELSE lfs_dir_splittingcompact(a, m))
lfs_dir_relocatingcommit(g, old, own, attrs) ==
  With(ApplyAll(old, attrs), LAMBDA m :
  With(lfs_fs_pred(g, old.pair), LAMBDA pred :
    IF /\ m.ents = <<>> /\ \E a \in ToSet(attrs) : a.t = "delete"
       /\ pred.ok /\ pred.split
    THEN FixMlist([g EXCEPT !.m = m, !.pred = pred, !.r = "dropped"], old.pair, own, attrs)
    ELSE Then(CommitHere(g, old, m, attrs), LAMBDA c : FixMlist(c, old.pair, own, attrs))))

(* One commit may ask for others.  When a pair is dropped its predecessor is
   committed instead; when a pair has moved to other blocks, its parent's
   entry and its predecessor's tail follow, and may move those pairs in turn.
   A job is the next commit, with the pair that moved (old, new) and the
   directory the caller keeps. *)
MlistMoved(g, old, new) ==
  [g EXCEPT !.root = IF lfs_pair_cmp(old, @) THEN new ELSE @, !.mlist = [h \in Members |->
     IF @[h].on /\ lfs_pair_cmp(@[h].m.pair, old) THEN [@[h] EXCEPT !.m.pair = new] ELSE @[h]]]
PendingMove(g, pair) ==
  IF lfs_gstate_hasmovehere(g.gstate, pair) THEN g.gstate.move.id ELSE 0
Unmoved(g, id) == IF id = 0 THEN g ELSE lfs_fs_prepmove(g, 0, Null)

Finished(g, job) ==
  [g |-> [g EXCEPT !.r = IF job.orphans THEN "orphaned" ELSE "ok"],
   job |-> [job EXCEPT !.step = "done"]]
CommitOf(g, job, step, m, mid, tag) ==
  [g |-> Unmoved(g, mid),
   job |-> [job EXCEPT !.step = step, !.m = m, !.own = "none",
                       !.attrs = DeleteIf(mid # 0, mid) \o <<tag>>]]
PredCommit(g, job, hasparent) ==
  With(lfs_fs_pred(g, job.old), LAMBDA pred :
    IF ~pred.ok THEN Finished(g, job)
    ELSE CommitOf(IF hasparent /\ g.gstate.orphans > 0 THEN lfs_fs_preporphans(g, -1) ELSE g,
                  job, "pred", pred, PendingMove(g, pred.pair), TailTag(job.new, pred.split)))
ParentCommit(g, job) ==
  With(lfs_fs_parent(g, job.old), LAMBDA parent :
    IF parent.id = 0 THEN PredCommit(g, job, FALSE)
    ELSE With(PendingMove(g, parent.m.pair), LAMBDA mid :
           CommitOf(lfs_fs_preporphans(g, 1), job, "parent", parent.m, mid,
                    Struct(IF mid # 0 /\ mid < parent.id THEN parent.id - 1 ELSE parent.id,
                           DirOf(job.new)))))
NextCommit(c, job) ==
  IF c.dead THEN Finished(c, job) ELSE
  CASE c.r = "dropped" ->
         CommitOf([c EXCEPT !.gdelta = SymDiff(@, c.m.delta)], job, "drop", c.pred, 0,
                  TailTag(c.m.tail, c.m.split))
    [] c.r = "relocated" ->
         ParentCommit(MlistMoved(c, job.m.pair, c.m.pair),
                      [job EXCEPT !.old = job.m.pair, !.new = c.m.pair,
                                  !.orphans = @ \/ job.step = "parent"])
    [] c.r = "ok" ->
         IF job.step = "parent" THEN PredCommit(c, job, TRUE) ELSE Finished(c, job)

RECURSIVE CommitLoop(_, _)
CommitLoop(g, job) ==
  Then(lfs_dir_relocatingcommit(g, job.m, job.own, job.attrs), LAMBDA c :
  With(NextCommit(c, IF job.step = "first" /\ lfs_pair_cmp(job.m.pair, c.m.pair)
                     THEN [job EXCEPT !.kept = c.m] ELSE job), LAMBDA n :
    IF n.job.step = "done" THEN [n.g EXCEPT !.m = n.job.kept] ELSE CommitLoop(n.g, n.job)))
(* A commit that fails behind the one of a pair that is not linked yet leaves
   the library with a global state it takes for written. *)
Unwritten(g) == Atoms(g.gdisk) # SumOfDeltas(Pairs(g.disk))
lfs_dir_orphaningcommit(g, m, own, attrs) ==
  With(CommitLoop(g, [step |-> "first", m |-> m, own |-> own, attrs |-> attrs, old |-> Null,
                      new |-> Null, orphans |-> FALSE, kept |-> m]), LAMBDA c :
    Marked(c, Failed(c) /\ Unwritten(c), "state"))

-----------------------------------------------------------------------------
(* Consistency.  An orphan is a directory on the list that no entry names,
   left by a call that did not come to its end; a half-orphan is one whose
   pair moved in its parent's entry and not yet in the list. *)
InMlist(g, x, m) == [g EXCEPT !.mlist[x] = [on |-> TRUE, gone |-> FALSE, m |-> m, id |-> 1]]
OutOfMlist(g) == [g EXCEPT !.mlist[Temp] = NotOpen]

RECURSIVE DeorphanFrom(_, _, _, _, _)
(* The pairs of the list in turn, half-orphans in the first pass, orphans
   in the second: TailFor is what the tail of pdir is to become. *)
Start == [Corrupt(Null) EXCEPT !.split = TRUE, !.tail = First]
Relink(g, pdir, tail) ==
  With(IF tail.half THEN PendingMove(g, pdir.pair) ELSE 0, LAMBDA mid :
    lfs_dir_orphaningcommit([Unmoved(g, mid) EXCEPT !.gdelta = SymDiff(@, tail.delta)], pdir,
      "none", DeleteIf(mid # 0, mid) \o <<TailTag(tail.pair, tail.split)>>))
TailFor(g, pdir, dir, pass, powerloss) ==
  With(lfs_fs_parent(g, pdir.tail), LAMBDA parent :
  With(lfs_dir_get(g, parent.m, parent.id), LAMBDA entry :
    IF pdir.split THEN [r |-> "ok"]
    ELSE IF pass = 0
    THEN IF parent.id = 0 THEN [r |-> "ok"]
         ELSE IF entry = NoEnt THEN [r |-> "NOENT"]
         ELSE IF entry.t # "dir" \/ lfs_pair_issync(entry.pair, pdir.tail) THEN [r |-> "ok"]
         ELSE [r |-> "relink", half |-> TRUE, delta |-> {}, pair |-> entry.pair, split |-> FALSE]
    ELSE IF parent.id # 0 \/ ~powerloss THEN [r |-> "ok"]
         ELSE [r |-> "relink", half |-> FALSE, delta |-> dir.delta, pair |-> dir.tail,
               split |-> dir.split]))
DeorphanFrom(g, pdir, pass, more, powerloss) ==
  IF g.dead THEN g
  ELSE IF pdir.tail = Null
  THEN IF more \/ pass = 0
       THEN DeorphanFrom(g, Start, IF more THEN 0 ELSE 1, FALSE, powerloss)
       ELSE lfs_fs_preporphans(g, -g.gstate.orphans)
  ELSE
  With(lfs_dir_fetch(g.disk, pdir.tail), LAMBDA dir :
    IF ~dir.ok THEN [g EXCEPT !.r = "CORRUPT"]
    ELSE
    With(TailFor(g, pdir, dir, pass, powerloss), LAMBDA tail :
      IF tail.r = "NOENT" THEN [g EXCEPT !.r = "NOENT"]
      ELSE IF tail.r = "ok" THEN DeorphanFrom(g, dir, pass, more, powerloss)
      ELSE Then(Relink(g, pdir, tail), LAMBDA c :
             DeorphanFrom([c EXCEPT !.r = "ok"], c.m, pass, more \/ c.r = "orphaned", powerloss))))
lfs_fs_deorphan(g, powerloss) ==
  IF g.gstate.orphans = 0 THEN g ELSE DeorphanFrom(g, Start, 0, FALSE, powerloss)

lfs_dir_commit(g, m, own, attrs) ==
  Then(lfs_dir_orphaningcommit(g, m, own, attrs), LAMBDA c :
    IF c.r = "orphaned" THEN [lfs_fs_deorphan([c EXCEPT !.r = "ok"], FALSE) EXCEPT !.m = c.m]
    ELSE [c EXCEPT !.r = "ok"])

lfs_dir_drop(g, m, tail) ==
  lfs_dir_commit([g EXCEPT !.gdelta = SymDiff(@, tail.delta)], m, "none",
                 <<TailTag(tail.tail, tail.split)>>)

lfs_fs_demove(g) ==
  IF ~lfs_gstate_hasmove(g.gdisk) THEN g
  ELSE lfs_dir_commit(lfs_fs_prepmove(g, 0, Null), lfs_dir_fetch(g.disk, g.gdisk.move.pair),
                      "none", <<Delete(g.gdisk.move.id)>>)

\* The first call that changes the volume repairs it.  A commit of the first
\* half may look for orphans of its own, and then the second half looks for none.
lfs_fs_forceconsistency(g) ==
  Then(lfs_fs_demove(g), LAMBDA a :
    lfs_fs_deorphan(Marked(a, g.gstate.orphans > 0 /\ a.gstate.orphans = 0, "orphan"), TRUE))

-----------------------------------------------------------------------------
(* Paths.  Names are sorted within a directory. *)
RECURSIVE FindName(_, _, _)
FindName(g, pair, name) ==
  With(lfs_dir_fetch(g.disk, pair), LAMBDA m :
  With(Min({i \in DOMAIN m.ents : m.ents[i].name >= name} \cup {Len(m.ents) + 1}), LAMBDA best :
  With([m |-> m, st |-> NoEnt, r |-> "NOENT", last |-> TRUE,
        id |-> IF /\ lfs_gstate_hasmovehere(g.gdisk, m.pair)
                  /\ best <= Len(m.ents) /\ g.gdisk.move.id < best THEN best - 1 ELSE best],
       LAMBDA at :
    IF ~m.ok THEN [at EXCEPT !.r = "CORRUPT"]
    ELSE IF best <= Len(m.ents) /\ m.ents[best].name = name /\ Found(g, m, best) # 0
    THEN [at EXCEPT !.r = "ok", !.st = m.ents[best].st]
    ELSE IF best > Len(m.ents) /\ m.split THEN FindName(g, m.tail, name)
    ELSE at)))

\* last: the name that was not found is the last one of the path.
RECURSIVE FindFrom(_, _, _)
FindFrom(g, pair, p) ==
  With(FindName(g, pair, Head(p)), LAMBDA at :
    IF Len(p) = 1 THEN at
    ELSE IF ~Ok(at) THEN [at EXCEPT !.last = FALSE]
    ELSE IF at.st.t # "dir" THEN [at EXCEPT !.r = "NOTDIR"]
    ELSE With(lfs_dir_get(g, at.m, at.id), LAMBDA dir :
           IF dir = NoEnt THEN [at EXCEPT !.r = "NOENT", !.last = Len(p) = 2]
           ELSE FindFrom(g, dir.pair, Tail(p))))
lfs_dir_find(g, p) == FindFrom(g, g.root, p)

RECURSIVE LastPair(_, _)
LastPair(d, m) == IF m.split THEN LastPair(d, lfs_dir_fetch(d, m.tail)) ELSE m

-----------------------------------------------------------------------------
(* Directories and names. *)
\* The new pair goes on the list behind the last pair of the parent's chain.
LinkTail(g, at, pred, pair) ==
  With(lfs_dir_commit(InMlist(lfs_fs_preporphans(g, 1), Temp, at.m), pred, "none",
                      <<TailTag(pair, FALSE)>>), LAMBDA e :
    IF Failed(e) THEN OutOfMlist(e)
    ELSE Then(lfs_fs_preporphans(OutOfMlist(e), -1), LAMBDA h :
           [h EXCEPT !.m = e.mlist[Temp].m]))
lfs_mkdir_(g0, p) ==
  Then(lfs_fs_forceconsistency(g0), LAMBDA g :
  With(lfs_dir_find(g, p), LAMBDA at :
    IF ~(at.r = "NOENT" /\ at.last) THEN [g EXCEPT !.r = IF Ok(at) THEN "EXIST" ELSE at.r]
    ELSE
    Then(lfs_dir_alloc(lfs_alloc_ckpoint(g)), LAMBDA a :
    With(LastPair(a.disk, at.m), LAMBDA pred :
    Then(lfs_dir_commit(a, a.m, "none", <<TailTag(pred.tail, FALSE)>>), LAMBDA d :
    Then(IF at.m.split THEN LinkTail(d, at, pred, d.m.pair) ELSE [d EXCEPT !.m = at.m],
         LAMBDA e :
      lfs_dir_commit(e, e.m, "none",
        <<Create(at.id, Last(p), DirOf(d.m.pair))>>
        \o (IF e.m.split THEN <<>> ELSE <<TailTag(d.m.pair, FALSE)>>))))))))

(* A directory that is about to lose its entry is kept current in the list
   of mdirs, and then taken off the list of pairs. *)
Emptied(m) == m.ents = <<>> /\ ~m.split
DirAt(g, at) == lfs_dir_fetch(g.disk, at.st.pair)
KeepDir(g, dir) == InMlist(lfs_fs_preporphans(g, 1), Temp, dir)
\* Seeded fault: the directory stays on the list of pairs.
BugDropTemp(g) == lfs_fs_preporphans(OutOfMlist(g), -1)
DropTemp(g) ==
  Then(lfs_fs_preporphans(OutOfMlist(g), -1), LAMBDA h :
  With(lfs_fs_pred(h, g.mlist[Temp].m.pair), LAMBDA pred :
  With(IF pred.ok THEN lfs_dir_drop(h, pred, g.mlist[Temp].m) ELSE [h EXCEPT !.r = "NOENT"],
       LAMBDA c : Marked(c, Failed(c), "orphan"))))

lfs_remove_(g0, p) ==
  Then(lfs_fs_forceconsistency(g0), LAMBDA g :
  With(lfs_dir_find(g, p), LAMBDA at :
  With(DirAt(g, at), LAMBDA dir :
    IF ~Ok(at) THEN [g EXCEPT !.r = at.r]
    ELSE IF at.st.t = "dir" /\ ~Emptied(dir) THEN [g EXCEPT !.r = "NOTEMPTY"]
    ELSE
    With(lfs_dir_commit(IF at.st.t = "dir" THEN KeepDir(g, dir) ELSE g, at.m, "none",
                        <<Delete(at.id)>>), LAMBDA c :
      IF Failed(c) THEN OutOfMlist(c) ELSE IF at.st.t = "dir" THEN DropTemp(c) ELSE c))))

(* Across pairs the new entry is committed together with a note that the
   old one is to be deleted, and the deletion clears the note. *)
RenameError(old, new) ==
  CASE ~Ok(old) -> old.r
    [] Ok(old) /\ ~Ok(new) /\ ~(new.r = "NOENT" /\ new.last) -> new.r
    [] Ok(old) /\ Ok(new) /\ (new.st.t = "dir") # (old.st.t = "dir") ->
         IF new.st.t = "dir" THEN "ISDIR" ELSE "NOTDIR"
    [] OTHER -> "ok"
IsDir(new) == Ok(new) /\ new.st.t = "dir"
\* Seeded fault: a rename to another pair commits the new entry alone.
BugCommitNew(g, old, new, name) ==
  LET samepair == lfs_pair_cmp(old.m.pair, new.m.pair)
      newoldid == IF ~Ok(new) /\ samepair /\ new.id <= old.id THEN old.id + 1 ELSE old.id
  IN lfs_dir_commit(IF IsDir(new) THEN KeepDir(g, DirAt(g, new)) ELSE g, new.m, "none",
       DeleteIf(Ok(new), new.id)
       \o <<Create(new.id, name, lfs_dir_get(g, old.m, old.id))>>
       \o DeleteIf(samepair, newoldid))
CommitNew(g, old, new, name) ==
  LET samepair == lfs_pair_cmp(old.m.pair, new.m.pair)
      newoldid == IF ~Ok(new) /\ samepair /\ new.id <= old.id THEN old.id + 1 ELSE old.id
      kept == IF IsDir(new) THEN KeepDir(g, DirAt(g, new)) ELSE g
  IN lfs_dir_commit(
       IF samepair THEN kept ELSE lfs_fs_prepmove(kept, newoldid, old.m.pair), new.m, "none",
       DeleteIf(Ok(new), new.id)
       \o <<Create(new.id, name, lfs_dir_get(g, old.m, old.id))>>
       \o DeleteIf(samepair, newoldid))
CommitOld(g, old, new) ==
  IF ~lfs_pair_cmp(old.m.pair, new.m.pair) /\ lfs_gstate_hasmove(g.gstate)
  THEN lfs_dir_commit(lfs_fs_prepmove(g, 0, Null), old.m, "none", <<Delete(old.id)>>)
  ELSE g
lfs_rename_(g0, p, q) ==
  Then(lfs_fs_forceconsistency(g0), LAMBDA g :
  With(lfs_dir_find(g, p), LAMBDA old :
  With(lfs_dir_find(g, q), LAMBDA new :
    IF RenameError(old, new) # "ok" THEN [g EXCEPT !.r = RenameError(old, new)]
    ELSE IF Ok(new) /\ lfs_pair_cmp(old.m.pair, new.m.pair) /\ new.id = old.id THEN g
    ELSE IF IsDir(new) /\ ~Emptied(DirAt(g, new)) THEN [g EXCEPT !.r = "NOTEMPTY"]
    ELSE
    With(CommitNew(g, old, new, Last(q)), LAMBDA c :
    With(IF Failed(c) THEN c ELSE CommitOld(c, old, new), LAMBDA e :
      IF Failed(e) THEN OutOfMlist(e) ELSE IF IsDir(new) THEN DropTemp(e) ELSE e)))))

-----------------------------------------------------------------------------
(* Files.  size and head are what the last flush left, pos, block and off
   where the next byte goes while writing. *)
Member(g, h, x) == [g EXCEPT !.mlist[h] = x]
Err(g, h, r) == [g EXCEPT !.r = r, !.mlist[h].erred = TRUE]
NewFile(at, w, append) ==
  [on |-> TRUE, m |-> at.m, id |-> at.id, w |-> w, append |-> append, inline |-> TRUE,
   writing |-> FALSE, dirty |-> FALSE, erred |-> FALSE, gone |-> FALSE, pos |-> 0,
   off |-> 0, block |-> Inline, head |-> Inline, size |-> 0, buf |-> <<>>]

OpenNew(g, h, at, x, name, flags) ==
  IF ~(at.r = "NOENT" /\ at.last /\ "CREAT" \in flags) THEN [g EXCEPT !.r = at.r]
  ELSE With(lfs_dir_commit(Member(g, h, x), at.m, h, <<Create(at.id, name, InFile(<<>>))>>),
            LAMBDA c : IF Failed(c) THEN Member(c, h, NotOpen) ELSE c)
OpenOld(g, h, at, x, flags) ==
  With(lfs_dir_get(g, at.m, at.id), LAMBDA st :
    IF "EXCL" \in flags THEN [g EXCEPT !.r = "EXIST"]
    ELSE IF at.st.t = "dir" THEN [g EXCEPT !.r = "ISDIR"]
    ELSE IF "TRUNC" \in flags THEN Member(g, h, [x EXCEPT !.dirty = TRUE])
    ELSE IF st = NoEnt THEN [g EXCEPT !.r = "NOENT"]
    ELSE IF st.t = "ctz"
    THEN Member(g, h, [x EXCEPT !.inline = FALSE, !.head = st.head, !.size = st.size])
    ELSE Member(g, h, [x EXCEPT !.buf = st.data, !.size = Len(st.data)]))
lfs_file_opencfg_(g0, h, p, w, flags) ==
  Then(IF w THEN lfs_fs_forceconsistency(g0) ELSE g0, LAMBDA g :
  With(lfs_dir_find(g, p), LAMBDA at :
  With(NewFile(at, w, "APPEND" \in flags), LAMBDA x :
    IF Ok(at) THEN OpenOld(g, h, at, x, flags) ELSE OpenNew(g, h, at, x, Last(p), flags))))

\* A new block behind the first size bytes at head, or a copy of the last one.
NextBlock(g, head, at) ==
  LET n == at.i + 1
      last == g.disk[head]
  IN IF at.off + 1 = BlockBytes
     THEN [kind |-> "data", bytes |-> <<>>,
           ptrs |-> [k \in 1 .. lfs_ctz(n) + 1 |-> SkipTo(g.disk, head, at.i, n - 2 ^ (k - 1))]]
     ELSE [last EXCEPT !.bytes = SubSeq(@, 1, at.off + 1 - Len(last.ptrs))]
EmptyBlock == [kind |-> "data", ptrs |-> <<>>, bytes |-> <<>>]
lfs_ctz_extend(g, h, head, size) ==
  With(lfs_alloc(g), LAMBDA a :
    IF Failed(a) THEN Err(a, h, a.r)
    ELSE With(IF size = 0 THEN EmptyBlock ELSE NextBlock(g, head, lfs_ctz_index(size - 1)),
              LAMBDA new :
           [Put(a, a.block, new) EXCEPT
              !.mlist[h].block = a.block, !.mlist[h].writing = TRUE,
              !.mlist[h].off = Len(new.ptrs) + Len(new.bytes)]))

\* A file that is not inline any more gets a first block.
lfs_file_relocate(g, h) ==
  With(lfs_alloc(g), LAMBDA a :
    IF Failed(a) THEN Err(a, h, a.r)
    ELSE [Put(a, a.block, [EmptyBlock EXCEPT !.bytes = SubSeq(g.mlist[h].buf, 1, g.mlist[h].off)])
            EXCEPT !.mlist[h].block = a.block, !.mlist[h].writing = TRUE])
lfs_file_outline(g, h) ==
  Then(lfs_file_relocate([lfs_alloc_ckpoint(g) EXCEPT !.mlist[h].off = g.mlist[h].pos], h),
       LAMBDA a : [a EXCEPT !.mlist[h].inline = FALSE])

RECURSIVE lfs_file_flushedwrite(_, _, _)
lfs_file_flushedwrite(g, h, data) ==
  LET x == g.mlist[h]
      n == Len(data)
      overlaid == SubSeq(x.buf, 1, x.pos) \o data \o SubSeq(x.buf, x.pos + n + 1, Len(x.buf))
      from == IF ~x.writing /\ x.pos > 0
              THEN lfs_ctz_find(g.disk, x.head, x.size, x.pos - 1).block ELSE x.block
  IN IF data = <<>> \/ ~Ok(g) THEN g
     ELSE IF x.inline /\ Max2(x.pos + n, x.size) > InlineMax
     THEN lfs_file_flushedwrite(lfs_file_outline(g, h), h, data)
     ELSE IF x.inline
     THEN Member(g, h, [x EXCEPT !.buf = overlaid, !.pos = @ + n, !.writing = TRUE])
     ELSE IF ~x.writing \/ x.off = BlockBytes
     THEN lfs_file_flushedwrite(lfs_ctz_extend(lfs_alloc_ckpoint(g), h, from, x.pos), h, data)
     ELSE lfs_file_flushedwrite(
            lfs_alloc_ckpoint(
              Member(Put(g, x.block, [g.disk[x.block] EXCEPT !.bytes = Append(@, Head(data))]),
                     h, [x EXCEPT !.pos = @ + 1, !.off = @ + 1])),
            h, Tail(data))

\* What lies behind the written part of a file is copied, byte by byte.
RECURSIVE CopyRest(_, _)
CopyRest(g, h) ==
  With(g.mlist[h], LAMBDA x :
    IF ~Ok(g) \/ x.pos >= x.size THEN g
    ELSE CopyRest(lfs_file_flushedwrite(g, h, <<Bytes(g.disk, x.head, x.size)[x.pos + 1]>>), h))

lfs_file_flush(g, h) ==
  IF ~g.mlist[h].writing THEN g
  ELSE With(IF g.mlist[h].inline THEN [g EXCEPT !.mlist[h].pos = Max2(@, g.mlist[h].size)]
            ELSE CopyRest(g, h), LAMBDA c :
         IF ~Ok(c) THEN c
         ELSE [c EXCEPT !.mlist[h] =
                 [@ EXCEPT !.head = c.mlist[h].block, !.size = c.mlist[h].pos,
                           !.writing = FALSE, !.dirty = TRUE, !.pos = g.mlist[h].pos]])

StructOf(x) == IF x.inline THEN InFile(SubSeq(x.buf, 1, x.size)) ELSE CtzFile(x.head, x.size)
Holds(x, kinds) == x.id \in DOMAIN x.m.ents /\ x.m.ents[x.id].st.t \in kinds
CommitFile(g, h, x) ==
  With(Marked(Marked(g, x.gone, "entry"), x.gone /\ Holds(x, {"dir", "super"}), "kind"), LAMBDA a :
  With(lfs_dir_commit(a, x.m, h, <<Struct(x.id, StructOf(x))>>), LAMBDA c :
    IF ~Ok(c) THEN Err(c, h, c.r) ELSE [c EXCEPT !.mlist[h].dirty = FALSE]))
lfs_file_sync_(g0, h) ==
  IF g0.mlist[h].erred THEN g0
  ELSE With(lfs_file_flush(g0, h), LAMBDA g :
         IF ~Ok(g) THEN Err(g, h, g.r)
         ELSE IF ~g.mlist[h].dirty \/ g.mlist[h].m.pair = Null THEN g
         ELSE CommitFile(g, h, g.mlist[h]))

lfs_file_close_(g, h) == Member(lfs_file_sync_(g, h), h, NotOpen)

\* A read to the end of the file.
lfs_file_read_(g, h) ==
  With(lfs_file_flush(g, h), LAMBDA a :
    IF ~Ok(a) THEN a ELSE [a EXCEPT !.mlist[h].pos = Max2(@, a.mlist[h].size)])

lfs_file_write_(g, h, data) ==
  LET x == g.mlist[h]
      pos == IF x.append /\ x.pos < x.size THEN x.size ELSE x.pos
      hole == ~x.writing /\ pos > x.size
      zeros == IF hole THEN [i \in 1 .. pos - x.size |-> 0] ELSE <<>>
      z == FoldLeft(LAMBDA a, b : lfs_file_flushedwrite(a, h, <<b>>),
                   Member(g, h, [x EXCEPT !.pos = IF hole THEN x.size ELSE pos]), zeros)
  IN lfs_file_flushedwrite(z, h, data)

lfs_file_seek_(g, h, off) ==
  IF g.mlist[h].pos = off THEN g
  ELSE With(lfs_file_flush(g, h), LAMBDA a :
         IF ~Ok(a) THEN a ELSE [a EXCEPT !.mlist[h].pos = off])

-----------------------------------------------------------------------------
(* The volume. *)
Unmounted(d) ==
  [mounted |-> FALSE, disk |-> d, root |-> Null, gdisk |-> NoState, gstate |-> NoState,
   gdelta |-> {}, la |-> lfs_alloc_drop(0), mlist |-> [x \in Members |-> NotOpen],
   power |-> NoFailure, dead |-> FALSE, r |-> "ok", m |-> Corrupt(Null), id |-> 0,
   block |-> 0, pred |-> Corrupt(Null), lost |-> {}, owing |-> FALSE]

(* What a mount makes of the list of pairs: the last superblock is the root,
   the deltas add up to the global state. *)
RootOf(s) == s[Max({i \in DOMAIN s : s[i].ents # <<>> /\ s[i].ents[1].st = Super})].pair
lfs_mount_(g, seed) ==
  With(Pairs(g.disk), LAMBDA s :
    IF s = <<>> THEN [g EXCEPT !.r = "CORRUPT"]
    ELSE With(StateOf(s), LAMBDA gs :
           [g EXCEPT !.mounted = TRUE, !.root = RootOf(s), !.gstate = gs, !.gdisk = gs,
                     !.la = lfs_alloc_drop(seed)]))

lfs_format_(g) ==
  With(lfs_dir_alloc([g EXCEPT !.la = [lfs_alloc_drop(0) EXCEPT !.size = Min2(LookSize, NBlocks)]]),
       LAMBDA a :
  With(lfs_dir_commit(a, a.m, "none", <<Create(1, 0, Super)>>), LAMBDA c :
  With(lfs_dir_commit(c, [c.m EXCEPT !.erased = FALSE], "none", <<>>), LAMBDA e :
    Unmounted(e.disk))))

-----------------------------------------------------------------------------
(* The directories as they are on the disk: their entries but for one that
   is being moved away, each with its mdir and place. *)
AfterMount(g) == IF g.mounted THEN g ELSE lfs_mount_(g, 0)
RECURSIVE EntriesOf(_, _)
Standing(gs, m) ==
  {i \in DOMAIN m.ents : ~(lfs_gstate_hasmovehere(gs, m.pair) /\ gs.move.id = i)
                         /\ m.ents[i].st # Super}
EntriesOf(g, pair) ==
  With(lfs_dir_fetch(g.disk, pair), LAMBDA m :
    {[m |-> m, id |-> i, name |-> m.ents[i].name, st |-> m.ents[i].st] :
       i \in Standing(g.gdisk, m)}
    \cup (IF m.split THEN EntriesOf(g, m.tail) ELSE {}))

RECURSIVE PlaceOf(_, _, _)
Nowhere == [m |-> Corrupt(Null), id |-> 0, name |-> 0, st |-> NoEnt]
PlaceOf(g, pair, p) ==
  With({e \in EntriesOf(g, pair) : e.name = Head(p)}, LAMBDA E :
    IF E = {} THEN Nowhere
    ELSE With(CHOOSE x \in E : TRUE, LAMBDA e :
           IF Len(p) = 1 THEN e
           ELSE IF e.st.t = "dir" THEN PlaceOf(g, e.st.pair, Tail(p)) ELSE Nowhere))

(* What a reader finds: the tree, and of each open file its path and the
   version of it that a close would store.  A handle is lost if its copy of
   the directory pair is not what is on the disk. *)
OpenAt(g, x, p) ==
  With(PlaceOf(g, g.root, p), LAMBDA e :
    /\ lfs_pair_issync(e.m.pair, x.m.pair) /\ e.id = x.id
    /\ e.m.rev = x.m.rev /\ e.m.ents = x.m.ents /\ e.m.tail = x.m.tail)
View(d, x) ==
  IF x.inline THEN SubSeq(x.buf, 1, IF x.writing THEN Max2(x.pos, x.size) ELSE x.size)
  ELSE With(Bytes(d, x.head, x.size), LAMBDA old :
         IF x.writing THEN Bytes(d, x.block, x.pos) \o SubSeq(old, x.pos + 1, x.size) ELSE old)
ObjectOf(d, st) ==
  CASE st.t = "dir" -> [type |-> "dir"]
    [] st.t = "inline" -> [type |-> "file", data |-> st.data]
    [] st.t = "ctz" -> [type |-> "file", data |-> Bytes(d, st.head, st.size)]
    [] OTHER -> [type |-> "none"]
HandleOf(g, x) ==
  IF ~x.on THEN [state |-> "closed"]
  ELSE IF x.erred THEN [state |-> "broken"]
  ELSE IF x.gone THEN [state |-> "cut"]
  ELSE With({p \in Paths : OpenAt(g, x, p)}, LAMBDA P :
         IF P = {} THEN [state |-> "lost"]
         ELSE [state |-> "open", path |-> CHOOSE p \in P : TRUE, w |-> x.w,
               append |-> x.append, pos |-> x.pos, view |-> View(g.disk, x),
               dirty |-> x.dirty \/ x.writing])
SeenIn(x) ==
  With(AfterMount(x), LAMBDA g :
    [tree |-> [p \in Paths |->
       ObjectOf(g.disk, IF g.mounted THEN PlaceOf(g, g.root, p).st ELSE NoEnt)],
     handle |-> [h \in Handles |-> HandleOf(g, g.mlist[h])]])

-----------------------------------------------------------------------------
(* The calls of the adapter.  What no reader reaches any more is forgotten
   when a call is done. *)
Held(x) ==
  IF ~x.on \/ x.inline \/ x.erred THEN {}
  ELSE {<<x.head, x.size>>} \cup (IF x.writing THEN {<<x.block, x.pos>>} ELSE {})
Reached(g) ==
  With(Mdirs(g.disk, {First}), LAMBDA mdirs :
    {m.pair[1] : m \in mdirs}
    \cup ListBlocks(g.disk, UNION {CtzLists(EntsOf(m)) : m \in mdirs}
                           \cup UNION {Held(g.mlist[h]) : h \in Handles}))
Done(g) ==
  With(Reached(g), LAMBDA kept :
    [g EXCEPT !.disk = [b \in Blocks |-> IF b \in kept THEN @[b] ELSE Blank],
              !.power = NoFailure, !.dead = FALSE, !.r = "ok", !.m = Corrupt(Null),
              !.id = 0, !.block = 0, !.pred = Corrupt(Null), !.owing = FALSE])

(* The call runs to its end, or the power fails in one of its commits. *)
Outcomes(op(_)) ==
  With([k \in 0 .. NoFailure |-> op([f EXCEPT !.power = k])], LAMBDA run :
    {[cut |-> 0, f |-> run[NoFailure]]}
    \cup {[cut |-> 1, f |-> [Unmounted(run[k].disk) EXCEPT !.lost = run[k].lost]] :
            k \in IF failures < MaxFailures
                  THEN 0 .. NoFailure - run[NoFailure].power - 1 ELSE {}})

(* A call that ends with the global state owing to the disk leaves it so.  A
   rename that failed leaves the note of its move in the library's copy of
   the global state, and a commit of a later call writes it. *)
DiskMove(d) == StateOf(Pairs(d)).move
StaleMove(g) == f.gstate.move # f.gdisk.move /\ DiskMove(g.disk) # DiskMove(f.disk)
Ended(g) == Marked(Marked(Done(g), g.owing, "state"), StaleMove(g), "move")
Call(outcomes) ==
  \E o \in outcomes :
     /\ f' = With(o.f, LAMBDA g : Ended(g))
     /\ failures' = failures + o.cut
     /\ calls' = calls + 1
     /\ seen' = With(f', LAMBDA g : SeenIn(g))

Usable(h) == f.mlist[h].on /\ ~f.mlist[h].erred /\ ~f.mlist[h].gone
Place(p) == With(f, LAMBDA g : LET e == PlaceOf(g, g.root, p) IN <<e.m.pair, e.id>>)
Shared(h, p, w) ==
  \E k \in Handles \ {h} : /\ f.mlist[k].on /\ (w \/ f.mlist[k].w)
                           /\ Place(p) = <<f.mlist[k].m.pair, f.mlist[k].id>>

_format == ~f.mounted /\ Call(Outcomes(LAMBDA g : lfs_format_(g)))
_mount(seed) == ~f.mounted /\ Call(Outcomes(LAMBDA g : lfs_mount_(g, seed)))
_umount == /\ f.mounted /\ \A h \in Handles : ~f.mlist[h].on
           /\ Call(Outcomes(LAMBDA g : [Unmounted(g.disk) EXCEPT !.lost = g.lost]))
_open(h, p, w, flags) ==
  /\ f.mounted /\ ~f.mlist[h].on /\ ~Shared(h, p, w) /\ ("CREAT" \in flags => w)
  /\ Call(Outcomes(LAMBDA g : lfs_file_opencfg_(g, h, p, w, flags)))
_close(h) == f.mlist[h].on /\ Call(Outcomes(LAMBDA g : lfs_file_close_(g, h)))
_read(h) == Usable(h) /\ Call(Outcomes(LAMBDA g : lfs_file_read_(g, h)))
_write(h, data) ==
  Usable(h) /\ f.mlist[h].w /\ Call(Outcomes(LAMBDA g : lfs_file_write_(g, h, data)))
_lseek(h, off) == Usable(h) /\ Call(Outcomes(LAMBDA g : lfs_file_seek_(g, h, off)))
_fsync(h) == f.mlist[h].on /\ Call(Outcomes(LAMBDA g : lfs_file_sync_(g, h)))
_unlink(p) == f.mounted /\ Call(Outcomes(LAMBDA g : lfs_remove_(g, p)))
_mkdir(p) == f.mounted /\ Call(Outcomes(LAMBDA g : lfs_mkdir_(g, p)))
_rename(p, q) ==
  LET within(x) == Len(x) > Len(p) /\ SubSeq(x, 1, Len(p)) = p
  IN /\ f.mounted /\ p # q /\ ~within(q)
     /\ \A x \in Paths : within(x) /\ Place(x)[2] # 0
                          => q \o SubSeq(x, Len(p) + 1, Len(x)) \in Paths
     /\ Call(Outcomes(LAMBDA g : lfs_rename_(g, p, q)))

Init == /\ f = Unmounted([b \in Blocks |-> Blank]) /\ calls = 0 /\ failures = 0
        /\ seen = With(f, LAMBDA g : SeenIn(g))

Next ==
  /\ calls < MaxCalls /\ Without({"count", "kind"})
  /\ \/ _format \/ _umount \/ \E seed \in Seeds : _mount(seed)
     \/ \E h \in Handles :
          \/ _close(h) \/ _read(h) \/ _fsync(h)
          \/ \E p \in Paths, w \in BOOLEAN, flags \in OpenFlags : _open(h, p, w, flags)
          \/ \E data \in Data : _write(h, data)
          \/ \E off \in Offsets : _lseek(h, off)
     \/ \E p \in Paths : _unlink(p) \/ _mkdir(p) \/ \E q \in Paths : _rename(p, q)

Spec == Init /\ [][Next]_vars

-----------------------------------------------------------------------------
Promise == INSTANCE CommitFs WITH tree <- seen.tree, handle <- seen.handle

\* Every call, also one in which the power fails, is done as a whole or not
\* at all, and a file changes only when a handle on it is synced or closed, to
\* the version of that handle (lfs.c:3430, and the commits it rests on): up to
\* the first call in which the library lost track of more than an orphan.
IsCommitFs == Promise!Init /\ [][f'.lost \subseteq {"orphan"} => Promise!Next]_seen

(* The entries of a set of pairs, and the pairs of the tree below ps. *)
EntriesAt(mdirs, g, kind) ==
  UNION {{[m |-> m, id |-> i, st |-> m.ents[i].st] :
            i \in {i \in Standing(g.gdisk, m) : m.ents[i].st.t = kind}} : m \in mdirs}
RECURSIVE TreeMdirs(_, _)
TreeMdirs(g, ps) ==
  With({lfs_dir_fetch(g.disk, p) : p \in ps}, LAMBDA mdirs :
  With(ps \cup {m.tail : m \in {m \in mdirs : m.split}}
          \cup {e.st.pair : e \in EntriesAt(mdirs, g, "dir")}, LAMBDA more :
    IF more = ps THEN mdirs ELSE TreeMdirs(g, more)))

\* The list of pairs ends and its names are sorted and unique.  Unless a
\* global state was lost, it holds the first pair of every directory of the
\* tree, and the library's copy of the global state is what the disk adds up
\* to; unless the note of a failed rename was written, too, at most one move
\* is noted on disk, of an entry that exists.  A first pair on the list that
\* no entry names is an orphan the disk says to look for (lfs_fs_deorphan),
\* unless one of the four ways to forget about it was taken.
TreeSound ==
  LET g == AfterMount(f)
      s == Pairs(f.disk)
      sum == SumOfDeltas(s)
      moves == sum \ {OrphanFlag}
      dirs == EntriesAt(ToSet(s), g, "dir")
      heads == {k \in DOMAIN s : k > 1 /\ ~s[k - 1].split}
  IN g.mounted =>
     /\ Last(s).tail = Null
     /\ \A m \in ToSet(s) : \A i \in 2 .. Len(m.ents) : m.ents[i - 1].name < m.ents[i].name
     /\ Without({"state"}) =>
          \A e \in dirs : \E k \in heads : lfs_pair_cmp(s[k].pair, e.st.pair)
     /\ Without({"state"}) /\ g.gstate.move = g.gdisk.move =>
          g.gdisk.move = StateOf(s).move /\ g.gdelta = {}
     /\ Without({"state", "move"}) =>
          /\ Cardinality(moves) <= 1
          /\ \A mv \in moves : mv.id \in DOMAIN lfs_dir_fetch(f.disk, mv.pair).ents
     /\ Without({"state", "move", "entry", "orphan"}) =>
          \/ OrphanFlag \in sum
          \/ \A k \in heads : \/ lfs_pair_cmp(s[k].pair, g.root)
                            \/ \E e \in dirs : lfs_pair_issync(e.st.pair, s[k].pair)

\* A block has one use: it belongs to one pair, or to the new version of one
\* open file, and what the allocator takes for free is neither (lfs.c:613).
\* Unless a scan was blind, the blocks of a committed file are no pair's and
\* not free; unless a global state was lost, too, they are that file's alone,
\* but for an open file that shares blocks with its own committed version.
NewBlocks(x) == IF x.on /\ ~x.erred THEN ListBlocks(f.disk, Uncommitted(x)) ELSE {}
BlocksDisjoint ==
  LET g == AfterMount(f)
      s == Pairs(f.disk)
      pairs == {{m.pair[1], m.pair[2]} : m \in ToSet(s)}
      files == EntriesAt(TreeMdirs(g, {g.root}), g, "ctz")
      blocks(e) == lfs_ctz_traverse(f.disk, e.st.head, e.st.size)
      infiles == UNION {blocks(e) : e \in files}
      new == UNION {NewBlocks(f.mlist[h]) : h \in Handles}
      own(x, e) == lfs_pair_issync(x.m.pair, e.m.pair) /\ x.id = e.id
      free == {(f.la.start + o) % NBlocks : o \in (f.la.next .. f.la.size - 1) \ f.la.used}
  IN g.mounted =>
     /\ \A p, q \in pairs : p # q => p \cap q = {}
     /\ UNION pairs \cap new = {}
     /\ free \cap (UNION pairs \cup new) = {}
     /\ \A h, k \in Handles : h # k => NewBlocks(f.mlist[h]) \cap NewBlocks(f.mlist[k]) = {}
     /\ Without({"blind"}) =>
          /\ infiles \cap (UNION pairs \cup free) = {}
     /\ Without({"blind", "state"}) =>
          /\ \A a, b \in files : a # b => blocks(a) \cap blocks(b) = {}
          /\ \A h \in Handles, e \in files :
               LET x == f.mlist[h]
               IN NewBlocks(x) \cap blocks(e) = {} \/ x.gone \/ own(x, e)
=============================================================================
