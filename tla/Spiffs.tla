------------------------------- MODULE Spiffs -------------------------------
(***************************************************************************)
(* The SPIFFS library (spiffs_nucleus.c, spiffs_hydrogen.c, spiffs_gc.c,   *)
(* spiffs_cache.c) as the adapter spiffs_vfs.c uses it.  spiffs_lock       *)
(* serialises the calls of a volume, so one action is one call.            *)
(*                                                                         *)
(* The medium is blocks of pages.  A page is free, deleted, a page of data *)
(* of an object, or a page of its index; the index page of span 0 is the   *)
(* object's header with its name and size.  Nothing is updated in place    *)
(* once it is written: a changed page goes to the next free one and the    *)
(* old one is deleted, and a block is erased after the garbage collector   *)
(* has moved away what lives in it.  The lookup page at the start of every *)
(* block is the field lu of its pages.  A small write stays in a cache     *)
(* page of the object until it is flushed.                                 *)
(*                                                                         *)
(* Left out: the read cache, which is written through; contents of deleted *)
(* pages, which every reader refuses first; the order in which searches    *)
(* meet pages, since at most one page answers each search; what the code   *)
(* does with pages half written at a power loss, which a RAM disk does not *)
(* survive; truncation to a size other than zero, which nothing calls.     *)
(***************************************************************************)
EXTENDS Integers, Sequences, FiniteSets, SequencesExt, FiniteSetsExt

CONSTANTS
  Names,       \* the file names in use
  Handles,     \* VFS files
  Data,        \* the sequences of bytes written, none of them 0
  NBlocks,     \* blocks of the medium
  NEntries,    \* pages of a block, without its lookup page
  DataSize,    \* SPIFFS_DATA_PAGE_SIZE, bytes of a page of data
  PageSize,    \* log_page_size, bytes of a page and of a cache page
  HdrLen,      \* SPIFFS_OBJ_HDR_IX_LEN, index entries of a header
  IxLen,       \* SPIFFS_OBJ_IX_LEN, index entries of an index page
  NFd,         \* file descriptors of the library
  OpenFlags,   \* the sets of open flags in use
  Lengths,     \* how much a call reads
  Offsets,     \* where a call seeks
  MaxSize,     \* bound: bytes of a file
  MaxCalls     \* bound: calls of a behaviour

ASSUME SizesAssumption ==
  /\ NBlocks \in Nat /\ NBlocks > 2 /\ NEntries \in Nat \ {0} /\ NFd \in Nat \ {0}
  /\ DataSize \in Nat \ {0} /\ PageSize >= DataSize /\ HdrLen > 0 /\ IxLen > 0

VARIABLES
  f,           \* the volume: medium, counters, descriptors, write cache, and
               \* (for the properties) whether it ever ran out of pages in a call
  fil,         \* handle -> the library's file number, 0 without one
  call         \* what the last call did, for the properties

vars == <<f, fil, call>>

Blocks == 0 .. NBlocks - 1
Pages == 0 .. NBlocks * NEntries - 1
Fds == 1 .. NFd
PageAt(b, e) == b * NEntries + e
BlockOf(p) == p \div NEntries
EntryOf(p) == p % NEntries
PagesOf(b) == {PageAt(b, e) : e \in 0 .. NEntries - 1}
Entries == [i \in 1 .. NEntries |-> i - 1]
Least(a, b) == IF a < b THEN a ELSE b
Most(a, b) == IF a < b THEN b ELSE a

(***************************************************************************)
(* Pages                                                                   *)
(***************************************************************************)
Undefined == -1                     \* SPIFFS_UNDEFINED_LEN
NoPage == -1                        \* an index entry of 0xffff
Lost == -2                          \* an index entry nobody initialized
Free == [lu |-> "free"]
Deleted == [lu |-> "deleted"]
DataPage(id, span, data) == [lu |-> "data", id |-> id, span |-> span, data |-> data]
IndexPage(id, span) ==
  [lu |-> "index", id |-> id, span |-> span, refs |-> [i \in 0 .. IxLen - 1 |-> NoPage]]
Header(id, name) ==
  [lu |-> "index", id |-> id, span |-> 0, refs |-> [i \in 0 .. HdrLen - 1 |-> NoPage],
   name |-> name, size |-> Undefined, dele |-> FALSE]

IsData(p) == p.lu = "data"
IsIndex(p) == p.lu = "index"
IsHeader(p) == IsIndex(p) /\ p.span = 0
IsLive(p) == IsData(p) \/ IsIndex(p)
IsDeleted(p) == p = Deleted

(* The index page and the entry in it that stand for the page of data with
   the given span. *)
IndexOf(span) == IF span < HdrLen THEN 0 ELSE 1 + (span - HdrLen) \div IxLen
EntryFor(span) == IF span < HdrLen THEN span ELSE (span - HdrLen) % IxLen

NoFd == [id |-> 0]
NoCache == [id |-> 0]
IsOpenFd(x, n) == n \in Fds /\ x.fds[n] # NoFd

(* F of the result of a step. *)
With(r, F(_)) == F(r)

(* A call goes on from a step that succeeded, and ends where one failed. *)
Then(r, Step(_)) == IF r.res = "OK" THEN Step(r) ELSE [x |-> r.x, res |-> r.res]

(* new written over old from byte off on. *)
Put(old, off, new) ==
  LET At(i) == IF i > off /\ i <= off + Len(new) THEN new[i - off]
               ELSE IF i <= Len(old) THEN old[i] ELSE 0
  IN [i \in 1 .. Most(Len(old), off + Len(new)) |-> At(i)]

Bytes(data, from, to) ==
  [i \in 1 .. to - from |-> IF from + i <= Len(data) THEN data[from + i] ELSE 0]

(***************************************************************************)
(* What a change of an index page does to the descriptors of the object    *)
(* (spiffs_cb_object_event): they follow the page, take the new size of a  *)
(* header, and are closed when the header goes.                            *)
(***************************************************************************)
CacheOf(x, id) == x.cache.id = id /\ id # 0

(* Seeded fault: descriptors do not follow what the collector moves. *)
Bugobject_event(x, ev, id, span, pix, size) ==
  LET After(d) == IF ev = "MOV" THEN d ELSE IF span = 0 /\ ev = "DEL" THEN NoFd
                  ELSE [d EXCEPT !.hdr = IF span = 0 THEN pix ELSE @,
                                 !.size = IF span = 0 /\ size # 0 THEN size ELSE @,
                                 !.cpix = IF d.cspan = span THEN pix ELSE @]
  IN [x EXCEPT !.fds = [n \in {m \in Fds : x.fds[m].id = id} |-> After(x.fds[n])] @@ @]

object_event(x, ev, id, span, pix, size) ==
  LET act == IF size = Undefined THEN 0 ELSE size
      drop == /\ CacheOf(x, id) /\ span = 0 /\ \E n \in Fds : x.fds[n].id = id
              /\ ev = "DEL" \/ (size # 0 /\ x.cache.off > act + 1)
      Headed(d) ==
        IF size = 0 THEN [d EXCEPT !.hdr = pix]
        ELSE [d EXCEPT !.hdr = pix, !.size = size, !.pos = Least(@, act)]
      Cursor(d) ==
        IF d.cspan # span THEN d
        ELSE [d EXCEPT !.cpix = IF ev = "DEL" THEN NoPage ELSE pix]
      After(d) ==
        IF span = 0 /\ ev = "DEL" THEN NoFd
        ELSE IF span = 0 THEN Cursor(Headed(d)) ELSE Cursor(d)
  IN [x EXCEPT !.fds = [n \in {m \in Fds : x.fds[m].id = id} |-> After(x.fds[n])] @@ @,
               !.cache = IF drop THEN NoCache ELSE @]

(***************************************************************************)
(* Blocks and pages                                                        *)
(***************************************************************************)
(* age is max_erase_count less the erase count kept in the block. *)
erase_block(x, b) ==
  [x EXCEPT !.pages = [p \in PagesOf(b) |-> Free] @@ @,
            !.age = (b :> 1) @@ [c \in Blocks |-> @[c] + 1],
            !.freeBlocks = @ + 1]

CountIn(x, pages, S(_)) == Cardinality({p \in pages : S(x.pages[p])})

(* Erases the first block that holds deleted pages only. *)
gc_quick(x) ==
  LET dead == {b \in Blocks : CountIn(x, PagesOf(b), IsDeleted) = NEntries}
  IN IF dead = {} THEN x ELSE erase_block([x EXCEPT !.dele = @ - NEntries], Min(dead))

(* The next free page from the cursor on, around the volume.  Outside of
   the collector the last free block is never started. *)
FreeFrom(x, start) ==
  LET free == {p \in Pages : x.pages[p] = Free}
      behind == {p \in free : p >= start}
  IN IF behind # {} THEN behind ELSE free

TakeFree(x, free) ==
  IF ~x.cleaning /\ x.freeBlocks < 2 THEN [x |-> x, res |-> "FULL"]
  ELSE IF free = {} THEN [x |-> x, res |-> "NOT_FOUND"]
  ELSE [x |-> [x EXCEPT !.freeB = BlockOf(Min(free)), !.freeE = EntryOf(Min(free)) + 1,
                        !.freeBlocks = IF EntryOf(Min(free)) = 0 THEN @ - 1 ELSE @],
        res |-> "OK", pix |-> Min(free)]

find_free(x) ==
  With(IF ~x.cleaning /\ x.freeBlocks < 2 THEN gc_quick(x) ELSE x,
       LAMBDA y : TakeFree(y, FreeFrom(y, PageAt(y.freeB, y.freeE))))

page_allocate(x, page) ==
  With(find_free(x), LAMBDA r :
         IF r.res # "OK" THEN [r EXCEPT !.x.short = TRUE]
         ELSE [r EXCEPT !.x.pages[r.pix] = page, !.x.alloc = @ + 1])

page_delete(x, p) == [x EXCEPT !.pages[p] = Deleted, !.dele = @ + 1, !.alloc = @ - 1]

page_move(x, page, src) ==
  Then(page_allocate(x, page), LAMBDA r : [r EXCEPT !.x = page_delete(@, src)])

(* The header page hdr is replaced by page. *)
update_index_hdr(x, page, hdr) ==
  IF ~IsHeader(page) THEN [x |-> x, res |-> "NOT_INDEX"]
  ELSE Then(page_move(x, page, hdr),
            LAMBDA r : [r EXCEPT !.x = object_event(@, "UPD", page.id, 0, r.pix, page.size)])

(* spiffs_page_data_check and spiffs_page_index_check, with the validations
   they make of the page header. *)
page_data_check(x, pix, id, span) ==
  IF pix = NoPage THEN "INDEX_REF_FREE"
  ELSE IF pix \notin Pages THEN "INDEX_REF_INVALID"
  ELSE LET p == x.pages[pix]
       IN IF p = Free THEN "IS_FREE" ELSE IF p = Deleted THEN "DELETED"
          ELSE IF IsIndex(p) THEN "IS_INDEX"
          ELSE IF p.span # span THEN "DATA_SPAN_MISMATCH" ELSE "OK"

page_index_check(x, pix, span) ==
  IF pix \notin Pages THEN "INDEX_FREE"
  ELSE LET p == x.pages[pix]
       IN IF p = Free THEN "IS_FREE" ELSE IF p = Deleted THEN "DELETED"
          ELSE IF IsData(p) THEN "NOT_INDEX"
          ELSE IF p.span # span THEN "INDEX_SPAN_MISMATCH" ELSE "OK"

(* Index pages of an object by span; a header marked for removal is not
   found. *)
IndexPages(x, id, span) ==
  {p \in Pages : /\ IsIndex(x.pages[p]) /\ x.pages[p].id = id /\ x.pages[p].span = span
                 /\ span = 0 => ~x.pages[p].dele}
HeadersNamed(x, name) ==
  {p \in Pages : IsHeader(x.pages[p]) /\ ~x.pages[p].dele /\ x.pages[p].name = name}

find_id_and_span(x, id, span) ==
  LET found == IndexPages(x, id, span)
  IN IF found = {} THEN [res |-> "NOT_FOUND"] ELSE [res |-> "OK", pix |-> Min(found)]

find_header_by_name(x, name) ==
  LET found == HeadersNamed(x, name)
  IN IF found = {} THEN [res |-> "NOT_FOUND"] ELSE [res |-> "OK", pix |-> Min(found)]

find_free_obj_id(x) ==
  Min(1 .. NBlocks * NEntries + 1 \ {x.pages[p].id : p \in {q \in Pages : IsLive(x.pages[q])}})

(***************************************************************************)
(* Garbage collection (spiffs_gc.c)                                        *)
(***************************************************************************)
(* Seeded fault: the index page is not told where its data went. *)
BugMoveObjData(x, b, id, ospan) ==
  LET Step(y, e) ==
        LET p == PageAt(b, e)  page == y.pages[p]
        IN IF IsData(page) /\ page.id = id THEN page_move(y, page, p).x ELSE y
  IN [x |-> FoldLeft(Step, x, Entries), res |-> "OK"]

(* Moves out of block b the pages of data that the index page ospan of the
   object names, and then that index page. *)
MoveData(a, p, page) ==
  With(page_move(a.x, page, p), LAMBDA r :
         IF r.res # "OK" THEN [a EXCEPT !.x = r.x, !.res = r.res]
         ELSE [a EXCEPT !.x = r.x, !.work.refs[EntryFor(page.span)] = r.pix])

IsDataOf(page, id, ospan) == IsData(page) /\ page.id = id /\ IndexOf(page.span) = ospan

MoveObjData(x, b, id, ospan) ==
  LET hdr == find_id_and_span(x, id, ospan).pix
      moved == FoldLeft(LAMBDA a, e :
                          LET p == PageAt(b, e)
                          IN IF a.res # "OK" \/ ~IsDataOf(a.x.pages[p], id, ospan) THEN a
                             ELSE MoveData(a, p, a.x.pages[p]),
                        [x |-> x, work |-> x.pages[hdr], res |-> "OK"], Entries)
  IN Then(moved, LAMBDA a :
            IF ospan = 0 THEN update_index_hdr(a.x, a.work, hdr)
            ELSE Then(page_move(a.x, a.work, hdr),
                      LAMBDA r : [r EXCEPT !.x = object_event(@, "UPD", id, ospan, r.pix, 0)]))

(* Data first, since moving it changes index pages, then the index pages
   that are left. *)
CleanData(x, b, p, page) ==
  IF find_id_and_span(x, page.id, IndexOf(page.span)).res # "OK"
  THEN [x |-> page_delete(x, p), res |-> "OK"]
  ELSE MoveObjData(x, b, page.id, IndexOf(page.span))

CleanIndex(x, p, page) ==
  Then(page_move(x, page, p),
       LAMBDA r : [x |-> object_event(r.x, "MOV", page.id, page.span, r.pix, 0), res |-> "OK"])

gc_clean(x, b) ==
  LET start == IF x.freeB # b THEN x ELSE [x EXCEPT !.freeB = (b + 1) % NBlocks, !.freeE = 0]
      data == FoldLeft(LAMBDA a, e :
                         LET p == PageAt(b, e)
                         IN IF a.res # "OK" \/ ~IsData(a.x.pages[p]) THEN a
                            ELSE CleanData(a.x, b, p, a.x.pages[p]),
                       [x |-> [start EXCEPT !.cleaning = TRUE], res |-> "OK"], Entries)
      index == FoldLeft(LAMBDA a, e :
                          LET p == PageAt(b, e)
                          IN IF a.res # "OK" \/ ~IsIndex(a.x.pages[p]) THEN a
                             ELSE CleanIndex(a.x, p, a.x.pages[p]),
                        data, Entries)
  IN With(index, LAMBDA a : [x |-> [a.x EXCEPT !.cleaning = FALSE], res |-> a.res])

(* The block to clean: many deleted pages, few live ones, not erased for
   long.  Pages behind the first free one of a block do not count. *)
Candidate(x, crammed) ==
  LET Seen(b) == {p \in PagesOf(b) : p < Min({q \in PagesOf(b) : x.pages[q] = Free} \cup {PageAt(b + 1, 0)})}
      Weight(p) == IF IsDeleted(p) THEN 5 ELSE -1
      Score(b) == MapThenSumSet(LAMBDA p : Weight(x.pages[p]), Seen(b))
                  + (IF crammed THEN 0 ELSE 50 * x.age[b])
      scores == {<<Score(b), b>> : b \in Blocks}
      best == CHOOSE s \in scores : \A t \in scores : t[1] < s[1] \/ (t[1] = s[1] /\ t[2] >= s[2])
  IN best[2]

(* Seeded fault: the deleted pages of an erased block stay counted. *)
Bugerase_page_stats(x, b) == [x EXCEPT !.alloc = @ - CountIn(x, PagesOf(b), IsLive)]

erase_page_stats(x, b) ==
  [x EXCEPT !.alloc = @ - CountIn(x, PagesOf(b), IsLive),
            !.dele = @ - CountIn(x, PagesOf(b), IsDeleted)]

FreePages(x) == NEntries * (NBlocks - 2) - x.alloc - x.dele

RECURSIVE GcRuns(_, _, _)
GcRuns(x, len, tries) ==
  LET Again(y, was, now) ==
        IF /\ ~(was <= 0 /\ was = now) /\ tries + 1 < 5
           /\ y.freeBlocks <= 2 \/ len > now * DataSize
        THEN GcRuns(y, len, tries + 1)
        ELSE [x |-> y, res |-> IF len > now * DataSize THEN "FULL" ELSE "OK"]
      b == Candidate(x, FreePages(x) <= 0)
  IN Then(gc_clean(x, b), LAMBDA c :
            With(erase_block(erase_page_stats(c.x, b), b),
                 LAMBDA y : Again(y, FreePages(x), FreePages(y))))

gc_check(x, len) ==
  IF x.freeBlocks > 3 /\ len < FreePages(x) * DataSize THEN [x |-> x, res |-> "OK"]
  ELSE IF (len + DataSize - 1) \div DataSize > FreePages(x) + x.dele
  THEN [x |-> x, res |-> "FULL"]
  ELSE GcRuns(x, len, 0)

(***************************************************************************)
(* Objects                                                                 *)
(***************************************************************************)
object_create(x, id, name) ==
  Then(gc_check(x, DataSize), LAMBDA g :
         Then(page_allocate(g.x, Header(id, name)),
              LAMBDA r : [r EXCEPT !.x = object_event(@, "NEW", id, 0, r.pix, Undefined)]))

open_by_page(x, n, pix, flags) ==
  [x EXCEPT !.fds[n] =
     [id |-> x.pages[pix].id, hdr |-> pix, size |-> x.pages[pix].size, pos |-> 0,
      r |-> "R" \in flags, w |-> "W" \in flags, a |-> "APPEND" \in flags,
      cspan |-> 0, cpix |-> pix]]

fd_find_new(x) == {n \in Fds : x.fds[n] = NoFd}
fd_return(x, n) == [x EXCEPT !.fds[n] = NoFd]

(* The index page ospan of the object of descriptor n, through the cursor
   the descriptor keeps. *)
FindIndex(x, n, ospan) ==
  LET d == x.fds[n]
  IN IF d.cspan = ospan THEN [res |-> "OK", pix |-> d.cpix]
     ELSE find_id_and_span(x, d.id, ospan)

SetCursor(x, n, ospan, pix) == [x EXCEPT !.fds[n].cspan = ospan, !.fds[n].cpix = pix]
SetSize(x, n, size) == [x EXCEPT !.fds[n].size = size]
WithSize(page, size) == IF IsHeader(page) THEN [page EXCEPT !.size = size] ELSE page

(* The loops over the pages of a write keep in a: x the volume, work the
   index page in hand, span its number (-1 before the first), pix its page,
   done the bytes written, res the result. *)
Begin(x, n) == [x |-> x, work |-> Free, span |-> -1, pix |-> x.fds[n].hdr, done |-> 0, res |-> "OK"]
Fail(a, x, res) == [a EXCEPT !.x = x, !.res = res]
Go(a, r, Step(_)) == IF r.res = "OK" THEN Step(r) ELSE Fail(a, r.x, r.res)

(* Append: put away the index page in hand, in place where that is its
   first writing, and the size in the header. *)
AppendStore(a, n, off) ==
  LET d == a.x.fds[n]
      to == off + a.done
      Sized(x, page) == Go(a, update_index_hdr(x, WithSize(page, to), d.hdr),
                           LAMBDA r : [a EXCEPT !.x = SetSize(r.x, n, to)])
      Told(x) == Sized(x, x.pages[d.hdr])
  IN IF a.done = 0 THEN a
     ELSE IF a.span # 0
     THEN Told(object_event([a.x EXCEPT !.pages[a.pix] = a.work], "UPD", d.id, a.span, a.pix, 0))
     ELSE IF off # 0 THEN Sized(a.x, a.work)
     ELSE [a EXCEPT !.x = SetSize([a.x EXCEPT !.pages[a.pix] = WithSize(a.work, to)], n, to)]

(* Append: take the index page ospan in hand, a new one behind the last. *)
AppendLoad(a, n, off, ospan) ==
  LET d == a.x.fds[n]
      Checked(x, pix, chk) ==
        IF chk # "OK" THEN Fail(a, x, chk)
        ELSE IF ospan = 0 THEN [a EXCEPT !.work = x.pages[pix], !.span = 0]
        ELSE [a EXCEPT !.x = SetSize(SetCursor(x, n, ospan, pix), n, off + a.done),
                       !.work = x.pages[pix], !.span = ospan, !.pix = pix]
      Take(x, pix) == Checked(x, pix, page_index_check(x, pix, ospan))
  IN IF ospan = 0 THEN Take(a.x, a.pix)
     ELSE IF a.done > 0 \/ ospan > IndexOf((d.size - 1) \div DataSize)
     THEN Go(a, page_allocate(a.x, IndexPage(d.id, ospan)),
             LAMBDA r : Take(object_event(r.x, "NEW", d.id, ospan, r.pix, 0), r.pix))
     ELSE Go(a, FindIndex(a.x, n, ospan) @@ [x |-> a.x], LAMBDA i : Take(a.x, i.pix))

(* Append: one page of data, the rest of the last page first. *)
AppendData(a, n, off, data) ==
  LET at == off + a.done
      span == at \div DataSize
      offs == at % DataSize
      len == Least(Len(data) - a.done, DataSize - offs)
      chunk == SubSeq(data, a.done + 1, a.done + len)
      old == a.work.refs[EntryFor(span)]
      chk == page_data_check(a.x, old, a.x.fds[n].id, span)
  IN IF offs = 0
     THEN With(page_allocate(a.x, DataPage(a.x.fds[n].id, span, chunk)), LAMBDA r :
            IF r.res # "OK" THEN [a EXCEPT !.x = r.x, !.res = "STOP"]
            ELSE [a EXCEPT !.x = r.x, !.work.refs[EntryFor(span)] = r.pix, !.done = @ + len])
     ELSE IF chk # "OK" THEN Fail(a, a.x, chk)
     ELSE [a EXCEPT !.x.pages[old].data = Put(@, offs, chunk), !.done = @ + len]

RECURSIVE AppendLoop(_, _, _, _)
AppendLoop(a, n, off, data) ==
  LET ospan == IndexOf((off + a.done) \div DataSize)
      loaded == IF ospan = a.span THEN a
                ELSE With(AppendStore(a, n, off), LAMBDA b :
                            IF b.res # "OK" THEN b ELSE AppendLoad(b, n, off, ospan))
  IN IF a.res # "OK" \/ a.done = Len(data) THEN a
     ELSE AppendLoop(With(loaded, LAMBDA c : IF c.res # "OK" THEN c ELSE AppendData(c, n, off, data)),
                     n, off, data)

(* spiffs_object_append.  When room ends between two pages (STOP), what was
   written so far still gets its index and size. *)
AppendEnd(a, n, off) ==
  LET id == a.x.fds[n].id
      hdr == a.x.fds[n].hdr
      to == off + a.done
      Sized(z) == update_index_hdr(z, WithSize(z.pages[hdr], to), hdr)
      Store(y) ==
        IF a.span # 0
        THEN Sized(object_event([y EXCEPT !.pages[a.pix] = a.work], "UPD", id, a.span, a.pix, 0))
        ELSE IF off # 0 THEN update_index_hdr(y, WithSize(a.work, to), hdr)
        ELSE [x |-> object_event([y EXCEPT !.pages[a.pix] = WithSize(a.work, to)], "UPD", id, 0, a.pix, to),
              res |-> "OK"]
  IN Store(SetCursor(SetSize(a.x, n, to), n, a.span, a.pix))

Full(a, r) == [x |-> r.x, res |-> IF a.res = "STOP" THEN "FULL" ELSE "OK"]

object_append(x, n, offset, data) ==
  LET size == x.fds[n].size
      off == IF size # Undefined /\ offset > size THEN size ELSE offset
  IN Then(gc_check(x, Len(data) + DataSize), LAMBDA g :
            With(AppendLoop(Begin(g.x, n), n, off, data), LAMBDA a :
                   IF a.res \notin {"OK", "STOP"} THEN [x |-> a.x, res |-> a.res]
                   ELSE Then(AppendEnd(a, n, off), LAMBDA r : Full(a, r))))

(* The index page in hand, once loaded, must still be the one asked for. *)
Loaded(a, n, ospan, pix) ==
  LET Checked(chk) ==
        IF chk # "OK" THEN Fail(a, a.x, chk)
        ELSE [a EXCEPT !.x = SetCursor(@, n, ospan, pix), !.work = a.x.pages[pix],
                       !.span = ospan, !.pix = pix]
  IN Checked(page_index_check(a.x, pix, ospan))

(* Modify: put away the index page in hand in a new page. *)
ModifyStore(a, n) ==
  LET d == a.x.fds[n]
      Told(r) == SetCursor(object_event(r.x, "UPD", d.id, a.span, r.pix, 0), n, a.span, r.pix)
      Checked(chk) == IF chk # "OK" THEN Fail(a, a.x, chk)
                      ELSE Go(a, page_move(a.x, a.work, a.pix), LAMBDA r : [a EXCEPT !.x = Told(r)])
  IN IF a.span = 0
     THEN Go(a, update_index_hdr(a.x, a.work, d.hdr), LAMBDA r : [a EXCEPT !.x = r.x])
     ELSE Checked(page_index_check(a.x, a.pix, a.span))

ModifyLoad(a, n, ospan) ==
  LET Found(i) == IF i.res # "OK" THEN Fail(a, a.x, i.res) ELSE Loaded(a, n, ospan, i.pix)
  IN Found(IF ospan = 0 THEN [res |-> "OK", pix |-> a.x.fds[n].hdr] ELSE FindIndex(a.x, n, ospan))

(* Seeded fault: what follows the written bytes in the page is not copied. *)
BugModifyData(a, n, offset, data) ==
  LET at == offset + a.done
      span == at \div DataSize
      offs == at % DataSize
      len == Least(Len(data) - a.done, DataSize - offs)
      old == a.work.refs[EntryFor(span)]
      kept == Bytes(a.x.pages[old].data, 0, offs)
      chunk == Put(kept, offs, SubSeq(data, a.done + 1, a.done + len))
  IN With(page_allocate(a.x, DataPage(a.x.fds[n].id, span, chunk)), LAMBDA r :
       IF r.res # "OK" THEN [a EXCEPT !.x = r.x, !.res = "STOP"]
       ELSE [a EXCEPT !.x = page_delete(r.x, old), !.work.refs[EntryFor(span)] = r.pix,
                      !.done = @ + len])

(* Modify: one page of data, in a new page with what it keeps of the old
   one.  Nobody looks whether the page for a full one was found: without
   it the index entry gets what data_pix held before, which is last. *)
ModifyData(a, n, offset, data) ==
  LET at == offset + a.done
      span == at \div DataSize
      offs == at % DataSize
      len == Least(Len(data) - a.done, DataSize - offs)
      full == len = DataSize
      old == a.work.refs[EntryFor(span)]
      chk == page_data_check(a.x, old, a.x.fds[n].id, span)
      kept == IF full THEN <<>> ELSE a.x.pages[old].data
      chunk == Put(kept, offs, SubSeq(data, a.done + 1, a.done + len))
  IN IF ~full /\ chk # "OK" THEN Fail(a, a.x, chk)
     ELSE With(page_allocate(a.x, DataPage(a.x.fds[n].id, span, chunk)), LAMBDA r :
            IF ~full /\ r.res # "OK" THEN [a EXCEPT !.x = r.x, !.res = "STOP"]
            ELSE LET pix == IF r.res = "OK" THEN r.pix ELSE a.last
                 IN [a EXCEPT !.x = page_delete(r.x, old), !.work.refs[EntryFor(span)] = pix,
                              !.last = pix, !.done = @ + len])

RECURSIVE ModifyLoop(_, _, _, _)
ModifyLoop(a, n, offset, data) ==
  LET ospan == IndexOf((offset + a.done) \div DataSize)
      loaded == IF ospan = a.span THEN a
                ELSE With(IF a.done = 0 THEN a ELSE ModifyStore(a, n), LAMBDA b :
                            IF b.res # "OK" THEN b ELSE ModifyLoad(b, n, ospan))
  IN IF a.res # "OK" \/ a.done = Len(data) THEN a
     ELSE ModifyLoop(With(loaded, LAMBDA c : IF c.res # "OK" THEN c ELSE ModifyData(c, n, offset, data)),
                     n, offset, data)

object_modify(x, n, offset, data) ==
  Then(gc_check(x, Len(data) + DataSize), LAMBDA g :
         With(ModifyLoop(Begin(g.x, n) @@ [last |-> Lost], n, offset, data), LAMBDA a :
                IF a.res \notin {"OK", "STOP"} THEN [x |-> a.x, res |-> a.res]
                ELSE Then(ModifyStore([a EXCEPT !.res = "OK"], n), LAMBDA r : Full(a, r))))

(* Truncate: delete the index page in hand, when the loop has left it. *)
TruncateStore(a, n, full) ==
  LET d == a.x.fds[n]
      chk == page_index_check(a.x, a.pix, a.span)
  IN IF chk # "OK" THEN Fail(a, a.x, chk)
     ELSE With(object_event(page_delete(a.x, a.pix), "DEL", d.id, a.span, a.pix, 0), LAMBDA x :
            IF full THEN [a EXCEPT !.x = SetSize(x, n, a.size)]
            ELSE Go(a, update_index_hdr(x, WithSize(x.pages[d.hdr], a.size), d.hdr),
                    LAMBDA r : [a EXCEPT !.x = SetSize(r.x, n, a.size)]))

TruncateLoad(a, n, ospan) ==
  LET Found(i) == IF i.res # "OK" THEN Fail(a, a.x, i.res) ELSE Loaded(a, n, ospan, i.pix)
  IN Found(IF ospan = 0 THEN [res |-> "OK", pix |-> a.x.fds[n].hdr]
           ELSE find_id_and_span(a.x, a.x.fds[n].id, ospan))

(* Truncate: delete the last page of data; one already gone is passed. *)
TruncateData(a, n) ==
  LET span == (a.size - 1) \div DataSize
      pix == a.work.refs[EntryFor(span)]
      Checked(chk) ==
        IF chk \notin {"OK", "DELETED", "INDEX_REF_FREE"} THEN [a EXCEPT !.res = "STOP"]
        ELSE [a EXCEPT !.x = SetSize(IF chk = "OK" THEN page_delete(@, pix) ELSE @, n, span * DataSize),
                       !.work.refs[EntryFor(span)] = NoPage, !.size = span * DataSize]
  IN Checked(page_data_check(a.x, pix, a.x.fds[n].id, span))

RECURSIVE TruncateLoop(_, _, _)
TruncateLoop(a, n, full) ==
  LET ospan == IndexOf((a.size - 1) \div DataSize)
      loaded == IF ospan = a.span THEN a
                ELSE With(IF a.span = -1 THEN a ELSE TruncateStore(a, n, full), LAMBDA b :
                            IF b.res # "OK" THEN b ELSE TruncateLoad(b, n, ospan))
  IN IF a.res # "OK" \/ a.size = 0 THEN a
     ELSE TruncateLoop(With(loaded, LAMBDA c : IF c.res # "OK" THEN c ELSE TruncateData(c, n)), n, full)

(* A page of data that is not what the index says ends the loop; what is
   left is put away, and the call reports success. *)
TruncateCut(a, n) ==
  LET hdr == a.x.fds[n].hdr
      work == IF a.span = 0 THEN WithSize(a.work, a.size) ELSE a.work
      Sized(x) == [x |-> SetSize(x, n, a.size), res |-> "OK"]
  IN Then(ModifyStore([a EXCEPT !.res = "OK", !.work = work], n), LAMBDA b :
            IF a.span = 0 THEN Sized(b.x)
            ELSE Then(update_index_hdr(b.x, WithSize(b.x.pages[hdr], a.size), hdr),
                      LAMBDA r : Sized(r.x)))

(* spiffs_object_truncate to size 0; with full the object goes as well.  An
   object without data on the medium is left alone. *)
TruncateEnd(a, n, full) ==
  IF a.res = "STOP" THEN TruncateCut(a, n)
  ELSE IF a.res # "OK" THEN [x |-> a.x, res |-> a.res]
  ELSE IF full
  THEN [x |-> object_event(page_delete(a.x, a.pix), "DEL", a.x.fds[n].id, 0, a.pix, 0), res |-> "OK"]
  ELSE Then(update_index_hdr(a.x, WithSize(a.work, Undefined), a.pix),
            LAMBDA r : [x |-> SetSize(r.x, n, 0), res |-> "OK"])

TruncateFrom(x, n, hdr, full) ==
  With(TruncateLoop([x |-> x, work |-> x.pages[hdr], span |-> -1, pix |-> hdr,
                     size |-> Most(x.fds[n].size, 0), res |-> "OK"], n, full),
       LAMBDA a : TruncateEnd(a, n, full))

object_truncate(x, n, full) ==
  LET d == x.fds[n]
  IN IF full THEN TruncateFrom([x EXCEPT !.pages[d.hdr].dele = TRUE], n, d.hdr, TRUE)
     ELSE IF d.size \in {Undefined, 0} THEN [x |-> x, res |-> "OK"]
     ELSE Then(gc_check(x, 2 * DataSize), LAMBDA g : TruncateFrom(g.x, n, g.x.fds[n].hdr, FALSE))

(* spiffs_object_read of a range inside the object. *)
ReadPage(b, n, from, to) ==
  LET span == from \div DataSize
      pix == b.work.refs[EntryFor(span)]
      chk == page_data_check(b.x, pix, b.x.fds[n].id, span)
  IN IF chk # "OK" THEN Fail(b, b.x, chk)
     ELSE [b EXCEPT !.out = @ \o Bytes(b.x.pages[pix].data, from - span * DataSize, to - span * DataSize)]

ReadLoad(a, n, ospan) == IF ospan = a.span THEN a ELSE ModifyLoad(a, n, ospan)

object_read(x, n, offset, len) ==
  LET first == offset \div DataSize
      last == (offset + len - 1) \div DataSize
  IN FoldLeft(LAMBDA a, span :
                IF a.res # "OK" THEN a
                ELSE With(ReadLoad(a, n, IndexOf(span)), LAMBDA b :
                       IF b.res # "OK" THEN b
                       ELSE ReadPage(b, n, Most(offset, span * DataSize),
                                     Least(offset + len, (span + 1) * DataSize))),
              [out |-> <<>>] @@ Begin(x, n), [i \in 1 .. last - first + 1 |-> first + i - 1])

(***************************************************************************)
(* Calls of the API (spiffs_hydrogen.c): what a call leaves, and its       *)
(* result.                                                                 *)
(***************************************************************************)
hydro_write(x, n, offset, data) ==
  LET size == x.fds[n].size
      len == IF size = Undefined THEN 0 ELSE Most(0, Least(size - offset, Len(data)))
  IN With(IF len = 0 THEN [x |-> x, res |-> "OK"]
          ELSE object_modify(x, n, offset, SubSeq(data, 1, len)),
          LAMBDA m : IF m.res # "OK" \/ len = Len(data) THEN m
                     ELSE object_append(m.x, n, offset + len, SubSeq(data, len + 1, Len(data))))

(* The cache page is given up even when writing it fails: descriptors may
   then stand behind the end of a file, where the next write puts pages no
   index reaches. *)
fflush_cache(x, n) ==
  IF ~CacheOf(x, x.fds[n].id) THEN [x |-> x, res |-> "OK"]
  ELSE With(hydro_write(x, n, x.cache.off, x.cache.data), LAMBDA r :
              [r EXCEPT !.x.cache = NoCache, !.x.short = @ \/ r.res # "OK"])

(* SPIFFS_open.  A new file goes through no truncation. *)
OpenedFile(t, n) ==
  IF t.res # "OK" THEN [x |-> fd_return(t.x, n), res |-> t.res]
  ELSE [x |-> [t.x EXCEPT !.fds[n].pos = 0], res |-> "OK", fd |-> n]

OpenNew(x, n, name, flags) ==
  Then(object_create(x, find_free_obj_id(x), name),
       LAMBDA r : OpenedFile([x |-> open_by_page(r.x, n, r.pix, flags), res |-> "OK"], n))

OpenOld(x, n, flags) ==
  OpenedFile(IF "TRUNC" \in flags THEN object_truncate(x, n, FALSE) ELSE [x |-> x, res |-> "OK"], n)

SPIFFS_open(x, name, flags) ==
  LET n == Min(fd_find_new(x))
      found == find_header_by_name(x, name)
  IN IF fd_find_new(x) = {} THEN [x |-> x, res |-> "OUT_OF_FILE_DESCS"]
     ELSE IF found.res = "OK"
     THEN IF {"CREAT", "EXCL"} \subseteq flags THEN [x |-> x, res |-> "FILE_EXISTS"]
          ELSE OpenOld(open_by_page(x, n, found.pix, flags), n, flags)
     ELSE IF "CREAT" \in flags THEN OpenNew(x, n, name, flags) ELSE [x |-> x, res |-> "NOT_FOUND"]

(* A failed flush keeps the descriptor. *)
SPIFFS_close(x, n) == Then(fflush_cache(x, n), LAMBDA r : [r EXCEPT !.x = fd_return(@, n)])

SPIFFS_read(x, n, len) ==
  IF ~x.fds[n].r THEN [x |-> x, res |-> "NOT_READABLE"]
  ELSE IF x.fds[n].size = Undefined THEN [x |-> x, res |-> "OK", out |-> <<>>]
  ELSE With(fflush_cache(x, n).x, LAMBDA y :
         LET got == Least(len, y.fds[n].size - y.fds[n].pos)
         IN IF got <= 0 THEN [x |-> y, res |-> "OK", out |-> <<>>]
            ELSE Then(object_read(y, n, y.fds[n].pos, got),
                      LAMBDA a : [x |-> [a.x EXCEPT !.fds[n].pos = @ + got], res |-> "OK", out |-> a.out]))

(* A write shorter than a page goes to the cache page of the object when it
   touches what is there, or to a new one; slot says whether there is room
   for a cache page, which is so when the read cache gives its page up. *)
SPIFFS_write(x, n, data, slot) ==
  LET d == x.fds[n]
      mine == CacheOf(x, d.id)
      size == Most(d.size, 0)
      end == x.cache.off + Len(x.cache.data)
      pos == IF d.a THEN size ELSE d.pos
      off == IF ~d.a THEN d.pos ELSE IF mine THEN Most(size, end) ELSE size
      small == Len(data) < PageSize
      fits == mine /\ off >= x.cache.off /\ off <= end /\ off + Len(data) <= x.cache.off + PageSize
      at == [x EXCEPT !.fds[n].pos = pos]
      old == IF fits THEN x.cache ELSE [id |-> d.id, off |-> off, data |-> <<>>]
      Cached(y) == [y EXCEPT !.cache = [old EXCEPT !.data = Put(@, off - old.off, data)]]
      Moved(y) == [x |-> [y EXCEPT !.fds[n].pos = @ + Len(data)], res |-> "OK"]
  IN IF ~d.w THEN [x |-> x, res |-> "NOT_WRITABLE"]
     ELSE Then(IF mine /\ ~(small /\ fits) THEN fflush_cache(at, n) ELSE [x |-> at, res |-> "OK"],
               LAMBDA back :
                 IF small /\ (mine \/ (slot /\ x.cache = NoCache)) THEN Moved(Cached(back.x))
                 ELSE Then(hydro_write(back.x, n, off, data), LAMBDA r : Moved(r.x)))

(* SPIFFS_lseek to offs from the start; a seek behind the end stops there. *)
SPIFFS_lseek(x, n, offs) ==
  With(fflush_cache(x, n).x, LAMBDA y :
         LET size == Most(y.fds[n].size, 0)
             ospan == IndexOf((Most(offs, 1) - 1) \div DataSize)
             i == FindIndex(y, n, ospan)
         IN IF offs > size THEN [x |-> [y EXCEPT !.fds[n].pos = size], res |-> "END_OF_OBJECT"]
            ELSE IF i.res # "OK" THEN [x |-> y, res |-> i.res]
            ELSE [x |-> [SetCursor(y, n, ospan, i.pix) EXCEPT !.fds[n].pos = offs], res |-> "OK"])

SPIFFS_remove(x, name) ==
  LET n == Min(fd_find_new(x))
      found == find_header_by_name(x, name)
  IN IF fd_find_new(x) = {} THEN [x |-> x, res |-> "OUT_OF_FILE_DESCS"]
     ELSE IF found.res # "OK" THEN [x |-> x, res |-> found.res]
     ELSE With(object_truncate(open_by_page(x, n, found.pix, {}), n, TRUE),
               LAMBDA t : [x |-> fd_return(t.x, n), res |-> t.res])

SPIFFS_rename(x, old, new) ==
  LET n == Min(fd_find_new(x))
      found == find_header_by_name(x, old)
  IN IF found.res # "OK" THEN [x |-> x, res |-> found.res]
     ELSE IF find_header_by_name(x, new).res = "OK" THEN [x |-> x, res |-> "CONFLICTING_NAME"]
     ELSE IF fd_find_new(x) = {} THEN [x |-> x, res |-> "OUT_OF_FILE_DESCS"]
     ELSE With(update_index_hdr(open_by_page(x, n, found.pix, {}),
                                [x.pages[found.pix] EXCEPT !.name = new], found.pix),
               LAMBDA r : [x |-> fd_return(r.x, n), res |-> r.res])

(* The next header in the order of pages, from a stream's position on. *)
SPIFFS_readdir(x, from) ==
  LET found == {p \in Pages : p >= from /\ IsHeader(x.pages[p]) /\ ~x.pages[p].dele}
  IN IF found = {} THEN [res |-> "END"]
     ELSE [res |-> "OK", name |-> x.pages[Min(found)].name, next |-> Min(found) + 1]

(* The counters are taken from the medium, the descriptors and the cache
   start empty. *)
obj_lu_scan(x) ==
  [x EXCEPT !.alloc = CountIn(x, Pages, IsLive), !.dele = CountIn(x, Pages, IsDeleted),
            !.freeBlocks = Cardinality({b \in Blocks : x.pages[PageAt(b, 0)] = Free})]

SPIFFS_mount(x) ==
  obj_lu_scan([x EXCEPT !.freeB = 0, !.freeE = 0, !.cleaning = FALSE,
                        !.fds = [n \in Fds |-> NoFd], !.cache = NoCache, !.mounted = TRUE])

SPIFFS_unmount(x) ==
  LET closed == FoldLeft(LAMBDA y, n : IF IsOpenFd(y, n) THEN fd_return(fflush_cache(y, n).x, n) ELSE y,
                         x, [n \in Fds |-> n])
  IN [closed EXCEPT !.mounted = FALSE]

(* What a mounted volume cannot see is kept in one form. *)
SPIFFS_format(x) ==
  [x EXCEPT !.pages = [p \in Pages |-> Free], !.age = [b \in Blocks |-> 1], !.formatted = TRUE]

(***************************************************************************)
(* The calls of the driver (spiffs_vfs.c)                                  *)
(***************************************************************************)
Empty ==
  [pages |-> [p \in Pages |-> Free], age |-> [b \in Blocks |-> 1], freeB |-> 0, freeE |-> 0,
   freeBlocks |-> 0, alloc |-> 0, dele |-> 0, cleaning |-> FALSE,
   fds |-> [n \in Fds |-> NoFd], cache |-> NoCache, mounted |-> FALSE, formatted |-> FALSE, short |-> FALSE]

Init == f = Empty /\ fil = [h \in Handles |-> 0] /\ call = [op |-> "none", res |-> "OK", n |-> 0]

Usable(h) == f.mounted /\ IsOpenFd(f, fil[h])
Called(op, r, more) == call' = [op |-> op, res |-> r.res, n |-> call.n + 1] @@ more
(* A behaviour is followed up to MaxCalls calls, or to the call that runs
   out of pages half way or gives up a cache page it could not write. *)
Goes == call.n < MaxCalls /\ ~f.short
Bounded == \A n \in Fds : IsOpenFd(f', n) => f'.fds[n].pos <= MaxSize

Format ==
  /\ ~f.mounted /\ f' = SPIFFS_format(f)
  /\ Called("format", [res |-> "OK"], <<>>) /\ UNCHANGED fil

Mount ==
  /\ ~f.mounted /\ f.formatted /\ f' = SPIFFS_mount(f)
  /\ Called("mount", [res |-> "OK"], <<>>) /\ UNCHANGED fil

Umount ==
  /\ f.mounted /\ f' = SPIFFS_unmount(f)
  /\ Called("umount", [res |-> "OK"], <<>>) /\ UNCHANGED fil

Open(h, name, flags) ==
  /\ f.mounted /\ fil[h] = 0
  /\ \E r \in {SPIFFS_open(f, name, flags)} :
       /\ f' = r.x
       /\ fil' = IF r.res = "OK" THEN [fil EXCEPT ![h] = r.fd] ELSE fil
       /\ Called("open", r, [name |-> name, flags |-> flags])

(* The VFS gives its handle up whatever the driver says. *)
Close(h) ==
  /\ fil[h] # 0
  /\ \E r \in {IF Usable(h) THEN SPIFFS_close(f, fil[h]) ELSE [x |-> f, res |-> "FILE_CLOSED"]} :
       /\ f' = r.x /\ fil' = [fil EXCEPT ![h] = 0]
       /\ Called("close", r, [fd |-> fil[h]])

Read(h, len) ==
  /\ Usable(h)
  /\ \E r \in {SPIFFS_read(f, fil[h], len)} :
       /\ f' = r.x /\ UNCHANGED fil
       /\ Called("read", r, [fd |-> fil[h], len |-> len, out |-> IF r.res = "OK" THEN r.out ELSE <<>>])

Write(h, data, slot) ==
  /\ Usable(h) /\ (slot => f.cache = NoCache /\ Len(data) < PageSize)
  /\ \E r \in {SPIFFS_write(f, fil[h], data, slot)} :
       /\ f' = r.x /\ UNCHANGED fil
       /\ Called("write", r, [fd |-> fil[h], data |-> data])

Lseek(h, offs) ==
  /\ Usable(h)
  /\ \E r \in {SPIFFS_lseek(f, fil[h], offs)} :
       /\ f' = r.x /\ UNCHANGED fil
       /\ Called("lseek", r, [fd |-> fil[h]])

Fsync(h) ==
  /\ Usable(h)
  /\ \E r \in {fflush_cache(f, fil[h])} :
       /\ f' = r.x /\ UNCHANGED fil
       /\ Called("fsync", r, [fd |-> fil[h]])

Fstat(h) ==
  /\ Usable(h)
  /\ \E r \in {fflush_cache(f, fil[h])} :
       /\ f' = r.x /\ UNCHANGED fil
       /\ Called("fstat", [res |-> "OK"],
                 [fd |-> fil[h], size |-> Most(r.x.pages[r.x.fds[fil[h]].hdr].size, 0)])

Unlink(name) ==
  /\ f.mounted
  /\ \E r \in {SPIFFS_remove(f, name)} :
       /\ f' = r.x /\ UNCHANGED fil
       /\ Called("unlink", r, [name |-> name])

Rename(old, new) ==
  /\ f.mounted
  /\ \E r \in {SPIFFS_rename(f, old, new)} :
       /\ f' = r.x /\ UNCHANGED fil
       /\ Called("rename", r, [name |-> old, to |-> new])

(* A stream opened, read to its end and closed. *)
RECURSIVE Entered(_)
Entered(from) ==
  LET r == SPIFFS_readdir(f, from)
  IN IF r.res = "END" THEN <<>> ELSE <<r.name>> \o Entered(r.next)

Readdir ==
  /\ f.mounted /\ UNCHANGED <<f, fil>>
  /\ Called("readdir", [res |-> "OK"], [out |-> Entered(0)])

Next ==
  /\ Goes
  /\ \/ Format \/ Mount \/ Umount \/ Readdir
     \/ \E h \in Handles :
          \/ \E name \in Names, flags \in OpenFlags : Open(h, name, flags)
          \/ Close(h) \/ Fsync(h) \/ Fstat(h)
          \/ \E len \in Lengths : Read(h, len)
          \/ \E data \in Data, slot \in BOOLEAN : Write(h, data, slot)
          \/ \E offs \in Offsets : Lseek(h, offs)
     \/ \E name \in Names : Unlink(name) \/ \E to \in Names : Rename(name, to)
  /\ Bounded

Spec == Init /\ [][Next]_vars

(***************************************************************************)
(* Properties                                                              *)
(***************************************************************************)
Bad == 99
Absent == <<Bad>>

(* What the medium holds of the object with header page hdr. *)
OnFlash(x, hdr) ==
  LET id == x.pages[hdr].id
      Index(ospan) == IF ospan = 0 THEN {hdr} ELSE IndexPages(x, id, ospan)
      ByteAt(i) ==
        LET span == (i - 1) \div DataSize
            index == Index(IndexOf(span))
            pix == x.pages[Min(index)].refs[EntryFor(span)]
        IN IF index = {} THEN Bad
           ELSE IF page_data_check(x, pix, id, span) # "OK" THEN Bad
           ELSE IF x.pages[pix].id # id THEN Bad
           ELSE LET at == (i - 1) % DataSize IN Bytes(x.pages[pix].data, at, at + 1)[1]
  IN [i \in 1 .. Most(x.pages[hdr].size, 0) |-> ByteAt(i)]

(* What a reader of the object is to see: the medium under the cache. *)
Contents(x, hdr) ==
  LET flash == OnFlash(x, hdr)
  IN IF CacheOf(x, x.pages[hdr].id)
     THEN Put(flash, Least(x.cache.off, Len(flash)), x.cache.data) ELSE flash

File(x, name) ==
  IF HeadersNamed(x, name) = {} THEN Absent ELSE Contents(x, Min(HeadersNamed(x, name)))

(* The medium is a sound file system between calls: a page of data stands
   in the one index entry of its place, an index page belongs to an object
   that has its header, no two pages claim the same place and no two
   objects the same name (page_move, gc_clean, truncate: all of them pass
   through states where that is not so).  Once a call has run out of pages
   half way, or given up a page of the cache, it may not hold any more. *)
IndexSound ==
  ~f.short => \A p \in Pages :
    LET page == f.pages[p]
        twins == {q \in Pages \ {p} : /\ f.pages[q].lu = page.lu /\ f.pages[q].id = page.id
                                      /\ f.pages[q].span = page.span}
        index == IndexPages(f, page.id, IndexOf(page.span))
    IN /\ IsLive(page) => twins = {}
       /\ IsData(page) => \E q \in index : f.pages[q].refs[EntryFor(page.span)] = p
       /\ IsIndex(page) => IndexPages(f, page.id, 0) # {}
       /\ IsHeader(page) => HeadersNamed(f, page.name) = {p} /\ ~page.dele

(* Every open descriptor follows its object: the header it remembers is the
   live one, its size that of the header, and the index page under its
   cursor is where it thinks, whoever moved it (spiffs_cb_object_event). *)
FdsFollow ==
  ~f.short => \A n \in Fds : IsOpenFd(f, n) =>
    LET d == f.fds[n]
        here == find_id_and_span(f, d.id, d.cspan)
    IN /\ find_id_and_span(f, d.id, 0) = [res |-> "OK", pix |-> d.hdr]
       /\ Most(d.size, 0) = Most(f.pages[d.hdr].size, 0)
       /\ here.res = "OK" => here.pix = d.cpix

(* The counters that decide whether there is room and when to collect are
   the numbers of live and deleted pages of the medium.  The number of free
   blocks is never below the true one; it may be above it, see the
   findings. *)
Counted ==
  f.mounted =>
    /\ f.alloc = CountIn(f, Pages, IsLive) /\ f.dele = CountIn(f, Pages, IsDeleted)
    /\ f.freeBlocks >= Cardinality({b \in Blocks : f.pages[PageAt(b, 0)] = Free})

NameOf(n) == f.pages[f.fds[n].hdr].name
Same(names) == \A name \in names : File(f', name) = File(f, name)
WithFd == {"read", "write", "lseek", "fsync", "fstat", "close"}
Flushed(n) == CacheOf(f, f.fds[n].id) => fflush_cache(f, n).res = "OK"

(* The names whose contents the call may change. *)
Touched(c) ==
  IF c.op = "format" THEN Names
  ELSE IF c.op \in WithFd THEN IF IsOpenFd(f, c.fd) THEN {NameOf(c.fd)} ELSE {}
  ELSE IF c.op = "rename" THEN {c.name, c.to}
  ELSE IF c.op \in {"open", "unlink"} THEN {c.name}
  ELSE IF c.op = "umount" THEN {NameOf(n) : n \in {m \in Fds : IsOpenFd(f, m) /\ ~Flushed(m)}}
  ELSE {}

(* What the call makes of them when it reports success, and when it was not
   room that failed it. *)
Written(c) ==
  LET d == f.fds[c.fd]  name == NameOf(c.fd)  old == File(f, name)
      off == IF d.a THEN Len(old) ELSE Least(d.pos, Len(old))
  IN c.res = "OK" => File(f', name) = Put(old, off, c.data)

ReadBack(c) ==
  LET name == NameOf(c.fd)  old == File(f, name)
      start == f'.fds[c.fd].pos - Len(c.out)
  IN /\ Same({name})
     /\ c.res = "OK" /\ f.fds[c.fd].size # Undefined =>
          /\ c.out = Bytes(old, start, start + Len(c.out))
          /\ Len(c.out) = Most(0, Least(c.len, Len(old) - start))

Opened(c) ==
  LET old == File(f, c.name)
      cached == HeadersNamed(f, c.name) # {} /\ CacheOf(f, f.pages[Min(HeadersNamed(f, c.name))].id)
  IN IF c.res # "OK" \/ (old # Absent /\ "TRUNC" \notin c.flags) THEN Same({c.name})
     ELSE cached \/ File(f', c.name) = <<>>

Listed(c) ==
  /\ ToSet(c.out) = {name \in Names : HeadersNamed(f, name) # {}}
  /\ Len(c.out) = Cardinality(ToSet(c.out))

Exact(c) ==
  /\ c.op = "write" => Written(c)
  /\ c.op = "read" => ReadBack(c)
  /\ c.op \in {"lseek", "fsync", "fstat"} => Same({NameOf(c.fd)})
  /\ c.op = "close" /\ IsOpenFd(f, c.fd) => Same({NameOf(c.fd)})
  /\ c.op = "fstat" => c.size = Len(File(f, NameOf(c.fd)))
  /\ c.op = "open" => Opened(c)
  /\ c.op = "readdir" => Listed(c)
  /\ c.op = "unlink" => IF c.res = "OK" THEN File(f', c.name) = Absent ELSE Same({c.name})
  /\ c.op = "rename" =>
       IF c.res # "OK" THEN Same({c.name, c.to})
       ELSE File(f', c.name) = Absent /\ File(f', c.to) = File(f, c.name)

(* A call changes the contents of the file it is about, in the way it was
   asked to, and of no other, through whatever caching, moving and erasing
   it sets off: what a write wrote and a reader is to see is the medium
   under the cache page.  Where room ran out, only the other files are
   promised. *)
CallsExact ==
  [][LET c == call'
     IN /\ Same(Names \ Touched(c))
        /\ ~f'.short /\ (c.op \in WithFd /\ f.mounted /\ IsOpenFd(f, c.fd) => Flushed(c.fd))
             => Exact(c)]_vars
=============================================================================
