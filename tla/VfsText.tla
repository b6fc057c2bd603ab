------------------------------- MODULE VfsText -------------------------------
(***************************************************************************)
(* The three loops of src/src/vfs/vfs.c over the characters of a string:    *)
(* the mount lookup of _find_mount, vfs_normalize_path and vfs_readline.   *)
(* A string is a sequence of characters; End stands for its null byte.     *)
(* A behaviour runs one of the loops once: one step is one iteration.      *)
(***************************************************************************)
EXTENDS Integers, Sequences, SequencesExt, FiniteSetsExt

CONSTANTS
  Chars,        \* the characters of a path or a file
  Lookups,      \* [points : mount points in list order, name : a path]
  Normals,      \* [path : a path, buflen : the size of the buffer]
  Readlines     \* [input : what the driver's reads give, max : len_max]

End == "end"
ReadError == "error"

\* A string holds no null byte, and check_mount refuses a mount point that does
\* not begin with a slash.
ASSUME TextInputs ==
  /\ End \notin Chars /\ ReadError \notin Chars
  /\ \A l \in Lookups :
       /\ l.points \in Seq(Seq(Chars)) /\ l.name \in Seq(Chars)
       /\ \A k \in DOMAIN l.points : l.points[k] # <<>> /\ l.points[k][1] = "/"
  /\ \A p \in Normals : p.path \in Seq(Chars) /\ p.buflen \in Nat
  /\ \A r \in Readlines : r.input \in Seq(Chars \cup {ReadError}) /\ r.max \in Nat

Running == -1000
ENOENT == -2
E2BIG == -7
EINVAL == -22
ENAMETOOLONG == -91

VARIABLES
  job,          \* which loop runs
  in,           \* its input
  i,            \* position in the input
  out,          \* buf, or dst; for the lookup the index found (0: NULL)
  n,            \* npathcomp; for the lookup longest_match
  result        \* Running, then what the function returns

vars == <<job, in, i, out, n, result>>

Done == result # Running

Init ==
  \/ /\ job = "lookup" /\ in \in Lookups /\ i = 1 /\ out = 0 /\ n = 0
     /\ result = Running
  \/ /\ job = "normalize" /\ in \in Normals /\ i = 1 /\ out = <<>> /\ n = 0
     /\ result = IF in.buflen = 0 THEN ENAMETOOLONG ELSE Running
  \/ /\ job = "readline" /\ in \in Readlines /\ i = 1 /\ out = <<>> /\ n = 0
     /\ result = Running

CharAt(s, k) == IF k <= Len(s) THEN s[k] ELSE End

-----------------------------------------------------------------------------
\* _find_mount: one iteration per node of the mount list.

\* BugMatches: a mount point matches the middle of a path component.
BugMatches(point, name, longest) ==
  /\ Len(point) >= longest
  /\ Len(point) <= Len(name)
  /\ IsPrefix(point, name)

\* BugPrefers: the first of equal mount points keeps the match.
BugPrefers(point, longest) == Len(point) > longest

Prefers(point, longest) == Len(point) >= longest

Matches(point, name, longest) ==
  /\ Prefers(point, longest)             \* else a longer prefix is known
  /\ Len(point) <= Len(name)
  /\ Len(point) > 1 => CharAt(name, Len(point) + 1) \in {"/", End}
  /\ IsPrefix(point, name)

LookupStep ==
  /\ job = "lookup" /\ ~Done
  /\ i <= Len(in.points)
  /\ i' = i + 1
  /\ LET point == in.points[i] IN
       \/ /\ Matches(point, in.name, n)
          /\ out' = i
          /\ n' = IF Len(point) > 1 THEN Len(point) ELSE n
       \/ /\ ~Matches(point, in.name, n)
          /\ UNCHANGED <<out, n>>
  /\ UNCHANGED <<job, in, result>>

LookupEnd ==
  /\ job = "lookup" /\ ~Done
  /\ i > Len(in.points)
  /\ result' = IF out = 0 THEN ENOENT ELSE 0
  /\ UNCHANGED <<job, in, i, out, n>>

\* The driver sees name + longest_match.
RelPath == SubSeq(in.name, n + 1, Len(in.name))

-----------------------------------------------------------------------------
\* vfs_normalize_path: one iteration per path component.

FirstFrom(k, Stop(_)) ==
  Min({j \in k .. Len(in.path) + 1 : Stop(CharAt(in.path, j))})

SkipSlashes(k) == FirstFrom(k, LAMBDA c : c # "/")
ComponentEnd(k) == FirstFrom(k, LAMBDA c : c \in {"/", End})

\* buf up to, and without, its last slash.
\* BugDropLast: the slash in front of the last component stays.
BugDropLast(buf) == SubSeq(buf, 1, Max({k \in DOMAIN buf : buf[k] = "/"}))

DropLast(buf) == SubSeq(buf, 1, Max({k \in DOMAIN buf : buf[k] = "/"}) - 1)

\* "special case for "/": (otherwise it will be zero)"
NormalizeEnd(buf) ==
  /\ out' = buf
  /\ result' = IF Len(buf) = 1 THEN 1 ELSE n
  /\ UNCHANGED <<i, n>>

Fail(code) == result' = code /\ UNCHANGED <<i, out, n>>

\* A component that is neither "." nor "..".  A dot in front of it has been
\* skipped by the tests for "." and ".." and is not copied.
CopyComponent(start, stop) ==
  LET from == IF CharAt(in.path, start) = "." THEN start + 1 ELSE start
      buf  == Append(out, "/") \o SubSeq(in.path, from, stop - 1)
  IN  \/ /\ Len(out) + 1 >= in.buflen \/ Len(buf) >= in.buflen
         /\ Fail(ENAMETOOLONG)
      \/ /\ Len(buf) < in.buflen
         /\ start > Len(in.path)         \* a trailing slash
         /\ NormalizeEnd(buf)
      \/ /\ Len(buf) < in.buflen
         /\ start <= Len(in.path)
         /\ out' = buf
         /\ n' = n + 1
         /\ i' = stop
         /\ UNCHANGED result

NormalizeStep ==
  /\ job = "normalize" /\ ~Done
  /\ LET start == SkipSlashes(i)
         stop  == ComponentEnd(start)
         component == SubSeq(in.path, start, stop - 1)
     IN  \/ /\ i > Len(in.path)
            /\ NormalizeEnd(out)
         \/ /\ i <= Len(in.path)
            /\ component = <<".">>
            /\ i' = stop
            /\ UNCHANGED <<out, n, result>>
         \/ /\ i <= Len(in.path)
            /\ component = <<".", ".">>
            /\ out = <<>>                \* outside root
            /\ Fail(EINVAL)
         \/ /\ i <= Len(in.path)
            /\ component = <<".", ".">>
            /\ out # <<>>
            /\ out' = DropLast(out)
            /\ n' = n - 1
            /\ i' = stop
            /\ UNCHANGED result
         \/ /\ i <= Len(in.path)
            /\ component \notin {<<".">>, <<".", ".">>}
            /\ CopyComponent(start, stop)
  /\ UNCHANGED <<job, in>>

-----------------------------------------------------------------------------
\* vfs_readline: one iteration per byte.  End is a read that returns 0.

\* BugTooLong: a line that leaves no room for the null byte is accepted.
BugTooLong == Len(out) > in.max

TooLong == Len(out) = in.max

ReadlineStep ==
  /\ job = "readline" /\ ~Done
  /\ LET c == CharAt(in.input, i) IN
       \/ /\ TooLong
          /\ result' = E2BIG
          /\ UNCHANGED <<i, out>>
       \/ /\ ~TooLong
          /\ c = ReadError
          /\ result' = Len(out)
          /\ UNCHANGED <<i, out>>
       \/ /\ ~TooLong
          /\ c \in {"\r", "\n", End}
          /\ out' = Append(out, End)
          /\ result' = Len(out) + 1
          /\ i' = i + 1
       \/ /\ ~TooLong
          /\ c \notin {"\r", "\n", End, ReadError}
          /\ out' = Append(out, c)
          /\ i' = i + 1
          /\ UNCHANGED result
  /\ UNCHANGED <<job, in, n>>

Next == LookupStep \/ LookupEnd \/ NormalizeStep \/ ReadlineStep

Spec == Init /\ [][Next]_vars

-----------------------------------------------------------------------------
\* Reference definitions.

\* point names a directory that contains name, or is name.
Contained(point, name) ==
  /\ IsPrefix(point, name)
  /\ \/ point = <<"/">>
     \/ Len(name) = Len(point)
     \/ name[Len(point) + 1] = "/"

\* _find_mount answers with the mount whose point is the longest directory
\* prefix of the name, the newest one among equal points, and with ENOENT only
\* when there is none: the choice module Vfs makes with Resolve.
LookupLongest ==
  job = "lookup" /\ Done =>
    LET all == {k \in DOMAIN in.points : Contained(in.points[k], in.name)}
        longest == {k \in all : \A j \in all :
                      Len(in.points[j]) <= Len(in.points[k])}
    IN  out = IF all = {} THEN 0 ELSE Max(longest)

\* The path handed to the driver is empty or begins with a slash, whatever
\* mount was found, as the drivers need it.
RelPathRooted ==
  job = "lookup" /\ Done /\ out # 0 =>
    RelPath = <<>> \/ RelPath[1] = "/"

\* The non-empty components of the first k characters of a path, of which the
\* last may go on.
Parts(path) ==
  LET upTo[k \in 0 .. Len(path)] ==
        IF k = 0 THEN <<>>
        ELSE IF path[k] = "/" THEN upTo[k - 1]
        ELSE IF k = 1 \/ path[k - 1] = "/" THEN Append(upTo[k - 1], <<path[k]>>)
        ELSE [upTo[k - 1] EXCEPT ![Len(upTo[k - 1])] = Append(@, path[k])]
  IN  upTo

Components(path) == Parts(path)[Len(path)]

\* A component begins with a dot and is neither "." nor "..".
HasDotName(path) ==
  \E k \in 1 .. Len(path) :
    /\ path[k] = "." /\ (k = 1 \/ path[k - 1] = "/")
    /\ CharAt(path, k + 1) \notin {"/", End}
    /\ ~(CharAt(path, k + 1) = "." /\ CharAt(path, k + 2) \in {"/", End})

\* Where a path leads that has left the root by a "..": no component is empty.
Outside == << <<>> >>

\* From directory dirs by the component c.
Entered(dirs, c) ==
  IF dirs = Outside \/ c = <<".">> THEN dirs
  ELSE IF c # <<".", ".">> THEN Append(dirs, c)
  ELSE IF dirs = <<>> THEN Outside
  ELSE Front(dirs)

\* What the components mean: the directories left after "." and "..", after
\* the first k components.
Walk(components) ==
  LET after[k \in 0 .. Len(components)] ==
        IF k = 0 THEN <<>> ELSE Entered(after[k - 1], components[k])
  IN  after

Meaning(components) == Walk(components)[Len(components)]

\* vfs_normalize_path keeps the meaning of the path: on success buf lists the
\* directories the path means, with one slash in front of each, fits in the
\* buffer with its null byte, and the result counts them ("/" counts as one);
\* it fails with EINVAL only for a path that leaves the root, and with
\* ENAMETOOLONG only when the buffer is shorter than the path and two bytes.
NormalizeRight ==
  job = "normalize" /\ Done =>
    LET meant == Meaning(Components(in.path)) IN
      CASE result = EINVAL -> meant = Outside
        [] result = ENAMETOOLONG -> in.buflen < Len(in.path) + 2
        [] OTHER ->
             /\ Components(out) = meant
             /\ Len(out) < in.buflen
             /\ \A k \in 1 .. Len(out) - 1 : out[k] = "/" => out[k + 1] # "/"
             /\ result = IF out = <<"/">> THEN 1 ELSE Len(meant)

\* A line that vfs_readline returns after reads that did not fail is null
\* terminated inside the buffer and is what the file holds up to the first end
\* of line or of file; E2BIG means that no such end came in len_max bytes.
LineWhole ==
  job = "readline" /\ Done /\ ReadError \notin ToSet(in.input) =>
    LET ends == {k \in 1 .. Len(in.input) + 1 :
                   CharAt(in.input, k) \in {"\r", "\n", End}}
    IN  IF result = E2BIG THEN Min(ends) > in.max
        ELSE /\ result = Min(ends) /\ result <= in.max
             /\ out = Append(SubSeq(in.input, 1, result - 1), End)
=============================================================================
