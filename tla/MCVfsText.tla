------------------------------ MODULE MCVfsText ------------------------------
EXTENDS VfsText

MCChars == {"/", ".", "a", "x", "\n", "\r"}

Strings(chars, max) == UNION {[1 .. k -> chars] : k \in 0 .. max}

Points == {p \in Strings({"/", "a"}, 3) : Len(p) > 0 /\ p[1] = "/"}
MCLookups == [points : Strings(Points, 3), name : Strings({"/", "a"}, 4)]

\* NormalizeRight holds of paths without a name that begins with a dot.
Paths == Strings({"/", ".", "a"}, 6)
MCNormals == [path : {p \in Paths : ~HasDotName(p)}, buflen : {0, 3, 5, 8}]

MCReadlines == [input : Strings({"x", "\n", "\r", ReadError}, 4), max : 0 .. 4]
=============================================================================
