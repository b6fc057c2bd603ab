----------------------------- MODULE FatFsProofs -----------------------------
(***************************************************************************)
(* FatFs keeps its type invariant for every volume, file and path: every   *)
(* function of the library takes a volume whose areas hold what belongs    *)
(* there to such a volume.  With it goes what a function may change of the *)
(* FAT and of the directories, and from that which calls may free or move  *)
(* a cluster or an entry.  One lemma per function, in the order of the     *)
(* module; a loop by induction over its rounds.                            *)
(***************************************************************************)
EXTENDS FatFs, WellFoundedInduction, TLAPS

-----------------------------------------------------------------------------
(* Loops. *)

\* A set of naturals that is not empty has a least element.
LEMMA NatMinimum ==
  ASSUME NEW T \in SUBSET Nat, T # {}
  PROVE  \E x \in T : \A y \in T : x <= y
<1>1. PICK x \in T : \A y \in T : ~(<<y, x>> \in OpToRel(<, Nat))
  BY WFMin, NatLessThanWellFounded, Zenon
<1>2. ASSUME NEW y \in T PROVE ~(y < x)
  <2>1. <<y, x>> \in Nat \X Nat
    OBVIOUS
  <2>2. OpToRel(<, Nat) = {ss \in Nat \X Nat : ss[1] < ss[2]}
    BY DEF OpToRel
  <2> QED BY <1>1, <2>1, <2>2
<1> QED BY <1>2

\* What holds at a and from k - 1 to k holds at every k from a to b.
Inductive(T, a, b) == a \in T /\ \A k \in a + 1 .. b : k - 1 \in T => k \in T

LEMMA RangeInduction ==
  ASSUME NEW a \in Int, NEW b \in Int, NEW T, Inductive(T, a, b)
  PROVE  \A k \in a .. b : k \in T
<1> USE DEF Inductive
<1> DEFINE left == {m \in Nat : a + m \in a .. b /\ a + m \notin T}
<1>1. left = {}
  <2>1. SUFFICES ASSUME left # {} PROVE FALSE
    OBVIOUS
  <2>2. PICK m \in left : \A j \in left : m <= j
    <3>1. left \in SUBSET Nat
      OBVIOUS
    <3> HIDE DEF left
    <3> QED BY <2>1, <3>1, NatMinimum
  <2>3. m \in Nat /\ a + m \in a .. b /\ a + m \notin T /\ m # 0
    BY <2>2
  <2>4. m - 1 \in Nat /\ m - 1 \notin left
    BY <2>2, <2>3
  <2>5. a + (m - 1) \in T
    BY <2>3, <2>4
  <2>6. a + m \in a + 1 .. b /\ (a + m) - 1 = a + (m - 1)
    BY <2>3
  <2> QED BY <2>3, <2>5, <2>6
<1>2. ASSUME NEW k \in a .. b PROVE k \in T
  <2>1. SUFFICES ASSUME k \notin T PROVE FALSE
    OBVIOUS
  <2>2. k - a \in Nat /\ a + (k - a) = k
    OBVIOUS
  <2>3. k - a \in left
    BY <2>1, <2>2
  <2> QED BY <1>1, <2>3
<1> QED BY <1>2

\* A function of the row and the row before it, and a table that it fills.
RowFunction(step, m, S) == step \in [1 .. m -> [S -> S]]
FillsTable(step, m, S, base) ==
  \E f \in [0 .. m -> S] : f[0] = base /\ \A k \in 1 .. m : f[k] = step[k][f[k - 1]]

\* Every table can be filled row by row.
LEMMA TableExists ==
  ASSUME NEW m \in Nat, NEW S, NEW base \in S, NEW step, RowFunction(step, m, S)
  PROVE  FillsTable(step, m, S, base)
<1> DEFINE Table(q) == \E f \in [0 .. q -> S] : f[0] = base /\ \A k \in 1 .. q : f[k] = step[k][f[k - 1]]
           missing == {q \in 0 .. m : ~Table(q)}
<1> step \in [1 .. m -> [S -> S]]
  BY DEF RowFunction
<1>1. Table(0)
  <2> DEFINE f == [k \in 0 .. 0 |-> base]
  <2>1. f \in [0 .. 0 -> S] /\ f[0] = base /\ 1 .. 0 = {}
    OBVIOUS
  <2> HIDE DEF f
  <2> QED BY <2>1
<1>2. ASSUME NEW q \in 1 .. m, Table(q - 1) PROVE Table(q)
  <2>1. PICK f \in [0 .. q - 1 -> S] : f[0] = base /\ \A k \in 1 .. q - 1 : f[k] = step[k][f[k - 1]]
    BY <1>2
  <2> DEFINE g == [k \in 0 .. q |-> IF k = q THEN step[q][f[q - 1]] ELSE f[k]]
  <2>2. q - 1 \in 0 .. q - 1 /\ step[q] \in [S -> S]
    OBVIOUS
  <2>3. f[q - 1] \in S /\ step[q][f[q - 1]] \in S
    BY <2>2
  <2>4. g \in [0 .. q -> S]
    BY <2>3
  <2>5. g[0] = base /\ \A k \in 1 .. q : g[k] = step[k][g[k - 1]]
    BY <2>1
  <2> QED BY <2>4, <2>5
<1>3. missing = {}
  <2>1. SUFFICES ASSUME missing # {} PROVE FALSE
    OBVIOUS
  <2>2. missing \in SUBSET Nat
    OBVIOUS
  <2> HIDE DEF Table
  <2>3. PICK q \in missing : \A r \in missing : q <= r
    <3> HIDE DEF missing
    <3> QED BY <2>1, <2>2, NatMinimum
  <2>4. q \in 1 .. m /\ q - 1 \notin missing
    BY <2>3, <1>1
  <2>5. Table(q - 1)
    BY <2>4
  <2> QED BY <1>2, <2>3, <2>4, <2>5
<1>4. Table(m)
  <2> HIDE DEF Table
  <2> QED BY <1>3
<1> QED BY <1>4 DEF FillsTable

\* What every round keeps holds after the last one.
LEMMA StaysIn ==
  ASSUME NEW S, NEW n \in Nat, NEW f, f[0] \in S,
         \A k \in 1 .. n : f[k - 1] \in S => f[k] \in S
  PROVE  \A k \in 0 .. n : f[k] \in S
<1> DEFINE T == {k \in 0 .. n : f[k] \in S}
<1>1. Inductive(T, 0, n)
  BY DEF Inductive
<1> HIDE DEF T
<1>2. \A k \in 0 .. n : k \in T
  BY <1>1, RangeInduction
<1> QED BY <1>2 DEF T

-----------------------------------------------------------------------------
(* Where things are on a volume. *)

LEMMA DivMod ==
  ASSUME NEW a \in Int, NEW b \in Nat \ {0}
  PROVE  /\ a \div b \in Int /\ a % b \in 0 .. b - 1
         /\ a = b * (a \div b) + (a % b)
<1>1. a \div b \in Int /\ a % b \in 0 .. b - 1
  OBVIOUS
<1>2. a = b * (a \div b) + (a % b)
  OBVIOUS
<1> QED BY <1>1, <1>2

LEMMA SameDivMod ==
  ASSUME NEW a \in Int, NEW b \in Nat \ {0}, NEW c \in Int,
         a \div b = c \div b, a % b = c % b
  PROVE  a = c
<1>1. a = b * (a \div b) + (a % b)
  BY DivMod
<1>2. c = b * (c \div b) + (c % b)
  BY DivMod
<1> QED BY <1>1, <1>2

\* Quotient and remainder are what they are because the remainder is small.
LEMMA DivModUnique ==
  ASSUME NEW b \in Nat \ {0}, NEW q \in Int, NEW r \in 0 .. b - 1
  PROVE  (b * q + r) \div b = q /\ (b * q + r) % b = r
<1> DEFINE a == b * q + r
           p == a \div b
           s == a % b
<1>1. a \in Int
  OBVIOUS
<1>2. p \in Int /\ s \in 0 .. b - 1 /\ a = b * p + s
  <2> HIDE DEF a
  <2> QED BY <1>1, DivMod
<1>3. b * (p - q) = r - s
  <2> HIDE DEF p, s
  <2> QED BY <1>2
<1>4. p = q
  <2> HIDE DEF p, s, a
  <2>1. ASSUME p > q PROVE FALSE
    <3>1. p - q >= 1 /\ b * (p - q) >= b
      BY <1>2, <2>1
    <3> QED BY <1>2, <1>3, <3>1
  <2>2. ASSUME p < q PROVE FALSE
    <3>1. q - p >= 1 /\ b * (q - p) >= b
      BY <1>2, <2>2
    <3>2. b * (q - p) = s - r
      BY <1>2, <1>3
    <3> QED BY <1>2, <3>1, <3>2
  <2> QED BY <1>2, <2>1, <2>2
<1>5. s = r
  <2> HIDE DEF p, s, a
  <2> QED BY <1>2, <1>4 DEF a
<1> QED BY <1>4, <1>5

\* A later multiple, and the remainder it leaves.
LEMMA NextMultiple ==
  ASSUME NEW a \in Int, NEW b \in Nat \ {0}
  PROVE  (a + b) \div b = (a \div b) + 1 /\ (a + b) % b = a % b
<1> DEFINE q == a \div b
           r == a % b
<1>1. q \in Int /\ r \in 0 .. b - 1 /\ a = b * q + r
  BY DivMod
<1>2. a + b = b * (q + 1) + r /\ q + 1 \in Int
  <2> HIDE DEF q, r
  <2> QED BY <1>1
<1>3. (b * (q + 1) + r) \div b = q + 1 /\ (b * (q + 1) + r) % b = r
  <2> HIDE DEF q, r
  <2> QED BY <1>1, <1>2, DivModUnique
<1> QED BY <1>2, <1>3

LEMMA DivMonotonic ==
  ASSUME NEW a \in Int, NEW c \in Int, NEW b \in Nat \ {0}, a <= c
  PROVE  a \div b <= c \div b
<1> DEFINE p == a \div b
           q == c \div b
<1>1. p \in Int /\ q \in Int /\ a % b \in 0 .. b - 1 /\ c % b \in 0 .. b - 1
      /\ a = b * p + (a % b) /\ c = b * q + (c % b)
  BY DivMod
<1>2. ASSUME q < p PROVE FALSE
  <2> DEFINE r == a % b
             s == c % b
  <2> HIDE DEF p, q, r, s
  <2>1. p - q >= 1 /\ b * (p - q) >= b
    BY <1>1, <1>2
  <2>2. b * (p - q) = b * p - b * q
    BY <1>1
  <2>4. r \in 0 .. b - 1 /\ s \in 0 .. b - 1 /\ a = b * p + r /\ c = b * q + s
    BY <1>1 DEF r, s
  <2>3. b * p - b * q = (a - r) - (c - s)
    BY <1>1, <2>4
  <2> QED BY <2>1, <2>2, <2>3, <2>4
<1> HIDE DEF p, q
<1>3. p <= q
  BY <1>1, <1>2
<1> QED BY <1>3 DEF p, q

LEMMA Geometry ==
  /\ NFatEnt \in Nat /\ SS \in Nat /\ SS >= 2 /\ RootSectors \in Nat \ {0} /\ NClusters \in Nat \ {0}
  /\ FatSectors \in Nat \ {0} /\ MaxSize \in Nat /\ MaxSlots \in Nat
  /\ DirBase = 1 + FatSectors /\ DataBase = DirBase + RootSectors
  /\ NFatEnt = NClusters + 2 /\ EOC = NFatEnt /\ Clusters = 2 .. NClusters + 1
<1> USE FatFsConstants
<1>1. NFatEnt \in Nat /\ SS \in Nat \ {0, 1} /\ NFatEnt >= 3
  BY DEF NFatEnt
<1>2. SS \div SS = 1
  <2>1. SS * 1 + 0 = SS
    BY <1>1
  <2> QED BY <1>1, <2>1, DivModUnique
<1>3. FatSectors \in Nat \ {0}
  <2>1. NFatEnt + SS - 1 \in Int /\ SS <= NFatEnt + SS - 1
    BY <1>1
  <2>2. SS \div SS <= FatSectors /\ FatSectors \in Int
    BY <1>1, <2>1, DivMonotonic, DivMod DEF FatSectors
  <2> QED BY <1>2, <2>2
<1>4. MaxSlots \in Nat
  BY DEF MaxSlots
<1> QED BY <1>1, <1>3, <1>4 DEF DirBase, DataBase, NFatEnt, EOC, Clusters

\* The FAT entry of a cluster is in the FAT.
LEMMA FatSectType ==
  ASSUME NEW c \in Clusters
  PROVE  FatSect(c) \in 1 .. FatSectors /\ c % SS \in Cells /\ c \in Nat
<1>1. c \in Nat /\ c <= NFatEnt - 1 /\ SS \in Nat \ {0} /\ NFatEnt \in Nat
  BY Geometry
<1>2. 0 \div SS = 0
  <2>1. SS * 0 + 0 = 0 /\ 0 \in 0 .. SS - 1
    BY <1>1
  <2> QED BY <1>1, <2>1, DivModUnique
<1>3. 0 \div SS <= c \div SS /\ c \div SS <= (NFatEnt - 1) \div SS
  BY <1>1, DivMonotonic
<1>4. FatSectors = ((NFatEnt - 1) \div SS) + 1
  <2>1. NFatEnt + SS - 1 = (NFatEnt - 1) + SS /\ NFatEnt - 1 \in Int
    BY <1>1
  <2>2. ((NFatEnt - 1) + SS) \div SS = ((NFatEnt - 1) \div SS) + 1
    BY <1>1, <2>1, NextMultiple
  <2> QED BY <2>1, <2>2 DEF FatSectors
<1>5. c \div SS \in Int /\ (NFatEnt - 1) \div SS \in Int /\ c % SS \in 0 .. SS - 1
  BY <1>1, DivMod
<1> QED BY <1>1, <1>2, <1>3, <1>4, <1>5 DEF FatSect, Cells

\* The boot sector, the FAT and the root directory.
SystemSectors == 0 .. DataBase - 1

LEMMA Areas ==
  /\ Sectors = 0 .. DataBase + NClusters - 1 /\ DataBase \in Nat /\ DirBase \in Nat
  /\ 1 .. FatSectors \subseteq Sectors /\ DirSectors \subseteq Sectors /\ DataSectors \subseteq Sectors
  /\ DirBase \in DirSectors
  /\ \A c \in Clusters : clst2sect(c) \in DataSectors
  /\ 0 \in Cells /\ 1 \in Cells
  /\ -1 \notin Sectors /\ 0 \in Sectors
  /\ \A s \in DirSectors \cup DataSectors : s \notin 1 .. FatSectors /\ s # 0
  /\ \A s \in Sectors : s = 0 \/ s \in 1 .. FatSectors \/ s \in DirSectors \/ s \in DataSectors
  /\ DirSectors \cap DataSectors = {}
  /\ SystemSectors = {0} \cup (1 .. FatSectors) \cup DirSectors /\ SystemSectors \subseteq Sectors
  /\ SystemSectors \cap DataSectors = {}
BY Geometry DEF Sectors, DirSectors, DataSectors, SystemSectors, clst2sect, Cells

LEMMA ContentsOf ==
  /\ \A s \in 1 .. FatSectors : Contents(s) = FatContents
  /\ \A s \in DirSectors : Contents(s) = [Cells -> DirCells]
  /\ \A s \in DataSectors : Contents(s) = DataContents
  /\ \A s \in DirSectors \cup DataSectors : Contents(s) \subseteq DataContents
  /\ Contents(0) = {Boot, ZeroSector}
<1>1. DirCells \subseteq DataCells
  BY DEF DataCells
<1>2. [Cells -> DirCells] \subseteq [Cells -> DataCells]
  BY <1>1
<1>3. \A s \in 1 .. FatSectors : s # 0
  BY Geometry
<1>4. \A s \in DirSectors : Contents(s) = [Cells -> DirCells]
  BY Areas DEF Contents
<1>5. \A s \in DataSectors : Contents(s) = DataContents
  <2>1. \A s \in DataSectors : s \notin DirSectors
    BY Areas
  <2> QED BY <2>1, Areas DEF Contents
<1> QED BY <1>2, <1>3, <1>4, <1>5 DEF Contents, DataContents

-----------------------------------------------------------------------------
(* Volumes. *)

\* The window on a sector is clean and older than the disk: what a file's buffer
\* writes goes past the window.
Current(x, t) == x.sect = t /\ ~x.dirty => x.win = x.disk[t]

\* Only the window writes the boot sector, the FAT and the root directory, so there
\* it is never older than the disk.
Coherent(x) == \A t \in SystemSectors : Current(x, t)

\* The volumes as a set: the loops below stay in it.
AnyContents == (UNION {Contents(s) : s \in Sectors}) \cup {ZeroSector}
Volumes ==
  {x \in [disk : [Sectors -> AnyContents], win : AnyContents, sect : Sectors \cup {-1},
          dirty : BOOLEAN, last : 0 .. NFatEnt - 1] : IsVolume(x) /\ Coherent(x)}

LEMMA VolumesSet ==
  ASSUME NEW x
  PROVE  IsVolume(x) /\ Coherent(x) <=> x \in Volumes
<1>1. ASSUME IsVolume(x), Coherent(x) PROVE x \in Volumes
  <2>1. x \in [disk : {x.disk}, win : {x.win}, sect : Sectors \cup {-1}, dirty : BOOLEAN,
               last : 0 .. NFatEnt - 1]
    BY <1>1 DEF IsVolume
  <2>2. \A s \in Sectors : x.disk[s] \in AnyContents
    BY <1>1 DEF IsVolume, AnyContents
  <2>3. x.disk \in [Sectors -> AnyContents]
    BY <1>1, <2>2 DEF IsVolume
  <2>4. x.win \in AnyContents
    <3>1. x.sect \in Sectors \cup {-1}
      BY <2>1
    <3>2. CASE x.sect = -1
      <4>1. x.win = ZeroSector
        BY <1>1, <3>2 DEF IsVolume
      <4> QED BY <4>1 DEF AnyContents
    <3>3. CASE x.sect # -1
      BY <1>1, <3>1, <3>3 DEF IsVolume, AnyContents
    <3> QED BY <3>2, <3>3
  <2>5. x \in [disk : [Sectors -> AnyContents], win : AnyContents, sect : Sectors \cup {-1},
          dirty : BOOLEAN, last : 0 .. NFatEnt - 1]
    BY <2>1, <2>3, <2>4
  <2> QED BY <1>1, <2>5 DEF Volumes
<1> QED BY <1>1 DEF Volumes

\* What a volume's fields are, and what makes a record one.
LEMMA VolumeFields ==
  ASSUME NEW x \in Volumes
  PROVE  /\ x.disk \in [Sectors -> AnyContents] /\ x.win \in AnyContents
         /\ x.sect \in Sectors \cup {-1} /\ x.dirty \in BOOLEAN /\ x.last \in 0 .. NFatEnt - 1
         /\ \A s \in Sectors : x.disk[s] \in Contents(s)
         /\ x.sect # -1 => x.win \in Contents(x.sect)
         /\ x.win \in IF x.sect = -1 THEN {ZeroSector} ELSE Contents(x.sect)
         /\ x.dirty => x.sect # -1
         /\ x \in [disk : [Sectors -> AnyContents], win : AnyContents, sect : Sectors \cup {-1},
                  dirty : BOOLEAN, last : 0 .. NFatEnt - 1]
         /\ Coherent(x)
BY DEF Volumes, IsVolume

LEMMA MakesVolume ==
  ASSUME NEW W, NEW x \in [disk : [Sectors -> W], win : W, sect : Sectors \cup {-1},
                          dirty : BOOLEAN, last : 0 .. NFatEnt - 1],
         \A s \in Sectors : x.disk[s] \in Contents(s),
         x.win \in IF x.sect = -1 THEN {ZeroSector} ELSE Contents(x.sect),
         x.dirty => x.sect # -1, Coherent(x)
  PROVE  x \in Volumes
<1>1. x.disk = [s \in Sectors |-> x.disk[s]]
  OBVIOUS
<1>2. x \in [disk : {x.disk}, win : {x.win}, sect : Sectors \cup {-1}, dirty : BOOLEAN,
            last : 0 .. NFatEnt - 1]
  OBVIOUS
<1>3. IsVolume(x)
  BY <1>1, <1>2 DEF IsVolume
<1> QED BY <1>3, VolumesSet

\* The sectors of A that are current stay so and show the same.
Kept(x, y, A) == \A t \in A : Current(x, t) => Current(y, t) /\ Seen(y, t) = Seen(x, t)

LEMMA KeptTransitive ==
  ASSUME NEW A, NEW x, NEW y, NEW z, Kept(x, y, A), Kept(y, z, A)
  PROVE  Kept(x, z, A)
BY DEF Kept

LEMMA KeptSelf ==
  ASSUME NEW A, NEW x
  PROVE  Kept(x, x, A)
BY DEF Kept

LEMMA KeptLess ==
  ASSUME NEW A, NEW B \in SUBSET A, NEW x, NEW y, Kept(x, y, A)
  PROVE  Kept(x, y, B)
BY DEF Kept

LEMMA CoherentKept ==
  ASSUME NEW x \in Volumes, NEW y, NEW A, SystemSectors \subseteq A, Kept(x, y, A)
  PROVE  Coherent(y)
BY VolumeFields DEF Kept, Coherent

LEMMA SyncWindow ==
  ASSUME NEW x \in Volumes
  PROVE  /\ sync_window(x) \in Volumes /\ ~sync_window(x).dirty
         /\ sync_window(x).sect = x.sect /\ sync_window(x).win = x.win
         /\ Kept(x, sync_window(x), Sectors)
<1>1. CASE ~x.dirty
  BY <1>1 DEF sync_window, Kept
<1>2. CASE x.dirty
  <2> DEFINE y == [x EXCEPT !.disk[x.sect] = x.win, !.dirty = FALSE]
  <2>1. x.sect \in Sectors /\ x.win \in Contents(x.sect) /\ sync_window(x) = y
    BY <1>2, VolumeFields DEF sync_window
  <2>2. /\ y \in [disk : [Sectors -> AnyContents], win : AnyContents, sect : Sectors \cup {-1},
                  dirty : BOOLEAN, last : 0 .. NFatEnt - 1]
        /\ y.disk = [x.disk EXCEPT ![x.sect] = x.win] /\ y.win = x.win /\ y.sect = x.sect
        /\ y.dirty = FALSE
    BY <2>1, VolumeFields
  <2> HIDE DEF y
  <2>3. \A s \in Sectors : y.disk[s] \in Contents(s)
    BY <2>1, <2>2, VolumeFields
  <2>4. \A t \in Sectors : Current(x, t) => Current(y, t) /\ Seen(y, t) = Seen(x, t)
    BY <2>1, <2>2, VolumeFields DEF Seen, Current
  <2>5. Kept(x, y, Sectors)
    BY <2>4 DEF Kept
  <2>6. y \in Volumes
    <3>1. Coherent(y)
      BY <2>5, Areas, CoherentKept
    <3> QED BY <2>2, <2>3, <3>1, MakesVolume, VolumeFields
  <2> QED BY <2>1, <2>2, <2>5, <2>6
<1> QED BY <1>1, <1>2, VolumeFields

LEMMA MoveWindow ==
  ASSUME NEW x \in Volumes, NEW s \in Sectors
  PROVE  /\ move_window(x, s) \in Volumes
         /\ move_window(x, s).sect = s
         /\ Kept(x, move_window(x, s), Sectors)
<1>1. CASE s = x.sect
  BY <1>1 DEF move_window, Kept
<1>2. CASE s # x.sect
  <2> DEFINE y == sync_window(x)
             z == [y EXCEPT !.sect = s, !.win = y.disk[s]]
  <2>1. y \in Volumes /\ ~y.dirty /\ y.sect = x.sect /\ Kept(x, y, Sectors) /\ y.win = x.win
    BY SyncWindow
  <2> HIDE DEF y
  <2>2. move_window(x, s) = z
    BY <1>2 DEF move_window, y
  <2>3. /\ z \in [disk : [Sectors -> AnyContents], win : AnyContents, sect : Sectors \cup {-1},
                  dirty : BOOLEAN, last : 0 .. NFatEnt - 1]
        /\ z.disk = y.disk /\ z.win = y.disk[s] /\ z.sect = s /\ z.dirty = y.dirty
    BY <2>1, VolumeFields
  <2> HIDE DEF z
  <2>4. Kept(y, z, Sectors)
    BY <1>2, <2>1, <2>3 DEF Seen, Current, Kept
  <2>5. z \in Volumes
    <3>1. -1 \notin Sectors /\ y.disk[s] \in Contents(s) /\ \A t \in Sectors : z.disk[t] \in Contents(t)
      BY <2>1, <2>3, VolumeFields, Areas
    <3>2. Coherent(z)
      BY <2>1, <2>4, Areas, CoherentKept
    <3> QED BY <2>1, <2>3, <3>1, <3>2, MakesVolume
  <2>6. Kept(x, z, Sectors)
    BY <2>1, <2>4, KeptTransitive
  <2> QED BY <2>2, <2>3, <2>5, <2>6
<1> QED BY <1>1, <1>2

\* A sector with one cell changed.
Put(sector, i, cell) == [sector EXCEPT ![i] = cell]

\* A cell that belongs into the sector of the window.
LEMMA PokeType ==
  ASSUME NEW x \in Volumes, x.sect \in Sectors, NEW i, NEW cell,
         Put(x.win, i, cell) \in Contents(x.sect)
  PROVE  /\ Poke(x, i, cell) \in Volumes
         /\ Poke(x, i, cell).sect = x.sect /\ Poke(x, i, cell).last = x.last
         /\ Poke(x, i, cell).win = Put(x.win, i, cell)
         /\ Poke(x, i, cell).dirty
         /\ Kept(x, Poke(x, i, cell), Sectors \ {x.sect})
<1> DEFINE win == Put(x.win, i, cell)
           y == [x EXCEPT !.win[i] = cell, !.dirty = TRUE]
<1>0. Poke(x, i, cell) = y
  BY DEF Poke
<1>1. /\ y \in [disk : [Sectors -> AnyContents], win : {win}, sect : Sectors \cup {-1},
                  dirty : BOOLEAN, last : 0 .. NFatEnt - 1]
      /\ y.disk = x.disk /\ y.win = win /\ y.sect = x.sect /\ y.dirty = TRUE /\ y.last = x.last
  BY VolumeFields DEF Put
<1> HIDE DEF y
<1>2. y \in Volumes
  <2> HIDE DEF win
  <2>1. -1 \notin Sectors /\ \A t \in Sectors : y.disk[t] \in Contents(t)
    BY <1>1, VolumeFields, Areas
  <2>2. y.win \in Contents(y.sect) /\ y.sect # -1
    BY <1>1, <2>1 DEF win
  <2>3. y.win \in AnyContents
    BY <1>1, <2>2 DEF AnyContents
  <2>4. y \in [disk : [Sectors -> AnyContents], win : AnyContents, sect : Sectors \cup {-1},
                  dirty : BOOLEAN, last : 0 .. NFatEnt - 1]
    BY <1>1, <2>3
  <2>5. Coherent(y)
    BY <1>1, VolumeFields DEF Coherent, Current
  <2> QED BY <1>1, <2>1, <2>2, <2>4, <2>5, MakesVolume
<1>3. Kept(x, y, Sectors \ {x.sect})
  BY <1>1 DEF Kept, Current, Seen
<1> QED BY <1>0, <1>1, <1>2, <1>3

\* last_clst holds any cluster.
LEMMA LastType ==
  ASSUME NEW x \in Volumes, NEW c \in 0 .. NFatEnt - 1
  PROVE  /\ [x EXCEPT !.last = c] \in Volumes
         /\ [x EXCEPT !.last = c].sect = x.sect /\ [x EXCEPT !.last = c].win = x.win
         /\ Kept(x, [x EXCEPT !.last = c], Sectors)
<1> DEFINE y == [x EXCEPT !.last = c]
<1>1. /\ y \in [disk : [Sectors -> AnyContents], win : AnyContents, sect : Sectors \cup {-1},
                  dirty : BOOLEAN, last : 0 .. NFatEnt - 1]
      /\ y.disk = x.disk /\ y.win = x.win /\ y.sect = x.sect /\ y.dirty = x.dirty
  BY VolumeFields
<1> HIDE DEF y
<1>2. Coherent(y)
  BY <1>1, VolumeFields DEF Coherent, Current
<1>3. y \in Volumes
  BY <1>1, <1>2, VolumeFields, MakesVolume
<1>4. Kept(x, y, Sectors)
  BY <1>1 DEF Kept, Current, Seen
<1> QED BY <1>1, <1>3, <1>4 DEF y
-----------------------------------------------------------------------------
(* The FAT. *)

\* A FAT entry, read: a number that is a cluster's, 0 for a free cluster, 1 for no
\* cluster's entry, or an end mark.
LEMMA GetFat ==
  ASSUME NEW x \in Volumes, NEW c
  PROVE  /\ get_fat(x, c) \in 0 .. EOC
         /\ c \notin Clusters => get_fat(x, c) = 1
<1>1. CASE c \in Clusters
  <2>1. FatSect(c) \in 1 .. FatSectors /\ c % SS \in Cells
    BY <1>1, FatSectType
  <2>2. FatSect(c) \in Sectors /\ FatSect(c) # -1
    BY <2>1, Areas
  <2>3. Seen(x, FatSect(c)) \in Contents(FatSect(c))
    BY <2>2, VolumeFields DEF Seen
  <2>4. Seen(x, FatSect(c)) \in [Cells -> 0 .. EOC]
    BY <2>1, <2>3, ContentsOf DEF FatContents
  <2> QED BY <1>1, <2>1, <2>4 DEF get_fat
<1>2. CASE c \notin Clusters
  BY <1>2, Geometry DEF get_fat
<1> QED BY <1>1, <1>2

LEMMA FatValues ==
  ASSUME NEW n \in 0 .. EOC
  PROVE  /\ n \in Nat /\ (n > 1 /\ n < NFatEnt <=> n \in Clusters) /\ (n >= NFatEnt <=> n = EOC)
BY Geometry

LEMMA AtFatType ==
  ASSUME NEW x \in Volumes, NEW c
  PROVE  AtFat(x, c) \in Volumes /\ Kept(x, AtFat(x, c), Sectors)
<1>1. CASE c \in Clusters
  <2>1. FatSect(c) \in Sectors
    BY <1>1, FatSectType, Areas
  <2> QED BY <1>1, <2>1, MoveWindow DEF AtFat
<1>2. CASE c \notin Clusters
  BY <1>2, KeptSelf DEF AtFat
<1> QED BY <1>1, <1>2

\* The sectors of directories and data, and with the boot sector all that the FAT's
\* functions leave alone.
ObjectSectors == DirSectors \cup DataSectors
BesideFat == {0} \cup ObjectSectors

\* The FAT entry of a cluster, and how a call may change it: the chain of a file or a
\* directory grows at its end, or its clusters become free.  Neither makes an entry
\* that names a cluster name another one.
FatCell(x, c) == Seen(x, FatSect(c))[c % SS]
Extends(x, y) ==
  \A c \in Clusters :
    FatCell(y, c) # FatCell(x, c) =>
      FatCell(x, c) = 0 \/ (FatCell(x, c) = EOC /\ FatCell(y, c) \in Clusters)
Frees(x, y) == \A c \in Clusters : FatCell(y, c) \in {FatCell(x, c), 0}
FatKept(x, y) == \A c \in Clusters : FatCell(y, c) = FatCell(x, c)

LEMMA ExtendsTransitive ==
  ASSUME NEW x, NEW y, NEW z, Extends(x, y), Extends(y, z)
  PROVE  Extends(x, z)
<1>1. 0 \notin Clusters /\ EOC \notin Clusters /\ 0 # EOC
  BY Geometry
<1> SUFFICES ASSUME NEW c \in Clusters, FatCell(z, c) # FatCell(x, c), FatCell(x, c) # 0
             PROVE  FatCell(x, c) = EOC /\ FatCell(z, c) \in Clusters
  BY DEF Extends
<1>2. CASE FatCell(y, c) = FatCell(x, c)
  BY <1>2 DEF Extends
<1>3. CASE FatCell(y, c) # FatCell(x, c)
  BY <1>1, <1>3 DEF Extends
<1> QED BY <1>2, <1>3

LEMMA FreesTransitive ==
  ASSUME NEW x, NEW y, NEW z, Frees(x, y), Frees(y, z)
  PROVE  Frees(x, z)
BY DEF Frees

\* No chain is led over to another one: an entry that names a cluster keeps naming it,
\* or is freed.
NoRelink(x, y) ==
  \A c \in Clusters : FatCell(x, c) \in Clusters => FatCell(y, c) \in {FatCell(x, c), 0}

LEMMA LinksKept ==
  ASSUME NEW x, NEW y
  PROVE  /\ Extends(x, y) => NoRelink(x, y)
         /\ \A z : Extends(x, y) /\ Frees(y, z) => NoRelink(x, z)
BY Geometry DEF Extends, Frees, NoRelink

\* A call that keeps the FAT keeps every chain.
LEMMA KeptFat ==
  ASSUME NEW x \in Volumes, NEW y, NEW A, 1 .. FatSectors \subseteq A, Kept(x, y, A)
  PROVE  FatKept(x, y) /\ Extends(x, y) /\ Frees(x, y)
<1>1. \A c \in Clusters : FatSect(c) \in 1 .. FatSectors
  BY FatSectType
<1>2. \A t \in 1 .. FatSectors : Current(x, t) /\ Seen(y, t) = Seen(x, t)
  BY VolumeFields, Areas DEF Coherent, Kept
<1>3. \A c \in Clusters : FatCell(y, c) = FatCell(x, c)
  BY <1>1, <1>2 DEF FatCell
<1> QED BY <1>3 DEF Extends, Frees, FatKept

LEMMA SameFat ==
  ASSUME NEW x \in Volumes, NEW y, Kept(x, y, Sectors)
  PROVE  /\ \A c \in Clusters : FatCell(y, c) = FatCell(x, c)
         /\ Extends(x, y) /\ Frees(x, y)
BY Areas, KeptFat DEF FatKept

\* Two clusters have two FAT entries.
LEMMA FatCells ==
  ASSUME NEW c \in Clusters, NEW d \in Clusters, FatSect(c) = FatSect(d), c % SS = d % SS
  PROVE  c = d
<1>1. c \in Int /\ d \in Int /\ SS \in Nat \ {0}
  BY Geometry
<1>2. c \div SS \in Int /\ d \div SS \in Int
  BY <1>1, DivMod
<1>3. c \div SS = d \div SS
  BY <1>2 DEF FatSect
<1> QED BY <1>1, <1>3, SameDivMod

LEMMA PutFat ==
  ASSUME NEW x \in Volumes, NEW c \in Clusters, NEW val \in 0 .. EOC
  PROVE  /\ put_fat(x, c, val) \in Volumes
         /\ put_fat(x, c, val).last \in 0 .. NFatEnt - 1
         /\ \A d \in Clusters : FatCell(put_fat(x, c, val), d) = IF d = c THEN val ELSE FatCell(x, d)
         /\ Kept(x, put_fat(x, c, val), BesideFat)
<1> DEFINE s == FatSect(c)
           y == move_window(x, s)
           z == Poke(y, c % SS, val)
<1>1. s \in 1 .. FatSectors /\ s \in Sectors /\ c % SS \in Cells /\ s \notin BesideFat
  <2>1. s \in 1 .. FatSectors /\ c % SS \in Cells
    BY FatSectType
  <2> HIDE DEF s
  <2> QED BY <2>1, Areas, Geometry DEF ObjectSectors, BesideFat
<1>2. y \in Volumes /\ y.sect = s /\ Kept(x, y, Sectors)
  BY <1>1, MoveWindow
<1>3. y.win \in FatContents /\ Seen(y, s) = y.win
  <2>1. s # -1
    BY <1>1, Areas
  <2> HIDE DEF y, s
  <2> QED BY <1>1, <1>2, <2>1, VolumeFields, ContentsOf DEF Seen
<1> HIDE DEF y
<1>4. Put(y.win, c % SS, val) \in Contents(y.sect) /\ Put(y.win, c % SS, val)[c % SS] = val
  BY <1>1, <1>2, <1>3, ContentsOf DEF FatContents, Put
<1>5. /\ z \in Volumes /\ z.sect = s /\ Kept(y, z, Sectors \ {s})
      /\ z.win = Put(y.win, c % SS, val)
  <2>1. y.sect \in Sectors
    BY <1>1, <1>2
  <2>2. /\ z \in Volumes /\ z.sect = y.sect /\ Kept(y, z, Sectors \ {y.sect})
        /\ z.win = Put(y.win, c % SS, val)
    BY <1>2, <1>4, <2>1, PokeType
  <2> QED BY <1>2, <2>2
<1>6. Kept(x, z, BesideFat)
  <2>1. BesideFat \subseteq Sectors \ {s} /\ BesideFat \subseteq Sectors
    BY <1>1, Areas DEF ObjectSectors, BesideFat
  <2>2. Kept(x, y, BesideFat) /\ Kept(y, z, BesideFat)
    BY <1>2, <1>5, <2>1 DEF Kept
  <2> QED BY <2>2, KeptTransitive
<1>7. put_fat(x, c, val) = z
  BY DEF put_fat, y, s
<1>8. z.last \in 0 .. NFatEnt - 1
  BY <1>5, VolumeFields
<1> HIDE DEF z
<1>9. ASSUME NEW d \in Clusters PROVE FatCell(z, d) = IF d = c THEN val ELSE FatCell(x, d)
  <2>1. FatCell(y, d) = FatCell(x, d)
    BY <1>2, SameFat
  <2>2. FatSect(d) \in SystemSectors /\ FatSect(d) \in Sectors /\ d % SS \in Cells
    BY FatSectType, Areas
  <2>3. Seen(z, s) = z.win
    BY <1>5 DEF Seen
  <2>4. CASE d = c
    BY <1>4, <1>5, <2>3, <2>4 DEF FatCell, s
  <2>5. CASE d # c /\ FatSect(d) = s
    <3>1. d % SS # c % SS
      BY <2>5, FatCells DEF s
    <3>2. z.win[d % SS] = y.win[d % SS]
      BY <1>3, <1>5, <2>2, <3>1 DEF Put, FatContents
    <3> QED BY <1>3, <2>1, <2>3, <2>5, <3>2 DEF FatCell
  <2>6. CASE d # c /\ FatSect(d) # s
    <3>1. Current(y, FatSect(d))
      BY <1>2, <2>2, VolumeFields DEF Coherent
    <3>2. Seen(z, FatSect(d)) = Seen(y, FatSect(d))
      BY <1>5, <2>2, <2>6, <3>1 DEF Kept
    <3> QED BY <2>1, <2>6, <3>2 DEF FatCell
  <2> QED BY <2>4, <2>5, <2>6
<1> QED BY <1>5, <1>6, <1>7, <1>8, <1>9
\* Freeing a chain touches the FAT and nothing else.
LEMMA RemoveRound ==
  ASSUME NEW x, NEW l \in [v : Volumes, clst : 0 .. EOC], Kept(x, l.v, BesideFat),
         Frees(x, l.v)
  PROVE  /\ RemoveNext(l) \in [v : Volumes, clst : 0 .. EOC] /\ Kept(x, RemoveNext(l).v, BesideFat)
         /\ Frees(x, RemoveNext(l).v)
<1> DEFINE nxt == get_fat(l.v, l.clst)
<1>1. l.v \in Volumes /\ l.clst \in 0 .. EOC /\ nxt \in 0 .. EOC /\ 0 \in 0 .. EOC /\ BesideFat \subseteq Sectors
  BY GetFat, FatValues, Areas, Geometry DEF ObjectSectors, BesideFat
<1>2. CASE l.clst = 0
  BY <1>2 DEF RemoveNext
<1>3. CASE l.clst # 0 /\ nxt <= 1
  <2>1. AtFat(l.v, l.clst) \in Volumes /\ Kept(l.v, AtFat(l.v, l.clst), Sectors)
    BY <1>1, AtFatType
  <2>2. Kept(x, AtFat(l.v, l.clst), BesideFat)
    BY <1>1, <2>1 DEF Kept
  <2>3. Frees(x, AtFat(l.v, l.clst))
    <3>1. Frees(l.v, AtFat(l.v, l.clst))
      BY <1>1, <2>1, SameFat
    <3> QED BY <3>1, FreesTransitive
  <2> QED BY <1>1, <1>3, <2>1, <2>2, <2>3 DEF RemoveNext
<1>4. CASE l.clst # 0 /\ ~(nxt <= 1)
  <2> DEFINE y == put_fat(l.v, l.clst, 0)
             n == IF nxt < NFatEnt THEN nxt ELSE 0
  <2>1. l.clst \in Clusters
    BY <1>1, <1>4, GetFat
  <2>2. y \in Volumes /\ Kept(l.v, y, BesideFat) /\ Frees(l.v, y)
    BY <1>1, <2>1, PutFat DEF Frees
  <2>3. Kept(x, y, BesideFat) /\ Frees(x, y)
    BY <2>2, KeptTransitive, FreesTransitive
  <2>4. RemoveNext(l) = [v |-> y, clst |-> n] /\ n \in 0 .. EOC
    BY <1>1, <1>4 DEF RemoveNext
  <2> HIDE DEF y, n
  <2> QED BY <2>2, <2>3, <2>4
<1> QED BY <1>2, <1>3, <1>4

LEMMA RemoveChain ==
  ASSUME NEW x \in Volumes, NEW c \in 0 .. EOC
  PROVE  /\ remove_chain(x, c) \in Volumes /\ Kept(x, remove_chain(x, c), BesideFat)
         /\ Frees(x, remove_chain(x, c))
<1> DEFINE S == {l \in [v : Volumes, clst : 0 .. EOC] : Kept(x, l.v, BesideFat) /\ Frees(x, l.v)}
           start == [v |-> x, clst |-> c]
           n == MaxChain
           Rows(f) == f = [k \in 0 .. n |-> IF k = 0 THEN start ELSE RemoveNext(f[k - 1])]
           after == CHOOSE f : Rows(f)
           step == [k \in 1 .. n |-> [l \in S |-> RemoveNext(l)]]
<1>1. n \in Nat
  BY Geometry DEF MaxChain
<1>2. start \in S
  BY KeptSelf DEF Frees
<1>3. \A l \in S : RemoveNext(l) \in S
  BY RemoveRound
<1>4. remove_chain(x, c) = after[n].v
  BY DEF remove_chain, Times
<1> HIDE DEF S, start, n
<1>5. step \in [1 .. n -> [S -> S]]
  BY <1>3
<1>6. PICK f \in [0 .. n -> S] : f[0] = start /\ \A k \in 1 .. n : f[k] = step[k][f[k - 1]]
  <2>1. FillsTable(step, n, S, start)
    BY <1>1, <1>2, <1>5, TableExists DEF RowFunction
  <2> QED BY <2>1 DEF FillsTable
<1>7. Rows(f)
  <2>1. \A k \in 1 .. n : f[k] = RemoveNext(f[k - 1])
    <3> TAKE k \in 1 .. n
    <3>1. f[k - 1] \in S /\ f[k] = step[k][f[k - 1]]
      BY <1>1, <1>6
    <3>2. step[k] = [l \in S |-> RemoveNext(l)]
      OBVIOUS
    <3> QED BY <3>1, <3>2
  <2>2. \A k \in 0 .. n : f[k] = IF k = 0 THEN start ELSE RemoveNext(f[k - 1])
    BY <1>6, <2>1
  <2> QED BY <2>2
<1>8. Rows(after)
  <2> HIDE DEF Rows
  <2> QED BY <1>7
<1> HIDE DEF after
<1>9. after[n] \in S
  <2>1. after[0] \in S /\ \A k \in 1 .. n : after[k] = RemoveNext(after[k - 1])
    BY <1>1, <1>2, <1>8
  <2>2. \A k \in 1 .. n : after[k - 1] \in S => after[k] \in S
    BY <1>3, <2>1
  <2>3. \A k \in 0 .. n : after[k] \in S
    BY <1>1, <2>1, <2>2, StaysIn
  <2> QED BY <1>1, <2>3
<1> QED BY <1>4, <1>9 DEF S
\* Looking for a free cluster only moves the window.
Vacant(l) == l.free => l.clst \in Clusters /\ FatCell(l.v, l.clst) = 0
IsFree(found) == found.clst # 0 => FatCell(found.v, found.clst) = 0

LEMMA TryRound ==
  ASSUME NEW x, NEW l \in [v : Volumes, clst : 1 .. NFatEnt - 1, free : BOOLEAN],
         Kept(x, l.v, Sectors), Vacant(l)
  PROVE  /\ TryNext(l) \in [v : Volumes, clst : 1 .. NFatEnt - 1, free : BOOLEAN]
         /\ Kept(x, TryNext(l).v, Sectors)
         /\ Vacant(TryNext(l))
<1> DEFINE c == Around(l.clst)
           y == AtFat(l.v, c)
           free == get_fat(l.v, c) = 0
<1>1. CASE l.free
  BY <1>1 DEF TryNext
<1>2. CASE ~l.free
  <2>1. c \in Clusters /\ c \in 1 .. NFatEnt - 1
    BY Geometry DEF Around
  <2>2. y \in Volumes /\ Kept(l.v, y, Sectors) /\ l.v \in Volumes
    BY AtFatType
  <2>3. Kept(x, y, Sectors)
    BY <2>2, KeptTransitive
  <2>4. TryNext(l) = [v |-> y, clst |-> c, free |-> free] /\ free \in BOOLEAN
    BY <1>2 DEF TryNext
  <2>5. free => FatCell(y, c) = 0
    <3>1. FatCell(y, c) = FatCell(l.v, c)
      BY <2>1, <2>2, SameFat
    <3> QED BY <2>1, <3>1 DEF get_fat, FatCell
  <2> HIDE DEF y, c, free
  <2> QED BY <2>1, <2>2, <2>3, <2>4, <2>5 DEF Vacant
<1> QED BY <1>1, <1>2

LEMMA FindFreeType ==
  ASSUME NEW x \in Volumes, NEW scl \in 1 .. NFatEnt - 1
  PROVE  /\ FindFree(x, scl) \in [v : Volumes, clst : {0} \cup Clusters]
         /\ Kept(x, FindFree(x, scl).v, Sectors) /\ IsFree(FindFree(x, scl))
<1> DEFINE S == {l \in [v : Volumes, clst : 1 .. NFatEnt - 1, free : BOOLEAN] :
                    Kept(x, l.v, Sectors) /\ Vacant(l)}
           start == [v |-> x, clst |-> scl, free |-> FALSE]
           n == NClusters
           Round(l) == TryNext(l)
           Rows(f) == f = [k \in 0 .. n |-> IF k = 0 THEN start ELSE Round(f[k - 1])]
           after == CHOOSE f : Rows(f)
           step == [k \in 1 .. n |-> [l \in S |-> Round(l)]]
<1>1. n \in Nat
  BY Geometry
<1>2. start \in S
  BY KeptSelf DEF Vacant
<1>3. \A l \in S : Round(l) \in S
  BY TryRound
<1>4. Times(TryNext, [v |-> x, clst |-> scl, free |-> FALSE], NClusters) = after[n]
  BY DEF Times
<1> HIDE DEF S, start, n, Round
<1>5. step \in [1 .. n -> [S -> S]]
  BY <1>3
<1>6. PICK f \in [0 .. n -> S] : f[0] = start /\ \A k \in 1 .. n : f[k] = step[k][f[k - 1]]
  <2>1. FillsTable(step, n, S, start)
    BY <1>1, <1>2, <1>5, TableExists DEF RowFunction
  <2> QED BY <2>1 DEF FillsTable
<1>7. Rows(f)
  <2>1. \A k \in 1 .. n : f[k] = Round(f[k - 1])
    <3> TAKE k \in 1 .. n
    <3>1. f[k - 1] \in S /\ f[k] = step[k][f[k - 1]]
      BY <1>1, <1>6
    <3>2. step[k] = [l \in S |-> Round(l)]
      OBVIOUS
    <3> QED BY <3>1, <3>2
  <2>2. \A k \in 0 .. n : f[k] = IF k = 0 THEN start ELSE Round(f[k - 1])
    BY <1>6, <2>1
  <2> QED BY <2>2
<1>8. Rows(after)
  <2> HIDE DEF Rows
  <2> QED BY <1>7
<1> HIDE DEF after
<1>9. after[n] \in S
  <2>1. after[0] \in S /\ \A k \in 1 .. n : after[k] = Round(after[k - 1])
    BY <1>1, <1>2, <1>8
  <2>2. \A k \in 1 .. n : after[k - 1] \in S => after[k] \in S
    BY <1>3, <2>1
  <2>3. \A k \in 0 .. n : after[k] \in S
    BY <1>1, <2>1, <2>2, StaysIn
  <2> QED BY <1>1, <2>3
<1> DEFINE c == IF after[n].free THEN after[n].clst ELSE 0
<1>10. FindFree(x, scl) = [v |-> after[n].v, clst |-> c]
  BY <1>4 DEF FindFree
<1>11. /\ after[n].v \in Volumes /\ Vacant(after[n])
       /\ Kept(x, after[n].v, Sectors)
  BY <1>9 DEF S
<1>12. c \in {0} \cup Clusters /\ (c # 0 => FatCell(after[n].v, c) = 0)
  BY <1>11 DEF Vacant
<1> HIDE DEF c
<1> QED BY <1>10, <1>11, <1>12 DEF IsFree

LEMMA LinkType ==
  ASSUME NEW x \in Volumes, NEW new \in Clusters, NEW prev \in {0} \cup Clusters,
         FatCell(x, new) = 0, prev # 0 => FatCell(x, prev) = EOC
  PROVE  /\ Link(x, new, prev) \in Volumes /\ Kept(x, Link(x, new, prev), BesideFat)
         /\ Extends(x, Link(x, new, prev))
<1> DEFINE y == put_fat(x, new, EOC)
           z == IF prev = 0 THEN y ELSE put_fat(y, prev, new)
<1>1. EOC \in 0 .. EOC /\ new \in 0 .. EOC /\ new \in 0 .. NFatEnt - 1 /\ 0 \notin Clusters
      /\ BesideFat \subseteq Sectors /\ 0 # EOC
  BY Geometry, Areas DEF ObjectSectors, BesideFat
<1>2. /\ y \in Volumes /\ Kept(x, y, BesideFat)
      /\ \A d \in Clusters : FatCell(y, d) = IF d = new THEN EOC ELSE FatCell(x, d)
  <2>1. EOC \in 0 .. EOC
    BY <1>1
  <2> QED BY <2>1, PutFat
<1> HIDE DEF y
<1>3. /\ z \in Volumes /\ Kept(y, z, BesideFat)
      /\ \A d \in Clusters : FatCell(z, d) = IF prev # 0 /\ d = prev THEN new ELSE FatCell(y, d)
  <2>1. CASE prev = 0
    BY <1>2, <2>1, KeptSelf
  <2>2. CASE prev # 0
    <3>1. prev \in Clusters
      BY <2>2
    <3> QED BY <1>1, <1>2, <2>2, <3>1, PutFat
  <2> QED BY <2>1, <2>2
<1> HIDE DEF z
<1>4. [z EXCEPT !.last = new] \in Volumes /\ Kept(z, [z EXCEPT !.last = new], Sectors)
  BY <1>1, <1>3, LastType
<1>5. Link(x, new, prev) = [z EXCEPT !.last = new]
  BY DEF Link, z, y
<1>6. Kept(x, [z EXCEPT !.last = new], BesideFat)
  BY <1>1, <1>2, <1>3, <1>4 DEF Kept
<1> DEFINE u == [z EXCEPT !.last = new]
<1>7. \A d \in Clusters : FatCell(u, d) = FatCell(z, d)
  BY <1>3, <1>4, SameFat
<1> HIDE DEF u
<1>8. Extends(x, u)
  BY <1>1, <1>2, <1>3, <1>7 DEF Extends
<1> QED BY <1>4, <1>5, <1>6, <1>8 DEF u

\* A cluster for a chain to go on with: none, no such chain, or a cluster.
Grown(x) == {r \in [v : Volumes, clst : {0, 1} \cup Clusters] :
              Kept(x, r.v, BesideFat) /\ Extends(x, r.v)}

LEMMA StretchedType ==
  ASSUME NEW x \in Volumes, NEW found \in [v : Volumes, clst : {0} \cup Clusters],
         Kept(x, found.v, Sectors), IsFree(found), NEW c \in {0} \cup Clusters,
         c # 0 => FatCell(found.v, c) = EOC
  PROVE  Stretched(found, c) \in Grown(x) /\ Stretched(found, c).clst # 1
<1> DEFINE y == Link(found.v, found.clst, c)
<1>1. 1 \notin Clusters /\ 0 \notin Clusters /\ Kept(x, found.v, BesideFat) /\ Extends(x, found.v)
  <2>1. BesideFat \in SUBSET Sectors
    BY Areas DEF BesideFat, ObjectSectors
  <2>2. Kept(x, found.v, BesideFat)
    BY <2>1, KeptLess
  <2>3. Extends(x, found.v)
    BY SameFat
  <2> QED BY <2>2, <2>3, Geometry
<1>2. CASE found.clst = 0
  BY <1>1, <1>2 DEF Stretched, Grown
<1>3. CASE found.clst # 0
  <2>1. y \in Volumes /\ Kept(found.v, y, BesideFat) /\ Extends(found.v, y)
    <3>1. found.v \in Volumes /\ found.clst \in Clusters /\ FatCell(found.v, found.clst) = 0
      BY <1>3 DEF IsFree
    <3> QED BY <3>1, LinkType
  <2>2. Kept(x, y, BesideFat) /\ Extends(x, y)
    BY <1>1, <2>1, KeptTransitive, ExtendsTransitive
  <2>3. Stretched(found, c) = [v |-> y, clst |-> found.clst] /\ found.clst \in Clusters
    BY <1>3 DEF Stretched
  <2> HIDE DEF y
  <2> QED BY <1>1, <2>1, <2>2, <2>3 DEF Grown
<1> QED BY <1>2, <1>3

LEMMA FreeAfterType ==
  ASSUME NEW x \in Volumes, NEW c \in {0} \cup Clusters
  PROVE  /\ FreeAfter(x, c) \in [v : Volumes, clst : {0} \cup Clusters]
         /\ Kept(x, FreeAfter(x, c).v, Sectors) /\ IsFree(FreeAfter(x, c))
<1> DEFINE near == Around(c)
           y == AtFat(x, near)
           first == IF x.last = 0 THEN 1 ELSE x.last
           scl == IF x.last \in Clusters THEN x.last ELSE c
<1>1. near \in Clusters /\ x.last \in 0 .. NFatEnt - 1
  BY Geometry, VolumeFields DEF Around
<1>2. y \in Volumes /\ Kept(x, y, Sectors)
  BY <1>1, AtFatType
<1>6. get_fat(x, near) = 0 => FatCell(y, near) = 0
  BY <1>1, <1>2, SameFat DEF get_fat, FatCell
<1> HIDE DEF near, y
<1>3. CASE c = 0
  <2>1. first \in 1 .. NFatEnt - 1
    BY <1>1, Geometry
  <2>2. FreeAfter(x, c) = FindFree(x, first)
    BY <1>3 DEF FreeAfter
  <2> HIDE DEF first
  <2> QED BY <2>1, <2>2, FindFreeType
<1>4. CASE c # 0 /\ get_fat(x, near) = 0
  <2>1. FreeAfter(x, c) = [v |-> y, clst |-> near]
    BY <1>4 DEF FreeAfter, near, y
  <2> QED BY <1>1, <1>2, <1>4, <1>6, <2>1 DEF IsFree
<1>5. CASE c # 0 /\ get_fat(x, near) # 0
  <2>1. scl \in 1 .. NFatEnt - 1
    BY <1>1, <1>5, Geometry
  <2>2. FreeAfter(x, c) = FindFree(y, scl)
    BY <1>5 DEF FreeAfter, near, y
  <2> HIDE DEF scl
  <2>3. /\ FindFree(y, scl) \in [v : Volumes, clst : {0} \cup Clusters]
        /\ Kept(y, FindFree(y, scl).v, Sectors)
        /\ IsFree(FindFree(y, scl))
    BY <1>2, <2>1, FindFreeType
  <2>4. Kept(x, FindFree(y, scl).v, Sectors)
    BY <1>2, <2>3, KeptTransitive
  <2> QED BY <2>2, <2>3, <2>4
<1> QED BY <1>3, <1>4, <1>5

LEMMA CreateChain ==
  ASSUME NEW x \in Volumes, NEW c \in 0 .. EOC
  PROVE  create_chain(x, c) \in Grown(x) /\ (c = 0 => create_chain(x, c).clst # 1)
<1> DEFINE cs == get_fat(x, c)
           y == AtFat(x, c)
<1>1. /\ cs \in 0 .. EOC /\ y \in Volumes /\ Kept(x, y, BesideFat) /\ Kept(x, y, Sectors)
      /\ Extends(x, y)
  <2>1. cs \in 0 .. EOC /\ y \in Volumes /\ Kept(x, y, Sectors)
    BY GetFat, AtFatType
  <2>2. BesideFat \in SUBSET Sectors
    BY Areas DEF BesideFat, ObjectSectors
  <2> HIDE DEF y
  <2> QED BY <2>1, <2>2, SameFat, KeptLess
<1>2. CASE c = 0
  <2>1. /\ FreeAfter(x, 0) \in [v : Volumes, clst : {0} \cup Clusters] /\ Kept(x, FreeAfter(x, 0).v, Sectors)
        /\ IsFree(FreeAfter(x, 0))
    BY FreeAfterType
  <2>2. create_chain(x, c) = Stretched(FreeAfter(x, 0), 0)
    BY <1>2 DEF create_chain
  <2> QED BY <2>1, <2>2, StretchedType
<1>3. CASE c # 0 /\ cs < 2
  <2>1. create_chain(x, c) = [v |-> y, clst |-> 1]
    BY <1>3 DEF create_chain
  <2> HIDE DEF y
  <2> QED BY <1>1, <1>3, <2>1 DEF Grown
<1>4. CASE c # 0 /\ ~(cs < 2) /\ cs < NFatEnt
  <2>1. create_chain(x, c) = [v |-> y, clst |-> cs] /\ cs \in Clusters
    BY <1>1, <1>4, FatValues DEF create_chain
  <2> HIDE DEF y, cs
  <2> QED BY <1>1, <1>4, <2>1 DEF Grown
<1>5. CASE c # 0 /\ ~(cs < 2) /\ ~(cs < NFatEnt)
  <2>1. c \in Clusters /\ FatCell(y, c) = EOC
    <3>1. c \in Clusters
      BY <1>5, GetFat
    <3>2. cs = EOC
      BY <1>1, <1>5, Geometry
    <3>3. FatCell(x, c) = EOC
      BY <3>1, <3>2 DEF get_fat, FatCell
    <3> QED BY <1>1, <3>1, <3>3, SameFat
  <2>2. create_chain(x, c) = Stretched(FreeAfter(y, c), c)
    BY <1>5 DEF create_chain
  <2> HIDE DEF y
  <2>3. /\ FreeAfter(y, c) \in [v : Volumes, clst : {0} \cup Clusters] /\ Kept(y, FreeAfter(y, c).v, Sectors)
        /\ IsFree(FreeAfter(y, c)) /\ FatCell(FreeAfter(y, c).v, c) = EOC
    BY <1>1, <2>1, FreeAfterType, SameFat
  <2>4. Kept(x, FreeAfter(y, c).v, Sectors)
    BY <1>1, <2>3, KeptTransitive
  <2> QED BY <1>5, <2>1, <2>2, <2>3, <2>4, StretchedType
<1> QED BY <1>2, <1>3, <1>4, <1>5

\* What a call may do to a volume besides moving its window: nothing that another
\* call would see, or let chains grow, the boot sector and the root directory left
\* alone.  A search does the one, or the other if it may stretch its table.
Same(x, y) == Kept(x, y, SystemSectors)
Grows(x, y) == Kept(x, y, {0} \cup DirSectors) /\ Extends(x, y)
Moves(stretch, x, y) == Grows(x, y) /\ (~stretch => Same(x, y))

LEMMA Unmoved ==
  ASSUME NEW x
  PROVE  Same(x, x) /\ Grows(x, x) /\ Extends(x, x) /\ Frees(x, x) /\ \A stretch : Moves(stretch, x, x)
BY KeptSelf DEF Same, Grows, Moves, Extends, Frees

LEMMA StillSame ==
  ASSUME NEW x, NEW y, Kept(x, y, Sectors)
  PROVE  Same(x, y)
<1>1. SystemSectors \in SUBSET Sectors
  BY Areas
<1> QED BY <1>1, KeptLess DEF Same

LEMMA SameGrows ==
  ASSUME NEW x \in Volumes, NEW y, Same(x, y)
  PROVE  /\ Grows(x, y) /\ FatKept(x, y) /\ Extends(x, y) /\ Frees(x, y)
         /\ \A stretch : Moves(stretch, x, y)
<1>1. {0} \cup DirSectors \in SUBSET SystemSectors /\ 1 .. FatSectors \subseteq SystemSectors
  BY Areas
<1>2. Kept(x, y, {0} \cup DirSectors)
  BY <1>1, KeptLess DEF Same
<1>3. FatKept(x, y) /\ Extends(x, y) /\ Frees(x, y)
  BY <1>1, KeptFat DEF Same
<1> QED BY <1>2, <1>3 DEF Grows, Moves

LEMMA SameTransitive ==
  ASSUME NEW x, NEW y, NEW z, Same(x, y), Same(y, z)
  PROVE  Same(x, z)
BY KeptTransitive DEF Same

LEMMA GrowsTransitive ==
  ASSUME NEW x, NEW y, NEW z, Grows(x, y), Grows(y, z)
  PROVE  Grows(x, z)
BY KeptTransitive, ExtendsTransitive DEF Grows

LEMMA MovesTransitive ==
  ASSUME NEW stretch, NEW x, NEW y, NEW z, Moves(stretch, x, y), Moves(stretch, y, z)
  PROVE  Moves(stretch, x, z)
BY SameTransitive, GrowsTransitive DEF Moves

LEMMA CreateGrows ==
  ASSUME NEW x \in Volumes, NEW c \in 0 .. EOC
  PROVE  Grows(x, create_chain(x, c).v)
<1>1. Kept(x, create_chain(x, c).v, BesideFat) /\ Extends(x, create_chain(x, c).v)
  BY CreateChain DEF Grown
<1>2. {0} \cup DirSectors \in SUBSET BesideFat
  BY DEF BesideFat, ObjectSectors
<1> QED BY <1>1, <1>2, KeptLess DEF Grows

\* Writing a cell of a directory changes no other cell, and not the FAT.
OnlyCell(x, y, s, i) ==
  \A t \in SystemSectors, j \in Cells : Seen(y, t)[j] = Seen(x, t)[j] \/ (t = s /\ j = i)

-----------------------------------------------------------------------------
(* Directories. *)

\* The slots of the root directory, sector by sector.
LEMMA RootSlots ==
  ASSUME NEW k \in Nat, k < RootSectors * SS
  PROVE  /\ k \div SS \in 0 .. RootSectors - 1
         /\ (k + 1) % SS # 0 => k + 1 < RootSectors * SS /\ (k + 1) \div SS = k \div SS
         /\ (k + 1) % SS = 0 => (k + 1) \div SS = (k \div SS) + 1
<1> DEFINE q == (k + 1) \div SS
           r == (k + 1) % SS
           p == k \div SS
           t == k % SS
<1>1. SS \in Nat \ {0} /\ SS >= 2 /\ RootSectors \in Nat \ {0} /\ k + 1 \in Nat
  BY Geometry
<1>2. q \in Int /\ r \in 0 .. SS - 1 /\ k + 1 = SS * q + r
  BY <1>1, DivMod
<1>3. p \in Int /\ t \in 0 .. SS - 1 /\ k = SS * p + t
  BY <1>1, DivMod
<1>4. r # 0 => p = q
  <2>1. ASSUME r # 0 PROVE k \div SS = q
    <3>1. r - 1 \in 0 .. SS - 1
      BY <1>1, <1>2, <2>1
    <3>2. (SS * q + (r - 1)) \div SS = q
      <4> HIDE DEF q, r
      <4> QED BY <1>1, <1>2, <3>1, DivModUnique
    <3>3. k = SS * q + (r - 1)
      <4> HIDE DEF q, r
      <4> QED BY <1>1, <1>2
    <3> QED BY <3>2, <3>3
  <2> QED BY <2>1
<1>5. r = 0 => q = p + 1
  <2>1. ASSUME r = 0 PROVE k \div SS = q - 1
    <3>1. SS - 1 \in 0 .. SS - 1 /\ q - 1 \in Int
      BY <1>1, <1>2
    <3>2. (SS * (q - 1) + (SS - 1)) \div SS = q - 1
      <4> HIDE DEF q, r
      <4> QED BY <1>1, <3>1, DivModUnique
    <3>3. k = SS * (q - 1) + (SS - 1)
      <4> HIDE DEF q, r
      <4>1. SS * (q - 1) = SS * q - SS
        BY <1>1, <1>2
      <4> QED BY <1>1, <1>2, <2>1, <4>1
    <3> QED BY <3>2, <3>3
  <2> QED BY <1>2, <2>1
<1> HIDE DEF q, r, p, t
<1>6. p \in 0 .. RootSectors - 1
  <2>1. ASSUME p < 0 PROVE FALSE
    <3>1. SS * p <= SS * (-1)
      BY <1>1, <1>3, <2>1
    <3> QED BY <1>1, <1>3, <3>1
  <2>2. ASSUME p >= RootSectors PROVE FALSE
    <3>1. SS * p >= SS * RootSectors /\ SS * RootSectors = RootSectors * SS
      BY <1>1, <1>3, <2>2
    <3> QED BY <1>1, <1>3, <3>1
  <2> QED BY <1>1, <1>3, <2>1, <2>2
<1>7. r # 0 => k + 1 < RootSectors * SS
  <2>1. ASSUME r # 0, ~(k + 1 < RootSectors * SS) PROVE FALSE
    <3>1. RootSectors * SS \in Int /\ k + 1 = RootSectors * SS
      BY <1>1, <2>1
    <3>2. SS * RootSectors + 0 = k + 1 /\ 0 \in 0 .. SS - 1 /\ RootSectors \in Int
      BY <1>1, <3>1
    <3>3. (SS * RootSectors + 0) % SS = 0
      BY <1>1, <3>2, DivModUnique
    <3> QED BY <2>1, <3>2, <3>3 DEF r
  <2> QED BY <2>1
<1> QED BY <1>4, <1>5, <1>6, <1>7 DEF q, r, p

Results == {"OK", "MORE", "NO_FILE", "NO_PATH", "EXIST", "DENIED", "INT_ERR"}

\* A DIR object stands on a sector of a table, or behind its end.
DirObjects ==
  {d \in [tbl : {0} \cup Clusters, k : Nat, clust : {0} \cup Clusters, sect : {0} \cup ObjectSectors] :
     d.clust = 0 /\ d.sect # 0 => d.k < RootSectors * SS /\ d.sect = DirBase + (d.k \div SS)}

\* What a search leaves: on success the window is where the DIR object stands.
Searches ==
  {r \in [v : Volumes, dp : DirObjects, res : Results] :
     r.res = "OK" => r.dp.sect \in ObjectSectors /\ r.v.sect = r.dp.sect}

LEMMA ZeroContents ==
  /\ ZeroSector \in [Cells -> DirCells]
  /\ \A s \in DirSectors \cup DataSectors : ZeroSector \in Contents(s)
  /\ ZeroSector \in DataContents
<1>1. ZeroSector \in [Cells -> DirCells]
  BY DEF ZeroSector, DirCells
<1>2. [Cells -> DirCells] \subseteq [Cells -> DataCells]
  BY DEF DataCells
<1>3. ZeroSector \in DataContents
  BY <1>1, <1>2 DEF DataContents
<1> QED BY <1>1, <1>3, ContentsOf

LEMMA DirClear ==
  ASSUME NEW x \in Volumes, NEW c \in Clusters
  PROVE  /\ dir_clear(x, c) \in Volumes /\ dir_clear(x, c).sect = clst2sect(c)
         /\ Kept(x, dir_clear(x, c), SystemSectors)
<1> DEFINE s == clst2sect(c)
           y == sync_window(x)
           z == [y EXCEPT !.sect = s, !.win = ZeroSector, !.disk[s] = ZeroSector]
<1>1. y \in Volumes /\ ~y.dirty /\ Kept(x, y, Sectors)
  BY SyncWindow
<1>2. s \in DataSectors /\ s \in Sectors /\ s # -1 /\ ZeroSector \in Contents(s) /\ ZeroSector \in AnyContents
  BY Areas, ZeroContents DEF AnyContents
<1> HIDE DEF s, y
<1>3. /\ z \in [disk : [Sectors -> AnyContents], win : AnyContents, sect : Sectors \cup {-1},
              dirty : BOOLEAN, last : 0 .. NFatEnt - 1]
      /\ z.disk = [y.disk EXCEPT ![s] = ZeroSector] /\ z.win = ZeroSector /\ z.sect = s /\ z.dirty = y.dirty
  BY <1>1, <1>2, VolumeFields
<1>4. \A t \in Sectors : z.disk[t] \in Contents(t)
  BY <1>1, <1>2, <1>3, VolumeFields
<1>5. dir_clear(x, c) = z
  BY DEF dir_clear, s, y
<1> HIDE DEF z
<1>6. Kept(y, z, SystemSectors)
  BY <1>1, <1>2, <1>3, Areas DEF Kept, Current, Seen
<1>7. z \in Volumes
  BY <1>1, <1>2, <1>3, <1>4, <1>6, CoherentKept, MakesVolume
<1>8. Kept(x, z, SystemSectors)
  <2>1. SystemSectors \in SUBSET Sectors
    BY Areas
  <2>2. Kept(x, y, SystemSectors)
    BY <1>1, <2>1, KeptLess
  <2> QED BY <1>6, <2>2, KeptTransitive
<1> QED BY <1>3, <1>5, <1>7, <1>8 DEF s

LEMMA DirSdi ==
  ASSUME NEW tbl \in {0} \cup Clusters
  PROVE  dir_sdi(tbl) \in DirObjects
<1> DEFINE d == dir_sdi(tbl)
<1>1. SS \in Nat /\ SS >= 2 /\ RootSectors \in Nat \ {0} /\ DirBase \in Nat /\ 0 < RootSectors * SS
  <2>1. SS \in Nat /\ SS >= 2 /\ RootSectors \in Nat \ {0} /\ DirBase \in Nat
    BY Geometry, Areas
  <2>2. 0 < RootSectors * SS
    BY <2>1
  <2> QED BY <2>1, <2>2
<1>2. 0 \div SS = 0
  <2>1. SS * 0 + 0 = 0 /\ 0 \in 0 .. SS - 1
    BY <1>1
  <2> QED BY <1>1, <2>1, DivModUnique
<1>3. d.sect \in ObjectSectors /\ (tbl = 0 => d.sect = DirBase) /\ d.k = 0 /\ d.clust = tbl
  BY Areas DEF ObjectSectors, dir_sdi
<1>4. d \in [tbl : {0} \cup Clusters, k : Nat, clust : {0} \cup Clusters, sect : {0} \cup ObjectSectors]
  <2>1. (IF tbl = 0 THEN DirBase ELSE clst2sect(tbl)) \in ObjectSectors
    BY Areas DEF ObjectSectors
  <2> QED BY <2>1 DEF dir_sdi
<1> HIDE DEF d
<1>5. d.clust = 0 => d.k < RootSectors * SS /\ d.sect = DirBase + (d.k \div SS)
  BY <1>1, <1>2, <1>3
<1> QED BY <1>4, <1>5 DEF DirObjects, d

\* The fields of a DIR object.
LEMMA DirFields ==
  ASSUME NEW d \in DirObjects
  PROVE  /\ d \in [tbl : {0} \cup Clusters, k : Nat, clust : {0} \cup Clusters, sect : {0} \cup ObjectSectors]
         /\ d.clust = 0 /\ d.sect # 0 => d.k < RootSectors * SS /\ d.sect = DirBase + (d.k \div SS)
BY DEF DirObjects

LEMMA EndOfTableType ==
  ASSUME NEW x \in Volumes, NEW d \in DirObjects
  PROVE  EndOfTable(x, d) \in Searches /\ EndOfTable(x, d).res = "NO_FILE" /\ EndOfTable(x, d).v = x
<1> DEFINE e == [d EXCEPT !.sect = 0]
<1>1. e \in [tbl : {0} \cup Clusters, k : Nat, clust : {0} \cup Clusters, sect : {0} \cup ObjectSectors] /\ e.sect = 0
  BY DirFields
<1> HIDE DEF e
<1>2. e \in DirObjects
  BY <1>1 DEF DirObjects
<1>3. EndOfTable(x, d) = [v |-> x, dp |-> e, res |-> "NO_FILE"]
  BY DEF EndOfTable, e
<1> QED BY <1>2, <1>3 DEF Searches, Results

\* A step in a table may fail, in particular where the table ends.
Steps == [v : Volumes, dp : DirObjects, res : Results]

LEMMA NextSlotType ==
  ASSUME NEW x \in Volumes, NEW d \in DirObjects, NEW c \in Clusters
  PROVE  NextSlot(x, d, c) \in Steps /\ NextSlot(x, d, c).v = x
<1> DEFINE e == [d EXCEPT !.k = @ + 1, !.clust = c, !.sect = clst2sect(c)]
<1>1. clst2sect(c) \in ObjectSectors /\ c # 0
  BY Areas, Geometry DEF ObjectSectors
<1>2. e \in [tbl : {0} \cup Clusters, k : Nat, clust : {0} \cup Clusters, sect : {0} \cup ObjectSectors] /\ e.clust = c
  <2>1. d.k + 1 \in Nat
    BY DirFields
  <2> QED BY <1>1, <2>1, DirFields
<1> HIDE DEF e
<1>3. e \in DirObjects
  BY <1>1, <1>2 DEF DirObjects
<1>4. NextSlot(x, d, c) = [v |-> x, dp |-> e, res |-> "OK"]
  BY DEF NextSlot, e
<1> QED BY <1>3, <1>4 DEF Steps, Results

LEMMA NewTableType ==
  ASSUME NEW r \in [v : Volumes, clst : {0, 1} \cup Clusters], NEW d \in DirObjects
  PROVE  NewTable(r, d) \in Steps /\ Same(r.v, NewTable(r, d).v)
<1>1. CASE r.clst <= 1
  <2>1. r.clst \in {0, 1}
    BY <1>1, Geometry
  <2> QED BY <1>1, <2>1, Unmoved DEF NewTable, Steps, Results
<1>2. CASE ~(r.clst <= 1)
  <2>1. r.clst \in Clusters
    BY <1>2
  <2>2. dir_clear(r.v, r.clst) \in Volumes /\ Same(r.v, dir_clear(r.v, r.clst))
    BY <2>1, DirClear DEF Same
  <2> QED BY <1>2, <2>1, <2>2, NextSlotType DEF NewTable
<1> QED BY <1>1, <1>2

\* dir_next goes on to the next slot of the table, which it may stretch.
LEMMA DirNext ==
  ASSUME NEW x \in Volumes, NEW d \in DirObjects, NEW stretch
  PROVE  dir_next(x, d, stretch) \in Steps /\ Moves(stretch, x, dir_next(x, d, stretch).v)
<1> DEFINE k == d.k + 1
           nxt == get_fat(x, d.clust)
           y == AtFat(x, d.clust)
           r == dir_next(x, d, stretch)
<1>1. k \in Nat /\ nxt \in 0 .. EOC /\ y \in Volumes /\ d.clust \in 0 .. EOC
  BY DirFields, GetFat, AtFatType, Geometry
<1>2. \A z \in Volumes : EndOfTable(z, d) \in Steps
  BY EndOfTableType DEF Searches, Steps
<1>3. ASSUME d.sect = 0 PROVE r \in Steps
  BY <1>2, <1>3 DEF dir_next
<1>4. ASSUME d.sect # 0 /\ k % SS # 0 PROVE r \in Steps
  <2> DEFINE e == [d EXCEPT !.k = k]
  <2>1. /\ e \in [tbl : {0} \cup Clusters, k : Nat, clust : {0} \cup Clusters, sect : {0} \cup ObjectSectors]
        /\ e.k = k /\ e.clust = d.clust /\ e.sect = d.sect
    BY <1>1, DirFields
  <2>2. r = [v |-> x, dp |-> e, res |-> "OK"]
    BY <1>4 DEF dir_next
  <2> HIDE DEF e, r
  <2>3. d.clust = 0 => k < RootSectors * SS /\ k \div SS = d.k \div SS
    BY <1>4, DirFields, RootSlots
  <2> HIDE DEF k
  <2>4. e \in DirObjects
    BY <1>4, <2>1, <2>3, DirFields DEF DirObjects
  <2>5. r \in Steps
    BY <2>2, <2>4 DEF Steps, Results
  <2> QED BY <2>5 DEF r
<1>5. ASSUME d.sect # 0 /\ k % SS = 0 /\ d.clust = 0 /\ k >= RootSectors * SS PROVE r \in Steps
  BY <1>2, <1>5 DEF dir_next
<1>6. ASSUME d.sect # 0 /\ k % SS = 0 /\ d.clust = 0 /\ ~(k >= RootSectors * SS) PROVE r \in Steps
  <2> DEFINE e == [d EXCEPT !.k = k, !.sect = @ + 1]
             q == d.k \div SS
  <2>1. q + 1 = k \div SS /\ d.sect = DirBase + q /\ d.k < RootSectors * SS
    BY <1>6, DirFields, RootSlots
  <2>2. RootSectors * SS \in Int /\ k < RootSectors * SS
    BY <1>1, <1>6, Geometry
  <2>3. k \div SS \in 0 .. RootSectors - 1 /\ q \in 0 .. RootSectors - 1
    <3> HIDE DEF k
    <3> QED BY <1>1, <2>1, <2>2, DirFields, RootSlots
  <2> HIDE DEF q
  <2>4. d.sect + 1 = DirBase + (k \div SS) /\ d.sect + 1 \in ObjectSectors
    <3> HIDE DEF k
    <3>1. d.sect + 1 = DirBase + (k \div SS)
      BY <2>1, <2>3, Geometry
    <3>2. DirBase + (k \div SS) \in DirSectors
      BY <2>3, Geometry DEF DirSectors
    <3> QED BY <3>1, <3>2 DEF ObjectSectors
  <2>5. /\ e \in [tbl : {0} \cup Clusters, k : Nat, clust : {0} \cup Clusters, sect : {0} \cup ObjectSectors]
        /\ e.k = k /\ e.sect = d.sect + 1
    BY <1>1, <2>4, DirFields
  <2>6. r = [v |-> x, dp |-> e, res |-> "OK"]
    BY <1>6, <2>2 DEF dir_next
  <2> HIDE DEF e, r, k
  <2>7. e \in DirObjects
    BY <2>2, <2>4, <2>5 DEF DirObjects
  <2>8. r \in Steps
    BY <2>6, <2>7 DEF Steps, Results
  <2> QED BY <2>8 DEF r
<1>7. ASSUME d.sect # 0 /\ k % SS = 0 /\ d.clust # 0 PROVE r \in Steps
  <2>0. d.clust \in Clusters
    BY <1>7, DirFields
  <2>1. CASE nxt <= 1
    <3>1. r = [v |-> y, dp |-> d, res |-> "INT_ERR"]
      BY <1>7, <2>1 DEF dir_next
    <3> QED BY <1>1, <3>1 DEF Steps, Results
  <2>2. CASE ~(nxt <= 1) /\ nxt < NFatEnt
    <3>1. nxt \in Clusters /\ r = NextSlot(y, d, nxt)
      BY <1>1, <1>7, <2>2, FatValues DEF dir_next
    <3> QED BY <1>1, <3>1, NextSlotType
  <2>3. CASE ~(nxt <= 1) /\ ~(nxt < NFatEnt) /\ ~stretch
    <3>1. r = EndOfTable(y, d)
      BY <1>7, <2>3 DEF dir_next
    <3> QED BY <1>1, <1>2, <3>1
  <2>4. CASE ~(nxt <= 1) /\ ~(nxt < NFatEnt) /\ stretch
    <3>1. r = NewTable(create_chain(y, d.clust), d)
      BY <1>7, <2>4 DEF dir_next
    <3>2. create_chain(y, d.clust) \in [v : Volumes, clst : {0, 1} \cup Clusters]
      BY <1>1, CreateChain DEF Grown
    <3> QED BY <3>1, <3>2, NewTableType
  <2> QED BY <2>1, <2>2, <2>3, <2>4
<1>8. r \in Steps
  BY <1>3, <1>4, <1>5, <1>6, <1>7
<1>9. Moves(stretch, x, r.v)
  <2> DEFINE new == create_chain(y, d.clust)
  <2>1. Same(x, y)
    BY AtFatType, StillSame
  <2>2. \A st : Moves(st, x, y)
    BY <2>1, SameGrows
  <2>3. r.v = x \/ r.v = y \/ (stretch /\ r = NewTable(new, d))
    BY DEF dir_next, EndOfTable, NextSlot
  <2>4. ASSUME stretch, r = NewTable(new, d) PROVE Grows(x, r.v)
    <3>1. new \in [v : Volumes, clst : {0, 1} \cup Clusters] /\ new.v \in Volumes /\ Grows(y, new.v)
      BY <1>1, CreateChain, CreateGrows DEF Grown
    <3> HIDE DEF new, y, r
    <3>2. Same(new.v, NewTable(new, d).v)
      BY <3>1, NewTableType
    <3>3. Grows(new.v, r.v)
      BY <2>4, <3>1, <3>2, SameGrows
    <3>4. Grows(x, new.v)
      BY <2>1, <3>1, SameGrows, GrowsTransitive
    <3> QED BY <3>3, <3>4, GrowsTransitive
  <2> HIDE DEF r, y, new
  <2> QED BY <2>2, <2>3, <2>4, Unmoved DEF Moves
<1> QED BY <1>8, <1>9

\* Cells of a table: what is no entry has no name.
LEMMA EntryCells ==
  ASSUME NEW cell \in DataCells, IsEntry(cell)
  PROVE  cell \in Entries
<1>1. cell # Zero /\ cell # Deleted
  BY DEF IsEntry, Zero, Deleted
<1>2. cell # Garbage[0]
  <2>1. Garbage[0] = [garbage |-> TRUE]
    BY Areas DEF Garbage
  <2> QED BY <2>1 DEF IsEntry
<1>3. \A b \in Values : cell # Byte(b)
  BY DEF IsEntry, Byte
<1> QED BY <1>1, <1>2, <1>3 DEF DataCells, DirCells

LEMMA WindowCells ==
  ASSUME NEW x \in Volumes, x.sect \in ObjectSectors, NEW i \in Cells
  PROVE  x.win \in DataContents /\ x.win[i] \in DataCells
<1>1. x.win \in Contents(x.sect)
  BY VolumeFields, Areas DEF ObjectSectors
<1>2. x.win \in DataContents
  BY <1>1, ContentsOf DEF ObjectSectors
<1> QED BY <1>2 DEF DataContents

LEMMA SlotCell ==
  ASSUME NEW k \in Nat
  PROVE  k % SS \in Cells
BY Geometry DEF Cells

\* A round of a search: it ends on what was wanted, or fails, or goes on.
Wanted(r, want) == r.res = "OK" => Matches(EntryAt(r), want)

LEMMA ScanRound ==
  ASSUME NEW r \in Searches, NEW want, Wanted(r, want), NEW stretch
  PROVE  /\ ScanNext(r, want, stretch) \in Searches /\ Wanted(ScanNext(r, want, stretch), want)
         /\ Moves(stretch, r.v, ScanNext(r, want, stretch).v)
<1> DEFINE y == move_window(r.v, r.dp.sect)
           cell == y.win[r.dp.k % SS]
           z == ScanNext(r, want, stretch)
<1>1. r.v \in Volumes /\ r.dp \in DirObjects
  BY DEF Searches
<1>2. CASE r.res # "MORE"
  BY <1>2, Unmoved DEF ScanNext
<1>3. CASE r.res = "MORE" /\ r.dp.sect = 0
  <2>1. z = EndOfTable(r.v, r.dp)
    BY <1>3 DEF ScanNext
  <2>2. z \in Searches /\ z.res = "NO_FILE" /\ z.v = r.v
    BY <1>1, <2>1, EndOfTableType
  <2> QED BY <2>2, Unmoved DEF Wanted
<1>4. CASE r.res = "MORE" /\ r.dp.sect # 0
  <2>1. r.dp.sect \in ObjectSectors /\ r.dp.sect \in Sectors
    BY <1>1, <1>4, DirFields, Areas DEF ObjectSectors
  <2>2. y \in Volumes /\ y.sect = r.dp.sect /\ Same(r.v, y)
    BY <1>1, <2>1, MoveWindow, StillSame
  <2>m. Moves(stretch, r.v, y)
    BY <1>1, <2>2, SameGrows
  <2>3. z = ScanSlot(r, want, stretch)
    BY <1>4 DEF ScanNext
  <2>4. CASE Matches(cell, want)
    <3> DEFINE t == [v |-> y, dp |-> r.dp, res |-> "OK"]
    <3>1. z = t
      BY <2>3, <2>4 DEF ScanSlot
    <3>2. EntryAt(t) = cell
      BY DEF EntryAt
    <3>3. t \in Searches /\ t.v = y
      <4> HIDE DEF y
      <4> QED BY <1>1, <2>1, <2>2 DEF Searches, Results
    <3> HIDE DEF t
    <3> QED BY <2>4, <2>m, <3>1, <3>2, <3>3 DEF Wanted
  <2>5. CASE ~Matches(cell, want) /\ EndMark(cell)
    <3>1. z = [v |-> y, dp |-> r.dp, res |-> "NO_FILE"]
      BY <2>3, <2>5 DEF ScanSlot
    <3> HIDE DEF y, z
    <3>2. z \in Searches /\ Wanted(z, want) /\ z.v = y
      BY <1>1, <2>2, <3>1 DEF Searches, Results, Wanted
    <3> QED BY <2>m, <3>2 DEF z, y
  <2>6. CASE ~Matches(cell, want) /\ ~EndMark(cell)
    <3> DEFINE n == dir_next(y, r.dp, stretch)
               res == IF n.res = "OK" THEN "MORE" ELSE n.res
    <3>1. n \in Steps /\ Moves(stretch, y, n.v)
      BY <1>1, <2>2, DirNext
    <3>2. z = GoOn(n)
      BY <2>3, <2>6 DEF ScanSlot
    <3> HIDE DEF n, z
    <3>3. z = [n EXCEPT !.res = res]
      BY <3>2 DEF GoOn
    <3>4. res \in Results /\ res # "OK"
      BY <3>1 DEF Steps, Results
    <3> HIDE DEF res
    <3>5. z \in Steps /\ z.res # "OK" /\ z.v = n.v
      BY <3>1, <3>3, <3>4 DEF Steps
    <3>6. z \in Searches /\ Wanted(z, want)
      BY <3>5 DEF Steps, Searches, Wanted
    <3>7. Moves(stretch, r.v, z.v)
      BY <2>m, <3>1, <3>5, MovesTransitive
    <3> QED BY <3>6, <3>7 DEF z
  <2> QED BY <2>4, <2>5, <2>6
<1> QED BY <1>2, <1>3, <1>4

LEMMA ScanType ==
  ASSUME NEW x \in Volumes, NEW d \in DirObjects, NEW want, NEW stretch
  PROVE  /\ Scan(From(x, d), want, stretch) \in Searches
         /\ Wanted(Scan(From(x, d), want, stretch), want)
         /\ Moves(stretch, x, Scan(From(x, d), want, stretch).v)
<1> DEFINE S == {r \in Searches : Wanted(r, want) /\ Moves(stretch, x, r.v)}
           start == From(x, d)
           n == MaxSlots
           Round(l) == ScanNext(l, want, stretch)
           Rows(f) == f = [k \in 0 .. n |-> IF k = 0 THEN start ELSE Round(f[k - 1])]
           after == CHOOSE f : Rows(f)
           step == [k \in 1 .. n |-> [l \in S |-> Round(l)]]
<1>1. n \in Nat
  BY Geometry
<1>2. start \in S
  BY Unmoved DEF From, Searches, Wanted, Results
<1>3. \A l \in S : Round(l) \in S
  BY ScanRound, MovesTransitive
<1>4. Scan(From(x, d), want, stretch) = after[n]
  BY DEF Scan, Times
<1> HIDE DEF S, start, n, Round
<1>5. step \in [1 .. n -> [S -> S]]
  BY <1>3
<1>6. PICK f \in [0 .. n -> S] : f[0] = start /\ \A k \in 1 .. n : f[k] = step[k][f[k - 1]]
  <2>1. FillsTable(step, n, S, start)
    BY <1>1, <1>2, <1>5, TableExists DEF RowFunction
  <2> QED BY <2>1 DEF FillsTable
<1>7. Rows(f)
  <2>1. \A k \in 1 .. n : f[k] = Round(f[k - 1])
    <3> TAKE k \in 1 .. n
    <3>1. f[k - 1] \in S /\ f[k] = step[k][f[k - 1]]
      BY <1>1, <1>6
    <3>2. step[k] = [l \in S |-> Round(l)]
      OBVIOUS
    <3> QED BY <3>1, <3>2
  <2>2. \A k \in 0 .. n : f[k] = IF k = 0 THEN start ELSE Round(f[k - 1])
    BY <1>6, <2>1
  <2> QED BY <2>2
<1>8. Rows(after)
  <2> HIDE DEF Rows
  <2> QED BY <1>7
<1> HIDE DEF after
<1>9. after[n] \in S
  <2>1. after[0] \in S /\ \A k \in 1 .. n : after[k] = Round(after[k - 1])
    BY <1>1, <1>2, <1>8
  <2>2. \A k \in 1 .. n : after[k - 1] \in S => after[k] \in S
    BY <1>3, <2>1
  <2>3. \A k \in 0 .. n : after[k] \in S
    BY <1>1, <2>1, <2>2, StaysIn
  <2> QED BY <1>1, <2>3
<1> QED BY <1>4, <1>9 DEF S

\* A search for a name or for any entry that succeeds stands on an entry.
Found(r) == r \in Searches /\ (r.res = "OK" => EntryAt(r) \in Entries)

LEMMA FoundEntry ==
  ASSUME NEW r \in Searches, r.res = "OK" => IsEntry(EntryAt(r))
  PROVE  Found(r)
<1>1. ASSUME r.res = "OK" PROVE EntryAt(r) \in Entries
  <2>1. r.v \in Volumes /\ r.v.sect \in ObjectSectors /\ r.dp.k \in Nat
    BY <1>1, DirFields DEF Searches
  <2>2. EntryAt(r) \in DataCells
    BY <2>1, SlotCell, WindowCells DEF EntryAt
  <2> QED BY <1>1, <2>2, EntryCells
<1> QED BY <1>1 DEF Found

LEMMA DirFind ==
  ASSUME NEW x \in Volumes, NEW tbl \in {0} \cup Clusters, NEW name
  PROVE  Found(dir_find(x, tbl, name)) /\ Same(x, dir_find(x, tbl, name).v)
<1> DEFINE r == dir_find(x, tbl, name)
           want == Named(name)
<1>1. r \in Searches /\ Wanted(r, want) /\ Moves(FALSE, x, r.v)
  BY DirSdi, ScanType DEF dir_find
<1> HIDE DEF r
<1>2. \A cell : Matches(cell, want) => IsEntry(cell)
  BY DEF Matches, Named
<1> QED BY <1>1, <1>2, FoundEntry DEF Wanted, Moves, r

LEMMA DirRead ==
  ASSUME NEW x \in Volumes, NEW d \in DirObjects
  PROVE  Found(dir_read(x, d)) /\ Same(x, dir_read(x, d).v)
<1> DEFINE r == dir_read(x, d)
           want == AnyEntry
<1>1. r \in Searches /\ Wanted(r, want) /\ Moves(FALSE, x, r.v)
  BY ScanType DEF dir_read
<1> HIDE DEF r
<1>2. \A cell : Matches(cell, want) => IsEntry(cell)
  BY DEF Matches, AnyEntry
<1> QED BY <1>1, <1>2, FoundEntry DEF Wanted, Moves, r

LEMMA DirAlloc ==
  ASSUME NEW x \in Volumes, NEW tbl \in {0} \cup Clusters
  PROVE  dir_alloc(x, tbl) \in Searches /\ Grows(x, dir_alloc(x, tbl).v)
BY DirSdi, ScanType DEF dir_alloc, Moves

\* A directory cell belongs into a sector of a table.
LEMMA PokeCell ==
  ASSUME NEW x \in Volumes, x.sect \in ObjectSectors, NEW i \in Cells, NEW cell \in DirCells
  PROVE  /\ Poke(x, i, cell) \in Volumes
         /\ Poke(x, i, cell).sect = x.sect /\ Poke(x, i, cell).dirty
         /\ Poke(x, i, cell).win[i] = cell
         /\ Kept(x, Poke(x, i, cell), Sectors \ {x.sect})
<1>1. x.sect \in Sectors /\ x.win \in Contents(x.sect)
  BY VolumeFields, Areas DEF ObjectSectors
<1>2. /\ x.sect \in DirSectors => Contents(x.sect) = [Cells -> DirCells]
      /\ x.sect \in DataSectors => Contents(x.sect) = [Cells -> DataCells]
  BY ContentsOf DEF DataContents
<1>3. cell \in DataCells
  BY DEF DataCells
<1>4. \A T : x.win \in [Cells -> T] /\ cell \in T => Put(x.win, i, cell) \in [Cells -> T] /\ Put(x.win, i, cell)[i] = cell
  BY DEF Put
<1>5. Put(x.win, i, cell) \in Contents(x.sect) /\ Put(x.win, i, cell)[i] = cell
  <2>1. CASE x.sect \in DirSectors
    BY <1>1, <1>2, <1>4, <2>1
  <2>2. CASE x.sect \in DataSectors
    BY <1>1, <1>2, <1>3, <1>4, <2>2
  <2> QED BY <2>1, <2>2 DEF ObjectSectors
<1> DEFINE new == Put(x.win, i, cell)
<1>6. new \in Contents(x.sect) /\ new[i] = cell
  BY <1>5
<1>7. /\ Poke(x, i, cell) \in Volumes
      /\ Poke(x, i, cell).sect = x.sect
      /\ Poke(x, i, cell).win = new
      /\ Poke(x, i, cell).dirty
      /\ Kept(x, Poke(x, i, cell), Sectors \ {x.sect})
  BY <1>1, <1>6, PokeType
<1> HIDE DEF new
<1> QED BY <1>6, <1>7

LEMMA PokeOnly ==
  ASSUME NEW x \in Volumes, x.sect \in ObjectSectors, NEW i, NEW cell
  PROVE  OnlyCell(x, Poke(x, i, cell), x.sect, i)
<1> DEFINE win == [x.win EXCEPT ![i] = cell]
           y == Poke(x, i, cell)
<1>1. y.disk = x.disk /\ y.sect = x.sect /\ y.win = win
  BY VolumeFields DEF Poke
<1>2. \A j \in Cells : j # i => win[j] = x.win[j]
  BY WindowCells DEF DataContents
<1> HIDE DEF y, win
<1>3. OnlyCell(x, y, x.sect, i)
  BY <1>1, <1>2 DEF OnlyCell, Seen
<1> QED BY <1>3 DEF y

LEMMA OnlyFat ==
  ASSUME NEW x, NEW y, NEW s \in ObjectSectors, NEW i, OnlyCell(x, y, s, i)
  PROVE  FatKept(x, y) /\ Extends(x, y) /\ Frees(x, y)
<1>1. \A c \in Clusters : FatSect(c) \in SystemSectors /\ c % SS \in Cells /\ FatSect(c) # s
  <2> TAKE c \in Clusters
  <2>1. FatSect(c) \in 1 .. FatSectors /\ c % SS \in Cells
    BY FatSectType
  <2> QED BY <2>1, Areas DEF ObjectSectors
<1>2. FatKept(x, y)
  BY <1>1 DEF FatKept, FatCell, OnlyCell
<1> QED BY <1>2 DEF FatKept, Extends, Frees

LEMMA SameSeen ==
  ASSUME NEW x \in Volumes, NEW y, Same(x, y)
  PROVE  \A t \in SystemSectors : Seen(y, t) = Seen(x, t)
BY VolumeFields DEF Same, Kept, Coherent

LEMMA SameOnly ==
  ASSUME NEW x \in Volumes, NEW y, NEW z \in Volumes, NEW u, NEW s, NEW i,
         Same(x, y), OnlyCell(y, z, s, i), Same(z, u)
  PROVE  OnlyCell(x, u, s, i)
<1>1. \A t \in SystemSectors : Seen(y, t) = Seen(x, t) /\ Seen(u, t) = Seen(z, t)
  BY SameSeen
<1> QED BY <1>1 DEF OnlyCell

LEMMA SearchFields ==
  ASSUME NEW r \in Searches
  PROVE  /\ r \in [v : Volumes, dp : DirObjects, res : Results]
         /\ r.v \in Volumes /\ r.dp \in DirObjects /\ r.res \in Results
         /\ r.dp.tbl \in {0} \cup Clusters /\ r.dp.k \in Nat /\ r.dp.k % SS \in Cells
         /\ r.dp.sect \in {0} \cup ObjectSectors
         /\ r.res = "OK" => r.dp.sect \in ObjectSectors /\ r.v.sect = r.dp.sect
BY DirFields, SlotCell DEF Searches

\* The volume of a search that stands on an entry, changed without moving it.
LEMMA FoundStays ==
  ASSUME NEW r \in Searches, r.res = "OK", NEW y \in Volumes, y.sect = r.dp.sect,
         y.win[r.dp.k % SS] \in Entries
  PROVE  Found([r EXCEPT !.v = y]) /\ EntryAt([r EXCEPT !.v = y]) = y.win[r.dp.k % SS]
<1> DEFINE z == [r EXCEPT !.v = y]
<1>1. /\ z \in [v : Volumes, dp : DirObjects, res : Results]
      /\ z.v = y /\ z.dp = r.dp /\ z.res = r.res
  BY SearchFields
<1> HIDE DEF z
<1>2. z \in Searches
  BY <1>1, SearchFields DEF Searches
<1>3. EntryAt(z) = y.win[r.dp.k % SS]
  BY <1>1 DEF EntryAt
<1>4. Found(z) /\ EntryAt(z) = y.win[r.dp.k % SS]
  BY <1>2, <1>3 DEF Found
<1> QED BY <1>4 DEF z

\* A search that failed, whatever its error is called.
LEMMA FoundFails ==
  ASSUME NEW r \in Searches, NEW e \in Results, e # "OK"
  PROVE  Found([r EXCEPT !.res = e]) /\ [r EXCEPT !.res = e].res = e
<1> DEFINE z == [r EXCEPT !.res = e]
<1>1. z \in [v : Volumes, dp : DirObjects, res : Results] /\ z.res = e
  BY SearchFields
<1> HIDE DEF z
<1>2. Found(z) /\ z.res = e
  BY <1>1 DEF Found, Searches
<1> QED BY <1>2 DEF z

\* An entry is registered where a free slot was found.
LEMMA Register ==
  ASSUME NEW r \in Searches, NEW entry \in Entries
  PROVE  Found(RegisterAt(r, entry)) /\ Extends(r.v, RegisterAt(r, entry).v)
<1>1. CASE r.res = "OK"
  <2> DEFINE y == move_window(r.v, r.dp.sect)
             i == r.dp.k % SS
             z == Poke(y, i, entry)
  <2>1. r.dp.sect \in ObjectSectors /\ r.dp.sect \in Sectors /\ i \in Cells /\ entry \in DirCells
    BY <1>1, SearchFields, Areas DEF ObjectSectors, DirCells
  <2>2. y \in Volumes /\ y.sect = r.dp.sect /\ Extends(r.v, y)
    BY <2>1, SearchFields, MoveWindow, SameFat
  <2> HIDE DEF y, i
  <2>3. z \in Volumes /\ z.sect = r.dp.sect /\ z.win[i] = entry
    <3>1. y.sect \in ObjectSectors
      BY <2>1, <2>2
    <3> QED BY <2>1, <2>2, <3>1, PokeCell
  <2>5. Extends(y, z)
    BY <2>1, <2>2, PokeOnly, OnlyFat
  <2>6. Extends(r.v, z)
    BY <2>2, <2>5, ExtendsTransitive
  <2>4. RegisterAt(r, entry) = [r EXCEPT !.v = z]
    BY <1>1 DEF RegisterAt, y, i
  <2> HIDE DEF z
  <2>7. Found([r EXCEPT !.v = z])
    BY <1>1, <2>3, FoundStays DEF i
  <2>8. [r EXCEPT !.v = z].v = z
    BY SearchFields
  <2> QED BY <2>4, <2>6, <2>7, <2>8
<1>2. CASE r.res # "OK"
  <2> DEFINE e == IF r.res = "NO_FILE" THEN "DENIED" ELSE r.res
  <2>1. e \in Results /\ e # "OK"
    BY <1>2, SearchFields DEF Results
  <2>2. RegisterAt(r, entry) = [r EXCEPT !.res = e]
    BY <1>2 DEF RegisterAt
  <2> HIDE DEF e
  <2>3. Found([r EXCEPT !.res = e])
    BY <2>1, FoundFails
  <2>4. [r EXCEPT !.res = e].v = r.v
    BY SearchFields
  <2> QED BY <2>2, <2>3, <2>4, Unmoved
<1> QED BY <1>1, <1>2

LEMMA DirRegister ==
  ASSUME NEW x \in Volumes, NEW tbl \in {0} \cup Clusters, NEW entry \in Entries
  PROVE  Found(dir_register(x, tbl, entry)) /\ Extends(x, dir_register(x, tbl, entry).v)
<1> DEFINE r == dir_alloc(x, tbl)
<1>1. r \in Searches /\ Extends(x, r.v)
  BY DirAlloc DEF Grows
<1>2. dir_register(x, tbl, entry) = RegisterAt(r, entry)
  BY DEF dir_register
<1> HIDE DEF r
<1>3. Found(RegisterAt(r, entry)) /\ Extends(r.v, RegisterAt(r, entry).v)
  BY <1>1, Register
<1> QED BY <1>1, <1>2, <1>3, ExtendsTransitive

LEMMA DirRemove ==
  ASSUME NEW x \in Volumes, NEW d \in DirObjects, d.sect \in ObjectSectors
  PROVE  dir_remove(x, d) \in Volumes /\ Extends(x, dir_remove(x, d)) /\ Frees(x, dir_remove(x, d))
<1> DEFINE y == move_window(x, d.sect)
           z == Poke(y, d.k % SS, Deleted)
<1>1. d.sect \in Sectors /\ d.k % SS \in Cells /\ Deleted \in DirCells
  BY DirFields, SlotCell, Areas DEF ObjectSectors, DirCells
<1>2. y \in Volumes /\ y.sect = d.sect /\ Extends(x, y) /\ Frees(x, y)
  BY <1>1, MoveWindow, SameFat
<1> HIDE DEF y
<1>3. z \in Volumes
  BY <1>1, <1>2, PokeCell
<1>4. Extends(y, z) /\ Frees(y, z)
  BY <1>1, <1>2, PokeOnly, OnlyFat
<1>5. dir_remove(x, d) = z
  BY DEF dir_remove, y
<1> HIDE DEF z
<1> QED BY <1>2, <1>3, <1>4, <1>5, ExtendsTransitive, FreesTransitive

LEMMA EntryFields ==
  ASSUME NEW e \in Entries
  PROVE  /\ e \in [name : Names, dir : BOOLEAN, clst : {0} \cup Clusters, size : 0 .. MaxSize]
         /\ e.dir \in BOOLEAN /\ e.clst \in {0} \cup Clusters /\ e.size \in 0 .. MaxSize
         /\ e \in DirCells /\ e.name \in Names /\ e.clst \in 0 .. EOC
BY Geometry DEF Entries, DirCells

LEMMA FollowRound ==
  ASSUME NEW r, Found(r), NEW name
  PROVE  Found(FollowNext(r, name)) /\ Same(r.v, FollowNext(r, name).v)
<1>1. r \in Searches /\ (r.res = "OK" => EntryAt(r) \in Entries)
  BY DEF Found
<1>2. Found([r EXCEPT !.res = "NO_PATH"]) /\ [r EXCEPT !.res = "NO_PATH"].v = r.v
  <2>1. Found([r EXCEPT !.res = "NO_PATH"])
    BY <1>1, FoundFails DEF Results
  <2>2. [r EXCEPT !.res = "NO_PATH"].v = r.v
    BY <1>1, SearchFields
  <2> QED BY <2>1, <2>2
<1> DEFINE next == dir_find(r.v, EntryAt(r).clst, name)
<1>3. r.res = "OK" => Found(next) /\ Same(r.v, next.v)
  BY <1>1, EntryFields, SearchFields, DirFind
<1> HIDE DEF next
<1>4. \/ FollowNext(r, name) = [r EXCEPT !.res = "NO_PATH"]
      \/ FollowNext(r, name) = r
      \/ r.res = "OK" /\ FollowNext(r, name) = next
  BY DEF FollowNext, next
<1> QED BY <1>2, <1>3, <1>4, Unmoved

\* The paths in use.
LEMMA PathNames ==
  ASSUME NEW p \in Paths
  PROVE  Len(p) \in Nat \ {0} /\ Last(p) \in Names
<1>1. p \in Seq(ToSet(p)) /\ p # <<>>
  BY FatFsConstants
<1>2. Len(p) \in Nat \ {0}
  <2> DEFINE S == ToSet(p)
  <2> HIDE DEF S
  <2>1. p \in Seq(S)
    BY <1>1 DEF S
  <2> QED BY <1>1, <2>1
<1>3. p[Len(p)] \in ToSet(p)
  <2>1. DOMAIN p = 1 .. Len(p)
    BY <1>1
  <2> QED BY <1>2, <2>1 DEF ToSet
<1>4. Last(p) \in UNION {ToSet(q) : q \in Paths}
  BY <1>3 DEF Last
<1> QED BY <1>2, <1>4 DEF Names

\* follow_path finds an entry, or fails.
LEMMA FollowPath ==
  ASSUME NEW x \in Volumes, NEW p \in Paths
  PROVE  Found(follow_path(x, p)) /\ Same(x, follow_path(x, p).v)
<1> DEFINE n == Len(p)
           S == {r \in Searches : Found(r) /\ Same(x, r.v)}
           start == dir_find(x, 0, p[1])
           Rows(f) == f = [i \in 1 .. n |-> IF i = 1 THEN start ELSE FollowNext(f[i - 1], p[i])]
           at == CHOOSE f : Rows(f)
           step == [k \in 1 .. n - 1 |-> [l \in S |-> FollowNext(l, p[k + 1])]]
<1>1. n \in Nat \ {0} /\ n - 1 \in Nat
  BY PathNames
<1>2. start \in S
  BY DirFind DEF Found
<1>3. \A name : \A l \in S : FollowNext(l, name) \in S
  BY FollowRound, SameTransitive DEF Found
<1>4. follow_path(x, p) = at[n]
  BY DEF follow_path
<1> HIDE DEF S, start, n
<1>5. step \in [1 .. n - 1 -> [S -> S]]
  BY <1>3
<1>6. PICK f \in [0 .. n - 1 -> S] : f[0] = start /\ \A k \in 1 .. n - 1 : f[k] = step[k][f[k - 1]]
  <2>1. FillsTable(step, n - 1, S, start)
    BY <1>1, <1>2, <1>5, TableExists DEF RowFunction
  <2> QED BY <2>1 DEF FillsTable
<1> DEFINE g == [i \in 1 .. n |-> f[i - 1]]
<1>7. Rows(g)
  <2>1. g[1] = start
    BY <1>1, <1>6
  <2>2. ASSUME NEW i \in 1 .. n, i # 1 PROVE g[i] = FollowNext(g[i - 1], p[i])
    <3>1. i - 1 \in 1 .. n - 1 /\ i - 2 \in 0 .. n - 1 /\ i - 1 \in 1 .. n /\ (i - 1) - 1 = i - 2 /\ (i - 1) + 1 = i
      BY <1>1, <2>2
    <3>2. g[i] = f[i - 1] /\ g[i - 1] = f[i - 2] /\ f[i - 2] \in S
      BY <1>6, <3>1
    <3>3. f[i - 1] = step[i - 1][f[i - 2]]
      BY <1>6, <3>1
    <3>4. step[i - 1] = [l \in S |-> FollowNext(l, p[i])]
      BY <3>1
    <3> QED BY <3>2, <3>3, <3>4
  <2> HIDE DEF g
  <2>3. \A i \in 1 .. n : g[i] = IF i = 1 THEN start ELSE FollowNext(g[i - 1], p[i])
    BY <2>1, <2>2
  <2>4. g = [i \in 1 .. n |-> g[i]]
    BY DEF g
  <2> QED BY <2>3, <2>4
<1>8. Rows(at)
  <2> HIDE DEF Rows, g
  <2> QED BY <1>7
<1> HIDE DEF at
<1>9. at[n] \in S
  <2>1. at[1] = start /\ \A k \in 2 .. n : at[k] = FollowNext(at[k - 1], p[k])
    BY <1>1, <1>8
  <2> DEFINE T == {k \in 1 .. n : at[k] \in S}
  <2>2. Inductive(T, 1, n)
    BY <1>1, <1>2, <1>3, <2>1 DEF Inductive
  <2> HIDE DEF T
  <2>3. n \in T
    BY <1>1, <2>2, RangeInduction
  <2> QED BY <2>3 DEF T
<1> QED BY <1>4, <1>9 DEF S

\* What a read of the FAT or a new cluster leaves: the window and a number.
LEMMA NextClusterType ==
  ASSUME NEW x \in Volumes, NEW c
  PROVE  NextCluster(x, c) \in [v : Volumes, clst : 0 .. EOC] /\ Same(x, NextCluster(x, c).v)
<1>1. AtFat(x, c) \in Volumes /\ Same(x, AtFat(x, c)) /\ get_fat(x, c) \in 0 .. EOC
  BY AtFatType, GetFat, StillSame
<1> QED BY <1>1 DEF NextCluster

\* Some clusters further along a chain.
LEMMA FollowType ==
  ASSUME NEW x \in Volumes, NEW c \in 0 .. EOC, NEW m \in Nat
  PROVE  Follow(x, c, m) \in [v : Volumes, clst : 0 .. EOC] /\ Same(x, Follow(x, c, m).v)
<1> DEFINE S == {l \in [v : Volumes, clst : 0 .. EOC] : Same(x, l.v)}
           start == [v |-> x, clst |-> c]
           n == m
           Round(l) == NextCluster(l.v, l.clst)
           Rows(f) == f = [k \in 0 .. n |-> IF k = 0 THEN start ELSE Round(f[k - 1])]
           after == CHOOSE f : Rows(f)
           step == [k \in 1 .. n |-> [l \in S |-> Round(l)]]
<1>1. n \in Nat
  OBVIOUS
<1>2. start \in S
  BY Unmoved
<1>3. \A l \in S : Round(l) \in S
  BY NextClusterType, SameTransitive
<1>4. Follow(x, c, m) = after[n]
  BY DEF Follow, Times
<1> HIDE DEF S, start, n, Round
<1>5. step \in [1 .. n -> [S -> S]]
  BY <1>3
<1>6. PICK f \in [0 .. n -> S] : f[0] = start /\ \A k \in 1 .. n : f[k] = step[k][f[k - 1]]
  <2>1. FillsTable(step, n, S, start)
    BY <1>1, <1>2, <1>5, TableExists DEF RowFunction
  <2> QED BY <2>1 DEF FillsTable
<1>7. Rows(f)
  <2>1. \A k \in 1 .. n : f[k] = Round(f[k - 1])
    <3> TAKE k \in 1 .. n
    <3>1. f[k - 1] \in S /\ f[k] = step[k][f[k - 1]]
      BY <1>1, <1>6
    <3>2. step[k] = [l \in S |-> Round(l)]
      OBVIOUS
    <3> QED BY <3>1, <3>2
  <2>2. \A k \in 0 .. n : f[k] = IF k = 0 THEN start ELSE Round(f[k - 1])
    BY <1>6, <2>1
  <2> QED BY <2>2
<1>8. Rows(after)
  <2> HIDE DEF Rows
  <2> QED BY <1>7
<1> HIDE DEF after
<1>9. after[n] \in S
  <2>1. after[0] \in S /\ \A k \in 1 .. n : after[k] = Round(after[k - 1])
    BY <1>1, <1>2, <1>8
  <2>2. \A k \in 1 .. n : after[k - 1] \in S => after[k] \in S
    BY <1>3, <2>1
  <2>3. \A k \in 0 .. n : after[k] \in S
    BY <1>1, <2>1, <2>2, StaysIn
  <2> QED BY <1>1, <2>3
<1> QED BY <1>4, <1>9 DEF S

LEMMA EmptiedType ==
  ASSUME NEW e \in Entries
  PROVE  Emptied(e) \in Entries
<1>1. 0 \in 0 .. MaxSize
  BY Geometry
<1> QED BY <1>1 DEF Entries, Emptied

\* Truncating leaves the window on the emptied entry: freeing the chain does
\* not change the sector of the entry, which the window had written to.
LEMMA TruncateType ==
  ASSUME NEW r, Found(r), r.res = "OK"
  PROVE  /\ Truncate(r.v, r) \in Volumes /\ Truncate(r.v, r).sect = r.dp.sect
         /\ Truncate(r.v, r).win[r.dp.k % SS] \in Entries /\ Frees(r.v, Truncate(r.v, r))
<1> DEFINE x == r.v
           e == EntryAt(r)
           i == r.dp.k % SS
           s == r.dp.sect
           n == Emptied(e)
           y == Poke(x, i, n)
           t == remove_chain(y, e.clst)
           z == move_window(t, s)
<1>1. r \in Searches /\ e \in Entries
  BY DEF Found
<1>2. x \in Volumes /\ s \in ObjectSectors /\ s \in Sectors /\ x.sect = s /\ i \in Cells
  BY <1>1, SearchFields, Areas DEF ObjectSectors
<1>3. n \in Entries /\ n \in DirCells
  BY <1>1, EmptiedType, EntryFields
<1>4. e.clst \in 0 .. EOC /\ e.clst \in {0} \cup Clusters
  BY <1>1, EntryFields
<1>5. Truncate(r.v, r) = IF e.clst = 0 THEN y ELSE [z EXCEPT !.last = e.clst - 1]
  BY DEF Truncate
<1> HIDE DEF e, i, s, x, n
<1>6. y \in Volumes /\ y.sect = s /\ y.dirty /\ y.win[i] = n
  <2>1. x.sect \in ObjectSectors
    BY <1>2
  <2> QED BY <1>2, <1>3, <2>1, PokeCell
<1>f. Frees(x, y)
  BY <1>2, PokeOnly, OnlyFat
<1> HIDE DEF y
<1>7. t \in Volumes /\ Kept(y, t, BesideFat) /\ Frees(y, t)
  BY <1>4, <1>6, RemoveChain
<1> HIDE DEF t
<1>8. z \in Volumes /\ z.sect = s /\ Kept(t, z, Sectors)
  BY <1>2, <1>7, MoveWindow
<1> HIDE DEF z
<1>9. z.win = y.win
  <2>1. Current(y, s) /\ Seen(y, s) = y.win
    BY <1>6 DEF Current, Seen
  <2>2. Seen(t, s) = y.win /\ Current(t, s)
    BY <1>2, <1>7, <2>1 DEF Kept, BesideFat
  <2>3. Seen(z, s) = y.win
    BY <1>2, <1>8, <2>2 DEF Kept
  <2> QED BY <1>8, <2>3 DEF Seen
<1>10. CASE e.clst = 0
  BY <1>3, <1>5, <1>6, <1>10, <1>f DEF i, s, x
<1>11. CASE e.clst # 0
  <2>1. e.clst - 1 \in 0 .. NFatEnt - 1
    BY <1>4, <1>11, Geometry
  <2> DEFINE last == e.clst - 1
             u == [z EXCEPT !.last = last]
  <2>2. last \in 0 .. NFatEnt - 1
    BY <2>1
  <2>3. Truncate(r.v, r) = u
    BY <1>5, <1>11
  <2> HIDE DEF last
  <2>4. u \in Volumes /\ u.sect = z.sect /\ u.win = z.win /\ Kept(z, u, Sectors)
    BY <1>8, <2>2, LastType
  <2> HIDE DEF u
  <2>5. Frees(t, z) /\ Frees(z, u)
    BY <1>7, <1>8, <2>4, SameFat
  <2>6. Frees(x, u)
    BY <1>f, <1>7, <2>5, FreesTransitive
  <2>7. Frees(r.v, Truncate(r.v, r))
    BY <2>3, <2>6 DEF x
  <2> QED BY <2>7, <1>3, <1>6, <1>8, <1>9, <2>3, <2>4 DEF i, s
<1> QED BY <1>10, <1>11

LEMMA OpenEntryType ==
  ASSUME NEW r, Found(r), NEW p \in Paths, NEW flags
  PROVE  /\ Found(OpenEntry(r, p, flags))
         /\ Extends(r.v, OpenEntry(r, p, flags).v) \/ Frees(r.v, OpenEntry(r, p, flags).v)
<1> DEFINE new == dir_register(r.v, r.dp.tbl, Entry(Last(p), FALSE, 0, 0))
           cut == [r EXCEPT !.v = Truncate(r.v, r)]
           z == OpenEntry(r, p, flags)
<1>1. r \in Searches /\ (r.res = "OK" => EntryAt(r) \in Entries)
  BY DEF Found
<1>2. Entry(Last(p), FALSE, 0, 0) \in Entries
  BY PathNames, Geometry DEF Entry, Entries
<1>3. Found(new) /\ Extends(r.v, new.v)
  BY <1>1, <1>2, SearchFields, DirRegister
<1>4. \A e \in Results \ {"OK"} : Found([r EXCEPT !.res = e]) /\ [r EXCEPT !.res = e].v = r.v
  BY <1>1, FoundFails, SearchFields
<1>5. {"DENIED", "NO_FILE", "EXIST"} \subseteq Results \ {"OK"}
  BY DEF Results
<1>6. ASSUME r.res = "OK" PROVE Found(cut) /\ Frees(r.v, cut.v)
  <2> DEFINE y == Truncate(r.v, r)
  <2>1. /\ y \in Volumes /\ y.sect = r.dp.sect
        /\ y.win[r.dp.k % SS] \in Entries /\ Frees(r.v, y)
    BY <1>6, TruncateType
  <2> HIDE DEF y
  <2>2. Found([r EXCEPT !.v = y])
    BY <1>1, <1>6, <2>1, FoundStays
  <2>3. [r EXCEPT !.v = y].v = y
    BY <1>1, SearchFields
  <2> QED BY <2>1, <2>2, <2>3 DEF y
<1>7. \/ z = new \/ z = r
      \/ \E e \in {"DENIED", "NO_FILE", "EXIST"} : z = [r EXCEPT !.res = e]
      \/ r.res = "OK" /\ z = cut
  BY DEF OpenEntry
<1> HIDE DEF new, cut, z
<1>8. Found(z) /\ (Extends(r.v, z.v) \/ Frees(r.v, z.v))
  BY <1>3, <1>4, <1>5, <1>6, <1>7, Unmoved
<1> QED BY <1>8 DEF z

-----------------------------------------------------------------------------
(* Files. *)

\* The open files.
Fils == {f \in OpenFils : Fits(f)}

LEMMA FilsSet ==
  ASSUME NEW f
  PROVE  f \in Fils <=> f \in OpenFils /\ Fits(f)
BY DEF Fils

LEMMA OpenedFields ==
  ASSUME NEW f \in OpenFils
  PROVE  /\ f.w \in BOOLEAN /\ f.mod \in BOOLEAN /\ f.dirty \in BOOLEAN /\ f.err \in BOOLEAN
         /\ f.sclust \in {0} \cup Clusters /\ f.clust \in 0 .. EOC /\ f.size \in 0 .. MaxSize
         /\ f.fptr \in 0 .. MaxSize /\ f.sect \in {0} \cup DataSectors /\ f.buf \in DataContents
         /\ f.dsect \in ObjectSectors /\ f.didx \in Cells
         /\ f.size \in Nat /\ f.fptr \in Nat
BY Geometry DEF OpenFils, ObjectSectors

\* A sector of the data area, read from the disk.
LEMMA DiskSector ==
  ASSUME NEW x \in Volumes, NEW c \in Clusters
  PROVE  clst2sect(c) \in DataSectors /\ x.disk[clst2sect(c)] \in DataContents
<1>1. clst2sect(c) \in DataSectors /\ clst2sect(c) \in Sectors
  BY Areas
<1> HIDE DEF clst2sect
<1> QED BY <1>1, VolumeFields, ContentsOf

\* For FA_SEEKEND the file stands at its end, with the last sector in its buffer.
LEMMA AtEndType ==
  ASSUME NEW end \in [v : Volumes, clst : 0 .. EOC], NEW f \in OpenFils, ~f.dirty, ~f.err
  PROVE  AtEnd(end, f).v = end.v /\ AtEnd(end, f).f \in {NoFil} \cup Fils
<1> DEFINE size == f.size
           clst == end.clst
           g == [f EXCEPT !.fptr = size, !.clust = clst]
           s == clst2sect(clst)
           buf == end.v.disk[s]
           h == [g EXCEPT !.sect = s, !.buf = buf]
           r == AtEnd(end, f)
<1>1. r = IF clst <= 1 /\ size > SS THEN [v |-> end.v, f |-> NoFil, res |-> "INT_ERR"]
          ELSE IF size % SS = 0 THEN [v |-> end.v, f |-> g, res |-> "OK"]
          ELSE IF clst \notin Clusters THEN [v |-> end.v, f |-> NoFil, res |-> "INT_ERR"]
          ELSE [v |-> end.v, f |-> h, res |-> "OK"]
  BY DEF AtEnd
<1>2. size \in 0 .. MaxSize /\ size \in Nat /\ clst \in 0 .. EOC /\ end.v \in Volumes
  BY OpenedFields
<1>3. clst \in Clusters => s \in DataSectors /\ buf \in DataContents
  BY <1>2, DiskSector
<1> HIDE DEF size, clst, s, buf, r
<1>4. /\ g \in OpenFils /\ g.fptr = size /\ g.size = f.size /\ g.clust = clst
      /\ g.dirty = f.dirty /\ g.err = f.err /\ g.sect = f.sect
  BY <1>2 DEF OpenFils
<1>5. size % SS = 0 => g \in Fils
  <2> HIDE DEF g
  <2>1. size = f.size /\ size <= size
    BY <1>2 DEF size
  <2> QED BY <1>4, <2>1, FilsSet DEF Fits, Placed
<1>6. clst \in Clusters => h \in Fils
  <2>1. ASSUME clst \in Clusters PROVE h \in Fils
    <3> HIDE DEF g
    <3>1. /\ h \in OpenFils /\ h.fptr = g.fptr /\ h.size = g.size /\ h.clust = g.clust
          /\ h.dirty = g.dirty /\ h.err = g.err /\ h.sect = s
      BY <1>3, <1>4, <2>1 DEF OpenFils
    <3>2. size = f.size /\ size <= size /\ s = clst2sect(clst)
      BY <1>2 DEF size, s
    <3> HIDE DEF h
    <3> QED BY <1>4, <2>1, <3>1, <3>2, FilsSet DEF Fits, Placed
  <2> QED BY <2>1
<1> HIDE DEF g, h
<1>7. r.v = end.v /\ (r.f = NoFil \/ (size % SS = 0 /\ r.f = g) \/ (clst \in Clusters /\ r.f = h))
  BY <1>1
<1> QED BY <1>2, <1>5, <1>6, <1>7 DEF r

LEMMA NatDiv ==
  ASSUME NEW a \in Nat, NEW b \in Nat \ {0}
  PROVE  a \div b \in Nat
<1>1. 0 \div b = 0
  <2>1. b * 0 + 0 = 0 /\ 0 \in 0 .. b - 1
    OBVIOUS
  <2> QED BY <2>1, DivModUnique
<1>2. 0 \div b <= a \div b
  BY DivMonotonic
<1>3. a \div b \in Int
  BY DivMod
<1> QED BY <1>1, <1>2, <1>3

LEMMA OpenFilType ==
  ASSUME NEW r, Found(r), NEW w \in BOOLEAN, NEW mod \in BOOLEAN, NEW append
  PROVE  OpenFil(r, w, mod, append).v \in Volumes
         /\ OpenFil(r, w, mod, append).f \in {NoFil} \cup Fils
         /\ Same(r.v, OpenFil(r, w, mod, append).v)
<1> DEFINE e == EntryAt(r)
           f == [st |-> "open", w |-> w, mod |-> mod, dirty |-> FALSE, err |-> FALSE,
                 sclust |-> e.clst, size |-> e.size, fptr |-> 0, clust |-> 0, sect |-> 0,
                 buf |-> ZeroSector, dsect |-> r.v.sect, didx |-> r.dp.k % SS]
           z == OpenFil(r, w, mod, append)
<1>1. r \in Searches /\ r.v \in Volumes
  BY SearchFields DEF Found
<1>2. CASE r.res # "OK"
  <2>1. z = [v |-> r.v, f |-> NoFil, res |-> r.res]
    BY <1>2 DEF OpenFil
  <2> HIDE DEF z
  <2>2. z.v \in Volumes /\ z.f \in {NoFil} \cup Fils /\ Same(r.v, z.v)
    BY <1>1, <2>1, Unmoved
  <2> QED BY <2>2 DEF z
<1>3. CASE r.res = "OK"
  <2>1. e \in Entries /\ r.v.sect \in ObjectSectors /\ r.dp.k % SS \in Cells
    BY <1>1, <1>3, SearchFields DEF Found
  <2>2. e.clst \in {0} \cup Clusters /\ e.size \in 0 .. MaxSize /\ e.clst \in 0 .. EOC
    BY <2>1, EntryFields
  <2>3. z = IF ~append \/ e.size = 0 THEN [v |-> r.v, f |-> f, res |-> "OK"]
            ELSE AtEnd(Follow(r.v, e.clst, (e.size - 1) \div SS), f)
    BY <1>3 DEF OpenFil
  <2> HIDE DEF e, z
  <2>4. 0 \in 0 .. EOC /\ 0 \in 0 .. MaxSize /\ 0 % SS = 0
    <3>1. SS * 0 + 0 = 0 /\ 0 \in 0 .. SS - 1 /\ SS \in Nat \ {0}
      BY Geometry
    <3> QED BY <3>1, Geometry, DivModUnique
  <2>5. f \in OpenFils /\ ~f.dirty /\ ~f.err /\ f.fptr = 0 /\ f.size = e.size
    BY <2>1, <2>2, <2>4, ZeroContents DEF OpenFils, ObjectSectors
  <2> HIDE DEF f
  <2>6. f \in Fils
    <3>1. f.fptr <= f.size /\ Placed(f)
      BY <2>2, <2>4, <2>5, Geometry DEF Placed
    <3> QED BY <2>5, <3>1, FilsSet DEF Fits
  <2>7. CASE ~append \/ e.size = 0
    <3>1. z.v = r.v /\ z.f = f
      BY <2>3, <2>7
    <3> QED BY <1>1, <2>6, <3>1, Unmoved DEF z
  <2>8. CASE ~(~append \/ e.size = 0)
    <3>1. e.size - 1 \in Nat /\ SS \in Nat \ {0}
      BY <2>2, <2>8, Geometry
    <3>2. (e.size - 1) \div SS \in Nat
      BY <3>1, NatDiv
    <3> DEFINE end == Follow(r.v, e.clst, (e.size - 1) \div SS)
    <3>3. end \in [v : Volumes, clst : 0 .. EOC] /\ Same(r.v, end.v)
      BY <1>1, <2>2, <3>2, FollowType
    <3>4. z = AtEnd(end, f)
      BY <2>3, <2>8
    <3> HIDE DEF end
    <3>5. AtEnd(end, f).v = end.v /\ AtEnd(end, f).f \in {NoFil} \cup Fils
      BY <2>5, <3>3, AtEndType
    <3> QED BY <3>3, <3>4, <3>5 DEF z
  <2> QED BY <2>7, <2>8
<1> QED BY <1>2, <1>3

\* f_open: no file, or one that fits the volume.
LEMMA OpenType ==
  ASSUME NEW x \in Volumes, NEW p \in Paths, NEW w \in BOOLEAN, NEW flags
  PROVE  /\ f_open(x, p, w, flags).v \in Volumes /\ f_open(x, p, w, flags).f \in {NoFil} \cup Fils
         /\ Extends(x, f_open(x, p, w, flags).v) \/ Frees(x, f_open(x, p, w, flags).v)
<1> DEFINE r == follow_path(x, p)
           e == OpenEntry(r, p, flags)
           mod == r.res # "OK" \/ "TRUNC" \in flags
           append == "APPEND" \in flags
           z == OpenFil(e, w, mod, append)
<1>1. Found(r) /\ Same(x, r.v)
  BY FollowPath
<1>2. Found(e) /\ (Extends(r.v, e.v) \/ Frees(r.v, e.v))
  <2> HIDE DEF r
  <2> QED BY <1>1, OpenEntryType
<1>3. mod \in BOOLEAN
  OBVIOUS
<1>4. f_open(x, p, w, flags) = z
  BY DEF f_open, OpenFound
<1> HIDE DEF r, e, mod, append
<1>5. z.v \in Volumes /\ z.f \in {NoFil} \cup Fils /\ Same(e.v, z.v)
  BY <1>2, <1>3, OpenFilType
<1> HIDE DEF z
<1>6. e.v \in Volumes
  BY <1>2, SearchFields DEF Found
<1>7. Extends(x, r.v) /\ Frees(x, r.v)
  BY <1>1, SameGrows
<1>8. Extends(e.v, z.v) /\ Frees(e.v, z.v)
  BY <1>5, <1>6, SameGrows
<1>9. ASSUME Extends(r.v, e.v) PROVE Extends(x, z.v)
  BY <1>7, <1>8, <1>9, ExtendsTransitive
<1>10. ASSUME Frees(r.v, e.v) PROVE Frees(x, z.v)
  BY <1>7, <1>8, <1>10, FreesTransitive
<1> QED BY <1>2, <1>4, <1>5, <1>9, <1>10

-----------------------------------------------------------------------------
(* Reading and writing. *)

\* A buffer that is dirty belongs to a sector of the data area.
LEMMA WriteBackType ==
  ASSUME NEW x \in Volumes, NEW f \in OpenFils, f.dirty => f.sect # 0
  PROVE  WriteBack(x, f) \in Volumes /\ Kept(x, WriteBack(x, f), SystemSectors)
<1>1. CASE ~f.dirty
  BY <1>1, KeptSelf DEF WriteBack
<1>2. CASE f.dirty
  <2> DEFINE s == f.sect
             b == f.buf
             z == [x EXCEPT !.disk[s] = b]
  <2>1. s \in DataSectors /\ s \in Sectors /\ b \in DataContents
    BY <1>2, OpenedFields, Areas
  <2>2. b \in Contents(s) /\ b \in AnyContents
    BY <2>1, ContentsOf DEF AnyContents
  <2>3. WriteBack(x, f) = z
    BY <1>2 DEF WriteBack
  <2> HIDE DEF s, b
  <2>4. /\ z \in [disk : [Sectors -> AnyContents], win : AnyContents, sect : Sectors \cup {-1},
                dirty : BOOLEAN, last : 0 .. NFatEnt - 1]
        /\ z.disk = [x.disk EXCEPT ![s] = b] /\ z.win = x.win /\ z.sect = x.sect /\ z.dirty = x.dirty
    BY <2>1, <2>2, VolumeFields
  <2>5. \A t \in Sectors : z.disk[t] \in Contents(t)
    BY <2>1, <2>2, <2>4, VolumeFields
  <2> HIDE DEF z
  <2>6. Kept(x, z, SystemSectors)
    BY <2>1, <2>4, Areas DEF Kept, Current, Seen
  <2>7. z \in Volumes
    BY <2>4, <2>5, <2>6, CoherentKept, VolumeFields, MakesVolume
  <2> QED BY <2>3, <2>6, <2>7
<1> QED BY <1>1, <1>2

\* Two FIL objects that differ in their buffers at most.
Alike(f, g) ==
  /\ g.w = f.w /\ g.mod = f.mod /\ g.err = f.err /\ g.sclust = f.sclust /\ g.clust = f.clust
  /\ g.size = f.size /\ g.fptr = f.fptr /\ g.dsect = f.dsect /\ g.didx = f.didx

LEMMA LoadType ==
  ASSUME NEW x \in Volumes, NEW f \in OpenFils, f.dirty => f.sect # 0, NEW c \in Clusters
  PROVE  /\ Load(x, f, clst2sect(c)).v \in Volumes
         /\ Load(x, f, clst2sect(c)).f \in OpenFils
         /\ Load(x, f, clst2sect(c)).f.sect = clst2sect(c)
         /\ Alike(f, Load(x, f, clst2sect(c)).f)
         /\ Same(x, Load(x, f, clst2sect(c)).v)
<1> DEFINE s == clst2sect(c)
           y == WriteBack(x, f)
           b == y.disk[s]
           g == [f EXCEPT !.buf = b, !.sect = s, !.dirty = FALSE]
           r == Load(x, f, s)
<1>1. y \in Volumes /\ Same(x, y)
  BY WriteBackType DEF Same
<1>2. s \in DataSectors /\ b \in DataContents
  BY <1>1, DiskSector
<1>3. r = IF f.sect = s THEN [v |-> x, f |-> f] ELSE [v |-> y, f |-> g]
  BY DEF Load
<1> HIDE DEF y, b, s, r
<1>4. g \in OpenFils /\ g.sect = s /\ Alike(f, g)
  BY <1>2 DEF OpenFils, Alike
<1> HIDE DEF g
<1>5. CASE f.sect = s
  <2>1. r.v = x /\ r.f = f
    BY <1>3, <1>5
  <2> QED BY <1>5, <2>1, Unmoved DEF Alike, r, s
<1>6. CASE f.sect # s
  <2>1. r.v = y /\ r.f = g
    BY <1>3, <1>6
  <2> QED BY <1>1, <1>4, <2>1 DEF r, s
<1> QED BY <1>5, <1>6

\* The number of cells up to the sector's end, or to the end of the transfer.
LEMMA FewType ==
  ASSUME NEW a \in Nat, NEW b \in Nat
  PROVE  Few(a, b) \in Nat /\ Few(a, b) <= a /\ Few(a, b) <= b /\ (Few(a, b) = a \/ Few(a, b) = b)
BY DEF Few

LEMMA PartType ==
  ASSUME NEW b \in DataContents, NEW from \in Nat, NEW n \in Nat, from + n <= SS
  PROVE  Part(b, from, n) \in Seq(DataCells)
<1>1. \A i \in 1 .. n : from + i - 1 \in Cells
  BY Geometry DEF Cells
<1>2. Part(b, from, n) \in [1 .. n -> DataCells]
  BY <1>1 DEF Part, DataContents
<1> QED BY <1>2

\* A file moved on within its size, with its sector in the buffer.
LEMMA MovedType ==
  ASSUME NEW f \in OpenFils, f.dirty => f.sect # 0, ~f.err, NEW k \in Nat, f.fptr + k <= f.size,
         (f.fptr + k) % SS # 0 => f.clust \in Clusters /\ f.sect = clst2sect(f.clust)
  PROVE  [f EXCEPT !.fptr = @ + k] \in Fils /\ [f EXCEPT !.fptr = @ + k].err = f.err
         /\ [f EXCEPT !.fptr = @ + k].fptr = f.fptr + k /\ [f EXCEPT !.fptr = @ + k].size = f.size
<1> DEFINE g == [f EXCEPT !.fptr = @ + k]
<1>1. f.fptr + k \in 0 .. MaxSize
  BY OpenedFields, Geometry
<1>2. /\ g \in OpenFils /\ g.fptr = f.fptr + k /\ g.size = f.size /\ g.clust = f.clust
      /\ g.sect = f.sect /\ g.dirty = f.dirty /\ g.err = f.err
  BY <1>1 DEF OpenFils
<1> HIDE DEF g
<1>3. g \in Fils
  BY <1>2, FilsSet DEF Fits, Placed
<1> QED BY <1>2, <1>3 DEF g

\* An aborted file keeps its fields.
LEMMA ErrType ==
  ASSUME NEW f \in OpenFils, f.dirty => f.sect # 0
  PROVE  [f EXCEPT !.err = TRUE] \in Fils
<1> DEFINE g == [f EXCEPT !.err = TRUE]
<1>1. g \in OpenFils /\ g.sect = f.sect /\ g.dirty = f.dirty /\ g.err
  BY DEF OpenFils
<1> HIDE DEF g
<1>2. g \in Fils
  BY <1>1, FilsSet DEF Fits
<1> QED BY <1>2 DEF g

\* What a read holds between its rounds: the rest fits into the file.
Reads ==
  {l \in [v : Volumes, f : Fils, n : Nat, out : Seq(DataCells), res : {"OK", "INT_ERR"}] :
     l.res = "OK" => ~l.f.err /\ l.f.fptr + l.n <= l.f.size}

LEMMA ReadRound ==
  ASSUME NEW l \in Reads
  PROVE  ReadNext(l) \in Reads /\ Same(l.v, ReadNext(l).v)
<1> DEFINE f == l.f
           edge == f.fptr % SS = 0
           c == IF ~edge THEN f.clust ELSE IF f.fptr = 0 THEN f.sclust ELSE get_fat(l.v, f.clust)
           y == IF edge /\ f.fptr # 0 THEN AtFat(l.v, f.clust) ELSE l.v
           s == clst2sect(c)
           fc == [f EXCEPT !.clust = c]
           at == IF edge THEN Load(y, fc, s) ELSE [v |-> y, f |-> f]
           k == Few(SS - (f.fptr % SS), l.n)
           whole == [l EXCEPT !.v = y, !.f = [f EXCEPT !.clust = c, !.fptr = @ + SS], !.n = @ - SS,
                    !.out = @ \o Part(Whole(y, f, s), 0, SS)]
           part == [l EXCEPT !.v = at.v, !.f = [at.f EXCEPT !.fptr = @ + k], !.n = @ - k,
                    !.out = @ \o Part(at.f.buf, f.fptr % SS, k)]
           z == ReadNext(l)
<1>1. z = IF l.n = 0 \/ l.res # "OK" THEN l
          ELSE IF edge /\ c \notin Clusters THEN Aborted(l, y, f)
          ELSE IF edge /\ l.n >= SS THEN whole ELSE part
  BY DEF ReadNext
<1>2. /\ l \in [v : Volumes, f : Fils, n : Nat, out : Seq(DataCells), res : {"OK", "INT_ERR"}]
      /\ l.v \in Volumes /\ f \in Fils /\ l.n \in Nat /\ l.out \in Seq(DataCells)
      /\ (l.res = "OK" => ~f.err /\ f.fptr + l.n <= f.size)
  BY DEF Reads
<1>3. f \in OpenFils /\ Fits(f) /\ f.fptr \in Nat /\ f.size \in Nat /\ SS \in Nat \ {0} /\ SS >= 2
  BY <1>2, FilsSet, OpenedFields, Geometry
<1>4. f.fptr % SS \in Cells /\ f.fptr % SS \in Nat /\ f.fptr % SS < SS
  BY <1>3, SlotCell DEF Cells
<1>5. c \in 0 .. EOC
  <2>1. f.clust \in 0 .. EOC /\ f.sclust \in 0 .. EOC
    BY <1>3, OpenedFields, Geometry
  <2>2. get_fat(l.v, f.clust) \in 0 .. EOC
    BY <1>2, GetFat
  <2> QED BY <2>1, <2>2
<1>6. y \in Volumes /\ Same(l.v, y)
  BY <1>2, AtFatType, StillSame, Unmoved
<1>7. k \in Nat /\ k <= l.n /\ (f.fptr % SS) + k <= SS /\ k <= SS - (f.fptr % SS)
  <2>1. SS - (f.fptr % SS) \in Nat
    BY <1>3, <1>4
  <2> DEFINE room == SS - (f.fptr % SS)
  <2>2. room \in Nat
    BY <2>1
  <2>3. Few(room, l.n) \in Nat /\ Few(room, l.n) <= room /\ Few(room, l.n) <= l.n
    <3> HIDE DEF room
    <3> QED BY <1>2, <2>2, FewType
  <2> QED BY <1>3, <1>4, <2>3
<1>8. CASE l.n = 0 \/ l.res # "OK"
  BY <1>1, <1>8, Unmoved
<1>9. CASE ~(l.n = 0 \/ l.res # "OK") /\ edge /\ c \notin Clusters
  <2> DEFINE e == [f EXCEPT !.err = TRUE]
  <2>1. e \in Fils
    BY <1>3, ErrType DEF Fits
  <2>2. z = [l EXCEPT !.v = y, !.f = e, !.res = "INT_ERR"]
    BY <1>1, <1>9 DEF Aborted
  <2> HIDE DEF f, y, e, z
  <2>3. /\ z \in [v : Volumes, f : Fils, n : Nat, out : Seq(DataCells), res : {"OK", "INT_ERR"}]
        /\ z.res = "INT_ERR" /\ z.v = y
    BY <1>2, <1>6, <2>1, <2>2
  <2>4. z \in Reads
    BY <2>3 DEF Reads
  <2> QED BY <1>6, <2>3, <2>4 DEF z
<1>10. CASE ~(l.n = 0 \/ l.res # "OK") /\ edge /\ c \in Clusters /\ l.n >= SS
  <2> DEFINE g == [f EXCEPT !.clust = c, !.fptr = @ + SS]
             n == l.n - SS
             o == l.out \o Part(Whole(y, f, s), 0, SS)
  <2>1. n \in Nat /\ f.fptr + SS <= f.size /\ f.fptr + SS + n = f.fptr + l.n /\ ~f.err /\ f.fptr + l.n <= f.size
    BY <1>2, <1>3, <1>10
  <2>2. (f.fptr + SS) % SS = 0
    <3>1. (f.fptr + SS) % SS = f.fptr % SS
      <4> DEFINE a == f.fptr
      <4>1. a \in Int /\ SS \in Nat \ {0}
        BY <1>3
      <4> HIDE DEF a
      <4>2. (a + SS) % SS = a % SS
        BY <4>1, NextMultiple
      <4> QED BY <4>2 DEF a
    <3> QED BY <1>10, <3>1
  <2>3. Whole(y, f, s) \in DataContents
    <3>1. y.disk[s] \in DataContents /\ f.buf \in DataContents
      BY <1>3, <1>6, <1>10, DiskSector, OpenedFields
    <3> QED BY <3>1 DEF Whole
  <2>4. o \in Seq(DataCells)
    <3> DEFINE b == Whole(y, f, s)
    <3>1. b \in DataContents
      BY <2>3
    <3> HIDE DEF b
    <3>2. Part(b, 0, SS) \in Seq(DataCells)
      BY <1>3, <3>1, PartType
    <3>3. l.out \o Part(b, 0, SS) \in Seq(DataCells)
      BY <1>2, <3>2
    <3> QED BY <3>3 DEF b
  <2>5. g \in Fils /\ g.fptr = f.fptr + SS /\ g.size = f.size /\ ~g.err
    <3>1. f.fptr + SS \in 0 .. MaxSize
      <4> HIDE DEF f, n
      <4> QED BY <1>3, <2>1, OpenedFields, Geometry
    <3> HIDE DEF c
    <3>2. /\ g \in OpenFils /\ g.fptr = f.fptr + SS /\ g.size = f.size /\ g.sect = f.sect
          /\ g.dirty = f.dirty /\ g.err = f.err
      BY <1>3, <1>5, <3>1 DEF OpenFils
    <3> HIDE DEF g, f
    <3> QED BY <1>3, <2>1, <2>2, <3>2, FilsSet DEF Fits, Placed
  <2>6. z = [l EXCEPT !.v = y, !.f = g, !.n = n, !.out = o]
    BY <1>1, <1>10
  <2> HIDE DEF f, c, y, s, g, n, o, z
  <2>7. /\ z \in [v : Volumes, f : Fils, n : Nat, out : Seq(DataCells), res : {"OK", "INT_ERR"}]
        /\ z.f = g /\ z.n = n /\ z.v = y
    BY <1>2, <1>6, <2>1, <2>4, <2>5, <2>6
  <2>8. g.fptr + n <= g.size
    BY <2>1, <2>5
  <2>9. z \in Reads
    BY <2>5, <2>7, <2>8 DEF Reads
  <2> QED BY <1>6, <2>7, <2>9 DEF z
<1>11. CASE ~(l.n = 0 \/ l.res # "OK") /\ ~(edge /\ c \notin Clusters) /\ ~(edge /\ l.n >= SS)
  <2> DEFINE a == at.f
             g == [a EXCEPT !.fptr = @ + k]
             n == l.n - k
             o == l.out \o Part(at.f.buf, f.fptr % SS, k)
             u == at.v
  <2>1. /\ u \in Volumes /\ a \in OpenFils /\ a.sect = clst2sect(a.clust) /\ a.clust \in Clusters
        /\ a.fptr = f.fptr /\ a.size = f.size /\ ~a.err /\ Same(l.v, u)
    <3>1. CASE edge
      <4>1. c \in Clusters
        BY <1>11, <3>1
      <4> HIDE DEF c
      <4>2. /\ fc \in OpenFils /\ (fc.dirty => fc.sect # 0) /\ fc.clust = c
            /\ fc.fptr = f.fptr /\ fc.size = f.size /\ fc.err = f.err
        BY <1>3, <1>5 DEF OpenFils, Fits
      <4> HIDE DEF fc, y
      <4>3. /\ Load(y, fc, clst2sect(c)).v \in Volumes
            /\ Load(y, fc, clst2sect(c)).f \in OpenFils
            /\ Load(y, fc, clst2sect(c)).f.sect = clst2sect(c)
            /\ Alike(fc, Load(y, fc, clst2sect(c)).f)
            /\ Same(y, Load(y, fc, clst2sect(c)).v)
        BY <1>6, <4>1, <4>2, LoadType
      <4>5. Same(l.v, Load(y, fc, clst2sect(c)).v)
        BY <1>6, <4>3, SameTransitive
      <4>4. at = Load(y, fc, clst2sect(c))
        BY <3>1
      <4> HIDE DEF at, f
      <4> QED BY <1>2, <1>11, <4>1, <4>2, <4>3, <4>4, <4>5 DEF Alike
    <3>2. CASE ~edge
      <4>1. Placed(f) /\ ~f.err
        BY <1>2, <1>3, <1>11 DEF Fits
      <4>2. a = f /\ u = y
        BY <3>2
      <4> HIDE DEF f, y, a, u
      <4> QED BY <1>3, <1>6, <3>2, <4>1, <4>2 DEF Placed
    <3> QED BY <3>1, <3>2
  <2> HIDE DEF k
  <2>2. n \in Nat /\ f.fptr + k <= f.size /\ f.fptr + k + n = f.fptr + l.n /\ f.fptr + l.n <= f.size
    <3>1. k \in Nat /\ k <= l.n /\ l.n \in Nat
      BY <1>2, <1>7
    <3>2. f.fptr + l.n <= f.size /\ f.fptr \in Nat /\ f.size \in Nat
      BY <1>2, <1>3, <1>11
    <3> HIDE DEF f
    <3> QED BY <3>1, <3>2
  <2>3. o \in Seq(DataCells)
    <3> DEFINE b == at.f.buf
               from == f.fptr % SS
    <3>1. b \in DataContents /\ from \in Nat /\ from + k <= SS
      BY <1>4, <1>7, <2>1, OpenedFields
    <3> HIDE DEF b, from
    <3>2. Part(b, from, k) \in Seq(DataCells)
      BY <1>7, <3>1, PartType
    <3>3. l.out \o Part(b, from, k) \in Seq(DataCells)
      BY <1>2, <3>2
    <3> QED BY <3>3 DEF b, from
  <2>4. z = [l EXCEPT !.v = u, !.f = g, !.n = n, !.out = o]
    BY <1>1, <1>11 DEF k
  <2> HIDE DEF f, u, a, n, o, z
  <2>5. g \in Fils /\ g.err = a.err /\ g.fptr = a.fptr + k /\ g.size = a.size
    <3>1. a.dirty => a.sect # 0
      BY <2>1, Areas, ContentsOf
    <3> QED BY <1>7, <2>1, <2>2, <3>1, MovedType
  <2> HIDE DEF g
  <2>7. /\ z \in [v : Volumes, f : Fils, n : Nat, out : Seq(DataCells), res : {"OK", "INT_ERR"}]
        /\ z.f = g /\ z.n = n /\ z.v = u
    BY <1>2, <2>1, <2>2, <2>3, <2>4, <2>5
  <2>8. g.fptr + n <= g.size /\ ~g.err
    BY <1>2, <1>3, <1>7, <2>1, <2>2, <2>5
  <2>9. z \in Reads
    BY <2>7, <2>8 DEF Reads
  <2> QED BY <2>1, <2>7, <2>9 DEF z
<1> QED BY <1>8, <1>9, <1>10, <1>11

\* f_read.
LEMMA ReadType ==
  ASSUME NEW x \in Volumes, NEW f \in Fils, ~f.err, NEW m \in Nat
  PROVE  f_read(x, f, m).v \in Volumes /\ f_read(x, f, m).f \in Fils /\ Same(x, f_read(x, f, m).v)
<1> DEFINE S == {l \in Reads : Same(x, l.v)}
           start == [v |-> x, f |-> f, n |-> Few(m, f.size - f.fptr), out |-> <<>>, res |-> "OK"]
           n == m
           Round(l) == ReadNext(l)
           Rows(t) == t = [k \in 0 .. n |-> IF k = 0 THEN start ELSE Round(t[k - 1])]
           after == CHOOSE t : Rows(t)
           step == [k \in 1 .. n |-> [l \in S |-> Round(l)]]
<1>1. n \in Nat
  OBVIOUS
<1>2. start \in S
  <2>1. f \in OpenFils /\ f.fptr <= f.size
    BY FilsSet DEF Fits
  <2>2. f.size - f.fptr \in Nat /\ f.fptr \in Nat /\ f.size \in Nat
    BY <2>1, OpenedFields
  <2> DEFINE few == Few(m, f.size - f.fptr)
  <2>3. few \in Nat /\ few <= f.size - f.fptr
    BY <2>2, FewType
  <2>4. f.fptr + few <= f.size
    <3> HIDE DEF few
    <3> QED BY <2>2, <2>3
  <2> HIDE DEF few
  <2>5. <<>> \in Seq(DataCells)
    OBVIOUS
  <2> QED BY <2>3, <2>4, <2>5, Unmoved DEF Reads, few
<1>3. \A l \in S : Round(l) \in S
  BY ReadRound, SameTransitive
<1>4. f_read(x, f, m) = after[n]
  BY DEF f_read, Times
<1> HIDE DEF S, start, n, Round
<1>5. step \in [1 .. n -> [S -> S]]
  BY <1>3
<1>6. PICK rows \in [0 .. n -> S] : rows[0] = start /\ \A k \in 1 .. n : rows[k] = step[k][rows[k - 1]]
  <2>1. FillsTable(step, n, S, start)
    BY <1>1, <1>2, <1>5, TableExists DEF RowFunction
  <2> QED BY <2>1 DEF FillsTable
<1>7. Rows(rows)
  <2>1. \A k \in 1 .. n : rows[k] = Round(rows[k - 1])
    <3> TAKE k \in 1 .. n
    <3>1. rows[k - 1] \in S /\ rows[k] = step[k][rows[k - 1]]
      BY <1>1, <1>6
    <3>2. step[k] = [l \in S |-> Round(l)]
      OBVIOUS
    <3> QED BY <3>1, <3>2
  <2>2. \A k \in 0 .. n : rows[k] = IF k = 0 THEN start ELSE Round(rows[k - 1])
    BY <1>6, <2>1
  <2> QED BY <2>2
<1>8. Rows(after)
  <2> HIDE DEF Rows
  <2> QED BY <1>7
<1> HIDE DEF after
<1>9. after[n] \in S
  <2>1. after[0] \in S /\ \A k \in 1 .. n : after[k] = Round(after[k - 1])
    BY <1>1, <1>2, <1>8
  <2>2. \A k \in 1 .. n : after[k - 1] \in S => after[k] \in S
    BY <1>3, <2>1
  <2>3. \A k \in 0 .. n : after[k] \in S
    BY <1>1, <2>1, <2>2, StaysIn
  <2> QED BY <1>1, <2>3
<1> QED BY <1>4, <1>9 DEF S, Reads

LEMMA PatchType ==
  ASSUME NEW b \in DataContents, NEW from \in Nat, NEW data \in Seq(DataCells)
  PROVE  Patch(b, from, data) \in DataContents
<1>1. ASSUME NEW i \in Cells, i \in from .. from + Len(data) - 1 PROVE data[i - from + 1] \in DataCells
  <2>1. Len(data) \in Nat /\ i \in Int
    BY Geometry DEF Cells
  <2>2. i - from + 1 \in 1 .. Len(data)
    BY <1>1, <2>1
  <2> QED BY <2>2
<1>2. \A i \in Cells : b[i] \in DataCells
  BY DEF DataContents
<1> QED BY <1>1, <1>2 DEF Patch, DataContents

\* A file written to is at least as long as its position.
LEMMA AdvanceType ==
  ASSUME NEW f \in OpenFils, NEW k \in Nat, f.fptr + k <= MaxSize
  PROVE  /\ Advance(f, k) \in OpenFils /\ Advance(f, k).fptr = f.fptr + k
         /\ Advance(f, k).fptr <= Advance(f, k).size
         /\ Advance(f, k).clust = f.clust /\ Advance(f, k).sect = f.sect
         /\ Advance(f, k).dirty = f.dirty /\ Advance(f, k).err = f.err
<1> DEFINE ptr == f.fptr + k
           size == IF f.fptr + k > f.size THEN f.fptr + k ELSE f.size
           g == [f EXCEPT !.fptr = ptr, !.size = size]
<1>1. ptr \in 0 .. MaxSize /\ size \in 0 .. MaxSize /\ ptr <= size
  BY OpenedFields, Geometry
<1>2. Advance(f, k) = g
  BY DEF Advance
<1>3. ptr = f.fptr + k
  OBVIOUS
<1> HIDE DEF ptr, size
<1>4. /\ g \in OpenFils /\ g.fptr = ptr /\ g.size = size /\ g.clust = f.clust
      /\ g.sect = f.sect /\ g.dirty = f.dirty /\ g.err = f.err
  BY <1>1 DEF OpenFils
<1> HIDE DEF g
<1> QED BY <1>1, <1>2, <1>3, <1>4

\* A file that was written up to the middle of a sector has that in its buffer.
LEMMA AdvancedFits ==
  ASSUME NEW f \in OpenFils, NEW k \in Nat, f.fptr + k <= MaxSize, f.dirty => f.sect # 0,
         (f.fptr + k) % SS # 0 => f.clust \in Clusters /\ f.sect = clst2sect(f.clust)
  PROVE  Advance(f, k) \in Fils /\ Advance(f, k).fptr = f.fptr + k /\ Advance(f, k).err = f.err
<1> DEFINE g == Advance(f, k)
<1>1. /\ g \in OpenFils /\ g.fptr = f.fptr + k /\ g.fptr <= g.size
      /\ g.clust = f.clust /\ g.sect = f.sect /\ g.dirty = f.dirty /\ g.err = f.err
  BY AdvanceType
<1> HIDE DEF g
<1>2. g \in Fils
  BY <1>1, FilsSet DEF Fits, Placed
<1> QED BY <1>1, <1>2 DEF g

\* What a write holds between its rounds: the rest does not pass the largest size.
Writes ==
  {l \in [v : Volumes, f : Fils, data : Seq(DataCells), res : {"OK", "INT_ERR"}] :
     l.res = "OK" => ~l.f.err /\ l.f.fptr + Len(l.data) <= MaxSize}

LEMMA WriteFields ==
  ASSUME NEW l \in Writes
  PROVE  /\ l \in [v : Volumes, f : Fils, data : Seq(DataCells), res : {"OK", "INT_ERR"}]
         /\ l.v \in Volumes /\ l.f \in Fils /\ l.data \in Seq(DataCells) /\ Len(l.data) \in Nat
         /\ l.f \in OpenFils /\ Fits(l.f) /\ l.f.fptr \in Nat
         /\ l.res = "OK" => ~l.f.err /\ l.f.fptr + Len(l.data) <= MaxSize
<1>1. /\ l \in [v : Volumes, f : Fils, data : Seq(DataCells), res : {"OK", "INT_ERR"}]
      /\ l.res = "OK" => ~l.f.err /\ l.f.fptr + Len(l.data) <= MaxSize
  BY DEF Writes
<1>2. l.data \in Seq(DataCells) /\ l.v \in Volumes /\ l.f \in Fils
  BY <1>1
<1>3. Len(l.data) \in Nat
  BY <1>2
<1>4. l.f \in OpenFils /\ Fits(l.f)
  BY <1>2, FilsSet
<1> QED BY <1>1, <1>2, <1>3, <1>4, OpenedFields

\* A round that wrote k cells.
Wrote(l, y, g, k) == [l EXCEPT !.v = y, !.f = g, !.data = SubSeq(@, k + 1, Len(@))]

LEMMA WroteType ==
  ASSUME NEW l \in Writes, l.res = "OK", NEW k \in Nat, k <= Len(l.data), NEW y \in Volumes,
         NEW g \in Fils, ~g.err, g.fptr = l.f.fptr + k
  PROVE  Wrote(l, y, g, k) \in Writes /\ Wrote(l, y, g, k).v = y
<1> DEFINE d == SubSeq(l.data, k + 1, Len(l.data))
           z == [l EXCEPT !.v = y, !.f = g, !.data = d]
<1>1. d \in Seq(DataCells) /\ Len(d) = Len(l.data) - k
  <2> DEFINE data == l.data
  <2>1. data \in Seq(DataCells) /\ k \in 0 .. Len(data)
    BY WriteFields
  <2> HIDE DEF data
  <2>2. /\ SubSeq(data, k + 1, Len(data)) \in Seq(DataCells)
        /\ Len(SubSeq(data, k + 1, Len(data))) = Len(data) - k
    BY <2>1
  <2> QED BY <2>2 DEF data
<1> HIDE DEF d
<1>2. /\ z \in [v : Volumes, f : Fils, data : Seq(DataCells), res : {"OK", "INT_ERR"}]
      /\ z.f = g /\ z.data = d /\ z.v = y
  BY <1>1, WriteFields
<1>3. g.fptr + Len(d) <= MaxSize
  <2>1. l.f.fptr \in Nat /\ Len(l.data) \in Nat /\ MaxSize \in Nat /\ l.f.fptr + Len(l.data) <= MaxSize
    BY WriteFields, Geometry
  <2> QED BY <1>1, <2>1
<1>5. Wrote(l, y, g, k) = z
  BY DEF Wrote, d
<1> HIDE DEF z
<1>4. z \in Writes
  BY <1>2, <1>3 DEF Writes
<1> QED BY <1>2, <1>4, <1>5

LEMMA WriteAborts ==
  ASSUME NEW l \in Writes, NEW y \in Volumes
  PROVE  Aborted(l, y, l.f) \in Writes /\ Aborted(l, y, l.f).v = y
<1> DEFINE e == [l.f EXCEPT !.err = TRUE]
           z == [l EXCEPT !.v = y, !.f = e, !.res = "INT_ERR"]
<1>1. e \in Fils
  BY WriteFields, ErrType DEF Fits
<1>2. Aborted(l, y, l.f) = z
  BY DEF Aborted
<1> HIDE DEF e
<1>3. /\ z \in [v : Volumes, f : Fils, data : Seq(DataCells), res : {"OK", "INT_ERR"}]
      /\ z.res = "INT_ERR" /\ z.v = y
  BY <1>1, WriteFields
<1> HIDE DEF z
<1>4. z \in Writes
  BY <1>3 DEF Writes
<1> QED BY <1>2, <1>3, <1>4

LEMMA WritePartType ==
  ASSUME NEW l \in Writes, l.res = "OK", NEW x \in Volumes, NEW f \in OpenFils, ~f.err,
         f.fptr = l.f.fptr, f.clust \in Clusters, f.sect = clst2sect(f.clust)
  PROVE  WritePart(l, x, f) \in Writes /\ WritePart(l, x, f).v = x
<1> DEFINE from == f.fptr % SS
           k == Few(SS - from, Len(l.data))
           d == SubSeq(l.data, 1, k)
           b == Patch(f.buf, from, d)
           filled == [f EXCEPT !.buf = b, !.dirty = TRUE]
           g == Advance(filled, k)
<1>1. WritePart(l, x, f) = Wrote(l, x, g, k)
  BY DEF WritePart, Wrote
<1>2. from \in Nat /\ SS - from \in Nat
  <2>1. from \in Cells /\ SS \in Nat
    BY OpenedFields, SlotCell, Geometry
  <2> QED BY <2>1 DEF Cells
<1>3. k \in Nat /\ k <= Len(l.data)
  BY <1>2, WriteFields, FewType
<1> HIDE DEF k, from
<1>4. d \in Seq(DataCells)
  <2> DEFINE data == l.data
  <2>1. data \in Seq(DataCells) /\ k \in 0 .. Len(data)
    BY <1>3, WriteFields
  <2> HIDE DEF data
  <2>2. SubSeq(data, 1, k) \in Seq(DataCells)
    BY <2>1
  <2> QED BY <2>2 DEF data
<1> HIDE DEF d
<1>5. b \in DataContents
  BY <1>2, <1>4, OpenedFields, PatchType
<1> HIDE DEF b
<1>6. /\ filled \in OpenFils /\ filled.fptr = f.fptr /\ filled.clust = f.clust /\ filled.sect = f.sect
      /\ filled.err = f.err
  BY <1>5 DEF OpenFils
<1>7. f.sect # 0
  BY Areas
<1>8. f.fptr + k <= MaxSize
  <2>1. l.f.fptr + Len(l.data) <= MaxSize /\ l.f.fptr \in Nat /\ Len(l.data) \in Nat /\ MaxSize \in Nat
    BY WriteFields, Geometry
  <2> QED BY <1>3, <2>1
<1> HIDE DEF filled
<1>9. g \in Fils /\ g.fptr = f.fptr + k /\ ~g.err
  BY <1>3, <1>6, <1>7, <1>8, AdvancedFits
<1> HIDE DEF g
<1>10. g.fptr = l.f.fptr + k
  BY <1>9
<1>11. Wrote(l, x, g, k) \in Writes /\ Wrote(l, x, g, k).v = x
  BY <1>3, <1>9, <1>10, WroteType
<1> QED BY <1>1, <1>11

\* At the edge of a cluster: the next one was found or created, or not.
LEMMA WriteEdgeType ==
  ASSUME NEW l \in Writes, l.res = "OK", l.f.fptr % SS = 0,
         NEW got \in [v : Volumes, clst : 0 .. EOC]
  PROVE  WriteEdge(l, got) \in Writes /\ Same(got.v, WriteEdge(l, got).v)
<1> DEFINE c == got.clst
           s == clst2sect(c)
           f == l.f
           sc == IF f.sclust = 0 THEN c ELSE f.sclust
           g == [f EXCEPT !.clust = c, !.sclust = sc, !.dirty = FALSE]
           y == WriteBack(got.v, f)
           whole == Patch(ZeroSector, 0, SubSeq(l.data, 1, SS))
           buf == IF f.sect = s THEN whole ELSE f.buf
           u == [y EXCEPT !.disk[s] = whole]
           h == [g EXCEPT !.buf = buf]
           z == WriteEdge(l, got)
<1>1. z = IF c = 0 THEN [l EXCEPT !.v = got.v, !.data = <<>>]
          ELSE IF c \notin Clusters THEN Aborted(l, got.v, f)
          ELSE IF Len(l.data) >= SS
          THEN [l EXCEPT !.v = u, !.f = Advance(h, SS), !.data = SubSeq(@, SS + 1, Len(@))]
          ELSE WritePart(l, y, IntoBuffer(y, g, s))
  BY DEF WriteEdge
<1>2. /\ got.v \in Volumes /\ f \in OpenFils /\ f \in Fils /\ (f.dirty => f.sect # 0) /\ ~f.err
      /\ f.fptr \in Nat /\ SS \in Nat \ {0}
  BY WriteFields, Geometry DEF Fits
<1>3. y \in Volumes /\ Same(got.v, y)
  BY <1>2, WriteBackType DEF Same
<1>4. CASE c = 0
  <2> DEFINE t == [l EXCEPT !.v = got.v, !.data = <<>>]
  <2>1. /\ t \in [v : Volumes, f : Fils, data : Seq(DataCells), res : {"OK", "INT_ERR"}]
        /\ t.f = l.f /\ t.data = <<>> /\ t.v = got.v
    <3>1. <<>> \in Seq(DataCells)
      OBVIOUS
    <3> HIDE DEF f
    <3> QED BY <1>2, <3>1, WriteFields
  <2>2. l.f.fptr + Len(<<>>) <= MaxSize
    BY <1>2, OpenedFields, Geometry
  <2>3. z = t
    BY <1>1, <1>4
  <2> HIDE DEF t, z, f
  <2>4. t \in Writes
    BY <1>2, <2>1, <2>2 DEF Writes, f
  <2> QED BY <2>1, <2>3, <2>4, Unmoved DEF z
<1>5. CASE c # 0 /\ c \notin Clusters
  BY <1>1, <1>2, <1>5, WriteAborts, Unmoved
<1>6. CASE c \in Clusters
  <2>1. c # 0 /\ c \in 0 .. EOC
    BY <1>6, Geometry
  <2>2. s \in DataSectors /\ s \in Sectors
    BY <1>6, Areas
  <2>3. /\ g \in OpenFils /\ g.clust = c /\ ~g.dirty /\ g.err = f.err /\ g.fptr = f.fptr /\ g.sect = f.sect
        /\ g.size = f.size
    <3>1. sc \in {0} \cup Clusters
      BY <1>2, <1>6, OpenedFields
    <3> HIDE DEF sc, c, f
    <3> QED BY <1>2, <2>1, <3>1 DEF OpenFils
  <2>4. CASE Len(l.data) >= SS
    <3>1. whole \in DataContents
      <4> DEFINE data == l.data
      <4>1. data \in Seq(DataCells) /\ SS \in 0 .. Len(data)
        BY <1>2, <2>4, WriteFields
      <4> HIDE DEF data
      <4>2. SubSeq(data, 1, SS) \in Seq(DataCells)
        BY <4>1
      <4>3. Patch(ZeroSector, 0, SubSeq(data, 1, SS)) \in DataContents
        <5> DEFINE d == SubSeq(data, 1, SS)
        <5>1. d \in Seq(DataCells) /\ 0 \in Nat
          BY <4>2
        <5> HIDE DEF d
        <5>2. Patch(ZeroSector, 0, d) \in DataContents
          BY <5>1, ZeroContents, PatchType
        <5> QED BY <5>2 DEF d
      <4> QED BY <4>3 DEF data
    <3>2. buf \in DataContents
      BY <1>2, <3>1, OpenedFields
    <3>3. u \in Volumes /\ Same(got.v, u)
      <4>1. whole \in Contents(s) /\ whole \in AnyContents
        BY <2>2, <3>1, ContentsOf DEF AnyContents
      <4> HIDE DEF s, y, whole
      <4>2. /\ u \in [disk : [Sectors -> AnyContents], win : AnyContents, sect : Sectors \cup {-1},
                    dirty : BOOLEAN, last : 0 .. NFatEnt - 1]
            /\ u.disk = [y.disk EXCEPT ![s] = whole] /\ u.win = y.win /\ u.sect = y.sect /\ u.dirty = y.dirty
        BY <1>3, <2>2, <4>1, VolumeFields
      <4>3. \A t \in Sectors : u.disk[t] \in Contents(t)
        BY <1>3, <2>2, <4>1, <4>2, VolumeFields
      <4> HIDE DEF u
      <4>4. Kept(y, u, SystemSectors)
        BY <1>3, <2>2, <4>2, Areas DEF Kept, Current, Seen
      <4>5. u \in Volumes
        BY <1>3, <4>2, <4>3, <4>4, CoherentKept, VolumeFields, MakesVolume
      <4>6. Same(y, u)
        BY <4>4 DEF Same
      <4> QED BY <1>3, <4>5, <4>6, SameTransitive
    <3> HIDE DEF buf, whole, g
    <3>4. h \in OpenFils /\ ~h.dirty /\ h.err = g.err /\ h.fptr = g.fptr
      BY <2>3, <3>2 DEF OpenFils
    <3>5. (f.fptr + SS) % SS = 0
      <4> DEFINE a == f.fptr
      <4>1. a \in Int /\ SS \in Nat \ {0} /\ a % SS = 0
        BY <1>2
      <4> HIDE DEF a
      <4>2. (a + SS) % SS = a % SS
        BY <4>1, NextMultiple
      <4> QED BY <4>1, <4>2 DEF a
    <3>6. f.fptr + SS <= MaxSize /\ SS <= Len(l.data)
      <4>1. f.fptr + Len(l.data) <= MaxSize /\ Len(l.data) \in Nat /\ MaxSize \in Nat
        BY WriteFields, Geometry
      <4> HIDE DEF f
      <4> QED BY <1>2, <2>4, <4>1
    <3> DEFINE a == Advance(h, SS)
    <3> HIDE DEF h
    <3>7. a \in Fils /\ a.fptr = f.fptr + SS /\ ~a.err
      <4>1. h.fptr + SS = f.fptr + SS /\ h.fptr + SS <= MaxSize /\ (h.fptr + SS) % SS = 0 /\ SS \in Nat
        BY <1>2, <2>3, <3>4, <3>5, <3>6
      <4>2. a \in Fils /\ a.fptr = h.fptr + SS /\ a.err = h.err
        BY <3>4, <4>1, AdvancedFits
      <4> QED BY <1>2, <2>3, <3>4, <4>1, <4>2
    <3>8. z = Wrote(l, u, a, SS)
      BY <1>1, <1>6, <2>1, <2>4 DEF h, g, Wrote
    <3> HIDE DEF a, u, z
    <3>9. Wrote(l, u, a, SS) \in Writes /\ Wrote(l, u, a, SS).v = u
      <4>1. SS \in Nat /\ a.fptr = l.f.fptr + SS
        BY <1>2, <3>7
      <4> QED BY <3>3, <3>6, <3>7, <4>1, WroteType
    <3> QED BY <3>3, <3>8, <3>9 DEF z
  <2>5. CASE ~(Len(l.data) >= SS)
    <3> DEFINE b == y.disk[s]
               i == IntoBuffer(y, g, s)
    <3>1. b \in DataContents
      BY <1>3, <1>6, DiskSector
    <3>2. i = IF g.sect # s /\ g.fptr < g.size THEN [g EXCEPT !.buf = b, !.sect = s]
              ELSE [g EXCEPT !.sect = s]
      BY DEF IntoBuffer
    <3>3. z = WritePart(l, y, i)
      BY <1>1, <1>6, <2>1, <2>5
    <3>4. s = clst2sect(c)
      OBVIOUS
    <3> HIDE DEF b, i, g, s, y, z
    <3>5. [g EXCEPT !.buf = b, !.sect = s] \in OpenFils /\ [g EXCEPT !.sect = s] \in OpenFils
      BY <2>2, <2>3, <3>1 DEF OpenFils
    <3>6. i \in OpenFils /\ i.sect = s /\ i.clust = c /\ i.fptr = f.fptr /\ i.err = f.err
      BY <2>3, <3>2, <3>5 DEF OpenFils
    <3> HIDE DEF c, f
    <3>7. WritePart(l, y, i) \in Writes /\ WritePart(l, y, i).v = y
      <4>1. ~i.err /\ i.fptr = l.f.fptr /\ i.clust \in Clusters /\ i.sect = clst2sect(i.clust)
        BY <1>2, <1>6, <3>4, <3>6 DEF f
      <4> QED BY <1>3, <3>6, <4>1, WritePartType
    <3> QED BY <1>3, <3>3, <3>7 DEF z
  <2> QED BY <2>4, <2>5
<1> QED BY <1>4, <1>5, <1>6

LEMMA WriteRound ==
  ASSUME NEW l \in Writes
  PROVE  WriteNext(l) \in Writes /\ Grows(l.v, WriteNext(l).v)
<1>1. /\ l.v \in Volumes /\ l.f \in OpenFils /\ Fits(l.f)
      /\ l.f.clust \in 0 .. EOC /\ l.f.sclust \in 0 .. EOC /\ 0 \in 0 .. EOC
  BY WriteFields, OpenedFields, Geometry
<1>2. CASE l.data = <<>> \/ l.res # "OK"
  BY <1>2, Unmoved DEF WriteNext
<1>3. CASE ~(l.data = <<>> \/ l.res # "OK") /\ l.f.fptr % SS # 0
  <2>1. ~l.f.err /\ l.f.clust \in Clusters /\ l.f.sect = clst2sect(l.f.clust)
    BY <1>1, <1>3, WriteFields DEF Fits, Placed
  <2>2. WriteNext(l) = WritePart(l, l.v, l.f)
    BY <1>3 DEF WriteNext
  <2>3. WritePart(l, l.v, l.f) \in Writes /\ WritePart(l, l.v, l.f).v = l.v
    BY <1>1, <1>3, <2>1, WritePartType
  <2> QED BY <2>2, <2>3, Unmoved
<1>4. CASE ~(l.data = <<>> \/ l.res # "OK") /\ l.f.fptr % SS = 0
  <2> DEFINE prev == IF l.f.fptr = 0 THEN 0 ELSE l.f.clust
             new == create_chain(l.v, prev)
             first == [v |-> l.v, clst |-> l.f.sclust]
  <2>1. prev \in 0 .. EOC
    BY <1>1
  <2>2. WriteNext(l) = IF l.f.fptr = 0 /\ l.f.sclust # 0 THEN WriteEdge(l, first) ELSE WriteEdge(l, new)
    BY <1>4 DEF WriteNext
  <2> HIDE DEF prev
  <2>3. new \in [v : Volumes, clst : 0 .. EOC]
    <3>1. new \in [v : Volumes, clst : {0, 1} \cup Clusters]
      BY <1>1, <2>1, CreateChain DEF Grown
    <3>2. {0, 1} \cup Clusters \subseteq 0 .. EOC
      BY Geometry
    <3> HIDE DEF new
    <3> QED BY <3>1, <3>2
  <2>4. first \in [v : Volumes, clst : 0 .. EOC]
    BY <1>1
  <2>5. Grows(l.v, new.v) /\ Grows(l.v, first.v)
    BY <1>1, <2>1, CreateGrows, Unmoved
  <2> HIDE DEF new, first
  <2>6. ASSUME NEW got \in [v : Volumes, clst : 0 .. EOC], Grows(l.v, got.v)
        PROVE  WriteEdge(l, got) \in Writes /\ Grows(l.v, WriteEdge(l, got).v)
    <3>1. WriteEdge(l, got) \in Writes /\ Same(got.v, WriteEdge(l, got).v)
      BY <1>4, WriteEdgeType
    <3>2. Grows(got.v, WriteEdge(l, got).v)
      BY <3>1, SameGrows
    <3> QED BY <2>6, <3>1, <3>2, GrowsTransitive
  <2> QED BY <2>2, <2>3, <2>4, <2>5, <2>6
<1> QED BY <1>2, <1>3, <1>4

LEMMA ModType ==
  ASSUME NEW f \in Fils, NEW m \in BOOLEAN
  PROVE  [f EXCEPT !.mod = m] \in Fils
<1> DEFINE g == [f EXCEPT !.mod = m]
<1>1. f \in OpenFils /\ Fits(f)
  BY FilsSet
<1>2. /\ g \in OpenFils /\ g.fptr = f.fptr /\ g.size = f.size /\ g.clust = f.clust
      /\ g.sect = f.sect /\ g.dirty = f.dirty /\ g.err = f.err
  BY <1>1 DEF OpenFils
<1> HIDE DEF g
<1>3. g \in Fils
  BY <1>1, <1>2, FilsSet DEF Fits, Placed
<1> QED BY <1>3 DEF g

\* f_write.
LEMMA WriteType ==
  ASSUME NEW x \in Volumes, NEW f \in Fils, ~f.err, NEW data \in Seq(DataCells),
         f.fptr + Len(data) <= MaxSize
  PROVE  /\ f_write(x, f, data).v \in Volumes /\ f_write(x, f, data).f \in Fils
         /\ Grows(x, f_write(x, f, data).v)
<1> DEFINE S == {l \in Writes : Grows(x, l.v)}
           start == [v |-> x, f |-> f, data |-> data, res |-> "OK"]
           n == Len(data)
           Round(l) == WriteNext(l)
           Rows(t) == t = [k \in 0 .. n |-> IF k = 0 THEN start ELSE Round(t[k - 1])]
           after == CHOOSE t : Rows(t)
           step == [k \in 1 .. n |-> [l \in S |-> Round(l)]]
<1>1. n \in Nat
  OBVIOUS
<1>2. start \in S
  BY Unmoved DEF Writes
<1>3. \A l \in S : Round(l) \in S
  BY WriteRound, GrowsTransitive
<1>4. Times(WriteNext, [v |-> x, f |-> f, data |-> data, res |-> "OK"], Len(data)) = after[n]
  BY DEF Times
<1> HIDE DEF S, start, n, Round
<1>5. step \in [1 .. n -> [S -> S]]
  BY <1>3
<1>6. PICK rows \in [0 .. n -> S] : rows[0] = start /\ \A k \in 1 .. n : rows[k] = step[k][rows[k - 1]]
  <2>1. FillsTable(step, n, S, start)
    BY <1>1, <1>2, <1>5, TableExists DEF RowFunction
  <2> QED BY <2>1 DEF FillsTable
<1>7. Rows(rows)
  <2>1. \A k \in 1 .. n : rows[k] = Round(rows[k - 1])
    <3> TAKE k \in 1 .. n
    <3>1. rows[k - 1] \in S /\ rows[k] = step[k][rows[k - 1]]
      <4>1. k - 1 \in 0 .. n
        BY <1>1
      <4>2. rows[k - 1] \in S
        BY <1>6, <4>1
      <4> QED BY <1>6, <4>2
    <3>2. step[k] = [l \in S |-> Round(l)]
      OBVIOUS
    <3> QED BY <3>1, <3>2
  <2>2. \A k \in 0 .. n : rows[k] = IF k = 0 THEN start ELSE Round(rows[k - 1])
    BY <1>6, <2>1
  <2> QED BY <2>2
<1>8. Rows(after)
  <2> HIDE DEF Rows
  <2> QED BY <1>7
<1> HIDE DEF after
<1>9. after[n] \in S
  <2>1. after[0] \in S /\ \A k \in 1 .. n : after[k] = Round(after[k - 1])
    BY <1>1, <1>2, <1>8
  <2>2. \A k \in 1 .. n : after[k - 1] \in S => after[k] \in S
    BY <1>3, <2>1
  <2>3. \A k \in 0 .. n : after[k] \in S
    BY <1>1, <2>1, <2>2, StaysIn
  <2> QED BY <1>1, <2>3
<1> DEFINE r == after[n]
<1>10. r \in Writes /\ Grows(x, r.v)
  BY <1>9 DEF S
<1>11. f_write(x, f, data) = IF r.res = "OK" THEN [r EXCEPT !.f.mod = TRUE] ELSE r
  BY <1>4 DEF f_write, Modified
<1> HIDE DEF r
<1>12. [r.f EXCEPT !.mod = TRUE] \in Fils
  BY <1>10, WriteFields, ModType
<1> DEFINE g == [r.f EXCEPT !.mod = TRUE]
<1>13. [r EXCEPT !.f.mod = TRUE] = [r EXCEPT !.f = g]
  OBVIOUS
<1> HIDE DEF g
<1>14. [r EXCEPT !.f = g].v = r.v /\ [r EXCEPT !.f = g].f = g
  BY <1>10, WriteFields
<1> QED BY <1>10, <1>11, <1>12, <1>13, <1>14, WriteFields DEF g

-----------------------------------------------------------------------------
(* f_sync and f_lseek. *)

\* The directory entry of a file, brought up to date.  A cell that is no entry
\* has neither a cluster nor a size.
Updated(cell, c, n) == [cell EXCEPT !.clst = c, !.size = n]

LEMMA UpdatedType ==
  ASSUME NEW c \in {0} \cup Clusters, NEW n \in 0 .. MaxSize
  PROVE  /\ \A cell \in DirCells : Updated(cell, c, n) \in DirCells
         /\ \A cell \in DataCells : Updated(cell, c, n) \in DataCells
<1>1. \A cell \in Entries : Updated(cell, c, n) \in Entries
  BY DEF Entries, Updated
<1>2. Updated(Zero, c, n) = Zero
  BY DEF Updated, Zero
<1>3. Updated(Deleted, c, n) = Deleted
  BY DEF Updated, Deleted
<1>4. \A b : Updated(Byte(b), c, n) = Byte(b)
  BY DEF Updated, Byte
<1>5. Updated(Garbage[0], c, n) = Garbage[0]
  <2>1. Garbage[0] = [garbage |-> TRUE]
    BY Areas DEF Garbage
  <2>2. Updated([garbage |-> TRUE], c, n) = [garbage |-> TRUE]
    BY DEF Updated
  <2> QED BY <2>1, <2>2
<1>6. \A cell \in DirCells : Updated(cell, c, n) \in DirCells
  BY <1>1, <1>2, <1>3 DEF DirCells
<1>7. \A cell \in DataCells : Updated(cell, c, n) \in DataCells
  <2> TAKE cell \in DataCells
  <2>1. CASE cell \in DirCells
    BY <1>6, <2>1 DEF DataCells
  <2>2. CASE cell \in {Byte(b) : b \in Values}
    BY <1>4, <2>2
  <2>3. CASE cell = Garbage[0]
    BY <1>5, <2>3
  <2> QED BY <2>1, <2>2, <2>3 DEF DataCells
<1> QED BY <1>6, <1>7

\* f_sync: the buffer, then the directory entry, then the window.
LEMMA SyncType ==
  ASSUME NEW x \in Volumes, NEW f \in Fils
  PROVE  /\ f_sync(x, f).v \in Volumes /\ f_sync(x, f).f \in Fils
         /\ OnlyCell(x, f_sync(x, f).v, f.dsect, f.didx)
<1> DEFINE y == move_window(WriteBack(x, f), f.dsect)
           i == f.didx
           cell == Updated(y.win[i], f.sclust, f.size)
           z == Poke(y, i, cell)
           g == [f EXCEPT !.mod = FALSE, !.dirty = FALSE]
           r == f_sync(x, f)
<1>1. f \in OpenFils /\ Fits(f)
  BY FilsSet
<1>2. f.dsect \in ObjectSectors /\ f.dsect \in Sectors /\ i \in Cells /\ f.sclust \in {0} \cup Clusters
      /\ f.size \in 0 .. MaxSize
  BY <1>1, OpenedFields, Areas DEF ObjectSectors
<1>3. /\ y \in Volumes /\ y.sect = f.dsect /\ y.sect \in Sectors /\ y.sect \in ObjectSectors
      /\ Same(x, y)
  <2>1. WriteBack(x, f) \in Volumes /\ Same(x, WriteBack(x, f))
    BY <1>1, WriteBackType DEF Fits, Same
  <2>2. y \in Volumes /\ y.sect = f.dsect /\ Same(WriteBack(x, f), y)
    BY <1>2, <2>1, MoveWindow, StillSame
  <2> QED BY <1>2, <2>1, <2>2, SameTransitive
<1>4. r = IF ~f.mod THEN [v |-> x, f |-> f] ELSE [v |-> sync_window(z), f |-> g]
  BY DEF f_sync, Updated
<1> HIDE DEF y, i
<1>5. z \in Volumes
  <2>1. CASE y.sect \in DirSectors
    <3>1. y.win \in [Cells -> DirCells]
      BY <1>3, <2>1, VolumeFields, ContentsOf, Areas
    <3>2. y.win[i] \in DirCells
      BY <1>2, <3>1
    <3>3. cell \in DirCells
      BY <1>2, <3>2, UpdatedType
    <3> HIDE DEF cell
    <3> QED BY <1>2, <1>3, <3>3, PokeCell
  <2>2. CASE y.sect \in DataSectors
    <3>1. y.win \in DataContents /\ y.win[i] \in DataCells
      BY <1>2, <1>3, WindowCells
    <3>2. cell \in DataCells
      BY <1>2, <3>1, UpdatedType
    <3> HIDE DEF cell
    <3>3. Put(y.win, i, cell) \in Contents(y.sect)
      <4>1. Put(y.win, i, cell) \in DataContents
        BY <1>2, <3>1, <3>2 DEF DataContents, Put
      <4> QED BY <2>2, <4>1, ContentsOf
    <3> QED BY <1>3, <3>3, PokeType
  <2> QED BY <1>3, <2>1, <2>2 DEF ObjectSectors
<1>9. OnlyCell(y, z, f.dsect, i)
  BY <1>3, PokeOnly
<1> HIDE DEF z
<1>6. sync_window(z) \in Volumes /\ OnlyCell(x, sync_window(z), f.dsect, i)
  <2>1. sync_window(z) \in Volumes /\ Same(z, sync_window(z))
    BY <1>5, SyncWindow, StillSame
  <2> QED BY <1>3, <1>5, <1>9, <2>1, SameOnly
<1>7. g \in Fils
  <2>1. /\ g \in OpenFils /\ g.fptr = f.fptr /\ g.size = f.size /\ g.clust = f.clust
        /\ g.sect = f.sect /\ ~g.dirty /\ g.err = f.err
    BY <1>1 DEF OpenFils
  <2> HIDE DEF g
  <2> QED BY <1>1, <2>1, FilsSet DEF Fits, Placed
<1> HIDE DEF g, r
<1>8. r.v \in Volumes /\ r.f \in Fils /\ OnlyCell(x, r.v, f.dsect, i)
  <2>1. OnlyCell(x, x, f.dsect, i)
    BY DEF OnlyCell
  <2> QED BY <1>4, <1>6, <1>7, <2>1
<1> QED BY <1>8 DEF r, i

\* What f_lseek holds on its way from cluster to cluster: it stands where a
\* cluster begins, in that cluster, unless the disk is full.
Seeks ==
  {l \in [v : Volumes, f : OpenFils, clst : 0 .. EOC, ofs : Nat, res : {"OK", "INT_ERR"}] :
     /\ l.f.dirty => l.f.sect # 0
     /\ l.res # "OK" => l.f.err
     /\ l.res = "OK" => /\ ~l.f.err /\ l.f.fptr % SS = 0 /\ l.f.fptr + l.ofs <= MaxSize
                        /\ l.clst # 0 => l.f.clust = l.clst
                        /\ l.clst = 0 => l.ofs = 0}

LEMMA SeekFields ==
  ASSUME NEW l \in Seeks
  PROVE  /\ l \in [v : Volumes, f : OpenFils, clst : 0 .. EOC, ofs : Nat, res : {"OK", "INT_ERR"}]
         /\ l.v \in Volumes /\ l.f \in OpenFils /\ l.clst \in 0 .. EOC /\ l.ofs \in Nat
         /\ l.f.fptr \in Nat /\ l.f.w \in BOOLEAN
         /\ l.f.dirty => l.f.sect # 0
         /\ l.res # "OK" => l.f.err
         /\ l.res = "OK" => /\ ~l.f.err /\ l.f.fptr % SS = 0 /\ l.f.fptr + l.ofs <= MaxSize
                            /\ l.clst # 0 => l.f.clust = l.clst
                            /\ l.clst = 0 => l.ofs = 0
<1>1. l.f \in OpenFils
  BY DEF Seeks
<1> QED BY <1>1, OpenedFields DEF Seeks

LEMMA SeekRound ==
  ASSUME NEW l \in Seeks
  PROVE  SeekNext(l) \in Seeks /\ Grows(l.v, SeekNext(l).v)
<1> DEFINE f == l.f
           r == IF f.w THEN create_chain(l.v, l.clst) ELSE NextCluster(l.v, l.clst)
           ptr == f.fptr + SS
           g == [f EXCEPT !.fptr = ptr]
           z == SeekNext(l)
<1>1. z = IF l.ofs <= SS \/ l.res # "OK" THEN l
          ELSE IF f.w /\ r.clst = 0 THEN [l EXCEPT !.v = r.v, !.f = g, !.clst = 0, !.ofs = 0]
          ELSE IF r.clst \notin Clusters THEN Aborted(l, r.v, g)
          ELSE [l EXCEPT !.v = r.v, !.f = [g EXCEPT !.clust = r.clst], !.clst = r.clst, !.ofs = @ - SS]
  BY DEF SeekNext, SeekOn
<1>2. CASE l.ofs <= SS \/ l.res # "OK"
  BY <1>1, <1>2, Unmoved
<1>3. CASE ~(l.ofs <= SS \/ l.res # "OK")
  <2>1. r.v \in Volumes /\ r.clst \in 0 .. EOC /\ Grows(l.v, r.v)
    <3>1. create_chain(l.v, l.clst) \in [v : Volumes, clst : {0, 1} \cup Clusters]
      BY SeekFields, CreateChain DEF Grown
    <3>2. {0, 1} \cup Clusters \subseteq 0 .. EOC
      BY Geometry
    <3>3. NextCluster(l.v, l.clst) \in [v : Volumes, clst : 0 .. EOC]
      BY SeekFields, NextClusterType
    <3>4. Grows(l.v, create_chain(l.v, l.clst).v)
      BY SeekFields, CreateGrows
    <3>5. Grows(l.v, NextCluster(l.v, l.clst).v)
      BY SeekFields, NextClusterType, SameGrows
    <3> QED BY <3>1, <3>2, <3>3, <3>4, <3>5
  <2>2. /\ ptr \in 0 .. MaxSize /\ ptr % SS = 0 /\ l.ofs - SS \in Nat /\ ptr + (l.ofs - SS) = f.fptr + l.ofs
        /\ f.fptr + l.ofs <= MaxSize /\ ptr + 0 <= MaxSize
    <3> DEFINE a == f.fptr
    <3>1. a \in Nat /\ a \in Int /\ SS \in Nat \ {0} /\ MaxSize \in Nat /\ l.ofs \in Nat /\ l.ofs > SS
          /\ a + l.ofs <= MaxSize /\ a % SS = 0
      BY <1>3, SeekFields, Geometry
    <3> HIDE DEF a
    <3>2. (a + SS) % SS = 0
      <4>1. (a + SS) % SS = a % SS
        BY <3>1, NextMultiple
      <4> QED BY <3>1, <4>1
    <3>3. a + SS \in 0 .. MaxSize /\ l.ofs - SS \in Nat /\ (a + SS) + (l.ofs - SS) = a + l.ofs
          /\ (a + SS) + 0 <= MaxSize
      BY <3>1
    <3> QED BY <3>1, <3>2, <3>3 DEF a
  <2>3. f \in OpenFils /\ (f.dirty => f.sect # 0) /\ ~f.err
    BY <1>3, SeekFields
  <2> HIDE DEF f, r, ptr
  <2>4. g \in OpenFils /\ g.fptr = ptr /\ g.dirty = f.dirty /\ g.sect = f.sect /\ g.err = f.err
    BY <2>2, <2>3 DEF OpenFils
  <2> HIDE DEF g
  <2>5. CASE f.w /\ r.clst = 0
    <3> DEFINE t == [l EXCEPT !.v = r.v, !.f = g, !.clst = 0, !.ofs = 0]
    <3>1. /\ t \in [v : Volumes, f : OpenFils, clst : 0 .. EOC, ofs : Nat, res : {"OK", "INT_ERR"}]
          /\ t.f = g /\ t.ofs = 0 /\ t.clst = 0 /\ t.res = l.res /\ t.v = r.v
      BY <2>1, <2>4, <2>5, SeekFields
    <3>2. z = t
      BY <1>1, <1>3, <2>5
    <3> HIDE DEF t, z
    <3>3. t \in Seeks
      BY <1>3, <2>2, <2>3, <2>4, <3>1 DEF Seeks
    <3> QED BY <2>1, <3>1, <3>2, <3>3 DEF z
  <2>6. CASE ~(f.w /\ r.clst = 0) /\ r.clst \notin Clusters
    <3> DEFINE e == [g EXCEPT !.err = TRUE]
               t == [l EXCEPT !.v = r.v, !.f = e, !.res = "INT_ERR"]
    <3>1. e \in OpenFils /\ e.dirty = g.dirty /\ e.sect = g.sect /\ e.err
      BY <2>4 DEF OpenFils
    <3>2. z = t
      BY <1>1, <1>3, <2>6 DEF Aborted
    <3> HIDE DEF e
    <3>3. /\ t \in [v : Volumes, f : OpenFils, clst : 0 .. EOC, ofs : Nat, res : {"OK", "INT_ERR"}]
          /\ t.f = e /\ t.res = "INT_ERR" /\ t.v = r.v
      BY <2>1, <3>1, SeekFields
    <3> HIDE DEF t, z
    <3>4. t \in Seeks
      BY <2>3, <2>4, <3>1, <3>3 DEF Seeks
    <3> QED BY <2>1, <3>2, <3>3, <3>4 DEF z
  <2>7. CASE r.clst \in Clusters
    <3> DEFINE c == r.clst
               h == [g EXCEPT !.clust = c]
               ofs == l.ofs - SS
               t == [l EXCEPT !.v = r.v, !.f = h, !.clst = c, !.ofs = ofs]
    <3>1. c \in 0 .. EOC /\ c # 0
      BY <2>1, <2>7, Geometry
    <3>2. z = t
      BY <1>1, <1>3, <2>7, <3>1
    <3>3. ofs \in Nat /\ ptr + ofs <= MaxSize
      BY <2>2
    <3> HIDE DEF c, ofs
    <3>4. h \in OpenFils /\ h.fptr = g.fptr /\ h.dirty = g.dirty /\ h.sect = g.sect /\ h.err = g.err /\ h.clust = c
      BY <2>4, <3>1 DEF OpenFils
    <3> HIDE DEF h
    <3>5. /\ t \in [v : Volumes, f : OpenFils, clst : 0 .. EOC, ofs : Nat, res : {"OK", "INT_ERR"}]
          /\ t.f = h /\ t.ofs = ofs /\ t.clst = c /\ t.res = l.res /\ t.v = r.v
      BY <2>1, <3>1, <3>3, <3>4, SeekFields
    <3> HIDE DEF t, z
    <3>6. t \in Seeks
      BY <1>3, <2>2, <2>3, <2>4, <3>1, <3>3, <3>4, <3>5 DEF Seeks
    <3> QED BY <2>1, <3>2, <3>5, <3>6 DEF z
  <2> QED BY <2>5, <2>6, <2>7
<1> QED BY <1>2, <1>3

\* Where the seek ends: in the cluster it names, or where a cluster would begin.
Targets ==
  {r \in [v : Volumes, f : OpenFils, clst : 0 .. EOC, res : {"OK", "INT_ERR"}] :
     /\ r.f.dirty => r.f.sect # 0
     /\ r.res # "OK" => r.f.err
     /\ r.res = "OK" => /\ ~r.f.err
                        /\ r.clst # 0 => r.f.clust = r.clst
                        /\ r.clst = 0 => r.f.fptr % SS = 0}

LEMMA SeekLoopType ==
  ASSUME NEW x \in Volumes, NEW g \in OpenFils, g.dirty => g.sect # 0, ~g.err, NEW c \in 0 .. EOC,
         c # 0 => g.clust = c, g.fptr % SS = 0, NEW ofs \in Nat, g.fptr + ofs <= MaxSize
  PROVE  SeekLoop(x, g, c, ofs) \in Targets /\ Grows(x, SeekLoop(x, g, c, ofs).v)
<1>a. CASE c = 0
  <2> DEFINE t == [v |-> x, f |-> g, clst |-> 0, res |-> "OK"]
  <2>1. SeekLoop(x, g, c, ofs) = t
    BY <1>a DEF SeekLoop
  <2>2. t \in Targets /\ t.v = x
    BY <1>a DEF Targets
  <2> QED BY <2>1, <2>2, Unmoved
<1>b. CASE c # 0
  <2> DEFINE S == {l \in Seeks : Grows(x, l.v)}
             start == [v |-> x, f |-> g, clst |-> c, ofs |-> ofs, res |-> "OK"]
             n == ofs
             Round(l) == SeekNext(l)
             Rows(f) == f = [k \in 0 .. n |-> IF k = 0 THEN start ELSE Round(f[k - 1])]
             after == CHOOSE f : Rows(f)
             step == [k \in 1 .. n |-> [l \in S |-> Round(l)]]
  <2>1. n \in Nat
    OBVIOUS
  <2>2. start \in S
    BY <1>b, Unmoved DEF Seeks
  <2>3. \A l \in S : Round(l) \in S
    BY SeekRound, GrowsTransitive
  <2>4. Times(SeekNext, [v |-> x, f |-> g, clst |-> c, ofs |-> ofs, res |-> "OK"], ofs) = after[n]
    BY DEF Times
  <2> HIDE DEF S, start, n, Round
  <2>5. step \in [1 .. n -> [S -> S]]
    BY <2>3
  <2>6. PICK rows \in [0 .. n -> S] : rows[0] = start /\ \A k \in 1 .. n : rows[k] = step[k][rows[k - 1]]
    <3>1. FillsTable(step, n, S, start)
      BY <2>1, <2>2, <2>5, TableExists DEF RowFunction
    <3> QED BY <3>1 DEF FillsTable
  <2>7. Rows(rows)
    <3>1. \A k \in 1 .. n : rows[k] = Round(rows[k - 1])
      <4> TAKE k \in 1 .. n
      <4>1. rows[k - 1] \in S /\ rows[k] = step[k][rows[k - 1]]
        BY <2>1, <2>6
      <4>2. step[k] = [l \in S |-> Round(l)]
        OBVIOUS
      <4> QED BY <4>1, <4>2
    <3>2. \A k \in 0 .. n : rows[k] = IF k = 0 THEN start ELSE Round(rows[k - 1])
      BY <2>6, <3>1
    <3> QED BY <3>2
  <2>8. Rows(after)
    <3> HIDE DEF Rows
    <3> QED BY <2>7
  <2> HIDE DEF after
  <2>9. after[n] \in S
    <3>1. after[0] \in S /\ \A k \in 1 .. n : after[k] = Round(after[k - 1])
      BY <2>1, <2>2, <2>8
    <3>2. \A k \in 1 .. n : after[k - 1] \in S => after[k] \in S
      BY <2>3, <3>1
    <3>3. \A k \in 0 .. n : after[k] \in S
      BY <2>1, <3>1, <3>2, StaysIn
    <3> QED BY <2>1, <3>3
  <2> DEFINE l == after[n]
             ptr == l.f.fptr + l.ofs
             h == [l.f EXCEPT !.fptr = ptr]
             e == IF l.res = "OK" THEN h ELSE l.f
             z == SeekLoop(x, g, c, ofs)
  <2>10. l \in Seeks /\ Grows(x, l.v)
    BY <2>9 DEF S
  <2>11. z = [v |-> l.v, clst |-> l.clst, res |-> l.res, f |-> e]
    BY <1>b, <2>4 DEF SeekLoop
  <2> HIDE DEF l
  <2>12. l.res = "OK" => ptr \in 0 .. MaxSize /\ (l.clst = 0 => ptr % SS = 0)
    BY <2>10, SeekFields, Geometry
  <2> HIDE DEF ptr
  <2>13. l.res = "OK" => h \in OpenFils /\ h.fptr = ptr /\ h.dirty = l.f.dirty /\ h.sect = l.f.sect
                         /\ h.err = l.f.err /\ h.clust = l.f.clust
    <3> DEFINE f == l.f
    <3>1. f \in OpenFils
      BY <2>10, SeekFields
    <3> HIDE DEF f
    <3>2. ASSUME ptr \in 0 .. MaxSize, NEW d, d = [f EXCEPT !.fptr = ptr]
          PROVE  /\ d \in OpenFils /\ d.fptr = ptr /\ d.dirty = f.dirty /\ d.sect = f.sect
                 /\ d.err = f.err /\ d.clust = f.clust
      BY <3>1, <3>2 DEF OpenFils
    <3> QED BY <2>12, <3>2 DEF f
  <2> HIDE DEF h
  <2>14. /\ e \in OpenFils /\ (e.dirty => e.sect # 0) /\ (l.res # "OK" => e.err)
         /\ l.res = "OK" => /\ ~e.err
                            /\ l.clst # 0 => e.clust = l.clst
                            /\ l.clst = 0 => e.fptr % SS = 0
    BY <2>10, <2>12, <2>13, SeekFields
  <2> HIDE DEF e, z
  <2>15. /\ z \in [v : Volumes, f : OpenFils, clst : 0 .. EOC, res : {"OK", "INT_ERR"}]
         /\ z.f = e /\ z.clst = l.clst /\ z.res = l.res /\ z.v = l.v
    BY <2>10, <2>11, <2>14, SeekFields
  <2>16. z \in Targets
    BY <2>14, <2>15 DEF Targets
  <2> QED BY <2>10, <2>15, <2>16 DEF z
<1> QED BY <1>a, <1>b

LEMMA SeekFromType ==
  ASSUME NEW first \in [v : Volumes, clst : {0} \cup Clusters], NEW f \in Fils, ~f.err,
         NEW ofs \in 0 .. MaxSize
  PROVE  SeekFrom(first, f, ofs) \in Targets /\ Grows(first.v, SeekFrom(first, f, ofs).v)
<1> DEFINE c == first.clst
           g == [f EXCEPT !.fptr = 0, !.sclust = c, !.clust = c]
<1>1. f \in OpenFils /\ (f.dirty => f.sect # 0)
  BY FilsSet DEF Fits
<1>2. c \in {0} \cup Clusters /\ c \in 0 .. EOC /\ 0 \in 0 .. MaxSize /\ 0 % SS = 0 /\ ofs \in Nat
      /\ 0 + ofs <= MaxSize
  <2>1. SS * 0 + 0 = 0 /\ 0 \in 0 .. SS - 1 /\ SS \in Nat \ {0}
    BY Geometry
  <2> QED BY <2>1, Geometry, DivModUnique
<1>3. SeekFrom(first, f, ofs) = SeekLoop(first.v, g, c, ofs)
  BY DEF SeekFrom
<1> HIDE DEF c
<1>4. g \in OpenFils /\ g.fptr = 0 /\ g.dirty = f.dirty /\ g.sect = f.sect /\ g.err = f.err /\ g.clust = c
  BY <1>1, <1>2 DEF OpenFils
<1> HIDE DEF g
<1>5. first.v \in Volumes
  OBVIOUS
<1>6. SeekLoop(first.v, g, c, ofs) \in Targets /\ Grows(first.v, SeekLoop(first.v, g, c, ofs).v)
  BY <1>1, <1>2, <1>4, <1>5, SeekLoopType
<1> QED BY <1>3, <1>6

LEMMA SeekToType ==
  ASSUME NEW x \in Volumes, NEW f \in Fils, ~f.err, NEW ofs \in 0 .. MaxSize
  PROVE  SeekTo(x, f, ofs) \in Targets /\ Grows(x, SeekTo(x, f, ofs).v)
<1> DEFINE base == f.fptr - 1 - ((f.fptr - 1) % SS)
           z == SeekTo(x, f, ofs)
           start == [f EXCEPT !.fptr = 0]
           g == [f EXCEPT !.fptr = base]
<1>1. f \in OpenFils /\ (f.dirty => f.sect # 0) /\ f.fptr \in Nat /\ f.fptr <= MaxSize /\ f.clust \in 0 .. EOC
      /\ f.sclust \in {0} \cup Clusters /\ MaxSize \in Nat /\ ofs \in Nat /\ SS \in Nat \ {0}
  BY FilsSet, OpenedFields, Geometry DEF Fits
<1>2. z = IF ofs = 0 THEN [v |-> x, f |-> start, clst |-> 0, res |-> "OK"]
          ELSE IF f.fptr > 0 /\ ofs > base THEN SeekLoop(x, g, f.clust, ofs - base)
          ELSE IF f.sclust = 0 THEN SeekFrom(create_chain(x, 0), f, ofs)
          ELSE SeekFrom([v |-> x, clst |-> f.sclust], f, ofs)
  BY DEF SeekTo
<1>3. CASE ofs = 0
  <2>1. 0 \in 0 .. MaxSize /\ 0 % SS = 0 /\ 0 \in 0 .. EOC
    <3>1. SS * 0 + 0 = 0 /\ 0 \in 0 .. SS - 1
      BY <1>1
    <3> QED BY <1>1, <3>1, Geometry, DivModUnique
  <2>2. /\ start \in OpenFils /\ start.fptr = 0 /\ start.dirty = f.dirty /\ start.sect = f.sect
        /\ start.err = f.err
    BY <1>1, <2>1 DEF OpenFils
  <2>3. z = [v |-> x, f |-> start, clst |-> 0, res |-> "OK"]
    BY <1>2, <1>3
  <2> HIDE DEF start, z
  <2>4. z \in Targets /\ z.v = x
    BY <1>1, <2>1, <2>2, <2>3 DEF Targets
  <2> QED BY <2>4, Unmoved DEF z
<1>4. CASE ofs # 0 /\ f.fptr > 0 /\ ofs > base
  <2>1. base \in 0 .. MaxSize /\ base % SS = 0
    <3> DEFINE a == f.fptr - 1
               q == a \div SS
               r == a % SS
    <3>1. a \in Nat /\ a <= MaxSize
      BY <1>1, <1>4
    <3>2. q \in Int /\ r \in 0 .. SS - 1 /\ a = SS * q + r
      <4> HIDE DEF a
      <4> QED BY <1>1, <3>1, DivMod
    <3>3. q \in Nat
      <4> HIDE DEF a
      <4> QED BY <1>1, <3>1, NatDiv
    <3>4. base = a - r
      OBVIOUS
    <3> HIDE DEF a, q, r, base
    <3>5. base = SS * q + 0 /\ 0 \in 0 .. SS - 1
      <4>1. SS * q \in Int
        BY <1>1, <3>2
      <4> QED BY <1>1, <3>1, <3>2, <3>4, <4>1
    <3>6. base % SS = 0
      BY <1>1, <3>2, <3>5, DivModUnique
    <3>7. SS * q \in Nat
      BY <1>1, <3>3
    <3> QED BY <1>1, <3>1, <3>2, <3>4, <3>5, <3>6, <3>7
  <2>2. z = SeekLoop(x, g, f.clust, ofs - base)
    BY <1>2, <1>4
  <2>3. ofs - base \in Nat /\ base + (ofs - base) <= MaxSize
    <3>1. base \in Int /\ ofs > base
      BY <1>4, <2>1
    <3> HIDE DEF base
    <3> QED BY <1>1, <3>1
  <2> HIDE DEF base
  <2>4. g \in OpenFils /\ g.fptr = base /\ g.dirty = f.dirty /\ g.sect = f.sect /\ g.err = f.err /\ g.clust = f.clust
    BY <1>1, <2>1 DEF OpenFils
  <2> HIDE DEF g
  <2>5. /\ SeekLoop(x, g, f.clust, ofs - base) \in Targets
        /\ Grows(x, SeekLoop(x, g, f.clust, ofs - base).v)
    <3> DEFINE rest == ofs - base
    <3>1. rest \in Nat /\ g.fptr + rest <= MaxSize
      BY <2>3, <2>4
    <3> HIDE DEF rest
    <3>2. SeekLoop(x, g, f.clust, rest) \in Targets /\ Grows(x, SeekLoop(x, g, f.clust, rest).v)
      BY <1>1, <2>1, <2>4, <3>1, SeekLoopType
    <3> QED BY <3>2 DEF rest
  <2> QED BY <2>2, <2>5
<1>5. CASE ofs # 0 /\ ~(f.fptr > 0 /\ ofs > base)
  <2> DEFINE new == create_chain(x, 0)
             old == [v |-> x, clst |-> f.sclust]
  <2>1. new \in [v : Volumes, clst : {0} \cup Clusters]
    <3>1. new \in [v : Volumes, clst : {0, 1} \cup Clusters] /\ new.clst # 1
      BY CreateChain, Geometry DEF Grown
    <3> HIDE DEF new
    <3> QED BY <3>1
  <2>2. old \in [v : Volumes, clst : {0} \cup Clusters]
    BY <1>1
  <2>4. Grows(x, new.v) /\ Grows(x, old.v)
    BY <1>1, Geometry, CreateGrows, Unmoved
  <2> HIDE DEF new, old
  <2>3. /\ SeekFrom(new, f, ofs) \in Targets /\ Grows(x, SeekFrom(new, f, ofs).v)
        /\ SeekFrom(old, f, ofs) \in Targets /\ Grows(x, SeekFrom(old, f, ofs).v)
    BY <2>1, <2>2, <2>4, SeekFromType, GrowsTransitive
  <2> QED BY <1>2, <1>5, <2>3 DEF new, old
<1> QED BY <1>3, <1>4, <1>5

LEMMA TargetFields ==
  ASSUME NEW r \in Targets
  PROVE  /\ r \in [v : Volumes, f : OpenFils, clst : 0 .. EOC, res : {"OK", "INT_ERR"}]
         /\ r.v \in Volumes /\ r.f \in OpenFils /\ r.clst \in 0 .. EOC
         /\ r.f.dirty => r.f.sect # 0
         /\ r.res # "OK" => r.f.err
         /\ r.res = "OK" => /\ ~r.f.err
                            /\ r.clst # 0 => r.f.clust = r.clst
                            /\ r.clst = 0 => r.f.fptr % SS = 0
BY DEF Targets

LEMMA SoughtType ==
  ASSUME NEW r \in Targets
  PROVE  Sought(r).v \in Volumes /\ Sought(r).f \in Fils /\ Same(r.v, Sought(r).v)
<1> DEFINE f == r.f
           ptr == f.fptr
           far == [f EXCEPT !.size = ptr, !.mod = TRUE]
           g == IF f.fptr > f.size THEN far ELSE f
           c == r.clst
           l == Load(r.v, g, clst2sect(c))
           z == Sought(r)
<1>1. z = IF r.res # "OK" THEN r
          ELSE IF f.fptr % SS = 0 THEN [v |-> r.v, f |-> g, res |-> "OK"]
          ELSE IF c \notin Clusters THEN Aborted(r, r.v, f)
          ELSE [v |-> l.v, f |-> l.f, res |-> "OK"]
  BY DEF Sought
<1>2. /\ r.v \in Volumes /\ f \in OpenFils /\ (f.dirty => f.sect # 0) /\ (r.res # "OK" => f.err)
      /\ (r.res = "OK" /\ c # 0 => f.clust = c) /\ ptr \in 0 .. MaxSize /\ ptr \in Nat /\ f.size \in Nat
      /\ ptr = f.fptr
  BY TargetFields, OpenedFields
<1> HIDE DEF f, ptr
<1>3. /\ g \in OpenFils /\ g.fptr = f.fptr /\ g.clust = f.clust /\ g.sect = f.sect /\ g.dirty = f.dirty
      /\ g.err = f.err /\ g.fptr <= g.size
  <2>1. /\ far \in OpenFils /\ far.fptr = f.fptr /\ far.clust = f.clust /\ far.sect = f.sect
        /\ far.dirty = f.dirty /\ far.err = f.err /\ far.size = ptr
    BY <1>2 DEF OpenFils
  <2> HIDE DEF far
  <2>2. CASE f.fptr > f.size
    BY <1>2, <2>1, <2>2
  <2>3. CASE ~(f.fptr > f.size)
    BY <1>2, <2>3
  <2> QED BY <2>2, <2>3
<1> HIDE DEF g
<1>4. CASE r.res # "OK"
  <2>1. f \in Fils
    BY <1>2, <1>4, FilsSet DEF Fits
  <2> QED BY <1>1, <1>2, <1>4, <2>1, Unmoved DEF f
<1>5. CASE r.res = "OK" /\ f.fptr % SS = 0
  <2>1. g \in Fils
    BY <1>2, <1>3, <1>5, FilsSet DEF Fits, Placed
  <2>2. z = [v |-> r.v, f |-> g, res |-> "OK"]
    BY <1>1, <1>5
  <2> HIDE DEF z
  <2>3. z.v = r.v /\ z.f = g
    BY <2>2
  <2> QED BY <1>2, <2>1, <2>3, Unmoved DEF z
<1>6. CASE r.res = "OK" /\ f.fptr % SS # 0 /\ c \notin Clusters
  <2> DEFINE e == [f EXCEPT !.err = TRUE]
             t == [r EXCEPT !.v = r.v, !.f = e, !.res = "INT_ERR"]
  <2>1. e \in Fils
    BY <1>2, ErrType
  <2>2. z = t
    BY <1>1, <1>6 DEF Aborted
  <2> HIDE DEF e
  <2>3. t.v = r.v /\ t.f = e
    BY TargetFields
  <2> HIDE DEF t, z
  <2> QED BY <1>2, <2>1, <2>2, <2>3, Unmoved DEF z
<1>7. CASE r.res = "OK" /\ f.fptr % SS # 0 /\ c \in Clusters
  <2>1. c # 0
    BY <1>7, Geometry
  <2> HIDE DEF c
  <2>2. /\ l.v \in Volumes /\ l.f \in OpenFils /\ l.f.sect = clst2sect(c) /\ Alike(g, l.f)
        /\ Same(r.v, l.v)
    BY <1>2, <1>3, <1>7, LoadType
  <2>3. clst2sect(c) # 0
    BY <1>7, Areas
  <2> DEFINE h == l.f
  <2>4. h \in OpenFils /\ h.sect = clst2sect(c) /\ Alike(g, h)
    BY <2>2
  <2>5. z = [v |-> l.v, f |-> h, res |-> "OK"]
    BY <1>1, <1>7
  <2> HIDE DEF h, z
  <2>6. h \in Fils
    BY <1>2, <1>3, <1>7, <2>1, <2>3, <2>4, FilsSet DEF Fits, Placed, Alike
  <2>7. z.v = l.v /\ z.f = h
    BY <2>5
  <2> QED BY <2>2, <2>6, <2>7 DEF z
<1> QED BY <1>4, <1>5, <1>6, <1>7

\* f_lseek.
LEMMA LseekType ==
  ASSUME NEW x \in Volumes, NEW f \in Fils, ~f.err, NEW to \in 0 .. MaxSize
  PROVE  /\ f_lseek(x, f, to).v \in Volumes /\ f_lseek(x, f, to).f \in Fils
         /\ Grows(x, f_lseek(x, f, to).v)
<1> DEFINE ofs == IF to > f.size /\ ~f.w THEN f.size ELSE to
<1>1. ofs \in 0 .. MaxSize
  BY FilsSet, OpenedFields
<1>2. f_lseek(x, f, to) = Sought(SeekTo(x, f, ofs))
  BY DEF f_lseek
<1> HIDE DEF ofs
<1> DEFINE r == SeekTo(x, f, ofs)
<1>3. r \in Targets /\ Grows(x, r.v)
  BY <1>1, SeekToType
<1> HIDE DEF r
<1>4. r.v \in Volumes
  BY <1>3, TargetFields
<1>5. Sought(r).v \in Volumes /\ Sought(r).f \in Fils /\ Same(r.v, Sought(r).v)
  BY <1>3, SoughtType
<1>6. Grows(r.v, Sought(r).v)
  BY <1>4, <1>5, SameGrows
<1>7. Grows(x, Sought(r).v)
  BY <1>3, <1>6, GrowsTransitive
<1> QED BY <1>2, <1>5, <1>7 DEF r

-----------------------------------------------------------------------------
(* Calls on paths. *)

\* Removing the object a search stands on.
LEMMA RemoveEntryType ==
  ASSUME NEW x \in Volumes, NEW t, t.v \in Volumes, NEW e \in Entries, NEW d \in DirObjects,
         d.sect \in ObjectSectors
  PROVE  RemoveEntry(t, e, d) \in Volumes /\ Frees(t.v, RemoveEntry(t, e, d))
<1> DEFINE y == dir_remove(t.v, d)
<1>1. y \in Volumes /\ Frees(t.v, y)
  BY DirRemove
<1> HIDE DEF y
<1>2. remove_chain(y, e.clst) \in Volumes /\ Frees(y, remove_chain(y, e.clst))
  BY <1>1, EntryFields, RemoveChain
<1>3. sync_window(y) \in Volumes /\ sync_window(remove_chain(y, e.clst)) \in Volumes
  BY <1>1, <1>2, SyncWindow
<1>4. \A z \in Volumes : Frees(z, sync_window(z))
  BY SyncWindow, SameFat
<1>5. Frees(t.v, sync_window(y)) /\ Frees(t.v, sync_window(remove_chain(y, e.clst)))
  BY <1>1, <1>2, <1>4, FreesTransitive
<1> QED BY <1>3, <1>5, Unmoved DEF RemoveEntry, y

LEMMA UnlinkType ==
  ASSUME NEW x \in Volumes, NEW p \in Paths
  PROVE  f_unlink(x, p) \in Volumes /\ Frees(x, f_unlink(x, p))
<1> DEFINE r == follow_path(x, p)
           e == EntryAt(r)
           t == Removable(r.v, e)
<1>1. r \in Searches /\ (r.res = "OK" => e \in Entries) /\ Same(x, r.v)
  BY FollowPath DEF Found
<1>2. f_unlink(x, p) = IF r.res # "OK" THEN r.v ELSE RemoveEntry(t, e, r.dp)
  BY DEF f_unlink, RemoveFound
<1> HIDE DEF r, e
<1>3. r.v \in Volumes /\ r.dp \in DirObjects /\ Frees(x, r.v)
  BY <1>1, SearchFields, SameGrows
<1>4. ASSUME r.res = "OK"
      PROVE  RemoveEntry(t, e, r.dp) \in Volumes /\ Frees(x, RemoveEntry(t, e, r.dp))
  <2>1. dir_sdi(e.clst) \in DirObjects
    BY <1>1, <1>4, EntryFields, DirSdi
  <2>2. /\ dir_read(r.v, dir_sdi(e.clst)) \in Searches
        /\ Same(r.v, dir_read(r.v, dir_sdi(e.clst)).v)
    BY <1>3, <2>1, DirRead DEF Found
  <2>3. /\ dir_read(r.v, dir_sdi(e.clst)).v \in Volumes
        /\ Frees(r.v, dir_read(r.v, dir_sdi(e.clst)).v)
    BY <1>3, <2>2, SearchFields, SameGrows
  <2>4. t.v \in Volumes /\ Frees(r.v, t.v)
    BY <1>3, <2>3, Unmoved DEF Removable
  <2> HIDE DEF t
  <2>5. r.dp.sect \in ObjectSectors
    BY <1>1, <1>4, SearchFields
  <2>6. RemoveEntry(t, e, r.dp) \in Volumes /\ Frees(t.v, RemoveEntry(t, e, r.dp))
    BY <1>1, <1>3, <1>4, <2>4, <2>5, RemoveEntryType
  <2> QED BY <1>3, <2>4, <2>6, FreesTransitive
<1> QED BY <1>2, <1>3, <1>4

\* The two entries of a new directory.
LEMMA DotEntries ==
  ASSUME NEW c \in {0} \cup Clusters
  PROVE  Entry(".", TRUE, c, 0) \in Entries /\ Entry("..", TRUE, c, 0) \in Entries
BY Geometry DEF Entry, Entries, Names

LEMMA MkdirTableType ==
  ASSUME NEW new \in [v : Volumes, clst : {0} \cup Clusters], NEW tbl \in {0} \cup Clusters,
         NEW name \in Names, NEW old, Extends(old, new.v)
  PROVE  MkdirTable(new, tbl, name) \in Volumes /\ NoRelink(old, MkdirTable(new, tbl, name))
<1> DEFINE c == new.clst
           x == dir_clear(new.v, c)
           y == Poke(x, 0, Entry(".", TRUE, c, 0))
           z == Poke(y, 1, Entry("..", TRUE, tbl, 0))
           reg == dir_register(z, tbl, Entry(name, TRUE, c, 0))
<1>1. new.v \in Volumes /\ c \in {0} \cup Clusters /\ c \in 0 .. EOC
  BY Geometry
<1>2. MkdirTable(new, tbl, name) = IF c = 0 THEN new.v ELSE MkdirDone(reg, c)
  BY DEF MkdirTable
<1> HIDE DEF c
<1>3. CASE c = 0
  BY <1>1, <1>2, <1>3, LinksKept
<1>4. CASE c # 0
  <2>1. x \in Volumes /\ x.sect \in ObjectSectors /\ Extends(new.v, x)
    <3>1. /\ x \in Volumes /\ x.sect = clst2sect(c) /\ clst2sect(c) \in DataSectors
          /\ Same(new.v, x)
      BY <1>1, <1>4, DirClear, Areas DEF Same
    <3>2. Extends(new.v, x)
      BY <1>1, <3>1, SameGrows
    <3> QED BY <3>1, <3>2 DEF ObjectSectors
  <2>2. 0 \in Cells /\ 1 \in Cells /\ Entry(".", TRUE, c, 0) \in DirCells /\ Entry("..", TRUE, tbl, 0) \in DirCells
    BY <1>1, Areas, DotEntries DEF DirCells
  <2> HIDE DEF x
  <2>3. y \in Volumes /\ y.sect \in ObjectSectors /\ Extends(x, y)
    <3>1. y \in Volumes /\ y.sect = x.sect
      BY <2>1, <2>2, PokeCell
    <3>2. Extends(x, y)
      BY <2>1, PokeOnly, OnlyFat
    <3> QED BY <2>1, <3>1, <3>2
  <2> HIDE DEF y
  <2>4. z \in Volumes
    BY <2>2, <2>3, PokeCell
  <2>8. Extends(y, z)
    BY <2>3, PokeOnly, OnlyFat
  <2> HIDE DEF z
  <2>5. Entry(name, TRUE, c, 0) \in Entries
    BY <1>1, Geometry DEF Entry, Entries
  <2>6. reg.v \in Volumes /\ Extends(z, reg.v)
    <3>1. reg \in Searches /\ Extends(z, reg.v)
      BY <2>4, <2>5, DirRegister DEF Found
    <3> HIDE DEF reg
    <3> QED BY <3>1, SearchFields
  <2> HIDE DEF reg
  <2>9. Extends(old, reg.v)
    BY <2>1, <2>3, <2>6, <2>8, ExtendsTransitive
  <2>10. sync_window(reg.v) \in Volumes /\ Frees(reg.v, sync_window(reg.v))
    BY <2>6, SyncWindow, SameFat
  <2>11. remove_chain(reg.v, c) \in Volumes /\ Frees(reg.v, remove_chain(reg.v, c))
    BY <1>1, <2>6, RemoveChain
  <2>7. MkdirDone(reg, c) \in Volumes /\ NoRelink(old, MkdirDone(reg, c))
    BY <2>9, <2>10, <2>11, LinksKept DEF MkdirDone
  <2> QED BY <1>2, <1>4, <2>7
<1> QED BY <1>3, <1>4

LEMMA MkdirType ==
  ASSUME NEW x \in Volumes, NEW p \in Paths
  PROVE  f_mkdir(x, p) \in Volumes /\ NoRelink(x, f_mkdir(x, p))
<1> DEFINE r == follow_path(x, p)
           new == create_chain(r.v, 0)
<1>1. r \in Searches /\ Same(x, r.v)
  BY FollowPath DEF Found
<1>2. f_mkdir(x, p) = IF r.res # "NO_FILE" THEN r.v ELSE MkdirTable(new, r.dp.tbl, Last(p))
  BY DEF f_mkdir, MkdirAt
<1> HIDE DEF r
<1>3. r.v \in Volumes /\ r.dp.tbl \in {0} \cup Clusters /\ Last(p) \in Names
  BY <1>1, SearchFields, PathNames
<1>4. new \in [v : Volumes, clst : {0} \cup Clusters]
  <2>1. new \in [v : Volumes, clst : {0, 1} \cup Clusters] /\ new.clst # 1
    BY <1>3, CreateChain, Geometry DEF Grown
  <2> HIDE DEF new
  <2> QED BY <2>1
<1>6. Extends(x, r.v)
  BY <1>1, SameGrows
<1>7. Extends(r.v, new.v)
  BY <1>3, Geometry, CreateGrows DEF Grows
<1>8. Extends(x, new.v)
  BY <1>6, <1>7, ExtendsTransitive
<1> HIDE DEF new
<1>5. /\ MkdirTable(new, r.dp.tbl, Last(p)) \in Volumes
      /\ NoRelink(x, MkdirTable(new, r.dp.tbl, Last(p)))
  BY <1>3, <1>4, <1>8, MkdirTableType
<1> QED BY <1>2, <1>3, <1>5, <1>6, LinksKept

\* A directory that moves gets a new "..", if that is what it holds there.
Upward(cell, c) == [cell EXCEPT !.clst = c]

LEMMA MoveEntryType ==
  ASSUME NEW reg, Found(reg), NEW e \in Entries, NEW from \in DirObjects, from.sect \in ObjectSectors,
         NEW to \in DirObjects
  PROVE  MoveEntry(reg, e, from, to) \in Volumes /\ Extends(reg.v, MoveEntry(reg, e, from, to))
<1> DEFINE dots == move_window(reg.v, clst2sect(e.clst))
           up == dots.win[1]
           moved == e.dir /\ from.tbl # to.tbl
           new == Upward(up, to.tbl)
           y == IF ~moved THEN reg.v ELSE IF IsDot(up) THEN Poke(dots, 1, new) ELSE dots
<1>1. MoveEntry(reg, e, from, to) =
        IF reg.res # "OK" \/ (moved /\ e.clst = 0) THEN reg.v ELSE sync_window(dir_remove(y, from))
  BY DEF MoveEntry, Upward
<1>2. reg.v \in Volumes /\ e.clst \in {0} \cup Clusters /\ to.tbl \in {0} \cup Clusters
  BY SearchFields, EntryFields, DirFields DEF Found
<1>3. CASE reg.res # "OK" \/ (moved /\ e.clst = 0)
  BY <1>1, <1>2, <1>3, Unmoved
<1>4. CASE ~(reg.res # "OK" \/ (moved /\ e.clst = 0))
  <2>1. y \in Volumes /\ Extends(reg.v, y)
    <3>1. CASE ~moved
      BY <1>2, <3>1, Unmoved
    <3>2. CASE moved
      <4>1. e.clst \in Clusters
        BY <1>2, <1>4, <3>2
      <4> HIDE DEF moved
      <4>2. clst2sect(e.clst) \in ObjectSectors /\ clst2sect(e.clst) \in Sectors
        BY <4>1, Areas DEF ObjectSectors
      <4>3. dots \in Volumes /\ dots.sect \in ObjectSectors /\ Extends(reg.v, dots)
        BY <1>2, <4>2, MoveWindow, SameFat
      <4> HIDE DEF dots
      <4>4. 1 \in Cells /\ up \in DataCells
        BY <4>3, WindowCells, Areas
      <4> HIDE DEF up
      <4>5. ASSUME IsDot(up) PROVE Poke(dots, 1, new) \in Volumes
        <5>1. up \in Entries
          BY <4>4, <4>5, EntryCells DEF IsDot
        <5>2. new \in Entries
          BY <1>2, <5>1 DEF Upward, Entries
        <5> HIDE DEF new
        <5>3. new \in DirCells
          BY <5>2 DEF DirCells
        <5> QED BY <4>3, <4>4, <5>3, PokeCell
      <4>6. Extends(dots, Poke(dots, 1, new))
        BY <4>3, PokeOnly, OnlyFat
      <4>7. Extends(reg.v, Poke(dots, 1, new))
        BY <4>3, <4>6, ExtendsTransitive
      <4> QED BY <3>2, <4>3, <4>5, <4>7
    <3> QED BY <3>1, <3>2
  <2> HIDE DEF y
  <2>2. sync_window(dir_remove(y, from)) \in Volumes /\ Extends(reg.v, sync_window(dir_remove(y, from)))
    <3> DEFINE z == dir_remove(y, from)
    <3>1. z \in Volumes /\ Extends(y, z)
      BY <2>1, DirRemove
    <3> HIDE DEF z
    <3>2. sync_window(z) \in Volumes /\ Extends(z, sync_window(z))
      BY <3>1, SyncWindow, SameFat
    <3>3. Extends(reg.v, sync_window(z))
      BY <2>1, <3>1, <3>2, ExtendsTransitive
    <3> QED BY <3>2, <3>3 DEF z
  <2> QED BY <1>1, <1>4, <2>2
<1> QED BY <1>3, <1>4

\* An entry under another name.
Renamed(e, name) == [e EXCEPT !.name = name]

LEMMA RenameType ==
  ASSUME NEW x \in Volumes, NEW p \in Paths, NEW q \in Paths
  PROVE  f_rename(x, p, q) \in Volumes /\ Extends(x, f_rename(x, p, q))
<1> DEFINE o == follow_path(x, p)
           n == follow_path(o.v, q)
           same == n.dp.tbl = o.dp.tbl /\ n.dp.k = o.dp.k
           e == EntryAt(o)
           new == Renamed(e, Last(q))
           reg == dir_register(n.v, n.dp.tbl, new)
<1>1. o \in Searches /\ (o.res = "OK" => e \in Entries) /\ Same(x, o.v)
  BY FollowPath DEF Found
<1>2. f_rename(x, p, q) =
        IF o.res # "OK" THEN o.v
        ELSE IF n.res # "NO_FILE" /\ ~(n.res = "OK" /\ same) THEN n.v
        ELSE MoveEntry(reg, e, o.dp, n.dp)
  BY DEF f_rename, RenameFound, RenameTo, Renamed
<1> HIDE DEF o, e
<1>3. /\ o.v \in Volumes /\ o.dp \in DirObjects /\ (o.res = "OK" => o.dp.sect \in ObjectSectors)
      /\ Extends(x, o.v)
  BY <1>1, SearchFields, SameGrows
<1>4. n \in Searches /\ Same(o.v, n.v)
  BY <1>3, FollowPath DEF Found
<1> HIDE DEF n
<1>5. /\ n.v \in Volumes /\ n.dp \in DirObjects /\ n.dp.tbl \in {0} \cup Clusters
      /\ Extends(x, n.v)
  BY <1>3, <1>4, SearchFields, SameGrows, ExtendsTransitive
<1>6. ASSUME o.res = "OK"
      PROVE  MoveEntry(reg, e, o.dp, n.dp) \in Volumes /\ Extends(x, MoveEntry(reg, e, o.dp, n.dp))
  <2>1. new \in Entries
    BY <1>1, <1>6, PathNames DEF Renamed, Entries
  <2> HIDE DEF new
  <2>2. Found(reg) /\ Extends(n.v, reg.v)
    BY <1>5, <2>1, DirRegister
  <2> HIDE DEF reg
  <2>3. MoveEntry(reg, e, o.dp, n.dp) \in Volumes /\ Extends(reg.v, MoveEntry(reg, e, o.dp, n.dp))
    BY <1>1, <1>3, <1>5, <1>6, <2>2, MoveEntryType
  <2> QED BY <1>5, <2>2, <2>3, ExtendsTransitive
<1> HIDE DEF reg, same
<1> QED BY <1>2, <1>3, <1>5, <1>6

-----------------------------------------------------------------------------
(* Steps. *)

\* Forgetting what freed clusters held, and a window that adds nothing.
LEMMA ForgetType ==
  ASSUME NEW x \in Volumes
  PROVE  /\ Forget(x) \in Volumes /\ Kept(x, Forget(x), SystemSectors)
         /\ x.sect = -1 => Forget(x).sect = -1
<1> DEFINE marked(d) == 0 = Seen(x, FatSect(d))[d % SS] /\ 0 = x.disk[FatSect(d)][d % SS]
           free == {clst2sect(c) : c \in {d \in Clusters : marked(d)}}
           clean == ~x.dirty /\ x.sect < DataBase
           disk == [s \in Sectors |-> IF s \in free THEN Garbage ELSE x.disk[s]]
           win == IF clean THEN ZeroSector ELSE IF x.sect \in free THEN Garbage ELSE x.win
           sect == IF clean THEN -1 ELSE x.sect
           z == [x EXCEPT !.disk = disk, !.win = win, !.sect = sect]
<1>1. Forget(x) = z
  BY DEF Forget
<1>2. free \subseteq DataSectors /\ DataSectors \subseteq Sectors
  <2> HIDE DEF marked
  <2> QED BY Areas
<1>3. Garbage \in DataContents /\ \A s \in DataSectors : Contents(s) = DataContents
  <2>1. \A i \in Cells : Garbage[i] = Garbage[0] /\ Garbage[i] \in DataCells
    BY Areas DEF Garbage, DataCells
  <2>2. Garbage = [i \in Cells |-> Garbage[i]]
    BY DEF Garbage
  <2> QED BY <2>1, <2>2, ContentsOf DEF DataContents
<1> HIDE DEF free, clean
<1>4. \A s \in Sectors : disk[s] \in Contents(s) /\ disk[s] \in AnyContents
  <2> TAKE s \in Sectors
  <2>1. disk[s] = IF s \in free THEN Garbage ELSE x.disk[s]
    OBVIOUS
  <2> HIDE DEF disk
  <2>2. disk[s] \in Contents(s)
    BY <1>2, <1>3, <2>1, VolumeFields
  <2> QED BY <2>2 DEF AnyContents
<1>5. disk \in [Sectors -> AnyContents]
  BY <1>4
<1>6. sect \in Sectors \cup {-1} /\ (x.dirty => sect # -1)
  BY VolumeFields DEF clean
<1>7. win \in IF sect = -1 THEN {ZeroSector} ELSE Contents(sect)
  <2>1. CASE clean
    BY <2>1
  <2>2. CASE ~clean
    <3>1. x.win \in IF x.sect = -1 THEN {ZeroSector} ELSE Contents(x.sect)
      BY VolumeFields
    <3>2. x.sect \in free => x.sect # -1 /\ Garbage \in Contents(x.sect)
      BY <1>2, <1>3, Areas
    <3> QED BY <2>2, <3>1, <3>2
  <2> QED BY <2>1, <2>2
<1>8. win \in AnyContents
  BY <1>6, <1>7 DEF AnyContents
<1> HIDE DEF disk, win, sect
<1>9. /\ z \in [disk : [Sectors -> AnyContents], win : AnyContents, sect : Sectors \cup {-1},
              dirty : BOOLEAN, last : 0 .. NFatEnt - 1]
      /\ z.disk = disk /\ z.win = win /\ z.sect = sect /\ z.dirty = x.dirty
  BY <1>5, <1>6, <1>8, VolumeFields
<1>10. \A t \in SystemSectors : disk[t] = x.disk[t] /\ t \notin free
  BY <1>2, Areas DEF disk
<1> HIDE DEF z
<1>11. Kept(x, z, SystemSectors)
  <2>1. CASE clean
    BY <1>9, <1>10, <2>1, Areas DEF sect, win, clean, Kept, Current, Seen
  <2>2. CASE ~clean
    BY <1>9, <1>10, <2>2, Areas DEF sect, win, clean, Kept, Current, Seen
  <2> QED BY <2>1, <2>2
<1>12. z \in Volumes
  BY <1>4, <1>6, <1>7, <1>9, <1>11, CoherentKept, MakesVolume
<1>13. x.sect = -1 => z.sect = -1
  BY <1>9, VolumeFields, Geometry DEF sect, clean
<1> QED BY <1>1, <1>11, <1>12, <1>13

Descriptors == [Handles -> {NoFil, StaleFil} \cup Fils]

\* The inductive invariant: TypeOK and a window that is not older than the disk.
\* A volume that is not mounted has no window and no open file.
Away(x, fl) == x.sect = -1 /\ \A h \in Handles : ~IsOpen(fl[h])
IInv ==
  /\ v \in Volumes /\ mounted \in BOOLEAN /\ fil \in Descriptors
  /\ ~mounted => Away(v, fil)

LEMMA TypeSets ==
  IInv => TypeOK
<1> DEFINE Kinds == {NoFil, StaleFil}
<1>1. \A f \in Kinds : ~IsOpen(f)
  BY DEF IsOpen, NoFil, StaleFil
<1> HIDE DEF Kinds
<1>2. ASSUME fil \in [Handles -> Kinds \cup Fils]
      PROVE  /\ fil \in [Handles -> Kinds \cup OpenFils]
             /\ \A h \in Handles : IsOpen(fil[h]) => Fits(fil[h])
  BY <1>1, <1>2 DEF Fils
<1> QED BY <1>2, VolumesSet DEF IInv, TypeOK, Descriptors, Kinds

LEMMA BecomeType ==
  ASSUME NEW x \in Volumes, NEW fl \in Descriptors, Become(x, fl)
  PROVE  v' \in Volumes /\ fil' \in Descriptors /\ (Away(x, fl) => Away(v', fil'))
BY ForgetType DEF Become, Away

\* What a step forgets is in no system sector.
LEMMA Became ==
  ASSUME NEW x \in Volumes, NEW fl, Become(x, fl)
  PROVE  v' \in Volumes /\ Same(x, v')
BY ForgetType DEF Become, Same

\* A volume whose window is empty.
LEMMA FreshType ==
  ASSUME NEW disk \in [Sectors -> AnyContents], \A s \in Sectors : disk[s] \in Contents(s)
  PROVE  Fresh(disk) \in Volumes
<1> DEFINE z == Fresh(disk)
<1>1. ZeroSector \in AnyContents /\ 0 \in 0 .. NFatEnt - 1
  BY Geometry DEF AnyContents
<1>2. /\ z \in [disk : [Sectors -> AnyContents], win : AnyContents, sect : Sectors \cup {-1},
              dirty : BOOLEAN, last : 0 .. NFatEnt - 1]
      /\ z.disk = disk /\ z.win = ZeroSector /\ z.sect = -1 /\ ~z.dirty
  BY <1>1 DEF Fresh
<1> HIDE DEF z
<1>3. Coherent(z)
  BY <1>2, Areas DEF Coherent, Current
<1>4. z \in Volumes
  BY <1>2, <1>3, MakesVolume
<1> QED BY <1>4 DEF z

LEMMA InitType ==
  ASSUME Init
  PROVE  IInv
<1> DEFINE zeros == [i \in Cells |-> 0]
           disk == [s \in Sectors |-> IF s \in 1 .. FatSectors THEN zeros ELSE ZeroSector]
<1>1. zeros \in FatContents
  BY Geometry DEF FatContents
<1> HIDE DEF zeros
<1>2. \A s \in Sectors : disk[s] \in Contents(s) /\ disk[s] \in AnyContents
  <2> TAKE s \in Sectors
  <2>1. disk[s] = IF s \in 1 .. FatSectors THEN zeros ELSE ZeroSector
    OBVIOUS
  <2> HIDE DEF disk
  <2>2. disk[s] \in Contents(s)
    <3>1. CASE s = 0
      BY <2>1, <3>1, Geometry, ContentsOf
    <3>2. CASE s \in 1 .. FatSectors
      BY <1>1, <2>1, <3>2, ContentsOf
    <3>3. CASE s \in DirSectors \cup DataSectors
      BY <2>1, <3>3, Areas, ZeroContents
    <3> QED BY <3>1, <3>2, <3>3, Areas
  <2> QED BY <2>2 DEF AnyContents
<1>3. v = Fresh(disk)
  BY DEF Init, zeros
<1>4. disk \in [Sectors -> AnyContents]
  BY <1>2
<1> HIDE DEF disk
<1>5. v \in Volumes
  BY <1>2, <1>3, <1>4, FreshType
<1>6. mounted \in BOOLEAN /\ fil \in Descriptors /\ Away(v, fil)
  <2>1. v.sect = -1
    BY <1>3 DEF Fresh
  <2>2. fil = [h \in Handles |-> NoFil] /\ ~IsOpen(NoFil) /\ mounted = FALSE
    BY DEF Init, IsOpen, NoFil
  <2> QED BY <2>1, <2>2 DEF Descriptors, Away
<1> QED BY <1>5, <1>6 DEF IInv

LEMMA FormatType ==
  ASSUME IInv, Format
  PROVE  IInv'
<1> DEFINE fat(s) == [i \in Cells |-> IF s = 1 /\ i < 2 THEN EOC ELSE 0]
           disk == [s \in Sectors |-> IF s = 0 THEN Boot ELSE IF s \in 1 .. FatSectors THEN fat(s)
                                      ELSE IF s < DataBase THEN ZeroSector ELSE v.disk[s]]
           z == [v EXCEPT !.disk = disk]
<1>1. v \in Volumes /\ mounted \in BOOLEAN /\ fil \in Descriptors /\ Away(v, fil)
  BY DEF IInv, Format
<1>2. Become(z, fil) /\ mounted' = mounted
  BY DEF Format
<1>3. \A s : fat(s) \in FatContents
  BY Geometry DEF FatContents
<1> HIDE DEF fat
<1>4. \A s \in Sectors : disk[s] \in Contents(s) /\ disk[s] \in AnyContents
  <2> TAKE s \in Sectors
  <2>1. disk[s] = IF s = 0 THEN Boot ELSE IF s \in 1 .. FatSectors THEN fat(s)
                  ELSE IF s < DataBase THEN ZeroSector ELSE v.disk[s]
    OBVIOUS
  <2> HIDE DEF disk
  <2>2. disk[s] \in Contents(s)
    <3>1. CASE s = 0
      BY <2>1, <3>1, ContentsOf
    <3>2. CASE s \in 1 .. FatSectors
      BY <1>3, <2>1, <3>2, ContentsOf, Geometry
    <3>3. CASE s \in DirSectors \cup DataSectors
      BY <1>1, <2>1, <3>3, Areas, ZeroContents, VolumeFields
    <3> QED BY <3>1, <3>2, <3>3, Areas
  <2> QED BY <2>2 DEF AnyContents
<1>5. disk \in [Sectors -> AnyContents]
  BY <1>4
<1> HIDE DEF disk
<1>6. /\ z \in [disk : [Sectors -> AnyContents], win : AnyContents, sect : Sectors \cup {-1},
              dirty : BOOLEAN, last : 0 .. NFatEnt - 1]
      /\ z.disk = disk /\ z.win = v.win /\ z.sect = v.sect /\ z.dirty = v.dirty
  BY <1>1, <1>5, VolumeFields
<1> HIDE DEF z
<1>7. Coherent(z) /\ Away(z, fil)
  BY <1>1, <1>6, Areas DEF Coherent, Current, Away
<1>8. z \in Volumes
  BY <1>1, <1>4, <1>6, <1>7, VolumeFields, MakesVolume
<1>9. v' \in Volumes /\ fil' \in Descriptors /\ mounted' \in BOOLEAN /\ Away(v', fil')
  BY <1>1, <1>2, <1>7, <1>8, BecomeType
<1> QED BY <1>9 DEF Descriptors, IInv, Away

\* A step that leaves the volume x and the files fl.
LEMMA StepType ==
  ASSUME IInv, NEW x \in Volumes, NEW fl \in Descriptors, Become(x, fl), mounted' \in BOOLEAN,
         ~mounted' => Away(x, fl)
  PROVE  IInv'
<1>1. v' \in Volumes /\ fil' \in Descriptors /\ (Away(x, fl) => Away(v', fil'))
  BY BecomeType
<1> QED BY <1>1 DEF Descriptors, IInv, Away

LEMMA MountType ==
  ASSUME IInv, Mount
  PROVE  IInv' /\ Same(v, v')
<1>1. v \in Volumes /\ fil \in Descriptors
  BY DEF IInv
<1>2. move_window(v, 0) \in Volumes /\ Same(v, move_window(v, 0))
  BY <1>1, Areas, MoveWindow, StillSame
<1>3. Become(move_window(v, 0), fil) /\ mounted'
  BY DEF Mount
<1>4. IInv'
  BY <1>1, <1>2, <1>3, StepType DEF Mount
<1> QED BY <1>2, <1>3, <1>4, Became, SameTransitive

LEMMA UmountType ==
  ASSUME IInv, Umount
  PROVE  IInv'
<1> DEFINE fl == [h \in Handles |-> IF fil[h] = NoFil THEN NoFil ELSE StaleFil]
<1>1. v \in Volumes /\ fl \in Descriptors
  BY DEF Descriptors, IInv
<1>2. Fresh(v.disk) \in Volumes /\ Away(Fresh(v.disk), fl)
  BY <1>1, VolumeFields, FreshType DEF Away, Fresh, IsOpen, NoFil, StaleFil
<1>3. Become(Fresh(v.disk), fl) /\ mounted' \in BOOLEAN
  BY DEF Umount
<1> HIDE DEF fl
<1> QED BY <1>1, <1>2, <1>3, StepType

\* One handle's file replaced.
LEMMA OneFile ==
  ASSUME IInv, NEW h \in Handles, NEW f \in {NoFil, StaleFil} \cup Fils
  PROVE  [fil EXCEPT ![h] = f] \in Descriptors
BY DEF Descriptors, IInv

LEMMA OpenFile ==
  ASSUME IInv, NEW h \in Handles, IsOpen(fil[h])
  PROVE  fil[h] \in Fils
<1>1. fil[h] \in {NoFil, StaleFil} \cup Fils
  BY DEF Descriptors, IInv
<1>2. ~IsOpen(NoFil) /\ ~IsOpen(StaleFil)
  BY DEF IsOpen, NoFil, StaleFil
<1> QED BY <1>1, <1>2

\* A call on one handle that leaves the volume x and the file f.
LEMMA HandleStep ==
  ASSUME IInv, NEW h \in Handles, NEW x \in Volumes, NEW f \in {NoFil, StaleFil} \cup Fils,
         Become(x, [fil EXCEPT ![h] = f]), UNCHANGED mounted,
         ~mounted => x.sect = -1 /\ f = NoFil
  PROVE  IInv'
<1>1. [fil EXCEPT ![h] = f] \in Descriptors
  BY OneFile
<1>2. mounted' \in BOOLEAN
  BY DEF IInv
<1> DEFINE fl == [fil EXCEPT ![h] = f]
<1>3. fl \in Descriptors /\ Become(x, fl) /\ (~mounted => Away(x, fl))
  BY <1>1 DEF IInv, Away, Descriptors, IsOpen, NoFil
<1> HIDE DEF fl
<1> QED BY <1>2, <1>3, StepType

LEMMA OpenStep ==
  ASSUME IInv, NEW h \in Handles, Open(h)
  PROVE  IInv' /\ (Extends(v, v') \/ Frees(v, v'))
<1>1. PICK p \in Paths, w \in BOOLEAN, flags \in OpenFlags :
        LET r == f_open(v, p, w, flags) IN Become(r.v, [fil EXCEPT ![h] = r.f])
  BY DEF Open
<1> DEFINE r == f_open(v, p, w, flags)
<1>2. v \in Volumes
  BY DEF IInv
<1>3. r.v \in Volumes /\ r.f \in {NoFil} \cup Fils /\ (Extends(v, r.v) \/ Frees(v, r.v))
  BY <1>2, OpenType
<1>4. Become(r.v, [fil EXCEPT ![h] = r.f]) /\ UNCHANGED mounted /\ mounted
  BY <1>1 DEF Open
<1> HIDE DEF r
<1>5. Extends(r.v, v') /\ Frees(r.v, v')
  BY <1>3, <1>4, Became, SameGrows
<1>6. Extends(v, v') \/ Frees(v, v')
  BY <1>3, <1>5, ExtendsTransitive, FreesTransitive
<1> QED BY <1>3, <1>4, <1>6, HandleStep

LEMMA ReadStep ==
  ASSUME IInv, NEW h \in Handles, Read(h)
  PROVE  IInv' /\ Same(v, v')
<1>1. PICK n \in Lengths :
        LET r == f_read(v, fil[h], n) IN Become(r.v, [fil EXCEPT ![h] = r.f])
  BY DEF Read
<1> DEFINE r == f_read(v, fil[h], n)
<1>2. v \in Volumes /\ fil[h] \in Fils /\ ~fil[h].err /\ n \in Nat
  BY OpenFile, FatFsConstants DEF Read, IInv
<1>3. r.v \in Volumes /\ r.f \in Fils /\ Same(v, r.v)
  BY <1>2, ReadType
<1>4. Become(r.v, [fil EXCEPT ![h] = r.f]) /\ UNCHANGED mounted /\ mounted
  BY <1>1 DEF Read
<1> HIDE DEF r
<1>5. Same(v, v')
  BY <1>3, <1>4, Became, SameTransitive
<1> QED BY <1>3, <1>4, <1>5, HandleStep

LEMMA WriteStep ==
  ASSUME IInv, NEW h \in Handles, Write(h)
  PROVE  IInv' /\ Grows(v, v')
<1>1. PICK n \in Lengths, val \in Values :
        /\ fil[h].fptr + n <= MaxSize
        /\ LET r == f_write(v, fil[h], [i \in 1 .. n |-> Byte(val)])
           IN Become(r.v, [fil EXCEPT ![h] = r.f])
  BY DEF Write
<1> DEFINE data == [i \in 1 .. n |-> Byte(val)]
           r == f_write(v, fil[h], data)
<1>2. v \in Volumes /\ fil[h] \in Fils /\ ~fil[h].err /\ n \in Nat
  BY OpenFile, FatFsConstants DEF Write, IInv
<1>3. data \in Seq(DataCells) /\ Len(data) = n
  <2>1. Byte(val) \in DataCells
    BY DEF DataCells
  <2>2. data \in [1 .. n -> DataCells]
    BY <2>1
  <2> HIDE DEF data
  <2> QED BY <1>2, <2>2
<1>4. Become(r.v, [fil EXCEPT ![h] = r.f]) /\ UNCHANGED mounted /\ mounted
  BY <1>1 DEF Write
<1> HIDE DEF data
<1>5. r.v \in Volumes /\ r.f \in Fils /\ Grows(v, r.v)
  BY <1>1, <1>2, <1>3, WriteType
<1> HIDE DEF r
<1>6. Grows(r.v, v')
  BY <1>4, <1>5, Became, SameGrows
<1>7. Grows(v, v')
  BY <1>5, <1>6, GrowsTransitive
<1> QED BY <1>4, <1>5, <1>7, HandleStep

LEMMA LseekStep ==
  ASSUME IInv, NEW h \in Handles, Lseek(h)
  PROVE  IInv' /\ Grows(v, v')
<1>1. PICK to \in Offsets :
        LET r == f_lseek(v, fil[h], to) IN Become(r.v, [fil EXCEPT ![h] = r.f])
  BY DEF Lseek
<1> DEFINE r == f_lseek(v, fil[h], to)
<1>2. v \in Volumes /\ fil[h] \in Fils /\ ~fil[h].err /\ to \in 0 .. MaxSize
  BY OpenFile, FatFsConstants DEF Lseek, IInv
<1>3. r.v \in Volumes /\ r.f \in Fils /\ Grows(v, r.v)
  BY <1>2, LseekType
<1>4. Become(r.v, [fil EXCEPT ![h] = r.f]) /\ UNCHANGED mounted /\ mounted
  BY <1>1 DEF Lseek
<1> HIDE DEF r
<1>6. Grows(r.v, v')
  BY <1>3, <1>4, Became, SameGrows
<1>7. Grows(v, v')
  BY <1>3, <1>6, GrowsTransitive
<1> QED BY <1>3, <1>4, <1>7, HandleStep

LEMMA SyncStep ==
  ASSUME IInv, NEW h \in Handles, Sync(h)
  PROVE  IInv' /\ OnlyCell(v, v', fil[h].dsect, fil[h].didx)
<1> DEFINE r == f_sync(v, fil[h])
<1>1. v \in Volumes /\ fil[h] \in Fils
  BY OpenFile DEF Sync, IInv
<1>2. r.v \in Volumes /\ r.f \in Fils /\ OnlyCell(v, r.v, fil[h].dsect, fil[h].didx)
  BY <1>1, SyncType
<1>3. Become(r.v, [fil EXCEPT ![h] = r.f]) /\ UNCHANGED mounted /\ mounted
  BY DEF Sync
<1> HIDE DEF r
<1>4. OnlyCell(v, v', fil[h].dsect, fil[h].didx)
  <2>1. Same(v, v) /\ Same(r.v, v')
    BY <1>2, <1>3, Became, Unmoved
  <2> QED BY <1>1, <1>2, <2>1, SameOnly
<1> QED BY <1>2, <1>3, <1>4, HandleStep

LEMMA CloseStep ==
  ASSUME IInv, NEW h \in Handles, Close(h)
  PROVE  IInv' /\ (IF IsOpen(fil[h]) THEN OnlyCell(v, v', fil[h].dsect, fil[h].didx) ELSE Same(v, v'))
<1> DEFINE x == IF IsOpen(fil[h]) THEN f_sync(v, fil[h]).v ELSE v
<1>1. /\ x \in Volumes /\ (~mounted => x.sect = -1)
      /\ IsOpen(fil[h]) => OnlyCell(v, x, fil[h].dsect, fil[h].didx)
      /\ ~IsOpen(fil[h]) => Same(v, x)
  BY OpenFile, SyncType, Unmoved DEF IInv, Away
<1>2. Become(x, [fil EXCEPT ![h] = NoFil]) /\ UNCHANGED mounted
  BY DEF Close
<1> HIDE DEF x
<1>3. IsOpen(fil[h]) => OnlyCell(v, v', fil[h].dsect, fil[h].didx)
  <2>1. v \in Volumes /\ Same(v, v) /\ Same(x, v')
    BY <1>1, <1>2, Became, Unmoved DEF IInv
  <2> QED BY <1>1, <2>1, SameOnly
<1>4. ~IsOpen(fil[h]) => Same(v, v')
  BY <1>1, <1>2, Became, SameTransitive
<1>5. IInv'
  BY <1>1, <1>2, HandleStep
<1> QED BY <1>3, <1>4, <1>5

\* A call that opens, closes and moves no file.
LEMMA PathStep ==
  ASSUME IInv, NEW x \in Volumes, Become(x, fil), UNCHANGED mounted, mounted
  PROVE  IInv'
<1>1. fil \in Descriptors /\ mounted' \in BOOLEAN
  BY DEF IInv
<1> QED BY <1>1, StepType

LEMMA UnlinkStep ==
  ASSUME IInv, Unlink
  PROVE  IInv' /\ Frees(v, v')
<1>1. PICK p \in Paths : Become(f_unlink(v, p), fil)
  BY DEF Unlink
<1>2. f_unlink(v, p) \in Volumes /\ Frees(v, f_unlink(v, p)) /\ UNCHANGED mounted /\ mounted
  BY UnlinkType DEF Unlink, IInv
<1>3. Frees(f_unlink(v, p), v')
  BY <1>1, <1>2, Became, SameGrows
<1>4. Frees(v, v')
  BY <1>2, <1>3, FreesTransitive
<1> QED BY <1>1, <1>2, <1>4, PathStep

LEMMA MkdirStep ==
  ASSUME IInv, Mkdir
  PROVE  IInv' /\ NoRelink(v, v')
<1>1. PICK p \in Dirs : Become(f_mkdir(v, p), fil)
  BY DEF Mkdir
<1>2. f_mkdir(v, p) \in Volumes /\ NoRelink(v, f_mkdir(v, p)) /\ UNCHANGED mounted /\ mounted
  BY MkdirType, FatFsConstants DEF Mkdir, IInv
<1>3. FatKept(f_mkdir(v, p), v')
  BY <1>1, <1>2, Became, SameGrows
<1>4. NoRelink(v, v')
  BY <1>2, <1>3 DEF NoRelink, FatKept
<1> QED BY <1>1, <1>2, <1>4, PathStep

LEMMA RenameStep ==
  ASSUME IInv, Rename
  PROVE  IInv' /\ Extends(v, v')
<1>1. PICK p \in Paths, q \in Paths : Become(f_rename(v, p, q), fil)
  BY DEF Rename
<1>2. f_rename(v, p, q) \in Volumes /\ Extends(v, f_rename(v, p, q)) /\ UNCHANGED mounted /\ mounted
  BY RenameType DEF Rename, IInv
<1>3. Extends(f_rename(v, p, q), v')
  BY <1>1, <1>2, Became, SameGrows
<1>4. Extends(v, v')
  BY <1>2, <1>3, ExtendsTransitive
<1> QED BY <1>1, <1>2, <1>4, PathStep

LEMMA StatStep ==
  ASSUME IInv, Stat
  PROVE  IInv' /\ Same(v, v')
<1>1. PICK p \in Paths : Become(follow_path(v, p).v, fil)
  BY DEF Stat
<1>2. follow_path(v, p) \in Searches /\ Same(v, follow_path(v, p).v) /\ UNCHANGED mounted /\ mounted
  BY FollowPath DEF Stat, Found, IInv
<1>3. follow_path(v, p).v \in Volumes
  BY <1>2, SearchFields
<1>4. Same(v, v')
  BY <1>1, <1>2, <1>3, Became, SameTransitive
<1> QED BY <1>1, <1>2, <1>3, <1>4, PathStep

\* What the steps of a file or of a search do to the FAT and to the other system sectors.
RootKept(x, y) == \A t \in {0} \cup DirSectors : Seen(y, t) = Seen(x, t)

LEMMA SameKeeps ==
  ASSUME NEW x \in Volumes, NEW y, Same(x, y)
  PROVE  FatKept(x, y) /\ RootKept(x, y)
<1>1. {0} \cup DirSectors \subseteq SystemSectors
  BY Areas
<1> QED BY <1>1, SameGrows, SameSeen DEF RootKept

LEMMA GrowsKeeps ==
  ASSUME NEW x \in Volumes, NEW y, Grows(x, y)
  PROVE  Extends(x, y) /\ RootKept(x, y)
<1>1. {0} \cup DirSectors \subseteq SystemSectors
  BY Areas
<1>2. \A t \in {0} \cup DirSectors : Current(x, t)
  BY <1>1, VolumeFields DEF Coherent
<1> QED BY <1>2 DEF Grows, Kept, RootKept

LEMMA EntryCellKeeps ==
  ASSUME IInv, NEW h \in Handles, IsOpen(fil[h]), OnlyCell(v, v', fil[h].dsect, fil[h].didx)
  PROVE  FatKept(v, v')
<1>1. fil[h] \in OpenFils
  BY OpenFile, FilsSet
<1>2. fil[h].dsect \in ObjectSectors
  BY <1>1, OpenedFields DEF ObjectSectors
<1> QED BY <1>2, OnlyFat

LEMMA Invariant == Spec => []IInv
<1>1. Init => IInv
  BY InitType
<1>2. IInv /\ [Next]_vars => IInv'
  <2>1. ASSUME IInv, Next PROVE IInv'
    <3>1. CASE Format
      BY <2>1, <3>1, FormatType
    <3>2. CASE Mount
      BY <2>1, <3>2, MountType
    <3>3. CASE Umount
      BY <2>1, <3>3, UmountType
    <3>4. CASE Unlink
      BY <2>1, <3>4, UnlinkStep
    <3>5. CASE Mkdir
      BY <2>1, <3>5, MkdirStep
    <3>6. CASE Rename
      BY <2>1, <3>6, RenameStep
    <3>7. CASE Stat
      BY <2>1, <3>7, StatStep
    <3>8. CASE \E h \in Handles : Open(h) \/ Read(h) \/ Write(h) \/ Lseek(h) \/ Sync(h) \/ Close(h)
      BY <2>1, <3>8, OpenStep, ReadStep, WriteStep, LseekStep, SyncStep, CloseStep
    <3> QED BY <2>1, <3>1, <3>2, <3>3, <3>4, <3>5, <3>6, <3>7, <3>8 DEF Next
  <2>2. ASSUME IInv, UNCHANGED vars PROVE IInv'
    BY <2>2 DEF IInv, vars
  <2> QED BY <2>1, <2>2
<1> QED BY <1>1, <1>2, PTL DEF Spec

\* On every volume, with any files and paths, every sector keeps to what belongs
\* into its area, in the window, in every buffer and on the disk, whatever calls are
\* made in which order: no entry, chain or byte is written into another area, every
\* cluster number names a cluster, and every open file stands inside its size with
\* the sector it stands in, if it stands inside one, in its buffer.
THEOREM VolumeTyped == Spec => []TypeOK
<1>1. IInv => TypeOK
  BY TypeSets
<1> QED BY <1>1, Invariant, PTL

\* How the calls change the FAT.  Mounting, stat, listing, reading, f_sync and f_close
\* change nothing; writing, seeking and renaming only stretch chains, at their ends and
\* with free clusters; removing only frees; opening does one of both; and f_mkdir, which
\* may take its new cluster back, leads no chain over to another.  So a file's growth
\* cannot cut off or take over the chain of another.
ChainStep ==
  /\ Mount \/ Stat => FatKept(v, v')
  /\ Unlink => Frees(v, v')
  /\ Rename => Extends(v, v')
  /\ Mkdir => NoRelink(v, v')
  /\ \A h \in Handles :
       /\ Read(h) \/ Sync(h) \/ Close(h) => FatKept(v, v')
       /\ Write(h) \/ Lseek(h) => Extends(v, v')
       /\ Open(h) => Extends(v, v') \/ Frees(v, v')

THEOREM ChainsNeverRelinked == Spec => [][ChainStep]_vars
<1>1. IInv => v \in Volumes
  BY DEF IInv
<1>2. ASSUME IInv PROVE ChainStep
  <2>1. ASSUME Mount \/ Stat PROVE FatKept(v, v')
    BY <1>1, <1>2, <2>1, MountType, StatStep, SameKeeps
  <2>2. ASSUME Unlink PROVE Frees(v, v')
    BY <1>2, <2>2, UnlinkStep
  <2>3. ASSUME Rename PROVE Extends(v, v')
    BY <1>2, <2>3, RenameStep
  <2>4. ASSUME Mkdir PROVE NoRelink(v, v')
    BY <1>2, <2>4, MkdirStep
  <2>5. ASSUME NEW h \in Handles, Read(h) PROVE FatKept(v, v')
    BY <1>1, <1>2, <2>5, ReadStep, SameKeeps
  <2>6. ASSUME NEW h \in Handles, Sync(h) PROVE FatKept(v, v')
    <3>1. IsOpen(fil[h])
      BY <2>6 DEF Sync
    <3> QED BY <1>2, <2>6, <3>1, SyncStep, EntryCellKeeps
  <2>7. ASSUME NEW h \in Handles, Close(h) PROVE FatKept(v, v')
    BY <1>1, <1>2, <2>7, CloseStep, EntryCellKeeps, SameKeeps
  <2>8. ASSUME NEW h \in Handles, Write(h) \/ Lseek(h) PROVE Extends(v, v')
    BY <1>2, <2>8, WriteStep, LseekStep DEF Grows
  <2>9. ASSUME NEW h \in Handles, Open(h) PROVE Extends(v, v') \/ Frees(v, v')
    BY <1>2, <2>9, OpenStep
  <2> QED BY <2>1, <2>2, <2>3, <2>4, <2>5, <2>6, <2>7, <2>8, <2>9 DEF ChainStep
<1>3. IInv /\ [Next]_vars => [ChainStep]_vars
  BY <1>2
<1> QED BY <1>3, Invariant, PTL DEF Spec

\* How the calls change the root directory and the boot sector.  Mounting, stat, listing,
\* reading, writing and seeking change nothing there; f_sync and f_close change one cell,
\* the directory entry the file was opened at, and nothing for a file whose entry is in a
\* subdirectory or whose volume is gone.  So data and FAT never spill into a directory,
\* and no file's close touches the entry of another.
RootStep ==
  /\ Mount \/ Stat => RootKept(v, v')
  /\ \A h \in Handles :
       /\ Read(h) \/ Write(h) \/ Lseek(h) => RootKept(v, v')
       /\ Sync(h) \/ Close(h) =>
            IF IsOpen(fil[h]) THEN OnlyCell(v, v', fil[h].dsect, fil[h].didx) ELSE RootKept(v, v')

THEOREM OnlyOwnEntry == Spec => [][RootStep]_vars
<1>1. IInv => v \in Volumes
  BY DEF IInv
<1>2. ASSUME IInv PROVE RootStep
  <2>1. ASSUME Mount \/ Stat PROVE RootKept(v, v')
    BY <1>1, <1>2, <2>1, MountType, StatStep, SameKeeps
  <2>2. ASSUME NEW h \in Handles, Read(h) PROVE RootKept(v, v')
    BY <1>1, <1>2, <2>2, ReadStep, SameKeeps
  <2>3. ASSUME NEW h \in Handles, Write(h) \/ Lseek(h) PROVE RootKept(v, v')
    BY <1>1, <1>2, <2>3, WriteStep, LseekStep, GrowsKeeps
  <2>4. ASSUME NEW h \in Handles, Sync(h)
        PROVE  IsOpen(fil[h]) /\ OnlyCell(v, v', fil[h].dsect, fil[h].didx)
    BY <1>2, <2>4, SyncStep DEF Sync
  <2>5. ASSUME NEW h \in Handles, Close(h)
        PROVE  IF IsOpen(fil[h]) THEN OnlyCell(v, v', fil[h].dsect, fil[h].didx) ELSE RootKept(v, v')
    BY <1>1, <1>2, <2>5, CloseStep, SameKeeps
  <2> QED BY <2>1, <2>2, <2>3, <2>4, <2>5 DEF RootStep
<1>3. IInv /\ [Next]_vars => [RootStep]_vars
  BY <1>2
<1> QED BY <1>3, Invariant, PTL DEF Spec

=============================================================================
