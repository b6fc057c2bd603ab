---------------------------- MODULE VfsTextProofs ----------------------------
(***************************************************************************)
(* The mount lookup, vfs_normalize_path and vfs_readline give the right     *)
(* answer for all strings, mount lists and buffers: their loop invariants  *)
(* hold at every iteration.                                                *)
(***************************************************************************)
EXTENDS VfsText, SequenceTheorems, WellFoundedInduction, TLAPS

\* A set of naturals that is not empty has a least element.
LEMMA NatMinimum ==
  ASSUME NEW T \in SUBSET Nat, T # {}
  PROVE  \E x \in T : \A y \in T : x <= y
<1>1. PICK x \in T : \A y \in T : ~(<<y, x>> \in OpToRel(<, Nat))
  BY WFMin, NatLessThanWellFounded, Zenon
<1>2. ASSUME NEW y \in T PROVE ~(y < x)
  <2>1. <<y, x>> \in Nat \X Nat
    OBVIOUS
  <2>2. OpToRel(<, Nat) = {ss \in Nat \X Nat : ss[1] < ss[2]}
    BY DEF OpToRel
  <2> QED BY <1>1, <2>1, <2>2
<1> QED BY <1>2

-----------------------------------------------------------------------------
(* The loop of _find_mount. *)

\* The mount points that the loop has seen and that contain the name.
Seen == {k \in 1 .. i - 1 : Contained(in.points[k], in.name)}

PointLength(k) == Len(in.points[k])

\* mountp is the newest of the longest of them, and longest_match its length,
\* which stays 0 for the root.
LookupInv ==
  job = "lookup" =>
    /\ in \in Lookups
    /\ i \in 1 .. Len(in.points) + 1
    /\ Done => i = Len(in.points) + 1
    /\ out = 0 => Seen = {}
    /\ out # 0 => /\ out \in Seen
                  /\ \A j \in Seen : \/ PointLength(j) < PointLength(out)
                                     \/ PointLength(j) = PointLength(out) /\ j <= out
    /\ n = IF out = 0 \/ PointLength(out) <= 1 THEN 0 ELSE PointLength(out)

LEMMA LookupTypes ==
  ASSUME job = "lookup", in \in Lookups
  PROVE  /\ in.name \in Seq(Chars) /\ Len(in.name) \in Nat
         /\ Len(in.points) \in Nat /\ DOMAIN in.points = 1 .. Len(in.points)
         /\ \A k \in 1 .. Len(in.points) :
              /\ in.points[k] \in Seq(Chars) /\ PointLength(k) \in Nat \ {0}
              /\ in.points[k][1] = "/"
<1>1. in.name \in Seq(Chars) /\ in.points \in Seq(Seq(Chars))
  BY TextInputs
<1>2. Len(in.points) \in Nat /\ DOMAIN in.points = 1 .. Len(in.points)
  BY <1>1
<1>3. ASSUME NEW k \in 1 .. Len(in.points)
      PROVE  in.points[k] \in Seq(Chars) /\ PointLength(k) \in Nat \ {0} /\ in.points[k][1] = "/"
  <2>1. in.points[k] \in Seq(Chars)
    BY <1>1
  <2>2. in.points[k] # <<>> /\ in.points[k][1] = "/"
    BY <1>2, TextInputs
  <2> QED BY <2>1, <2>2, EmptySeq DEF PointLength
<1> QED BY <1>1, <1>2, <1>3

\* A point of length one is the root.
LEMMA RootPoint ==
  ASSUME NEW p \in Seq(Chars), p[1] = "/"
  PROVE  p = <<"/">> <=> Len(p) = 1
OBVIOUS

\* The tests of the loop say which points contain the name, and whether the
\* loop knows a longer one.
LEMMA MatchesIs ==
  ASSUME NEW p \in Seq(Chars), Len(p) \in Nat \ {0}, p[1] = "/", NEW s \in Seq(Chars), NEW k \in Nat
  PROVE  Matches(p, s, k) <=> Len(p) >= k /\ Contained(p, s)
<1>1. Len(p) \in Nat /\ Len(s) \in Nat
  OBVIOUS
<1>2. p = <<"/">> <=> Len(p) = 1
  BY RootPoint
<1>3. IsPrefix(p, s) => Len(p) <= Len(s)
  BY DEF IsPrefix
<1>4. ASSUME Len(p) <= Len(s)
      PROVE  CharAt(s, Len(p) + 1) \in {"/", End} <=> Len(s) = Len(p) \/ s[Len(p) + 1] = "/"
  <2>1. CASE Len(s) = Len(p)
    BY <1>1, <2>1 DEF CharAt
  <2>2. CASE Len(s) # Len(p)
    <3>1. Len(p) + 1 \in 1 .. Len(s)
      BY <1>1, <1>4, <2>2
    <3>2. s[Len(p) + 1] \in Chars
      BY <3>1, ElementOfSeq
    <3>3. CharAt(s, Len(p) + 1) = s[Len(p) + 1]
      BY <3>1 DEF CharAt
    <3> QED BY <2>2, <3>2, <3>3, TextInputs
  <2> QED BY <2>1, <2>2
<1>5. Matches(p, s, k) <=> /\ Len(p) >= k /\ Len(p) <= Len(s)
                           /\ Len(p) > 1 => CharAt(s, Len(p) + 1) \in {"/", End}
                           /\ IsPrefix(p, s)
  BY DEF Matches, Prefers
<1>6. Contained(p, s) <=> /\ IsPrefix(p, s)
                          /\ Len(p) = 1 \/ Len(s) = Len(p) \/ s[Len(p) + 1] = "/"
  BY <1>2 DEF Contained
<1>7. Len(p) > 1 \/ Len(p) = 1
  <2>1. \A m \in Nat \ {0} : m > 1 \/ m = 1
    OBVIOUS
  <2> QED BY <2>1, Zenon
<1>8. CASE IsPrefix(p, s)
  <2> DEFINE ends == Len(s) = Len(p) \/ s[Len(p) + 1] = "/"
             next == CharAt(s, Len(p) + 1) \in {"/", End}
  <2>1. Len(p) <= Len(s) /\ (next <=> ends)
    BY <1>3, <1>4, <1>8
  <2>2. Len(p) > 1 => Len(p) # 1
    <3>1. \A m \in Nat : m > 1 => m # 1
      OBVIOUS
    <3> QED BY <1>1, <3>1, Zenon
  <2>3. Matches(p, s, k) <=> Len(p) >= k /\ (Len(p) > 1 => next)
    BY <1>5, <1>8, <2>1, Zenon
  <2>4. Contained(p, s) <=> Len(p) = 1 \/ ends
    BY <1>6, <1>8, Zenon
  <2> HIDE DEF ends, next
  <2> QED BY <2>1, <2>2, <2>3, <2>4, <1>7, Zenon
<1>9. CASE ~IsPrefix(p, s)
  BY <1>5, <1>6, <1>9
<1> QED BY <1>8, <1>9

LEMMA LookupStepInv ==
  ASSUME LookupInv, LookupStep
  PROVE  LookupInv'
<1> DEFINE N == Len(in.points)
<1>1. /\ in \in Lookups /\ i \in 1 .. N + 1 /\ i <= N /\ i' = i + 1 /\ in' = in
      /\ job = "lookup" /\ N \in Nat /\ i \in 1 .. N /\ result' = result /\ ~Done
  BY LookupTypes DEF LookupInv, LookupStep
<1>2. /\ in.name \in Seq(Chars) /\ DOMAIN in.points = 1 .. N
      /\ \A k \in 1 .. N : in.points[k] \in Seq(Chars) /\ PointLength(k) \in Nat \ {0} /\ in.points[k][1] = "/"
  BY <1>1, LookupTypes
<1> HIDE DEF N
<1>3. \A k : PointLength(k)' = PointLength(k)
  BY <1>1 DEF PointLength
<1>4. /\ Seen \subseteq 1 .. i - 1
      /\ Contained(in.points[i], in.name) => Seen' = Seen \cup {i}
      /\ ~Contained(in.points[i], in.name) => Seen' = Seen
  <2>1. Seen' = {k \in 1 .. (i + 1) - 1 : Contained(in.points[k], in.name)}
    BY <1>1 DEF Seen, Contained
  <2>2. 1 .. (i + 1) - 1 = (1 .. i - 1) \cup {i}
    BY <1>1
  <2> QED BY <2>1, <2>2 DEF Seen
<1>5. /\ n = (IF out = 0 \/ PointLength(out) <= 1 THEN 0 ELSE PointLength(out))
      /\ out = 0 => Seen = {}
      /\ out # 0 => /\ out \in Seen
                    /\ \A j \in Seen : \/ PointLength(j) < PointLength(out)
                                       \/ PointLength(j) = PointLength(out) /\ j <= out
  BY <1>1 DEF LookupInv
<1>6. /\ \A k \in Seen : k \in 1 .. N /\ k < i /\ PointLength(k) \in Nat \ {0}
      /\ PointLength(i) \in Nat \ {0}
  <2>1. ASSUME NEW k \in Seen PROVE k \in 1 .. N /\ k < i
    <3>1. k \in 1 .. i - 1
      BY <1>4
    <3> QED BY <3>1, <1>1
  <2>2. \A k \in 1 .. N : PointLength(k) \in Nat \ {0}
    BY <1>2
  <2> QED BY <2>1, <2>2, <1>1
<1>7. n \in Nat
  BY <1>5, <1>6
<1>8. Matches(in.points[i], in.name, n) <=> PointLength(i) >= n /\ Contained(in.points[i], in.name)
  BY <1>1, <1>2, <1>7, MatchesIs DEF PointLength
<1>9. CASE Matches(in.points[i], in.name, n)
  <2>1. /\ out' = i /\ n' = IF PointLength(i) > 1 THEN PointLength(i) ELSE n
        /\ Seen' = Seen \cup {i} /\ PointLength(i) >= n
    BY <1>4, <1>8, <1>9 DEF LookupStep, PointLength
  <2>2. ASSUME NEW j \in Seen'
        PROVE  \/ PointLength(j) < PointLength(i)
               \/ PointLength(j) = PointLength(i) /\ j <= i
    <3>1. CASE j = i
      BY <3>1, <1>1
    <3>2. CASE j \in Seen
      <4>1. out # 0 /\ out \in Seen /\ PointLength(j) <= PointLength(out) /\ j < i
        BY <3>2, <1>5, <1>6
      <4>2. PointLength(out) <= PointLength(i)
        BY <4>1, <2>1, <1>5, <1>6
      <4> QED BY <4>1, <4>2, <1>1, <1>6, <3>2
    <3> QED BY <2>1, <3>1, <3>2
  <2>3. n' = IF PointLength(i) <= 1 THEN 0 ELSE PointLength(i)
    BY <2>1, <1>5, <1>6
  <2>4. i # 0 /\ i + 1 \in 1 .. N + 1
    BY <1>1
  <2>5. job' = job /\ Done' = Done
    BY <1>1 DEF LookupStep, Done
  <2> QED BY <1>1, <1>3, <2>1, <2>2, <2>3, <2>4, <2>5 DEF LookupInv, N
<1>10. CASE ~Matches(in.points[i], in.name, n)
  <2>1. out' = out /\ n' = n /\ job' = job /\ Done' = Done /\ i + 1 \in 1 .. N + 1
    BY <1>1, <1>10 DEF LookupStep, Done
  <2>2. CASE ~Contained(in.points[i], in.name)
    <3>1. Seen' = Seen
      BY <2>2, <1>4
    <3> QED BY <1>1, <1>3, <1>5, <2>1, <3>1 DEF LookupInv, N
  <2>3. CASE Contained(in.points[i], in.name)
    <3>1. PointLength(i) < n /\ Seen' = Seen \cup {i}
      BY <2>3, <1>4, <1>6, <1>7, <1>8, <1>10
    <3>2. out # 0 /\ PointLength(i) < PointLength(out)
      BY <3>1, <1>5, <1>6
    <3> QED BY <1>1, <1>3, <1>5, <2>1, <3>1, <3>2 DEF LookupInv, N
  <2> QED BY <2>2, <2>3
<1> QED BY <1>9, <1>10

LEMMA LookupStays ==
  ASSUME LookupInv, UNCHANGED <<job, in, i, out, n>>, Done' => Done \/ i > Len(in.points)
  PROVE  LookupInv'
<1>1. /\ Seen' = Seen /\ \A k : PointLength(k)' = PointLength(k)
  BY DEF Seen, PointLength, Contained
<1>2. job = "lookup" /\ Done' => i = Len(in.points) + 1
  BY LookupTypes DEF LookupInv
<1> QED BY <1>1, <1>2 DEF LookupInv

LEMMA LookupNext ==
  ASSUME LookupInv, [Next]_vars
  PROVE  LookupInv'
<1>1. CASE LookupStep
  BY <1>1, LookupStepInv
<1>2. CASE LookupEnd
  BY <1>2, LookupStays DEF LookupEnd
<1>3. CASE NormalizeStep \/ ReadlineStep
  BY <1>3 DEF NormalizeStep, ReadlineStep, LookupInv
<1>4. CASE UNCHANGED vars
  BY <1>4, LookupStays DEF vars, Done
<1> QED BY <1>1, <1>2, <1>3, <1>4 DEF Next

LEMMA LookupInit == Init => LookupInv
<1> SUFFICES ASSUME Init, job = "lookup" PROVE LookupInv
  BY DEF LookupInv
<1>1. in \in Lookups /\ i = 1 /\ out = 0 /\ n = 0 /\ ~Done
  BY DEF Init, Done
<1>2. Len(in.points) \in Nat
  BY <1>1, LookupTypes
<1>3. Seen = {}
  BY <1>1 DEF Seen
<1> QED BY <1>1, <1>2, <1>3 DEF LookupInv

LEMMA LookupFound ==
  ASSUME LookupInv
  PROVE  LookupLongest /\ RelPathRooted
<1> SUFFICES ASSUME job = "lookup", Done PROVE LookupLongest /\ RelPathRooted
  BY DEF LookupLongest, RelPathRooted
<1> DEFINE all == {k \in DOMAIN in.points : Contained(in.points[k], in.name)}
           longest == {k \in all : \A j \in all : Len(in.points[j]) <= Len(in.points[k])}
<1>1. /\ in.name \in Seq(Chars) /\ Len(in.name) \in Nat
      /\ Len(in.points) \in Nat /\ DOMAIN in.points = 1 .. Len(in.points)
      /\ \A k \in 1 .. Len(in.points) :
           /\ in.points[k] \in Seq(Chars) /\ Len(in.points[k]) \in Nat \ {0}
           /\ in.points[k][1] = "/"
  BY LookupTypes DEF LookupInv, PointLength
<1>2. Seen = all
  BY <1>1 DEF LookupInv, Seen
<1>3. /\ out = 0 => all = {}
      /\ out # 0 => /\ out \in all
                    /\ \A j \in all : \/ Len(in.points[j]) < Len(in.points[out])
                                      \/ Len(in.points[j]) = Len(in.points[out]) /\ j <= out
      /\ n = IF out = 0 \/ Len(in.points[out]) <= 1 THEN 0 ELSE Len(in.points[out])
  BY <1>2 DEF LookupInv, PointLength
<1>4. all \subseteq 1 .. Len(in.points)
  BY <1>1
<1>5. CASE out = 0
  BY <1>3, <1>5 DEF LookupLongest, RelPathRooted
<1>6. CASE out # 0
  <2>1. out \in longest /\ \A j \in longest : j <= out
    <3>1. /\ out \in all /\ Len(in.points[out]) \in Nat
          /\ \A j \in all : /\ Len(in.points[j]) \in Nat
                             /\ \/ Len(in.points[j]) < Len(in.points[out])
                                \/ Len(in.points[j]) = Len(in.points[out]) /\ j <= out
      BY <1>1, <1>3, <1>4, <1>6
    <3> HIDE DEF all
    <3>2. \A j \in all : Len(in.points[j]) <= Len(in.points[out])
      BY <3>1
    <3>3. ASSUME NEW j \in longest PROVE j <= out
      <4>1. j \in all /\ Len(in.points[out]) <= Len(in.points[j])
        BY <3>1
      <4> QED BY <3>1, <4>1
    <3> QED BY <3>1, <3>2, <3>3
  <2>2. Max(longest) = out
    <3>1. \A x \in longest : (\A y \in longest : x >= y) => x = out
      BY <2>1, <1>4
    <3>2. \A y \in longest : out >= y
      BY <2>1, <1>4
    <3> HIDE DEF longest, all
    <3> QED BY <2>1, <3>1, <3>2 DEF Max
  <2>3. LookupLongest
    BY <1>3, <1>6, <2>2 DEF LookupLongest
  <2>4. RelPathRooted
    <3> DEFINE p == in.points[out]
    <3>1. /\ p \in Seq(Chars) /\ Len(p) \in Nat \ {0} /\ p[1] = "/"
          /\ IsPrefix(p, in.name) /\ Len(p) <= Len(in.name)
          /\ p = <<"/">> \/ Len(in.name) = Len(p) \/ in.name[Len(p) + 1] = "/"
      BY <1>1, <1>3, <1>4, <1>6 DEF Contained, IsPrefix
    <3>2. n \in Nat /\ n <= Len(in.name)
      BY <1>1, <1>3, <1>6, <3>1
    <3>3. /\ RelPath \in Seq(Chars)
          /\ Len(RelPath) = IF n + 1 <= Len(in.name) THEN Len(in.name) - (n + 1) + 1 ELSE 0
          /\ \A j \in 1 .. Len(in.name) - (n + 1) + 1 : RelPath[j] = in.name[(n + 1) + j - 1]
      <4>1. \A j \in n + 1 .. Len(in.name) : in.name[j] \in Chars
        BY <1>1, <3>2
      <4>2. n + 1 \in Int /\ Len(in.name) \in Int
        BY <1>1, <3>2
      <4> QED BY <4>1, <4>2, SubSeqProperties DEF RelPath
    <3>4. n = Len(in.name) => RelPath = <<>>
      BY <1>1, <3>2, <3>3, EmptySeq
    <3>5. n # Len(in.name) => RelPath[1] = in.name[n + 1]
      <4>1. n # Len(in.name) => 1 \in 1 .. Len(in.name) - (n + 1) + 1 /\ (n + 1) + 1 - 1 = n + 1
        BY <1>1, <3>2
      <4> QED BY <4>1, <3>3
    <3>6. CASE Len(p) = 1
      <4>1. n = 0
        BY <1>3, <1>6, <3>6
      <4>2. SubSeq(p, 1, 1) = SubSeq(in.name, 1, 1)
        BY <3>1, <3>6 DEF IsPrefix
      <4>3. in.name[1] = p[1]
        <5>1. 1 \in Int /\ (\A j \in 1 .. 1 : p[j] \in Chars) /\ (\A j \in 1 .. 1 : in.name[j] \in Chars)
          BY <1>1, <3>1, <3>6
        <5>2. \A j \in 1 .. 1 - 1 + 1 : SubSeq(p, 1, 1)[j] = p[1 + j - 1]
          BY <5>1, SubSeqProperties
        <5>3. \A j \in 1 .. 1 - 1 + 1 : SubSeq(in.name, 1, 1)[j] = in.name[1 + j - 1]
          BY <5>1, SubSeqProperties
        <5>4. SubSeq(p, 1, 1)[1] = p[1] /\ SubSeq(in.name, 1, 1)[1] = in.name[1]
          BY <5>2, <5>3
        <5> QED BY <4>2, <5>4
      <4> QED BY <4>1, <4>3, <3>1, <3>4, <3>5 DEF RelPathRooted
    <3>7. CASE Len(p) # 1
      <4>1. n = Len(p) /\ p # <<"/">>
        <5>1. p # <<"/">>
          BY <3>1, <3>7, RootPoint
        <5>2. n = IF Len(p) <= 1 THEN 0 ELSE Len(p)
          BY <1>3, <1>6
        <5> QED BY <5>1, <5>2, <3>1, <3>7
      <4> QED BY <4>1, <3>1, <3>4, <3>5 DEF RelPathRooted
    <3> QED BY <3>6, <3>7
  <2> QED BY <2>3, <2>4
<1> QED BY <1>5, <1>6

\* For all strings and all mount lists, _find_mount answers with the mount whose
\* point is the longest directory prefix of the name, the newest among equal
\* points, and with ENOENT only when no point contains the name.
THEOREM LookupRight == Spec => []LookupLongest
<1>1. LookupInv => LookupLongest
  BY LookupFound
<1> QED BY <1>1, LookupInit, LookupNext, PTL DEF Spec

\* For all strings and all mount lists, the path that _find_mount leaves for the
\* driver is empty or begins with a slash.
THEOREM DriverPathRooted == Spec => []RelPathRooted
<1>1. LookupInv => RelPathRooted
  BY LookupFound
<1> QED BY <1>1, LookupInit, LookupNext, PTL DEF Spec

-----------------------------------------------------------------------------
(* The loop of vfs_readline. *)

Stops == {"\r", "\n", End}

\* buf holds what was read so far, and no end of line is among it.
LineInv ==
  job = "readline" =>
    /\ in \in Readlines
    /\ i \in Nat \ {0}
    /\ ~Done => /\ Len(out) = i - 1
                /\ out = SubSeq(in.input, 1, i - 1)
                /\ i - 1 <= Len(in.input) /\ i - 1 <= in.max
                /\ \A k \in 1 .. i - 1 : CharAt(in.input, k) \notin Stops
    /\ Done => LineWhole

LEMMA LineTypes ==
  ASSUME in \in Readlines
  PROVE  /\ in.input \in Seq(Chars \cup {ReadError}) /\ Len(in.input) \in Nat
         /\ DOMAIN in.input = 1 .. Len(in.input) /\ in.max \in Nat
<1>1. in.input \in Seq(Chars \cup {ReadError}) /\ in.max \in Nat
  BY TextInputs
<1> QED BY <1>1, LenProperties

LEMMA LineStepInv ==
  ASSUME LineInv, ReadlineStep
  PROVE  LineInv'
<1> DEFINE s == in.input
           c == CharAt(s, i)
           ends == {k \in 1 .. Len(s) + 1 : CharAt(s, k) \in Stops}
<1>1. /\ s \in Seq(Chars \cup {ReadError}) /\ Len(s) \in Nat /\ in.max \in Nat
      /\ DOMAIN s = 1 .. Len(s)
      /\ in \in Readlines /\ i \in Nat \ {0} /\ job = "readline" /\ ~Done
  BY LineTypes DEF LineInv, ReadlineStep
<1>2. /\ Len(out) = i - 1 /\ out = SubSeq(s, 1, i - 1)
      /\ i - 1 <= Len(s) /\ i - 1 <= in.max
      /\ \A k \in 1 .. i - 1 : CharAt(s, k) \notin Stops
  BY <1>1 DEF LineInv
<1>3. job' = job /\ in' = in
  BY DEF ReadlineStep
<1>4. \A k \in ends : k >= i
  BY <1>1, <1>2
<1>5. Len(s) + 1 \in ends
  BY <1>1 DEF CharAt, Stops
<1>6. ends = {k \in 1 .. Len(s) + 1 : CharAt(s, k) \in {"\r", "\n", End}}
  BY DEF Stops
<1>7. CASE TooLong /\ result' = E2BIG /\ UNCHANGED <<i, out>>
  <2>1. \A x \in ends : (\A y \in ends : x <= y) => x > in.max
    BY <1>1, <1>2, <1>4, <1>7 DEF TooLong
  <2>2. \E x \in ends : \A y \in ends : x <= y
    <3>1. ends \in SUBSET Nat /\ ends # {}
      BY <1>1, <1>5
    <3> HIDE DEF ends
    <3> QED BY <3>1, NatMinimum
  <2>3. Min(ends) > in.max
    <3> HIDE DEF ends
    <3> QED BY <2>1, <2>2 DEF Min
  <2>4. LineWhole'
    BY <1>3, <1>6, <1>7, <2>3 DEF LineWhole, CharAt
  <2> QED BY <1>1, <1>3, <1>7, <2>4 DEF LineInv, Done, E2BIG, Running
<1>8. CASE ~TooLong /\ c = ReadError /\ result' = Len(out) /\ UNCHANGED <<i, out>>
  <2>1. i <= Len(s)
    BY <1>1, <1>8 DEF CharAt, End, ReadError
  <2>2. s[i] = ReadError
    BY <1>8, <2>1 DEF CharAt
  <2>3. ReadError \in ToSet(s)
    BY <1>1, <2>1, <2>2 DEF ToSet
  <2>4. LineWhole'
    BY <1>3, <2>3 DEF LineWhole
  <2> QED BY <1>1, <1>2, <1>3, <1>8, <2>4 DEF LineInv, Done, Running
<1>9. CASE ~TooLong /\ c \in Stops /\ out' = Append(out, End)
           /\ result' = Len(out) + 1 /\ i' = i + 1
  <2>1. i \in ends /\ result' = i
    BY <1>1, <1>2, <1>9
  <2>2. Min(ends) = i
    <3>1. \A x \in ends : (\A y \in ends : x <= y) => x = i
      BY <1>1, <1>4, <2>1
    <3> HIDE DEF ends
    <3> QED BY <1>4, <2>1, <3>1 DEF Min
  <2>3. i <= in.max
    BY <1>1, <1>2, <1>9 DEF TooLong
  <2>4. result' # E2BIG /\ result' # Running
    BY <1>1, <2>1 DEF E2BIG, Running
  <2>5. LineWhole'
    BY <1>2, <1>3, <1>6, <1>9, <2>1, <2>2, <2>3, <2>4 DEF LineWhole, CharAt
  <2> QED BY <1>1, <1>3, <1>9, <2>4, <2>5 DEF LineInv, Done
<1>10. CASE ~TooLong /\ c \notin Stops /\ out' = Append(out, c) /\ i' = i + 1 /\ UNCHANGED result
  <2>1. i <= Len(s) /\ c = s[i]
    BY <1>1, <1>2, <1>10 DEF CharAt, Stops
  <2>2. i \in 1 .. Len(s)
    BY <1>1, <2>1
  <2>3. SubSeq(s, 1, i) = SubSeq(s, 1, i - 1) \o <<s[i]>>
    <3>1. 1 \in 1 .. Len(s) /\ i \in 1 .. Len(s)
      BY <1>1, <2>2
    <3> QED BY <1>1, <3>1, SubSeqRecursiveSecond
  <2>4. out \in Seq(Chars \cup {ReadError}) /\ s[i] \in Chars \cup {ReadError}
    <3>1. \A k \in 1 .. i - 1 : s[k] \in Chars \cup {ReadError}
      BY <1>1, <2>2
    <3>2. 1 \in Int /\ i - 1 \in Int
      BY <1>1
    <3> QED BY <1>1, <1>2, <2>2, <3>1, <3>2, SubSeqProperties
  <2>5. out' = SubSeq(s, 1, i) /\ Len(out') = i
    <3>1. Append(out, s[i]) = out \o <<s[i]>> /\ Len(Append(out, s[i])) = Len(out) + 1
      BY <2>4, AppendIsConcat, AppendProperties
    <3> QED BY <1>1, <1>2, <1>10, <2>1, <2>3, <3>1
  <2>6. i <= in.max
    BY <1>1, <1>2, <1>10 DEF TooLong
  <2>7. \A k \in 1 .. i : CharAt(s, k) \notin Stops
    BY <1>1, <1>2, <1>10
  <2>8. ~Done' /\ (i + 1) - 1 = i
    BY <1>1, <1>10 DEF Done
  <2>9. \A k : CharAt(in'.input, k) = CharAt(s, k)
    BY <1>3 DEF CharAt
  <2> HIDE DEF s, c
  <2> QED BY <1>1, <1>3, <1>10, <2>1, <2>5, <2>6, <2>7, <2>8, <2>9 DEF LineInv, s
<1> QED BY <1>7, <1>8, <1>9, <1>10 DEF ReadlineStep, Stops

LEMMA LineNext ==
  ASSUME LineInv, [Next]_vars
  PROVE  LineInv'
<1>1. CASE ReadlineStep
  BY <1>1, LineStepInv
<1>2. CASE LookupStep \/ LookupEnd \/ NormalizeStep
  BY <1>2 DEF LookupStep, LookupEnd, NormalizeStep, LineInv
<1>3. CASE UNCHANGED vars
  BY <1>3 DEF vars, LineInv, Done, LineWhole, CharAt
<1> QED BY <1>1, <1>2, <1>3 DEF Next

LEMMA LineInit == Init => LineInv
<1> SUFFICES ASSUME Init, job = "readline" PROVE LineInv
  BY DEF LineInv
<1>1. in \in Readlines /\ i = 1 /\ out = <<>> /\ ~Done
  BY DEF Init, Done
<1>2. in.input \in Seq(Chars \cup {ReadError}) /\ Len(in.input) \in Nat /\ in.max \in Nat
  BY <1>1, LineTypes
<1>3. SubSeq(in.input, 1, 1 - 1) = <<>> /\ Len(<<>>) = 0
  BY SubSeqEmpty
<1> QED BY <1>1, <1>2, <1>3 DEF LineInv

\* For all inputs and buffers: a line that vfs_readline returns after reads that
\* did not fail is what the file holds up to the first end of line or of file,
\* with its null byte inside the buffer, and E2BIG means that no such end came
\* in len_max bytes.
THEOREM LineRight == Spec => []LineWhole
<1>1. LineInv => LineWhole
  BY DEF LineInv, LineWhole
<1> QED BY <1>1, LineInit, LineNext, PTL DEF Spec

-----------------------------------------------------------------------------
(* The loop of vfs_normalize_path. *)

\* What holds at a and from k - 1 to k holds at every k from a to b.
Inductive(T, a, b) == a \in T /\ \A k \in a + 1 .. b : k - 1 \in T => k \in T

LEMMA RangeInduction ==
  ASSUME NEW a \in Int, NEW b \in Int, NEW T, Inductive(T, a, b)
  PROVE  \A k \in a .. b : k \in T
<1> USE DEF Inductive
<1> DEFINE left == {m \in Nat : a + m \in a .. b /\ a + m \notin T}
<1>1. left = {}
  <2>1. SUFFICES ASSUME left # {} PROVE FALSE
    OBVIOUS
  <2>2. PICK m \in left : \A j \in left : m <= j
    <3>1. left \in SUBSET Nat
      OBVIOUS
    <3> HIDE DEF left
    <3> QED BY <2>1, <3>1, NatMinimum
  <2>3. m \in Nat /\ a + m \in a .. b /\ a + m \notin T /\ m # 0
    BY <2>2
  <2>4. m - 1 \in Nat /\ m - 1 \notin left
    BY <2>2, <2>3
  <2>5. a + (m - 1) \in T
    BY <2>3, <2>4
  <2>6. a + m \in a + 1 .. b /\ (a + m) - 1 = a + (m - 1)
    BY <2>3
  <2> QED BY <2>3, <2>5, <2>6
<1>2. ASSUME NEW k \in a .. b PROVE k \in T
  <2>1. SUFFICES ASSUME k \notin T PROVE FALSE
    OBVIOUS
  <2>2. k - a \in Nat /\ a + (k - a) = k
    OBVIOUS
  <2>3. k - a \in left
    BY <2>1, <2>2
  <2> QED BY <1>1, <2>3
<1> QED BY <1>2

\* A function of the row and the row before it, and a table that it fills.
RowFunction(step, m, S) == step \in [1 .. m -> [S -> S]]
FillsTable(step, m, S, base) ==
  \E f \in [0 .. m -> S] : f[0] = base /\ \A k \in 1 .. m : f[k] = step[k][f[k - 1]]

\* Every table can be filled row by row.
LEMMA TableExists ==
  ASSUME NEW m \in Nat, NEW S, NEW base \in S, NEW step, RowFunction(step, m, S)
  PROVE  FillsTable(step, m, S, base)
<1> DEFINE Table(q) == \E f \in [0 .. q -> S] : f[0] = base /\ \A k \in 1 .. q : f[k] = step[k][f[k - 1]]
           missing == {q \in 0 .. m : ~Table(q)}
<1> step \in [1 .. m -> [S -> S]]
  BY DEF RowFunction
<1>1. Table(0)
  <2> DEFINE f == [k \in 0 .. 0 |-> base]
  <2>1. f \in [0 .. 0 -> S] /\ f[0] = base /\ 1 .. 0 = {}
    OBVIOUS
  <2> HIDE DEF f
  <2> QED BY <2>1
<1>2. ASSUME NEW q \in 1 .. m, Table(q - 1) PROVE Table(q)
  <2>1. PICK f \in [0 .. q - 1 -> S] : f[0] = base /\ \A k \in 1 .. q - 1 : f[k] = step[k][f[k - 1]]
    BY <1>2
  <2> DEFINE g == [k \in 0 .. q |-> IF k = q THEN step[q][f[q - 1]] ELSE f[k]]
  <2>2. q - 1 \in 0 .. q - 1 /\ step[q] \in [S -> S]
    OBVIOUS
  <2>3. f[q - 1] \in S /\ step[q][f[q - 1]] \in S
    BY <2>2
  <2>4. g \in [0 .. q -> S]
    BY <2>3
  <2>5. g[0] = base /\ \A k \in 1 .. q : g[k] = step[k][g[k - 1]]
    BY <2>1
  <2> QED BY <2>4, <2>5
<1>3. missing = {}
  <2>1. SUFFICES ASSUME missing # {} PROVE FALSE
    OBVIOUS
  <2>2. missing \in SUBSET Nat
    OBVIOUS
  <2> HIDE DEF Table
  <2>3. PICK q \in missing : \A r \in missing : q <= r
    <3> HIDE DEF missing
    <3> QED BY <2>1, <2>2, NatMinimum
  <2>4. q \in 1 .. m /\ q - 1 \notin missing
    BY <2>3, <1>1
  <2>5. Table(q - 1)
    BY <2>4
  <2> QED BY <1>2, <2>3, <2>4, <2>5
<1>4. Table(m)
  <2> HIDE DEF Table
  <2> QED BY <1>3
<1> QED BY <1>4 DEF FillsTable

\* The characters of a path, and the lists of components.
PathChars == Chars \cup {"/"}
Lists == Seq(Seq(PathChars))

\* What Parts adds at character k.
NextParts(p, k, parts) ==
  IF p[k] = "/" THEN parts
  ELSE IF k = 1 \/ p[k - 1] = "/" THEN Append(parts, <<p[k]>>)
  ELSE [parts EXCEPT ![Len(parts)] = Append(@, p[k])]

LEMMA NextPartsType ==
  ASSUME NEW p \in Seq(PathChars), NEW k \in 1 .. Len(p), NEW parts \in Lists
  PROVE  NextParts(p, k, parts) \in Lists
<1>1. p[k] \in PathChars
  BY ElementOfSeq
<1>2. <<p[k]>> \in Seq(PathChars)
  BY <1>1
<1>3. Append(parts, <<p[k]>>) \in Lists
  BY <1>2 DEF Lists
<1>4. [parts EXCEPT ![Len(parts)] = Append(@, p[k])] \in Lists
  <2>1. CASE parts = <<>>
    <3>1. [parts EXCEPT ![Len(parts)] = Append(@, p[k])] = parts
      BY <2>1
    <3> QED BY <3>1
  <2>2. CASE parts # <<>>
    <3>1. Len(parts) \in 1 .. Len(parts)
      BY <2>2, EmptySeq, LenProperties DEF Lists
    <3>2. parts[Len(parts)] \in Seq(PathChars)
      BY <3>1, ElementOfSeq DEF Lists
    <3>3. Append(parts[Len(parts)], p[k]) \in Seq(PathChars)
      BY <1>1, <3>2
    <3> QED BY <3>1, <3>3, ExceptSeq DEF Lists
  <2> QED BY <2>1, <2>2
<1> QED BY <1>3, <1>4 DEF NextParts

LEMMA PartsTable ==
  ASSUME NEW p \in Seq(PathChars)
  PROVE  /\ Parts(p) \in [0 .. Len(p) -> Lists]
         /\ Parts(p)[0] = <<>>
         /\ \A k \in 1 .. Len(p) : Parts(p)[k] = NextParts(p, k, Parts(p)[k - 1])
<1> DEFINE Row(f, k) == IF k = 0 THEN <<>> ELSE NextParts(p, k, f[k - 1])
<1>1. PICK step \in [1 .. Len(p) -> [Lists -> Lists]] :
        \A k \in 1 .. Len(p) : \A parts \in Lists : step[k][parts] = NextParts(p, k, parts)
  <2> DEFINE s == [k \in 1 .. Len(p) |-> [parts \in Lists |-> NextParts(p, k, parts)]]
  <2>1. s \in [1 .. Len(p) -> [Lists -> Lists]]
    BY NextPartsType
  <2>2. \A k \in 1 .. Len(p) : \A parts \in Lists : s[k][parts] = NextParts(p, k, parts)
    OBVIOUS
  <2> HIDE DEF s
  <2> QED BY <2>1, <2>2
<1>2. <<>> \in Lists /\ Len(p) \in Nat
  BY DEF Lists
<1>3. PICK f \in [0 .. Len(p) -> Lists] :
        f[0] = <<>> /\ \A k \in 1 .. Len(p) : f[k] = step[k][f[k - 1]]
  <2>1. RowFunction(step, Len(p), Lists)
    BY <1>1 DEF RowFunction
  <2>2. FillsTable(step, Len(p), Lists, <<>>)
    BY <1>2, <2>1, TableExists
  <2> QED BY <2>2 DEF FillsTable
<1>4. ASSUME NEW k \in 1 .. Len(p) PROVE f[k] = NextParts(p, k, f[k - 1])
  <2>1. k - 1 \in 0 .. Len(p) /\ f[k - 1] \in Lists
    BY <1>2, <1>3
  <2> QED BY <1>1, <1>3, <2>1
<1>5. f = [k \in 0 .. Len(p) |-> Row(f, k)]
  BY <1>2, <1>3, <1>4
<1>6. Parts(p) = CHOOSE g : g = [k \in 0 .. Len(p) |-> Row(g, k)]
  BY DEF Parts, NextParts
<1>7. Parts(p) = [k \in 0 .. Len(p) |-> Row(Parts(p), k)]
  <2> DEFINE Fixed(g) == g = [k \in 0 .. Len(p) |-> Row(g, k)]
  <2>1. Fixed(f)
    BY <1>5
  <2>2. Parts(p) = CHOOSE g : Fixed(g)
    BY <1>6
  <2> HIDE DEF Fixed
  <2>3. Fixed(Parts(p))
    BY <2>1, <2>2
  <2> QED BY <2>3 DEF Fixed
<1>8. /\ Parts(p)[0] = <<>>
      /\ \A k \in 1 .. Len(p) : Parts(p)[k] = NextParts(p, k, Parts(p)[k - 1])
  BY <1>2, <1>7
<1>9. \A k \in 0 .. Len(p) : Parts(p)[k] \in Lists
  <2> DEFINE T == {k \in 0 .. Len(p) : Parts(p)[k] \in Lists}
  <2>1. 0 \in T
    BY <1>2, <1>8
  <2>2. ASSUME NEW k \in 1 .. Len(p), k - 1 \in T PROVE k \in T
    <3>1. NextParts(p, k, Parts(p)[k - 1]) \in Lists
      BY <2>2, NextPartsType
    <3> QED BY <1>2, <1>8, <3>1
  <2>3. Inductive(T, 0, Len(p))
    BY <2>1, <2>2 DEF Inductive
  <2>4. \A k \in 0 .. Len(p) : k \in T
    <3> HIDE DEF T
    <3> QED BY <1>2, <2>3, RangeInduction
  <2> QED BY <2>4
<1>10. Parts(p) \in [0 .. Len(p) -> Lists]
  <2> DEFINE table == Parts(p)
  <2>1. table = [k \in 0 .. Len(p) |-> table[k]]
    BY <1>7
  <2>2. \A k \in 0 .. Len(p) : table[k] \in Lists
    BY <1>9
  <2> HIDE DEF table
  <2>3. table \in [0 .. Len(p) -> Lists]
    BY <2>1, <2>2
  <2> QED BY <2>3 DEF table
<1> QED BY <1>8, <1>10

LEMMA PartsTypes ==
  ASSUME NEW p \in Seq(PathChars)
  PROVE  /\ Len(p) \in Nat
         /\ \A k \in 0 .. Len(p) : Parts(p)[k] \in Lists
         /\ \A k \in 1 .. Len(p) : Parts(p)[k] = NextParts(p, k, Parts(p)[k - 1])
         /\ Components(p) = Parts(p)[Len(p)] /\ Components(p) \in Lists
BY PartsTable, LenProperties DEF Components

\* The components of the first characters do not depend on the others.
LEMMA PartsOfPrefix ==
  ASSUME NEW p \in Seq(PathChars), NEW q \in Seq(PathChars),
         NEW m \in Nat, m <= Len(p), m <= Len(q), \A k \in 1 .. m : p[k] = q[k]
  PROVE  Parts(p)[m] = Parts(q)[m]
<1> DEFINE T == {k \in 0 .. m : Parts(p)[k] = Parts(q)[k]}
<1>1. 0 \in T
  BY PartsTable
<1>2. ASSUME NEW k \in 1 .. m, k - 1 \in T PROVE k \in T
  <2>1. k \in 1 .. Len(p) /\ k \in 1 .. Len(q) /\ p[k] = q[k]
    BY PartsTypes
  <2>2. k = 1 \/ p[k - 1] = q[k - 1]
    OBVIOUS
  <2>3. Parts(p)[k - 1] = Parts(q)[k - 1]
    BY <1>2
  <2>4. NextParts(p, k, Parts(p)[k - 1]) = NextParts(q, k, Parts(q)[k - 1])
    BY <2>1, <2>2, <2>3 DEF NextParts
  <2>5. Parts(p)[k] = Parts(q)[k]
    BY <2>1, <2>4, PartsTypes
  <2> QED BY <2>5
<1>3. \A k \in 0 .. m : k \in T
  <2>1. Inductive(T, 0, m)
    BY <1>1, <1>2 DEF Inductive
  <2> HIDE DEF T
  <2> QED BY <2>1, RangeInduction
<1> QED BY <1>3

\* Slashes add no component.
LEMMA PartsOfSlashes ==
  ASSUME NEW p \in Seq(PathChars), NEW a \in Nat, NEW b \in a .. Len(p),
         \A k \in a + 1 .. b : p[k] = "/"
  PROVE  Parts(p)[b] = Parts(p)[a]
<1> DEFINE T == {k \in a .. b : Parts(p)[k] = Parts(p)[a]}
<1>1. a \in T /\ Len(p) \in Nat
  BY PartsTypes
<1>2. ASSUME NEW k \in a + 1 .. b, k - 1 \in T PROVE k \in T
  <2>1. k \in 1 .. Len(p) /\ p[k] = "/" /\ Parts(p)[k - 1] = Parts(p)[a]
    BY <1>1, <1>2
  <2>2. Parts(p)[k] = Parts(p)[a]
    BY <2>1, PartsTypes DEF NextParts
  <2> QED BY <2>2
<1>3. \A k \in a .. b : k \in T
  <2>1. Inductive(T, a, b)
    BY <1>1, <1>2 DEF Inductive
  <2> HIDE DEF T
  <2> QED BY <2>1, RangeInduction
<1> QED BY <1>1, <1>3

LEMMA ExtendLast ==
  ASSUME NEW S, NEW s \in Seq(Seq(S)), NEW w \in Seq(S), NEW c \in S
  PROVE  [Append(s, w) EXCEPT ![Len(Append(s, w))] = Append(@, c)] = Append(s, Append(w, c))
<1> DEFINE t == Append(s, w)
           u == Append(w, c)
           l == [t EXCEPT ![Len(t)] = u]
           r == Append(s, u)
<1>1. /\ t \in Seq(Seq(S)) /\ Len(t) = Len(s) + 1 /\ Len(s) \in Nat
      /\ \A j \in 1 .. Len(s) : t[j] = s[j]
      /\ t[Len(s) + 1] = w
  BY AppendProperties, LenProperties
<1>2. u \in Seq(S)
  BY AppendProperties
<1>3. Len(t) \in 1 .. Len(t)
  BY <1>1
<1>4. /\ l \in Seq(Seq(S)) /\ Len(l) = Len(t)
      /\ \A j \in 1 .. Len(t) : l[j] = IF j = Len(t) THEN u ELSE t[j]
  <2> HIDE DEF t, u
  <2> QED BY <1>1, <1>2, <1>3, ExceptSeq
<1>5. /\ r \in Seq(Seq(S)) /\ Len(r) = Len(s) + 1
      /\ \A j \in 1 .. Len(s) : r[j] = s[j]
      /\ r[Len(s) + 1] = u
  <2> HIDE DEF u
  <2> QED BY <1>2, AppendProperties
<1>6. l = r
  <2> HIDE DEF l, r, t, u
  <2>1. ASSUME NEW j \in 1 .. Len(l) PROVE l[j] = r[j]
    <3>1. j \in 1 .. Len(t) /\ l[j] = (IF j = Len(t) THEN u ELSE t[j])
      BY <1>4
    <3>2. CASE j = Len(t)
      BY <1>1, <1>5, <3>1, <3>2
    <3>3. CASE j # Len(t)
      <4>1. j \in 1 .. Len(s)
        BY <1>1, <3>1, <3>3
      <4> QED BY <1>1, <1>5, <3>1, <3>3, <4>1
    <3> QED BY <3>2, <3>3
  <2> QED BY <1>1, <1>4, <1>5, <2>1, SeqEqual
<1>7. [t EXCEPT ![Len(t)] = Append(@, c)] = l
  BY <1>1
<1> QED BY <1>6, <1>7

\* A word between two slashes is one component.
LEMMA PartsOfWord ==
  ASSUME NEW p \in Seq(PathChars), NEW a \in Nat, NEW b \in a + 1 .. Len(p),
         a = 0 \/ p[a] = "/", \A k \in a + 1 .. b : p[k] # "/"
  PROVE  Parts(p)[b] = Append(Parts(p)[a], SubSeq(p, a + 1, b))
<1> DEFINE T == {k \in a + 1 .. b : Parts(p)[k] = Append(Parts(p)[a], SubSeq(p, a + 1, k))}
<1>1. /\ Len(p) \in Nat /\ a \in 0 .. Len(p) /\ Parts(p)[a] \in Lists
      /\ \A k \in 1 .. Len(p) : p[k] \in PathChars
  <2>1. Len(p) \in Nat
    BY PartsTypes
  <2> QED BY <2>1, PartsTypes, ElementOfSeq
<1>2. a + 1 \in T
  <2>1. a + 1 \in 1 .. Len(p) /\ (a + 1) - 1 = a /\ p[a + 1] # "/"
    BY <1>1
  <2>2. NextParts(p, a + 1, Parts(p)[a]) = Append(Parts(p)[a], <<p[a + 1]>>)
    BY <2>1 DEF NextParts
  <2>3. SubSeq(p, a + 1, a + 1) = <<p[a + 1]>>
    <3> DEFINE w == SubSeq(p, a + 1, a + 1)
               v == <<p[a + 1]>>
    <3>1. w \in Seq(PathChars) /\ Len(w) = 1 /\ w[1] = p[a + 1]
      <4>1. a + 1 \in Int /\ \A j \in a + 1 .. a + 1 : p[j] \in PathChars
        BY <1>1, <2>1
      <4>2. /\ SubSeq(p, a + 1, a + 1) \in Seq(PathChars)
            /\ Len(SubSeq(p, a + 1, a + 1)) = (a + 1) - (a + 1) + 1
            /\ \A j \in 1 .. (a + 1) - (a + 1) + 1 : SubSeq(p, a + 1, a + 1)[j] = p[(a + 1) + j - 1]
        BY <4>1, SubSeqProperties
      <4> QED BY <4>2
    <3>2. v \in Seq(PathChars) /\ Len(v) = 1 /\ v[1] = p[a + 1]
      BY <1>1, <2>1
    <3> HIDE DEF w, v
    <3>3. \A j \in 1 .. Len(w) : w[j] = v[j]
      BY <3>1, <3>2
    <3>4. w = v
      BY <3>1, <3>2, <3>3, SeqEqual
    <3> QED BY <3>4 DEF w, v
  <2>4. Parts(p)[a + 1] = Append(Parts(p)[a], SubSeq(p, a + 1, a + 1))
    BY <2>1, <2>2, <2>3, PartsTypes
  <2> QED BY <2>4
<1>3. ASSUME NEW k \in (a + 1) + 1 .. b, k - 1 \in T PROVE k \in T
  <2> DEFINE w == SubSeq(p, a + 1, k - 1)
  <2>1. /\ k \in 1 .. Len(p) /\ k # 1 /\ p[k] # "/" /\ p[k - 1] # "/"
        /\ Parts(p)[k - 1] = Append(Parts(p)[a], w)
    BY <1>1, <1>3
  <2>2. w \in Seq(PathChars)
    <3>1. a + 1 \in Int /\ k - 1 \in Int /\ \A j \in a + 1 .. k - 1 : p[j] \in PathChars
      BY <1>1, <2>1
    <3> QED BY <3>1, SubSeqProperties
  <2>3. SubSeq(p, a + 1, k) = Append(w, p[k])
    <3>1. a + 1 \in 1 .. Len(p) /\ k \in a + 1 .. Len(p)
      BY <1>1
    <3>2. SubSeq(p, a + 1, k) = w \o <<p[k]>>
      BY <3>1, SubSeqRecursiveSecond
    <3> QED BY <1>1, <2>1, <2>2, <3>2, AppendIsConcat
  <2>4. NextParts(p, k, Parts(p)[k - 1]) = Append(Parts(p)[a], Append(w, p[k]))
    <3> HIDE DEF w
    <3>1. Parts(p)[a] \in Seq(Seq(PathChars)) /\ p[k] \in PathChars
      BY <1>1, <2>1 DEF Lists
    <3>2. ASSUME NEW s \in Seq(Seq(PathChars)), NEW c \in PathChars
          PROVE  [Append(s, w) EXCEPT ![Len(Append(s, w))] = Append(@, c)] = Append(s, Append(w, c))
      BY <2>2, ExtendLast
    <3> QED BY <2>1, <3>1, <3>2 DEF NextParts
  <2>5. Parts(p)[k] = Append(Parts(p)[a], SubSeq(p, a + 1, k))
    BY <2>1, <2>3, <2>4, PartsTypes
  <2> QED BY <2>5
<1>4. \A k \in a + 1 .. b : k \in T
  <2>1. Inductive(T, a + 1, b)
    BY <1>1, <1>2, <1>3 DEF Inductive
  <2> HIDE DEF T
  <2> QED BY <2>1, RangeInduction
<1> QED BY <1>1, <1>4

\* t begins with all of s.
Extends(t, s) == Len(s) <= Len(t) /\ \A j \in 1 .. Len(s) : t[j] = s[j]

LEMMA NextPartsExtends ==
  ASSUME NEW p \in Seq(PathChars), NEW k \in 1 .. Len(p), NEW old \in Lists, NEW parts \in Lists,
         Extends(parts, old),
         p[k] = "/" \/ k = 1 \/ p[k - 1] = "/" \/ Len(old) < Len(parts)
  PROVE  /\ Extends(NextParts(p, k, parts), old)
         /\ p[k] # "/" => Len(old) < Len(NextParts(p, k, parts))
<1>1. /\ Len(old) \in Nat /\ Len(parts) \in Nat /\ p[k] \in PathChars
      /\ Len(old) <= Len(parts) /\ \A j \in 1 .. Len(old) : parts[j] = old[j]
  BY ElementOfSeq, LenProperties DEF Lists, Extends
<1>2. CASE p[k] = "/"
  BY <1>2 DEF NextParts
<1>3. CASE p[k] # "/" /\ (k = 1 \/ p[k - 1] = "/")
  <2> DEFINE w == <<p[k]>>
  <2>1. w \in Seq(PathChars) /\ NextParts(p, k, parts) = Append(parts, w)
    BY <1>1, <1>3 DEF NextParts
  <2> HIDE DEF w
  <2>2. /\ Len(Append(parts, w)) = Len(parts) + 1
        /\ \A j \in 1 .. Len(parts) : Append(parts, w)[j] = parts[j]
    BY <2>1, AppendProperties DEF Lists
  <2> QED BY <1>1, <2>1, <2>2 DEF Extends
<1>4. CASE p[k] # "/" /\ ~(k = 1 \/ p[k - 1] = "/")
  <2> DEFINE w == Append(parts[Len(parts)], p[k])
             new == [parts EXCEPT ![Len(parts)] = w]
  <2>1. Len(old) < Len(parts)
    BY <1>4
  <2>2. Len(parts) \in 1 .. Len(parts)
    BY <1>1, <2>1
  <2>3. w \in Seq(PathChars)
    <3>1. parts[Len(parts)] \in Seq(PathChars)
      BY <2>2, ElementOfSeq DEF Lists
    <3> QED BY <1>1, <3>1, AppendProperties
  <2>4. NextParts(p, k, parts) = new
    BY <1>4 DEF NextParts
  <2>5. /\ Len(new) = Len(parts)
        /\ \A j \in 1 .. Len(parts) : new[j] = IF j = Len(parts) THEN w ELSE parts[j]
    <3> HIDE DEF w
    <3> QED BY <2>2, <2>3, ExceptSeq DEF Lists
  <2> HIDE DEF w, new
  <2>6. ASSUME NEW j \in 1 .. Len(old) PROVE new[j] = old[j]
    <3>1. j \in 1 .. Len(parts) /\ j # Len(parts)
      BY <1>1, <2>1
    <3> QED BY <1>1, <2>5, <3>1
  <2> QED BY <1>1, <2>1, <2>4, <2>5, <2>6 DEF Extends
<1> QED BY <1>2, <1>3, <1>4

\* The components up to the end of a word stay when the rest is read.
LEMMA PartsStay ==
  ASSUME NEW p \in Seq(PathChars), NEW e \in 0 .. Len(p), e = Len(p) \/ p[e + 1] = "/"
  PROVE  Extends(Components(p), Parts(p)[e])
<1> DEFINE old == Parts(p)[e]
           Longer(b) == b > e /\ p[b] # "/" => Len(old) < Len(Parts(p)[b])
           T == {b \in e .. Len(p) : Extends(Parts(p)[b], old) /\ Longer(b)}
<1>1. Len(p) \in Nat /\ old \in Lists /\ Len(old) \in Nat
  BY PartsTypes, LenProperties DEF Lists
<1>2. e \in T
  BY <1>1 DEF Extends
<1>3. ASSUME NEW b \in e + 1 .. Len(p), b - 1 \in T PROVE b \in T
  <2> DEFINE parts == Parts(p)[b - 1]
  <2>1. b \in 1 .. Len(p) /\ parts \in Lists /\ Extends(parts, old) /\ Longer(b - 1)
    <3>1. b - 1 \in 0 .. Len(p)
      BY <1>1
    <3> QED BY <1>1, <1>3, <3>1, PartsTypes
  <2>2. p[b] = "/" \/ b = 1 \/ p[b - 1] = "/" \/ Len(old) < Len(parts)
    <3>1. CASE b = e + 1
      BY <1>1, <3>1
    <3>2. CASE b # e + 1
      BY <2>1, <3>2
    <3> QED BY <3>1, <3>2
  <2>3. Parts(p)[b] = NextParts(p, b, parts)
    BY <2>1, PartsTypes
  <2>4. Extends(Parts(p)[b], old) /\ (p[b] # "/" => Len(old) < Len(Parts(p)[b]))
    <3> HIDE DEF parts, old
    <3> QED BY <1>1, <2>1, <2>2, <2>3, NextPartsExtends
  <2> QED BY <2>4
<1>4. \A b \in e .. Len(p) : b \in T
  <2>1. Inductive(T, e, Len(p))
    BY <1>2, <1>3 DEF Inductive
  <2> HIDE DEF T
  <2> QED BY <1>1, <2>1, RangeInduction
<1> QED BY <1>1, <1>4, PartsTypes

-----------------------------------------------------------------------------
(* Where the components lead. *)

LEMMA OutsideType == Outside \in Lists
BY EmptySeq DEF Outside, Lists

LEMMA FrontProperties ==
  ASSUME NEW S, NEW s \in Seq(S), s # <<>>
  PROVE  /\ Front(s) \in Seq(S) /\ Len(Front(s)) = Len(s) - 1
         /\ \A j \in 1 .. Len(s) - 1 : Front(s)[j] = s[j]
<1>1. Len(s) \in Nat \ {0} /\ \A j \in 1 .. Len(s) - 1 : s[j] \in S
  BY EmptySeq, ElementOfSeq
<1>2. /\ SubSeq(s, 1, Len(s) - 1) \in Seq(S)
      /\ Len(SubSeq(s, 1, Len(s) - 1)) = IF 1 <= Len(s) - 1 THEN Len(s) - 1 - 1 + 1 ELSE 0
      /\ \A j \in 1 .. Len(s) - 1 - 1 + 1 : SubSeq(s, 1, Len(s) - 1)[j] = s[1 + j - 1]
  <2>1. 1 \in Int /\ Len(s) - 1 \in Int
    BY <1>1
  <2> QED BY <1>1, <2>1, SubSeqProperties
<1>3. Len(SubSeq(s, 1, Len(s) - 1)) = Len(s) - 1
  <2>1. \A m \in Nat \ {0} : (IF 1 <= m - 1 THEN m - 1 - 1 + 1 ELSE 0) = m - 1
    OBVIOUS
  <2> QED BY <1>1, <1>2, <2>1, Zenon
<1>4. ASSUME NEW j \in 1 .. Len(s) - 1 PROVE SubSeq(s, 1, Len(s) - 1)[j] = s[j]
  <2>1. j \in 1 .. Len(s) - 1 - 1 + 1 /\ 1 + j - 1 = j
    BY <1>1
  <2> QED BY <1>2, <2>1
<1> QED BY <1>2, <1>3, <1>4 DEF Front

LEMMA EnteredType ==
  ASSUME NEW dirs \in Lists, NEW c \in Seq(PathChars)
  PROVE  Entered(dirs, c) \in Lists
BY OutsideType, FrontProperties, AppendProperties DEF Entered, Lists

LEMMA WalkTable ==
  ASSUME NEW cs \in Lists
  PROVE  /\ Walk(cs) \in [0 .. Len(cs) -> Lists]
         /\ Walk(cs)[0] = <<>>
         /\ \A k \in 1 .. Len(cs) : Walk(cs)[k] = Entered(Walk(cs)[k - 1], cs[k])
<1> DEFINE Row(f, k) == IF k = 0 THEN <<>> ELSE Entered(f[k - 1], cs[k])
<1>1. PICK step \in [1 .. Len(cs) -> [Lists -> Lists]] :
        \A k \in 1 .. Len(cs) : \A dirs \in Lists : step[k][dirs] = Entered(dirs, cs[k])
  <2> DEFINE s == [k \in 1 .. Len(cs) |-> [dirs \in Lists |-> Entered(dirs, cs[k])]]
  <2>0. \A k \in 1 .. Len(cs) : cs[k] \in Seq(PathChars)
    BY ElementOfSeq DEF Lists
  <2>1. s \in [1 .. Len(cs) -> [Lists -> Lists]]
    BY <2>0, EnteredType
  <2>2. \A k \in 1 .. Len(cs) : \A dirs \in Lists : s[k][dirs] = Entered(dirs, cs[k])
    OBVIOUS
  <2> HIDE DEF s
  <2> QED BY <2>1, <2>2
<1>2. <<>> \in Lists /\ Len(cs) \in Nat
  BY LenProperties DEF Lists
<1>3. PICK f \in [0 .. Len(cs) -> Lists] :
        f[0] = <<>> /\ \A k \in 1 .. Len(cs) : f[k] = step[k][f[k - 1]]
  <2>1. RowFunction(step, Len(cs), Lists)
    BY <1>1 DEF RowFunction
  <2>2. FillsTable(step, Len(cs), Lists, <<>>)
    BY <1>2, <2>1, TableExists
  <2> QED BY <2>2 DEF FillsTable
<1>4. ASSUME NEW k \in 1 .. Len(cs) PROVE f[k] = Entered(f[k - 1], cs[k])
  <2>1. k - 1 \in 0 .. Len(cs) /\ f[k - 1] \in Lists
    BY <1>2, <1>3
  <2> QED BY <1>1, <1>3, <2>1
<1>5. f = [k \in 0 .. Len(cs) |-> Row(f, k)]
  BY <1>2, <1>3, <1>4
<1>6. Walk(cs) = [k \in 0 .. Len(cs) |-> Row(Walk(cs), k)]
  <2> DEFINE Fixed(g) == g = [k \in 0 .. Len(cs) |-> Row(g, k)]
  <2>1. Fixed(f)
    BY <1>5
  <2>2. Walk(cs) = CHOOSE g : Fixed(g)
    BY DEF Walk
  <2> HIDE DEF Fixed
  <2>3. Fixed(Walk(cs))
    BY <2>1, <2>2
  <2> QED BY <2>3 DEF Fixed
<1>7. /\ Walk(cs)[0] = <<>>
      /\ \A k \in 1 .. Len(cs) : Walk(cs)[k] = Entered(Walk(cs)[k - 1], cs[k])
  BY <1>2, <1>6
<1>8. \A k \in 0 .. Len(cs) : Walk(cs)[k] \in Lists
  <2> DEFINE T == {k \in 0 .. Len(cs) : Walk(cs)[k] \in Lists}
  <2>1. 0 \in T
    BY <1>2, <1>7
  <2>2. ASSUME NEW k \in 1 .. Len(cs), k - 1 \in T PROVE k \in T
    <3>1. cs[k] \in Seq(PathChars)
      BY ElementOfSeq DEF Lists
    <3>2. Entered(Walk(cs)[k - 1], cs[k]) \in Lists
      BY <2>2, <3>1, EnteredType
    <3> QED BY <1>2, <1>7, <3>2
  <2>3. Inductive(T, 0, Len(cs))
    BY <2>1, <2>2 DEF Inductive
  <2>4. \A k \in 0 .. Len(cs) : k \in T
    <3> HIDE DEF T
    <3> QED BY <1>2, <2>3, RangeInduction
  <2> QED BY <2>4
<1>9. Walk(cs) \in [0 .. Len(cs) -> Lists]
  <2> DEFINE table == Walk(cs)
  <2>1. table = [k \in 0 .. Len(cs) |-> table[k]]
    BY <1>6
  <2>2. \A k \in 0 .. Len(cs) : table[k] \in Lists
    BY <1>8
  <2> HIDE DEF table
  <2>3. table \in [0 .. Len(cs) -> Lists]
    BY <2>1, <2>2
  <2> QED BY <2>3 DEF table
<1> QED BY <1>7, <1>9

LEMMA WalkTypes ==
  ASSUME NEW cs \in Lists
  PROVE  /\ Len(cs) \in Nat
         /\ \A k \in 0 .. Len(cs) : Walk(cs)[k] \in Lists
         /\ \A k \in 1 .. Len(cs) : Walk(cs)[k] = Entered(Walk(cs)[k - 1], cs[k])
         /\ Meaning(cs) = Walk(cs)[Len(cs)] /\ Meaning(cs) \in Lists
<1>1. Len(cs) \in Nat
  BY LenProperties DEF Lists
<1> QED BY <1>1, WalkTable DEF Meaning

LEMMA WalkOfPrefix ==
  ASSUME NEW cs \in Lists, NEW ds \in Lists, NEW m \in Nat, m <= Len(cs), m <= Len(ds),
         \A k \in 1 .. m : cs[k] = ds[k]
  PROVE  Walk(cs)[m] = Walk(ds)[m]
<1> DEFINE T == {k \in 0 .. m : Walk(cs)[k] = Walk(ds)[k]}
<1>1. 0 \in T /\ Len(cs) \in Nat /\ Len(ds) \in Nat
  BY WalkTable, WalkTypes
<1>2. ASSUME NEW k \in 1 .. m, k - 1 \in T PROVE k \in T
  <2>1. k \in 1 .. Len(cs) /\ k \in 1 .. Len(ds) /\ cs[k] = ds[k] /\ Walk(cs)[k - 1] = Walk(ds)[k - 1]
    BY <1>1, <1>2
  <2>2. Walk(cs)[k] = Walk(ds)[k]
    BY <2>1, WalkTypes
  <2> QED BY <2>2
<1>3. \A k \in 0 .. m : k \in T
  <2>1. Inductive(T, 0, m)
    BY <1>1, <1>2 DEF Inductive
  <2> HIDE DEF T
  <2> QED BY <2>1, RangeInduction
<1> QED BY <1>3

\* One more component is one more step.
LEMMA MeaningOfAppend ==
  ASSUME NEW cs \in Lists, NEW c \in Seq(PathChars)
  PROVE  /\ Append(cs, c) \in Lists
         /\ Meaning(Append(cs, c)) = Entered(Meaning(cs), c)
<1> DEFINE ds == Append(cs, c)
<1>1. /\ ds \in Lists /\ Len(ds) = Len(cs) + 1 /\ Len(cs) \in Nat
      /\ \A j \in 1 .. Len(cs) : ds[j] = cs[j]
      /\ ds[Len(cs) + 1] = c
  BY AppendProperties, LenProperties DEF Lists
<1> HIDE DEF ds
<1>2. Walk(ds)[Len(cs)] = Walk(cs)[Len(cs)]
  BY <1>1, WalkOfPrefix
<1>3. Walk(ds)[Len(ds)] = Entered(Walk(ds)[Len(cs)], c)
  <2>1. Len(ds) \in 1 .. Len(ds) /\ Len(ds) - 1 = Len(cs)
    BY <1>1
  <2> QED BY <1>1, <2>1, WalkTypes
<1>4. Meaning(ds) = Entered(Meaning(cs), c)
  BY <1>1, <1>2, <1>3, WalkTypes
<1> QED BY <1>1, <1>4 DEF ds

\* There is no way back from outside.
LEMMA OutsideStays ==
  ASSUME NEW cs \in Lists, NEW ds \in Lists, Extends(ds, cs), Meaning(cs) = Outside
  PROVE  Meaning(ds) = Outside
<1> DEFINE T == {k \in Len(cs) .. Len(ds) : Walk(ds)[k] = Outside}
<1>1. /\ Len(cs) \in Nat /\ Len(ds) \in Nat /\ Len(cs) <= Len(ds)
      /\ \A j \in 1 .. Len(cs) : cs[j] = ds[j]
  BY WalkTypes DEF Extends
<1>2. Len(cs) \in T
  <2>1. Walk(cs)[Len(cs)] = Walk(ds)[Len(cs)]
    BY <1>1, WalkOfPrefix
  <2> QED BY <1>1, <2>1, WalkTypes
<1>3. ASSUME NEW k \in Len(cs) + 1 .. Len(ds), k - 1 \in T PROVE k \in T
  <2>1. k \in 1 .. Len(ds) /\ Walk(ds)[k - 1] = Outside
    BY <1>1, <1>3
  <2>2. Walk(ds)[k] = Entered(Outside, ds[k])
    BY <2>1, WalkTypes
  <2>3. Walk(ds)[k] = Outside
    BY <2>2 DEF Entered
  <2> QED BY <2>3
<1>4. \A k \in Len(cs) .. Len(ds) : k \in T
  <2>1. Inductive(T, Len(cs), Len(ds))
    BY <1>2, <1>3 DEF Inductive
  <2> HIDE DEF T
  <2> QED BY <1>1, <2>1, RangeInduction
<1>5. Walk(ds)[Len(ds)] = Outside
  BY <1>1, <1>4
<1> QED BY <1>5, WalkTypes

-----------------------------------------------------------------------------
(* buf. *)

\* buf is empty or a list of names, each with one slash in front of it.
Tidy(buf) ==
  /\ buf \in Seq(PathChars)
  /\ buf # <<>> => buf[1] = "/" /\ buf[Len(buf)] # "/"
  /\ \A k \in 1 .. Len(buf) - 1 : buf[k] = "/" => buf[k + 1] # "/"

LEMMA NatMaximum ==
  ASSUME NEW b \in Nat, NEW T \in SUBSET (1 .. b), T # {}
  PROVE  Max(T) \in T /\ \A y \in T : y <= Max(T)
<1> DEFINE below == {m \in Nat : b - m \in T}
<1>1. below \in SUBSET Nat /\ below # {}
  <2>1. PICK y \in T : TRUE
    OBVIOUS
  <2>2. b - y \in Nat /\ b - (b - y) = y
    BY <2>1
  <2> QED BY <2>1, <2>2
<1>2. PICK m \in below : \A j \in below : m <= j
  <2> HIDE DEF below
  <2> QED BY <1>1, NatMinimum
<1>3. ASSUME NEW y \in T PROVE b - m >= y
  <2>1. b - y \in Nat /\ b - (b - y) = y
    OBVIOUS
  <2>2. b - y \in below
    BY <2>1
  <2>3. m <= b - y /\ m \in Nat
    BY <1>2, <2>2
  <2> QED BY <2>3
<1>4. b - m \in T
  BY <1>2
<1>5. \E x \in T : \A y \in T : x >= y
  BY <1>3, <1>4
<1>6. Max(T) \in T /\ \A y \in T : Max(T) >= y
  BY <1>5 DEF Max
<1> QED BY <1>6

\* A slash at the end adds no component.
LEMMA SlashAdded ==
  ASSUME NEW buf \in Seq(PathChars)
  PROVE  /\ Append(buf, "/") \in Seq(PathChars)
         /\ Components(Append(buf, "/")) = Components(buf)
<1> DEFINE t == Append(buf, "/")
<1>1. /\ t \in Seq(PathChars) /\ Len(t) = Len(buf) + 1 /\ Len(buf) \in Nat
      /\ \A j \in 1 .. Len(buf) : t[j] = buf[j]
      /\ t[Len(buf) + 1] = "/"
  BY AppendProperties, LenProperties DEF PathChars
<1> HIDE DEF t
<1>2. Parts(t)[Len(buf)] = Parts(buf)[Len(buf)]
  BY <1>1, PartsOfPrefix
<1>3. Parts(t)[Len(t)] = Parts(t)[Len(buf)]
  <2>1. Len(t) \in Len(buf) .. Len(t) /\ \A k \in Len(buf) + 1 .. Len(t) : t[k] = "/"
    BY <1>1
  <2> QED BY <1>1, <2>1, PartsOfSlashes
<1> QED BY <1>1, <1>2, <1>3, PartsTypes DEF t

\* A slash and a name add the name.
LEMMA NameAdded ==
  ASSUME NEW buf, Tidy(buf), NEW w \in Seq(PathChars), w # <<>>,
         \A j \in 1 .. Len(w) : w[j] # "/"
  PROVE  /\ Tidy(Append(buf, "/") \o w)
         /\ Components(Append(buf, "/") \o w) = Append(Components(buf), w)
         /\ Len(Append(buf, "/") \o w) = Len(buf) + 1 + Len(w)
<1> DEFINE t == Append(buf, "/")
           new == t \o w
           b == Len(buf)
<1>1. /\ buf \in Seq(PathChars) /\ b \in Nat /\ Len(w) \in Nat \ {0}
      /\ \A k \in 1 .. b - 1 : buf[k] = "/" => buf[k + 1] # "/"
      /\ buf # <<>> => buf[1] = "/" /\ buf[b] # "/"
  BY EmptySeq, LenProperties DEF Tidy
<1>2. /\ t \in Seq(PathChars) /\ Len(t) = b + 1
      /\ \A j \in 1 .. b : t[j] = buf[j]
      /\ t[b + 1] = "/"
  BY <1>1, AppendProperties DEF PathChars
<1> HIDE DEF t
<1>3. /\ new \in Seq(PathChars) /\ Len(new) = b + 1 + Len(w)
      /\ \A j \in 1 .. b + 1 + Len(w) : new[j] = IF j <= b + 1 THEN t[j] ELSE w[j - (b + 1)]
  <2>1. /\ new \in Seq(PathChars) /\ Len(new) = Len(t) + Len(w)
        /\ \A j \in 1 .. Len(t) + Len(w) : new[j] = IF j <= Len(t) THEN t[j] ELSE w[j - Len(t)]
    BY <1>2, ConcatProperties
  <2> QED BY <1>2, <2>1
<1> HIDE DEF new
<1>4. ASSUME NEW j \in 1 .. b + 1 PROVE new[j] = t[j]
  BY <1>1, <1>3
<1>5. ASSUME NEW j \in 1 .. Len(w) PROVE new[b + 1 + j] = w[j] /\ w[j] # "/"
  <2>1. b + 1 + j \in 1 .. b + 1 + Len(w) /\ ~(b + 1 + j <= b + 1) /\ b + 1 + j - (b + 1) = j
    BY <1>1
  <2> QED BY <1>3, <2>1
<1>6. \A k \in b + 2 .. Len(new) : new[k] # "/"
  <2>1. ASSUME NEW k \in b + 2 .. Len(new) PROVE new[k] # "/"
    <3>1. k - (b + 1) \in 1 .. Len(w) /\ b + 1 + (k - (b + 1)) = k
      BY <1>1, <1>3
    <3> QED BY <1>5, <3>1
  <2> QED BY <2>1
<1>7. Parts(new)[b + 1] = Components(buf)
  <2>1. Parts(new)[b + 1] = Parts(t)[b + 1]
    BY <1>1, <1>2, <1>3, <1>4, PartsOfPrefix
  <2>2. Components(t) = Components(buf)
    BY <1>1, SlashAdded DEF t
  <2> QED BY <1>2, <2>1, <2>2, PartsTypes
<1>8. SubSeq(new, b + 2, Len(new)) = w
  <2> DEFINE v == SubSeq(new, b + 2, Len(new))
  <2>1. b + 2 \in Int /\ Len(new) \in Int /\ \A j \in b + 2 .. Len(new) : new[j] \in PathChars
    BY <1>1, <1>3, ElementOfSeq
  <2>2. /\ v \in Seq(PathChars) /\ Len(v) = (IF b + 2 <= Len(new) THEN Len(new) - (b + 2) + 1 ELSE 0)
        /\ \A j \in 1 .. Len(new) - (b + 2) + 1 : v[j] = new[b + 2 + j - 1]
    BY <2>1, SubSeqProperties
  <2> HIDE DEF v
  <2>3. b + 2 <= Len(new) /\ Len(new) - (b + 2) + 1 = Len(w)
    BY <1>1, <1>3
  <2>4. Len(v) = Len(w)
    BY <2>2, <2>3
  <2>5. ASSUME NEW j \in 1 .. Len(v) PROVE v[j] = w[j]
    <3>1. j \in 1 .. Len(new) - (b + 2) + 1 /\ b + 2 + j - 1 = b + 1 + j /\ j \in 1 .. Len(w)
      BY <1>1, <2>3, <2>4
    <3> QED BY <1>5, <2>2, <3>1
  <2>6. v = w
    BY <2>2, <2>4, <2>5, SeqEqual
  <2> QED BY <2>6 DEF v
<1>9. Components(new) = Append(Components(buf), w)
  <2>1. Len(new) \in (b + 1) + 1 .. Len(new) /\ new[b + 1] = "/" /\ b + 1 \in Nat /\ (b + 1) + 1 = b + 2
    BY <1>1, <1>2, <1>3, <1>4
  <2>2. Parts(new)[Len(new)] = Append(Parts(new)[b + 1], SubSeq(new, (b + 1) + 1, Len(new)))
    BY <1>3, <1>6, <2>1, PartsOfWord
  <2> QED BY <1>3, <1>7, <1>8, <2>1, <2>2, PartsTypes
<1>10. Tidy(new)
  <2>1. new # <<>> => new[1] = "/" /\ new[Len(new)] # "/"
    <3>1. new[1] = "/"
      <4>1. new[1] = t[1]
        BY <1>1, <1>4
      <4>2. CASE b = 0
        BY <1>2, <4>1, <4>2
      <4>3. CASE b # 0
        <5>1. buf # <<>> /\ 1 \in 1 .. b
          BY <1>1, <4>3, EmptySeq
        <5> QED BY <1>1, <1>2, <4>1, <5>1
      <4> QED BY <4>2, <4>3
    <3>2. Len(new) \in b + 2 .. Len(new)
      BY <1>1, <1>3
    <3> QED BY <1>6, <3>1, <3>2
  <2>2. ASSUME NEW k \in 1 .. Len(new) - 1, new[k] = "/" PROVE new[k + 1] # "/"
    <3>1. CASE k >= b + 1
      <4>1. k + 1 \in b + 2 .. Len(new)
        BY <1>1, <1>3, <3>1
      <4> QED BY <1>6, <4>1
    <3>2. CASE k = b
      <4>1. k \in 1 .. b /\ k \in 1 .. b + 1
        BY <1>1, <3>2
      <4>2. buf # <<>> /\ buf[b] = new[b]
        BY <1>1, <1>2, <1>4, <3>2, <4>1, EmptySeq
      <4> QED BY <1>1, <2>2, <3>2, <4>2
    <3>3. CASE k < b
      <4>1. k \in 1 .. b - 1 /\ k \in 1 .. b /\ k \in 1 .. b + 1 /\ k + 1 \in 1 .. b /\ k + 1 \in 1 .. b + 1
        BY <1>1, <3>3
      <4>2. new[k] = buf[k] /\ new[k + 1] = buf[k + 1]
        BY <1>2, <1>4, <4>1
      <4> QED BY <1>1, <2>2, <4>1, <4>2
    <3> QED BY <1>1, <3>1, <3>2, <3>3
  <2> QED BY <1>3, <2>1, <2>2 DEF Tidy
<1> QED BY <1>3, <1>9, <1>10 DEF new, t

LEMMA FrontOfAppend ==
  ASSUME NEW S, NEW s \in Seq(S), NEW e \in S
  PROVE  Front(Append(s, e)) = s
<1> DEFINE t == Append(s, e)
<1>1. /\ t \in Seq(S) /\ t # <<>> /\ Len(t) = Len(s) + 1 /\ Len(s) \in Nat
      /\ \A j \in 1 .. Len(s) : t[j] = s[j]
  BY AppendProperties, LenProperties
<1> HIDE DEF t
<1>2. /\ Front(t) \in Seq(S) /\ Len(Front(t)) = Len(t) - 1
      /\ \A j \in 1 .. Len(t) - 1 : Front(t)[j] = t[j]
  BY <1>1, FrontProperties
<1>3. Len(Front(t)) = Len(s) /\ \A j \in 1 .. Len(Front(t)) : Front(t)[j] = s[j]
  BY <1>1, <1>2
<1>4. Front(t) = s
  <2> DEFINE u == Front(t)
  <2>1. u \in Seq(S) /\ Len(u) = Len(s) /\ \A j \in 1 .. Len(u) : u[j] = s[j]
    BY <1>2, <1>3
  <2> HIDE DEF u
  <2>2. u = s
    BY <2>1, SeqEqual
  <2> QED BY <2>2 DEF u
<1> QED BY <1>4 DEF t

\* Cutting buf at its last slash takes the last name away.
LEMMA NameDropped ==
  ASSUME NEW buf, Tidy(buf), buf # <<>>
  PROVE  /\ Tidy(DropLast(buf))
         /\ Components(buf) # <<>> /\ Components(DropLast(buf)) = Front(Components(buf))
         /\ Len(DropLast(buf)) < Len(buf)
<1> DEFINE b == Len(buf)
           slashes == {k \in DOMAIN buf : buf[k] = "/"}
           m == Max(slashes)
           new == SubSeq(buf, 1, m - 1)
<1>1. /\ buf \in Seq(PathChars) /\ b \in Nat \ {0} /\ DOMAIN buf = 1 .. b
      /\ buf[1] = "/" /\ buf[b] # "/"
      /\ \A k \in 1 .. b - 1 : buf[k] = "/" => buf[k + 1] # "/"
  BY EmptySeq, LenProperties DEF Tidy
<1>2. m \in slashes /\ \A k \in slashes : k <= m
  <2>1. 1 \in slashes /\ slashes \in SUBSET (1 .. b) /\ b \in Nat
    BY <1>1
  <2> HIDE DEF slashes, b
  <2> QED BY <2>1, NatMaximum
<1>3. m \in 1 .. b /\ buf[m] = "/" /\ m < b
  <2>1. m \in 1 .. b /\ buf[m] = "/"
    BY <1>1, <1>2
  <2> QED BY <1>1, <2>1
<1>4. ASSUME NEW k \in m + 1 .. b PROVE buf[k] # "/"
  <2>1. k \in 1 .. b /\ ~(k <= m)
    BY <1>1, <1>3
  <2> QED BY <1>1, <1>2, <2>1
<1> HIDE DEF m
<1>5. /\ new \in Seq(PathChars) /\ Len(new) = m - 1
      /\ \A j \in 1 .. m - 1 : new[j] = buf[j]
  <2>1. 1 \in Int /\ m - 1 \in Int /\ \A j \in 1 .. m - 1 : buf[j] \in PathChars
    BY <1>1, <1>3, ElementOfSeq
  <2>2. /\ new \in Seq(PathChars) /\ Len(new) = (IF 1 <= m - 1 THEN m - 1 - 1 + 1 ELSE 0)
        /\ \A j \in 1 .. m - 1 - 1 + 1 : new[j] = buf[1 + j - 1]
    BY <2>1, SubSeqProperties
  <2> HIDE DEF new
  <2>3. Len(new) = m - 1
    BY <1>3, <2>2
  <2>4. ASSUME NEW j \in 1 .. m - 1 PROVE new[j] = buf[j]
    <3>1. j \in 1 .. m - 1 - 1 + 1 /\ 1 + j - 1 = j
      BY <1>3
    <3> QED BY <2>2, <3>1
  <2> QED BY <2>2, <2>3, <2>4
<1> HIDE DEF new
<1>6. Components(new) \in Lists /\ Components(new) = Parts(buf)[m]
  <2>1. m - 1 \in Nat /\ m - 1 <= Len(new) /\ m - 1 <= b /\ \A j \in 1 .. m - 1 : new[j] = buf[j]
    BY <1>1, <1>3, <1>5
  <2>2. Parts(new)[m - 1] = Parts(buf)[m - 1]
    BY <1>1, <1>5, <2>1, PartsOfPrefix
  <2>3. Parts(buf)[m] = Parts(buf)[m - 1]
    <3>1. m \in m - 1 .. b /\ \A k \in (m - 1) + 1 .. m : buf[k] = "/"
      BY <1>1, <1>3
    <3> QED BY <1>1, <2>1, <3>1, PartsOfSlashes
  <2> QED BY <1>5, <2>2, <2>3, PartsTypes
<1>7. /\ SubSeq(buf, m + 1, b) \in Seq(PathChars)
      /\ Components(buf) = Append(Components(new), SubSeq(buf, m + 1, b))
  <2>1. m \in Nat /\ b \in m + 1 .. b /\ m + 1 \in Int /\ b \in Int
        /\ \A j \in m + 1 .. b : buf[j] \in PathChars
    BY <1>1, <1>3, ElementOfSeq
  <2>2. Parts(buf)[b] = Append(Parts(buf)[m], SubSeq(buf, m + 1, b))
    BY <1>1, <1>3, <1>4, <2>1, PartsOfWord
  <2>3. SubSeq(buf, m + 1, b) \in Seq(PathChars)
    BY <2>1, SubSeqProperties
  <2> QED BY <1>1, <1>6, <2>2, <2>3, PartsTypes
<1>8. Components(buf) # <<>> /\ Front(Components(buf)) = Components(new)
  <2>1. ASSUME NEW cs \in Lists, NEW w \in Seq(PathChars)
        PROVE  Append(cs, w) # <<>> /\ Front(Append(cs, w)) = cs
    BY FrontOfAppend, AppendProperties DEF Lists
  <2> QED BY <1>6, <1>7, <2>1
<1>9. Tidy(new)
  <2>1. CASE m = 1
    <3>1. Len(new) = 0
      BY <1>5, <2>1
    <3>2. new = <<>> /\ \A k \in 1 .. Len(new) - 1 : FALSE
      BY <1>5, <3>1, EmptySeq
    <3> QED BY <1>5, <3>2 DEF Tidy
  <2>2. CASE m # 1
    <3>1. m - 1 \in 1 .. m - 1 /\ 1 \in 1 .. m - 1 /\ m - 1 \in 1 .. b - 1 /\ (m - 1) + 1 = m
      BY <1>1, <1>3, <2>2
    <3>2. new[1] = "/" /\ new[Len(new)] # "/"
      BY <1>1, <1>3, <1>5, <3>1
    <3>3. ASSUME NEW k \in 1 .. Len(new) - 1, new[k] = "/" PROVE new[k + 1] # "/"
      <4>1. k \in 1 .. m - 1 /\ k + 1 \in 1 .. m - 1 /\ k \in 1 .. b - 1
        BY <1>1, <1>3, <1>5
      <4> QED BY <1>1, <1>5, <3>3, <4>1
    <3> QED BY <1>5, <3>2, <3>3 DEF Tidy
  <2> QED BY <2>1, <2>2
<1>10. Len(new) < b
  BY <1>1, <1>3, <1>5
<1>11. DropLast(buf) = new
  BY DEF DropLast, new, m
<1> QED BY <1>8, <1>9, <1>10, <1>11

-----------------------------------------------------------------------------
(* One iteration. *)

LEMMA LeastIs ==
  ASSUME NEW T \in SUBSET Nat, T # {}
  PROVE  Min(T) \in T /\ \A y \in T : Min(T) <= y
<1>1. \E x \in T : \A y \in T : x <= y
  BY NatMinimum
<1> QED BY <1>1 DEF Min

\* A character of the path is not End.
LEMMA PathCharacters ==
  ASSUME in.path \in Seq(Chars)
  PROVE  /\ in.path \in Seq(PathChars) /\ Len(in.path) \in Nat
         /\ \A k \in 1 .. Len(in.path) :
              in.path[k] \in PathChars /\ in.path[k] # End /\ CharAt(in.path, k) = in.path[k]
         /\ CharAt(in.path, Len(in.path) + 1) = End
<1>1. in.path \in Seq(PathChars) /\ Len(in.path) \in Nat
  BY SeqMonotonic, LenProperties DEF PathChars
<1>2. ASSUME NEW k \in 1 .. Len(in.path)
      PROVE  in.path[k] \in PathChars /\ in.path[k] # End /\ CharAt(in.path, k) = in.path[k]
  <2>1. in.path[k] \in Chars
    BY ElementOfSeq
  <2> QED BY <1>1, <2>1, TextInputs DEF CharAt, PathChars
<1> QED BY <1>1, <1>2 DEF CharAt

\* start is the first character from k on that is not a slash.
LEMMA SlashesSkipped ==
  ASSUME in.path \in Seq(Chars), NEW k \in 1 .. Len(in.path) + 1
  PROVE  /\ SkipSlashes(k) \in k .. Len(in.path) + 1
         /\ \A j \in k .. SkipSlashes(k) - 1 : in.path[j] = "/"
         /\ SkipSlashes(k) <= Len(in.path) => in.path[SkipSlashes(k)] # "/"
<1> DEFINE T == {j \in k .. Len(in.path) + 1 : CharAt(in.path, j) # "/"}
           s == SkipSlashes(k)
<1>1. s = Min(T)
  BY DEF SkipSlashes, FirstFrom
<1>2. Len(in.path) \in Nat /\ k \in Nat
  BY PathCharacters
<1>3. T \in SUBSET Nat /\ T # {}
  <2>1. Len(in.path) + 1 \in T
    BY <1>2, PathCharacters DEF End
  <2> QED BY <1>2, <2>1
<1>4. s \in T /\ \A j \in T : s <= j
  <2> HIDE DEF T, s
  <2> QED BY <1>1, <1>3, LeastIs
<1> HIDE DEF s
<1>5. ASSUME NEW j \in k .. s - 1 PROVE in.path[j] = "/"
  <2>1. j \in 1 .. Len(in.path) /\ j \in k .. Len(in.path) + 1 /\ ~(s <= j)
    BY <1>2, <1>4
  <2> QED BY <1>4, <2>1, PathCharacters
<1>6. s <= Len(in.path) => in.path[s] # "/"
  BY <1>2, <1>4, PathCharacters
<1> QED BY <1>4, <1>5, <1>6 DEF s

\* stop is the first character from k on that is a slash, or the end.
LEMMA ComponentEnds ==
  ASSUME in.path \in Seq(Chars), NEW k \in 1 .. Len(in.path) + 1
  PROVE  /\ ComponentEnd(k) \in k .. Len(in.path) + 1
         /\ \A j \in k .. ComponentEnd(k) - 1 : in.path[j] # "/"
         /\ ComponentEnd(k) <= Len(in.path) => in.path[ComponentEnd(k)] = "/"
<1> DEFINE T == {j \in k .. Len(in.path) + 1 : CharAt(in.path, j) \in {"/", End}}
           s == ComponentEnd(k)
<1>1. s = Min(T)
  BY DEF ComponentEnd, FirstFrom
<1>2. Len(in.path) \in Nat /\ k \in Nat
  BY PathCharacters
<1>3. T \in SUBSET Nat /\ T # {}
  <2>1. Len(in.path) + 1 \in T
    BY <1>2, PathCharacters
  <2> QED BY <1>2, <2>1
<1>4. s \in T /\ \A j \in T : s <= j
  <2> HIDE DEF T, s
  <2> QED BY <1>1, <1>3, LeastIs
<1> HIDE DEF s
<1>5. ASSUME NEW j \in k .. s - 1 PROVE in.path[j] # "/"
  <2>1. j \in 1 .. Len(in.path) /\ j \in k .. Len(in.path) + 1 /\ ~(s <= j)
    BY <1>2, <1>4
  <2> QED BY <1>4, <2>1, PathCharacters
<1>6. s <= Len(in.path) => in.path[s] = "/"
  <2>1. s <= Len(in.path) => s \in 1 .. Len(in.path)
    BY <1>2, <1>4
  <2> QED BY <1>4, <2>1, PathCharacters
<1> QED BY <1>4, <1>5, <1>6 DEF s

\* Between two iterations i is at the front of a component, or at the end, and
\* buf names the directories that the characters before i mean.
Scanning ==
  /\ i \in 1 .. Len(in.path) + 1
  /\ i = 1 => out = <<>>
  /\ i # 1 /\ i <= Len(in.path) => in.path[i] = "/"
  /\ Tidy(out)
  /\ Components(out) = Meaning(Parts(in.path)[i - 1])
  /\ \A k \in 1 .. Len(Components(out)) : Components(out)[k] # <<>>
  /\ n = Len(Components(out))
  /\ Len(out) <= i /\ Len(out) < in.buflen

NormalInv ==
  job = "normalize" =>
    /\ in \in Normals
    /\ ~Done => Scanning
    /\ Done => NormalizeRight

\* The component that this iteration reads.
Start == SkipSlashes(i)
Stop == ComponentEnd(Start)
Component == SubSeq(in.path, Start, Stop - 1)

LEMMA StartIs ==
  ASSUME in.path \in Seq(Chars), Scanning, i <= Len(in.path)
  PROVE  /\ Start \in i .. Len(in.path) + 1 /\ Start \in 1 .. Len(in.path) + 1
         /\ Start = 1 \/ in.path[Start - 1] = "/"
         /\ i = 1 \/ Start > i
         /\ Start <= Len(in.path) => in.path[Start] # "/"
         /\ Parts(in.path)[Start - 1] = Parts(in.path)[i - 1]
<1>1. /\ Len(in.path) \in Nat /\ in.path \in Seq(PathChars)
      /\ i \in 1 .. Len(in.path) + 1
      /\ i # 1 => in.path[i] = "/"
  BY PathCharacters DEF Scanning
<1>2. /\ Start \in i .. Len(in.path) + 1
      /\ \A j \in i .. Start - 1 : in.path[j] = "/"
      /\ Start <= Len(in.path) => in.path[Start] # "/"
  BY <1>1, SlashesSkipped DEF Start
<1>3. i = 1 \/ Start > i
  BY <1>1, <1>2
<1>4. Start = 1 \/ in.path[Start - 1] = "/"
  <2>1. CASE Start = 1
    BY <2>1
  <2>2. CASE Start # 1
    <3>1. Start > i
      BY <1>1, <1>2, <1>3, <2>2
    <3>2. Start - 1 \in i .. Start - 1
      BY <1>1, <1>2, <3>1
    <3> QED BY <1>2, <3>2
  <2> QED BY <2>1, <2>2
<1>5. Parts(in.path)[Start - 1] = Parts(in.path)[i - 1]
  <2>1. i - 1 \in Nat /\ Start - 1 \in i - 1 .. Len(in.path)
        /\ \A k \in (i - 1) + 1 .. Start - 1 : in.path[k] = "/"
    BY <1>1, <1>2
  <2> QED BY <1>1, <2>1, PartsOfSlashes
<1> QED BY <1>1, <1>2, <1>3, <1>4, <1>5

\* Only slashes are left.
LEMMA NothingLeft ==
  ASSUME in.path \in Seq(Chars), Scanning, i <= Len(in.path), Start > Len(in.path)
  PROVE  Component = <<>> /\ Components(out) = Meaning(Components(in.path))
<1>1. Len(in.path) \in Nat /\ in.path \in Seq(PathChars)
  BY PathCharacters
<1>2. Start = Len(in.path) + 1 /\ Start \in 1 .. Len(in.path) + 1
  BY <1>1, StartIs
<1>3. Component = <<>>
  <2>1. Stop = Len(in.path) + 1
    BY <1>1, <1>2, ComponentEnds DEF Stop
  <2>2. Start \in Int /\ Stop - 1 \in Int /\ Stop - 1 < Start
    BY <1>1, <1>2, <2>1
  <2> QED BY <2>2, SubSeqEmpty DEF Component
<1>4. Parts(in.path)[i - 1] = Components(in.path)
  <2>1. Start - 1 = Len(in.path)
    BY <1>1, <1>2
  <2> QED BY <1>1, <2>1, StartIs, PartsTypes
<1> QED BY <1>3, <1>4 DEF Scanning

LEMMA ComponentIs ==
  ASSUME in.path \in Seq(Chars), Scanning, i <= Len(in.path), Start <= Len(in.path)
  PROVE  /\ Stop \in Start + 1 .. Len(in.path) + 1
         /\ Stop <= Len(in.path) => in.path[Stop] = "/"
         /\ Component \in Seq(PathChars) /\ Len(Component) = Stop - Start
         /\ \A j \in 1 .. Len(Component) : /\ Component[j] = in.path[Start + j - 1]
                                           /\ Component[j] # "/"
         /\ Meaning(Parts(in.path)[Stop - 1]) = Entered(Components(out), Component)
<1>1. /\ Len(in.path) \in Nat /\ in.path \in Seq(PathChars)
      /\ \A k \in 1 .. Len(in.path) : in.path[k] \in PathChars
  BY PathCharacters
<1>2. /\ Start \in 1 .. Len(in.path) /\ in.path[Start] # "/"
      /\ Start = 1 \/ in.path[Start - 1] = "/"
      /\ Parts(in.path)[Start - 1] = Parts(in.path)[i - 1]
  BY <1>1, StartIs
<1>3. /\ Stop \in Start .. Len(in.path) + 1
      /\ \A j \in Start .. Stop - 1 : in.path[j] # "/"
      /\ Stop <= Len(in.path) => in.path[Stop] = "/"
  <2>1. Start \in 1 .. Len(in.path) + 1
    BY <1>1, <1>2
  <2> QED BY <2>1, ComponentEnds DEF Stop
<1>4. Stop \in Start + 1 .. Len(in.path) + 1
  <2>1. Stop # Start
    BY <1>2, <1>3
  <2> QED BY <1>1, <1>2, <1>3, <2>1
<1>5. /\ Component \in Seq(PathChars) /\ Len(Component) = Stop - Start
      /\ \A j \in 1 .. Stop - Start : Component[j] = in.path[Start + j - 1]
  <2>1. Start \in Int /\ Stop - 1 \in Int /\ \A j \in Start .. Stop - 1 : in.path[j] \in PathChars
    BY <1>1, <1>2, <1>4
  <2>2. /\ Component \in Seq(PathChars)
        /\ Len(Component) = (IF Start <= Stop - 1 THEN Stop - 1 - Start + 1 ELSE 0)
        /\ \A j \in 1 .. Stop - 1 - Start + 1 : Component[j] = in.path[Start + j - 1]
    BY <2>1, SubSeqProperties DEF Component
  <2>3. Start <= Stop - 1 /\ Stop - 1 - Start + 1 = Stop - Start
    BY <1>1, <1>2, <1>4
  <2> QED BY <2>2, <2>3
<1>6. ASSUME NEW j \in 1 .. Stop - Start PROVE Component[j] # "/"
  <2>1. Start + j - 1 \in Start .. Stop - 1
    BY <1>1, <1>2, <1>4
  <2> QED BY <1>3, <1>5, <2>1
<1>7. Parts(in.path)[Stop - 1] = Append(Parts(in.path)[i - 1], Component)
  <2>1. /\ Start - 1 \in Nat /\ Stop - 1 \in (Start - 1) + 1 .. Len(in.path)
        /\ Start - 1 = 0 \/ in.path[Start - 1] = "/"
        /\ \A k \in (Start - 1) + 1 .. Stop - 1 : in.path[k] # "/"
        /\ (Start - 1) + 1 = Start
    BY <1>1, <1>2, <1>3, <1>4
  <2>2. Parts(in.path)[Stop - 1]
          = Append(Parts(in.path)[Start - 1], SubSeq(in.path, (Start - 1) + 1, Stop - 1))
    BY <1>1, <2>1, PartsOfWord
  <2> QED BY <1>2, <2>1, <2>2 DEF Component
<1>8. Meaning(Parts(in.path)[Stop - 1]) = Entered(Components(out), Component)
  <2>1. i - 1 \in 0 .. Len(in.path)
    BY <1>1 DEF Scanning
  <2>2. Parts(in.path)[i - 1] \in Lists
    BY <1>1, <2>1, PartsTypes
  <2>3. Meaning(Append(Parts(in.path)[i - 1], Component))
          = Entered(Meaning(Parts(in.path)[i - 1]), Component)
    BY <1>5, <2>2, MeaningOfAppend
  <2> QED BY <1>7, <2>3 DEF Scanning
<1> QED BY <1>3, <1>4, <1>5, <1>6, <1>8

LEMMA InsideRoot ==
  ASSUME NEW cs, \A k \in 1 .. Len(cs) : cs[k] # <<>>
  PROVE  cs # Outside
<1>1. Len(Outside) = 1 /\ Outside[1] = <<>>
  BY DEF Outside
<1>2. ASSUME cs = Outside PROVE FALSE
  <2>1. Len(cs) = 1 /\ cs[1] = <<>>
    BY <1>1, <1>2, Zenon
  <2>2. 1 \in 1 .. Len(cs)
    BY <2>1
  <2> QED BY <2>1, <2>2
<1> QED BY <1>2

\* Without names that begin with a dot a component that begins with one is "."
\* or "..".
LEMMA DotsAreWhole ==
  ASSUME in.path \in Seq(Chars), ~HasDotName(in.path), Scanning, i <= Len(in.path),
         Start <= Len(in.path), in.path[Start] = "."
  PROVE  Component \in {<<".">>, <<".", ".">>}
<1>1. /\ Len(in.path) \in Nat
      /\ \A k \in 1 .. Len(in.path) : in.path[k] # End /\ CharAt(in.path, k) = in.path[k]
  BY PathCharacters
<1>2. Start \in 1 .. Len(in.path) /\ (Start = 1 \/ in.path[Start - 1] = "/")
  BY <1>1, StartIs
<1>3. /\ Stop \in Start + 1 .. Len(in.path) + 1
      /\ Component \in Seq(PathChars) /\ Len(Component) = Stop - Start
      /\ \A j \in 1 .. Stop - Start : Component[j] = in.path[Start + j - 1] /\ Component[j] # "/"
  BY ComponentIs
<1>4. ASSUME NEW j \in 1 .. Stop - Start - 1
      PROVE  CharAt(in.path, Start + j) = Component[j + 1] /\ CharAt(in.path, Start + j) \notin {"/", End}
  <2>1. /\ Start \in Nat /\ Stop \in Nat /\ j \in Nat
        /\ j + 1 \in 1 .. Stop - Start
    BY <1>1, <1>2, <1>3
  <2>2. Start + (j + 1) - 1 = Start + j /\ Start + j \in 1 .. Len(in.path)
    BY <1>1, <1>2, <1>3, <2>1
  <2>3. Component[j + 1] = in.path[Start + j] /\ Component[j + 1] # "/"
    BY <1>3, <2>1, <2>2
  <2> QED BY <1>1, <2>2, <2>3
<1>5. \/ CharAt(in.path, Start + 1) \in {"/", End}
      \/ CharAt(in.path, Start + 1) = "." /\ CharAt(in.path, Start + 2) \in {"/", End}
  BY <1>2 DEF HasDotName
<1>6. Component[1] = "."
  <2>1. 1 \in 1 .. Stop - Start /\ Start + 1 - 1 = Start
    BY <1>1, <1>2, <1>3
  <2> QED BY <1>3, <2>1
<1>7. Stop - Start \in Nat \ {0}
  BY <1>1, <1>2, <1>3
<1>8. CASE Stop - Start = 1
  <2> DEFINE dot == <<".">>
  <2>1. dot \in Seq(PathChars \cup {"."}) /\ Len(dot) = 1 /\ dot[1] = "."
    OBVIOUS
  <2>2. Component \in Seq(PathChars \cup {"."}) /\ Len(Component) = 1
    BY <1>3, <1>8, SeqMonotonic
  <2> HIDE DEF dot
  <2>3. Component = dot
    BY <1>6, <2>1, <2>2, SeqEqual
  <2> QED BY <2>3 DEF dot
<1>9. CASE Stop - Start # 1
  <2>1. 1 \in 1 .. Stop - Start - 1
    BY <1>7, <1>9
  <2>2. CharAt(in.path, Start + 1) = Component[1 + 1] /\ CharAt(in.path, Start + 1) \notin {"/", End}
    BY <1>4, <2>1
  <2>3. Component[2] = "." /\ CharAt(in.path, Start + 2) \in {"/", End}
    BY <1>5, <2>2
  <2>4. Stop - Start = 2
    <3>1. 2 \notin 1 .. Stop - Start - 1
      BY <1>4, <2>3
    <3> QED BY <1>7, <1>9, <3>1
  <2> DEFINE dots == <<".", ".">>
  <2>5. dots \in Seq(PathChars \cup {"."}) /\ Len(dots) = 2 /\ dots[1] = "." /\ dots[2] = "."
    OBVIOUS
  <2>6. Component \in Seq(PathChars \cup {"."}) /\ Len(Component) = 2
    BY <1>3, <2>4, SeqMonotonic
  <2> HIDE DEF dots
  <2>7. \A j \in 1 .. Len(Component) : Component[j] = dots[j]
    <3>1. \A j \in 1 .. Len(Component) : j = 1 \/ j = 2
      BY <2>6
    <3> QED BY <1>6, <2>3, <2>5, <3>1
  <2>8. Component = dots
    BY <2>5, <2>6, <2>7, SeqEqual
  <2> QED BY <2>8 DEF dots
<1> QED BY <1>8, <1>9

\* Where the next iteration begins.
LEMMA ScanningGoesOn ==
  ASSUME in.path \in Seq(Chars), Scanning, i <= Len(in.path), Start <= Len(in.path),
         in' = in, i' = Stop, Tidy(out'),
         Components(out') = Entered(Components(out), Component),
         \A k \in 1 .. Len(Components(out')) : Components(out')[k] # <<>>,
         n' = Len(Components(out')), Len(out') <= Stop, Len(out') < in.buflen
  PROVE  Scanning'
<1>1. /\ Len(in.path) \in Nat /\ Start \in 1 .. Len(in.path) + 1
      /\ Stop \in Start + 1 .. Len(in.path) + 1
      /\ Stop <= Len(in.path) => in.path[Stop] = "/"
      /\ Meaning(Parts(in.path)[Stop - 1]) = Entered(Components(out), Component)
  BY PathCharacters, StartIs, ComponentIs
<1>2. Stop # 1 /\ Stop \in 1 .. Len(in.path) + 1
  BY <1>1
<1> QED BY <1>1, <1>2 DEF Scanning

\* What the function returns when it has read the path.
LEMMA NormalizeEndRight ==
  ASSUME NEW buf, Components(buf) = Meaning(Components(in.path)), Len(buf) < in.buflen,
         \A k \in 1 .. Len(buf) - 1 : buf[k] = "/" => buf[k + 1] # "/",
         n = Len(Components(buf)), n \in Nat, Len(buf) = 1 <=> buf = <<"/">>,
         in' = in, NormalizeEnd(buf)
  PROVE  Done' /\ NormalizeRight'
<1>1. out' = buf /\ result' = IF buf = <<"/">> THEN 1 ELSE n
  BY DEF NormalizeEnd
<1>2. result' \in Nat
  BY <1>1
<1>3. result' # EINVAL /\ result' # ENAMETOOLONG /\ Done'
  BY <1>2 DEF EINVAL, ENAMETOOLONG, Done, Running
<1> QED BY <1>1, <1>3 DEF NormalizeRight

\* The paths of which NormalizeRight speaks: the code drops the dot in front of
\* a name.
NoDotNames == \A p \in Normals : ~HasDotName(p.path)

LEMMA NormalTypes ==
  ASSUME in \in Normals
  PROVE  in.path \in Seq(Chars) /\ in.buflen \in Nat /\ (NoDotNames => ~HasDotName(in.path))
BY TextInputs DEF NoDotNames

LEMMA ScanningTypes ==
  ASSUME in.path \in Seq(Chars), Scanning
  PROVE  /\ i \in Nat \ {0} /\ Len(in.path) \in Nat
         /\ out \in Seq(PathChars) /\ Len(out) \in Nat
         /\ Components(out) \in Lists /\ n \in Nat
         /\ Components(out) # Outside
<1>1. i \in Nat \ {0} /\ Len(in.path) \in Nat
  BY PathCharacters DEF Scanning
<1>2. out \in Seq(PathChars)
  BY DEF Scanning, Tidy
<1>3. Len(out) \in Nat /\ Components(out) \in Lists
  BY <1>2, PartsTypes
<1>4. Len(Components(out)) \in Nat
  BY <1>3, LenProperties DEF Lists
<1>5. Components(out) # Outside
  BY InsideRoot DEF Scanning
<1> QED BY <1>1, <1>2, <1>3, <1>4, <1>5 DEF Scanning

\* buf is never one slash between two iterations.
LEMMA NeverOneSlash ==
  ASSUME NEW buf, Tidy(buf)
  PROVE  Len(buf) # 1 /\ buf # <<"/">>
<1>1. buf \in Seq(PathChars) /\ (buf # <<>> => buf[1] = "/" /\ buf[Len(buf)] # "/")
  BY DEF Tidy
<1>2. ASSUME Len(buf) = 1 PROVE FALSE
  <2>1. buf # <<>>
    <3>1. Len(<<>>) = 0
      BY EmptySeq
    <3>2. 0 # 1
      OBVIOUS
    <3> QED BY <1>2, <3>1, <3>2, Zenon
  <2>2. buf[1] = "/" /\ buf[Len(buf)] # "/"
    BY <1>1, <2>1, Zenon
  <2> QED BY <1>2, <2>2, Zenon
<1>3. buf # <<"/">>
  <2>1. Len(<<"/">>) = 1
    OBVIOUS
  <2> QED BY <1>2, <2>1, Zenon
<1> QED BY <1>2, <1>3

LEMMA PathRead ==
  ASSUME in.path \in Seq(Chars), Scanning, i > Len(in.path), in' = in, NormalizeEnd(out)
  PROVE  Done' /\ NormalizeRight'
<1>1. Tidy(out) /\ n = Len(Components(out)) /\ Len(out) < in.buflen
  BY DEF Scanning
<1>2. n \in Nat /\ i - 1 = Len(in.path)
  BY ScanningTypes DEF Scanning
<1>3. Components(out) = Meaning(Components(in.path))
  <2>1. in.path \in Seq(PathChars)
    BY PathCharacters
  <2>2. Components(in.path) = Parts(in.path)[Len(in.path)]
    BY <2>1, PartsTypes
  <2> QED BY <1>2, <2>2 DEF Scanning
<1>4. Len(out) = 1 <=> out = <<"/">>
  BY <1>1, NeverOneSlash
<1>5. \A k \in 1 .. Len(out) - 1 : out[k] = "/" => out[k + 1] # "/"
  BY <1>1 DEF Tidy
<1> QED BY <1>1, <1>2, <1>3, <1>4, <1>5, NormalizeEndRight

\* A "..": at the root the path leaves it.
LEMMA LeavesRoot ==
  ASSUME in.path \in Seq(Chars), Scanning, i <= Len(in.path), Start <= Len(in.path),
         Component = <<".", ".">>, out = <<>>, in' = in, Fail(EINVAL)
  PROVE  Done' /\ NormalizeRight'
<1>1. /\ in.path \in Seq(PathChars) /\ Len(in.path) \in Nat
      /\ Start \in 1 .. Len(in.path) + 1
      /\ Stop \in Start + 1 .. Len(in.path) + 1
      /\ Stop <= Len(in.path) => in.path[Stop] = "/"
      /\ Meaning(Parts(in.path)[Stop - 1]) = Entered(Components(out), Component)
  BY PathCharacters, StartIs, ComponentIs
<1>2. Components(out) = <<>>
  <2>1. <<>> \in Seq(PathChars) /\ Len(<<>>) = 0
    BY EmptySeq
  <2> DEFINE none == <<>>
  <2>2. Parts(none)[0] = <<>>
    BY <2>1, PartsTable
  <2> QED BY <2>1, <2>2 DEF Components
<1>3. Entered(Components(out), Component) = Outside
  <2>1. Components(out) # Outside /\ <<".", ".">> # <<".">>
    BY ScanningTypes
  <2> QED BY <1>2, <2>1 DEF Entered
<1>4. Stop - 1 \in 0 .. Len(in.path) /\ (Stop - 1 = Len(in.path) \/ in.path[(Stop - 1) + 1] = "/")
  BY <1>1
<1>5. Extends(Components(in.path), Parts(in.path)[Stop - 1])
  BY <1>1, <1>4, PartsStay
<1>6. Parts(in.path)[Stop - 1] \in Lists /\ Components(in.path) \in Lists
  BY <1>1, <1>4, PartsTypes
<1>7. Meaning(Components(in.path)) = Outside
  BY <1>1, <1>3, <1>5, <1>6, OutsideStays
<1>8. result' = EINVAL /\ Done'
  BY DEF Fail, EINVAL, Done, Running
<1>9. EINVAL # ENAMETOOLONG
  BY DEF EINVAL, ENAMETOOLONG
<1> QED BY <1>7, <1>8, <1>9 DEF NormalizeRight

\* A "..": below the root the last name goes.
LEMMA GoesUp ==
  ASSUME in.path \in Seq(Chars), in.buflen \in Nat, Scanning,
         i <= Len(in.path), Start <= Len(in.path),
         Component = <<".", ".">>, out # <<>>, in' = in,
         out' = DropLast(out), n' = n - 1, i' = Stop
  PROVE  Scanning'
<1> DEFINE cs == Components(out)
<1>1. /\ Tidy(DropLast(out)) /\ cs # <<>>
      /\ Components(DropLast(out)) = Front(cs) /\ Len(DropLast(out)) < Len(out)
  BY NameDropped DEF Scanning
<1>2. cs \in Lists /\ cs # Outside /\ n = Len(cs) /\ Len(out) \in Nat
  BY ScanningTypes DEF Scanning
<1>3. \A k \in 1 .. Len(cs) : cs[k] # <<>>
  BY DEF Scanning
<1> HIDE DEF cs
<1>4. /\ Front(cs) \in Lists /\ Len(Front(cs)) = Len(cs) - 1 /\ Len(cs) \in Nat
      /\ \A k \in 1 .. Len(cs) - 1 : Front(cs)[k] = cs[k]
  BY <1>1, <1>2, FrontProperties, LenProperties DEF Lists
<1>5. Entered(cs, Component) = Front(cs)
  <2>1. <<".", ".">> # <<".">>
    OBVIOUS
  <2> QED BY <1>1, <1>2, <2>1 DEF Entered
<1>6. \A k \in 1 .. Len(Front(cs)) : Front(cs)[k] # <<>>
  BY <1>3, <1>4
<1>7. Len(DropLast(out)) <= Stop /\ Len(DropLast(out)) < in.buflen
  <2>1. Len(out) <= i /\ Len(out) < in.buflen /\ i \in Nat /\ Len(in.path) \in Nat
    BY ScanningTypes DEF Scanning
  <2>2. Start \in i .. Len(in.path) + 1 /\ Stop \in Start + 1 .. Len(in.path) + 1
    BY StartIs, ComponentIs
  <2>3. DropLast(out) \in Seq(PathChars)
    BY <1>1 DEF Tidy
  <2>4. Len(DropLast(out)) \in Nat
    BY <2>3, LenProperties
  <2>5. i <= Stop
    BY <2>1, <2>2
  <2>6. Stop \in Nat
    BY <2>1, <2>2
  <2>7. Len(DropLast(out)) < in.buflen
    BY <1>1, <1>2, <2>1, <2>4
  <2> QED BY <1>1, <1>2, <2>1, <2>4, <2>5, <2>6, <2>7
<1> QED BY <1>1, <1>2, <1>4, <1>5, <1>6, <1>7, ScanningGoesOn DEF cs

\* A name, or the slashes at the end.
LEMMA CopiesComponent ==
  ASSUME in.path \in Seq(Chars), in.buflen \in Nat, ~HasDotName(in.path), Scanning,
         i <= Len(in.path), Component \notin {<<".">>, <<".", ".">>}, in' = in,
         CopyComponent(Start, Stop)
  PROVE  IF Done' THEN Done \/ NormalizeRight' ELSE Scanning'
<1> DEFINE buf == Append(out, "/") \o Component
<1>1. /\ Len(in.path) \in Nat /\ i \in Nat \ {0} /\ n \in Nat /\ out \in Seq(PathChars)
      /\ Len(out) \in Nat /\ Len(out) <= i /\ Len(out) < in.buflen
      /\ Start \in i .. Len(in.path) + 1 /\ Start \in 1 .. Len(in.path) + 1
      /\ i = 1 \/ Start > i
  BY ScanningTypes, StartIs DEF Scanning
<1>2. Tidy(out)
  BY DEF Scanning
<1>3. (IF CharAt(in.path, Start) = "." THEN Start + 1 ELSE Start) = Start
  <2>1. CASE Start <= Len(in.path)
    <3>1. in.path[Start] # "."
      BY <2>1, DotsAreWhole
    <3>2. Start \in 1 .. Len(in.path)
      BY <1>1, <2>1
    <3>3. CharAt(in.path, Start) = in.path[Start]
      BY <3>2, PathCharacters
    <3> QED BY <3>1, <3>3
  <2>2. CASE Start > Len(in.path)
    <3>1. Start = Len(in.path) + 1
      BY <1>1, <2>2
    <3>2. CharAt(in.path, Start) = End
      BY <3>1, PathCharacters
    <3>3. CharAt(in.path, Start) # "."
      BY <3>2 DEF End
    <3> QED BY <3>3
  <2> QED BY <1>1, <2>1, <2>2
<1>4. \/ /\ Len(out) + 1 >= in.buflen \/ Len(buf) >= in.buflen
         /\ Fail(ENAMETOOLONG)
      \/ /\ Len(buf) < in.buflen
         /\ Start > Len(in.path)
         /\ NormalizeEnd(buf)
      \/ /\ Len(buf) < in.buflen
         /\ Start <= Len(in.path)
         /\ out' = buf
         /\ n' = n + 1
         /\ i' = Stop
         /\ UNCHANGED result
  BY <1>3, Zenon DEF CopyComponent, Component
<1>5. CASE Start > Len(in.path)
  <2>1. Component = <<>> /\ Components(out) = Meaning(Components(in.path))
    BY <1>5, NothingLeft
  <2>2. /\ Append(out, "/") \in Seq(PathChars) /\ Components(Append(out, "/")) = Components(out)
        /\ Len(Append(out, "/")) = Len(out) + 1
        /\ \A j \in 1 .. Len(out) : Append(out, "/")[j] = out[j]
        /\ Append(out, "/")[Len(out) + 1] = "/"
    BY <1>1, SlashAdded, AppendProperties DEF PathChars
  <2>3. buf = Append(out, "/")
    BY <2>1, <2>2, ConcatEmptySeq
  <2> HIDE DEF buf
  <2>4. Len(buf) <= Len(in.path) + 1
    BY <1>1, <1>5, <2>2, <2>3
  <2>5. CASE Fail(ENAMETOOLONG) /\ in.buflen <= Len(buf)
    <3>1. in.buflen < Len(in.path) + 2
      BY <1>1, <2>2, <2>3, <2>4, <2>5
    <3>2. result' = ENAMETOOLONG /\ Done' /\ ENAMETOOLONG # EINVAL
      BY <2>5 DEF Fail, Done, Running, ENAMETOOLONG, EINVAL
    <3> QED BY <3>1, <3>2 DEF NormalizeRight
  <2>6. CASE Len(buf) < in.buflen /\ NormalizeEnd(buf)
    <3>1. Components(buf) = Meaning(Components(in.path)) /\ n = Len(Components(buf))
      BY <2>1, <2>2, <2>3 DEF Scanning
    <3>2. ASSUME NEW k \in 1 .. Len(buf) - 1, buf[k] = "/" PROVE buf[k + 1] # "/"
      <4>1. /\ \A j \in 1 .. Len(out) - 1 : out[j] = "/" => out[j + 1] # "/"
            /\ out # <<>> => out[Len(out)] # "/"
        BY <1>2 DEF Tidy
      <4>2. k \in 1 .. Len(out) /\ buf[k] = out[k]
        BY <1>1, <2>2, <2>3
      <4>3. k # Len(out)
        BY <1>1, <3>2, <4>1, <4>2, EmptySeq
      <4>4. k \in 1 .. Len(out) - 1 /\ k + 1 \in 1 .. Len(out)
        BY <1>1, <4>2, <4>3
      <4> QED BY <2>2, <2>3, <3>2, <4>1, <4>2, <4>4
    <3>3. Len(buf) = 1 <=> buf = <<"/">>
      <4>1. Len(<<"/">>) = 1
        OBVIOUS
      <4>2. ASSUME Len(buf) = 1 PROVE buf = <<"/">>
        <5>1. Len(out) = 0
          BY <1>1, <2>2, <2>3, <4>2
        <5>2. out = <<>>
          BY <1>1, <5>1, EmptySeq
        <5> QED BY <2>3, <5>2
      <4> QED BY <4>1, <4>2
    <3> QED BY <1>1, <2>6, <3>1, <3>2, <3>3, NormalizeEndRight
  <2> QED BY <1>1, <1>4, <1>5, <2>2, <2>3, <2>5, <2>6
<1>6. CASE Start <= Len(in.path)
  <2>1. /\ Stop \in Start + 1 .. Len(in.path) + 1
        /\ Component \in Seq(PathChars) /\ Len(Component) = Stop - Start
        /\ \A j \in 1 .. Len(Component) : Component[j] # "/"
    BY <1>6, ComponentIs
  <2>2. Component # <<>>
    <3>1. Len(Component) # 0
      BY <1>1, <2>1
    <3> QED BY <3>1, EmptySeq
  <2>3. /\ Tidy(buf) /\ Components(buf) = Append(Components(out), Component)
        /\ Len(buf) = Len(out) + 1 + Len(Component)
    BY <1>2, <2>1, <2>2, NameAdded
  <2> HIDE DEF buf
  <2>4. Len(buf) \in Nat /\ Len(buf) <= Stop /\ Len(out) + 1 <= Stop
    <3>1. i = 1 => Len(out) = 0
      BY EmptySeq DEF Scanning
    <3> QED BY <1>1, <2>1, <2>3, <3>1
  <2>5. CASE Fail(ENAMETOOLONG) /\ (Len(out) + 1 >= in.buflen \/ Len(buf) >= in.buflen)
    <3>1. in.buflen < Len(in.path) + 2
      BY <1>1, <2>1, <2>4, <2>5
    <3>2. result' = ENAMETOOLONG /\ Done' /\ ENAMETOOLONG # EINVAL
      BY <2>5 DEF Fail, Done, Running, ENAMETOOLONG, EINVAL
    <3> QED BY <3>1, <3>2 DEF NormalizeRight
  <2>6. CASE /\ Len(buf) < in.buflen
             /\ out' = buf /\ n' = n + 1 /\ i' = Stop /\ UNCHANGED result
    <3> DEFINE cs == Components(out)
    <3>1. cs \in Lists /\ cs # Outside /\ n = Len(cs) /\ \A k \in 1 .. Len(cs) : cs[k] # <<>>
      BY ScanningTypes DEF Scanning
    <3> HIDE DEF cs
    <3>2. /\ Len(Append(cs, Component)) = Len(cs) + 1 /\ Len(cs) \in Nat
          /\ \A k \in 1 .. Len(cs) : Append(cs, Component)[k] = cs[k]
          /\ Append(cs, Component)[Len(cs) + 1] = Component
      BY <2>1, <3>1, AppendProperties, LenProperties DEF Lists
    <3>3. Entered(cs, Component) = Append(cs, Component)
      BY <3>1 DEF Entered
    <3>4. ASSUME NEW k \in 1 .. Len(Append(cs, Component))
          PROVE  Append(cs, Component)[k] # <<>>
      <4>1. k \in 1 .. Len(cs) \/ k = Len(cs) + 1
        BY <3>2
      <4> QED BY <2>2, <3>1, <3>2, <4>1
    <3>5. Scanning'
      BY <1>6, <2>3, <2>4, <2>6, <3>1, <3>2, <3>3, <3>4, ScanningGoesOn DEF cs
    <3>6. Done' = Done
      BY <2>6 DEF Done
    <3> QED BY <3>5, <3>6
  <2> QED BY <1>1, <1>4, <1>6, <2>5, <2>6
<1> QED BY <1>1, <1>5, <1>6

LEMMA NormalStepInv ==
  ASSUME NoDotNames, NormalInv, NormalizeStep
  PROVE  NormalInv'
<1>1. /\ job = "normalize" /\ in \in Normals /\ ~Done /\ Scanning
      /\ job' = job /\ in' = in
  BY DEF NormalizeStep, NormalInv
<1>2. in.path \in Seq(Chars) /\ in.buflen \in Nat /\ ~HasDotName(in.path)
  BY <1>1, NormalTypes
<1>3. Len(in.path) \in Nat /\ i \in Nat
  BY <1>1, <1>2, ScanningTypes
<1>4. ASSUME Start > Len(in.path), i <= Len(in.path)
      PROVE  Component # <<".">> /\ Component # <<".", ".">>
  <2>1. Component = <<>>
    BY <1>1, <1>2, <1>4, NothingLeft
  <2> QED BY <2>1
<1>5. \/ i > Len(in.path) /\ NormalizeEnd(out)
      \/ i <= Len(in.path) /\ Component = <<".">> /\ i' = Stop /\ UNCHANGED <<out, n, result>>
      \/ i <= Len(in.path) /\ Component = <<".", ".">> /\ out = <<>> /\ Fail(EINVAL)
      \/ /\ i <= Len(in.path) /\ Component = <<".", ".">> /\ out # <<>>
         /\ out' = DropLast(out) /\ n' = n - 1 /\ i' = Stop /\ UNCHANGED result
      \/ /\ i <= Len(in.path) /\ Component \notin {<<".">>, <<".", ".">>}
         /\ CopyComponent(Start, Stop)
  BY DEF NormalizeStep, Start, Stop, Component
<1>6. UNCHANGED result => ~Done'
  BY <1>1 DEF Done
<1>7. CASE i > Len(in.path) /\ NormalizeEnd(out)
  BY <1>1, <1>2, <1>7, PathRead DEF NormalInv
<1>8. CASE i <= Len(in.path) /\ Component = <<".">> /\ i' = Stop /\ UNCHANGED <<out, n, result>>
  <2>1. Start <= Len(in.path)
    <3>1. Start \in 1 .. Len(in.path) + 1
      BY <1>1, <1>2, <1>8, StartIs
    <3> QED BY <1>3, <1>4, <1>8, <3>1
  <2>2. Entered(Components(out), Component) = Components(out)
    BY <1>8 DEF Entered
  <2>3. /\ Len(out) <= Stop /\ Len(out) < in.buflen /\ n = Len(Components(out)) /\ Tidy(out)
        /\ \A k \in 1 .. Len(Components(out)) : Components(out)[k] # <<>>
    <3>1. Len(out) \in Nat /\ Len(out) <= i
      BY <1>1, <1>2, ScanningTypes DEF Scanning
    <3>2. Start \in i .. Len(in.path) + 1 /\ Stop \in Start + 1 .. Len(in.path) + 1
      BY <1>1, <1>2, <1>8, <2>1, StartIs, ComponentIs
    <3>3. Len(out) <= Stop
      BY <1>3, <3>1, <3>2
    <3> QED BY <1>1, <3>3 DEF Scanning
  <2>4. Scanning'
    BY <1>1, <1>2, <1>8, <2>1, <2>2, <2>3, ScanningGoesOn
  <2> QED BY <1>1, <1>6, <1>8, <2>4 DEF NormalInv
<1>9. CASE i <= Len(in.path) /\ Component = <<".", ".">> /\ out = <<>> /\ Fail(EINVAL)
  <2>1. Start <= Len(in.path)
    <3>1. Start \in 1 .. Len(in.path) + 1
      BY <1>1, <1>2, <1>9, StartIs
    <3> QED BY <1>3, <1>4, <1>9, <3>1
  <2> QED BY <1>1, <1>2, <1>9, <2>1, LeavesRoot DEF NormalInv
<1>10. CASE /\ i <= Len(in.path) /\ Component = <<".", ".">> /\ out # <<>>
            /\ out' = DropLast(out) /\ n' = n - 1 /\ i' = Stop /\ UNCHANGED result
  <2>1. Start <= Len(in.path)
    <3>1. Start \in 1 .. Len(in.path) + 1
      BY <1>1, <1>2, <1>10, StartIs
    <3> QED BY <1>3, <1>4, <1>10, <3>1
  <2> QED BY <1>1, <1>2, <1>6, <1>10, <2>1, GoesUp DEF NormalInv
<1>11. CASE /\ i <= Len(in.path) /\ Component \notin {<<".">>, <<".", ".">>}
            /\ CopyComponent(Start, Stop)
  BY <1>1, <1>2, <1>11, CopiesComponent DEF NormalInv
<1> QED BY <1>5, <1>7, <1>8, <1>9, <1>10, <1>11

LEMMA NormalNext ==
  ASSUME NoDotNames, NormalInv, [Next]_vars
  PROVE  NormalInv'
<1>1. CASE NormalizeStep
  BY <1>1, NormalStepInv
<1>2. CASE LookupStep \/ LookupEnd \/ ReadlineStep
  BY <1>2 DEF LookupStep, LookupEnd, ReadlineStep, NormalInv
<1>3. CASE UNCHANGED vars
  BY <1>3 DEF vars, NormalInv, Done, NormalizeRight, Scanning
<1> QED BY <1>1, <1>2, <1>3 DEF Next

LEMMA NormalInit == Init => NormalInv
<1> SUFFICES ASSUME Init, job = "normalize" PROVE NormalInv
  BY DEF NormalInv
<1>1. /\ in \in Normals /\ i = 1 /\ out = <<>> /\ n = 0
      /\ result = IF in.buflen = 0 THEN ENAMETOOLONG ELSE Running
  BY DEF Init
<1>2. in.path \in Seq(Chars) /\ in.buflen \in Nat /\ in.path \in Seq(PathChars) /\ Len(in.path) \in Nat
  BY <1>1, NormalTypes, PathCharacters
<1> DEFINE none == <<>>
<1>3. none \in Seq(PathChars) /\ Len(none) = 0 /\ none \in Lists
  BY EmptySeq DEF Lists
<1>4. Components(none) = none /\ Meaning(none) = none /\ Parts(in.path)[0] = none
  BY <1>2, <1>3, PartsTable, WalkTable DEF Components, Meaning
<1>5. Tidy(none)
  BY <1>3 DEF Tidy
<1>6. CASE in.buflen = 0
  <2>1. result = ENAMETOOLONG /\ Done /\ ENAMETOOLONG # EINVAL
    BY <1>1, <1>6 DEF Done, Running, ENAMETOOLONG, EINVAL
  <2>2. in.buflen < Len(in.path) + 2
    BY <1>2, <1>6
  <2> QED BY <1>1, <2>1, <2>2 DEF NormalInv, NormalizeRight
<1>7. CASE in.buflen # 0
  <2>1. ~Done
    BY <1>1, <1>7 DEF Done
  <2>2. out = none /\ i - 1 = 0 /\ i \in 1 .. Len(in.path) + 1
    BY <1>1, <1>2
  <2>3. Len(out) <= i /\ Len(out) < in.buflen
    BY <1>1, <1>2, <1>3, <1>7
  <2>4. n = Len(Components(out)) /\ \A k \in 1 .. Len(Components(out)) : Components(out)[k] # <<>>
    BY <1>1, <1>3, <1>4
  <2> HIDE DEF none
  <2>5. Scanning
    BY <1>1, <1>4, <1>5, <2>2, <2>3, <2>4 DEF Scanning, none
  <2> QED BY <1>1, <2>1, <2>5 DEF NormalInv
<1> QED BY <1>6, <1>7

\* For all paths without a name that begins with a dot and for all buffers,
\* vfs_normalize_path keeps the meaning of the path: what it leaves in buf, what
\* it returns and what each of its errors means.
THEOREM NormalizeSound == ASSUME NoDotNames PROVE Spec => []NormalizeRight
<1>1. NormalInv => NormalizeRight
  BY DEF NormalInv, NormalizeRight
<1>2. NormalInv /\ [Next]_vars => NormalInv'
  BY NormalNext
<1> QED BY <1>1, <1>2, NormalInit, PTL DEF Spec

=============================================================================
