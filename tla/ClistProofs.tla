----------------------------- MODULE ClistProofs -----------------------------
(***************************************************************************)
(* The pointers of clist.h form one ring, and through it implement the     *)
(* sequence of module ListApi, for every set of nodes.                     *)
(***************************************************************************)
EXTENDS Clist, FiniteSetTheorems, SequenceTheorems, WellFoundedInduction, TLAPS

USE ClistConstants

\* The sequence s is what the pointers l (list->next) and nx (the next fields)
\* link: distinct nodes, each followed by the next one, the last by the first.
RingOf(s, l, nx) ==
  /\ s \in Seq(Nodes)
  /\ \A i, j \in 1 .. Len(s) : s[i] = s[j] => i = j
  /\ s = <<>> => l = Null
  /\ s # <<>> => l = s[Len(s)] /\ nx[l] = s[1]
  /\ \A i \in 1 .. Len(s) - 1 : nx[s[i]] = s[i + 1]

\* The inductive invariant: what the loops walk is that sequence.
ClistInv == next \in [Nodes -> Nodes \cup {Null}] /\ RingOf(Walk, last, next)

-----------------------------------------------------------------------------
(* The walk of a ring is the sequence it links.  StepsOf(l, nx, i) is the
   first i steps of a walk, as Nth computes them. *)
StepsOf(l, nx, i) ==
  CHOOSE f : f = [k \in 1 .. i |-> IF k = 1 THEN nx[l] ELSE nx[f[k - 1]]]

LEMMA NthSteps ==
  Nth = [i \in 1 .. Cardinality(Nodes) + 1 |-> StepsOf(last, next, i)[i]]
BY DEF Nth, StepsOf

\* A set of naturals that is not empty has a least element.
LEMMA NatMinimum ==
  ASSUME NEW T \in SUBSET Nat, T # {}
  PROVE  \E x \in T : \A y \in T : x <= y
<1>1. PICK x \in T : \A y \in T : ~(<<y, x>> \in OpToRel(<, Nat))
  BY WFMin, NatLessThanWellFounded, Zenon
<1>2. ASSUME NEW y \in T PROVE ~(y < x)
  <2>1. <<y, x>> \in Nat \X Nat
    OBVIOUS
  <2>2. OpToRel(<, Nat) = {ss \in Nat \X Nat : ss[1] < ss[2]}
    BY DEF OpToRel
  <2> QED BY <1>1, <2>1, <2>2
<1> QED BY <1>2

\* The first steps along a ring are the first nodes of its sequence.
LEMMA StepsAlong ==
  ASSUME NEW l, NEW nx, NEW s, RingOf(s, l, nx), NEW n \in 1 .. Len(s)
  PROVE  StepsOf(l, nx, n)[n] = s[n]
<1> DEFINE Walked(f) == f = [k \in 1 .. n |-> IF k = 1 THEN nx[l] ELSE nx[f[k - 1]]]
           along == [k \in 1 .. n |-> s[k]]
           f0 == StepsOf(l, nx, n)
<1>1. Len(s) \in Nat /\ s # <<>> /\ n \in Nat
  BY DEF RingOf
<1>2. Walked(along)
  <2>1. ASSUME NEW k \in 1 .. n
        PROVE  s[k] = IF k = 1 THEN nx[l] ELSE nx[along[k - 1]]
    BY <1>1 DEF RingOf
  <2> QED BY <2>1
<1>3. Walked(f0)
  BY <1>2 DEF StepsOf
<1> HIDE DEF f0
<1>4. \A k \in 1 .. n : f0[k] = IF k = 1 THEN nx[l] ELSE nx[f0[k - 1]]
  BY <1>3
<1>5. \A k \in 1 .. n : f0[k] = s[k]
  <2> DEFINE T == {k \in 1 .. n : f0[k] # s[k]}
  <2>1. SUFFICES ASSUME T # {} PROVE FALSE
    OBVIOUS
  <2>2. PICK x \in T : \A y \in T : x <= y
    <3>1. T \in SUBSET Nat
      OBVIOUS
    <3> HIDE DEF T
    <3> QED BY <2>1, <3>1, NatMinimum
  <2>3. x # 1
    BY <1>4, <1>1 DEF RingOf
  <2>4. x - 1 \in 1 .. n /\ f0[x - 1] = s[x - 1]
    BY <2>2, <2>3
  <2>5. s[x] = nx[s[x - 1]]
    BY <2>4, <1>1 DEF RingOf
  <2> QED BY <1>4, <2>3, <2>4, <2>5
<1> QED BY <1>5, <1>1 DEF f0

\* A ring has no more nodes than there are.
LEMMA RingLength ==
  ASSUME NEW l, NEW nx, NEW s, RingOf(s, l, nx)
  PROVE  Len(s) \in Nat /\ Cardinality(Nodes) \in Nat /\ Len(s) <= Cardinality(Nodes)
<1>1. Len(s) \in Nat /\ s \in [1 .. Len(s) -> Nodes]
  BY LenProperties DEF RingOf
<1>2. s \in Injection(1 .. Len(s), Nodes)
  BY <1>1 DEF RingOf, IsInjective, Injection
<1>3. IsFiniteSet(1 .. Len(s)) /\ Cardinality(1 .. Len(s)) = Len(s)
  BY <1>1, FS_Interval
<1>4. Cardinality(Nodes) \in Nat
  BY FS_CardinalityType
<1>5. Cardinality(1 .. Len(s)) <= Cardinality(Nodes)
  BY <1>2, FS_Injection
<1> QED BY <1>1, <1>3, <1>4, <1>5

\* So the walk of every loop of clist.h visits the nodes of the ring in order.
LEMMA WalkIsRing ==
  ASSUME NEW s, RingOf(s, last, next)
  PROVE  Walk = s /\ (s # <<>> => WalkLength = Len(s))
<1>1. CASE s = <<>>
  BY <1>1 DEF RingOf, Walk
<1>2. CASE s # <<>>
  <2> DEFINE N == Cardinality(Nodes)
             stops == {i \in 1 .. N : Nth[i] = last}
  <2>1. Len(s) \in Nat /\ N \in Nat /\ Len(s) <= N /\ Len(s) # 0 /\ last \in Nodes
    <3>1. Len(s) \in Nat /\ N \in Nat /\ Len(s) <= N
      BY RingLength
    <3>2. Len(s) # 0 /\ s[Len(s)] \in Nodes
      BY <1>2, <3>1, EmptySeq DEF RingOf
    <3> QED BY <1>2, <3>1, <3>2 DEF RingOf
  <2>2. \A i \in 1 .. Len(s) : Nth[i] = s[i]
    <3> HIDE DEF N
    <3> TAKE i \in 1 .. Len(s)
    <3>1. StepsOf(last, next, i)[i] = s[i]
      BY StepsAlong
    <3>2. i \in 1 .. N + 1
      BY <2>1
    <3> QED BY <3>1, <3>2, NthSteps DEF N
  <2> HIDE DEF N
  <2>3. Len(s) \in stops /\ \A i \in stops : Len(s) <= i
    <3>1. Nth[Len(s)] = last
      BY <1>2, <2>1, <2>2 DEF RingOf
    <3>2. ASSUME NEW i \in stops, i < Len(s) PROVE FALSE
      BY <1>2, <2>1, <2>2, <3>2 DEF RingOf
    <3> QED BY <2>1, <3>1, <3>2
  <2>4. WalkLength = Len(s)
    <3>1. stops # {} /\ (CHOOSE i \in stops : \A j \in stops : i <= j) = Len(s)
      <4>1. \A i \in stops : (\A j \in stops : i <= j) => i = Len(s)
        BY <2>3, <2>1
      <4> QED BY <4>1, <2>3
    <3> QED BY <3>1 DEF WalkLength, N
  <2>5. SubSeq(Nth, 1, Len(s)) = s
    <3>1. \A i \in 1 .. Len(s) : Nth[i] \in Nodes
      BY <2>2, ElementOfSeq DEF RingOf
    <3>2. /\ SubSeq(Nth, 1, Len(s)) \in Seq(Nodes)
          /\ Len(SubSeq(Nth, 1, Len(s))) = IF 1 <= Len(s) THEN Len(s) - 1 + 1 ELSE 0
          /\ \A i \in 1 .. Len(s) - 1 + 1 : SubSeq(Nth, 1, Len(s))[i] = Nth[1 + i - 1]
      BY <2>1, <3>1, SubSeqProperties
    <3>3. Len(SubSeq(Nth, 1, Len(s))) = Len(s)
      BY <2>1, <3>2
    <3>4. \A i \in 1 .. Len(s) : SubSeq(Nth, 1, Len(s))[i] = s[i]
      <4> TAKE i \in 1 .. Len(s)
      <4>1. i \in 1 .. Len(s) - 1 + 1 /\ 1 + i - 1 = i
        BY <2>1
      <4> QED BY <4>1, <3>2, <2>2
    <3> QED BY <3>2, <3>3, <3>4, SeqEqual DEF RingOf
  <2>6. last # Null
    BY <2>1
  <2> QED BY <2>4, <2>5, <2>6 DEF Walk
<1> QED BY <1>1, <1>2

-----------------------------------------------------------------------------
(* What the pointer surgery of each function does to a ring. *)
Pointers == [Nodes -> Nodes \cup {Null}]

\* s without the node at position i.
Without(s, i) == SubSeq(s, 1, i - 1) \o SubSeq(s, i + 1, Len(s))

LEMMA WithoutIs ==
  ASSUME NEW s \in Seq(Nodes), NEW i \in 1 .. Len(s)
  PROVE  /\ Without(s, i) \in Seq(Nodes)
         /\ Len(Without(s, i)) = Len(s) - 1
         /\ \A j \in 1 .. Len(s) - 1 : Without(s, i)[j] = s[IF j < i THEN j ELSE j + 1]
<1> DEFINE a == SubSeq(s, 1, i - 1)
           b == SubSeq(s, i + 1, Len(s))
<1>1. Len(s) \in Nat /\ i \in Nat /\ \A j \in 1 .. Len(s) : s[j] \in Nodes
  OBVIOUS
<1>2. a \in Seq(Nodes) /\ Len(a) = i - 1 /\ \A j \in 1 .. i - 1 : a[j] = s[j]
  <2>1. /\ a \in Seq(Nodes)
        /\ Len(a) = IF 1 <= i - 1 THEN (i - 1) - 1 + 1 ELSE 0
        /\ \A j \in 1 .. (i - 1) - 1 + 1 : a[j] = s[1 + j - 1]
    <3>1. 1 \in Int /\ i - 1 \in Int /\ \A j \in 1 .. i - 1 : s[j] \in Nodes
      BY <1>1
    <3> QED BY <3>1, SubSeqProperties
  <2> HIDE DEF a
  <2> QED BY <2>1, <1>1
<1>3. b \in Seq(Nodes) /\ Len(b) = Len(s) - i /\ \A j \in 1 .. Len(s) - i : b[j] = s[i + j]
  <2>1. /\ b \in Seq(Nodes)
        /\ Len(b) = IF i + 1 <= Len(s) THEN Len(s) - (i + 1) + 1 ELSE 0
        /\ \A j \in 1 .. Len(s) - (i + 1) + 1 : b[j] = s[(i + 1) + j - 1]
    <3>1. i + 1 \in Int /\ Len(s) \in Int /\ \A j \in i + 1 .. Len(s) : s[j] \in Nodes
      BY <1>1
    <3> QED BY <3>1, SubSeqProperties
  <2> HIDE DEF b
  <2> QED BY <2>1, <1>1
<1>4. /\ a \o b \in Seq(Nodes)
      /\ Len(a \o b) = Len(a) + Len(b)
      /\ \A j \in 1 .. Len(a) + Len(b) : (a \o b)[j] = IF j <= Len(a) THEN a[j] ELSE b[j - Len(a)]
  BY <1>2, <1>3, ConcatProperties
<1>5. Without(s, i) = a \o b
  BY DEF Without
<1> HIDE DEF a, b
<1>6. Len(a) + Len(b) = Len(s) - 1
  BY <1>1, <1>2, <1>3
<1>7. ASSUME NEW j \in 1 .. Len(s) - 1
      PROVE  (a \o b)[j] = s[IF j < i THEN j ELSE j + 1]
  <2>1. CASE j < i
    <3>1. j \in 1 .. i - 1 /\ j <= Len(a)
      BY <2>1, <1>1, <1>2
    <3> QED BY <3>1, <2>1, <1>2, <1>4, <1>6
  <2>2. CASE ~(j < i)
    <3>1. j - (i - 1) \in 1 .. Len(s) - i /\ ~(j <= Len(a)) /\ i + (j - (i - 1)) = j + 1
      BY <2>2, <1>1, <1>2
    <3>2. b[j - (i - 1)] = s[i + (j - (i - 1))]
      BY <3>1, <1>3
    <3>3. (a \o b)[j] = b[j - Len(a)]
      BY <3>1, <1>4, <1>6
    <3> QED BY <3>1, <3>2, <3>3, <2>2, <1>2
  <2> QED BY <2>1, <2>2
<1> QED BY <1>4, <1>5, <1>6, <1>7

LEMMA TailIsWithout ==
  ASSUME NEW s \in Seq(Nodes), s # <<>>
  PROVE  Tail(s) = Without(s, 1)
<1>1. Len(s) \in Nat \ {0}
  BY EmptySeq
<1>2. Tail(s) \in Seq(Nodes) /\ Len(Tail(s)) = Len(s) - 1
      /\ \A i \in 1 .. Len(Tail(s)) : Tail(s)[i] = s[i + 1]
  BY HeadTailProperties
<1>3. /\ Without(s, 1) \in Seq(Nodes)
      /\ Len(Without(s, 1)) = Len(s) - 1
      /\ \A j \in 1 .. Len(s) - 1 : Without(s, 1)[j] = s[IF j < 1 THEN j ELSE j + 1]
  BY <1>1, WithoutIs
<1>4. \A j \in 1 .. Len(s) - 1 : Without(s, 1)[j] = s[j + 1]
  BY <1>3
<1> QED BY <1>2, <1>3, <1>4, SeqEqual

LEMMA FrontIsWithout ==
  ASSUME NEW s \in Seq(Nodes), s # <<>>
  PROVE  SubSeq(s, 1, Len(s) - 1) = Without(s, Len(s))
<1>1. Len(s) \in Nat \ {0}
  BY EmptySeq
<1>2. SubSeq(s, Len(s) + 1, Len(s)) = <<>>
  BY <1>1, SubSeqEmpty
<1>3. SubSeq(s, 1, Len(s) - 1) \in Seq(Nodes)
  <2>1. \A i \in 1 .. Len(s) - 1 : s[i] \in Nodes
    BY <1>1
  <2> QED BY <1>1, <2>1, SubSeqProperties
<1> QED BY <1>2, <1>3, ConcatEmptySeq DEF Without

\* clist_rpush links a new node behind the last.
LEMMA PushLast ==
  ASSUME NEW l, NEW nx \in Pointers, NEW s, RingOf(s, l, nx),
         NEW n \in Nodes, \A i \in 1 .. Len(s) : s[i] # n,
         NEW nx2, nx2 = IF l = Null THEN [nx EXCEPT ![n] = n]
                        ELSE [nx EXCEPT ![n] = nx[l], ![l] = n]
  PROVE  RingOf(Append(s, n), n, nx2)
<1> DEFINE t == Append(s, n)
<1>1. /\ t \in Seq(Nodes) /\ t # <<>> /\ Len(t) = Len(s) + 1 /\ t[Len(s) + 1] = n
      /\ \A i \in 1 .. Len(s) : t[i] = s[i]
  BY AppendProperties DEF RingOf
<1>2. Len(s) \in Nat /\ (\A i \in 1 .. Len(s) : s[i] \in Nodes) /\ (s # <<>> => Len(s) > 0)
  BY EmptySeq DEF RingOf
<1> HIDE DEF t
<1>3. \A i, j \in 1 .. Len(t) : t[i] = t[j] => i = j
  BY <1>1, <1>2 DEF RingOf
<1>4. CASE s = <<>>
  <2>1. Len(s) = 0 /\ l = Null
    BY <1>4, EmptySeq DEF RingOf
  <2>2. nx2[n] = n /\ t[1] = n
    BY <2>1, <1>1 DEF Pointers
  <2> QED BY <2>1, <2>2, <1>1, <1>3 DEF RingOf, t
<1>5. CASE s # <<>>
  <2>1. l \in Nodes /\ l # n /\ l = s[Len(s)] /\ nx[l] = s[1] /\ l # Null
    BY <1>2, <1>5 DEF RingOf
  <2>2. nx2[n] = s[1] /\ nx2[l] = n /\ \A m \in Nodes : m # n /\ m # l => nx2[m] = nx[m]
    BY <2>1 DEF Pointers
  <2>3. ASSUME NEW i \in 1 .. Len(t) - 1 PROVE nx2[t[i]] = t[i + 1]
    <3>1. CASE i = Len(s)
      BY <3>1, <2>1, <2>2, <1>1, <1>2
    <3>2. CASE i # Len(s)
      <4>1. i \in 1 .. Len(s) - 1 /\ i + 1 \in 1 .. Len(s) /\ i \in 1 .. Len(s)
        BY <3>2, <1>1, <1>2
      <4>2. t[i] = s[i] /\ t[i + 1] = s[i + 1] /\ s[i] # n /\ s[i] \in Nodes
        BY <4>1, <1>1, <1>2
      <4>3. s[i] # l
        BY <4>1, <2>1, <3>2, <1>2, <1>5 DEF RingOf
      <4>4. nx[s[i]] = s[i + 1]
        BY <4>1 DEF RingOf
      <4> QED BY <4>2, <4>3, <4>4, <2>2
    <3> QED BY <3>1, <3>2
  <2>4. t[1] = s[1]
    BY <1>1, <1>2, <1>5
  <2> QED BY <2>2, <2>3, <2>4, <1>1, <1>3 DEF RingOf, t
<1> QED BY <1>4, <1>5

\* clist_lpoprpush turns the ring by one node.
LEMMA Turn ==
  ASSUME NEW l, NEW nx \in Pointers, NEW s, RingOf(s, l, nx), s # <<>>
  PROVE  RingOf(Append(Tail(s), Head(s)), nx[l], nx)
<1> DEFINE t == Append(Tail(s), Head(s))
           L == Len(s)
<1>1. /\ L \in Nat \ {0} /\ (\A i \in 1 .. L : s[i] \in Nodes) /\ l = s[L] /\ nx[l] = s[1]
      /\ s \in Seq(Nodes)
  BY EmptySeq DEF RingOf
<1>2. /\ Head(s) \in Nodes /\ Tail(s) \in Seq(Nodes) /\ Len(Tail(s)) = L - 1
      /\ \A i \in 1 .. Len(Tail(s)) : Tail(s)[i] = s[i + 1]
  BY HeadTailProperties DEF RingOf
<1>3. Head(s) = s[1]
  BY <1>1
<1>4. /\ t \in Seq(Nodes) /\ t # <<>> /\ Len(t) = Len(Tail(s)) + 1
      /\ \A i \in 1 .. Len(Tail(s)) : t[i] = Tail(s)[i]
      /\ t[Len(Tail(s)) + 1] = Head(s)
  BY <1>2, AppendProperties
<1>5. Len(t) = L /\ t[L] = s[1] /\ \A i \in 1 .. L - 1 : t[i] = s[i + 1]
  BY <1>1, <1>2, <1>3, <1>4
<1> HIDE DEF t, L
<1>6. \A i, j \in 1 .. L : s[i] = s[j] => i = j
  BY DEF RingOf, L
<1>7. \A i, j \in 1 .. L : t[i] = t[j] => i = j
  <2> SUFFICES ASSUME NEW i \in 1 .. L, NEW j \in 1 .. L, t[i] = t[j] PROVE i = j
    OBVIOUS
  <2>1. CASE i = L /\ j # L
    BY <2>1, <1>1, <1>5, <1>6
  <2>2. CASE i # L /\ j = L
    BY <2>2, <1>1, <1>5, <1>6
  <2>3. CASE i # L /\ j # L
    <3>1. i + 1 \in 1 .. L /\ j + 1 \in 1 .. L /\ t[i] = s[i + 1] /\ t[j] = s[j + 1]
      BY <2>3, <1>1, <1>5
    <3>2. i + 1 = j + 1
      BY <3>1, <1>6, Zenon
    <3>3. L \in Nat
      BY <1>1
    <3> QED BY <3>2, <3>3
  <2> QED BY <2>1, <2>2, <2>3
<1>8. \A i \in 1 .. L - 1 : nx[s[i]] = s[i + 1]
  BY DEF RingOf, L
<1>9. nx[t[L]] = t[1]
  BY <1>1, <1>5, <1>8
<1>10. ASSUME NEW i \in 1 .. L - 1 PROVE nx[t[i]] = t[i + 1]
  <2>1. CASE i = L - 1
    BY <2>1, <1>1, <1>5
  <2>2. CASE i # L - 1
    <3>1. i + 1 \in 1 .. L - 1 /\ t[i] = s[i + 1] /\ t[i + 1] = s[i + 1 + 1]
      BY <2>2, <1>1, <1>5
    <3> QED BY <3>1, <1>8
  <2> QED BY <2>1, <2>2
<1>11. nx[l] = t[Len(t)]
  BY <1>1, <1>5
<1> QED BY <1>4, <1>5, <1>7, <1>9, <1>10, <1>11 DEF RingOf, t

\* clist_lpush links a new node in front of the first.
LEMMA PushFirst ==
  ASSUME NEW l, NEW nx \in Pointers, NEW s, RingOf(s, l, nx),
         NEW n \in Nodes, \A i \in 1 .. Len(s) : s[i] # n,
         NEW nx2, nx2 = IF l = Null THEN [nx EXCEPT ![n] = n]
                        ELSE [nx EXCEPT ![n] = nx[l], ![l] = n]
  PROVE  RingOf(<<n>> \o s, IF l = Null THEN n ELSE l, nx2)
<1> DEFINE t == <<n>> \o s
           L == Len(s)
           l2 == IF l = Null THEN n ELSE l
<1>1. L \in Nat /\ (\A i \in 1 .. L : s[i] \in Nodes) /\ (s # <<>> => L > 0) /\ s \in Seq(Nodes)
  BY EmptySeq DEF RingOf
<1>2. /\ t \in Seq(Nodes) /\ Len(t) = 1 + L
      /\ \A i \in 1 .. 1 + L : t[i] = IF i <= 1 THEN <<n>>[1] ELSE s[i - 1]
  <2>1. <<n>> \in Seq(Nodes) /\ Len(<<n>>) = 1 /\ \A i \in 1 .. 1 : <<n>>[i] = <<n>>[1]
    OBVIOUS
  <2>2. /\ t \in Seq(Nodes) /\ Len(t) = Len(<<n>>) + L
        /\ \A i \in 1 .. Len(<<n>>) + L :
             t[i] = IF i <= Len(<<n>>) THEN <<n>>[i] ELSE s[i - Len(<<n>>)]
    BY <1>1, <2>1, ConcatProperties
  <2> HIDE DEF t, L
  <2> QED BY <2>1, <2>2, <1>1
<1> HIDE DEF t
<1>3. t # <<>> /\ t[1] = n /\ \A i \in 1 .. L : t[i + 1] = s[i]
  <2>1. t # <<>>
    BY <1>1, <1>2, EmptySeq
  <2> HIDE DEF L
  <2> QED BY <2>1, <1>1, <1>2
<1>4. \A i, j \in 1 .. L : s[i] = s[j] => i = j
  BY DEF RingOf
<1>5. \A i, j \in 1 .. 1 + L : t[i] = t[j] => i = j
  <2> HIDE DEF L
  <2> SUFFICES ASSUME NEW i \in 1 .. 1 + L, NEW j \in 1 .. 1 + L, t[i] = t[j] PROVE i = j
    OBVIOUS
  <2>1. \A k \in 1 .. 1 + L : k # 1 => k - 1 \in 1 .. L /\ t[k] = s[k - 1] /\ t[k] # n
    BY <1>1, <1>2 DEF L
  <2>2. CASE i # 1 /\ j # 1
    <3>1. i - 1 = j - 1
      BY <2>1, <2>2, <1>4
    <3> QED BY <3>1, <1>1
  <2> QED BY <2>1, <2>2, <1>3
<1>6. CASE s = <<>>
  <2>1. L = 0 /\ l = Null
    BY <1>6, EmptySeq DEF RingOf
  <2>2. nx2[n] = n
    BY <2>1 DEF Pointers
  <2> QED BY <2>1, <2>2, <1>2, <1>3, <1>5 DEF RingOf, t
<1>7. CASE s # <<>>
  <2>1. l \in Nodes /\ l # n /\ l = s[L] /\ nx[l] = s[1] /\ l # Null /\ L \in 1 .. L
    BY <1>1, <1>7 DEF RingOf
  <2>2. nx2[n] = s[1] /\ nx2[l] = n /\ \A m \in Nodes : m # n /\ m # l => nx2[m] = nx[m]
    BY <2>1 DEF Pointers
  <2>3. \A i \in 1 .. L - 1 : nx[s[i]] = s[i + 1]
    BY DEF RingOf
  <2> HIDE DEF L
  <2>4. ASSUME NEW i \in 1 .. L PROVE nx2[t[i]] = t[i + 1]
    <3>1. CASE i = 1
      BY <3>1, <2>2, <1>3, <1>1
    <3>2. CASE i # 1
      <4>1. i - 1 \in 1 .. L - 1 /\ i - 1 \in 1 .. L /\ (i - 1) + 1 = i /\ i \in 1 .. L
        BY <3>2, <1>1
      <4>2. t[i] = s[i - 1] /\ t[i + 1] = s[i] /\ s[i - 1] \in Nodes /\ s[i - 1] # n
        BY <4>1, <1>1, <1>3 DEF L
      <4>3. s[i - 1] # l
        <5>1. i - 1 # L
          BY <1>1
        <5> QED BY <4>1, <5>1, <2>1, <1>4
      <4>4. nx2[s[i - 1]] = nx[s[i - 1]]
        BY <4>2, <4>3, <2>2
      <4>5. nx[s[i - 1]] = s[(i - 1) + 1]
        BY <4>1, <2>3
      <4>6. nx[s[i - 1]] = s[i]
        BY <4>1, <4>5
      <4> QED BY <4>2, <4>4, <4>6
    <3> QED BY <3>1, <3>2
  <2>5. t[1 + L] = l
    BY <1>1, <1>2, <2>1
  <2>6. l2 = l /\ nx2[l] = t[1]
    BY <2>1, <2>2, <1>3
  <2>7. \A i \in 1 .. Len(t) - 1 : nx2[t[i]] = t[i + 1]
    <3>1. Len(t) - 1 = L
      BY <1>1, <1>2
    <3> QED BY <2>4, <3>1
  <2> QED BY <2>5, <2>6, <2>7, <1>1, <1>2, <1>3, <1>5 DEF RingOf, t
<1> QED BY <1>6, <1>7

\* A node leaves the ring when its predecessor is linked to its successor, and
\* list->next goes to the predecessor when the node was the last.
LEMMA LinkPast ==
  ASSUME NEW l, NEW nx \in Pointers, NEW s, RingOf(s, l, nx),
         NEW i \in 1 .. Len(s), Len(s) > 1,
         NEW p, p = IF i = 1 THEN l ELSE s[i - 1],
         NEW l2, l2 = IF i = Len(s) THEN p ELSE l
  PROVE  RingOf(Without(s, i), l2, [nx EXCEPT ![p] = nx[s[i]]])
<1> DEFINE t == Without(s, i)
           L == Len(s)
           nx2 == [nx EXCEPT ![p] = nx[s[i]]]
<1>1. /\ L \in Nat /\ L > 1 /\ i \in 1 .. L /\ s \in Seq(Nodes) /\ \A j \in 1 .. L : s[j] \in Nodes
      /\ \A j, k \in 1 .. L : s[j] = s[k] => j = k
      /\ l = s[L] /\ nx[l] = s[1]
      /\ \A j \in 1 .. L - 1 : nx[s[j]] = s[j + 1]
  BY EmptySeq DEF RingOf
<1>2. /\ t \in Seq(Nodes) /\ Len(t) = L - 1
      /\ \A j \in 1 .. L - 1 : t[j] = s[IF j < i THEN j ELSE j + 1]
  BY <1>1, WithoutIs
<1> HIDE DEF t, L
<1>3. t # <<>>
  BY <1>1, <1>2, EmptySeq
<1>4. \A j, k \in 1 .. L - 1 : t[j] = t[k] => j = k
  <2> SUFFICES ASSUME NEW j \in 1 .. L - 1, NEW k \in 1 .. L - 1, t[j] = t[k] PROVE j = k
    OBVIOUS
  <2> DEFINE a == IF j < i THEN j ELSE j + 1
             b == IF k < i THEN k ELSE k + 1
  <2>1. a \in 1 .. L /\ b \in 1 .. L /\ (a = b => j = k)
    BY <1>1
  <2>2. s[a] = s[b]
    BY <1>2
  <2> HIDE DEF a, b
  <2> QED BY <2>1, <2>2, <1>1
<1>5. PICK q \in 1 .. L : p = s[q] /\ q = IF i = 1 THEN L ELSE i - 1
  <2>1. CASE i = 1
    BY <2>1, <1>1
  <2>2. CASE i # 1
    <3>1. i - 1 \in 1 .. L
      BY <2>2, <1>1
    <3> QED BY <2>2, <3>1
  <2> QED BY <2>1, <2>2
<1>6. p \in Nodes /\ nx2[p] = nx[s[i]] /\ \A j \in 1 .. L : j # q => nx2[s[j]] = nx[s[j]]
  BY <1>1, <1>5 DEF Pointers
<1> HIDE DEF nx2
<1>7. t[1] = IF i = 1 THEN s[2] ELSE s[1]
  BY <1>1, <1>2
<1>8. l2 = t[L - 1]
  <2>1. t[L - 1] = s[IF L - 1 < i THEN L - 1 ELSE L - 1 + 1]
    BY <1>1, <1>2
  <2>2. CASE i = L
    BY <2>1, <2>2, <1>1 DEF L
  <2>3. CASE i # L
    <3>1. ~(L - 1 < i) /\ L - 1 + 1 = L
      BY <2>3, <1>1
    <3> QED BY <2>1, <2>3, <3>1, <1>1 DEF L
  <2> QED BY <2>2, <2>3
<1>9. nx2[l2] = t[1]
  <2>1. CASE i = L
    <3>1. l2 = p /\ nx2[l2] = nx[s[L]] /\ i # 1
      BY <2>1, <1>1, <1>6 DEF L
    <3> QED BY <3>1, <1>1, <1>7
  <2>2. CASE i # L /\ i = 1
    <3>1. l2 = p /\ 1 \in 1 .. L - 1
      BY <2>2, <1>1 DEF L
    <3>2. nx[s[1]] = s[1 + 1]
      BY <3>1, <1>1
    <3> QED BY <2>2, <3>1, <3>2, <1>6, <1>7
  <2>3. CASE i # L /\ i # 1
    <3>1. l2 = s[L] /\ L # q /\ L \in 1 .. L
      BY <2>3, <1>1, <1>5 DEF L
    <3> QED BY <2>3, <3>1, <1>1, <1>6, <1>7
  <2> QED BY <2>1, <2>2, <2>3
<1>10. ASSUME NEW j \in 1 .. (L - 1) - 1 PROVE nx2[t[j]] = t[j + 1]
  <2>1. t[j] = s[IF j < i THEN j ELSE j + 1] /\ t[j + 1] = s[IF j + 1 < i THEN j + 1 ELSE j + 1 + 1]
    <3>1. j \in 1 .. L - 1 /\ j + 1 \in 1 .. L - 1
      BY <1>1
    <3> QED BY <3>1, <1>2
  <2>2. CASE j + 1 < i
    <3>1. j < i /\ j # q /\ j \in 1 .. L - 1 /\ j \in 1 .. L
      BY <2>2, <1>1, <1>5
    <3> QED BY <2>1, <2>2, <3>1, <1>1, <1>6
  <2>3. CASE j + 1 = i
    <3>1. j < i /\ j = q /\ i \in 1 .. L - 1
      BY <2>3, <1>1, <1>5
    <3>2. nx[s[i]] = s[i + 1]
      BY <3>1, <1>1
    <3> QED BY <2>1, <2>3, <3>1, <3>2, <1>5, <1>6
  <2>4. CASE j + 1 > i
    <3>1. ~(j < i) /\ ~(j + 1 < i) /\ j + 1 # q /\ j + 1 \in 1 .. L - 1 /\ j + 1 \in 1 .. L
      BY <2>4, <1>1, <1>5
    <3> QED BY <2>1, <3>1, <1>1, <1>6
  <2>5. j + 1 < i \/ j + 1 = i \/ j + 1 > i
    BY <1>1
  <2> QED BY <2>2, <2>3, <2>4, <2>5
<1> QED BY <1>1, <1>2, <1>3, <1>4, <1>8, <1>9, <1>10 DEF RingOf, t, nx2

\* The last node to leave leaves an empty list.
LEMMA LastOut ==
  ASSUME NEW l, NEW nx, NEW nx2, NEW s, RingOf(s, l, nx), Len(s) = 1
  PROVE  RingOf(Without(s, 1), Null, nx2) /\ Without(s, 1) = <<>>
<1>1. s \in Seq(Nodes)
  BY DEF RingOf
<1>2. Without(s, 1) \in Seq(Nodes) /\ Len(Without(s, 1)) = 0
  BY <1>1, WithoutIs
<1>3. Without(s, 1) = <<>>
  BY <1>2, EmptySeq
<1> QED BY <1>2, <1>3, EmptySeq DEF RingOf

-----------------------------------------------------------------------------
(* What the searches answer. *)

\* clist_find_before stops at the predecessor of a node of the ring, and
\* clist_find at the node.
LEMMA SearchHit ==
  ASSUME ClistInv, NEW i \in 1 .. Len(Walk)
  PROVE  /\ FindBefore(Walk[i]) = IF i = 1 THEN last ELSE Walk[i - 1]
         /\ FindNode(Walk[i]) = Walk[i]
<1> DEFINE s == Walk
           L == Len(s)
           q == IF i = 1 THEN L ELSE i - 1
           before == {j \in DOMAIN s : next[s[j]] = s[i]}
<1>1. /\ L \in Nat /\ L > 0 /\ i \in 1 .. L /\ s \in Seq(Nodes) /\ DOMAIN s = 1 .. L
      /\ \A j \in 1 .. L : s[j] \in Nodes
      /\ \A j, k \in 1 .. L : s[j] = s[k] => j = k
      /\ last = s[L] /\ next[last] = s[1]
      /\ \A j \in 1 .. L - 1 : next[s[j]] = s[j + 1]
  BY EmptySeq DEF ClistInv, RingOf
<1> HIDE DEF s, L
<1>2. q \in 1 .. L /\ next[s[q]] = s[i] /\ s[q] = IF i = 1 THEN last ELSE s[i - 1]
  <2>1. CASE i = 1
    BY <2>1, <1>1
  <2>2. CASE i # 1
    <3>1. i - 1 \in 1 .. L - 1 /\ (i - 1) + 1 = i
      BY <2>2, <1>1
    <3>2. next[s[i - 1]] = s[(i - 1) + 1]
      BY <3>1, <1>1
    <3> QED BY <2>2, <3>1, <3>2, <1>1
  <2> QED BY <2>1, <2>2
<1>3. ASSUME NEW j \in 1 .. L, next[s[j]] = s[i] PROVE j = q
  <2>1. CASE j = L
    <3>1. i = 1
      BY <2>1, <1>1, <1>3
    <3> QED BY <2>1, <3>1
  <2>2. CASE j # L
    <3>1. j \in 1 .. L - 1 /\ j + 1 \in 1 .. L
      BY <2>2, <1>1
    <3>2. j + 1 = i
      BY <3>1, <1>1, <1>3
    <3> QED BY <3>1, <3>2, <1>1
  <2> QED BY <2>1, <2>2
<1> HIDE DEF q
<1>4. before = {q}
  BY <1>1, <1>2, <1>3
<1>5. (CHOOSE j \in before : \A k \in before : j <= k) = q
  BY <1>4, <1>2
<1>6. FindBefore(s[i]) = s[q]
  BY <1>4, <1>5 DEF FindBefore, s
<1>7. s[q] # Null
  BY <1>1, <1>2
<1> QED BY <1>2, <1>6, <1>7 DEF FindNode, s

\* Both answer NULL for a node that is not in the ring.
LEMMA SearchMiss ==
  ASSUME ClistInv, NEW n, \A i \in 1 .. Len(Walk) : Walk[i] # n
  PROVE  FindBefore(n) = Null /\ FindNode(n) = Null
<1> DEFINE s == Walk
           L == Len(s)
<1>1. /\ L \in Nat /\ s \in Seq(Nodes) /\ DOMAIN s = 1 .. L
      /\ s # <<>> => L > 0 /\ last = s[L] /\ next[last] = s[1]
      /\ \A j \in 1 .. L - 1 : next[s[j]] = s[j + 1]
      /\ \A j \in 1 .. L : s[j] # n
  BY EmptySeq DEF ClistInv, RingOf
<1> HIDE DEF s, L
<1>2. ASSUME NEW j \in 1 .. L, next[s[j]] = n PROVE FALSE
  <2>1. s # <<>>
    BY <1>1 DEF s, L
  <2>2. CASE j = L
    BY <2>1, <2>2, <1>1, <1>2
  <2>3. CASE j # L
    <3>1. j \in 1 .. L - 1 /\ j + 1 \in 1 .. L
      BY <2>3, <1>1
    <3> QED BY <3>1, <1>1, <1>2
  <2> QED BY <2>2, <2>3
<1>3. {j \in DOMAIN s : next[s[j]] = n} = {}
  BY <1>1, <1>2
<1> QED BY <1>3 DEF FindBefore, FindNode, s

\* check_mount's question, answered by clist_find, is whether a mount is listed.
LEMMA OfferedAbsent ==
  ASSUME ClistInv, NEW n \in Offered
  PROVE  n \in Nodes /\ \A i \in 1 .. Len(Walk) : Walk[i] # n
<1>1. n \in Nodes /\ FindNode(n) = Null
  BY DEF Offered
<1>2. ASSUME NEW i \in 1 .. Len(Walk), Walk[i] = n PROVE FALSE
  BY <1>1, <1>2, SearchHit
<1> QED BY <1>1, <1>2

\* The walk after a step that leaves a ring.
LEMMA WalkAfter == (\A s : RingOf(s, last, next) => Walk = s)'
<1>1. \A s : RingOf(s, last, next) => Walk = s
  BY WalkIsRing
<1> QED BY <1>1, PTL

-----------------------------------------------------------------------------
(* The invariant, and the step of the sequence that each function makes. *)
LEMMA RingAfter ==
  ASSUME NEW t, RingOf(t, last', next'), next' \in Pointers
  PROVE  Walk' = t /\ ClistInv'
BY WalkAfter DEF ClistInv, RingOf, Pointers

LEMMA RingStays ==
  ASSUME ClistInv, UNCHANGED <<last, next>>
  PROVE  Walk' = Walk /\ ClistInv'
<1>1. RingOf(Walk, last', next') /\ next' \in Pointers
  BY DEF ClistInv, RingOf, Pointers
<1> QED BY <1>1, RingAfter

LEMMA InitRing ==
  ASSUME Init
  PROVE  ClistInv /\ Abstract!Init
<1>1. Walk = <<>>
  BY DEF Init, Walk
<1>2. RingOf(<<>>, Null, next)
  BY EmptySeq DEF RingOf
<1> QED BY <1>1, <1>2 DEF Init, ClistInv, Abstract!Init

LEMMA RpushRing ==
  ASSUME ClistInv, NEW n \in Offered, Rpush(n)
  PROVE  ClistInv' /\ Abstract!Rpush
<1>1. n \in Nodes /\ \A i \in 1 .. Len(Walk) : Walk[i] # n
  BY OfferedAbsent
<1>2. RingOf(Append(Walk, n), last', next')
  <2>1. RingOf(Walk, last, next) /\ next \in Pointers /\ last' = n
        /\ next' = IF last = Null THEN [next EXCEPT ![n] = n]
                   ELSE [next EXCEPT ![n] = next[last], ![last] = n]
    BY DEF ClistInv, Rpush, Pointers
  <2>2. RingOf(Append(Walk, n), n, next')
    BY <2>1, <1>1, PushLast
  <2> QED BY <2>1, <2>2
<1>3. next' \in Pointers
  <2>1. last = Null \/ next[last] \in Nodes
    BY EmptySeq DEF ClistInv, RingOf
  <2> QED BY <1>1, <2>1 DEF ClistInv, Pointers, Rpush
<1>4. Walk' = Append(Walk, n) /\ ClistInv'
  BY <1>2, <1>3, RingAfter
<1>5. DOMAIN Walk = 1 .. Len(Walk)
  BY DEF ClistInv, RingOf
<1>6. n \in Abstract!Absent
  BY <1>1, <1>5 DEF Abstract!Absent, Abstract!ToSet
<1> QED BY <1>4, <1>6 DEF Rpush, Done, Abstract!Rpush, Abstract!Done

LEMMA LpushRing ==
  ASSUME ClistInv, NEW n \in Offered, Lpush(n)
  PROVE  ClistInv' /\ Abstract!Lpush
<1>1. n \in Nodes /\ \A i \in 1 .. Len(Walk) : Walk[i] # n
  BY OfferedAbsent
<1>2. RingOf(Walk, last, next) /\ next \in Pointers /\ (last = Null \/ next[last] \in Nodes)
  BY EmptySeq DEF ClistInv, RingOf, Pointers
<1>3. /\ last' = IF last = Null THEN n ELSE last
      /\ next' = IF last = Null THEN [next EXCEPT ![n] = n]
                 ELSE [next EXCEPT ![n] = next[last], ![last] = n]
  BY DEF Lpush
<1>4. RingOf(<<n>> \o Walk, last', next')
  BY <1>1, <1>2, <1>3, PushFirst
<1>5. next' \in Pointers
  BY <1>1, <1>2, <1>3 DEF Pointers
<1>6. Walk' = <<n>> \o Walk /\ ClistInv'
  BY <1>4, <1>5, RingAfter
<1>7. DOMAIN Walk = 1 .. Len(Walk)
  BY DEF ClistInv, RingOf
<1>8. n \in Abstract!Absent
  BY <1>1, <1>7 DEF Abstract!Absent, Abstract!ToSet
<1> QED BY <1>6, <1>8 DEF Lpush, Done, Abstract!Lpush, Abstract!Done

\* clist_lpop, by itself or as the first case of clist_remove.
LEMMA PopRing ==
  ASSUME ClistInv, NEW op, NEW n, PopFirst(op, n)
  PROVE  /\ ClistInv'
         /\ Walk = <<>> => Walk' = Walk /\ Done(op, n, Null)
         /\ Walk # <<>> => Walk' = Tail(Walk) /\ Done(op, n, Head(Walk)) /\ Head(Walk) = next[last]
<1>1. /\ RingOf(Walk, last, next) /\ next \in Pointers /\ Walk \in Seq(Nodes)
      /\ Walk = <<>> <=> last = Null
  BY EmptySeq DEF ClistInv, RingOf, Pointers
<1>2. CASE Walk = <<>>
  <2>1. Done(op, n, Null) /\ UNCHANGED <<last, next>>
    BY <1>1, <1>2 DEF PopFirst
  <2> QED BY <1>2, <2>1, RingStays
<1>3. CASE Walk # <<>>
  <2> DEFINE L == Len(Walk)
  <2>1. /\ L \in Nat /\ L > 0 /\ last = Walk[L] /\ next[last] = Walk[1]
        /\ (Walk[L] = Walk[1] => L = 1)
    <3>1. L \in Nat \ {0}
      BY <1>1, <1>3, EmptySeq
    <3>2. /\ last = Walk[L] /\ next[last] = Walk[1]
          /\ \A i, j \in 1 .. L : Walk[i] = Walk[j] => i = j
      BY <1>1, <1>3 DEF RingOf
    <3> HIDE DEF L
    <3>3. 1 \in 1 .. L /\ L \in 1 .. L /\ L > 0
      BY <3>1
    <3> QED BY <3>1, <3>2, <3>3
  <2>2. Head(Walk) = Walk[1] /\ Tail(Walk) = Without(Walk, 1)
    BY <1>1, <1>3, TailIsWithout
  <2>3. Done(op, n, next[last])
    BY <1>1, <1>3 DEF PopFirst
  <2>4. CASE L = 1
    <3>1. last' = Null /\ next' = next
      BY <1>1, <1>3, <2>1, <2>4 DEF PopFirst
    <3>2. RingOf(Without(Walk, 1), last', next')
      BY <1>1, <2>4, <3>1, LastOut
    <3> QED BY <1>1, <1>3, <2>1, <2>2, <2>3, <3>1, <3>2, RingAfter
  <2>5. CASE L # 1
    <3>1. last # next[last]
      BY <2>1, <2>5
    <3>2. last' = last /\ next' = [next EXCEPT ![last] = next[Walk[1]]]
      BY <1>1, <1>3, <2>1, <3>1 DEF PopFirst
    <3>3. 1 \in 1 .. L /\ L > 1 /\ last = (IF 1 = 1 THEN last ELSE Walk[1 - 1])
          /\ last = (IF 1 = L THEN last ELSE last)
      BY <2>1, <2>5
    <3>4. RingOf(Without(Walk, 1), last, [next EXCEPT ![last] = next[Walk[1]]])
      BY <1>1, <3>3, LinkPast
    <3>5. next' \in Pointers
      <4>1. Walk[1] \in Nodes
        BY <1>1, <2>1
      <4> QED BY <1>1, <3>2, <4>1 DEF Pointers
    <3> QED BY <1>3, <2>1, <2>2, <2>3, <3>2, <3>4, <3>5, RingAfter
  <2> QED BY <2>4, <2>5
<1> QED BY <1>2, <1>3

LEMMA LpopRing ==
  ASSUME ClistInv, Lpop
  PROVE  ClistInv' /\ Abstract!Lpop
BY PopRing DEF Lpop, Done, Abstract!Lpop, Abstract!Done

LEMMA RotateRing ==
  ASSUME ClistInv, Rotate
  PROVE  ClistInv' /\ Abstract!Rotate
<1>1. /\ RingOf(Walk, last, next) /\ next \in Pointers
      /\ Walk = <<>> <=> last = Null
  BY EmptySeq DEF ClistInv, RingOf, Pointers
<1>2. CASE Walk = <<>>
  BY <1>1, <1>2, RingStays DEF Rotate, Done, Abstract!Rotate, Abstract!Done
<1>3. CASE Walk # <<>>
  <2>1. RingOf(Append(Tail(Walk), Head(Walk)), last', next') /\ next' \in Pointers
    BY <1>1, <1>3, Turn DEF Rotate
  <2> QED BY <1>3, <2>1, RingAfter DEF Rotate, Done, Abstract!Rotate, Abstract!Done
<1> QED BY <1>2, <1>3

\* The case of clist_rpop and clist_remove that takes out a node behind another.
LEMMA LinkPastRing ==
  ASSUME ClistInv, NEW i \in 1 .. Len(Walk), Len(Walk) > 1,
         NEW p, p = IF i = 1 THEN last ELSE Walk[i - 1],
         last' = (IF Walk[i] = last THEN p ELSE last),
         next' = [next EXCEPT ![p] = next[Walk[i]]]
  PROVE  ClistInv' /\ Walk' = Without(Walk, i)
<1>1. /\ RingOf(Walk, last, next) /\ next \in Pointers /\ Walk[i] \in Nodes
      /\ Walk[i] = last <=> i = Len(Walk)
  BY EmptySeq DEF ClistInv, RingOf, Pointers
<1>2. last' = IF i = Len(Walk) THEN p ELSE last
  BY <1>1
<1>3. RingOf(Without(Walk, i), last', next')
  BY <1>1, <1>2, LinkPast
<1>4. next' \in Pointers
  BY <1>1 DEF Pointers
<1> QED BY <1>3, <1>4, RingAfter

LEMMA RpopRing ==
  ASSUME ClistInv, Rpop
  PROVE  ClistInv' /\ Abstract!Rpop
<1> DEFINE L == Len(Walk)
<1>1. /\ RingOf(Walk, last, next) /\ Walk \in Seq(Nodes)
      /\ Walk = <<>> <=> last = Null
  BY EmptySeq DEF ClistInv, RingOf
<1>2. CASE Walk = <<>>
  BY <1>1, <1>2, RingStays DEF Rpop, Done, Abstract!Rpop, Abstract!Done
<1>3. CASE Walk # <<>>
  <2>1. L \in Nat \ {0} /\ last = Walk[L] /\ \A i, j \in 1 .. L : Walk[i] = Walk[j] => i = j
    BY <1>1, <1>3, EmptySeq DEF RingOf
  <2>2. FindBefore(last) = IF L = 1 THEN last ELSE Walk[L - 1]
    <3>1. L \in 1 .. Len(Walk)
      BY <2>1
    <3> QED BY <2>1, <3>1, SearchHit
  <2>3. /\ Done("rpop", Null, last)
        /\ IF FindBefore(last) = last THEN last' = Null /\ UNCHANGED next
           ELSE /\ next' = [next EXCEPT ![FindBefore(last)] = next[last]]
                /\ last' = FindBefore(last)
    BY <1>1, <1>3 DEF Rpop
  <2>4. Abstract!Front(Walk) = Without(Walk, L) /\ Abstract!Last(Walk) = last
    BY <1>1, <1>3, <2>1, FrontIsWithout DEF Abstract!Front, Abstract!Last
  <2>5. ClistInv' /\ Walk' = Without(Walk, L)
    <3>1. CASE L = 1
      <4>1. last' = Null /\ next' = next
        BY <2>2, <2>3, <3>1
      <4>2. RingOf(Without(Walk, L), last', next')
        BY <1>1, <3>1, <4>1, LastOut
      <4> QED BY <4>1, <4>2, RingAfter DEF ClistInv, Pointers
    <3>2. CASE L # 1
      <4>1. L - 1 \in 1 .. L /\ L \in 1 .. L /\ L - 1 # L /\ L > 1
        <5>1. L \in Nat \ {0}
          BY <2>1
        <5> HIDE DEF L
        <5> QED BY <5>1, <3>2
      <4>2. Walk[L - 1] # last
        BY <2>1, <4>1
      <4> DEFINE p == Walk[L - 1]
      <4>3. next' = [next EXCEPT ![p] = next[Walk[L]]] /\ last' = p
        BY <2>1, <2>2, <2>3, <3>2, <4>2
      <4>4. /\ p = (IF L = 1 THEN last ELSE Walk[L - 1])
            /\ last' = (IF Walk[L] = last THEN p ELSE last)
        BY <2>1, <3>2, <4>3
      <4> HIDE DEF p
      <4> QED BY <4>1, <4>3, <4>4, LinkPastRing
    <3> QED BY <3>1, <3>2
  <2> QED BY <1>3, <2>3, <2>4, <2>5 DEF Done, Abstract!Rpop, Abstract!Done
<1> QED BY <1>2, <1>3

\* RemoveFirst takes out the only position of a node, or nothing.
LEMMA RemoveHit ==
  ASSUME ClistInv, NEW i \in 1 .. Len(Walk)
  PROVE  /\ Abstract!Contains(Walk, Walk[i])
         /\ Abstract!RemoveFirst(Walk, Walk[i]) = Without(Walk, i)
<1> DEFINE hits == {j \in 1 .. Len(Walk) : Walk[j] = Walk[i]}
<1>1. hits = {i}
  BY DEF ClistInv, RingOf
<1>2. Abstract!Min(hits) = i
  <2>1. Len(Walk) \in Nat
    BY DEF ClistInv, RingOf
  <2> QED BY <1>1, <2>1 DEF Abstract!Min
<1>3. Abstract!RemoveFirst(Walk, Walk[i]) = Abstract!RemoveAt(Walk, Abstract!Min(hits))
  BY <1>1 DEF Abstract!RemoveFirst, Abstract!SelectInSeq
<1> QED BY <1>2, <1>3 DEF Abstract!Contains, Abstract!RemoveAt, Without

LEMMA RemoveMiss ==
  ASSUME NEW n, \A i \in 1 .. Len(Walk) : Walk[i] # n
  PROVE  ~Abstract!Contains(Walk, n) /\ Abstract!RemoveFirst(Walk, n) = Walk
BY DEF Abstract!Contains, Abstract!RemoveFirst

LEMMA RemoveRing ==
  ASSUME ClistInv, NEW n \in Nodes, Remove(n)
  PROVE  ClistInv' /\ Abstract!TakeOut
<1> DEFINE L == Len(Walk)
<1>1. /\ RingOf(Walk, last, next) /\ Walk \in Seq(Nodes) /\ L \in Nat
      /\ Walk = <<>> <=> last = Null
      /\ \A i, j \in 1 .. L : Walk[i] = Walk[j] => i = j
  BY EmptySeq DEF ClistInv, RingOf
<1>2. CASE \A i \in 1 .. L : Walk[i] # n
  <2>1. FindBefore(n) = Null
    BY <1>2, SearchMiss
  <2>2. ~(last # Null /\ next[last] = n)
    <3>1. ASSUME last # Null PROVE 1 \in 1 .. L /\ next[last] = Walk[1]
      BY <1>1, <3>1, EmptySeq DEF RingOf
    <3> QED BY <1>2, <3>1
  <2>3. Done("remove", n, Null) /\ UNCHANGED <<last, next>>
    BY <2>1, <2>2 DEF Remove
  <2>4. ClistInv' /\ Walk' = Walk
    BY <2>3, RingStays
  <2>5. ~Abstract!Contains(Walk, n) /\ Abstract!RemoveFirst(Walk, n) = Walk
    BY <1>2, RemoveMiss
  <2> QED BY <2>3, <2>4, <2>5 DEF Done, Abstract!TakeOut, Abstract!Done
<1>3. CASE \E i \in 1 .. L : Walk[i] = n
  <2>1. PICK i \in 1 .. L : Walk[i] = n
    BY <1>3
  <2>2. Walk # <<>> /\ last # Null /\ next[last] = Walk[1] /\ last = Walk[L]
    BY <1>1, <2>1, EmptySeq DEF RingOf
  <2>3. Abstract!Contains(Walk, n) /\ Abstract!RemoveFirst(Walk, n) = Without(Walk, i)
    BY <2>1, RemoveHit
  <2>4. FindBefore(n) = (IF i = 1 THEN last ELSE Walk[i - 1]) /\ FindBefore(n) # Null
    <3>1. FindBefore(Walk[i]) = IF i = 1 THEN last ELSE Walk[i - 1]
      BY SearchHit
    <3>2. i # 1 => i - 1 \in 1 .. L
      BY <1>1
    <3>3. \A j \in 1 .. L : Walk[j] \in Nodes
      BY <1>1
    <3> QED BY <2>1, <2>2, <3>1, <3>2, <3>3
  <2>5. CASE i = 1
    <3>1. PopFirst("remove", n)
      BY <2>1, <2>2, <2>4, <2>5 DEF Remove
    <3>2. Walk' = Tail(Walk) /\ Done("remove", n, Head(Walk)) /\ Head(Walk) = next[last] /\ ClistInv'
      BY <2>2, <3>1, PopRing
    <3>3. Tail(Walk) = Without(Walk, 1)
      BY <1>1, <2>2, TailIsWithout
    <3> QED BY <2>1, <2>2, <2>3, <2>5, <3>2, <3>3 DEF Done, Abstract!TakeOut, Abstract!Done
  <2>6. CASE i # 1
    <3>1. next[last] # n /\ L > 1
      <4>1. 1 \in 1 .. L /\ L > 1
        BY <1>1, <2>6
      <4> QED BY <1>1, <2>1, <2>2, <2>6, <4>1
    <3> DEFINE p == FindBefore(n)
    <3>2. /\ next' = [next EXCEPT ![p] = next[n]]
          /\ last' = (IF n = last THEN p ELSE last)
          /\ Done("remove", n, n)
      BY <2>2, <2>4, <3>1 DEF Remove
    <3>3. p = IF i = 1 THEN last ELSE Walk[i - 1]
      BY <2>4
    <3> HIDE DEF p
    <3>4. /\ next' = [next EXCEPT ![p] = next[Walk[i]]]
          /\ last' = (IF Walk[i] = last THEN p ELSE last)
      BY <2>1, <3>2
    <3>5. ClistInv' /\ Walk' = Without(Walk, i)
      BY <3>1, <3>3, <3>4, LinkPastRing
    <3> QED BY <2>3, <3>2, <3>5 DEF Done, Abstract!TakeOut, Abstract!Done
  <2> QED BY <2>5, <2>6
<1> QED BY <1>2, <1>3

LEMMA FindRing ==
  ASSUME ClistInv, NEW n \in Nodes, Find(n)
  PROVE  ClistInv' /\ Abstract!Find
<1>1. ClistInv' /\ Walk' = Walk
  BY RingStays DEF Find
<1>2. CASE \A i \in 1 .. Len(Walk) : Walk[i] # n
  BY <1>1, <1>2, SearchMiss, RemoveMiss DEF Find, Done, Abstract!Find, Abstract!Done
<1>3. CASE \E i \in 1 .. Len(Walk) : Walk[i] = n
  <2>1. PICK i \in 1 .. Len(Walk) : Walk[i] = n
    BY <1>3
  <2>2. FindNode(n) = n /\ Abstract!Contains(Walk, n)
    BY <2>1, SearchHit, RemoveHit
  <2> QED BY <1>1, <2>2 DEF Find, Done, Abstract!Find, Abstract!Done
<1> QED BY <1>2, <1>3

-----------------------------------------------------------------------------
LEMMA RingStep ==
  ASSUME ClistInv, [Next]_vars
  PROVE  ClistInv' /\ [Abstract!Next]_<<Walk, call>>
<1>1. CASE UNCHANGED vars
  BY <1>1, RingStays DEF vars
<1>2. ASSUME NEW n \in Offered, Rpush(n) PROVE ClistInv' /\ Abstract!Next
  BY <1>2, RpushRing DEF Abstract!Next
<1>3. ASSUME NEW n \in Offered, Lpush(n) PROVE ClistInv' /\ Abstract!Next
  BY <1>3, LpushRing DEF Abstract!Next
<1>4. ASSUME NEW n \in Nodes, Remove(n) PROVE ClistInv' /\ Abstract!Next
  BY <1>4, RemoveRing DEF Abstract!Next
<1>5. ASSUME NEW n \in Nodes, Find(n) PROVE ClistInv' /\ Abstract!Next
  BY <1>5, FindRing DEF Abstract!Next
<1>6. ASSUME Lpop PROVE ClistInv' /\ Abstract!Next
  BY <1>6, LpopRing DEF Abstract!Next
<1>7. ASSUME Rpop PROVE ClistInv' /\ Abstract!Next
  BY <1>7, RpopRing DEF Abstract!Next
<1>8. ASSUME Rotate PROVE ClistInv' /\ Abstract!Next
  BY <1>8, RotateRing DEF Abstract!Next
<1> QED BY <1>1, <1>2, <1>3, <1>4, <1>5, <1>6, <1>7, <1>8 DEF Next

LEMMA InvRing ==
  ASSUME ClistInv
  PROVE  Ring
<1>1. /\ RingOf(Walk, last, next) /\ (last # Null => Walk # <<>>)
      /\ Walk \in Seq(Nodes) /\ DOMAIN Walk = 1 .. Len(Walk)
  BY EmptySeq DEF ClistInv, RingOf
<1>2. Walk # <<>> => WalkLength = Len(Walk) /\ Len(Walk) > 0
  BY <1>1, WalkIsRing, EmptySeq
<1> QED BY <1>1, <1>2 DEF Ring, RingOf

\* The nodes reachable from list->next always form one ring in which no node
\* occurs twice, whatever operations a client performs on however many nodes:
\* every loop of clist.h ends and sees every node once.
THEOREM RingKept == Spec => []Ring
<1>1. Init => ClistInv
  BY InitRing
<1>2. ClistInv /\ [Next]_vars => ClistInv'
  BY RingStep
<1>3. ClistInv => Ring
  BY InvRing
<1> QED BY <1>1, <1>2, <1>3, PTL DEF Spec

\* The pointers of clist.h implement the sequence of ListApi: the list that the
\* functions keep is the one the sequence operations give, and every function
\* answers with the node the sequence would.
THEOREM ClistImplementsList == Spec => ListSpec
<1>1. Init => ClistInv /\ Abstract!Init
  BY InitRing
<1>2. ClistInv /\ [Next]_vars => ClistInv' /\ [Abstract!Next]_<<Walk, call>>
  BY RingStep
<1> QED BY <1>1, <1>2, PTL DEF Spec, ListSpec, Abstract!Spec

=============================================================================
