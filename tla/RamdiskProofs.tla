---------------------------- MODULE RamdiskProofs ----------------------------
(***************************************************************************)
(* For every sector size, number of sectors and word size that satisfy     *)
(* RamdiskConstants, no call leaves its disk and every call does exactly   *)
(* what its arguments mean in unbounded arithmetic.                        *)
(***************************************************************************)
EXTENDS Ramdisk, TLAPS

\* A sum of an address inside the disk and a size is less than two words: the
\* remainder tells whether it wrapped.
LEMMA OneWrap ==
  ASSUME NEW x \in Nat, NEW w \in Nat \ {0}, x < w + w
  PROVE  x % w = IF x < w THEN x ELSE x - w
<1>1. CASE x < w
  BY <1>1, SMT
<1>2. CASE ~(x < w)
  <2>1. x = w * 1 + (x - w) /\ x - w \in 0 .. w - 1
    BY <1>2, SMT
  <2> QED BY <1>2, <2>1, SMT
<1> QED BY <1>1, <1>2

LEMMA SectorStart ==
  ASSUME NEW sec \in Nat, sec < NSecs
  PROVE  sec * SecSize \in Nat /\ sec * SecSize <= MaxSize - SecSize
BY RamdiskConstants, SMT DEF MaxSize

\* What the bounds tests establish for a request they let pass, and that they
\* let pass every request that lies inside the disk.
LEMMA Bounds ==
  ASSUME NEW r \in SectorCalls \cup AddrCalls, r.sz # 0, r.disk # NullDisk
  PROVE  /\ Accepted(r) => /\ StartAddr(r) = MeantAddr(r)
                           /\ MeantAddr(r) \in Nat
                           /\ MeantAddr(r) + r.sz <= MaxSize
         /\ Accepted(r) <=> /\ MeantAddr(r) >= 0
                            /\ MeantAddr(r) + r.sz <= MaxSize
                            /\ BySector(r) => r.sec < NSecs /\ r.off >= 0
<1>0. /\ Word \in Nat \ {0} /\ MaxSize \in Nat \ {0} /\ MaxSize <= Word \div 2
      /\ r.sz \in 1 .. Word - 1
  BY RamdiskConstants, SMT DEF MaxSize, SectorCalls, AddrCalls, Sizes
<1>1. ASSUME NEW x \in Nat, x < Word, StartAddr(r) = x
      PROVE  Overflow(r) <=> x + r.sz > MaxSize
  <2>1. EndAddr(r) = IF x + r.sz < Word THEN x + r.sz ELSE (x + r.sz) - Word
    <3>1. x + r.sz \in Nat /\ x + r.sz < Word + Word
      BY <1>0, <1>1, SMT
    <3>2. EndAddr(r) = (x + r.sz) % Word
      BY <1>1 DEF EndAddr
    <3>3. \A y \in Nat : y < Word + Word =>
            y % Word = IF y < Word THEN y ELSE y - Word
      BY <1>0, OneWrap
    <3>4. (x + r.sz) % Word
            = IF x + r.sz < Word THEN x + r.sz ELSE (x + r.sz) - Word
      BY <3>1, <3>3, Zenon
    <3> QED BY <3>2, <3>4
  <2> QED BY <1>0, <1>1, <2>1, SMT DEF Overflow
<1>2. CASE BySector(r) /\ ~BadArgs(r)
  <2>1. r.sec \in Nat /\ r.sec < NSecs /\ r.off \in 0 .. (Word \div 2) - 1
    BY <1>2, <1>0, RamdiskConstants, SMT
       DEF BySector, BadArgs, SectorCalls, AddrCalls, Sizes, Offs
  <2>2. /\ r.sec * SecSize \in Nat
        /\ r.sec * SecSize <= MaxSize - SecSize
    BY <2>1, SectorStart
  <2>3. MeantAddr(r) = r.sec * SecSize + r.off
    BY <1>2 DEF MeantAddr
  <2>4. MeantAddr(r) \in Nat /\ MeantAddr(r) < Word
    BY <1>0, <2>1, <2>2, <2>3, RamdiskConstants, SMT
  <2>5. StartAddr(r) = MeantAddr(r)
    <3>1. MeantAddr(r) % Word = MeantAddr(r)
      BY <1>0, <2>4, OneWrap, SMT
    <3> QED BY <1>2, <2>3, <3>1 DEF StartAddr
  <2>6. Overflow(r) <=> MeantAddr(r) + r.sz > MaxSize
    BY <1>1, <2>4, <2>5
  <2> QED BY <1>0, <1>2, <2>1, <2>4, <2>5, <2>6, SMT DEF Accepted
<1>3. CASE BySector(r) /\ BadArgs(r)
  BY <1>3, <1>0, RamdiskConstants, SMT
     DEF Accepted, BadArgs, BySector, SectorCalls, AddrCalls, Sizes, Offs
<1>4. CASE ~BySector(r)
  <2>1. r.addr \in Nat /\ r.addr < Word
    BY <1>4, <1>0, SMT DEF BySector, SectorCalls, AddrCalls, Sizes
  <2>2. StartAddr(r) = r.addr /\ MeantAddr(r) = r.addr
    BY <1>4 DEF StartAddr, MeantAddr
  <2>3. Overflow(r) <=> r.addr + r.sz > MaxSize
    BY <1>1, <2>1, <2>2
  <2>4. BadArgs(r) <=> r.addr >= MaxSize
    BY <1>4 DEF BadArgs
  <2> QED BY <1>0, <1>4, <2>1, <2>2, <2>3, <2>4, SMT DEF Accepted
<1> QED BY <1>2, <1>3, <1>4

\* The types and the absence of a fault are inductive together: a transfer that
\* stays inside the disk leaves the disk a function on its addresses.
RamdiskInv == TypeOK /\ InBounds

LEMMA RamdiskInvStep == RamdiskInv /\ [Next]_vars => RamdiskInv'
<1> SUFFICES ASSUME RamdiskInv, [Next]_vars PROVE RamdiskInv'
  OBVIOUS
<1> USE DEF RamdiskInv, InBounds
<1>1. CASE Call
  BY <1>1 DEF Call, TypeOK
<1>2. CASE Reject
  BY <1>2, RamdiskConstants, SMT DEF Reject, TypeOK, EINVAL, EOVERFLOW, Sizes
<1>3. CASE Transfer
  <2>1. req \in SectorCalls \cup AddrCalls
    BY <1>3 DEF Transfer, TypeOK, NoCall
  <2>2. req.sz # 0 /\ req.disk # NullDisk /\ req.disk \in Disks
        /\ req.sz \in Sizes /\ req.byte \in Bytes
    BY <1>3, <2>1 DEF Transfer, Accepted, SectorCalls, AddrCalls
  <2>3. Touched(req) \subseteq Addresses
    <3>1. /\ StartAddr(req) \in Nat
          /\ StartAddr(req) + req.sz <= MaxSize
      BY <1>3, <2>1, <2>2, Bounds DEF Transfer
    <3> QED BY <3>1, <2>2, RamdiskConstants, SMT
            DEF Touched, Addresses, MaxSize, Sizes
  <2>4. mem' \in [Disks -> [Addresses -> Bytes]]
    <3>1. NewByte(req) \in Bytes
      BY <2>2, RamdiskConstants DEF NewByte
    <3> QED BY <1>3, <2>2, <3>1 DEF Transfer, TypeOK
  <2> QED BY <1>3, <2>2, <2>3, <2>4 DEF Transfer, TypeOK
<1>4. CASE UNCHANGED vars
  BY <1>4 DEF vars, TypeOK
<1> QED BY <1>1, <1>2, <1>3, <1>4 DEF Next

LEMMA RamdiskInvAlways == Spec => []RamdiskInv
<1>1. Init => RamdiskInv
  <2> SUFFICES ASSUME Init PROVE RamdiskInv
    OBVIOUS
  <2>1. mem \in [Disks -> [Addresses -> Bytes]]
    BY DEF Init
  <2>2. 0 \in Sizes
    BY RamdiskConstants, SMT DEF Sizes
  <2> QED BY <2>1, <2>2 DEF Init, RamdiskInv, TypeOK, InBounds
<1> QED BY <1>1, RamdiskInvStep, PTL DEF Spec

\* No call of a driver, with whatever block number, offset, address and size,
\* reads or writes outside the array of its disk.
THEOREM RamdiskInBounds == Spec => []InBounds
BY RamdiskInvAlways, PTL DEF RamdiskInv

\* The disks of ramdisk.c keep their size, and every call returns a byte count,
\* -EINVAL or -EOVERFLOW.
THEOREM RamdiskTypes == Spec => []TypeOK
BY RamdiskInvAlways, PTL DEF RamdiskInv

\* ramdisk_read, _write and _erase accept exactly the requests that lie inside
\* the disk, and change exactly the bytes they were asked to change.
THEOREM RamdiskExact == Spec => ExactTransfer
<1> DEFINE Exact ==
      req # NoCall /\ req.disk # NullDisk /\ req.sz # 0 =>
       LET meant == MeantAddr(req)
           inside == meant >= 0 /\ meant + req.sz <= MaxSize
           named == BySector(req) => req.sec < NSecs /\ req.off >= 0
       IN  /\ res' = req.sz <=> inside /\ named
           /\ \A d \in Disks, a \in Addresses :
                mem'[d][a] # mem[d][a] =>
                  /\ d = req.disk
                  /\ a \in meant .. meant + req.sz - 1
                  /\ req.fn \notin {"read", "read_addr"}
<1>1. RamdiskInv /\ [Next]_vars => [Exact]_vars
  <2> SUFFICES ASSUME RamdiskInv, Next, req # NoCall, req.disk # NullDisk,
                      req.sz # 0
               PROVE  Exact
    OBVIOUS
  <2>1. req \in SectorCalls \cup AddrCalls
    BY DEF RamdiskInv, TypeOK, NoCall
  <2>2. req.disk \in Disks /\ req.sz \in Sizes /\ req.sz > 0
    BY <2>1, RamdiskConstants, SMT DEF SectorCalls, AddrCalls, Sizes
  <2>3. CASE Reject
    <3>1. ~Accepted(req)
      BY <2>3 DEF Reject, Accepted
    <3>2. res' # req.sz /\ mem' = mem
      BY <2>2, <2>3, RamdiskConstants, SMT DEF Reject, EINVAL, EOVERFLOW, Sizes
    <3> QED BY <2>1, <3>1, <3>2, Bounds
  <2>4. CASE Transfer
    <3>1. Accepted(req) /\ StartAddr(req) = MeantAddr(req)
      BY <2>1, <2>4, Bounds DEF Transfer
    <3>2. res' = req.sz
      BY <2>4 DEF Transfer
    <3>3. ASSUME NEW d \in Disks, NEW a \in Addresses, mem'[d][a] # mem[d][a]
          PROVE  /\ d = req.disk
                 /\ a \in MeantAddr(req) .. MeantAddr(req) + req.sz - 1
                 /\ req.fn \notin {"read", "read_addr"}
      BY <2>2, <2>4, <3>1, <3>3 DEF Transfer, Touched, RamdiskInv, TypeOK
    <3> QED BY <2>1, <3>1, <3>2, <3>3, Bounds
  <2> QED BY <2>3, <2>4 DEF Next, Call
<1> QED BY <1>1, RamdiskInvAlways, PTL DEF Spec, ExactTransfer
=============================================================================
