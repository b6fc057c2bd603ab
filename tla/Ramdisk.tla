------------------------------- MODULE Ramdisk -------------------------------
(***************************************************************************)
(* The RAM disks of src/src/vfs/ramdisk.c.  Every file system driver stores *)
(* its blocks here, and the bounds tests of this module are all that keeps  *)
(* a wrong block number of a driver from reaching other memory.  Addresses  *)
(* are size_t, so they are computed modulo Word = 2^32.                     *)
(***************************************************************************)
EXTENDS Integers

CONSTANTS
  Disks,        \* the disks ramdisk_open knows
  NullDisk,     \* what it returns for any other number
  SecSize,      \* CONFIG_RAM_SEC_SIZE
  NSecs,        \* CONFIG_RAM_N_SECS
  Word,         \* 2^32, the modulus of size_t and uint32_t
  Bytes,        \* the byte values in use
  Erased        \* 0xFF

MaxSize == SecSize * NSecs      \* RAMDISK_MAX_SIZE
Addresses == 0 .. MaxSize - 1
Sizes == 0 .. Word - 1
Offs == -(Word \div 2) .. (Word \div 2) - 1     \* off_t is a long of 32 bits

EINVAL == -22
EOVERFLOW == -139

ASSUME RamdiskConstants ==
  /\ NullDisk \notin Disks
  /\ SecSize \in Nat \ {0}
  /\ NSecs \in Nat \ {0}
  /\ Word \in Nat \ {0}
  /\ MaxSize <= Word \div 2
  /\ Erased \in Bytes

VARIABLES
  mem,          \* disk -> address -> byte
  req,          \* the call in progress
  res,          \* what the last call returned
  fault         \* whether some call has left the array of its disk

vars == <<mem, req, res, fault>>

SectorCalls == [fn : {"read", "write"}, disk : Disks \cup {NullDisk},
                sec : Sizes, off : Offs, sz : Sizes, byte : Bytes]
AddrCalls == [fn : {"read_addr", "write_addr", "erase_addr"},
              disk : Disks \cup {NullDisk}, addr : Sizes, sz : Sizes,
              byte : Bytes]
NoCall == [fn |-> "none"]

\* ramdisk_init, with one byte value for the memset of each disk.
Init ==
  /\ mem \in {[d \in Disks |-> [a \in Addresses |-> fill[d]]] :
                fill \in [Disks -> Bytes]}
  /\ req = NoCall
  /\ res = 0
  /\ fault = FALSE

BySector(r) == r.fn \in {"read", "write"}

\* BugBadArgs: a negative offset is not refused.
BugBadArgs(r) ==
  IF BySector(r) THEN r.sec >= NSecs ELSE r.addr >= MaxSize

\* The argument tests: sector and offset, or address.
BadArgs(r) ==
  IF BySector(r) THEN r.sec >= NSecs \/ r.off < 0
                       ELSE r.addr >= MaxSize

StartAddr(r) ==
  IF BySector(r) THEN (r.sec * SecSize + r.off) % Word ELSE r.addr

EndAddr(r) == (StartAddr(r) + r.sz) % Word

\* BugOverflow: an end address that wrapped around is not recognised.
BugOverflow(r) == EndAddr(r) > MaxSize

Overflow(r) == EndAddr(r) > MaxSize \/ EndAddr(r) < StartAddr(r)

\* The bytes memcpy or memset touches.
Touched(r) == StartAddr(r) .. StartAddr(r) + r.sz - 1

Call ==
  /\ req = NoCall
  /\ req' \in SectorCalls \cup AddrCalls
  /\ UNCHANGED <<mem, res, fault>>

Reject ==
  /\ req # NoCall
  /\ \/ /\ req.disk = NullDisk
        /\ res' = EINVAL
     \/ /\ req.disk # NullDisk
        /\ req.sz = 0
        /\ res' = 0
     \/ /\ req.disk # NullDisk
        /\ req.sz # 0
        /\ BadArgs(req)
        /\ res' = EINVAL
     \/ /\ req.disk # NullDisk
        /\ req.sz # 0
        /\ ~BadArgs(req)
        /\ Overflow(req)
        /\ res' = EOVERFLOW
  /\ req' = NoCall
  /\ UNCHANGED <<mem, fault>>

Accepted(r) ==
  r.disk # NullDisk /\ r.sz # 0 /\ ~BadArgs(r) /\ ~Overflow(r)

NewByte(r) == IF r.fn = "erase_addr" THEN Erased ELSE r.byte

Transfer ==
  /\ req # NoCall
  /\ Accepted(req)
  /\ mem' = IF req.fn \in {"read", "read_addr"} THEN mem
            ELSE [mem EXCEPT ![req.disk] =
                    [a \in Addresses |-> IF a \in Touched(req)
                                         THEN NewByte(req) ELSE @[a]]]
  /\ fault' = (fault \/ ~(Touched(req) \subseteq Addresses))
  /\ res' = req.sz
  /\ req' = NoCall

Next == Call \/ Reject \/ Transfer

Spec == Init /\ [][Next]_vars

-----------------------------------------------------------------------------
\* The disks keep their size, calls and results their C types.
TypeOK ==
  /\ mem \in [Disks -> [Addresses -> Bytes]]
  /\ req \in SectorCalls \cup AddrCalls \cup {NoCall}
  /\ res \in Sizes \cup {EINVAL, EOVERFLOW}
  /\ fault \in BOOLEAN

\* No call, with whatever sector, offset, address and size, reads or writes
\* outside the array of its disk: a sum that wraps around is rejected.
InBounds == ~fault

\* The address a call means, in unbounded arithmetic.
MeantAddr(r) == IF BySector(r) THEN r.sec * SecSize + r.off ELSE r.addr

\* A call on a disk changes the bytes it names and no others, and it is refused
\* exactly when some byte it names lies outside the disk or, for the calls by
\* sector, when the sector does not exist or the offset is negative.
ExactTransfer ==
  [][req # NoCall /\ req.disk # NullDisk /\ req.sz # 0 =>
       LET meant == MeantAddr(req)
           inside == meant >= 0 /\ meant + req.sz <= MaxSize
           named == BySector(req) => req.sec < NSecs /\ req.off >= 0
       IN  /\ res' = req.sz <=> inside /\ named
           /\ \A d \in Disks, a \in Addresses :
                mem'[d][a] # mem[d][a] =>
                  /\ d = req.disk
                  /\ a \in meant .. meant + req.sz - 1
                  /\ req.fn \notin {"read", "read_addr"}]_vars
=============================================================================
