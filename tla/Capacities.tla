----------------------------- MODULE Capacities -----------------------------
(***************************************************************************)
(* The capacities the readers report: bytes of a filesystem, of memory and *)
(* swap on Linux and FreeBSD, and of video memory.  The kernel's counts    *)
(* are in blocks, pages or KiB; the products have to fit a word.           *)
(***************************************************************************)
EXTENDS Words, Sequences

CONSTANT Unit     \* bound: 1024, the bytes of a KiB

ASSUME CapacityConstants == Unit \in Nat \ {0}

Capacity(total, used, available) ==
  [total |-> total, used |-> used, available |-> available]

(* statfsCapacity.  The counts are in fragments where the filesystem says  *)
(* how large those are.                                                    *)
BlockSize(stat) == IF stat.frsize > 0 THEN stat.frsize ELSE stat.bsize

(* Slip: the counts are multiplied and the products compared.              *)
StatfsCapacityUnchecked(stat) ==
  LET size == BlockSize(stat)
      total == Times(stat.blocks, size)
      free == Times(stat.bfree, size)
      available == Times(stat.bavail, size)
  IN IF size = 0 \/ free > total \/ available > total THEN {}
     ELSE {Capacity(total, total - free, available)}

StatfsCapacity(stat) ==
  LET size == BlockSize(stat)
  IN IF size = 0 \/ stat.bfree > stat.blocks \/ stat.bavail > stat.blocks THEN {}
     ELSE {Capacity(t, u, a) : t \in CheckedMultiply(stat.blocks, size),
                               u \in CheckedMultiply(Minus(stat.blocks, stat.bfree), size),
                               a \in CheckedMultiply(stat.bavail, size)}

(* readFilesystems: the places of the mounts that are no autofs triggers,  *)
(* with an issue for each that has no capacity.  statfs fails where there  *)
(* is no stat.                                                             *)
Statfs(mounts) == {i \in DOMAIN mounts : mounts[i].type # "autofs"}
Filesystems(mounts) ==
  {i \in Statfs(mounts) : \E stat \in mounts[i].stat : StatfsCapacity(stat) # {}}
FilesystemIssues(mounts) ==
  {i \in Statfs(mounts) : \A stat \in mounts[i].stat : StatfsCapacity(stat) = {}}

(* parseMeminfo: one pair of a total and what is left of it, twice.        *)
MeminfoPair(total, left) ==
  IF total > MaxWord \div Unit \/ left > MaxWord \div Unit
     \/ Times(left, Unit) > Times(total, Unit)
  THEN {}
  ELSE {Capacity(Times(total, Unit), Minus(Times(total, Unit), Times(left, Unit)),
                 Times(left, Unit))}

(* parseFreeBSDMemory: free and inactive pages are available.              *)
FreeBSDMemory(pages, size, free, inactive) ==
  IF \/ pages = 0 \/ size = 0 \/ pages > MaxWord \div size
     \/ free > pages \/ inactive > Minus(pages, free)
  THEN {}
  ELSE LET total == Times(pages, size)
           available == Times(Plus(free, inactive), size)
       IN {Capacity(total, Minus(total, available), available)}

(* parseFreeBSDMemory: the rows of swapinfo add up, or one row that cannot *)
(* be added refuses them all.                                              *)
AddSwapRow(swap, row) ==
  {Capacity(Plus(s.total, Times(row.blocks, Unit)), Plus(s.used, Times(row.used, Unit)), 0)
     : s \in {t \in swap :
         /\ row.used <= row.blocks /\ row.avail = Minus(row.blocks, row.used)
         /\ row.blocks <= MaxWord \div Unit
         /\ t.total <= Minus(MaxWord, Times(row.blocks, Unit))
         /\ t.used <= Minus(MaxWord, Times(row.used, Unit))}}

FreeBSDSwap(rows) ==
  LET sum[i \in 0..Len(rows)] ==
        IF i = 0 THEN {Capacity(0, 0, 0)} ELSE AddSwapRow(sum[i - 1], rows[i])
  IN {Capacity(s.total, s.used, Minus(s.total, s.used)) : s \in sum[Len(rows)]}

(* vramCapacity: a driver that reports no total, or more than it, is not   *)
(* believed.                                                               *)
VRAMCapacity(used, total) ==
  IF total = 0 \/ used > total THEN {}
  ELSE {Capacity(total, used, Minus(total, used))}

---------------------------------------------------------------------------
(* Properties of one reading.                                              *)

(* A capacity is that of the counts, in full: no product or sum is cut to  *)
(* a word, and neither part exceeds the total.  It is refused only where   *)
(* the counts contradict each other or the total is no word.               *)
CapacityIsExact(capacity, consistent, total, used, available) ==
  /\ capacity = IF consistent /\ total <= MaxWord THEN {Capacity(total, used, available)} ELSE {}
  /\ \A c \in capacity : c.used \in 0..c.total /\ c.available \in 0..c.total

StatfsIsExact(stat) ==
  CapacityIsExact(StatfsCapacity(stat),
    BlockSize(stat) > 0 /\ stat.bfree <= stat.blocks /\ stat.bavail <= stat.blocks,
    stat.blocks * BlockSize(stat), (stat.blocks - stat.bfree) * BlockSize(stat),
    stat.bavail * BlockSize(stat))

MeminfoIsExact(total, left) ==
  CapacityIsExact(MeminfoPair(total, left), left <= total,
                  total * Unit, (total - left) * Unit, left * Unit)

FreeBSDMemoryIsExact(pages, size, free, inactive) ==
  CapacityIsExact(FreeBSDMemory(pages, size, free, inactive),
                  pages > 0 /\ size > 0 /\ free + inactive <= pages,
                  pages * size, (pages - (free + inactive)) * size, (free + inactive) * size)

VRAMIsExact(used, total) ==
  CapacityIsExact(VRAMCapacity(used, total), total > 0 /\ used <= total, total, used, total - used)

FreeBSDSwapIsExact(rows) ==
  LET of(f(_)) == LET sum[i \in 0..Len(rows)] ==
                        IF i = 0 THEN 0 ELSE sum[i - 1] + f(rows[i]) * Unit
                  IN sum[Len(rows)]
      blocks(row) == row.blocks
      used(row) == row.used
  IN CapacityIsExact(FreeBSDSwap(rows),
       \A i \in 1..Len(rows) : rows[i].used + rows[i].avail = rows[i].blocks,
       of(blocks), of(used), of(blocks) - of(used))
=============================================================================
