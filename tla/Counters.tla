------------------------------ MODULE Counters ------------------------------
(***************************************************************************)
(* What the samplers compute from two readings of the same counters.  A    *)
(* fraction is a pair of numerator and denominator, a rate its numerator:  *)
(* all rates of a sample have the elapsed time below.                      *)
(*                                                                         *)
(* Of the eight counters of /proc/stat, "user" stands for the six that are *)
(* neither idle nor iowait; on FreeBSD for the four that are not idle.     *)
(***************************************************************************)
EXTENDS Words

CONSTANTS SectorSize, Millisecond     \* bounds: 512, and 1000000 nanoseconds

ASSUME CounterConstants == SectorSize \in Nat \ {0} /\ Millisecond \in Nat \ {0}

Regressed(previous, current, counters) ==
  \E c \in counters : current[c] < previous[c]
AllTicks(f) == f["user"] + f["idle"] + f["iowait"]

(* Slip: iowait is taken like the other counters.                          *)
CPUDeltasOfAll(previous, current) ==
  [c \in {"user", "idle", "iowait"} |-> Minus(current[c], previous[c])]

(* cpuUsage.  iowait may go back and then counts as no time.               *)
CPUDeltas(previous, current) ==
  [c \in {"user", "idle", "iowait"} |->
     IF c = "iowait" /\ current[c] <= previous[c] THEN 0
     ELSE Minus(current[c], previous[c])]

CPUUsage(previous, current) ==
  LET deltas == CPUDeltas(previous, current)
      idle == Plus(deltas["idle"], deltas["iowait"])
  IN IF \/ Regressed(previous, current, {"user", "idle"})
        \/ AllTicks(deltas) > MaxWord \/ AllTicks(deltas) = 0 \/ idle > AllTicks(deltas)
     THEN {}
     ELSE {<<AllTicks(deltas) - idle, AllTicks(deltas)>>}

(* parseFreeBSDTicks refuses counters whose sum is no word.                *)
FreeBSDTicks(ticks) == ticks["user"] + ticks["idle"] <= MaxWord

(* freebsdUsage.                                                           *)
FreeBSDUsage(previous, current) ==
  LET idle == Minus(current["idle"], previous["idle"])
      total == Plus(idle, Minus(current["user"], previous["user"]))
  IN IF Regressed(previous, current, {"user", "idle"}) \/ total = 0 THEN {}
     ELSE {<<Minus(total, idle), total>>}

(* networkRates: one counter that went back leaves no rate at all.         *)
NetworkRates(previous, current, elapsed) ==
  IF elapsed = 0 \/ Regressed(previous, current, DOMAIN current) THEN {}
  ELSE {[c \in DOMAIN current |-> Minus(current[c], previous[c])]}

(* parseDiskstatsRow: sectors become bytes, milliseconds a duration        *)
(* (millisDuration; its bound is math.MaxInt64), and a row that does not   *)
(* fit is refused.                                                         *)
DiskRow(row) ==
  LET busy == IF row.busy > MaxWord \div Millisecond THEN {} ELSE {Times(row.busy, Millisecond)}
  IN {[bytes |-> b, busy |-> t] : b \in CheckedMultiply(row.sectors, SectorSize), t \in busy}

(* blockRates: as networkRates, and the busy fraction ends at 1.           *)
BlockRates(previous, current, elapsed) ==
  IF elapsed = 0 \/ Regressed(previous, current, DOMAIN current) THEN {}
  ELSE LET busy == Minus(current["busy"], previous["busy"])
       IN {[bytes |-> Minus(current["bytes"], previous["bytes"]),
            busyFraction |-> IF busy > elapsed THEN <<1, 1>> ELSE <<busy, elapsed>>]}

RowRates(previous, current, elapsed) ==
  UNION {BlockRates(p, c, elapsed) : p \in DiskRow(previous), c \in DiskRow(current)}

---------------------------------------------------------------------------
(* Properties of one computation.                                          *)

(* A usage is the exact share of the ticks that were not idle, iowait      *)
(* counted as far as it went forward; there is one exactly if no other     *)
(* counter went back and some tick passed (cpuUsage, freebsdUsage).        *)
UsageIsExact(previous, current, usage) ==
  LET forward(c) == IF current[c] > previous[c] THEN current[c] - previous[c] ELSE 0
      total == forward("user") + forward("idle") + forward("iowait")
  IN usage = IF /\ current["user"] >= previous["user"] /\ current["idle"] >= previous["idle"]
                /\ total \in 1..MaxWord
             THEN {<<forward("user"), total>>} ELSE {}

(* Rates are the exact differences of all counters, in full units; there   *)
(* are some exactly if time passed, no counter went back and both rows fit *)
(* a word; the busy fraction is 1 when busy time outruns the clock         *)
(* (networkRates, parseDiskstatsRow, blockRates).                          *)
NetworkRatesAreExact(previous, current, elapsed, rates) ==
  /\ rates # {} <=> elapsed > 0 /\ \A c \in DOMAIN current : previous[c] <= current[c]
  /\ \A r \in rates : \A c \in DOMAIN current : previous[c] + r[c] = current[c]

BlockRatesAreExact(previous, current, elapsed, rates) ==
  LET bytes == (current.sectors - previous.sectors) * SectorSize
      busy == (current.busy - previous.busy) * Millisecond
  IN /\ rates # {} <=>
          /\ elapsed > 0 /\ bytes >= 0 /\ busy >= 0
          /\ current.sectors * SectorSize <= MaxWord /\ current.busy * Millisecond <= MaxWord
     /\ \A r \in rates :
          r = [bytes |-> bytes, busyFraction |-> IF busy > elapsed THEN <<1, 1>> ELSE <<busy, elapsed>>]
=============================================================================
