--------------------------- MODULE Readings_proofs ---------------------------
(***************************************************************************)
(* What the readers return, for counters, files, supplies, sensors and     *)
(* cards of any number and value.  Usages, rates and capacities are exact  *)
(* for a word of any width: where the code subtracts, adds or multiplies,  *)
(* the comparisons before it leave no room for a result that does not fit, *)
(* and they refuse nothing that would have fitted.  What is aggregated     *)
(* lies between its parts, what is chosen is the best, what is filled in   *)
(* is of the right card, and the name cache holds what the file had.       *)
(*                                                                         *)
(* The last section is about the behaviours of the runs: every result is   *)
(* the outcome of a reader for one of the inputs, so that what holds of    *)
(* the outcomes is an invariant.                                           *)
(***************************************************************************)
EXTENDS MCReaders, FDInfoUsage_proofs

---------------------------------------------------------------------------
(* Recursive functions.                                                    *)

Steps(g, N, S, b, F) ==
  g \in [0..N -> S] /\ g[0] = b /\ \A i \in 1..N : g[i] = F[i][g[i - 1]]

(* What is defined step by step exists.                                    *)
LEMMA StepByStep ==
  ASSUME NEW N \in Nat, NEW S, NEW b \in S, NEW F, F \in [1..N -> [S -> S]]
  PROVE  \E g : Steps(g, N, S, b, F)
<1> DEFINE Bad == {n \in 0..N : ~\E g : Steps(g, n, S, b, F)}
<1>1. SUFFICES ASSUME Bad # {} PROVE FALSE
  <2>1. N \in 0..N
    OBVIOUS
  <2>2. QED
    BY <2>1
<1>2. PICK n \in Bad : \A m \in Bad : n <= m
  <2>1. Bad \in SUBSET Nat
    OBVIOUS
  <2> HIDE DEF Bad
  <2>2. QED
    BY <1>1, <2>1, Smallest
<1>3. n # 0
  <2>1. ASSUME n = 0 PROVE FALSE
    <3> DEFINE g == [i \in 0..0 |-> b]
    <3>1. Steps(g, 0, S, b, F)
      BY DEF Steps
    <3>2. QED
      BY <1>2, <2>1, <3>1
  <2>2. QED
    BY <2>1
<1>4. n - 1 \in 0..N /\ n \in 1..N /\ n - 1 \notin Bad
  <2>1. n \in 0..N
    OBVIOUS
  <2> HIDE DEF Bad
  <2>2. QED
    BY <1>2, <1>3, <2>1
<1>5. PICK g : Steps(g, n - 1, S, b, F)
  BY <1>4
<1> HIDE DEF Bad
<1> DEFINE h == [i \in 0..n |-> IF i = n THEN F[n][g[n - 1]] ELSE g[i]]
<1>6. h \in [0..n -> S]
  <2>1. n - 1 \in 0..(n - 1) /\ g[n - 1] \in S /\ F[n] \in [S -> S]
    BY <1>4, <1>5 DEF Steps
  <2>2. \A i \in 0..n : i # n => i \in 0..(n - 1)
    BY <1>4
  <2>3. QED
    BY <1>5, <2>1, <2>2 DEF Steps
<1>7. Steps(h, n, S, b, F)
  <2>1. h[0] = b
    BY <1>3, <1>4, <1>5 DEF Steps
  <2>2. ASSUME NEW i \in 1..n PROVE h[i] = F[i][h[i - 1]]
    <3>1. i - 1 \in 0..n /\ i - 1 # n /\ i \in 0..n
      BY <1>4
    <3>2. h[i - 1] = g[i - 1]
      BY <3>1
    <3>3. CASE i = n
      BY <3>1, <3>2, <3>3
    <3>4. CASE i # n
      <4>1. i \in 1..(n - 1)
        BY <1>4, <3>4
      <4>2. QED
        BY <1>5, <3>1, <3>2, <3>4, <4>1 DEF Steps
    <3>5. QED
      BY <3>3, <3>4
  <2> HIDE DEF h
  <2>3. QED
    BY <1>6, <2>1, <2>2 DEF Steps
<1>8. QED
  BY <1>2, <1>7 DEF Bad

(* A statement about the steps holds at the end if it holds at the         *)
(* beginning and every step keeps it: the smallest exception is none.      *)
LEMMA AlongTheSteps ==
  ASSUME NEW N \in Nat, NEW Good \in SUBSET (0..N),
         0 \in Good, \A i \in 1..N : i - 1 \in Good => i \in Good
  PROVE  \A i \in 0..N : i \in Good
<1> DEFINE Bad == (0..N) \ Good
<1>1. SUFFICES ASSUME Bad # {} PROVE FALSE
  OBVIOUS
<1>2. PICK n \in Bad : \A m \in Bad : n <= m
  <2>1. Bad \in SUBSET Nat
    OBVIOUS
  <2>2. QED
    BY <1>1, <2>1, Smallest
<1>3. n \in 1..N /\ n - 1 \in 0..N /\ n - 1 \notin Bad
  BY <1>2
<1>4. QED
  BY <1>2, <1>3

(* A directory of up to three entries has finitely many.                   *)
LEMMA FewPlaces == IsFiniteSet(1..0) /\ IsFiniteSet(1..1) /\ IsFiniteSet(1..2) /\ IsFiniteSet(1..3)
<1>1. \A n \in Int, m \in Int : IsFiniteSet(m..n)
  BY FS_Interval
<1> DEFINE none == 0
           one == 1
           two == 2
           three == 3
<1>2. none \in Int /\ one \in Int /\ two \in Int /\ three \in Int
  OBVIOUS
<1> HIDE DEF none, one, two, three
<1>3. IsFiniteSet(one..none) /\ IsFiniteSet(one..one) /\ IsFiniteSet(one..two) /\ IsFiniteSet(one..three)
  BY <1>1, <1>2
<1>4. QED
  BY <1>3 DEF none, one, two, three

---------------------------------------------------------------------------
(* Words.                                                                  *)

(* A remainder of what is less than the divisor, or less than twice it.    *)
LEMMA Remainder ==
  ASSUME NEW n \in Nat \ {0}, NEW x \in 0..(n - 1)
  PROVE  x % n = x /\ (x + n) % n = x
OBVIOUS

(* A sum that fits a word is the sum.                                      *)
LEMMA PlusFits ==
  ASSUME NEW a \in Word, NEW b \in Word, a + b <= MaxWord
  PROVE  Plus(a, b) = a + b
BY Remainder, WordConstants DEF Plus, Word

(* A difference that is not negative is the difference.                    *)
LEMMA MinusFits ==
  ASSUME NEW a \in Word, NEW b \in Word, b <= a
  PROVE  Minus(a, b) = a - b /\ Minus(a, b) \in Word
<1>1. /\ a - b \in 0..((MaxWord + 1) - 1) /\ MaxWord + 1 \in Nat \ {0}
      /\ a + (MaxWord + 1) - b = (a - b) + (MaxWord + 1)
  BY WordConstants DEF Word
<1>2. QED
  BY <1>1, Remainder, WordConstants DEF Minus, Word

(* A product that fits a word is the product.                              *)
LEMMA TimesFits ==
  ASSUME NEW a \in Nat, NEW b \in Nat, a * b <= MaxWord
  PROVE  Times(a, b) = a * b /\ Times(a, b) \in Word
<1>1. a * b \in Nat
  OBVIOUS
<1>2. a * b \in 0..((MaxWord + 1) - 1) /\ MaxWord + 1 \in Nat \ {0}
  BY <1>1, WordConstants
<1>3. QED
  BY <1>2, Remainder DEF Times, Word

(* The division before a product tells exactly whether it fits.            *)
LEMMA Quotient ==
  ASSUME NEW n \in Nat, NEW d \in Nat \ {0}, NEW x \in Nat
  PROVE  x <= n \div d <=> x * d <= n
OBVIOUS

(* checkedMultiply refuses a product exactly if it does not fit.           *)
LEMMA CheckedMultiplyFits ==
  ASSUME NEW a \in Word, NEW b \in Word
  PROVE  CheckedMultiply(a, b) = IF a * b <= MaxWord THEN {a * b} ELSE {}
<1>1. a \in Nat /\ b \in Nat
  BY WordConstants DEF Word
<1>2. CASE b = 0
  <2>1. a * b = 0 /\ a * b <= MaxWord
    BY <1>1, <1>2, WordConstants
  <2>2. QED
    BY <1>1, <1>2, <2>1, TimesFits DEF CheckedMultiply
<1>3. CASE b # 0
  <2>1. a <= MaxWord \div b <=> a * b <= MaxWord
    BY <1>1, <1>3, Quotient, WordConstants
  <2>2. MaxWord \div b \in Int
    BY <1>1, <1>3, WordConstants
  <2>3. a > MaxWord \div b <=> ~(a * b <= MaxWord)
    BY <1>1, <2>1, <2>2
  <2>4. QED
    BY <1>1, <1>3, <2>3, TimesFits DEF CheckedMultiply
<1>4. QED
  BY <1>2, <1>3

(* Products with the same factor keep the order.                           *)
LEMMA SameFactor ==
  ASSUME NEW a \in Nat, NEW b \in Nat, NEW d \in Nat, a <= b
  PROVE  /\ a * d \in Nat /\ b * d \in Nat /\ a * d <= b * d
         /\ (b - a) * d = b * d - a * d
OBVIOUS

---------------------------------------------------------------------------
(* Usages and rates.                                                       *)

Ticks == {"user", "idle", "iowait"}

(* cpuUsage is the exact share of the ticks between two readings that were *)
(* neither idle nor iowait, and there is one whenever the readings allow.  *)
THEOREM CPUUsageIsExact ==
  ASSUME NEW previous \in [Ticks -> Word], NEW current \in [Ticks -> Word]
  PROVE  UsageIsExact(previous, current, CPUUsage(previous, current))
<1> DEFINE forward(c) == IF current[c] > previous[c] THEN current[c] - previous[c] ELSE 0
           total == forward("user") + forward("idle") + forward("iowait")
           deltas == CPUDeltas(previous, current)
<1>1. \A c \in Ticks : current[c] \in Word /\ previous[c] \in Word
  OBVIOUS
<1>2. \A c \in Ticks : forward(c) \in Nat /\ forward(c) <= MaxWord
  BY <1>1, WordConstants DEF Word
<1>3. CASE Regressed(previous, current, {"user", "idle"})
  <2>1. ~(current["user"] >= previous["user"] /\ current["idle"] >= previous["idle"])
    BY <1>1, <1>3, WordConstants DEF Regressed, Word, Ticks
  <2>2. QED
    BY <1>3, <2>1 DEF CPUUsage, UsageIsExact
<1>4. CASE ~Regressed(previous, current, {"user", "idle"})
  <2>1. current["user"] >= previous["user"] /\ current["idle"] >= previous["idle"]
    BY <1>1, <1>4, WordConstants DEF Regressed, Word, Ticks
  <2>2. \A c \in Ticks : deltas[c] = forward(c)
    <3>1. ASSUME NEW c \in Ticks PROVE deltas[c] = forward(c)
      <4>1. deltas[c] = IF c = "iowait" /\ current[c] <= previous[c] THEN 0
                        ELSE Minus(current[c], previous[c])
        BY DEF CPUDeltas, Ticks
      <4>2. CASE previous[c] <= current[c]
        <5>1. Minus(current[c], previous[c]) = current[c] - previous[c]
          BY <1>1, <4>2, MinusFits
        <5>2. current[c] \in Int /\ previous[c] \in Int
          BY <1>1 DEF Word
        <5>3. QED
          BY <4>1, <4>2, <5>1, <5>2
      <4>3. CASE ~(previous[c] <= current[c])
        BY <1>1, <2>1, <4>1, <4>3, WordConstants DEF Ticks, Word
      <4>4. QED
        BY <4>2, <4>3
    <3>2. QED
      BY <3>1
  <2>3. AllTicks(deltas) = total /\ total \in Nat
    BY <1>2, <2>2 DEF AllTicks, Ticks
  <2> DEFINE idle == Plus(deltas["idle"], deltas["iowait"])
  <2>4. CPUUsage(previous, current) =
          IF AllTicks(deltas) > MaxWord \/ AllTicks(deltas) = 0 \/ idle > AllTicks(deltas) THEN {}
          ELSE {<<AllTicks(deltas) - idle, AllTicks(deltas)>>}
    BY <1>4 DEF CPUUsage
  <2>5. UsageIsExact(previous, current, CPUUsage(previous, current)) <=>
          CPUUsage(previous, current) =
            IF total \in 1..MaxWord THEN {<<forward("user"), total>>} ELSE {}
    BY <2>1 DEF UsageIsExact
  <2>6. CASE total > MaxWord \/ total = 0
    BY <2>3, <2>4, <2>5, <2>6, WordConstants
  <2>7. CASE ~(total > MaxWord \/ total = 0)
    <3>1. idle = forward("idle") + forward("iowait")
      <4>1. /\ deltas["idle"] \in Word /\ deltas["iowait"] \in Word
            /\ deltas["idle"] + deltas["iowait"] <= MaxWord
        BY <1>2, <2>2, <2>7, WordConstants DEF Ticks, Word
      <4>2. QED
        BY <2>2, <4>1, PlusFits DEF Ticks
    <3>2. total - idle = forward("user") /\ ~(idle > total)
      BY <1>2, <3>1 DEF Ticks
    <3>3. total \in 1..MaxWord
      BY <2>3, <2>7, WordConstants
    <3> HIDE DEF deltas, idle, total, forward
    <3>4. QED
      BY <2>3, <2>4, <2>5, <2>7, <3>2, <3>3
  <2>8. QED
    BY <2>6, <2>7
<1>5. QED
  BY <1>3, <1>4

(* freebsdUsage is the same share of counters whose sums fit a word.       *)
THEOREM FreeBSDUsageIsExact ==
  ASSUME NEW previous \in [Ticks -> Word], NEW current \in [Ticks -> Word],
         previous["iowait"] = 0, current["iowait"] = 0,
         FreeBSDTicks(previous), FreeBSDTicks(current)
  PROVE  UsageIsExact(previous, current, FreeBSDUsage(previous, current))
<1> DEFINE u == current["user"] - previous["user"]
           i == current["idle"] - previous["idle"]
           fits == current["user"] >= previous["user"] /\ current["idle"] >= previous["idle"]
<1>1. /\ current["user"] \in Word /\ previous["user"] \in Word
      /\ current["idle"] \in Word /\ previous["idle"] \in Word
  BY DEF Ticks
<1>2. Regressed(previous, current, {"user", "idle"}) <=> ~fits
  BY <1>1, WordConstants DEF Regressed, Word
<1>3. CASE ~fits
  BY <1>2, <1>3 DEF FreeBSDUsage, UsageIsExact
<1>4. CASE fits
  <2>1. /\ Minus(current["user"], previous["user"]) = u /\ u \in Word
        /\ Minus(current["idle"], previous["idle"]) = i /\ i \in Word
    BY <1>1, <1>4, MinusFits
  <2>2. u + i <= MaxWord
    BY <1>1, WordConstants DEF FreeBSDTicks, Word
  <2>3. Plus(i, u) = u + i /\ u + i \in Word
    BY <2>1, <2>2, PlusFits, WordConstants DEF Word
  <2>4. Minus(u + i, i) = u
    <3>1. u \in Nat /\ i \in Nat
      BY <2>1 DEF Word
    <3> HIDE DEF u, i
    <3>2. i <= u + i /\ (u + i) - i = u
      BY <3>1
    <3>3. QED
      BY <2>1, <2>3, <3>2, MinusFits
  <2>5. FreeBSDUsage(previous, current) = IF u + i = 0 THEN {} ELSE {<<u, u + i>>}
    <3> HIDE DEF u, i
    <3>1. Plus(i, u) = u + i /\ Minus(u + i, i) = u
      BY <2>3, <2>4
    <3>2. QED
      BY <1>2, <1>4, <2>1, <3>1 DEF FreeBSDUsage
  <2>6. UsageIsExact(previous, current, FreeBSDUsage(previous, current)) <=>
          FreeBSDUsage(previous, current) =
            IF u + i + 0 \in 1..MaxWord THEN {<<u, u + i + 0>>} ELSE {}
    BY <1>1, <1>4, WordConstants DEF UsageIsExact, Word
  <2>7. u + i + 0 = u + i /\ (u + i \in 1..MaxWord <=> u + i # 0)
    BY <2>1, <2>2, WordConstants DEF Word
  <2> HIDE DEF u, i
  <2>8. QED
    BY <2>5, <2>6, <2>7
<1>5. QED
  BY <1>3, <1>4

(* networkRates: the differences of all counters, exactly if there are     *)
(* rates of all.                                                           *)
THEOREM NetworkIsExact ==
  ASSUME NEW C, NEW previous \in [C -> Word], NEW current \in [C -> Word],
         NEW elapsed \in Nat
  PROVE  NetworkRatesAreExact(previous, current, elapsed,
                              NetworkRates(previous, current, elapsed))
<1>1. /\ elapsed > 0 <=> elapsed # 0
      /\ \A c \in C : current[c] < previous[c] <=> ~(previous[c] <= current[c])
  BY WordConstants DEF Word
<1>2. NetworkRates(previous, current, elapsed) # {} <=>
        elapsed > 0 /\ \A c \in C : previous[c] <= current[c]
  BY <1>1 DEF NetworkRates, Regressed
<1>3. ASSUME NEW r \in NetworkRates(previous, current, elapsed), NEW c \in C
      PROVE  previous[c] + r[c] = current[c]
  <2>1. r[c] = Minus(current[c], previous[c])
    BY <1>3 DEF NetworkRates
  <2>2. /\ current[c] \in Word /\ previous[c] \in Word /\ previous[c] <= current[c]
    BY <1>2, <1>3
  <2>3. QED
    BY <2>1, <2>2, MinusFits, WordConstants DEF Word
<1>4. QED
  BY <1>2, <1>3 DEF NetworkRatesAreExact

(* parseDiskstatsRow: a row is read in full units, and refused exactly if  *)
(* one of them does not fit a word.                                        *)
LEMMA DiskRowIsExact ==
  ASSUME NEW row \in [sectors: Word, busy: Word]
  PROVE  DiskRow(row) =
           IF row.sectors * SectorSize <= MaxWord /\ row.busy * Millisecond <= MaxWord
           THEN {[bytes |-> row.sectors * SectorSize, busy |-> row.busy * Millisecond]} ELSE {}
<1>1. row.sectors \in Nat /\ row.busy \in Nat
  BY WordConstants DEF Word
<1>2. CheckedMultiply(row.sectors, SectorSize) =
        IF row.sectors * SectorSize <= MaxWord THEN {row.sectors * SectorSize} ELSE {}
  <2>1. row.sectors <= MaxWord \div SectorSize <=> row.sectors * SectorSize <= MaxWord
    BY <1>1, Quotient, WordConstants, CounterConstants
  <2>2. MaxWord \div SectorSize \in Int
    BY WordConstants, CounterConstants
  <2>3. row.sectors > MaxWord \div SectorSize <=> ~(row.sectors * SectorSize <= MaxWord)
    BY <1>1, <2>1, <2>2
  <2>4. QED
    BY <1>1, <2>3, TimesFits, CounterConstants DEF CheckedMultiply
<1>3. (IF row.busy > MaxWord \div Millisecond THEN {} ELSE {Times(row.busy, Millisecond)}) =
        IF row.busy * Millisecond <= MaxWord THEN {row.busy * Millisecond} ELSE {}
  <2>1. row.busy <= MaxWord \div Millisecond <=> row.busy * Millisecond <= MaxWord
    BY <1>1, Quotient, WordConstants, CounterConstants
  <2>2. MaxWord \div Millisecond \in Int
    BY WordConstants, CounterConstants
  <2>3. row.busy > MaxWord \div Millisecond <=> ~(row.busy * Millisecond <= MaxWord)
    BY <1>1, <2>1, <2>2
  <2>4. QED
    BY <1>1, <2>3, TimesFits, CounterConstants
<1>4. QED
  BY <1>2, <1>3 DEF DiskRow

(* blockRates: the differences of two rows in full units, exactly if both  *)
(* fit and go forward, and a busy fraction of at most 1.                   *)
THEOREM BlockIsExact ==
  ASSUME NEW previous \in [sectors: Word, busy: Word],
         NEW current \in [sectors: Word, busy: Word], NEW elapsed \in Nat
  PROVE  BlockRatesAreExact(previous, current, elapsed, RowRates(previous, current, elapsed))
<1> DEFINE pBytes == previous.sectors * SectorSize
           cBytes == current.sectors * SectorSize
           pBusy == previous.busy * Millisecond
           cBusy == current.busy * Millisecond
           p == [bytes |-> pBytes, busy |-> pBusy]
           c == [bytes |-> cBytes, busy |-> cBusy]
           fraction == IF cBusy - pBusy > elapsed THEN <<1, 1>> ELSE <<cBusy - pBusy, elapsed>>
           rates == IF elapsed > 0 /\ pBytes <= cBytes /\ pBusy <= cBusy
                         /\ cBytes <= MaxWord /\ cBusy <= MaxWord
                    THEN {[bytes |-> cBytes - pBytes, busyFraction |-> fraction]} ELSE {}
<1>1. pBytes \in Nat /\ cBytes \in Nat /\ pBusy \in Nat /\ cBusy \in Nat
  BY WordConstants, CounterConstants DEF Word
<1>2. /\ (current.sectors - previous.sectors) * SectorSize = cBytes - pBytes
      /\ (current.busy - previous.busy) * Millisecond = cBusy - pBusy
  BY WordConstants, CounterConstants DEF Word
<1>3. /\ DiskRow(previous) = IF pBytes <= MaxWord /\ pBusy <= MaxWord THEN {p} ELSE {}
      /\ DiskRow(current) = IF cBytes <= MaxWord /\ cBusy <= MaxWord THEN {c} ELSE {}
  BY DiskRowIsExact
<1> HIDE DEF pBytes, cBytes, pBusy, cBusy
<1>4. BlockRates(p, c, elapsed) =
        IF elapsed = 0 \/ cBytes < pBytes \/ cBusy < pBusy THEN {}
        ELSE {[bytes |-> Minus(cBytes, pBytes),
               busyFraction |-> IF Minus(cBusy, pBusy) > elapsed THEN <<1, 1>>
                                ELSE <<Minus(cBusy, pBusy), elapsed>>]}
  <2>1. Regressed(p, c, DOMAIN c) <=> cBytes < pBytes \/ cBusy < pBusy
    BY DEF Regressed
  <2>2. QED
    BY <2>1 DEF BlockRates
<1>5. RowRates(previous, current, elapsed) = rates
  <2>1. CASE pBytes <= MaxWord /\ pBusy <= MaxWord /\ cBytes <= MaxWord /\ cBusy <= MaxWord
    <3>1. RowRates(previous, current, elapsed) = BlockRates(p, c, elapsed)
      BY <1>3, <2>1 DEF RowRates
    <3>2. CASE elapsed > 0 /\ pBytes <= cBytes /\ pBusy <= cBusy
      <4>1. Minus(cBytes, pBytes) = cBytes - pBytes /\ Minus(cBusy, pBusy) = cBusy - pBusy
        <5>1. cBytes \in Word /\ pBytes \in Word /\ cBusy \in Word /\ pBusy \in Word
          BY <1>1, <2>1, WordConstants DEF Word
        <5>2. Minus(cBytes, pBytes) = cBytes - pBytes
          BY <3>2, <5>1, MinusFits
        <5>3. Minus(cBusy, pBusy) = cBusy - pBusy
          BY <3>2, <5>1, MinusFits
        <5>4. QED
          BY <5>2, <5>3
      <4>2. ~(elapsed = 0 \/ cBytes < pBytes \/ cBusy < pBusy)
        BY <1>1, <3>2
      <4>3. QED
        BY <1>4, <2>1, <3>1, <3>2, <4>1, <4>2
    <3>3. CASE ~(elapsed > 0 /\ pBytes <= cBytes /\ pBusy <= cBusy)
      <4>1. elapsed = 0 \/ cBytes < pBytes \/ cBusy < pBusy
        BY <1>1, <3>3
      <4>2. QED
        BY <1>4, <3>1, <3>3, <4>1
    <3>4. QED
      BY <3>2, <3>3
  <2>2. CASE ~(pBytes <= MaxWord /\ pBusy <= MaxWord /\ cBytes <= MaxWord /\ cBusy <= MaxWord)
    <3>1. RowRates(previous, current, elapsed) = {}
      BY <1>3, <2>2 DEF RowRates
    <3>2. ~(pBytes <= cBytes /\ pBusy <= cBusy /\ cBytes <= MaxWord /\ cBusy <= MaxWord)
      BY <1>1, <2>2, WordConstants
    <3>3. QED
      BY <3>1, <3>2
  <2>3. QED
    BY <2>1, <2>2
<1>6. /\ cBytes - pBytes >= 0 <=> pBytes <= cBytes
      /\ cBusy - pBusy >= 0 <=> pBusy <= cBusy
  BY <1>1
<1>7. BlockRatesAreExact(previous, current, elapsed, rates)
  <2>1. current.sectors * SectorSize = cBytes /\ current.busy * Millisecond = cBusy
    BY DEF cBytes, cBusy
  <2>2. QED
    BY <1>2, <1>6, <2>1 DEF BlockRatesAreExact
<1>8. QED
  BY <1>5, <1>7

---------------------------------------------------------------------------
(* Capacities.                                                             *)

(* A part of a total is no larger than the total, and neither are they in  *)
(* another unit.                                                           *)
LEMMA ExactCapacity ==
  ASSUME NEW total \in Nat, NEW used \in 0..total, NEW available \in 0..total, NEW size \in Nat,
         NEW consistent \in BOOLEAN, NEW capacity,
         capacity = IF consistent /\ total * size <= MaxWord
                      THEN {Capacity(total * size, used * size, available * size)} ELSE {}
  PROVE  CapacityIsExact(capacity, consistent, total * size, used * size, available * size)
<1>1. used * size \in 0..(total * size) /\ available * size \in 0..(total * size)
  BY SameFactor
<1>2. QED
  BY <1>1 DEF CapacityIsExact, Capacity

(* statfsCapacity, for all counts and block sizes.                         *)
THEOREM StatfsExact ==
  ASSUME NEW stat \in [blocks: Word, bfree: Word, bavail: Word, bsize: Word, frsize: Word]
  PROVE  StatfsIsExact(stat)
<1> DEFINE size == BlockSize(stat)
           consistent == size > 0 /\ stat.bfree <= stat.blocks /\ stat.bavail <= stat.blocks
<1>1. /\ size \in Word /\ stat.blocks \in Word /\ stat.bfree \in Word /\ stat.bavail \in Word
      /\ \A w \in Word : w \in Nat
  BY WordConstants DEF BlockSize, Word
<1>2. CASE ~consistent
  <2>1. StatfsCapacity(stat) = {}
    <3>1. size = 0 \/ stat.bfree > stat.blocks \/ stat.bavail > stat.blocks
      BY <1>1, <1>2
    <3>2. QED
      BY <3>1 DEF StatfsCapacity
  <2>2. QED
    BY <1>2, <2>1 DEF StatfsIsExact, CapacityIsExact
<1>3. CASE consistent
  <2> DEFINE used == stat.blocks - stat.bfree
  <2>1. /\ Minus(stat.blocks, stat.bfree) = used /\ used \in Word
        /\ used \in 0..stat.blocks /\ stat.bavail \in 0..stat.blocks
    BY <1>1, <1>3, MinusFits
  <2>2. /\ CheckedMultiply(stat.blocks, size) =
             IF stat.blocks * size <= MaxWord THEN {stat.blocks * size} ELSE {}
        /\ CheckedMultiply(used, size) =
             IF used * size <= MaxWord THEN {used * size} ELSE {}
        /\ CheckedMultiply(stat.bavail, size) =
             IF stat.bavail * size <= MaxWord THEN {stat.bavail * size} ELSE {}
    BY <1>1, <2>1, CheckedMultiplyFits
  <2>3. /\ used * size <= stat.blocks * size /\ used * size \in Nat
        /\ stat.bavail * size <= stat.blocks * size /\ stat.bavail * size \in Nat
        /\ stat.blocks * size \in Nat
    BY <1>1, <2>1, SameFactor
  <2>4. ~(size = 0 \/ stat.bfree > stat.blocks \/ stat.bavail > stat.blocks)
    BY <1>1, <1>3
  <2>5. StatfsCapacity(stat) =
          {Capacity(t, u, a) : t \in CheckedMultiply(stat.blocks, size),
                               u \in CheckedMultiply(used, size),
                               a \in CheckedMultiply(stat.bavail, size)}
    BY <2>1, <2>4 DEF StatfsCapacity
  <2> HIDE DEF size, used
  <2>6. StatfsCapacity(stat) =
          IF stat.blocks * size <= MaxWord
            THEN {Capacity(stat.blocks * size, used * size, stat.bavail * size)} ELSE {}
    <3>1. CASE stat.blocks * size <= MaxWord
      <4>1. used * size <= MaxWord /\ stat.bavail * size <= MaxWord
        BY <2>3, <3>1, WordConstants
      <4>2. QED
        BY <2>2, <2>5, <3>1, <4>1
    <3>2. CASE ~(stat.blocks * size <= MaxWord)
      BY <2>2, <2>5, <3>2
    <3>3. QED
      BY <3>1, <3>2
  <2>7. CapacityIsExact(StatfsCapacity(stat), TRUE, stat.blocks * size, used * size,
                        stat.bavail * size)
    BY <1>1, <2>1, <2>6, ExactCapacity
  <2>8. QED
    BY <1>3, <2>7 DEF StatfsIsExact, CapacityIsExact, size, used
<1>4. QED
  BY <1>2, <1>3

(* parseMeminfo, for all totals and what is left of them.                  *)
THEOREM MeminfoExact ==
  ASSUME NEW total \in Word, NEW left \in Word
  PROVE  MeminfoIsExact(total, left)
<1>1. total \in Nat /\ left \in Nat /\ Unit \in Nat /\ Unit # 0 /\ MaxWord \in Nat
  BY WordConstants, CapacityConstants DEF Word
<1>2. /\ total > MaxWord \div Unit <=> ~(total * Unit <= MaxWord)
      /\ left > MaxWord \div Unit <=> ~(left * Unit <= MaxWord)
  <2>1. /\ total <= MaxWord \div Unit <=> total * Unit <= MaxWord
        /\ left <= MaxWord \div Unit <=> left * Unit <= MaxWord
    BY <1>1, Quotient
  <2>2. MaxWord \div Unit \in Int
    BY <1>1
  <2>3. QED
    BY <1>1, <2>1, <2>2
<1>3. total * Unit \in Nat /\ left * Unit \in Nat
  BY <1>1
<1>4. CASE ~(total * Unit <= MaxWord /\ left <= total)
  <2>1. MeminfoPair(total, left) = {}
    <3>1. CASE ~(total * Unit <= MaxWord) \/ ~(left * Unit <= MaxWord)
      BY <1>2, <3>1 DEF MeminfoPair
    <3>2. CASE total * Unit <= MaxWord /\ left * Unit <= MaxWord
      <4>1. Times(total, Unit) = total * Unit /\ Times(left, Unit) = left * Unit
        BY <1>1, <3>2, TimesFits
      <4>2. left * Unit > total * Unit
        <5>1. left > total
          BY <1>1, <1>4, <3>2
        <5>2. QED
          BY <1>1, <5>1
      <4>3. QED
        BY <4>1, <4>2 DEF MeminfoPair
    <3>3. QED
      BY <3>1, <3>2
  <2>2. QED
    BY <1>4, <2>1 DEF MeminfoIsExact, CapacityIsExact
<1>5. CASE total * Unit <= MaxWord /\ left <= total
  <2> DEFINE used == total - left
  <2>1. /\ used \in Nat /\ used \in 0..total /\ left \in 0..total
        /\ left * Unit <= total * Unit /\ used * Unit = total * Unit - left * Unit
    BY <1>1, <1>5, SameFactor
  <2>2. left * Unit <= MaxWord
    BY <1>1, <1>3, <1>5, <2>1
  <2>3. /\ Times(total, Unit) = total * Unit /\ Times(total, Unit) \in Word
        /\ Times(left, Unit) = left * Unit /\ Times(left, Unit) \in Word
    BY <1>1, <1>5, <2>2, TimesFits
  <2>4. Minus(total * Unit, left * Unit) = used * Unit
    BY <2>1, <2>3, MinusFits
  <2>5. ~(Times(left, Unit) > Times(total, Unit))
    BY <1>3, <2>1, <2>3
  <2>6. MeminfoPair(total, left) = {Capacity(total * Unit, used * Unit, left * Unit)}
    BY <1>2, <1>5, <2>2, <2>3, <2>4, <2>5 DEF MeminfoPair
  <2> HIDE DEF used
  <2>7. CapacityIsExact(MeminfoPair(total, left), TRUE, total * Unit, used * Unit, left * Unit)
    BY <1>1, <1>5, <2>1, <2>6, ExactCapacity
  <2>8. QED
    BY <1>5, <2>7 DEF MeminfoIsExact, CapacityIsExact, used
<1>6. QED
  BY <1>4, <1>5

(* parseFreeBSDMemory, for all page counts and sizes.                      *)
THEOREM FreeBSDMemoryExact ==
  ASSUME NEW pages \in Word, NEW size \in Word, NEW free \in Word, NEW inactive \in Word
  PROVE  FreeBSDMemoryIsExact(pages, size, free, inactive)
<1> DEFINE rest == free + inactive
           fits == pages > 0 /\ size > 0 /\ rest <= pages /\ pages * size <= MaxWord
<1>1. /\ pages \in Nat /\ size \in Nat /\ free \in Nat /\ inactive \in Nat /\ rest \in Nat
      /\ MaxWord \in Nat /\ pages <= MaxWord
  BY WordConstants DEF Word
<1>2. CASE ~fits
  <2>1. FreeBSDMemory(pages, size, free, inactive) = {}
    <3>1. CASE pages = 0 \/ size = 0
      BY <3>1 DEF FreeBSDMemory
    <3>2. CASE pages # 0 /\ size # 0 /\ ~(pages * size <= MaxWord)
      <4>1. ~(pages <= MaxWord \div size) /\ MaxWord \div size \in Int
        BY <1>1, <3>2, Quotient
      <4>2. pages > MaxWord \div size
        BY <1>1, <4>1
      <4>3. QED
        BY <4>2 DEF FreeBSDMemory
    <3>3. CASE ~(rest <= pages)
      <4>1. CASE free > pages
        BY <4>1 DEF FreeBSDMemory
      <4>2. CASE free <= pages
        <5>1. Minus(pages, free) = pages - free
          BY <4>2, MinusFits
        <5>2. inactive > pages - free
          BY <1>1, <3>3
        <5>3. QED
          BY <5>1, <5>2 DEF FreeBSDMemory
      <4>3. QED
        BY <1>1, <4>1, <4>2
    <3>4. QED
      BY <1>1, <1>2, <3>1, <3>2, <3>3
  <2>2. QED
    BY <1>2, <2>1 DEF FreeBSDMemoryIsExact, CapacityIsExact
<1>3. CASE fits
  <2> DEFINE used == pages - rest
  <2>1. /\ used \in Nat /\ used \in 0..pages /\ rest \in 0..pages
        /\ rest * size <= pages * size /\ rest * size \in Nat
        /\ used * size = pages * size - rest * size
    BY <1>1, <1>3, SameFactor
  <2>2. Plus(free, inactive) = rest
    BY <1>1, <1>3, PlusFits
  <2>3. /\ Times(pages, size) = pages * size /\ Times(pages, size) \in Word
        /\ Times(rest, size) = rest * size /\ Times(rest, size) \in Word
    <3>1. rest * size <= MaxWord
      <4>1. pages * size \in Nat
        BY <1>1
      <4>2. QED
        BY <1>1, <1>3, <2>1, <4>1
    <3>2. QED
      BY <1>1, <1>3, <3>1, TimesFits
  <2>4. Minus(pages * size, rest * size) = used * size
    BY <2>1, <2>3, MinusFits
  <2>5. ~(\/ pages = 0 \/ size = 0 \/ pages > MaxWord \div size
          \/ free > pages \/ inactive > Minus(pages, free))
    <3>1. pages <= MaxWord \div size /\ MaxWord \div size \in Int
      BY <1>1, <1>3, Quotient
    <3>2. free <= pages /\ Minus(pages, free) = pages - free
      BY <1>1, <1>3, MinusFits
    <3>3. QED
      BY <1>1, <1>3, <3>1, <3>2
  <2> HIDE DEF rest, used
  <2>6. FreeBSDMemory(pages, size, free, inactive) =
          {Capacity(pages * size, used * size, rest * size)}
    BY <2>2, <2>3, <2>4, <2>5 DEF FreeBSDMemory
  <2>7. CapacityIsExact(FreeBSDMemory(pages, size, free, inactive), TRUE,
                        pages * size, used * size, rest * size)
    BY <1>1, <1>3, <2>1, <2>6, ExactCapacity
  <2>8. QED
    BY <1>3, <2>7 DEF FreeBSDMemoryIsExact, CapacityIsExact, used, rest
<1>4. QED
  BY <1>2, <1>3

(* vramCapacity, for all totals and uses.                                  *)
THEOREM VRAMExact ==
  ASSUME NEW used \in Word, NEW total \in Word
  PROVE  VRAMIsExact(used, total)
<1>1. used \in Nat /\ total \in Nat /\ total <= MaxWord
  BY WordConstants DEF Word
<1>2. CASE total = 0 \/ used > total
  BY <1>1, <1>2 DEF VRAMCapacity, VRAMIsExact, CapacityIsExact
<1>3. CASE ~(total = 0 \/ used > total)
  <2>1. Minus(total, used) = total - used
    BY <1>1, <1>3, MinusFits
  <2>2. VRAMCapacity(used, total) = {Capacity(total, used, total - used)}
    BY <1>3, <2>1 DEF VRAMCapacity
  <2>3. total > 0 /\ used <= total /\ used \in 0..total /\ total - used \in 0..total
    BY <1>1, <1>3
  <2>4. QED
    BY <1>1, <2>2, <2>3 DEF VRAMIsExact, CapacityIsExact, Capacity
<1>4. QED
  BY <1>2, <1>3

(* What the arithmetic of words yields is a number.                        *)
LEMMA WordNumbers ==
  ASSUME NEW a \in Nat, NEW b \in Nat
  PROVE  Plus(a, b) \in Nat /\ Times(a, b) \in Nat
<1>1. a * b \in Nat /\ a + b \in Nat /\ MaxWord + 1 \in Nat \ {0}
  BY WordConstants
<1>2. \A x \in Nat, n \in Nat \ {0} : x % n \in Nat
  OBVIOUS
<1>3. QED
  BY <1>1, <1>2 DEF Plus, Times

SwapRow == [blocks: Word, used: Word, avail: Word]
Capacities == [total: Nat, used: Nat, available: Nat]

(* One row of swapinfo is added exactly if its columns agree and the sum   *)
(* is still a word.                                                        *)
LEMMA AddedRow ==
  ASSUME NEW row \in SwapRow, NEW total \in 0..MaxWord, NEW used \in 0..total
  PROVE  AddSwapRow({Capacity(total, used, 0)}, row) =
           IF row.used + row.avail = row.blocks /\ total + row.blocks * Unit <= MaxWord
             THEN {Capacity(total + row.blocks * Unit, used + row.used * Unit, 0)} ELSE {}
<1> DEFINE b == row.blocks * Unit
           u == row.used * Unit
           agree == row.used + row.avail = row.blocks
           added == /\ row.used <= row.blocks /\ row.avail = Minus(row.blocks, row.used)
                    /\ row.blocks <= MaxWord \div Unit
                    /\ total <= Minus(MaxWord, Times(row.blocks, Unit))
                    /\ used <= Minus(MaxWord, Times(row.used, Unit))
<1>1. /\ row.blocks \in Word /\ row.used \in Word /\ row.avail \in Word
      /\ row.blocks \in Nat /\ row.used \in Nat /\ row.avail \in Nat
      /\ MaxWord \in Nat /\ Unit \in Nat \ {0} /\ total \in Nat /\ used \in Nat /\ used <= total
  BY WordConstants, CapacityConstants DEF SwapRow, Word
<1>2. b \in Nat /\ u \in Nat
  BY <1>1
<1>3. AddSwapRow({Capacity(total, used, 0)}, row) =
        IF added THEN {Capacity(Plus(total, Times(row.blocks, Unit)),
                                Plus(used, Times(row.used, Unit)), 0)} ELSE {}
  <2> DEFINE c == Capacity(total, used, 0)
             kept == {t \in {c} :
               /\ row.used <= row.blocks /\ row.avail = Minus(row.blocks, row.used)
               /\ row.blocks <= MaxWord \div Unit
               /\ t.total <= Minus(MaxWord, Times(row.blocks, Unit))
               /\ t.used <= Minus(MaxWord, Times(row.used, Unit))}
  <2>1. c.total = total /\ c.used = used
    BY DEF Capacity
  <2>2. kept = IF added THEN {c} ELSE {}
    <3> HIDE DEF c
    <3>1. QED
      BY <2>1
  <2>3. AddSwapRow({c}, row) =
          {Capacity(Plus(s.total, Times(row.blocks, Unit)), Plus(s.used, Times(row.used, Unit)), 0)
             : s \in kept}
    BY DEF AddSwapRow
  <2> HIDE DEF kept, added
  <2>4. QED
    BY <2>1, <2>2, <2>3
<1>4. row.used <= row.blocks /\ row.avail = Minus(row.blocks, row.used) <=> agree
  <2>1. CASE row.used <= row.blocks
    <3>1. Minus(row.blocks, row.used) = row.blocks - row.used
      BY <1>1, <2>1, MinusFits
    <3>2. QED
      BY <1>1, <2>1, <3>1
  <2>2. CASE ~(row.used <= row.blocks)
    BY <1>1, <2>2
  <2>3. QED
    BY <2>1, <2>2
<1>5. CASE ~(agree /\ total + b <= MaxWord)
  <2>1. ASSUME added PROVE FALSE
    <3>1. agree /\ b <= MaxWord
      BY <1>1, <1>4, <2>1, Quotient
    <3>2. Times(row.blocks, Unit) = b /\ b \in Word
      BY <1>1, <3>1, TimesFits
    <3>3. Minus(MaxWord, b) = MaxWord - b
      <4>1. MaxWord \in Word /\ b <= MaxWord
        BY <1>1, <3>1 DEF Word
      <4> HIDE DEF b
      <4>2. QED
        BY <3>2, <4>1, MinusFits
    <3>4. total <= MaxWord - b
      BY <2>1, <3>2, <3>3
    <3> HIDE DEF b
    <3>5. QED
      BY <1>1, <1>2, <1>5, <3>1, <3>4
  <2> HIDE DEF added, b, u, agree
  <2>2. QED
    BY <1>3, <1>5, <2>1 DEF b, u, agree
<1>6. CASE agree /\ total + b <= MaxWord
  <2>1. row.used <= row.blocks /\ u <= b
    <3>1. row.used <= row.blocks
      BY <1>1, <1>6
    <3>2. QED
      BY <1>1, <3>1, SameFactor
  <2>2. b <= MaxWord /\ u <= MaxWord /\ used + u <= MaxWord
    <3> HIDE DEF b, u
    <3>1. QED
      BY <1>1, <1>2, <1>6, <2>1
  <2>3. /\ Times(row.blocks, Unit) = b /\ b \in Word
        /\ Times(row.used, Unit) = u /\ u \in Word
    BY <1>1, <2>2, TimesFits
  <2>4. row.blocks <= MaxWord \div Unit
    BY <1>1, <2>2, Quotient
  <2> HIDE DEF b, u
  <2>5. /\ Minus(MaxWord, b) = MaxWord - b /\ Minus(MaxWord, u) = MaxWord - u
        /\ Plus(total, b) = total + b /\ Plus(used, u) = used + u
    <3>1. MaxWord \in Word /\ total \in Word /\ used \in Word
      BY <1>1 DEF Word
    <3>2. QED
      BY <1>6, <2>2, <2>3, <3>1, MinusFits, PlusFits
  <2>6. added
    <3>1. total <= MaxWord - b /\ used <= MaxWord - u
      BY <1>1, <1>2, <1>6, <2>2
    <3>2. QED
      BY <1>4, <1>6, <2>3, <2>4, <2>5, <3>1
  <2> HIDE DEF added, agree
  <2>7. AddSwapRow({Capacity(total, used, 0)}, row) = {Capacity(total + b, used + u, 0)}
    BY <1>3, <2>3, <2>5, <2>6
  <2>8. QED
    BY <1>6, <2>7 DEF agree, b, u
<1>7. QED
  BY <1>5, <1>6

(* parseFreeBSDMemory: the capacity of all swap devices is the exact sum   *)
(* of their rows, however many there are, and one row that contradicts     *)
(* itself or a sum that is no word refuses them all.                       *)
THEOREM FreeBSDSwapExact ==
  ASSUME NEW rows \in Seq(SwapRow)
  PROVE  FreeBSDSwapIsExact(rows)
<1> DEFINE N == Len(rows)
           sum == CHOOSE sum : sum = [i \in 0..Len(rows) |->
                    IF i = 0 THEN {Capacity(0, 0, 0)} ELSE AddSwapRow(sum[i - 1], rows[i])]
           B == CHOOSE B : B = [i \in 0..Len(rows) |->
                    IF i = 0 THEN 0 ELSE B[i - 1] + rows[i].blocks * Unit]
           U == CHOOSE U : U = [i \in 0..Len(rows) |->
                    IF i = 0 THEN 0 ELSE U[i - 1] + rows[i].used * Unit]
           agree(n) == \A i \in 1..n : rows[i].used + rows[i].avail = rows[i].blocks
<1>1. /\ N \in Nat /\ Unit \in Nat /\ MaxWord \in Nat
      /\ \A i \in 1..N : /\ rows[i] \in SwapRow /\ rows[i].blocks \in Nat
                         /\ rows[i].used \in Nat /\ rows[i].avail \in Nat
  <2>1. \A i \in 1..N : rows[i] \in SwapRow
    OBVIOUS
  <2>2. \A row \in SwapRow : row.blocks \in Nat /\ row.used \in Nat /\ row.avail \in Nat
    BY WordConstants DEF SwapRow, Word
  <2>3. QED
    BY <2>1, <2>2, WordConstants, CapacityConstants
<1>2. B = [i \in 0..N |-> IF i = 0 THEN 0 ELSE B[i - 1] + rows[i].blocks * Unit]
  <2> DEFINE F == [i \in 1..N |-> [x \in Nat |-> x + rows[i].blocks * Unit]]
  <2>1. F \in [1..N -> [Nat -> Nat]]
    <3>1. \A i \in 1..N : rows[i].blocks * Unit \in Nat
      BY <1>1
    <3>2. QED
      BY <3>1
  <2>2. PICK g \in [0..N -> Nat] : g[0] = 0 /\ \A i \in 1..N : g[i] = F[i][g[i - 1]]
    <3> HIDE DEF F, N
    <3>1. \E g : Steps(g, N, Nat, 0, F)
      BY <1>1, <2>1, StepByStep
    <3>2. QED
      BY <3>1 DEF Steps
  <2>3. \A i \in 1..N : g[i] = g[i - 1] + rows[i].blocks * Unit
    <3>1. \A i \in 1..N : i - 1 \in 0..N
      BY <1>1
    <3>2. QED
      BY <2>2, <3>1
  <2>4. g = [i \in 0..N |-> IF i = 0 THEN 0 ELSE g[i - 1] + rows[i].blocks * Unit]
    <3>1. \A i \in 0..N : i # 0 => i \in 1..N
      BY <1>1
    <3>2. QED
      BY <2>2, <2>3, <3>1
  <2>5. QED
    BY <2>4
<1>3. U = [i \in 0..N |-> IF i = 0 THEN 0 ELSE U[i - 1] + rows[i].used * Unit]
  <2> DEFINE F == [i \in 1..N |-> [x \in Nat |-> x + rows[i].used * Unit]]
  <2>1. F \in [1..N -> [Nat -> Nat]]
    <3>1. \A i \in 1..N : rows[i].used * Unit \in Nat
      BY <1>1
    <3>2. QED
      BY <3>1
  <2>2. PICK g \in [0..N -> Nat] : g[0] = 0 /\ \A i \in 1..N : g[i] = F[i][g[i - 1]]
    <3> HIDE DEF F, N
    <3>1. \E g : Steps(g, N, Nat, 0, F)
      BY <1>1, <2>1, StepByStep
    <3>2. QED
      BY <3>1 DEF Steps
  <2>3. \A i \in 1..N : g[i] = g[i - 1] + rows[i].used * Unit
    <3>1. \A i \in 1..N : i - 1 \in 0..N
      BY <1>1
    <3>2. QED
      BY <2>2, <3>1
  <2>4. g = [i \in 0..N |-> IF i = 0 THEN 0 ELSE g[i - 1] + rows[i].used * Unit]
    <3>1. \A i \in 0..N : i # 0 => i \in 1..N
      BY <1>1
    <3>2. QED
      BY <2>2, <2>3, <3>1
  <2>5. QED
    BY <2>4
<1>4. sum = [i \in 0..N |-> IF i = 0 THEN {Capacity(0, 0, 0)} ELSE AddSwapRow(sum[i - 1], rows[i])]
  <2> DEFINE F == [i \in 1..N |-> [x \in SUBSET Capacities |-> AddSwapRow(x, rows[i])]]
  <2>1. F \in [1..N -> [SUBSET Capacities -> SUBSET Capacities]]
    <3>1. ASSUME NEW i \in 1..N, NEW x \in SUBSET Capacities
          PROVE  AddSwapRow(x, rows[i]) \in SUBSET Capacities
      <4>1. ASSUME NEW s \in Capacities
            PROVE  Capacity(Plus(s.total, Times(rows[i].blocks, Unit)),
                            Plus(s.used, Times(rows[i].used, Unit)), 0) \in Capacities
        BY <1>1, WordNumbers DEF Capacity, Capacities
      <4>2. QED
        BY <4>1 DEF AddSwapRow
    <3>2. QED
      BY <3>1
  <2>2. {Capacity(0, 0, 0)} \in SUBSET Capacities
    BY DEF Capacity, Capacities
  <2>3. PICK g \in [0..N -> SUBSET Capacities] :
          g[0] = {Capacity(0, 0, 0)} /\ \A i \in 1..N : g[i] = F[i][g[i - 1]]
    <3> DEFINE S == SUBSET Capacities
               b == {Capacity(0, 0, 0)}
    <3>1. b \in S /\ F \in [1..N -> [S -> S]] /\ N \in Nat
      BY <1>1, <2>1, <2>2
    <3> HIDE DEF F, N, S, b
    <3>2. \E g : Steps(g, N, S, b, F)
      BY <3>1, StepByStep
    <3>3. QED
      BY <3>2 DEF Steps, S, b
  <2>4. \A i \in 1..N : g[i] = AddSwapRow(g[i - 1], rows[i])
    <3>1. \A i \in 1..N : i - 1 \in 0..N
      BY <1>1
    <3>2. QED
      BY <2>3, <3>1
  <2>5. g = [i \in 0..N |-> IF i = 0 THEN {Capacity(0, 0, 0)} ELSE AddSwapRow(g[i - 1], rows[i])]
    <3>1. \A i \in 0..N : i # 0 => i \in 1..N
      BY <1>1
    <3>2. QED
      BY <2>3, <2>4, <3>1
  <2>6. QED
    BY <2>5
<1> HIDE DEF sum, B, U
<1> DEFINE Good == {n \in 0..N :
             /\ B[n] \in Nat /\ U[n] \in Nat
             /\ agree(n) => U[n] <= B[n]
             /\ sum[n] = IF agree(n) /\ B[n] <= MaxWord THEN {Capacity(B[n], U[n], 0)} ELSE {}}
<1>5. 0 \in Good
  <2>1. /\ 0 \in 0..N /\ B[0] = 0 /\ U[0] = 0 /\ sum[0] = {Capacity(0, 0, 0)}
    BY <1>1, <1>2, <1>3, <1>4
  <2>2. agree(0)
    OBVIOUS
  <2>3. 0 <= MaxWord
    BY <1>1
  <2> HIDE DEF agree, N
  <2>4. /\ B[0] \in Nat /\ U[0] \in Nat /\ U[0] <= B[0]
        /\ sum[0] = IF agree(0) /\ B[0] <= MaxWord THEN {Capacity(B[0], U[0], 0)} ELSE {}
    BY <2>1, <2>2, <2>3
  <2>5. QED
    BY <2>1, <2>4
<1>6. ASSUME NEW n \in 1..N, n - 1 \in Good PROVE n \in Good
  <2> DEFINE b == rows[n].blocks * Unit
             u == rows[n].used * Unit
             m == n - 1
  <2>1. /\ m \in 0..N /\ B[m] \in Nat /\ U[m] \in Nat
        /\ agree(m) => U[m] <= B[m]
        /\ sum[m] = IF agree(m) /\ B[m] <= MaxWord THEN {Capacity(B[m], U[m], 0)} ELSE {}
    BY <1>6
  <2>2. B[n] = B[m] + b /\ U[n] = U[m] + u /\ sum[n] = AddSwapRow(sum[m], rows[n])
    <3>1. n \in 0..N /\ n # 0
      BY <1>1
    <3>2. /\ B[n] = B[n - 1] + rows[n].blocks * Unit /\ U[n] = U[n - 1] + rows[n].used * Unit
          /\ sum[n] = AddSwapRow(sum[n - 1], rows[n])
      BY <1>2, <1>3, <1>4, <3>1
    <3>3. QED
      BY <3>2
  <2>3. b \in Nat /\ u \in Nat /\ B[n] \in Nat /\ U[n] \in Nat /\ n \in 0..N
    <3>1. b \in Nat /\ u \in Nat /\ n \in 0..N
      BY <1>1
    <3> HIDE DEF b, u
    <3>2. QED
      BY <2>1, <2>2, <3>1
  <2>4. agree(n) <=> agree(m) /\ rows[n].used + rows[n].avail = rows[n].blocks
    <3>1. \A i \in 1..n : i \in 1..m \/ i = n
      BY <1>1
    <3>2. 1..m \subseteq 1..n /\ n \in 1..n
      BY <1>1
    <3>3. QED
      BY <3>1, <3>2
  <2> HIDE DEF m, agree
  <2>5. agree(n) => U[n] <= B[n]
    <3> SUFFICES ASSUME agree(n) PROVE U[n] <= B[n]
      OBVIOUS
    <3>1. rows[n].used <= rows[n].blocks
      BY <1>1, <2>4
    <3>2. u <= b
      BY <1>1, <3>1, SameFactor
    <3> HIDE DEF b, u
    <3>3. QED
      BY <2>1, <2>2, <2>3, <2>4, <3>2
  <2>6. sum[n] = IF agree(n) /\ B[n] <= MaxWord THEN {Capacity(B[n], U[n], 0)} ELSE {}
    <3>1. CASE agree(m) /\ B[m] <= MaxWord
      <4>1. B[m] \in 0..MaxWord /\ U[m] \in 0..B[m] /\ rows[n] \in SwapRow
        BY <1>1, <2>1, <3>1
      <4>2. AddSwapRow({Capacity(B[m], U[m], 0)}, rows[n]) =
              IF rows[n].used + rows[n].avail = rows[n].blocks /\ B[m] + b <= MaxWord
                THEN {Capacity(B[m] + b, U[m] + u, 0)} ELSE {}
        BY <4>1, AddedRow
      <4> HIDE DEF b, u
      <4>3. QED
        BY <2>1, <2>2, <2>4, <3>1, <4>2
    <3>2. CASE ~(agree(m) /\ B[m] <= MaxWord)
      <4>1. sum[n] = {}
        BY <2>1, <2>2, <3>2 DEF AddSwapRow
      <4>2. B[n] <= MaxWord => B[m] <= MaxWord
        <5> HIDE DEF b, u
        <5>1. QED
          BY <1>1, <2>1, <2>2, <2>3
      <4>3. QED
        BY <2>4, <3>2, <4>1, <4>2
    <3>3. QED
      BY <3>1, <3>2
  <2> HIDE DEF b, u
  <2>7. QED
    BY <2>3, <2>5, <2>6
<1>7. N \in Good
  <2>1. Good \in SUBSET (0..N) /\ N \in 0..N
    BY <1>1
  <2> HIDE DEF Good
  <2>2. QED
    BY <1>1, <1>5, <1>6, <2>1, AlongTheSteps
<1>8. FreeBSDSwap(rows) = {Capacity(s.total, s.used, Minus(s.total, s.used)) : s \in sum[N]}
  BY DEF FreeBSDSwap, sum
<1>9. FreeBSDSwapIsExact(rows) <=>
        CapacityIsExact(FreeBSDSwap(rows), agree(N), B[N], U[N], B[N] - U[N])
  BY DEF FreeBSDSwapIsExact, B, U
<1> HIDE DEF N, agree
<1>10. CASE agree(N) /\ B[N] <= MaxWord
  <2>1. B[N] \in Nat /\ U[N] \in Nat /\ U[N] <= B[N] /\ sum[N] = {Capacity(B[N], U[N], 0)}
    BY <1>7, <1>10
  <2>2. Minus(B[N], U[N]) = B[N] - U[N]
    BY <1>1, <1>10, <2>1, MinusFits DEF Word
  <2>3. FreeBSDSwap(rows) = {Capacity(B[N], U[N], B[N] - U[N])}
    BY <1>8, <2>1, <2>2 DEF Capacity
  <2>4. U[N] \in 0..B[N] /\ B[N] - U[N] \in 0..B[N]
    BY <2>1
  <2>5. QED
    BY <1>9, <1>10, <2>3, <2>4 DEF CapacityIsExact, Capacity
<1>11. CASE ~(agree(N) /\ B[N] <= MaxWord)
  <2>1. FreeBSDSwap(rows) = {}
    BY <1>7, <1>8, <1>11
  <2>2. QED
    BY <1>9, <1>11, <2>1 DEF CapacityIsExact
<1>12. QED
  BY <1>10, <1>11

(* readFilesystems: every mount it asks for is a filesystem or an issue,   *)
(* never both.                                                             *)
LEMMA MountsAreTold ==
  ASSUME NEW mounts, IsFiniteSet(DOMAIN mounts)
  PROVE  Cardinality(Filesystems(mounts)) + Cardinality(FilesystemIssues(mounts))
           = Cardinality({i \in DOMAIN mounts : mounts[i].type # "autofs"})
<1> DEFINE F == Filesystems(mounts)
           I == FilesystemIssues(mounts)
<1>1. F \cup I = Statfs(mounts) /\ F \cap I = {}
  BY DEF Filesystems, FilesystemIssues
<1>2. F \subseteq DOMAIN mounts /\ I \subseteq DOMAIN mounts
  BY DEF Filesystems, FilesystemIssues, Statfs
<1>3. IsFiniteSet(F) /\ IsFiniteSet(I)
  BY <1>2, FS_Subset
<1> HIDE DEF F, I
<1>4. Cardinality(F \cup I) = Cardinality(F) + Cardinality(I) - Cardinality(F \cap I)
  BY <1>3, FS_Union
<1>5. Cardinality(F \cap I) = 0 /\ Cardinality(F) \in Nat /\ Cardinality(I) \in Nat
  BY <1>1, <1>3, FS_EmptySet, FS_CardinalityType
<1>6. Cardinality(F) + Cardinality(I) = Cardinality(Statfs(mounts))
  BY <1>1, <1>4, <1>5
<1>7. QED
  BY <1>6 DEF F, I, Statfs

---------------------------------------------------------------------------
(* Batteries.                                                              *)

(* Directories of supplies: what readSysfsUint and readSysfsInt return.    *)
Unsigned == {"energy_now", "energy_full", "energy_full_design", "charge_now", "charge_full",
             "charge_full_design", "voltage_now", "capacity"}
Signed == {"power_now", "current_now"}
IsDirectory(dir) ==
  /\ \A f \in Unsigned \cap DOMAIN dir : dir[f] \in Nat
  /\ \A f \in Signed \cap DOMAIN dir : dir[f] \in Int

LEMMA ClampIsFraction ==
  ASSUME NEW r, IsFraction(r)
  PROVE  IsFraction(Clamp(r)) /\ AtMost(Clamp(r), Clamp(r))
<1>1. IsFraction(Clamp(r))
  BY DEF Clamp, Ratio, IsFraction
<1>2. QED
  BY <1>1, AtMostIsTotal

LEMMA RatioIsFraction ==
  ASSUME NEW a \in Nat, NEW b \in Nat \ {0}
  PROVE  IsFraction(Ratio(a, b)) /\ Ratio(a, b)[1] = a /\ Ratio(a, b)[2] = b
BY DEF IsFraction, Ratio

(* batteryDevice divides a full capacity by a factory capacity of the same *)
(* family of files, for every directory.                                   *)
THEOREM HealthOfOneFamily ==
  ASSUME NEW dir, IsDirectory(dir)
  PROVE  HealthIsOfOneFamily(dir)
<1> DEFINE Exact(full, design) == Clamp(Ratio(dir[full], dir[design]))
<1> SUFFICES ASSUME NEW h \in Health(dir)
             PROVE \E files \in {<<"energy_full", "energy_full_design">>,
                                 <<"charge_full", "charge_full_design">>} :
                     /\ Positive(dir, files[1]) /\ Positive(dir, files[2])
                     /\ AtMost(h, Exact(files[1], files[2])) /\ AtMost(Exact(files[1], files[2]), h)
  BY DEF HealthIsOfOneFamily
<1>1. ASSUME NEW full \in Unsigned, NEW design \in Unsigned,
             Positive(dir, full), Positive(dir, design)
      PROVE  dir[full] \in Nat \ {0} /\ dir[design] \in Nat \ {0}
  BY <1>1 DEF IsDirectory, Positive, Has
<1>2. PICK f \in FullAndDesign(dir).full, d \in FullAndDesign(dir).design \ {0} :
        h = Clamp(Ratio(f, d))
  BY DEF Health
<1>3. CASE FullAndDesign(dir) = EnergyPair(dir)
  <2>1. /\ FromEnergy(dir) /\ f = dir["energy_full"]
        /\ Positive(dir, "energy_full_design") /\ d = dir["energy_full_design"]
    BY <1>2, <1>3 DEF EnergyPair
  <2>2. Positive(dir, "energy_full")
    BY <2>1 DEF FromEnergy
  <2>3. dir["energy_full"] \in Nat \ {0} /\ dir["energy_full_design"] \in Nat \ {0}
    BY <1>1, <2>1, <2>2 DEF Unsigned
  <2>4. h = Exact("energy_full", "energy_full_design") /\ AtMost(h, h)
    BY <1>2, <2>1, <2>3, RatioIsFraction, ClampIsFraction
  <2>5. QED
    BY <2>1, <2>2, <2>4
<1>4. CASE FullAndDesign(dir) = ChargePair(dir) /\ FromCharge(dir)
           /\ Positive(dir, "charge_full_design") /\ Has(dir, "voltage_now")
  <2>1. /\ Positive(dir, "charge_full") /\ Positive(dir, "charge_full_design")
        /\ dir["voltage_now"] \in Nat
    BY <1>4 DEF FromCharge, IsDirectory, Unsigned, Has
  <2>2. f = dir["charge_full"] * dir["voltage_now"] /\ d = dir["charge_full_design"] * dir["voltage_now"]
    BY <1>2, <1>4 DEF ChargePair, Value
  <2>3. dir["charge_full"] \in Nat \ {0} /\ dir["charge_full_design"] \in Nat \ {0}
    BY <1>1, <2>1 DEF Unsigned
  <2> DEFINE x == dir["charge_full"]
             y == dir["charge_full_design"]
             v == dir["voltage_now"]
  <2>4. x \in Nat /\ y \in Nat \ {0} /\ v \in Nat /\ f = x * v /\ d = y * v /\ d # 0
    BY <1>2, <2>1, <2>2, <2>3
  <2> HIDE DEF x, y, v
  <2>5. f \in Nat /\ d \in Nat \ {0} /\ f * y = x * d
    BY <2>4
  <2>6. /\ IsFraction(Ratio(f, d)) /\ IsFraction(Ratio(x, y))
        /\ AtMost(Ratio(f, d), Ratio(x, y)) /\ AtMost(Ratio(x, y), Ratio(f, d))
    <3>1. f * y \in Nat /\ f * y <= x * d /\ x * d <= f * y
      BY <2>4, <2>5
    <3>2. QED
      BY <2>4, <2>5, <3>1, RatioIsFraction DEF AtMost
  <2>7. AtMost(h, Clamp(Ratio(x, y))) /\ AtMost(Clamp(Ratio(x, y)), h)
    BY <1>2, <2>6, ClampKeepsOrder
  <2>8. QED
    BY <2>1, <2>7 DEF x, y
<1>5. QED
  BY <1>3, <1>4 DEF FullAndDesign

(* A fraction of sums lies between the fractions of the terms.             *)
LEMMA SumsAreBetween ==
  ASSUME NEW D, IsFiniteSet(D), D # {}, NEW a \in [D -> Nat], NEW b \in [D -> Nat \ {0}]
  PROVE  /\ IsFraction(Ratio(SumOf(a), SumOf(b)))
         /\ \E x \in D : AtMost(Ratio(a[x], b[x]), Ratio(SumOf(a), SumOf(b)))
         /\ \E x \in D : AtMost(Ratio(SumOf(a), SumOf(b)), Ratio(a[x], b[x]))
<1> DEFINE s == [x \in D |-> Ratio(a[x], b[x])]
           A == SumOver(a, D)
           B == SumOver(b, D)
<1>1. \A x \in D : /\ a[x] \in Nat /\ b[x] \in Nat \ {0}
                   /\ IsFraction(s[x]) /\ s[x][1] = a[x] /\ s[x][2] = b[x]
  BY RatioIsFraction
<1>2. SumOf(a) = A /\ SumOf(b) = B
  BY DEF SumOf
<1>3. a \in [D -> Int] /\ b \in [D -> Int] /\ D \in SUBSET D
  BY <1>1
<1>4. A \in Nat /\ B \in Nat \ {0}
  <2>1. A \in Nat /\ B \in Nat
    BY <1>1, <1>3, SumNat
  <2>2. PICK x \in D : TRUE
    OBVIOUS
  <2>3. B = b[x] + SumOver(b, D \ {x})
    BY <1>3, SumStep
  <2>4. SumOver(b, D \ {x}) \in Nat
    BY <1>1, <1>3, SumNat
  <2>5. QED
    BY <1>1, <2>1, <2>3, <2>4
<1>5. PICK low \in D : \A x \in D : AtMost(s[low], s[x])
  <2> HIDE DEF s
  <2>1. QED
    BY <1>1, SomeSmallest
<1>6. PICK high \in D : \A x \in D : AtMost(s[x], s[high])
  <2> HIDE DEF s
  <2>1. QED
    BY <1>1, SomeLargest
<1> HIDE DEF A, B
<1>7. a[low] * B <= b[low] * A
  <2>1. \A x \in D : a[low] * b[x] <= b[low] * a[x]
    <3> SUFFICES ASSUME NEW x \in D PROVE a[low] * b[x] <= b[low] * a[x]
      OBVIOUS
    <3>1. s[low][1] * s[x][2] <= s[x][1] * s[low][2]
      BY <1>5 DEF AtMost
    <3>2. a[low] * b[x] <= a[x] * b[low]
      BY <1>1, <3>1
    <3>3. a[x] * b[low] = b[low] * a[x]
      BY <1>1
    <3>4. QED
      BY <3>2, <3>3
  <2>2. QED
    BY <1>1, <1>3, <2>1, SumInProportion DEF A, B
<1>8. b[high] * A <= a[high] * B
  <2>1. \A x \in D : b[high] * a[x] <= a[high] * b[x]
    <3> SUFFICES ASSUME NEW x \in D PROVE b[high] * a[x] <= a[high] * b[x]
      OBVIOUS
    <3>1. s[x][1] * s[high][2] <= s[high][1] * s[x][2]
      BY <1>6 DEF AtMost
    <3>2. a[x] * b[high] <= a[high] * b[x]
      BY <1>1, <3>1
    <3>3. a[x] * b[high] = b[high] * a[x]
      BY <1>1
    <3>4. QED
      BY <3>2, <3>3
  <2>2. QED
    BY <1>1, <1>3, <2>1, SumInProportion DEF A, B
<1> HIDE DEF s
<1>9. b[low] * A = A * b[low] /\ b[high] * A = A * b[high]
  BY <1>1, <1>4
<1>10. /\ AtMost(Ratio(a[low], b[low]), Ratio(A, B))
       /\ AtMost(Ratio(A, B), Ratio(a[high], b[high]))
  BY <1>7, <1>8, <1>9 DEF AtMost, Ratio
<1>11. QED
  BY <1>2, <1>4, <1>10, RatioIsFraction

Fractions == Nat \X (Nat \ {0})

LEMMA FractionsAreFractions == \A r : r \in Fractions <=> IsFraction(r)
BY DEF Fractions, IsFraction

LEMMA AddRatiosIsFraction ==
  ASSUME NEW r \in Fractions, NEW q \in Fractions
  PROVE  /\ AddRatios(r, q) \in Fractions
         /\ AddRatios(r, q)[1] = r[1] * q[2] + q[1] * r[2] /\ AddRatios(r, q)[2] = r[2] * q[2]
<1>1. PICK a \in Nat, b \in Nat \ {0} : r = <<a, b>>
  BY DEF Fractions
<1>2. PICK c \in Nat, d \in Nat \ {0} : q = <<c, d>>
  BY DEF Fractions
<1>3. a * d + c * b \in Nat /\ b * d \in Nat \ {0}
  OBVIOUS
<1>4. QED
  BY <1>1, <1>2, <1>3 DEF AddRatios, Ratio, Fractions

(* The sum of the fractions s, and what h is for the subsets on the way.   *)
RatioSums(h, s, D) ==
  /\ h \in [SUBSET D -> Fractions]
  /\ h[D] = FoldFunction(AddRatios, Ratio(0, 1), s)
  /\ h[{}] = Ratio(0, 1)
  /\ \A t \in SUBSET D : t # {} => h[t] = AddRatios(s[First(t)], h[t \ {First(t)}])

LEMMA RatioSumExists ==
  ASSUME NEW D, IsFiniteSet(D), NEW s, s \in [D -> Fractions]
  PROVE  \E h : RatioSums(h, s, D)
<1> DEFINE F == [x \in D |-> [q \in Fractions |-> AddRatios(s[x], q)]]
           zero == Ratio(0, 1)
           sum == CHOOSE h : h = [t \in SUBSET D |-> IF t = {} THEN zero
                                   ELSE AddRatios(s[First(t)], h[t \ {First(t)}])]
<1>1. zero \in Fractions
  BY DEF Ratio, Fractions
<1>2. F \in [D -> [Fractions -> Fractions]]
  <2>1. ASSUME NEW x \in D, NEW q \in Fractions PROVE AddRatios(s[x], q) \in Fractions
    BY AddRatiosIsFraction
  <2>2. QED
    BY <2>1
<1>3. PICK g : FoldsUp(g, zero, F, Fractions, SUBSET D)
  <2> HIDE DEF F, zero
  <2>1. QED
    BY <1>1, <1>2, FoldExists
<1>4. ASSUME NEW t \in SUBSET D, t # {}
      PROVE  F[First(t)][g[t \ {First(t)}]] = AddRatios(s[First(t)], g[t \ {First(t)}])
  <2>1. First(t) \in D /\ t \ {First(t)} \in SUBSET D
    BY <1>4 DEF First
  <2>2. g[t \ {First(t)}] \in Fractions
    BY <1>3, <2>1 DEF FoldsUp
  <2>3. QED
    BY <2>1, <2>2
<1> HIDE DEF F
<1>5. g = [t \in SUBSET D |-> IF t = {} THEN zero ELSE AddRatios(s[First(t)], g[t \ {First(t)}])]
  BY <1>3, <1>4 DEF FoldsUp
<1>6. sum = [t \in SUBSET D |-> IF t = {} THEN zero ELSE AddRatios(s[First(t)], sum[t \ {First(t)}])]
  BY <1>5
<1>7. FoldFunction(AddRatios, Ratio(0, 1), s) = sum[D]
  <2>1. DOMAIN s = D
    OBVIOUS
  <2>2. QED
    BY <2>1 DEF FoldFunction, FoldFunctionOnSet, MapThenFoldSet, First
<1> HIDE DEF sum
<1> DEFINE Bad == {t \in SUBSET D : sum[t] \notin Fractions}
<1>8. Bad = {}
  <2> SUFFICES ASSUME Bad # {} PROVE FALSE
    OBVIOUS
  <2>1. PICK t \in Bad : \A v \in Bad : v \subseteq t => v = t
    <3>1. Bad \subseteq SUBSET D
      OBVIOUS
    <3> HIDE DEF Bad
    <3>2. QED
      BY <3>1, Minimal
  <2>2. t \in SUBSET D /\ t # {}
    BY <1>1, <1>6
  <2>3. First(t) \in t /\ First(t) \in D /\ t \ {First(t)} \in SUBSET D
    BY <2>2 DEF First
  <2>4. sum[t \ {First(t)}] \in Fractions
    BY <2>1, <2>3
  <2>5. sum[t] = AddRatios(s[First(t)], sum[t \ {First(t)}])
    BY <1>6, <2>2
  <2>6. QED
    BY <2>3, <2>4, <2>5, AddRatiosIsFraction
<1>9. sum \in [SUBSET D -> Fractions]
  BY <1>6, <1>8
<1>10. QED
  BY <1>6, <1>7, <1>9 DEF RatioSums

(* A bound of all terms, times their number, bounds their sum.             *)
LEMMA RatioSumBounds ==
  ASSUME NEW D, IsFiniteSet(D), NEW s, s \in [D -> Fractions],
         NEW low \in Fractions, NEW high \in Fractions,
         \A x \in D : AtMost(low, s[x]) /\ AtMost(s[x], high)
  PROVE  LET sum == FoldFunction(AddRatios, Ratio(0, 1), s)
             n == Cardinality(D)
         IN /\ sum \in Fractions
            /\ n * low[1] * sum[2] <= sum[1] * low[2]
            /\ sum[1] * high[2] <= n * high[1] * sum[2]
<1>0. PICK h : RatioSums(h, s, D)
  BY RatioSumExists
<1>1. /\ h \in [SUBSET D -> Fractions]
      /\ h[D] = FoldFunction(AddRatios, Ratio(0, 1), s)
      /\ h[{}] = Ratio(0, 1)
      /\ \A t \in SUBSET D : t # {} => h[t] = AddRatios(s[First(t)], h[t \ {First(t)}])
  BY <1>0 DEF RatioSums
<1> DEFINE Good(t) == /\ Cardinality(t) * low[1] * h[t][2] <= h[t][1] * low[2]
                      /\ h[t][1] * high[2] <= Cardinality(t) * high[1] * h[t][2]
           Bad == {t \in SUBSET D : ~Good(t)}
<1>2. \A r \in Fractions : r[1] \in Nat /\ r[2] \in Nat \ {0}
  BY DEF Fractions
<1>3. Bad = {}
  <2> SUFFICES ASSUME Bad # {} PROVE FALSE
    OBVIOUS
  <2>1. PICK t \in Bad : \A v \in Bad : v \subseteq t => v = t
    <3>1. Bad \subseteq SUBSET D
      OBVIOUS
    <3> HIDE DEF Bad
    <3>2. QED
      BY <3>1, Minimal
  <2>2. CASE t = {}
    <3>1. Cardinality(t) = 0 /\ h[t][1] = 0 /\ h[t][2] = 1
      BY <1>1, <2>2, FS_EmptySet DEF Ratio
    <3>2. low[1] \in Nat /\ low[2] \in Nat /\ high[1] \in Nat /\ high[2] \in Nat
      BY <1>2
    <3>3. Good(t)
      BY <3>1, <3>2
    <3>4. QED
      BY <2>1, <3>3
  <2>3. CASE t # {}
    <3> DEFINE x == First(t)
               v == t \ {First(t)}
    <3>1. x \in t /\ x \in D /\ v \in SUBSET D /\ v # t /\ v \subseteq t
      BY <2>3 DEF First
    <3>2. Good(v)
      BY <2>1, <3>1
    <3>3. /\ Cardinality(v) \in Nat /\ Cardinality(t) = Cardinality(v) + 1
      <4>1. IsFiniteSet(t)
        BY FS_Subset
      <4>2. /\ Cardinality(t) \in Nat /\ Cardinality(v) \in Nat
            /\ Cardinality(v) = Cardinality(t) - 1
        BY <2>3, <4>1, FirstIsOne
      <4> HIDE DEF v
      <4>3. QED
        BY <4>2
    <3>4. h[t] = AddRatios(s[x], h[v])
      BY <1>1, <2>3
    <3>5. s[x] \in Fractions /\ h[v] \in Fractions
      BY <1>1, <3>1
    <3>6. h[t][1] = s[x][1] * h[v][2] + h[v][1] * s[x][2] /\ h[t][2] = s[x][2] * h[v][2]
      BY <3>4, <3>5, AddRatiosIsFraction
    <3> DEFINE a == s[x][1]  b == s[x][2]  c == h[v][1]  d == h[v][2]
               l == low[1]  m == low[2]  p == high[1]  q == high[2]
               k == Cardinality(v)
    <3>7. /\ a \in Nat /\ b \in Nat /\ c \in Nat /\ d \in Nat /\ l \in Nat /\ m \in Nat
          /\ p \in Nat /\ q \in Nat /\ k \in Nat
      BY <1>2, <3>3, <3>5
    <3>8. l * b <= a * m /\ a * q <= p * b
      BY <3>1 DEF AtMost
    <3>9. k * l * d <= c * m /\ c * q <= k * p * d
      BY <3>2
    <3>10. Good(t) <=> /\ (k + 1) * l * (b * d) <= (a * d + c * b) * m
                       /\ (a * d + c * b) * q <= (k + 1) * p * (b * d)
      BY <3>3, <3>6
    <3> HIDE DEF a, b, c, d, l, m, p, q, k, Good, x, v
    <3>11. (k + 1) * l * (b * d) <= (a * d + c * b) * m
      <4>1. (l * b) * d <= (a * m) * d
        BY <3>7, <3>8, TimesKeepsOrder
      <4>2. (k * l * d) * b <= (c * m) * b
        BY <3>7, <3>9, TimesKeepsOrder
      <4>3. (k + 1) * l * (b * d) = (k * l * d) * b + (l * b) * d
        BY <3>7
      <4>4. (a * d + c * b) * m = (c * m) * b + (a * m) * d
        BY <3>7
      <4>5. /\ (l * b) * d \in Nat /\ (a * m) * d \in Nat
            /\ (k * l * d) * b \in Nat /\ (c * m) * b \in Nat
        BY <3>7
      <4>6. QED
        BY <4>1, <4>2, <4>3, <4>4, <4>5
    <3>12. (a * d + c * b) * q <= (k + 1) * p * (b * d)
      <4>1. (a * q) * d <= (p * b) * d
        BY <3>7, <3>8, TimesKeepsOrder
      <4>2. (c * q) * b <= (k * p * d) * b
        BY <3>7, <3>9, TimesKeepsOrder
      <4>3. (k + 1) * p * (b * d) = (k * p * d) * b + (p * b) * d
        BY <3>7
      <4>4. (a * d + c * b) * q = (c * q) * b + (a * q) * d
        BY <3>7
      <4>5. /\ (p * b) * d \in Nat /\ (a * q) * d \in Nat
            /\ (k * p * d) * b \in Nat /\ (c * q) * b \in Nat
        BY <3>7
      <4>6. QED
        BY <4>1, <4>2, <4>3, <4>4, <4>5
    <3>13. QED
      BY <2>1, <3>10, <3>11, <3>12
  <2>4. QED
    BY <2>2, <2>3
<1>4. D \in SUBSET D /\ Good(D)
  BY <1>3
<1>5. QED
  BY <1>1, <1>4

(* The mean of fractions lies between them.                                *)
LEMMA MeanIsBetween ==
  ASSUME NEW D, IsFiniteSet(D), D # {}, NEW s, s \in [D -> Fractions], NEW mean,
         mean = LET sum == FoldFunction(AddRatios, Ratio(0, 1), s)
                IN Ratio(sum[1], sum[2] * Cardinality(D))
  PROVE  /\ IsFraction(mean)
         /\ \E x \in D : AtMost(s[x], mean)
         /\ \E x \in D : AtMost(mean, s[x])
<1> DEFINE sum == FoldFunction(AddRatios, Ratio(0, 1), s)
           n == Cardinality(D)
<1>1. \A x \in D : IsFraction(s[x]) /\ s[x] \in Fractions
  BY FractionsAreFractions
<1>2. PICK low \in D : \A x \in D : AtMost(s[low], s[x])
  BY <1>1, SomeSmallest
<1>3. PICK high \in D : \A x \in D : AtMost(s[x], s[high])
  BY <1>1, SomeLargest
<1>4. /\ sum \in Fractions
      /\ n * s[low][1] * sum[2] <= sum[1] * s[low][2]
      /\ sum[1] * s[high][2] <= n * s[high][1] * sum[2]
  BY <1>1, <1>2, <1>3, RatioSumBounds
<1>5. n \in Nat \ {0}
  BY FS_CardinalityType, FS_EmptySet
<1>6. mean = Ratio(sum[1], sum[2] * n)
  OBVIOUS
<1> DEFINE u == sum[1]
           w == sum[2]
           a == s[low][1]
           c == s[high][1]
<1>7. u \in Nat /\ w \in Nat \ {0} /\ a \in Nat /\ c \in Nat
  BY <1>1, <1>4 DEF Fractions
<1> HIDE DEF sum, n, u, w, a, c
<1>8. w * n \in Nat \ {0} /\ a * (w * n) = n * a * w /\ c * (w * n) = n * c * w
  BY <1>5, <1>7
<1>9. IsFraction(mean) /\ mean[1] = u /\ mean[2] = w * n
  BY <1>6, <1>7, <1>8, RatioIsFraction DEF u, w
<1>10. AtMost(s[low], mean) /\ AtMost(mean, s[high])
  <2>1. a * mean[2] <= mean[1] * s[low][2]
    BY <1>4, <1>8, <1>9 DEF a, u, w
  <2>2. mean[1] * s[high][2] <= c * mean[2]
    BY <1>4, <1>8, <1>9 DEF c, u, w
  <2>3. QED
    BY <2>1, <2>2 DEF AtMost, a, c
<1>11. QED
  BY <1>9, <1>10

(* readSupply: what the charge of one supply is.                           *)
LEMMA ChargeOfOne ==
  ASSUME NEW dir, IsDirectory(dir)
  PROVE  /\ \A c \in Charge(dir) : IsFraction(c)
         /\ Charge(dir) # {} => The(Charge(dir)) \in Charge(dir)
         /\ FromEnergy(dir) =>
              /\ dir["energy_now"] \in Nat /\ dir["energy_full"] \in Nat \ {0}
              /\ Charge(dir) = {Ratio(dir["energy_now"], dir["energy_full"])}
         /\ FromCharge(dir) =>
              /\ dir["charge_now"] \in Nat /\ dir["charge_full"] \in Nat \ {0}
              /\ Charge(dir) = {Ratio(dir["charge_now"], dir["charge_full"])}
<1>1. FromEnergy(dir) =>
        /\ dir["energy_now"] \in Nat /\ dir["energy_full"] \in Nat \ {0}
        /\ Charge(dir) = {Ratio(dir["energy_now"], dir["energy_full"])}
  BY DEF FromEnergy, Charge, IsDirectory, Positive, Has, Unsigned
<1>2. FromCharge(dir) =>
        /\ dir["charge_now"] \in Nat /\ dir["charge_full"] \in Nat \ {0}
        /\ Charge(dir) = {Ratio(dir["charge_now"], dir["charge_full"])}
  BY DEF FromCharge, Charge, IsDirectory, Positive, Has, Unsigned
<1>3. ASSUME ~FromEnergy(dir), ~FromCharge(dir), NEW c \in Charge(dir) PROVE IsFraction(c)
  <2>1. Has(dir, "capacity") /\ c = Ratio(dir["capacity"], 100)
    BY <1>3 DEF Charge, Value
  <2>2. dir["capacity"] \in Nat
    BY <2>1 DEF IsDirectory, Has, Unsigned
  <2>3. QED
    BY <2>1, <2>2, RatioIsFraction
<1>4. \A c \in Charge(dir) : IsFraction(c)
  BY <1>1, <1>2, <1>3, RatioIsFraction
<1>5. Charge(dir) # {} => The(Charge(dir)) \in Charge(dir)
  BY DEF The
<1>6. QED
  BY <1>1, <1>2, <1>4, <1>5

(* aggregateSupplies: the charge of some supplies.                         *)
LEMMA AggregateIsBetween ==
  ASSUME NEW supplies, IsFiniteSet(DOMAIN supplies),
         \A i \in DOMAIN supplies : IsDirectory(supplies[i])
  PROVE  /\ AggregateCharge(supplies) # {} <=> \E i \in DOMAIN supplies : Charge(supplies[i]) # {}
         /\ \A c \in AggregateCharge(supplies) :
              /\ \E i \in DOMAIN supplies : \E low \in Charge(supplies[i]) : AtMost(Clamp(low), c)
              /\ \E i \in DOMAIN supplies : \E high \in Charge(supplies[i]) : AtMost(c, Clamp(high))
<1> DEFINE D == DOMAIN supplies
           Amid(c) ==
             /\ \E i \in D : \E low \in Charge(supplies[i]) : AtMost(Clamp(low), c)
             /\ \E i \in D : \E high \in Charge(supplies[i]) : AtMost(c, Clamp(high))
<1>1. \A i \in D :
        /\ \A c \in Charge(supplies[i]) : IsFraction(c)
        /\ Charge(supplies[i]) # {} => The(Charge(supplies[i])) \in Charge(supplies[i])
        /\ FromEnergy(supplies[i]) =>
             /\ supplies[i]["energy_now"] \in Nat /\ supplies[i]["energy_full"] \in Nat \ {0}
             /\ Charge(supplies[i]) =
                  {Ratio(supplies[i]["energy_now"], supplies[i]["energy_full"])}
        /\ FromCharge(supplies[i]) =>
             /\ supplies[i]["charge_now"] \in Nat /\ supplies[i]["charge_full"] \in Nat \ {0}
             /\ Charge(supplies[i]) =
                  {Ratio(supplies[i]["charge_now"], supplies[i]["charge_full"])}
  BY ChargeOfOne
(* A fraction between those of some supplies is so when it is clamped.     *)
<1>2. ASSUME NEW K, K \subseteq D, NEW s, NEW r, IsFraction(r),
             \A i \in K : s[i] \in Charge(supplies[i]),
             \E i \in K : AtMost(s[i], r), \E i \in K : AtMost(r, s[i])
      PROVE  Amid(Clamp(r))
  <2>1. PICK i \in K : AtMost(s[i], r)
    BY <1>2
  <2>2. PICK j \in K : AtMost(r, s[j])
    BY <1>2
  <2>3. IsFraction(s[i]) /\ IsFraction(s[j])
    BY <1>1, <1>2
  <2>4. AtMost(Clamp(s[i]), Clamp(r)) /\ AtMost(Clamp(r), Clamp(s[j]))
    BY <1>2, <2>1, <2>2, <2>3, ClampKeepsOrder
  <2>5. QED
    BY <1>2, <2>4
<1>3. CASE Some(supplies, FromEnergy)
  <2> DEFINE K == {i \in D : FromEnergy(supplies[i])}
             a == [i \in K |-> supplies[i]["energy_now"]]
             b == [i \in K |-> supplies[i]["energy_full"]]
             s == [i \in K |-> Ratio(a[i], b[i])]
             r == Ratio(SumOf(a), SumOf(b))
  <2>1. K # {} /\ K \subseteq D /\ IsFiniteSet(K)
    BY <1>3, FS_Subset DEF Some
  <2>2. a \in [K -> Nat] /\ b \in [K -> Nat \ {0}]
    BY <1>1
  <2>3. AggregateCharge(supplies) = {Clamp(r)}
    <3>1. DOMAIN Those(supplies, FromEnergy) = K
      BY DEF Those, Restrict
    <3>2. /\ Total(supplies, LAMBDA d : d["energy_now"], FromEnergy) = SumOf(a)
          /\ Total(supplies, LAMBDA d : d["energy_full"], FromEnergy) = SumOf(b)
      BY <3>1 DEF Total
    <3>3. QED
      BY <1>3, <3>2 DEF AggregateCharge
  <2>4. \A i \in K : s[i] \in Charge(supplies[i])
    BY <1>1
  <2>5. \A i \in K : s[i] = Ratio(a[i], b[i])
    OBVIOUS
  <2> HIDE DEF a, b, s, K
  <2>6. IsFraction(r) /\ (\E i \in K : AtMost(s[i], r)) /\ (\E i \in K : AtMost(r, s[i]))
    BY <2>1, <2>2, <2>5, SumsAreBetween
  <2> HIDE DEF r
  <2>7. Amid(Clamp(r))
    BY <1>2, <2>1, <2>4, <2>6
  <2>8. \E i \in D : Charge(supplies[i]) # {}
    BY <2>1, <2>4
  <2>9. QED
    BY <2>3, <2>7, <2>8
<1>4. CASE ~Some(supplies, FromEnergy)
  <2> DEFINE packs == Those(supplies, ByCapacity)
             K == {i \in D : ByCapacity(supplies[i])}
  <2>1. DOMAIN packs = K /\ \A i \in K : packs[i] = supplies[i]
    BY DEF Those, Restrict
  <2>2. K = {i \in D : Charge(supplies[i]) # {}}
    BY <1>4 DEF Some, ByCapacity
  <2>3. K \subseteq D /\ IsFiniteSet(K)
    BY FS_Subset
  <2> HIDE DEF packs, K
  <2>4. CASE K = {}
    <3>1. AggregateCharge(supplies) = {}
      BY <1>4, <2>1, <2>4 DEF AggregateCharge, packs
    <3>2. QED
      BY <2>2, <2>4, <3>1
  <2>5. CASE K # {} /\ \A i \in K : FromCharge(supplies[i])
    <3> DEFINE a == [i \in K |-> supplies[i]["charge_now"]]
               b == [i \in K |-> supplies[i]["charge_full"]]
               s == [i \in K |-> Ratio(a[i], b[i])]
               r == Ratio(SumOf(a), SumOf(b))
    <3>1. a \in [K -> Nat] /\ b \in [K -> Nat \ {0}]
      BY <1>1, <2>3, <2>5
    <3>2. AggregateCharge(supplies) = {Clamp(r)}
      <4>1. DOMAIN Those(packs, FromCharge) = K
        BY <2>1, <2>5 DEF Those, Restrict
      <4>2. /\ [i \in K |-> packs[i]["charge_now"]] = a
            /\ [i \in K |-> packs[i]["charge_full"]] = b
        BY <2>1
      <4>3. /\ Total(packs, LAMBDA d : d["charge_now"], FromCharge) = SumOf(a)
            /\ Total(packs, LAMBDA d : d["charge_full"], FromCharge) = SumOf(b)
        BY <4>1, <4>2 DEF Total
      <4> HIDE DEF a, b
      <4>4. QED
        BY <1>4, <2>1, <2>5, <4>3 DEF AggregateCharge, packs
    <3>3. \A i \in K : s[i] \in Charge(supplies[i])
      BY <1>1, <2>3, <2>5
    <3>4. \A i \in K : s[i] = Ratio(a[i], b[i])
      OBVIOUS
    <3> HIDE DEF a, b, s
    <3>5. IsFraction(r) /\ (\E i \in K : AtMost(s[i], r)) /\ (\E i \in K : AtMost(r, s[i]))
      BY <2>3, <2>5, <3>1, <3>4, SumsAreBetween
    <3> HIDE DEF r
    <3>6. Amid(Clamp(r))
      BY <1>2, <2>3, <3>3, <3>5
    <3>7. QED
      BY <2>2, <2>5, <3>2, <3>6
  <2>6. CASE K # {} /\ ~(\A i \in K : FromCharge(supplies[i]))
    <3> DEFINE s == [i \in K |-> The(Charge(supplies[i]))]
               r == MeanOfRatios(packs)
    <3>1. \A i \in K : s[i] \in Charge(supplies[i])
      BY <1>1, <2>2
    <3>2. s \in [K -> Fractions]
      BY <1>1, <2>3, <3>1, FractionsAreFractions
    <3>3. AggregateCharge(supplies) = {Clamp(r)}
      BY <1>4, <2>1, <2>6 DEF AggregateCharge, packs
    <3>4. r = LET sum == FoldFunction(AddRatios, Ratio(0, 1), s)
              IN Ratio(sum[1], sum[2] * Cardinality(K))
      <4>1. [i \in DOMAIN packs |-> The(Charge(packs[i]))] = s
        BY <2>1
      <4> HIDE DEF s
      <4>2. QED
        BY <2>1, <4>1 DEF MeanOfRatios
    <3> HIDE DEF s, r
    <3>5. IsFraction(r) /\ (\E i \in K : AtMost(s[i], r)) /\ (\E i \in K : AtMost(r, s[i]))
      BY <2>3, <2>6, <3>2, <3>4, MeanIsBetween
    <3>6. Amid(Clamp(r))
      BY <1>2, <2>3, <3>1, <3>5
    <3>7. QED
      BY <2>2, <2>6, <3>3, <3>6
  <2>7. QED
    BY <2>4, <2>5, <2>6
<1>5. QED
  BY <1>3, <1>4

(* The supplies of a directory.                                            *)
LEMMA SuppliesAreDirectories ==
  ASSUME NEW dirs, IsFiniteSet(DOMAIN dirs), \A i \in DOMAIN dirs : IsDirectory(dirs[i])
  PROVE  /\ IsFiniteSet(DOMAIN Supplies(dirs))
         /\ \A i \in DOMAIN Supplies(dirs) : IsDirectory(Supplies(dirs)[i])
<1>1. DOMAIN Supplies(dirs) \subseteq DOMAIN dirs
  BY DEF Supplies, Those, Restrict
<1>2. \A i \in DOMAIN Supplies(dirs) : Supplies(dirs)[i] = dirs[i]
  BY DEF Supplies, Those, Restrict
<1>3. QED
  BY <1>1, <1>2, FS_Subset

(* aggregateSupplies: the charge of the system lies between those of its   *)
(* packs, for every number of supplies with whatever files, and there is   *)
(* one exactly if some pack has one.                                       *)
THEOREM ChargeIsBetween ==
  ASSUME NEW dirs, IsFiniteSet(DOMAIN dirs), \A i \in DOMAIN dirs : IsDirectory(dirs[i])
  PROVE  ChargeIsBetweenThePacks(ReadBattery(dirs))
<1> DEFINE supplies == Supplies(dirs)
           D == DOMAIN supplies
           snapshot == ReadBattery(dirs)
           packs == UNION {d.charge : d \in Devices(snapshot)}
<1>1. IsFiniteSet(D) /\ \A i \in D : IsDirectory(supplies[i])
  BY SuppliesAreDirectories
<1>2. snapshot.charge = AggregateCharge(supplies)
  BY DEF ReadBattery
<1>3. snapshot.devices = [i \in D |-> Device(supplies[i])]
  BY DEF ReadBattery
<1>4. Devices(snapshot) = {Device(supplies[i]) : i \in D}
  BY <1>3 DEF Devices
<1>5. \A i \in D : Device(supplies[i]).charge = {Clamp(c) : c \in Charge(supplies[i])}
  BY DEF Device
<1> HIDE DEF supplies, snapshot
<1>6. packs = UNION {{Clamp(c) : c \in Charge(supplies[i])} : i \in D}
  BY <1>4, <1>5
<1>7. /\ AggregateCharge(supplies) # {} <=> \E i \in D : Charge(supplies[i]) # {}
      /\ \A c \in AggregateCharge(supplies) :
           /\ \E i \in D : \E low \in Charge(supplies[i]) : AtMost(Clamp(low), c)
           /\ \E i \in D : \E high \in Charge(supplies[i]) : AtMost(c, Clamp(high))
  BY <1>1, AggregateIsBetween
<1>8. \A i \in D : \A c \in Charge(supplies[i]) : Clamp(c) \in packs
  BY <1>6
<1>9. packs # {} <=> \E i \in D : Charge(supplies[i]) # {}
  BY <1>6
<1> HIDE DEF packs
<1>10. /\ packs # {} <=> snapshot.charge # {}
       /\ \A c \in snapshot.charge : \E low, high \in packs : AtMost(low, c) /\ AtMost(c, high)
  BY <1>2, <1>7, <1>8, <1>9
<1>11. QED
  BY <1>10 DEF ChargeIsBetweenThePacks, packs, snapshot

(* readSupply: the energy and the drain of one supply.                     *)
LEMMA EnergyOfOne ==
  ASSUME NEW dir, IsDirectory(dir)
  PROVE  /\ Energy(dir) # {} => The(Energy(dir)) \in Nat
         /\ Watts(dir) # {} => The(Watts(dir)) \in Nat /\ Watts(dir) = {The(Watts(dir))}
<1>1. \A n \in Int : Abs(n) \in Nat
  BY DEF Abs
<1>2. \A n, m \in Nat : n * m \in Nat
  OBVIOUS
<1>3. ASSUME NEW e \in Energy(dir) PROVE e \in Nat
  <2>1. CASE Has(dir, "energy_now")
    BY <1>3, <2>1 DEF Energy, IsDirectory, Unsigned, Has
  <2>2. CASE ~Has(dir, "energy_now")
    <3>1. /\ Has(dir, "charge_now") /\ Has(dir, "voltage_now")
          /\ e = dir["charge_now"] * dir["voltage_now"]
      BY <1>3, <2>2 DEF Energy, FromCharge, Value
    <3>2. dir["charge_now"] \in Nat /\ dir["voltage_now"] \in Nat
      BY <3>1 DEF IsDirectory, Unsigned, Has
    <3>3. QED
      BY <1>2, <3>1, <3>2
  <2>3. QED
    BY <2>1, <2>2
<1>4. ASSUME Watts(dir) # {} PROVE \E w \in Nat : Watts(dir) = {w}
  <2>1. CASE Has(dir, "power_now")
    <3>1. Watts(dir) = {Abs(dir["power_now"])} /\ dir["power_now"] \in Int
      BY <2>1 DEF Watts, IsDirectory, Signed, Has
    <3>2. QED
      BY <1>1, <3>1
  <2>2. CASE ~Has(dir, "power_now")
    <3>1. /\ Has(dir, "current_now") /\ Has(dir, "voltage_now")
          /\ Watts(dir) = {Abs(dir["current_now"]) * dir["voltage_now"]}
      BY <1>4, <2>2 DEF Watts, Value
    <3>2. dir["current_now"] \in Int /\ dir["voltage_now"] \in Nat
      BY <3>1 DEF IsDirectory, Unsigned, Signed, Has
    <3>3. Abs(dir["current_now"]) * dir["voltage_now"] \in Nat
      BY <1>1, <1>2, <3>2
    <3>4. QED
      BY <3>1, <3>3
  <2>3. QED
    BY <2>1, <2>2
<1>5. ASSUME Energy(dir) # {} PROVE The(Energy(dir)) \in Energy(dir)
  BY <1>5 DEF The
<1>6. ASSUME NEW w PROVE The({w}) = w
  BY DEF The
<1>7. QED
  BY <1>3, <1>4, <1>5, <1>6

(* The supplies of known energy and drain.                                 *)
Drained(supplies) ==
  {i \in DOMAIN supplies : /\ Energy(supplies[i]) # {}
                           /\ Watts(supplies[i]) # {} /\ Watts(supplies[i]) # {0}}
EnergyOfDrained(supplies) == [i \in Drained(supplies) |-> The(Energy(supplies[i]))]
WattsOfDrained(supplies) == [i \in Drained(supplies) |-> The(Watts(supplies[i]))]

(* The sums of all supplies and those of the supplies that are drained.    *)
LEMMA DrainOfSome ==
  ASSUME NEW supplies, IsFiniteSet(DOMAIN supplies),
         \A i \in DOMAIN supplies : IsDirectory(supplies[i]), EnergyWatts(supplies) > 0
  PROVE  LET K == Drained(supplies)
             a == EnergyOfDrained(supplies)
             b == WattsOfDrained(supplies)
         IN /\ IsFiniteSet(K) /\ K # {} /\ a \in [K -> Nat] /\ b \in [K -> Nat \ {0}]
            /\ EnergyWatts(supplies) = SumOf(b)
            /\ EnergySum(supplies) \in Nat /\ SumOf(a) <= EnergySum(supplies)
            /\ (\A i \in DOMAIN supplies : Energy(supplies[i]) # {} => i \in K) =>
                 EnergySum(supplies) = SumOf(a)
<1> DEFINE K == Drained(supplies)
           a == EnergyOfDrained(supplies)
           b == WattsOfDrained(supplies)
           D == DOMAIN supplies
           E == {i \in D : WithEnergy(supplies[i])}
           W == {i \in D : Watts(supplies[i]) # {} /\ WithEnergy(supplies[i])}
           e == [i \in E |-> The(Energy(supplies[i]))]
           w == [i \in W |-> The(Watts(supplies[i]))]
<1>1. \A i \in D : /\ Energy(supplies[i]) # {} => The(Energy(supplies[i])) \in Nat
                   /\ Watts(supplies[i]) # {} => /\ The(Watts(supplies[i])) \in Nat
                                                 /\ Watts(supplies[i]) = {The(Watts(supplies[i]))}
  BY EnergyOfOne
<1>2. /\ IsFiniteSet(E) /\ IsFiniteSet(W) /\ IsFiniteSet(K)
      /\ K \in SUBSET E /\ K \in SUBSET W
  BY FS_Subset DEF WithEnergy, Drained
<1>3. e \in [E -> Nat] /\ w \in [W -> Nat] /\ \A i \in W \ K : w[i] = 0
  BY <1>1 DEF WithEnergy, Drained
<1>4. a \in [K -> Nat] /\ b \in [K -> Nat \ {0}]
  BY <1>1 DEF Drained, EnergyOfDrained, WattsOfDrained
<1>5. \A i \in K : a[i] = e[i] /\ b[i] = w[i]
  BY <1>2 DEF EnergyOfDrained, WattsOfDrained
<1>6. EnergySum(supplies) = SumOver(e, E)
  BY DEF EnergySum, Total, Those, Restrict, SumOf
<1>7. EnergyWatts(supplies) = SumOver(w, W)
  BY DEF EnergyWatts, Total, Those, Restrict, SumOf
<1>8. SumOf(a) = SumOver(a, K) /\ SumOf(b) = SumOver(b, K)
  BY DEF SumOf, EnergyOfDrained, WattsOfDrained
<1> HIDE DEF K, a, b, E, W, e, w
<1>9. /\ e \in [E -> Int] /\ w \in [W -> Int] /\ a \in [K -> Int] /\ b \in [K -> Int]
      /\ E \in SUBSET E /\ W \in SUBSET W
  BY <1>3, <1>4
<1>10. SumOver(a, K) = SumOver(e, K)
  BY <1>2, <1>5, <1>9, SumSame
<1>11. SumOver(b, K) = SumOver(w, K)
  BY <1>2, <1>5, <1>9, SumSame
<1>12. SumOver(w, W) = SumOver(w, K)
  BY <1>2, <1>3, <1>9, SumWithoutZeros
<1>13. SumOver(e, E) \in Nat /\ SumOver(e, K) <= SumOver(e, E)
  BY <1>2, <1>3, <1>9, SumNat, SumOfPart
<1>14. K # {}
  <2>1. SumOver(w, {}) = 0
    BY <1>2, <1>9, SumOfNone
  <2>2. SumOver(w, W) > 0
    BY <1>7
  <2>3. QED
    BY <1>12, <2>1, <2>2
<1>15. (\A i \in D : Energy(supplies[i]) # {} => i \in K) => E = K
  BY <1>2 DEF E, WithEnergy
<1>16. QED
  BY <1>2, <1>4, <1>6, <1>7, <1>8, <1>10, <1>11, <1>12, <1>13, <1>14, <1>15 DEF K, a, b

(* A fraction of more is no smaller.                                       *)
LEMMA MoreIsMore ==
  ASSUME NEW r, IsFraction(r), NEW x \in Nat, NEW y \in Nat, NEW z \in Nat \ {0},
         AtMost(r, Ratio(x, z)), x <= y
  PROVE  AtMost(r, Ratio(y, z))
<1>1. r[1] \in Nat /\ r[2] \in Nat
  BY DEF IsFraction
<1>2. r[1] * z <= x * r[2]
  BY DEF AtMost, Ratio
<1>3. x * r[2] <= y * r[2]
  BY <1>1, TimesKeepsOrder
<1>4. r[1] * z <= y * r[2]
  <2>1. r[1] * z \in Nat /\ x * r[2] \in Nat /\ y * r[2] \in Nat
    BY <1>1
  <2>2. QED
    BY <1>2, <1>3, <2>1
<1>5. QED
  BY <1>4 DEF AtMost, Ratio

(* A positive number that is multiplied on both sides can be left out.     *)
LEMMA LessWithout ==
  ASSUME NEW x \in Nat, NEW y \in Nat, NEW z \in Nat \ {0}, x * z <= y * z
  PROVE  x <= y
<1>1. ASSUME x >= y + 1 PROVE FALSE
  <2>1. (y + 1) * z <= x * z
    BY <1>1, TimesKeepsOrder
  <2>2. (y + 1) * z = y * z + z
    OBVIOUS
  <2>3. x * z \in Nat /\ y * z \in Nat
    OBVIOUS
  <2>4. QED
    BY <2>1, <2>2, <2>3
<1>2. QED
  BY <1>1

(* time.Duration(hours * time.Hour): a shorter time is no longer when both *)
(* are truncated, and one that fits a Duration does.                       *)
LEMMA DurationKeepsOrder ==
  ASSUME NEW a \in Nat, NEW b \in Nat \ {0}, NEW x \in Nat, NEW y \in Nat \ {0}
  PROVE  /\ Duration(Ratio(a, b)) \in Nat
         /\ AtMost(Ratio(a, b), Ratio(x, y)) => Duration(Ratio(a, b)) <= Duration(Ratio(x, y))
         /\ \A m \in Nat : a * Hour <= m * b => Duration(Ratio(a, b)) <= m
<1> DEFINE h == a * Hour
           k == x * Hour
           q == h \div b
           p == k \div y
<1>0. Hour \in Nat \ {0} /\ h \in Nat /\ k \in Nat
  BY BatteryConstants
<1>1. Duration(Ratio(a, b)) = q /\ Duration(Ratio(x, y)) = p
  BY DEF Duration, Ratio
<1> HIDE DEF h, k
<1>2. q \in Nat /\ p \in Nat /\ q <= h \div b
  BY <1>0
<1> HIDE DEF q, p
<1>3. q * b <= h
  BY <1>0, <1>2, Quotient
<1>4. ASSUME a * y <= x * b PROVE q <= p
  <2>1. h * y <= k * b
    <3>1. (a * y) * Hour <= (x * b) * Hour
      BY <1>0, <1>4, TimesKeepsOrder
    <3>2. (a * y) * Hour = h * y /\ (x * b) * Hour = k * b
      BY <1>0 DEF h, k
    <3>3. QED
      BY <3>1, <3>2
  <2>2. (q * b) * y <= h * y
    BY <1>0, <1>2, <1>3, TimesKeepsOrder
  <2>3. (q * y) * b <= k * b
    <3>1. (q * b) * y = (q * y) * b
      BY <1>2
    <3>2. (q * y) * b \in Nat /\ h * y \in Nat /\ k * b \in Nat
      BY <1>0, <1>2
    <3>3. QED
      BY <2>1, <2>2, <3>1, <3>2
  <2>4. q * y <= k
    BY <1>0, <1>2, <2>3, LessWithout
  <2>5. QED
    BY <1>0, <1>2, <2>4, Quotient DEF p
<1>5. ASSUME NEW m \in Nat, h <= m * b PROVE q <= m
  <2>1. q * b <= m * b
    <3>1. q * b \in Nat /\ m * b \in Nat
      BY <1>2
    <3>2. QED
      BY <1>0, <1>3, <1>5, <3>1
  <2>2. QED
    BY <1>2, <2>1, LessWithout
<1>6. QED
  BY <1>1, <1>2, <1>4, <1>5 DEF AtMost, Ratio, h

(* timeRemaining: the time told is at least that of one pack, at most that *)
(* of another when the drain of every pack with an energy is known, and a  *)
(* Duration, for every number of supplies with whatever files.             *)
THEOREM TimeIsBetween ==
  ASSUME NEW dirs, IsFiniteSet(DOMAIN dirs), \A i \in DOMAIN dirs : IsDirectory(dirs[i])
  PROVE  TimeIsBetweenThePacks(ReadBattery(dirs))
<1> DEFINE supplies == Supplies(dirs)
           D == DOMAIN supplies
           snapshot == ReadBattery(dirs)
           known == {d \in Devices(snapshot) : d.energy # {} /\ d.watts # {} /\ d.watts # {0}}
           left == {Duration(Ratio(The(d.energy), The(d.watts))) : d \in known}
           K == Drained(supplies)
           a == EnergyOfDrained(supplies)
           b == WattsOfDrained(supplies)
           energy == EnergySum(supplies)
           drain == EnergyWatts(supplies)
<1>1. IsFiniteSet(D) /\ \A i \in D : IsDirectory(supplies[i])
  BY SuppliesAreDirectories
<1>2. snapshot.time = TimeRemaining(supplies) /\ snapshot.devices = [i \in D |-> Device(supplies[i])]
  BY DEF ReadBattery
<1>3. Devices(snapshot) = {Device(supplies[i]) : i \in D}
  BY <1>2 DEF Devices
<1>4. \A i \in D : /\ Device(supplies[i]).energy = Energy(supplies[i])
                   /\ Device(supplies[i]).watts = Watts(supplies[i])
  BY DEF Device
<1>5. \A i \in K : Duration(Ratio(a[i], b[i])) \in left
  <2> SUFFICES ASSUME NEW i \in K PROVE Duration(Ratio(a[i], b[i])) \in left
    OBVIOUS
  <2>1. Device(supplies[i]) \in known
    BY <1>3, <1>4 DEF Drained
  <2>2. a[i] = The(Device(supplies[i]).energy) /\ b[i] = The(Device(supplies[i]).watts)
    BY <1>4 DEF Drained, EnergyOfDrained, WattsOfDrained
  <2>3. QED
    BY <2>1, <2>2
<1>6. (\A d \in Devices(snapshot) : d.energy # {} => d \in known) =>
        \A i \in D : Energy(supplies[i]) # {} => i \in K
  BY <1>3, <1>4 DEF Drained
<1> SUFFICES ASSUME NEW t \in snapshot.time
             PROVE  /\ \E low \in left : low <= t
                    /\ (\A d \in Devices(snapshot) : d.energy # {} => d \in known) =>
                         \E high \in left : t <= high
                    /\ t \in 1..MaxDuration
  BY DEF TimeIsBetweenThePacks
<1>7. /\ drain > 0 /\ energy * Hour <= MaxDuration * drain
      /\ t = Duration(Ratio(energy, drain)) /\ t # 0
  BY <1>2 DEF TimeRemaining
<1> HIDE DEF supplies, snapshot, left
<1>8. /\ IsFiniteSet(K) /\ K # {} /\ a \in [K -> Nat] /\ b \in [K -> Nat \ {0}]
      /\ drain = SumOf(b) /\ energy \in Nat /\ SumOf(a) <= energy
      /\ (\A i \in D : Energy(supplies[i]) # {} => i \in K) => energy = SumOf(a)
  BY <1>1, <1>7, DrainOfSome
<1> HIDE DEF K, a, b, energy, drain
<1>9. /\ IsFraction(Ratio(SumOf(a), SumOf(b)))
      /\ \E x \in K : AtMost(Ratio(a[x], b[x]), Ratio(SumOf(a), SumOf(b)))
      /\ \E x \in K : AtMost(Ratio(SumOf(a), SumOf(b)), Ratio(a[x], b[x]))
  BY <1>8, SumsAreBetween
<1>10. SumOf(a) \in Nat /\ drain \in Nat \ {0} /\ SumOf(b) \in Nat \ {0}
  BY <1>8, <1>9 DEF IsFraction, Ratio
<1>11. PICK i \in K : AtMost(Ratio(a[i], b[i]), Ratio(SumOf(a), SumOf(b)))
  BY <1>9
<1>12. Duration(Ratio(a[i], b[i])) <= t
  <2>1. IsFraction(Ratio(a[i], b[i]))
    BY <1>8, RatioIsFraction
  <2>2. AtMost(Ratio(a[i], b[i]), Ratio(SumOf(a), drain))
    BY <1>8, <1>11
  <2>3. SumOf(a) <= energy
    BY <1>8
  <2>4. AtMost(Ratio(a[i], b[i]), Ratio(energy, drain))
    BY <1>8, <1>10, <2>1, <2>2, <2>3, MoreIsMore
  <2>5. QED
    BY <1>7, <1>8, <1>10, <2>4, DurationKeepsOrder
<1>13. ASSUME \A d \in Devices(snapshot) : d.energy # {} => d \in known
       PROVE  \E high \in left : t <= high
  <2>1. t = Duration(Ratio(SumOf(a), SumOf(b)))
    BY <1>6, <1>7, <1>8, <1>13
  <2>2. PICK x \in K : AtMost(Ratio(SumOf(a), SumOf(b)), Ratio(a[x], b[x]))
    BY <1>9
  <2>3. t <= Duration(Ratio(a[x], b[x]))
    BY <1>8, <1>10, <2>1, <2>2, DurationKeepsOrder
  <2>4. QED
    BY <1>5, <2>3
<1>14. t \in 1..MaxDuration
  <2>1. t \in Nat /\ t <= MaxDuration
    BY <1>7, <1>8, <1>10, BatteryConstants, DurationKeepsOrder
  <2>2. QED
    BY <1>7, <2>1, BatteryConstants
<1>15. QED
  BY <1>5, <1>12, <1>13, <1>14


---------------------------------------------------------------------------
(* Thermal sources.                                                        *)

IsCandidate(c) ==
  c.driverPri \in Nat /\ c.sensorPri \in 0..20 /\ c.celsius \in 1..149
Key(c) == 1000000 * c.driverPri + 1000 * c.sensorPri - c.celsius

(* betterThermalCandidate compares one number.                             *)
LEMMA BetterIsLess ==
  ASSUME NEW c, IsCandidate(c), NEW b, IsCandidate(b)
  PROVE  /\ Better(c, b) <=> Key(c) < Key(b)
         /\ Key(c) \in Int /\ Key(b) \in Int
<1> DEFINE dc == c.driverPri
           sc == c.sensorPri
           tc == c.celsius
           db == b.driverPri
           sb == b.sensorPri
           tb == b.celsius
<1>1. /\ dc \in Nat /\ sc \in Nat /\ sc <= 20 /\ tc \in Nat /\ 1 <= tc /\ tc <= 149
      /\ db \in Nat /\ sb \in Nat /\ sb <= 20 /\ tb \in Nat /\ 1 <= tb /\ tb <= 149
  BY DEF IsCandidate
<1>2. Better(c, b) <=> \/ dc < db
                       \/ dc = db /\ sc < sb
                       \/ dc = db /\ sc = sb /\ tc > tb
  BY DEF Better
<1>3. Key(c) = 1000000 * dc + 1000 * sc - tc /\ Key(b) = 1000000 * db + 1000 * sb - tb
  BY DEF Key
<1> HIDE DEF dc, sc, tc, db, sb, tb
<1>4. QED
  BY <1>1, <1>2, <1>3

(* What is kept of the best so far and a new candidate.                    *)
Kept(best, new) ==
  {cand \in new : \A b \in best : Better(cand, b)}
    \cup {b \in best : \A cand \in new : ~Better(cand, b)}

(* The pick from the first i sets of candidates.                           *)
PickedSoFar(picked, candidates, i) ==
  LET seen == UNION {candidates[j] : j \in 1..i}
  IN /\ picked \subseteq seen /\ (picked = {} <=> seen = {})
     /\ \A c, d \in picked : c = d
     /\ \A t \in picked, c \in seen : Key(t) <= Key(c)

LEMMA KeptIsBest ==
  ASSUME NEW candidates, NEW i \in Nat, i # 0,
         \A j \in 1..i : \A c, d \in candidates[j] : IsCandidate(c) /\ c = d,
         NEW picked, PickedSoFar(picked, candidates, i - 1)
  PROVE  PickedSoFar(Kept(picked, candidates[i]), candidates, i)
<1> DEFINE before == UNION {candidates[j] : j \in 1..(i - 1)}
           seen == UNION {candidates[j] : j \in 1..i}
           new == candidates[i]
           kept == Kept(picked, new)
<1>1. seen = before \cup new
  <2>1. 1..i = 1..(i - 1) \cup {i}
    OBVIOUS
  <2>2. QED
    BY <2>1
<1>2. \A c \in seen : IsCandidate(c)
  OBVIOUS
<1>3. /\ picked \subseteq before /\ (picked = {} <=> before = {})
      /\ \A c, d \in picked : c = d
      /\ \A t \in picked, c \in before : Key(t) <= Key(c)
  BY DEF PickedSoFar
<1>4. \A c, d \in new : c = d
  OBVIOUS
<1> HIDE DEF before, seen, new
<1>5. \A c, b \in seen : (Better(c, b) <=> Key(c) < Key(b)) /\ Key(c) \in Int
  BY <1>2, BetterIsLess
<1>6. kept \subseteq seen
  BY <1>1, <1>3 DEF Kept
<1>7. CASE new = {}
  <2>1. kept = picked /\ seen = before
    BY <1>1, <1>7 DEF Kept
  <2>2. QED
    BY <1>3, <2>1 DEF PickedSoFar, seen, new
<1>8. CASE picked = {} /\ new # {}
  <2>1. kept = new /\ seen = new
    BY <1>1, <1>3, <1>8 DEF Kept
  <2>2. \A t, c \in seen : Key(t) <= Key(c)
    BY <1>4, <1>5, <2>1
  <2>3. QED
    BY <1>4, <1>8, <2>1, <2>2 DEF PickedSoFar, seen, new
<1>9. CASE picked # {} /\ new # {}
  <2>1. PICK b, n : picked = {b} /\ new = {n} /\ b \in before /\ b \in seen /\ n \in seen
    BY <1>1, <1>3, <1>4, <1>9
  <2>2. \A c \in before : c \in seen /\ Key(b) <= Key(c)
    BY <1>1, <1>3, <2>1
  <2>3. CASE Better(n, b)
    <3>1. kept = {n}
      BY <2>1, <2>3 DEF Kept
    <3>2. Key(n) < Key(b) /\ Key(n) \in Int /\ Key(b) \in Int
      BY <1>5, <2>1, <2>3
    <3>3. ASSUME NEW c \in seen PROVE Key(n) <= Key(c)
      <4>1. c = n \/ c \in before
        BY <1>1, <2>1
      <4>2. Key(c) \in Int /\ (c \in before => Key(b) <= Key(c))
        BY <1>5, <2>2
      <4>3. QED
        BY <3>2, <4>1, <4>2
    <3>4. QED
      BY <2>1, <3>1, <3>3 DEF PickedSoFar, seen, new
  <2>4. CASE ~Better(n, b)
    <3>1. kept = {b}
      BY <2>1, <2>4 DEF Kept
    <3>2. Key(b) <= Key(n) /\ Key(n) \in Int /\ Key(b) \in Int
      BY <1>5, <2>1, <2>4
    <3>3. ASSUME NEW c \in seen PROVE Key(b) <= Key(c)
      <4>1. c = n \/ c \in before
        BY <1>1, <2>1
      <4>2. QED
        BY <2>2, <3>2, <4>1
    <3>4. QED
      BY <2>1, <3>1, <3>3 DEF PickedSoFar, seen, new
  <2>5. QED
    BY <2>3, <2>4
<1>10. QED
  BY <1>7, <1>8, <1>9

(* pickKnownHwmon, pickThermalZone: the pick from any number of sources.   *)
LEMMA PickIsBest ==
  ASSUME NEW candidates, NEW n \in Nat, DOMAIN candidates = 1..n, Len(candidates) = n,
         \A j \in 1..n : \A c, d \in candidates[j] : IsCandidate(c) /\ c = d
  PROVE  PickedSoFar(Pick(candidates), candidates, n)
<1> DEFINE All == UNION {candidates[j] : j \in 1..n}
           S == SUBSET All
           F == [i \in 1..n |-> [best \in S |-> Kept(best, candidates[i])]]
           none == {}
<1>1. none \in S /\ F \in [1..n -> [S -> S]]
  <2>1. ASSUME NEW i \in 1..n, NEW best \in S PROVE Kept(best, candidates[i]) \in S
    <3>1. candidates[i] \subseteq All
      OBVIOUS
    <3>2. Kept(best, candidates[i]) \subseteq best \cup candidates[i]
      BY DEF Kept
    <3>3. QED
      BY <3>1, <3>2
  <2> HIDE DEF S
  <2>2. F \in [1..n -> [S -> S]]
    BY <2>1
  <2>3. QED
    BY <2>2 DEF S
<1>2. PICK g : Steps(g, n, S, none, F)
  <2> HIDE DEF S, F, none
  <2>1. QED
    BY <1>1, StepByStep
<1>3. ASSUME NEW i \in 1..n PROVE g[i] = Kept(g[i - 1], candidates[i])
  <2>1. i - 1 \in 0..n
    OBVIOUS
  <2>2. g[i - 1] \in S /\ g[i] = F[i][g[i - 1]]
    BY <1>2, <2>1 DEF Steps
  <2> HIDE DEF S
  <2>3. QED
    BY <2>2
<1>4. g = [i \in 0..n |-> IF i = 0 THEN {} ELSE Kept(g[i - 1], candidates[i])]
  <2>1. \A i \in 0..n : i # 0 => i \in 1..n
    OBVIOUS
  <2>2. g \in [0..n -> S] /\ g[0] = {}
    BY <1>2 DEF Steps
  <2> HIDE DEF S
  <2>3. QED
    BY <1>3, <2>1, <2>2
<1> DEFINE pick == CHOOSE h : h = [i \in 0..n |-> IF i = 0 THEN {}
             ELSE {cand \in candidates[i] : \A best \in h[i - 1] : Better(cand, best)}
                  \cup {best \in h[i - 1] : \A cand \in candidates[i] : ~Better(cand, best)}]
<1>5. g = [i \in 0..n |-> IF i = 0 THEN {}
             ELSE {cand \in candidates[i] : \A best \in g[i - 1] : Better(cand, best)}
                  \cup {best \in g[i - 1] : \A cand \in candidates[i] : ~Better(cand, best)}]
  BY <1>4, Zenon DEF Kept
<1>6. pick = [i \in 0..n |-> IF i = 0 THEN {}
             ELSE {cand \in candidates[i] : \A best \in pick[i - 1] : Better(cand, best)}
                  \cup {best \in pick[i - 1] : \A cand \in candidates[i] : ~Better(cand, best)}]
  BY <1>5
<1>7. Pick(candidates) = pick[n]
  BY DEF Pick
<1> HIDE DEF pick, S, F
<1>8. pick[0] = {} /\ \A i \in 1..n : pick[i] = Kept(pick[i - 1], candidates[i])
  <2>1. 0 \in 0..n /\ \A i \in 1..n : i \in 0..n /\ i # 0
    OBVIOUS
  <2>2. QED
    BY <1>6, <2>1 DEF Kept
<1> DEFINE Good == {i \in 0..n : PickedSoFar(pick[i], candidates, i)}
<1>9. 0 \in Good
  <2>1. UNION {candidates[j] : j \in 1..0} = {}
    OBVIOUS
  <2>2. QED
    BY <1>8, <2>1 DEF PickedSoFar
<1>10. ASSUME NEW i \in 1..n, i - 1 \in Good PROVE i \in Good
  <2>1. PickedSoFar(pick[i - 1], candidates, i - 1)
    BY <1>10
  <2>2. \A j \in 1..i : \A c, d \in candidates[j] : IsCandidate(c) /\ c = d
    OBVIOUS
  <2>3. i \in Nat /\ i # 0
    OBVIOUS
  <2>4. PickedSoFar(Kept(pick[i - 1], candidates[i]), candidates, i)
    BY <2>1, <2>2, <2>3, KeptIsBest
  <2>5. QED
    BY <1>8, <2>4
<1>11. Good \in SUBSET (0..n) /\ n \in 0..n
  OBVIOUS
<1>12. n \in Good
  <2> HIDE DEF Good
  <2>1. QED
    BY <1>9, <1>10, <1>11, AlongTheSteps
<1>13. QED
  BY <1>7, <1>12

(* A sensor or zone gives one number or none.                              *)
GivesOne(s) == s.celsius \in SUBSET Int /\ \A c, d \in s.celsius : c = d

LEMMA PlaceIsPlace ==
  ASSUME NEW known, NEW name, IsKnown(known, name)
  PROVE  Place(known, name) \in 1..Len(known)
BY DEF Place, IsKnown

LEMMA PrioritiesAreSmall ==
  ASSUME NEW chip, NEW label, NEW index
  PROVE  SensorPriority(chip, label, index) \in 0..20
<1> DEFINE labels == LabelsOf(chip)
<1>1. label \in DOMAIN labels => labels[label] \in 0..20
  <2>1. label \in DOMAIN RyzenLabels => RyzenLabels[label] \in 0..20
    BY DEF RyzenLabels
  <2>2. label \in DOMAIN IntelLabels => IntelLabels[label] \in 0..20
    BY DEF IntelLabels
  <2>3. DOMAIN [l \in {} |-> 0] = {}
    OBVIOUS
  <2>4. QED
    BY <2>1, <2>2, <2>3 DEF LabelsOf
<1> HIDE DEF labels
<1>2. QED
  BY <1>1 DEF SensorPriority, labels

LEMMA CandidatesAreCandidates ==
  ASSUME NEW s, GivesOne(s)
  PROVE  /\ \A c, d \in SensorCandidates(s) : IsCandidate(c) /\ c = d
         /\ \A c, d \in ZoneCandidates(s) : IsCandidate(c) /\ c = d
<1>1. ASSUME NEW c \in s.celsius, ValidCelsius(c) PROVE c \in 1..149
  BY <1>1 DEF GivesOne, ValidCelsius
<1>2. ASSUME NEW c \in SensorCandidates(s) PROVE IsCandidate(c)
  <2>1. PICK t \in s.celsius :
          /\ IsKnown(KnownDrivers, s.driver) /\ ValidCelsius(t)
          /\ c = Candidate(Place(KnownDrivers, s.driver),
                           SensorPriority(s.driver, s.label, s.index), t, <<s.driver, s.label>>)
    BY <1>2 DEF SensorCandidates
  <2>2. Place(KnownDrivers, s.driver) \in Nat
    <3>1. Len(KnownDrivers) = 4
      BY DEF KnownDrivers
    <3>2. Place(KnownDrivers, s.driver) \in 1..Len(KnownDrivers)
      BY <2>1, PlaceIsPlace
    <3>3. QED
      BY <3>1, <3>2
  <2>3. SensorPriority(s.driver, s.label, s.index) \in 0..20
    BY PrioritiesAreSmall
  <2>4. QED
    BY <1>1, <2>1, <2>2, <2>3 DEF Candidate, IsCandidate
<1>3. ASSUME NEW c \in ZoneCandidates(s) PROVE IsCandidate(c)
  <2>1. PICK t \in s.celsius :
          /\ IsKnown(KnownTypes, s.type) /\ ValidCelsius(t)
          /\ c = Candidate(Place(KnownTypes, s.type), 0, t, <<s.type>>)
    BY <1>3 DEF ZoneCandidates
  <2>2. Place(KnownTypes, s.type) \in Nat
    <3>1. Len(KnownTypes) = 3
      BY DEF KnownTypes
    <3>2. Place(KnownTypes, s.type) \in 1..Len(KnownTypes)
      BY <2>1, PlaceIsPlace
    <3>3. QED
      BY <3>1, <3>2
  <2>3. QED
    BY <1>1, <2>1, <2>2 DEF Candidate, IsCandidate
<1>4. \A c, d \in SensorCandidates(s) : c = d
  BY DEF SensorCandidates, GivesOne
<1>5. \A c, d \in ZoneCandidates(s) : c = d
  BY DEF ZoneCandidates, GivesOne
<1>6. QED
  BY <1>2, <1>3, <1>4, <1>5

(* readThermal: the source told is a live one which no live one exceeds,   *)
(* for every number of sensors and zones.                                  *)
THEOREM SourceIsBest ==
  ASSUME NEW S, NEW sensors \in Seq(S), NEW zones \in Seq(S), \A s \in S : GivesOne(s)
  PROVE  BestSourceIsTold(sensors, zones, ReadThermal(sensors, zones).best)
<1> DEFINE n == Len(sensors)
           m == Len(zones)
           hwmon == AllSensors(sensors)
           thermal == AllZones(zones)
           told == ReadThermal(sensors, zones).best
           live == UNION Range(hwmon)
           zone == UNION Range(thermal)
<1>1. /\ n \in Nat /\ DOMAIN hwmon = 1..n /\ Len(hwmon) = n
      /\ m \in Nat /\ DOMAIN thermal = 1..m /\ Len(thermal) = m
  BY DEF AllSensors, AllZones
<1>2. /\ \A j \in 1..n : \A c, d \in hwmon[j] : IsCandidate(c) /\ c = d
      /\ \A j \in 1..m : \A c, d \in thermal[j] : IsCandidate(c) /\ c = d
  <2>1. \A j \in 1..n : hwmon[j] = SensorCandidates(sensors[j]) /\ GivesOne(sensors[j])
    BY DEF AllSensors
  <2>2. \A j \in 1..m : thermal[j] = ZoneCandidates(zones[j]) /\ GivesOne(zones[j])
    BY DEF AllZones
  <2>3. QED
    BY <2>1, <2>2, CandidatesAreCandidates
<1>3. /\ live = UNION {hwmon[j] : j \in 1..n}
      /\ zone = UNION {thermal[j] : j \in 1..m}
  BY <1>1 DEF Range
<1>4. told = IF Pick(hwmon) # {} THEN Pick(hwmon) ELSE Pick(thermal)
  BY DEF ReadThermal
<1>5. BestSourceIsTold(sensors, zones, told) <=>
        LET among == IF live # {} THEN live ELSE zone
        IN /\ told = {} <=> among = {}
           /\ \A t \in told : t \in among /\ \A c \in among : Key(t) <= Key(c)
  BY DEF BestSourceIsTold, Key
<1> HIDE DEF n, m, hwmon, thermal, told, live, zone
<1>6. PickedSoFar(Pick(hwmon), hwmon, n) /\ PickedSoFar(Pick(thermal), thermal, m)
  BY <1>1, <1>2, PickIsBest
<1>7. /\ Pick(hwmon) \subseteq live /\ (Pick(hwmon) = {} <=> live = {})
      /\ \A t \in Pick(hwmon), c \in live : Key(t) <= Key(c)
      /\ Pick(thermal) \subseteq zone /\ (Pick(thermal) = {} <=> zone = {})
      /\ \A t \in Pick(thermal), c \in zone : Key(t) <= Key(c)
  BY <1>3, <1>6 DEF PickedSoFar
<1>8. QED
  BY <1>4, <1>5, <1>7 DEF told


---------------------------------------------------------------------------
(* GPU cards.                                                              *)

FirstOf(places) == CHOOSE k \in places : \A l \in places : k <= l

LEMMA FirstIsFirst ==
  ASSUME NEW places \in SUBSET Nat, places # {}
  PROVE  /\ FirstOf(places) \in places /\ \A l \in places : FirstOf(places) <= l
         /\ \A k \in places : (\A l \in places : k <= l) => k = FirstOf(places)
<1>1. \E k \in places : \A l \in places : k <= l
  BY Smallest
<1>2. FirstOf(places) \in places /\ \A l \in places : FirstOf(places) <= l
  BY <1>1 DEF FirstOf
<1>3. \A k, l \in Nat : k <= l /\ l <= k => k = l
  OBVIOUS
<1>4. QED
  BY <1>2, <1>3

(* What is filled in once, from the first place that has something.        *)
FillsUp(v, n, own, reading, M) ==
  /\ v[0] = own
  /\ \A i \in 1..n : v[i] = IF i \in M THEN OrElse(v[i - 1], reading[i]) ELSE v[i - 1]

FirstReading(own, reading, M) ==
  LET having == {k \in M : reading[k] # {}}
  IN IF own # {} THEN own ELSE IF having = {} THEN {} ELSE reading[FirstOf(having)]

LEMMA FilledOnce ==
  ASSUME NEW n \in Nat, NEW own, NEW reading, NEW M \in SUBSET (1..n),
         NEW v, FillsUp(v, n, own, reading, M)
  PROVE  v[n] = FirstReading(own, reading, M)
<1> DEFINE H(i) == {k \in M : k <= i /\ reading[k] # {}}
           Is(i) == v[i] = IF own # {} THEN own
                           ELSE IF H(i) = {} THEN {} ELSE reading[FirstOf(H(i))]
           Good == {i \in 0..n : Is(i)}
<1>0. \A k \in M : k \in Nat /\ 1 <= k /\ k <= n
  OBVIOUS
<1>1. 0 \in Good
  <2>1. ASSUME NEW k \in H(0) PROVE FALSE
    <3>1. k \in M /\ k <= 0
      OBVIOUS
    <3>2. k \in Nat /\ 1 <= k
      BY <1>0, <3>1
    <3>3. QED
      BY <3>1, <3>2
  <2>2. H(0) = {} /\ 0 \in 0..n
    BY <2>1
  <2> HIDE DEF H
  <2>3. QED
    BY <2>2 DEF FillsUp
<1>2. ASSUME NEW i \in 1..n, i - 1 \in Good PROVE i \in Good
  <2>1. Is(i - 1) /\ i \in 0..n
    BY <1>2
  <2>2. v[i] = IF i \in M THEN OrElse(v[i - 1], reading[i]) ELSE v[i - 1]
    BY DEF FillsUp
  <2>3. H(i) = IF i \in M /\ reading[i] # {} THEN H(i - 1) \cup {i} ELSE H(i - 1)
    <3>1. \A k \in M : k <= i <=> k <= i - 1 \/ k = i
      BY <1>0
    <3>2. i \in M => i <= i
      BY <1>0
    <3>3. QED
      BY <3>1, <3>2
  <2>4. /\ H(i - 1) \in SUBSET Nat /\ H(i) \in SUBSET Nat /\ i \in Nat
        /\ \A k \in H(i - 1) : k < i
    <3>1. i \in Nat /\ \A j : H(j) \subseteq M
      OBVIOUS
    <3>2. \A k \in H(i - 1) : k \in M /\ k <= i - 1
      OBVIOUS
    <3> HIDE DEF H
    <3>3. \A j : H(j) \in SUBSET Nat
      BY <1>0, <3>1
    <3>4. ASSUME NEW k \in H(i - 1) PROVE k < i
      <4>1. k \in Nat /\ k <= i - 1
        BY <1>0, <3>2
      <4>2. QED
        BY <3>1, <4>1
    <3>5. QED
      BY <3>1, <3>3, <3>4
  <2> HIDE DEF H
  <2>5. CASE own # {} \/ i \notin M \/ reading[i] = {}
    BY <2>1, <2>2, <2>3, <2>5 DEF OrElse
  <2>6. CASE own = {} /\ i \in M /\ reading[i] # {} /\ H(i - 1) = {}
    <3>1. H(i) = {i} /\ v[i] = reading[i]
      BY <2>1, <2>2, <2>3, <2>6 DEF OrElse
    <3>2. FirstOf(H(i)) = i
      BY <2>4, <3>1, FirstIsFirst
    <3>3. QED
      BY <2>1, <2>6, <3>1, <3>2
  <2>7. CASE own = {} /\ i \in M /\ reading[i] # {} /\ H(i - 1) # {}
    <3> DEFINE k == FirstOf(H(i - 1))
    <3>1. k \in H(i - 1) /\ \A l \in H(i - 1) : k <= l
      BY <2>4, <2>7, FirstIsFirst
    <3>2. H(i) = H(i - 1) \cup {i}
      BY <2>3, <2>7
    <3>3. k \in H(i) /\ \A l \in H(i) : k <= l
      <4> HIDE DEF k
      <4>1. k < i /\ k \in Nat
        BY <2>4, <3>1
      <4>2. QED
        BY <2>4, <3>1, <3>2, <4>1
    <3>4. k = FirstOf(H(i))
      <4> HIDE DEF k
      <4>1. QED
        BY <2>4, <3>3, FirstIsFirst
    <3>5. reading[k] # {}
      BY <3>1 DEF H
    <3>6. v[i - 1] = reading[k]
      BY <2>1, <2>7
    <3>7. v[i] = reading[k]
      BY <2>2, <2>7, <3>5, <3>6 DEF OrElse
    <3>8. H(i) # {}
      BY <3>3
    <3>9. QED
      BY <2>1, <2>7, <3>4, <3>7, <3>8
  <2>8. QED
    BY <2>5, <2>6, <2>7
<1>3. Good \in SUBSET (0..n) /\ n \in 0..n
  OBVIOUS
<1>4. n \in Good
  <2> HIDE DEF Good
  <2>1. QED
    BY <1>1, <1>2, <1>3, AlongTheSteps
<1>5. H(n) = {k \in M : reading[k] # {}}
  BY <1>0
<1>6. QED
  BY <1>4, <1>5 DEF FirstReading

Filled == {"usage", "temp", "vram", "title"}
ReadingOf(row, field) == IF field = "vram" THEN VRAM(NvidiaRow(row).vram) ELSE NvidiaRow(row)[field]

LEMMA FillsIn ==
  ASSUME NEW C, NEW W, NEW E, NEW A, NEW U, NEW T, NEW V, NEW L,
         NEW g \in [card: C, vendor: W, device: E, bdf: A, usage: U, temp: T, vram: V, title: L],
         NEW row, NvidiaRow(row).usage \in U, NvidiaRow(row).temp \in T,
         VRAM(NvidiaRow(row).vram) \in V, NvidiaRow(row).title \in L
  PROVE  LET h == Fill(g, NvidiaRow(row))
         IN /\ h \in [card: C, vendor: W, device: E, bdf: A, usage: U, temp: T, vram: V, title: L]
            /\ h.card = g.card /\ h.vendor = g.vendor /\ h.device = g.device
            /\ \A field \in Filled : h[field] = OrElse(g[field], ReadingOf(row, field))
<1> DEFINE r == NvidiaRow(row)
           v == VRAM(r.vram)
           u == OrElse(g.usage, r.usage)
           t == OrElse(g.temp, r.temp)
           w == OrElse(g.vram, v)
           l == OrElse(g.title, r.title)
           h == [g EXCEPT !.usage = u, !.temp = t, !.vram = w, !.title = l]
<1>1. h = Fill(g, r)
  BY DEF Fill
<1>2. /\ ReadingOf(row, "usage") = r.usage /\ ReadingOf(row, "temp") = r.temp
      /\ ReadingOf(row, "vram") = v /\ ReadingOf(row, "title") = r.title
  BY DEF ReadingOf
<1> HIDE DEF r, v
<1>3. u \in U /\ t \in T /\ w \in V /\ l \in L
  BY DEF OrElse, r, v
<1>4. /\ u = OrElse(g.usage, r.usage) /\ t = OrElse(g.temp, r.temp)
      /\ w = OrElse(g.vram, v) /\ l = OrElse(g.title, r.title)
  OBVIOUS
<1> HIDE DEF u, t, w, l
<1>5. h \in [card: C, vendor: W, device: E, bdf: A, usage: U, temp: T, vram: V, title: L]
  BY <1>3
<1>6. /\ h.card = g.card /\ h.vendor = g.vendor /\ h.device = g.device
      /\ h.usage = u /\ h.temp = t /\ h.vram = w /\ h.title = l
  OBVIOUS
<1> HIDE DEF h
<1>7. \A field \in Filled : h[field] = OrElse(g[field], ReadingOf(row, field))
  BY <1>2, <1>4, <1>6 DEF Filled
<1>8. QED
  BY <1>1, <1>5, <1>6, <1>7 DEF r

(* The rows with an address that have a reading.                           *)
RowsWith(bdf, rows, field) ==
  {k \in DOMAIN rows : MatchBDF(bdf, rows[k].bdf) /\ ReadingOf(rows[k], field) # {}}

(* applyNvidiaCSV: what a GPU has after all rows, however many.            *)
AfterRows(gpu, rows, after) ==
  /\ after.card = gpu.card /\ after.vendor = gpu.vendor /\ after.device = gpu.device
  /\ \A field \in Filled :
       LET having == RowsWith(gpu.bdf, rows, field)
       IN after[field] = IF gpu[field] # {} THEN gpu[field]
                         ELSE IF having = {} THEN {}
                         ELSE ReadingOf(rows[FirstOf(having)], field)

LEMMA RowsFillIn ==
  ASSUME NEW c, NEW X, NEW rows \in Seq(X)
  PROVE  AfterRows(GPU(c), rows, ApplyRows(GPU(c), rows))
<1> DEFINE gpu == GPU(c)
           n == Len(rows)
           M == {k \in 1..n : MatchBDF(gpu.bdf, rows[k].bdf)}
           U == {gpu.usage} \cup {NvidiaRow(rows[k]).usage : k \in 1..n}
           T == {gpu.temp} \cup {NvidiaRow(rows[k]).temp : k \in 1..n}
           V == {gpu.vram} \cup {VRAM(NvidiaRow(rows[k]).vram) : k \in 1..n}
           L == {gpu.title} \cup {NvidiaRow(rows[k]).title : k \in 1..n}
           C == {gpu.card}
           W == {gpu.vendor}
           E == {gpu.device}
           A == {gpu.bdf}
           S == [card: C, vendor: W, device: E, bdf: A, usage: U, temp: T, vram: V, title: L]
           F == [i \in 1..n |-> [g \in S |-> IF i \in M THEN Fill(g, NvidiaRow(rows[i])) ELSE g]]
<1>1. n \in Nat /\ DOMAIN rows = 1..n
  OBVIOUS
<1>2. gpu \in S
  BY DEF GPU
<1>3. \A k \in 1..n : /\ NvidiaRow(rows[k]).usage \in U /\ NvidiaRow(rows[k]).temp \in T
                      /\ VRAM(NvidiaRow(rows[k]).vram) \in V /\ NvidiaRow(rows[k]).title \in L
  OBVIOUS
<1> HIDE DEF gpu, n, M, C, W, E, A, U, T, V, L
<1>4. ASSUME NEW i \in 1..n, NEW g \in S
      PROVE  LET h == Fill(g, NvidiaRow(rows[i]))
             IN /\ h \in S
                /\ h.card = g.card /\ h.vendor = g.vendor /\ h.device = g.device
                /\ \A field \in Filled : h[field] = OrElse(g[field], ReadingOf(rows[i], field))
  BY <1>3, FillsIn
<1> HIDE DEF S
<1>5. F \in [1..n -> [S -> S]]
  BY <1>4
<1>6. PICK f : Steps(f, n, S, gpu, F)
  <2> HIDE DEF F
  <2>1. QED
    BY <1>1, <1>2, <1>5, StepByStep
<1>7. f \in [0..n -> S] /\ f[0] = gpu /\ \A i \in 1..n : f[i] = F[i][f[i - 1]]
  BY <1>6 DEF Steps
<1>8. \A i \in 1..n : /\ i \in 0..n /\ i # 0 /\ i - 1 \in 0..n /\ f[i - 1] \in S
                      /\ f[i] = IF i \in M THEN Fill(f[i - 1], NvidiaRow(rows[i])) ELSE f[i - 1]
  <2>1. \A i \in 1..n : i \in 0..n /\ i # 0 /\ i - 1 \in 0..n
    BY <1>1
  <2>2. QED
    BY <1>7, <2>1
<1>9. f = [i \in 0..n |-> IF i = 0 THEN gpu
             ELSE IF MatchBDF(gpu.bdf, rows[i].bdf) THEN Fill(f[i - 1], NvidiaRow(rows[i]))
             ELSE f[i - 1]]
  <2>1. \A i \in 0..n : i # 0 => i \in 1..n
    BY <1>1
  <2>2. \A i \in 1..n : i \in M <=> MatchBDF(gpu.bdf, rows[i].bdf)
    BY DEF M
  <2> HIDE DEF F
  <2>3. QED
    BY <1>7, <1>8, <2>1, <2>2
<1> DEFINE filled == CHOOSE h : h = [i \in 0..n |-> IF i = 0 THEN gpu
             ELSE IF MatchBDF(gpu.bdf, rows[i].bdf) THEN Fill(h[i - 1], NvidiaRow(rows[i]))
             ELSE h[i - 1]]
<1>10. ApplyRows(gpu, rows) = filled[n]
  BY DEF ApplyRows, n
(* Two functions that satisfy the recursion agree.                         *)
<1>11. filled = [i \in 0..n |-> IF i = 0 THEN gpu
             ELSE IF MatchBDF(gpu.bdf, rows[i].bdf) THEN Fill(filled[i - 1], NvidiaRow(rows[i]))
             ELSE filled[i - 1]]
  BY <1>9
<1> HIDE DEF filled, F
<1>12. /\ filled[0] = gpu
       /\ \A i \in 1..n :
            filled[i] = IF i \in M THEN Fill(filled[i - 1], NvidiaRow(rows[i])) ELSE filled[i - 1]
  <2>1. 0 \in 0..n /\ \A i \in 1..n : i \in 0..n /\ i # 0
    BY <1>1
  <2>2. \A i \in 1..n : i \in M <=> MatchBDF(gpu.bdf, rows[i].bdf)
    BY DEF M
  <2>3. QED
    BY <1>11, <2>1, <2>2
<1> DEFINE Same(g) == /\ g \in S /\ g.card = gpu.card /\ g.vendor = gpu.vendor
                      /\ g.device = gpu.device
           Good == {i \in 0..n : Same(filled[i])}
<1>13. \A i \in 0..n : i \in Good
  <2>1. 0 \in Good
    BY <1>1, <1>2, <1>12
  <2>2. ASSUME NEW i \in 1..n, i - 1 \in Good PROVE i \in Good
    <3>1. i \in 0..n /\ Same(filled[i - 1])
      BY <1>8, <2>2
    <3>2. CASE i \in M
      <4>1. filled[i] = Fill(filled[i - 1], NvidiaRow(rows[i]))
        BY <1>12, <3>2
      <4>2. Same(filled[i])
        BY <1>4, <3>1, <4>1
      <4>3. QED
        BY <3>1, <4>2
    <3>3. CASE i \notin M
      BY <1>12, <3>1, <3>3
    <3>4. QED
      BY <3>2, <3>3
  <2>3. Good \in SUBSET (0..n)
    OBVIOUS
  <2> HIDE DEF Good
  <2>4. QED
    BY <1>1, <2>1, <2>2, <2>3, AlongTheSteps
<1>14. Same(filled[n])
  BY <1>1, <1>13
<1>15. ASSUME NEW field \in Filled
       PROVE  LET having == RowsWith(gpu.bdf, rows, field)
              IN filled[n][field] = IF gpu[field] # {} THEN gpu[field]
                                    ELSE IF having = {} THEN {}
                                    ELSE ReadingOf(rows[FirstOf(having)], field)
  <2> DEFINE v == [i \in 0..n |-> filled[i][field]]
             reading == [i \in 1..n |-> ReadingOf(rows[i], field)]
             having == {k \in M : reading[k] # {}}
  <2>1. v[0] = gpu[field]
    BY <1>1, <1>12
  <2>2. ASSUME NEW i \in 1..n
        PROVE  v[i] = IF i \in M THEN OrElse(v[i - 1], reading[i]) ELSE v[i - 1]
    <3>1. /\ i \in 0..n /\ i - 1 \in 0..n /\ filled[i - 1] \in S
          /\ filled[i] = IF i \in M THEN Fill(filled[i - 1], NvidiaRow(rows[i])) ELSE filled[i - 1]
      BY <1>8, <1>12, <1>13
    <3>2. v[i] = filled[i][field] /\ v[i - 1] = filled[i - 1][field]
          /\ reading[i] = ReadingOf(rows[i], field)
      BY <3>1
    <3>3. CASE i \in M
      <4>1. filled[i][field] = OrElse(filled[i - 1][field], ReadingOf(rows[i], field))
        BY <1>4, <3>1, <3>3
      <4>2. QED
        BY <3>2, <3>3, <4>1
    <3>4. CASE i \notin M
      BY <3>1, <3>2, <3>4
    <3>5. QED
      BY <3>3, <3>4
  <2>3. v[n] = filled[n][field]
    BY <1>1
  <2>4. M \in SUBSET (1..n)
    BY DEF M
  <2>5. having = RowsWith(gpu.bdf, rows, field)
    BY <1>1 DEF M, RowsWith
  <2>6. having # {} => FirstOf(having) \in 1..n
    <3>1. having \subseteq 1..n /\ having \in SUBSET Nat
      <4>1. having \subseteq M
        OBVIOUS
      <4>2. 1..n \subseteq Nat
        BY <1>1
      <4> HIDE DEF having
      <4>3. QED
        BY <2>4, <4>1, <4>2
    <3> HIDE DEF having
    <3>2. QED
      BY <3>1, FirstIsFirst
  <2>7. having # {} => reading[FirstOf(having)] = ReadingOf(rows[FirstOf(having)], field)
    <3> HIDE DEF having
    <3>1. QED
      BY <2>6
  <2> HIDE DEF v, reading, having
  <2>8. v[n] = IF gpu[field] # {} THEN gpu[field]
               ELSE IF having = {} THEN {} ELSE reading[FirstOf(having)]
    <3> DEFINE own == gpu[field]
    <3>1. v[0] = own
      BY <2>1
    <3> HIDE DEF own
    <3>2. v[n] = FirstReading(own, reading, M)
      <4>1. FillsUp(v, n, own, reading, M)
        BY <2>2, <3>1 DEF FillsUp
      <4>2. QED
        BY <1>1, <2>4, <4>1, FilledOnce
    <3>3. QED
      BY <3>2 DEF own, having, FirstReading
  <2>9. QED
    BY <2>3, <2>5, <2>7, <2>8
<1>16. QED
  BY <1>10, <1>14, <1>15 DEF gpu, AfterRows

(* The order of the snapshot loses no card: no two have the same rank.     *)
LEMMA OrderKeepsAll ==
  ASSUME NEW gpus, IsFiniteSet(DOMAIN gpus),
         \A i \in DOMAIN gpus : /\ Number(gpus[i].vendor) \in Int /\ Number(gpus[i].device) \in Int
                                /\ gpus[i].card \in Int,
         \A i, k \in DOMAIN gpus : gpus[i].card = gpus[k].card => i = k
  PROVE  /\ Cardinality(DOMAIN gpus) \in Nat
         /\ DOMAIN InOrder(gpus) = 1..Cardinality(DOMAIN gpus)
         /\ Len(InOrder(gpus)) = Cardinality(DOMAIN gpus)
         /\ \A i \in DOMAIN gpus : \E j \in DOMAIN InOrder(gpus) : InOrder(gpus)[j] = gpus[i]
<1> DEFINE D == DOMAIN gpus
           n == Cardinality(D)
           Below(i) == {k \in D : Before(gpus[k], gpus[i])}
<1>1. \A i, j, k \in D : /\ ~Before(gpus[i], gpus[i])
                         /\ Before(gpus[i], gpus[j]) \/ Before(gpus[j], gpus[i]) \/ i = j
                         /\ Before(gpus[i], gpus[j]) /\ Before(gpus[j], gpus[k])
                              => Before(gpus[i], gpus[k])
  <2> DEFINE V(i) == Number(gpus[i].vendor)
             E(i) == Number(gpus[i].device)
             C(i) == gpus[i].card
  <2>1. \A i \in D : V(i) \in Int /\ E(i) \in Int /\ C(i) \in Int
    OBVIOUS
  <2>2. \A i, j \in D : Before(gpus[i], gpus[j]) <=> \/ V(i) < V(j)
                                                     \/ V(i) = V(j) /\ E(i) < E(j)
                                                     \/ V(i) = V(j) /\ E(i) = E(j) /\ C(i) < C(j)
    BY DEF Before
  <2>3. \A i, j \in D : C(i) = C(j) => i = j
    OBVIOUS
  <2> HIDE DEF V, E, C
  <2> SUFFICES ASSUME NEW i \in D, NEW j \in D, NEW k \in D
               PROVE  /\ ~Before(gpus[i], gpus[i])
                      /\ Before(gpus[i], gpus[j]) \/ Before(gpus[j], gpus[i]) \/ i = j
                      /\ Before(gpus[i], gpus[j]) /\ Before(gpus[j], gpus[k])
                           => Before(gpus[i], gpus[k])
    OBVIOUS
  <2>4. /\ V(i) \in Int /\ E(i) \in Int /\ C(i) \in Int /\ V(j) \in Int /\ E(j) \in Int
        /\ C(j) \in Int /\ V(k) \in Int /\ E(k) \in Int /\ C(k) \in Int
    BY <2>1
  <2>5. ~Before(gpus[i], gpus[i])
    BY <2>2, <2>4
  <2>6. Before(gpus[i], gpus[j]) \/ Before(gpus[j], gpus[i]) \/ i = j
    BY <2>2, <2>3, <2>4
  <2>7. Before(gpus[i], gpus[j]) /\ Before(gpus[j], gpus[k]) => Before(gpus[i], gpus[k])
    BY <2>2, <2>4
  <2>8. QED
    BY <2>5, <2>6, <2>7
<1>2. /\ n \in Nat
      /\ \A i \in D : /\ IsFiniteSet(Below(i)) /\ Cardinality(Below(i)) \in Nat
                      /\ Cardinality(Below(i)) < n
  <2>1. n \in Nat
    BY FS_CardinalityType
  <2>2. ASSUME NEW i \in D
        PROVE  /\ IsFiniteSet(Below(i)) /\ Cardinality(Below(i)) \in Nat /\ Cardinality(Below(i)) < n
    <3>1. Below(i) \in SUBSET D /\ Below(i) # D
      BY <1>1
    <3> HIDE DEF D, Below
    <3>2. IsFiniteSet(Below(i)) /\ Cardinality(Below(i)) <= Cardinality(D)
          /\ Cardinality(Below(i)) # Cardinality(D) /\ Cardinality(Below(i)) \in Nat
      BY <3>1, FS_Subset, FS_CardinalityType DEF D
    <3>3. QED
      BY <2>1, <3>2
  <2>3. QED
    BY <2>1, <2>2
<1>3. ASSUME NEW i \in D, NEW k \in D, Before(gpus[i], gpus[k])
      PROVE  Cardinality(Below(i)) < Cardinality(Below(k))
  <2>1. Below(i) \in SUBSET Below(k) /\ Below(i) # Below(k)
    BY <1>1, <1>3
  <2>2. IsFiniteSet(Below(k)) /\ Cardinality(Below(i)) \in Nat /\ Cardinality(Below(k)) \in Nat
    BY <1>2
  <2> HIDE DEF Below
  <2>3. /\ Cardinality(Below(i)) <= Cardinality(Below(k))
        /\ Cardinality(Below(i)) # Cardinality(Below(k))
    BY <2>1, <2>2, FS_Subset
  <2>4. QED
    BY <2>2, <2>3
<1>4. \A i \in D : Rank(gpus, i) = 1 + Cardinality(Below(i))
  BY DEF Rank
<1> HIDE DEF Below
<1>5. \A i \in D : Rank(gpus, i) \in 1..n
  BY <1>2, <1>4
<1>6. \A i, k \in D : Rank(gpus, i) = Rank(gpus, k) => i = k
  <2> SUFFICES ASSUME NEW i \in D, NEW k \in D, i # k PROVE Rank(gpus, i) # Rank(gpus, k)
    OBVIOUS
  <2>1. /\ Cardinality(Below(i)) \in Nat /\ Cardinality(Below(k)) \in Nat
        /\ Cardinality(Below(i)) # Cardinality(Below(k))
    BY <1>1, <1>2, <1>3
  <2>2. QED
    BY <1>4, <2>1
<1>7. InOrder(gpus) = [j \in 1..n |-> gpus[CHOOSE i \in D : Rank(gpus, i) = j]]
  BY DEF InOrder
<1> HIDE DEF D, n
<1>8. DOMAIN InOrder(gpus) = 1..n /\ Len(InOrder(gpus)) = n
  BY <1>2, <1>7
<1>9. ASSUME NEW i \in D PROVE \E j \in 1..n : InOrder(gpus)[j] = gpus[i]
  <2> DEFINE j == Rank(gpus, i)
  <2>1. j \in 1..n
    BY <1>5
  <2>2. (CHOOSE k \in D : Rank(gpus, k) = j) = i
    BY <1>6
  <2>3. InOrder(gpus)[j] = gpus[i]
    <3>1. InOrder(gpus)[j] = gpus[CHOOSE k \in D : Rank(gpus, k) = j]
      BY <1>7, <2>1
    <3>2. QED
      BY <2>2, <3>1
  <2>4. QED
    BY <2>1, <2>3
<1>10. QED
  BY <1>2, <1>8, <1>9 DEF D, n

(* readGPUs: every identified card is in the snapshot, with its own        *)
(* readings or those of the first row of nvidia-smi with its address that  *)
(* has them, for any number of cards and rows.                             *)
THEOREM CardsReadTheirOwn ==
  ASSUME NEW cards, IsFiniteSet(DOMAIN cards),
         \A i \in DOMAIN cards : /\ cards[i].vendor \in SUBSET Int /\ cards[i].device \in SUBSET Int
                                 /\ cards[i].name \in Int,
         \A i, k \in DOMAIN cards : cards[i].name = cards[k].name => i = k,
         NEW X, NEW smi \in SUBSET Seq(X)
  PROVE  ReadingsAreOfTheCard(cards, smi, ReadGPUs(cards, smi))
<1> DEFINE found == Listed(cards)
           rows == NvidiaRows(cards, smi)
           applied == [i \in found |-> ApplyRows(GPU(cards[i]), rows)]
           gpus == InOrder(applied)
           reading(k, field) == IF field = "vram" THEN VRAM(NvidiaRow(rows[k]).vram)
                                ELSE NvidiaRow(rows[k])[field]
           having(i, field) == {k \in DOMAIN rows : /\ reading(k, field) # {}
                                                    /\ Address(GPU(cards[i]).bdf) # {}
                                                    /\ Address(rows[k].bdf) = Address(GPU(cards[i]).bdf)}
           first(i, field) == CHOOSE k \in having(i, field) : \A l \in having(i, field) : k <= l
           OwnOf(i, g) == /\ g.card = cards[i].name
                          /\ \A field \in Filled :
                               g[field] = IF GPU(cards[i])[field] # {} THEN GPU(cards[i])[field]
                                          ELSE IF having(i, field) = {} THEN {}
                                          ELSE reading(first(i, field), field)
<1>1. rows \in Seq(X)
  <2>1. <<>> \in Seq(X)
    OBVIOUS
  <2>2. smi # {} => (CHOOSE r \in smi : TRUE) \in Seq(X)
    OBVIOUS
  <2>3. QED
    BY <2>1, <2>2 DEF NvidiaRows
<1>2. found \subseteq DOMAIN cards /\ IsFiniteSet(found) /\ \A i \in found : Identified(cards[i])
  BY FS_Subset DEF Listed
<1>3. ReadGPUs(cards, smi) = gpus
  BY DEF ReadGPUs
<1>4. ReadingsAreOfTheCard(cards, smi, gpus) <=>
        /\ Len(gpus) = Cardinality(found)
        /\ \A i \in found : \E j \in DOMAIN gpus : OwnOf(i, gpus[j])
  BY Zenon DEF ReadingsAreOfTheCard, Filled
<1> HIDE DEF rows, found
<1>5. ASSUME NEW i \in found
      PROVE  LET g == ApplyRows(GPU(cards[i]), rows)
             IN /\ OwnOf(i, g)
                /\ g.vendor = cards[i].vendor /\ g.device = cards[i].device
  <2> DEFINE own == GPU(cards[i])
             g == ApplyRows(own, rows)
             places(field) == RowsWith(own.bdf, rows, field)
  <2>1. /\ g.card = own.card /\ g.vendor = own.vendor /\ g.device = own.device
        /\ \A field \in Filled :
             g[field] = IF own[field] # {} THEN own[field]
                        ELSE IF places(field) = {} THEN {}
                        ELSE ReadingOf(rows[FirstOf(places(field))], field)
    <3>1. AfterRows(own, rows, g)
      BY <1>1, RowsFillIn
    <3> HIDE DEF own, g
    <3>2. QED
      BY <3>1 DEF AfterRows
  <2>2. /\ own.card = cards[i].name /\ own.vendor = cards[i].vendor
        /\ own.device = cards[i].device
    BY DEF GPU
  <2>3. ASSUME NEW field \in Filled
        PROVE  /\ places(field) = having(i, field)
               /\ FirstOf(places(field)) = first(i, field)
               /\ \A k : ReadingOf(rows[k], field) = reading(k, field)
    <3>1. \A k : ReadingOf(rows[k], field) = reading(k, field)
      BY DEF ReadingOf
    <3>2. places(field) = having(i, field)
      BY <3>1 DEF MatchBDF, RowsWith
    <3> HIDE DEF having, places
    <3>3. FirstOf(places(field)) = first(i, field)
      BY <3>2 DEF FirstOf
    <3>4. QED
      BY <3>1, <3>2, <3>3
  <2> HIDE DEF own, g, having, places, first, reading
  <2>4. \A field \in Filled :
          g[field] = IF own[field] # {} THEN own[field]
                     ELSE IF having(i, field) = {} THEN {}
                     ELSE reading(first(i, field), field)
    BY <2>1, <2>3
  <2>5. QED
    BY <2>1, <2>2, <2>4 DEF own, g
<1> HIDE DEF OwnOf
<1>6. /\ DOMAIN applied = found
      /\ \A i \in found : /\ applied[i] = ApplyRows(GPU(cards[i]), rows)
                          /\ OwnOf(i, applied[i])
                          /\ applied[i].vendor = cards[i].vendor
                          /\ applied[i].device = cards[i].device
                          /\ applied[i].card = cards[i].name
  <2>1. DOMAIN applied = found /\ \A i \in found : applied[i] = ApplyRows(GPU(cards[i]), rows)
    OBVIOUS
  <2>2. \A i \in found : LET g == ApplyRows(GPU(cards[i]), rows)
                         IN OwnOf(i, g) /\ g.vendor = cards[i].vendor /\ g.device = cards[i].device
    BY <1>5
  <2>3. \A i, g : OwnOf(i, g) => g.card = cards[i].name
    BY DEF OwnOf
  <2> HIDE DEF applied
  <2>4. QED
    BY <2>1, <2>2, <2>3
<1> HIDE DEF applied
<1>7. \A i \in found : /\ Number(applied[i].vendor) \in Int /\ Number(applied[i].device) \in Int
                       /\ applied[i].card \in Int
  <2>1. \A i \in found : /\ cards[i].vendor # {} /\ cards[i].vendor \in SUBSET Int
                         /\ cards[i].device # {} /\ cards[i].device \in SUBSET Int
                         /\ cards[i].name \in Int
    BY <1>2 DEF Identified
  <2>2. \A S \in SUBSET Int : S # {} => Number(S) \in Int
    BY DEF Number
  <2>3. QED
    BY <1>6, <2>1, <2>2
<1>8. \A i, k \in found : applied[i].card = applied[k].card => i = k
  BY <1>2, <1>6
<1>9. /\ Len(gpus) = Cardinality(found)
      /\ \A i \in found : \E j \in DOMAIN gpus : gpus[j] = applied[i]
  BY <1>2, <1>6, <1>7, <1>8, OrderKeepsAll
<1>10. \A i \in found : \E j \in DOMAIN gpus : OwnOf(i, gpus[j])
  BY <1>6, <1>9
<1>11. QED
  BY <1>3, <1>4, <1>9, <1>10

---------------------------------------------------------------------------
(* The name cache.                                                         *)

(* A stamp is of a version that was written: a file written later differs. *)
StampsAreOld ==
  \A p \in Paths : stamps[p] <= written /\ newStamps[p] <= written

(* What the refresh under way has read already is in order.                *)
RefreshIsOfTheFiles ==
  step = "read" =>
    \A p \in Paths \ todo :
      newStamps[p] # 0 /\ newStamps[p] = file[p] => newNames[p] = file[p] \/ p \in failed

CacheInv ==
  /\ CacheTypeOK
  /\ StampsAreOld
  /\ RefreshIsOfTheFiles
  /\ NamesAreOfTheFiles

LEMMA CacheStart == CacheInit => CacheInv
<1> SUFFICES ASSUME CacheInit PROVE CacheInv
  OBVIOUS
<1>1. written = 1 /\ step = "idle" /\ todo = {} /\ failed = {}
  BY DEF CacheInit
<1>2. file \in [Paths -> {0, 1}]
  BY DEF CacheInit
<1>3. /\ stamps = [p \in Paths |-> 0] /\ names = [p \in Paths |-> 0]
      /\ newStamps = [p \in Paths |-> 0] /\ newNames = [p \in Paths |-> 0]
  BY DEF CacheInit, Empty
<1> QED BY <1>1, <1>2, <1>3 DEF CacheInv, CacheTypeOK, StampsAreOld,
             RefreshIsOfTheFiles, NamesAreOfTheFiles

(* The package manager: a new version has no stamp yet, a removed file has *)
(* none.                                                                   *)
LEMMA WriteKeeps ==
  ASSUME CacheInv, NEW p \in Paths, Write(p)
  PROVE  CacheInv'
<1>1. /\ file' \in [Paths -> Nat] /\ file'[p] = written + 1 /\ written' = written + 1
      /\ \A q \in Paths \ {p} : file'[q] = file[q]
  BY DEF Write, CacheInv, CacheTypeOK
<1>2. UNCHANGED cacheVars
  BY DEF Write
<1>3. CacheTypeOK'
  BY <1>1, <1>2 DEF CacheInv, CacheTypeOK, cacheVars
<1>4. StampsAreOld'
  BY <1>1, <1>2 DEF CacheInv, CacheTypeOK, StampsAreOld, cacheVars
<1>5. stamps'[p] # file'[p] /\ newStamps'[p] # file'[p]
  BY <1>1, <1>2 DEF CacheInv, CacheTypeOK, StampsAreOld, cacheVars
<1>6. RefreshIsOfTheFiles'
  BY <1>1, <1>2, <1>5 DEF CacheInv, RefreshIsOfTheFiles, cacheVars
<1>7. NamesAreOfTheFiles'
  BY <1>1, <1>2, <1>5 DEF CacheInv, NamesAreOfTheFiles, cacheVars
<1> QED BY <1>3, <1>4, <1>6, <1>7 DEF CacheInv

LEMMA DeleteKeeps ==
  ASSUME CacheInv, NEW p \in Paths, Delete(p)
  PROVE  CacheInv'
<1>1. /\ file' \in [Paths -> Nat] /\ file'[p] = 0 /\ written' = written
      /\ \A q \in Paths \ {p} : file'[q] = file[q]
  BY DEF Delete, CacheInv, CacheTypeOK
<1>2. UNCHANGED cacheVars
  BY DEF Delete
<1>3. CacheTypeOK' /\ StampsAreOld'
  BY <1>1, <1>2 DEF CacheInv, CacheTypeOK, StampsAreOld, cacheVars
<1>4. RefreshIsOfTheFiles'
  BY <1>1, <1>2 DEF CacheInv, RefreshIsOfTheFiles, cacheVars
<1>5. NamesAreOfTheFiles'
  BY <1>1, <1>2 DEF CacheInv, NamesAreOfTheFiles, cacheVars
<1> QED BY <1>3, <1>4, <1>5 DEF CacheInv

(* The steps of refresh.                                                   *)
LEMMA StatKeeps ==
  ASSUME CacheInv, NEW p \in Paths, NEW fails \in BOOLEAN, Stat(p, fails)
  PROVE  CacheInv'
<1>1. /\ newStamps' \in [Paths -> Nat]
      /\ newStamps'[p] \in {0, file[p]}
      /\ \A q \in Paths \ {p} : newStamps'[q] = newStamps[q]
  BY DEF Stat, CacheInv, CacheTypeOK
<1>2. /\ step = "stat" /\ todo' = todo \ {p}
      /\ UNCHANGED <<file, written, stamps, names, newNames, step, failed>>
  BY DEF Stat, fileVars
<1>3. CacheTypeOK'
  BY <1>1, <1>2 DEF CacheInv, CacheTypeOK
<1>4. StampsAreOld'
  BY <1>1, <1>2 DEF CacheInv, CacheTypeOK, StampsAreOld
<1> QED BY <1>2, <1>3, <1>4 DEF CacheInv, RefreshIsOfTheFiles, NamesAreOfTheFiles

LEMMA ReadKeeps ==
  ASSUME CacheInv, NEW p \in Paths, NEW fails \in BOOLEAN, Read(p, fails)
  PROVE  CacheInv'
<1>1. /\ newNames' \in [Paths -> Nat]
      /\ newNames'[p] = IF fails THEN 0 ELSE file[p]
      /\ \A q \in Paths \ {p} : newNames'[q] = newNames[q]
  BY DEF Read, CacheInv, CacheTypeOK
<1>2. /\ step = "read" /\ todo' = todo \ {p}
      /\ UNCHANGED <<file, written, stamps, names, newStamps, step>>
  BY DEF Read, fileVars
<1>3. failed' = IF fails /\ file[p] # 0 THEN failed \cup {p} ELSE failed \ {p}
  BY DEF Read
<1>4. CacheTypeOK' /\ StampsAreOld'
  BY <1>1, <1>2, <1>3 DEF CacheInv, CacheTypeOK, StampsAreOld
<1>5. RefreshIsOfTheFiles'
  BY <1>1, <1>2, <1>3 DEF CacheInv, RefreshIsOfTheFiles
<1> QED BY <1>2, <1>4, <1>5 DEF CacheInv, NamesAreOfTheFiles

LEMMA CommitKeeps ==
  ASSUME CacheInv, Commit
  PROVE  CacheInv'
<1>1. /\ step = "read" /\ todo = {} /\ step' = "idle"
      /\ stamps' = newStamps /\ names' = newNames
      /\ UNCHANGED <<file, written, newStamps, newNames, todo, failed>>
  BY DEF Commit, fileVars
<1>2. CacheTypeOK' /\ StampsAreOld'
  BY <1>1 DEF CacheInv, CacheTypeOK, StampsAreOld
<1> QED BY <1>1, <1>2 DEF CacheInv, RefreshIsOfTheFiles, NamesAreOfTheFiles

LEMMA CacheStep == CacheInv /\ [CacheNext]_cacheSystemVars => CacheInv'
<1> SUFFICES ASSUME CacheInv, [CacheNext]_cacheSystemVars PROVE CacheInv'
  OBVIOUS
<1>1. ASSUME NEW p \in Paths, Write(p) \/ Delete(p) PROVE CacheInv'
  BY <1>1, WriteKeeps, DeleteKeeps
<1>2. ASSUME NEW p \in Paths, NEW fails \in BOOLEAN, Stat(p, fails) \/ Read(p, fails)
      PROVE CacheInv'
  BY <1>2, StatKeeps, ReadKeeps
<1>3. CASE BeginRefresh
  <2>1. \A p \in Paths : newStamps'[p] = 0 /\ newNames'[p] = 0
    BY <1>3 DEF BeginRefresh, Empty
  <2>2. newStamps' \in [Paths -> Nat] /\ newNames' \in [Paths -> Nat]
    BY <1>3 DEF BeginRefresh, Empty
  <2>3. CacheTypeOK' /\ StampsAreOld'
    BY <1>3, <2>1, <2>2 DEF BeginRefresh, CacheInv, CacheTypeOK, StampsAreOld, fileVars
  <2> QED BY <1>3, <2>3 DEF BeginRefresh, CacheInv, RefreshIsOfTheFiles,
               NamesAreOfTheFiles, fileVars
<1>4. CASE Unchanged \/ Changed
  BY <1>4 DEF Unchanged, Changed, CacheInv, CacheTypeOK, StampsAreOld,
       RefreshIsOfTheFiles, NamesAreOfTheFiles, fileVars
<1>5. CASE Commit
  BY <1>5, CommitKeeps
<1>6. CASE UNCHANGED cacheSystemVars
  BY <1>6 DEF CacheInv, CacheTypeOK, StampsAreOld, RefreshIsOfTheFiles, NamesAreOfTheFiles,
       cacheSystemVars, fileVars, cacheVars
<1> QED BY <1>1, <1>2, <1>3, <1>4, <1>5, <1>6 DEF CacheNext

(* The invariant of the cache, with its types.                             *)
THEOREM CacheInvariant == CacheSpec => []CacheInv
BY CacheStart, CacheStep, PTL DEF CacheSpec

(* A file whose stamp is remembered is the one whose names the cache       *)
(* holds, whenever files are written or removed during a refresh.          *)
THEOREM NamesOfTheFiles == CacheSpec => []NamesAreOfTheFiles
<1>1. CacheInv => NamesAreOfTheFiles
  BY DEF CacheInv
<1> QED BY <1>1, CacheInvariant, PTL

---------------------------------------------------------------------------
(* The readings of the runs: one reader, one input, one result.            *)

Outcome(r, i) ==
  CASE r = "cpu" -> CPUUsage(i.previous, i.current)
    [] r = "freebsd" -> FreeBSDUsage(i.previous, i.current)
    [] r = "block" -> RowRates(i.previous, i.current, i.elapsed)
    [] r = "network" -> NetworkRates(i.previous, i.current, i.elapsed)
    [] r = "mounts" -> [filesystems |-> Filesystems(i), issues |-> FilesystemIssues(i)]
    [] r = "meminfo" -> MeminfoPair(i.total, i.left)
    [] r = "pages" -> FreeBSDMemory(i.pages, i.size, i.free, i.inactive)
    [] r = "swap" -> FreeBSDSwap(i)
    [] r = "vram" -> VRAMCapacity(i.used, i.total)
    [] r = "battery" -> ReadBattery(i)
    [] r = "thermal" -> ReadThermal(i.sensors, i.zones)
    [] r = "gpu" -> ReadGPUs(i.cards, i.smi)

(* What is done is the reading of the input, which stays what it was.      *)
ReadingInv ==
  /\ reader \in PureReaders => input \in Inputs(reader)
  /\ done => reader \in PureReaders /\ result = Outcome(reader, input)

LEMMA ReadingStep == ReadingInv /\ [Next]_vars => ReadingInv'
<1> SUFFICES ASSUME ReadingInv, [Next]_vars PROVE ReadingInv'
  OBVIOUS
<1>1. reader' = reader /\ input' = input
  BY DEF Next, vars, readerVars, Reading, ReadCPU, ReadFreeBSDCPU, ReadBlock, ReadNetwork,
       ReadMounts, ReadMeminfo, ReadPages, ReadSwap, ReadVRAM, ReadSupplies, ReadSensors, ReadCards
<1>2. CASE UNCHANGED <<done, result>>
  BY <1>1, <1>2 DEF ReadingInv
<1>3. ASSUME NEW r \in PureReaders, reader = r, result' = Outcome(r, input)
      PROVE  ReadingInv'
  BY <1>1, <1>3 DEF ReadingInv
<1>4. CASE ReadCPU \/ ReadFreeBSDCPU \/ ReadBlock \/ ReadNetwork
  BY <1>3, <1>4 DEF ReadCPU, ReadFreeBSDCPU, ReadBlock, ReadNetwork, Reading, Outcome, PureReaders
<1>5. CASE ReadMounts \/ ReadMeminfo \/ ReadPages \/ ReadSwap
  BY <1>3, <1>5 DEF ReadMounts, ReadMeminfo, ReadPages, ReadSwap, Reading, Outcome, PureReaders
<1>6. CASE ReadVRAM \/ ReadSupplies \/ ReadSensors \/ ReadCards
  BY <1>3, <1>6 DEF ReadVRAM, ReadSupplies, ReadSensors, ReadCards, Reading, Outcome, PureReaders
<1>7. QED
  BY <1>2, <1>4, <1>5, <1>6 DEF Next, vars, readerVars

LEMMA ReadingsAreOfTheInputs == Spec => []ReadingInv
<1>1. Init => ReadingInv
  BY DEF Init, ReadingInv, PureReaders
<1>2. QED
  BY <1>1, ReadingStep, PTL DEF Spec

(* The usages and rates of every run are exact.                            *)
THEOREM ExactRates == Spec => []RatesAreExact
<1>1. Edges \subseteq Word /\ 0..3 \subseteq Word
  BY WordConstants, InputsAreWords DEF Edges, Word
<1>2. ASSUME ReadingInv PROVE RatesAreExact
  <2> SUFFICES ASSUME done PROVE RatesAreExact
    BY DEF RatesAreExact
  <2>1. result = Outcome(reader, input) /\ input \in Inputs(reader)
    BY <1>2 DEF ReadingInv
  <2>2. ASSUME reader = "cpu" PROVE UsageIsExact(input.previous, input.current, result)
    <3>1. input.previous \in [Ticks -> Word] /\ input.current \in [Ticks -> Word]
      BY <1>1, <2>1, <2>2 DEF Inputs, CPUInputs, Ticks
    <3>2. result = CPUUsage(input.previous, input.current)
      BY <2>1, <2>2 DEF Outcome
    <3>3. QED
      BY <3>1, <3>2, CPUUsageIsExact
  <2>3. ASSUME reader = "freebsd" PROVE UsageIsExact(input.previous, input.current, result)
    <3>1. input \in FreeBSDInputs
      BY <2>1, <2>3 DEF Inputs
    <3>2. /\ input.previous \in [Ticks -> Word] /\ input.current \in [Ticks -> Word]
          /\ input.previous["iowait"] = 0 /\ input.current["iowait"] = 0
          /\ FreeBSDTicks(input.previous) /\ FreeBSDTicks(input.current)
      BY <1>1, <3>1 DEF FreeBSDInputs, CPUInputs, Ticks
    <3>3. result = FreeBSDUsage(input.previous, input.current)
      BY <2>1, <2>3 DEF Outcome
    <3>4. QED
      BY <3>2, <3>3, FreeBSDUsageIsExact
  <2>4. ASSUME reader = "network"
        PROVE  NetworkRatesAreExact(input.previous, input.current, input.elapsed, result)
    <3>1. /\ input.previous \in [{"bytes", "packets"} -> Word]
          /\ input.current \in [{"bytes", "packets"} -> Word] /\ input.elapsed \in Nat
      BY <1>1, <2>1, <2>4 DEF Inputs, NetworkInputs
    <3>2. result = NetworkRates(input.previous, input.current, input.elapsed)
      BY <2>1, <2>4 DEF Outcome
    <3>3. QED
      BY <3>1, <3>2, NetworkIsExact
  <2>5. ASSUME reader = "block"
        PROVE  BlockRatesAreExact(input.previous, input.current, input.elapsed, result)
    <3>1. /\ input.previous \in [sectors: Word, busy: Word]
          /\ input.current \in [sectors: Word, busy: Word] /\ input.elapsed \in Nat
      BY <1>1, <2>1, <2>5 DEF Inputs, BlockInputs
    <3>2. result = RowRates(input.previous, input.current, input.elapsed)
      BY <2>1, <2>5 DEF Outcome
    <3>3. QED
      BY <3>1, <3>2, BlockIsExact
  <2>6. QED
    BY <2>2, <2>3, <2>4, <2>5 DEF RatesAreExact
<1>3. QED
  BY <1>2, ReadingsAreOfTheInputs, PTL

(* The capacities of every run are exact, and no mount is lost.            *)
THEOREM ExactCapacities == Spec => []CapacitiesAreExact
<1>1. /\ Edges \subseteq Word /\ 0..2 \subseteq Word /\ 0..3 \subseteq Word /\ 0..4 \subseteq Word
      /\ {3, 5} \subseteq Word /\ {1, 4} \subseteq Word /\ {1} \subseteq Word
      /\ {2} \subseteq Word /\ {0} \subseteq Word
  BY WordConstants, InputsAreWords DEF Edges, Word
<1> DEFINE AllStats == [blocks: Word, bfree: Word, bavail: Word, bsize: Word, frsize: Word]
<1>2. ASSUME ReadingInv PROVE CapacitiesAreExact
  <2> SUFFICES ASSUME done PROVE CapacitiesAreExact
    BY DEF CapacitiesAreExact
  <2>1. result = Outcome(reader, input) /\ input \in Inputs(reader)
    BY <1>2 DEF ReadingInv
  <2>2. ASSUME reader = "mounts"
        PROVE  /\ \A i \in DOMAIN input : \A s \in input[i].stat : StatfsIsExact(s)
               /\ Cardinality(result.filesystems) + Cardinality(result.issues)
                    = Cardinality({i \in DOMAIN input : input[i].type # "autofs"})
    <3>1. input \in MountInputs
      BY <2>1, <2>2 DEF Inputs
    <3>2. \A m \in Mounts \cup OddMounts : m.stat \subseteq AllStats
      <4>1. \A m \in Mounts : m.stat \subseteq AllStats
        BY <1>1 DEF Mounts, Stats
      <4>2. \A m \in OddMounts : m.stat \subseteq AllStats
        BY <1>1 DEF OddMounts
      <4>3. QED
        BY <4>1, <4>2
    <3>3. DOMAIN input \in {1..1, 1..2} /\ \A i \in DOMAIN input : input[i] \in Mounts \cup OddMounts
      BY <3>1 DEF MountInputs
    <3>4. IsFiniteSet(DOMAIN input)
      BY <3>3, FewPlaces
    <3>5. ASSUME NEW i \in DOMAIN input, NEW s \in input[i].stat PROVE StatfsIsExact(s)
      <4>1. s \in AllStats
        BY <3>2, <3>3
      <4>2. QED
        BY <4>1, StatfsExact
    <3>6. result.filesystems = Filesystems(input) /\ result.issues = FilesystemIssues(input)
      BY <2>1, <2>2 DEF Outcome
    <3>7. QED
      BY <3>4, <3>5, <3>6, MountsAreTold
  <2>3. ASSUME reader = "meminfo" PROVE MeminfoIsExact(input.total, input.left)
    BY <2>1, <2>3, MeminfoExact DEF Inputs
  <2>4. ASSUME reader = "pages"
        PROVE  FreeBSDMemoryIsExact(input.pages, input.size, input.free, input.inactive)
    <3>1. input \in [pages: Word, size: Word, free: Word, inactive: Word]
      BY <1>1, <2>1, <2>4 DEF Inputs
    <3>2. QED
      BY <3>1, FreeBSDMemoryExact
  <2>5. ASSUME reader = "swap" PROVE FreeBSDSwapIsExact(input)
    <3>1. input \in SwapInputs
      BY <2>1, <2>5 DEF Inputs
    <3>2. SwapRows \subseteq SwapRow
      BY <1>1 DEF SwapRows, SwapRow
    <3>3. input \in Seq(SwapRow)
      <4>1. /\ <<>> \in Seq(SwapRow)
            /\ \A r \in SwapRow : <<r>> \in Seq(SwapRow)
            /\ \A r, q \in SwapRow : <<r, q>> \in Seq(SwapRow)
        OBVIOUS
      <4>2. \/ input = <<>>
            \/ \E r \in SwapRows : input = <<r>>
            \/ \E r, q \in SwapRows : input = <<r, q>>
        BY <3>1 DEF SwapInputs
      <4>3. QED
        BY <3>2, <4>1, <4>2
    <3>4. QED
      BY <3>3, FreeBSDSwapExact
  <2>6. ASSUME reader = "vram" PROVE VRAMIsExact(input.used, input.total)
    BY <2>1, <2>6, VRAMExact DEF Inputs
  <2>7. QED
    BY <2>2, <2>3, <2>4, <2>5, <2>6 DEF CapacitiesAreExact
<1>3. QED
  BY <1>2, ReadingsAreOfTheInputs, PTL

(* The inputs of the runs are directories.                                 *)
LEMMA MergeIsDirectory ==
  ASSUME NEW d, IsDirectory(d), NEW e, IsDirectory(e)
  PROVE  IsDirectory(Merge(d, e))
BY DEF Merge, IsDirectory

AreDirectories(S) == \A d \in S : IsDirectory(d)

LEMMA OptionalIsDirectory ==
  /\ \A name \in Unsigned, values \in SUBSET Nat : AreDirectories(Optional(name, values))
  /\ \A name \in Signed, values \in SUBSET Int : AreDirectories(Optional(name, values))
<1>1. IsDirectory(<<>>)
  BY DEF IsDirectory
<1>2. ASSUME NEW name \in Unsigned, NEW v \in Nat PROVE IsDirectory([f \in {name} |-> v])
  BY DEF IsDirectory, Unsigned, Signed
<1>3. ASSUME NEW name \in Signed, NEW v \in Int PROVE IsDirectory([f \in {name} |-> v])
  BY DEF IsDirectory, Unsigned, Signed
<1>4. QED
  BY <1>1, <1>2, <1>3 DEF AreDirectories, Optional

LEMMA AllOfAreDirectories ==
  ASSUME NEW S, AreDirectories(S), NEW T, AreDirectories(T)
  PROVE  AreDirectories(AllOf(S, T))
BY MergeIsDirectory DEF AreDirectories, AllOf

LEMMA PacksAreDirectories == AreDirectories(Packs)
<1>1. /\ AreDirectories(Optional("energy_now", {1})) /\ AreDirectories(Optional("energy_full", {0, 2}))
      /\ AreDirectories(Optional("energy_full_design", {0, 4}))
      /\ AreDirectories(Optional("charge_now", {1}))
      /\ AreDirectories(Optional("charge_full", {0, 2}))
      /\ AreDirectories(Optional("charge_full_design", {0, 3}))
      /\ AreDirectories(Optional("voltage_now", {0, 1})) /\ AreDirectories(Optional("capacity", {50}))
  BY OptionalIsDirectory DEF Unsigned
<1>2. AreDirectories(Optional("current_now", {-2}))
  BY OptionalIsDirectory DEF Signed
<1>3. \A S, T : AreDirectories(S) /\ AreDirectories(T) => AreDirectories(AllOf(S, T))
  BY AllOfAreDirectories
<1> DEFINE energy == AllOf(Optional("energy_now", {1}), Optional("energy_full", {0, 2}))
           both == AllOf(Optional("energy_full_design", {0, 4}), Optional("charge_now", {1}))
           charge == AllOf(Optional("charge_full", {0, 2}), Optional("charge_full_design", {0, 3}))
           other == AllOf(Optional("voltage_now", {0, 1}), Optional("capacity", {50}))
<1>4. AreDirectories(energy) /\ AreDirectories(both) /\ AreDirectories(charge) /\ AreDirectories(other)
  BY <1>1, <1>3
<1> HIDE DEF energy, both, charge, other
<1>5. AreDirectories(AllOf(AllOf(AllOf(energy, both), AllOf(charge, other)),
                           Optional("current_now", {-2})))
  <2>1. AreDirectories(AllOf(energy, both)) /\ AreDirectories(AllOf(charge, other))
    BY <1>3, <1>4
  <2>2. AreDirectories(AllOf(AllOf(energy, both), AllOf(charge, other)))
    BY <1>3, <2>1
  <2>3. QED
    BY <1>2, <1>3, <2>2
<1>6. IsDirectory([type |-> "Battery", status |-> "discharging"])
  BY DEF IsDirectory, Unsigned, Signed
<1>7. QED
  BY <1>5, <1>6, MergeIsDirectory DEF Packs, AreDirectories, energy, both, charge, other

LEMMA SuppliesOfRunsAreDirectories == AreDirectories(SystemSupplies \cup OtherSupplies)
<1>1. AreDirectories(Sources)
  <2>1. IsDirectory([energy_now |-> 1, energy_full |-> 2]) /\ IsDirectory([energy_now |-> 3, energy_full |-> 2])
    BY DEF IsDirectory, Unsigned, Signed
  <2>2. IsDirectory([energy_now |-> 3, capacity |-> 10]) /\ IsDirectory([capacity |-> 50])
    BY DEF IsDirectory, Unsigned, Signed
  <2>3. /\ IsDirectory([charge_now |-> 1, charge_full |-> 4, voltage_now |-> 1])
        /\ IsDirectory([charge_now |-> 3, charge_full |-> 3])
    BY DEF IsDirectory, Unsigned, Signed
  <2>4. IsDirectory(<<>>)
    BY DEF IsDirectory
  <2>5. QED
    BY <2>1, <2>2, <2>3, <2>4 DEF Sources, AreDirectories
<1>2. AreDirectories(Optional("power_now", {-1, 4}))
  BY OptionalIsDirectory DEF Signed
<1>3. ASSUME NEW t PROVE IsDirectory([type |-> "Battery", status |-> t])
  BY DEF IsDirectory, Unsigned, Signed
<1>4. AreDirectories(SystemSupplies)
  <2> SUFFICES ASSUME NEW s \in Sources, NEW w \in Optional("power_now", {-1, 4}), NEW t
               PROVE  IsDirectory(Merge(s, Merge(w, [type |-> "Battery", status |-> t])))
    BY DEF SystemSupplies, AreDirectories
  <2>1. IsDirectory(s) /\ IsDirectory(w)
    BY <1>1, <1>2 DEF AreDirectories
  <2>2. IsDirectory(Merge(w, [type |-> "Battery", status |-> t]))
    BY <1>3, <2>1, MergeIsDirectory
  <2>3. QED
    BY <2>1, <2>2, MergeIsDirectory
<1>5. AreDirectories(OtherSupplies)
  <2>1. IsDirectory([status |-> "full"]) /\ IsDirectory([type |-> "Mains", status |-> "unknown"])
    BY DEF IsDirectory, Unsigned, Signed
  <2>2. IsDirectory([type |-> "Battery", scope |-> "Device", status |-> "discharging", capacity |-> 5])
    BY DEF IsDirectory, Unsigned, Signed
  <2>3. IsDirectory([type |-> "Battery", present |-> 0, status |-> "charging", capacity |-> 5])
    BY DEF IsDirectory, Unsigned, Signed
  <2>4. QED
    BY <2>1, <2>2, <2>3 DEF OtherSupplies, AreDirectories
<1>6. QED
  BY <1>4, <1>5 DEF AreDirectories

LEMMA BatteryInputsAreDirectories ==
  ASSUME NEW dirs \in BatteryInputs
  PROVE  IsFiniteSet(DOMAIN dirs) /\ \A i \in DOMAIN dirs : IsDirectory(dirs[i])
<1> DEFINE All == SystemSupplies \cup OtherSupplies
<1>1. \/ \E p \in Packs : dirs = <<p>>
      \/ \E p, q \in All : dirs = <<p, q>>
  BY DEF BatteryInputs
<1>2. (\A p \in Packs : IsDirectory(p)) /\ (\A p \in All : IsDirectory(p))
  BY PacksAreDirectories, SuppliesOfRunsAreDirectories DEF AreDirectories
<1> HIDE DEF All
<1>3. CASE \E p \in Packs : dirs = <<p>>
  <2>1. DOMAIN dirs = 1..1 /\ \A i \in 1..1 : dirs[i] \in Packs
    BY <1>3
  <2>2. QED
    BY <1>2, <2>1, FewPlaces
<1>4. CASE \E p, q \in All : dirs = <<p, q>>
  <2>1. DOMAIN dirs = 1..2 /\ \A i \in 1..2 : dirs[i] \in All
    BY <1>4
  <2>2. QED
    BY <1>2, <2>1, FewPlaces
<1>5. QED
  BY <1>1, <1>3, <1>4

(* aggregateSupplies and batteryDevice in every run: the charge is between *)
(* those of the packs.                                                     *)
THEOREM ChargesOfRuns == Spec => []BatteryChargeIsBetween
<1>1. ASSUME ReadingInv PROVE BatteryChargeIsBetween
  <2> SUFFICES ASSUME done, reader = "battery" PROVE ChargeIsBetweenThePacks(result)
    BY DEF BatteryChargeIsBetween
  <2>1. result = ReadBattery(input) /\ input \in BatteryInputs
    BY <1>1 DEF ReadingInv, Outcome, Inputs
  <2>2. IsFiniteSet(DOMAIN input) /\ \A i \in DOMAIN input : IsDirectory(input[i])
    BY <2>1, BatteryInputsAreDirectories
  <2>3. QED
    BY <2>1, <2>2, ChargeIsBetween
<1>2. QED
  BY <1>1, ReadingsAreOfTheInputs, PTL

(* ... and so is the time that remains.                                    *)
THEOREM TimesOfRuns == Spec => []BatteryTimeIsBetween
<1>1. ASSUME ReadingInv PROVE BatteryTimeIsBetween
  <2> SUFFICES ASSUME done, reader = "battery" PROVE TimeIsBetweenThePacks(result)
    BY DEF BatteryTimeIsBetween
  <2>1. result = ReadBattery(input) /\ input \in BatteryInputs
    BY <1>1 DEF ReadingInv, Outcome, Inputs
  <2>2. IsFiniteSet(DOMAIN input) /\ \A i \in DOMAIN input : IsDirectory(input[i])
    BY <2>1, BatteryInputsAreDirectories
  <2>3. QED
    BY <2>1, <2>2, TimeIsBetween
<1>2. QED
  BY <1>1, ReadingsAreOfTheInputs, PTL

(* ... and the health of a pack is of one family of files.                 *)
THEOREM HealthsOfRuns == Spec => []BatteryHealthIsOfOneFamily
<1>1. ASSUME ReadingInv PROVE BatteryHealthIsOfOneFamily
  <2> SUFFICES ASSUME done, reader = "battery"
               PROVE  \A i \in DOMAIN input : HealthIsOfOneFamily(input[i])
    BY DEF BatteryHealthIsOfOneFamily
  <2>1. input \in BatteryInputs
    BY <1>1 DEF ReadingInv, Inputs
  <2>2. \A i \in DOMAIN input : IsDirectory(input[i])
    BY <2>1, BatteryInputsAreDirectories
  <2>3. QED
    BY <2>2, HealthOfOneFamily
<1>2. QED
  BY <1>1, ReadingsAreOfTheInputs, PTL

(* readThermal in every run: no live source exceeds the one told.          *)
THEOREM SourcesOfRuns == Spec => []ThermalSourceIsBest
<1> DEFINE All == Sensors \cup Zones
<1>1. \A s \in All : GivesOne(s)
  BY DEF Sensors, Zones, GivesOne
<1> HIDE DEF All
<1>2. ASSUME NEW i \in ThermalInputs PROVE i.sensors \in Seq(All) /\ i.zones \in Seq(All)
  <2>1. /\ <<>> \in Seq(All)
        /\ \A s \in All : <<s>> \in Seq(All)
        /\ \A s, t \in All : <<s, t>> \in Seq(All)
        /\ \A s, t, u \in All : <<s, t, u>> \in Seq(All)
    OBVIOUS
  <2>2. Sensors \subseteq All /\ FewSensors \subseteq All /\ Zones \subseteq All
    BY DEF All, FewSensors
  <2>3. \/ /\ \/ \E s, t \in Sensors : i.sensors = <<s, t>>
              \/ \E s, t, u \in FewSensors : i.sensors = <<s, t, u>>
           /\ i.zones = <<>>
        \/ /\ i.sensors = <<>> \/ \E s \in Sensors : i.sensors = <<s>>
           /\ i.zones \in ZoneSeqs
    BY DEF ThermalInputs
  <2>4. i.sensors \in Seq(All)
    BY <2>1, <2>2, <2>3
  <2>5. ASSUME NEW z \in ZoneSeqs PROVE z \in Seq(All)
    <3>1. z = <<>> \/ (\E s \in Zones : z = <<s>>) \/ (\E s, t \in Zones : z = <<s, t>>)
      BY DEF ZoneSeqs
    <3>2. QED
      BY <2>1, <2>2, <3>1
  <2>6. QED
    BY <2>1, <2>3, <2>4, <2>5
<1>3. ASSUME ReadingInv PROVE ThermalSourceIsBest
  <2> SUFFICES ASSUME done, reader = "thermal"
               PROVE  BestSourceIsTold(input.sensors, input.zones, result.best)
    BY DEF ThermalSourceIsBest
  <2>1. result = ReadThermal(input.sensors, input.zones) /\ input \in ThermalInputs
    BY <1>3 DEF ReadingInv, Outcome, Inputs
  <2>2. QED
    BY <1>1, <1>2, <2>1, SourceIsBest
<1>4. QED
  BY <1>3, ReadingsAreOfTheInputs, PTL

(* readGPUs in every run: no reading is of another card, and none is lost. *)
THEOREM CardsOfRuns == Spec => []CardReadingsAreItsOwn
<1> DEFINE All == Cards \cup OtherCards
<1>1. \A c \in All : /\ c.vendor \in SUBSET Int /\ c.device \in SUBSET Int
                     /\ "vendor" \in DOMAIN c /\ "device" \in DOMAIN c
  BY DEF Cards, OtherCards, Nvidia
<1>2. ASSUME NEW n, NEW c \in All
      PROVE  LET card == Merge([name |-> n], c)
             IN card.name = n /\ card.vendor = c.vendor /\ card.device = c.device
  BY <1>1 DEF Merge
<1> HIDE DEF All
<1>3. ASSUME NEW i \in GPUInputs
      PROVE  /\ \/ \E c \in All : i.cards = Named(<<c>>)
                \/ \E c, d \in All : i.cards = Named(<<c, d>>)
             /\ i.smi \in SUBSET Seq(Rows)
  <2>1. /\ \A r \in Rows : <<r>> \in Seq(Rows)
        /\ \A r, q \in Rows : <<r, q>> \in Seq(Rows)
    OBVIOUS
  <2>2. CASE i \in OneCardInputs
    <3>1. \E c \in All : i.cards = Named(<<c>>)
      BY <2>2 DEF All, OneCardInputs
    <3>2. i.smi = {} \/ \E r, q \in Rows : i.smi = {<<r, q>>}
      BY <2>2 DEF OneCardInputs
    <3>3. QED
      BY <2>1, <3>1, <3>2
  <2>3. CASE i \in TwoCardInputs
    <3>1. PICK c \in OtherCards \cup QuietCards, d \in OtherCards \cup QuietCards :
            i.cards = Named(<<c, d>>)
      <4>1. i.cards \in Pairs
        BY <2>3 DEF TwoCardInputs
      <4>2. QED
        BY <4>1 DEF Pairs
    <3>2. c \in All /\ d \in All
      BY DEF All, QuietCards
    <3>3. i.smi = {} \/ \E r \in Rows : i.smi = {<<r>>}
      BY <2>3 DEF TwoCardInputs
    <3>4. QED
      BY <2>1, <3>1, <3>2, <3>3
  <2>4. QED
    BY <2>2, <2>3 DEF GPUInputs
<1>4. ASSUME NEW i \in GPUInputs
      PROVE  /\ IsFiniteSet(DOMAIN i.cards)
             /\ \A n \in DOMAIN i.cards : /\ i.cards[n].vendor \in SUBSET Int
                                          /\ i.cards[n].device \in SUBSET Int
                                          /\ i.cards[n].name = n /\ n \in Int
  <2>1. PICK S, f : /\ i.cards = Named(f) /\ DOMAIN f = S /\ S \in {1..1, 1..2}
                    /\ \A n \in S : f[n] \in All
    <3>1. CASE \E c \in All : i.cards = Named(<<c>>)
      <4>1. PICK c \in All : i.cards = Named(<<c>>)
        BY <3>1
      <4> DEFINE f == <<c>>
      <4>2. i.cards = Named(f) /\ DOMAIN f = 1..1 /\ \A n \in 1..1 : f[n] \in All
        BY <4>1
      <4> HIDE DEF f
      <4>3. QED
        BY <4>2
    <3>2. CASE \E c, d \in All : i.cards = Named(<<c, d>>)
      <4>1. PICK c \in All, d \in All : i.cards = Named(<<c, d>>)
        BY <3>2
      <4> DEFINE f == <<c, d>>
      <4>2. i.cards = Named(f) /\ DOMAIN f = 1..2 /\ \A n \in 1..2 : f[n] \in All
        BY <4>1
      <4> HIDE DEF f
      <4>3. QED
        BY <4>2
    <3>3. QED
      BY <1>3, <3>1, <3>2
  <2>2. DOMAIN i.cards = S /\ \A n \in S : i.cards[n] = Merge([name |-> n], f[n])
    BY <2>1 DEF Named
  <2>3. IsFiniteSet(S) /\ \A n \in S : n \in Int
    BY <2>1, FewPlaces
  <2>4. ASSUME NEW n \in S
        PROVE  /\ i.cards[n].vendor \in SUBSET Int /\ i.cards[n].device \in SUBSET Int
               /\ i.cards[n].name = n /\ n \in Int
    <3>1. f[n] \in All /\ i.cards[n] = Merge([name |-> n], f[n])
      BY <2>1, <2>2
    <3>2. i.cards[n].name = n /\ i.cards[n].vendor = f[n].vendor /\ i.cards[n].device = f[n].device
      BY <1>2, <3>1
    <3>3. f[n].vendor \in SUBSET Int /\ f[n].device \in SUBSET Int
      BY <1>1, <3>1
    <3>4. QED
      BY <2>3, <3>2, <3>3
  <2>5. QED
    BY <2>2, <2>3, <2>4
<1>5. ASSUME ReadingInv PROVE CardReadingsAreItsOwn
  <2> SUFFICES ASSUME done, reader = "gpu"
               PROVE  ReadingsAreOfTheCard(input.cards, input.smi, result)
    BY DEF CardReadingsAreItsOwn
  <2>1. result = ReadGPUs(input.cards, input.smi) /\ input \in GPUInputs
    BY <1>5 DEF ReadingInv, Outcome, Inputs
  <2> DEFINE cards == input.cards
             smi == input.smi
  <2>2. /\ IsFiniteSet(DOMAIN cards)
        /\ \A i \in DOMAIN cards : /\ cards[i].vendor \in SUBSET Int /\ cards[i].device \in SUBSET Int
                                   /\ cards[i].name \in Int
        /\ \A i, k \in DOMAIN cards : cards[i].name = cards[k].name => i = k
        /\ smi \in SUBSET Seq(Rows)
    BY <1>3, <1>4, <2>1
  <2>3. result = ReadGPUs(cards, smi)
    BY <2>1
  <2> HIDE DEF cards, smi
  <2>4. ReadingsAreOfTheCard(cards, smi, result)
    BY <2>2, <2>3, CardsReadTheirOwn
  <2>5. QED
    BY <2>4 DEF cards, smi
<1>6. QED
  BY <1>5, ReadingsAreOfTheInputs, PTL
=============================================================================
