---------------------------- MODULE RateSampler ----------------------------
(***************************************************************************)
(* The baselines of the samplers that turn counters into rates:            *)
(* NetworkSampler, BlockSampler and CPUSampler on Linux, CPUSampler on     *)
(* FreeBSD.  A table lists entities by name (interfaces, disks, cores),    *)
(* the identity under which an entity is remembered is an ifindex, a       *)
(* major:minor pair or the number of a core.  /proc/net/dev has no         *)
(* ifindex: the network sampler reads it from sysfs afterwards, name by    *)
(* name, while interfaces are renamed, removed and created.                *)
(*                                                                         *)
(* One counter stands for all counters of an entity; what the samplers     *)
(* compute from a pair of readings is in Counters.  Of the clock they only *)
(* use whether it moved since the baseline.                                *)
(***************************************************************************)
EXTENDS Naturals

CONSTANTS
  MaxName,     \* how many names of entities there are
  Ids,         \* the identities, numbers other than 0
  MaxCount     \* bound: the largest counter

ASSUME RateConstants ==
  MaxName \in Nat /\ Ids \subseteq Nat \ {0} /\ MaxCount \in Nat

(* Numbers, so that the names have an order.                               *)
Names == 1..MaxName

VARIABLES
  kind,        \* which sampler this is
  names,       \* the entity that has a name now, 0 for none
  counter,     \* the counter of every entity now
  used,        \* the identities that have been given out
  pc,
  rows,        \* the table that was read, by name
  index,       \* the identities found for its rows
  sampled,     \* ~s.previousAt.IsZero(), s.previous != nil
  previous,    \* s.previous: the baseline by identity
  rates,       \* the valid rates of the last sample, by name
  (* History: whether names moved while the indexes were read, the         *)
  (* identities of the last sample, and the counter up to which the rates  *)
  (* of an identity have been told.                                        *)
  torn, seen, told

Kinds == {"network", "block", "cpu", "freebsd"}

kernelVars == <<names, counter, used>>
vars == <<kind, kernelVars, pc, rows, index, sampled, previous, rates, torn, seen, told>>

Nothing == [x \in {} |-> 0]
Here == {n \in Names : names[n] # 0}

---------------------------------------------------------------------------
(* The kernel.                                                             *)

Count(id) ==
  /\ \E n \in Names : names[n] = id
  /\ counter[id] < MaxCount
  /\ counter' = [counter EXCEPT ![id] = @ + 1]
  /\ UNCHANGED <<names, used, torn>>

(* A driver clears the counters of a device that stays.                    *)
Clear(id) ==
  /\ \E n \in Names : names[n] = id
  /\ counter[id] > 0
  /\ counter' = [counter EXCEPT ![id] = 0]
  /\ UNCHANGED <<names, used, torn>>

Moves == torn' = (torn \/ pc = "index")

(* An ifindex is given out once.  A major:minor pair comes back with a new *)
(* disk, a core with the counters it had.                                  *)
Appear(n, id) ==
  /\ names[n] = 0 /\ \A m \in Names : names[m] # id
  /\ kind = "network" => id \notin used
  /\ names' = [names EXCEPT ![n] = id]
  /\ used' = used \cup {id}
  /\ counter' = IF kind \in {"cpu", "freebsd"} THEN counter ELSE [counter EXCEPT ![id] = 0]
  /\ Moves

Vanish(n) ==
  /\ names[n] # 0
  /\ names' = [names EXCEPT ![n] = 0]
  /\ UNCHANGED <<counter, used>>
  /\ Moves

Rename(n, m) ==
  /\ kind = "network" /\ names[n] # 0 /\ names[m] = 0
  /\ names' = [names EXCEPT ![n] = 0, ![m] = names[n]]
  /\ UNCHANGED <<counter, used>>
  /\ Moves

Kernel ==
  /\ \/ \E id \in Ids : Count(id) \/ Clear(id)
     \/ \E n \in Names, id \in Ids : Appear(n, id)
     \/ \E n \in Names : Vanish(n)
     \/ \E n, m \in Names : Rename(n, m)
  /\ UNCHANGED <<kind, pc, rows, index, sampled, previous, rates, seen, told>>

---------------------------------------------------------------------------
(* The samplers.                                                           *)

(* The table is read in one go.  Rows of disks and cores carry their       *)
(* identity.                                                               *)
ReadTable ==
  /\ pc = "idle"
  /\ rows' = [n \in Here |-> [count |-> counter[names[n]], of |-> names[n]]]
  /\ index' = IF kind = "network" THEN Nothing ELSE [n \in Here |-> names[n]]
  /\ torn' = FALSE
  /\ rates' = Nothing
  /\ pc' = "index"
  /\ UNCHANGED <<kind, kernelVars, sampled, previous, seen, told>>

(* Slip: the place of a row stands in for an ifindex that cannot be read.  *)
ReadIndexOrPlace(n, readable) ==
  /\ pc = "index" /\ n \in DOMAIN rows \ DOMAIN index
  /\ index' = [m \in DOMAIN index \cup {n} |->
                 IF m # n THEN index[m] ELSE IF readable THEN names[n] ELSE n]
  /\ UNCHANGED <<kind, kernelVars, pc, rows, sampled, previous, rates, torn, seen, told>>

(* readNetwork: the ifindex of a row.  Without one the row stays, with     *)
(* index 0.                                                                *)
ReadIndex(n, readable) ==
  /\ pc = "index" /\ n \in DOMAIN rows \ DOMAIN index
  /\ index' = [m \in DOMAIN index \cup {n} |->
                 IF m # n THEN index[m] ELSE IF readable THEN names[n] ELSE 0]
  /\ UNCHANGED <<kind, kernelVars, pc, rows, sampled, previous, rates, torn, seen, told>>

(* The identities of this sample, and the row whose counters stay for one: *)
(* the last by name.                                                       *)
Indexed == {index[n] : n \in DOMAIN index} \ {0}
RowOf(id) == CHOOSE n \in DOMAIN index :
               index[n] = id /\ \A m \in DOMAIN index : index[m] = id => m <= n
Current == [id \in Indexed |-> [count |-> rows[RowOf(id)].count, of |-> rows[RowOf(id)].of,
                                torn |-> torn]]
Kept == [id \in Indexed \cap DOMAIN previous |-> previous[id]]

(* Slip: counters are taken to go forward.                                 *)
ComparableAlways == {n \in DOMAIN rows : index[n] \in DOMAIN previous}

(* networkRates, blockRates, cpuUsage, freebsdUsage: a counter that went   *)
(* back gives no rate.                                                     *)
Comparable == {n \in DOMAIN rows : index[n] \in DOMAIN previous
                                   /\ rows[n].count >= previous[index[n]].count}
Rates == [n \in Comparable |->
            [delta |-> rows[n].count - previous[index[n]].count,
             from |-> previous[index[n]].of, to |-> rows[n].of,
             torn |-> torn \/ previous[index[n]].torn]]

(* Slip: a sample with no elapsed time replaces the counters all the same. *)
SampleNetworkAlways(elapsed) ==
  /\ rates' = IF sampled /\ elapsed THEN Rates ELSE Nothing
  /\ previous' = Current

(* sampleNetwork.                                                          *)
SampleNetwork(elapsed) ==
  /\ rates' = IF sampled /\ elapsed THEN Rates ELSE Nothing
  /\ previous' = IF ~sampled \/ elapsed THEN Current ELSE Kept

(* Slip: a disk that is not in the table keeps its counters.               *)
SampleBlockKeeping(elapsed) ==
  /\ rates' = IF sampled /\ elapsed THEN Rates ELSE Nothing
  /\ previous' = IF ~sampled \/ elapsed
                 THEN [id \in DOMAIN previous \cup Indexed |->
                         IF id \in Indexed THEN Current[id] ELSE previous[id]]
                 ELSE Kept

(* sampleBlock.                                                            *)
SampleBlock(elapsed) ==
  /\ rates' = IF sampled /\ elapsed THEN Rates ELSE Nothing
  /\ previous' = IF ~sampled \/ elapsed THEN Current ELSE Kept

(* sampleCPU on Linux, for the cores; the aggregate is one that never      *)
(* vanishes.                                                               *)
SampleCPU(elapsed) ==
  /\ rates' = IF sampled /\ elapsed THEN Rates ELSE Nothing
  /\ previous' = IF ~sampled \/ elapsed THEN Current ELSE Kept

(* sampleCPU on FreeBSD: there is no test of the clock.                    *)
SampleFreeBSD ==
  /\ rates' = IF sampled THEN Rates ELSE Nothing
  /\ previous' = Current

(* History: what the rates told so far add up to.                          *)
Tell(elapsed) ==
  LET based == ~sampled \/ elapsed
  IN told' = [id \in Indexed \cap (IF based THEN Ids ELSE DOMAIN told) |->
       IF RowOf(id) \in DOMAIN rates' /\ id \in DOMAIN told
       THEN told[id] + rates'[RowOf(id)].delta
       ELSE IF based THEN rows[RowOf(id)].count
       ELSE told[id]]

(* The sample is complete.  at.Sub(previousAt) is positive or not.         *)
Commit(elapsed) ==
  /\ pc = "index" /\ DOMAIN index = DOMAIN rows
  /\ kind = "network" => SampleNetwork(elapsed)
  /\ kind = "block" => SampleBlock(elapsed)
  /\ kind = "cpu" => SampleCPU(elapsed)
  /\ kind = "freebsd" => SampleFreeBSD /\ elapsed
  /\ sampled' = TRUE
  /\ seen' = Indexed
  /\ Tell(elapsed)
  /\ pc' = "idle" /\ rows' = Nothing /\ index' = Nothing
  /\ UNCHANGED <<kind, kernelVars, torn>>

(* The table cannot be opened or parsed: the baseline stays.               *)
Fail ==
  /\ pc = "index"
  /\ pc' = "idle" /\ rows' = Nothing /\ index' = Nothing
  /\ UNCHANGED <<kind, kernelVars, sampled, previous, rates, torn, seen, told>>

Init ==
  /\ kind \in Kinds
  /\ names = [n \in Names |-> 0] /\ counter = [id \in Ids |-> 0] /\ used = {}
  /\ pc = "idle" /\ rows = Nothing /\ index = Nothing
  /\ sampled = FALSE /\ previous = Nothing /\ rates = Nothing
  /\ torn = FALSE /\ seen = {} /\ told = Nothing

Next ==
  \/ Kernel
  \/ ReadTable
  \/ \E n \in Names, readable \in BOOLEAN : ReadIndex(n, readable)
  \/ \E elapsed \in BOOLEAN : Commit(elapsed)
  \/ Fail

Spec == Init /\ [][Next]_vars

---------------------------------------------------------------------------
(* Properties.                                                             *)

Reading == [count: 0..MaxCount, of: Ids, torn: BOOLEAN]

TypeOK ==
  /\ kind \in Kinds
  /\ names \in [Names -> Ids \cup {0}] /\ counter \in [Ids -> 0..MaxCount]
  /\ used \subseteq Ids
  /\ pc \in {"idle", "index"}
  /\ DOMAIN rows \subseteq Names
  /\ \A n \in DOMAIN rows : rows[n] \in [count: 0..MaxCount, of: Ids]
  /\ DOMAIN index \subseteq DOMAIN rows /\ \A n \in DOMAIN index : index[n] \in Ids \cup {0}
  /\ sampled \in BOOLEAN /\ torn \in BOOLEAN
  /\ DOMAIN previous \subseteq Ids /\ \A id \in DOMAIN previous : previous[id] \in Reading
  /\ DOMAIN rates \subseteq Names
  /\ \A n \in DOMAIN rates :
       rates[n] \in [delta: 0..MaxCount, from: Ids, to: Ids, torn: BOOLEAN]
  /\ seen \subseteq Ids
  /\ DOMAIN told \subseteq Ids /\ \A id \in DOMAIN told : told[id] \in 0..MaxCount

(* The rates told for an identity since it was first seen, or since its    *)
(* counter went back, add up to what the counter moved until the baseline: *)
(* a sample with no elapsed time and a failed one lose and repeat nothing. *)
RatesAddUp ==
  /\ DOMAIN previous = DOMAIN told
  /\ \A id \in DOMAIN told : previous[id].count = told[id]

(* An entity that is missing from a sample has no rate in the next one.    *)
NoRateAcrossAGap ==
  [][\A elapsed \in BOOLEAN : Commit(elapsed) =>
       \A n \in DOMAIN rates' : index[n] \in seen]_vars

(* Both counters of a rate are of one interface or disk, unless names      *)
(* moved between the table and an ifindex, in this sample or in the one    *)
(* that is its baseline (readNetwork).                                     *)
MixedRateNeedsAMove ==
  \A n \in DOMAIN rates : rates[n].from = rates[n].to \/ rates[n].torn
=============================================================================
