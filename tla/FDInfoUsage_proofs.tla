-------------------------- MODULE FDInfoUsage_proofs --------------------------
(***************************************************************************)
(* What two walks over the DRM clients tell is backed by work that was     *)
(* done, and misses none of the work of the clients that stayed, for any   *)
(* clients, engine classes and instances, and however long it takes.       *)
(*                                                                         *)
(* The first part is about what the state says of the readings.  The       *)
(* argument for UsageIsBacked is a potential: what a class' clients gained *)
(* since they were read never exceeds the work of the class.  The argument *)
(* for SteadyWorkCounts is that a client that stays is in both walks, with *)
(* the work between them between its readings.  The second part is about   *)
(* fractions: how the largest share stands to the others.                  *)
(***************************************************************************)
EXTENDS FDInfoUsage, Sums_proofs, TLAPS

(* The counters by which work is measured.                                 *)
Meters == {"busy", "cycles"}

Counts(g) == DOMAIN g \subseteq Classes /\ \A k \in DOMAIN g : g[k] \in Nat

(* What a driver publishes.                                                *)
IsReading(r) ==
  /\ \A f \in Meters \cup {"total"} : Counts(r[f])
  /\ DOMAIN r["total"] = DOMAIN r["cycles"]
  /\ DOMAIN r["busy"] = {} <=> driver = "cycles"
  /\ DOMAIN r["cycles"] = {} <=> driver = "time"
  /\ driver = "both" => DOMAIN r["busy"] = DOMAIN r["cycles"]

UsageTyped ==
  /\ driver \in {"time", "cycles", "both"} /\ now \in Nat
  /\ work \in [Clients -> [Classes -> Nat]] /\ shown \in [Clients -> SUBSET Classes]
  /\ readable \in SUBSET Clients
  /\ walk \in {1, 2, 3} /\ unread \in SUBSET Clients
  /\ readings = [w \in {1, 2} |-> readings[w]]
  /\ \A w \in {1, 2} : /\ DOMAIN readings[w] \subseteq Clients
                       /\ \A c \in DOMAIN readings[w] : IsReading(readings[w][c])
  /\ readAt \in [{1, 2} -> Nat] /\ began \in [{1, 2} -> Nat]
  /\ workBegun \in [Classes -> Nat] /\ workBetween \in [Clients -> [Classes -> Nat]]
  /\ steady \in SUBSET Clients

(* A walk finds nobody whom it has not read.                               *)
Phases ==
  /\ walk = 1 => DOMAIN readings[2] = {} /\ unread \cap DOMAIN readings[1] = {}
  /\ walk = 2 => unread \cap DOMAIN readings[2] = {}
  /\ walk = 3 => unread = {}

(* The clocks of the clients are read between the beginning and the end of *)
(* a walk.                                                                 *)
ClocksInOrder ==
  /\ began[1] = 0 /\ readAt[1] <= now
  /\ walk > 1 => readAt[1] <= began[2] /\ began[2] <= now
  /\ walk = 3 => began[2] <= readAt[2] /\ readAt[2] <= now
  /\ \A c \in DOMAIN readings[1] : \A k \in DOMAIN readings[1][c]["total"] :
       readings[1][c]["total"][k] <= IF walk = 1 /\ Walking THEN now ELSE readAt[1]
  /\ \A c \in DOMAIN readings[2] : \A k \in DOMAIN readings[2][c]["total"] :
       /\ began[2] <= readings[2][c]["total"][k]
       /\ readings[2][c]["total"][k] <= IF walk = 3 THEN readAt[2] ELSE now

TInv == UsageTyped /\ Phases /\ ClocksInOrder

(* What is read of a client.                                               *)
LEMMA PublishedForm ==
  ASSUME UsageTyped, NEW c \in Clients, shown[c] # {}
  PROVE  /\ IsReading(Published(c))
         /\ \A f \in Meters : \A k \in DOMAIN Published(c)[f] :
              k \in shown[c] /\ Published(c)[f][k] = work[c][k]
         /\ \A k \in DOMAIN Published(c)["total"] : Published(c)["total"][k] = now
         /\ driver # "cycles" => DOMAIN Published(c)["busy"] = shown[c]
         /\ driver # "time" => DOMAIN Published(c)["cycles"] = shown[c]
<1> DEFINE r == Published(c)
<1>1. /\ r["busy"] = [k \in IF driver = "cycles" THEN {} ELSE shown[c] |-> work[c][k]]
      /\ r["cycles"] = [k \in IF driver = "time" THEN {} ELSE shown[c] |-> work[c][k]]
      /\ r["total"] = [k \in IF driver = "time" THEN {} ELSE shown[c] |-> now]
  BY DEF Published
<1> HIDE DEF r
<1>2. shown[c] \subseteq Classes /\ now \in Nat /\ \A k \in Classes : work[c][k] \in Nat
  BY DEF UsageTyped
<1>3. driver \in {"time", "cycles", "both"}
  BY DEF UsageTyped
<1>4. Counts(r["busy"]) /\ Counts(r["cycles"]) /\ Counts(r["total"])
  BY <1>1, <1>2 DEF Counts
<1>5. /\ DOMAIN r["busy"] = IF driver = "cycles" THEN {} ELSE shown[c]
      /\ DOMAIN r["cycles"] = IF driver = "time" THEN {} ELSE shown[c]
      /\ DOMAIN r["total"] = IF driver = "time" THEN {} ELSE shown[c]
  BY <1>1
<1>6. IsReading(r)
  BY <1>3, <1>4, <1>5 DEF IsReading, Meters
<1>7. \A f \in Meters : \A k \in DOMAIN r[f] : k \in shown[c] /\ r[f][k] = work[c][k]
  BY <1>1, <1>5 DEF Meters
<1>8. \A k \in DOMAIN r["total"] : r["total"][k] = now
  BY <1>1
<1> QED BY <1>5, <1>6, <1>7, <1>8 DEF r

(* What a walk knows after it read a client: nothing new, or what the      *)
(* client publishes.                                                       *)
LEMMA ReadClientReads ==
  ASSUME UsageTyped, Phases, NEW c \in Clients, ReadClient(c)
  PROVE  /\ walk \in {1, 2} /\ readings' = [w \in {1, 2} |-> readings'[w]]
         /\ \A w \in {1, 2} : w # walk => readings'[w] = readings[w]
         /\ c \notin DOMAIN readings[walk]
         /\ IF c \in readable /\ shown[c] # {}
            THEN /\ DOMAIN readings'[walk] = DOMAIN readings[walk] \cup {c}
                 /\ readings'[walk][c] = Published(c)
                 /\ \A d \in DOMAIN readings[walk] : readings'[walk][d] = readings[walk][d]
            ELSE readings' = readings
<1>1. walk \in {1, 2} /\ c \notin DOMAIN readings[walk]
  BY DEF ReadClient, UsageTyped, Phases
<1>2. readings = [w \in {1, 2} |-> readings[w]]
  BY DEF UsageTyped
<1>3. CASE c \in readable /\ shown[c] # {}
  <2> DEFINE new == [d \in DOMAIN readings[walk] \cup {c} |->
                       IF d = c THEN Published(c) ELSE readings[walk][d]]
  <2>1. readings' = [readings EXCEPT ![walk] = new]
    BY <1>3 DEF ReadClient
  <2>2. /\ DOMAIN new = DOMAIN readings[walk] \cup {c} /\ new[c] = Published(c)
        /\ \A d \in DOMAIN readings[walk] : new[d] = readings[walk][d]
    BY <1>1
  <2> HIDE DEF new
  <2>3. /\ readings' = [w \in {1, 2} |-> readings'[w]]
        /\ \A w \in {1, 2} : w # walk => readings'[w] = readings[w]
        /\ readings'[walk] = new
    BY <1>1, <1>2, <2>1
  <2> QED BY <1>1, <1>3, <2>2, <2>3
<1>4. CASE ~(c \in readable /\ shown[c] # {})
  <2>1. readings' = readings
    BY <1>4 DEF ReadClient
  <2> QED BY <1>1, <1>2, <1>4, <2>1
<1> QED BY <1>3, <1>4

---------------------------------------------------------------------------
(* Types, phases and times.                                                *)

(* What the clients do, as opposed to the walks.                           *)
ClientStep ==
  \/ \E f \in [Classes -> SUBSET Clients] :
       (\A k \in Classes : Cardinality(f[k]) <= Instances[k]) /\ Work(f)
  \/ \E c \in Clients : Replace(c) \/ BecomeReadable(c)
  \/ \E c \in Clients, k \in Classes : Publish(c, k)

walkVars == <<driver, walk, unread, readings, readAt, began>>

(* The clients leave the walks alone, and time never goes back.            *)
LEMMA ClientsLeaveWalks ==
  ASSUME UsageTyped, ClientStep
  PROVE  UNCHANGED walkVars /\ now <= now' /\ (walk < 3 \/ now' = now) /\ UsageTyped'
<1> USE DEF walkVars
<1>1. ASSUME UNCHANGED walkVars
      PROVE  \A w \in {1, 2} : /\ DOMAIN readings'[w] \subseteq Clients
                               /\ \A c \in DOMAIN readings'[w] : IsReading(readings[w][c])'
  BY <1>1 DEF UsageTyped, IsReading
<1>2. /\ \A k \in Classes, c \in Clients : work[c][k] \in Nat /\ workBetween[c][k] \in Nat
      /\ \A k \in Classes : workBegun[k] \in Nat
  BY DEF UsageTyped
<1>3. ASSUME NEW f \in [Classes -> SUBSET Clients], Work(f)
      PROVE  UNCHANGED walkVars /\ now <= now' /\ (walk < 3 \/ now' = now) /\ UsageTyped'
  <2>1. UNCHANGED walkVars /\ now' = now + 1 /\ walk < 3
    BY <1>3 DEF Work
  <2>2. \A k \in Classes : Cardinality(f[k]) \in Nat
    BY UsageConstants, FS_Subset, FS_CardinalityType
  <2>3. work' \in [Clients -> [Classes -> Nat]]
    BY <1>2, <1>3 DEF Work
  <2>4. workBegun' \in [Classes -> Nat]
    BY <1>2, <1>3, <2>2 DEF Work
  <2>5. workBetween' \in [Clients -> [Classes -> Nat]]
    BY <1>2, <1>3 DEF Work
  <2>6. UNCHANGED <<shown, readable, steady>>
    BY <1>3 DEF Work
  <2> QED BY <1>1, <2>1, <2>3, <2>4, <2>5, <2>6 DEF UsageTyped
<1>4. ASSUME NEW c \in Clients, NEW k \in Classes, Publish(c, k)
      PROVE  UNCHANGED walkVars /\ now <= now' /\ (walk < 3 \/ now' = now) /\ UsageTyped'
  <2>1. UNCHANGED walkVars /\ now' = now
    BY <1>4 DEF Publish
  <2>2. shown' \in [Clients -> SUBSET Classes]
    BY <1>4 DEF Publish, UsageTyped
  <2>3. UNCHANGED <<work, readable, steady, workBegun, workBetween>>
    BY <1>4 DEF Publish
  <2> QED BY <1>1, <2>1, <2>2, <2>3 DEF UsageTyped
<1>5. ASSUME NEW c \in Clients, Replace(c)
      PROVE  UNCHANGED walkVars /\ now <= now' /\ (walk < 3 \/ now' = now) /\ UsageTyped'
  <2>1. UNCHANGED walkVars /\ now' = now
    BY <1>5 DEF Replace
  <2>2. /\ shown' \in [Clients -> SUBSET Classes]
        /\ work' \in [Clients -> [Classes -> Nat]]
        /\ workBetween' \in [Clients -> [Classes -> Nat]]
        /\ readable' \in SUBSET Clients /\ steady' \in SUBSET Clients
        /\ workBegun' = workBegun
    BY <1>5 DEF Replace, UsageTyped
  <2> QED BY <1>1, <2>1, <2>2 DEF UsageTyped
<1>6. ASSUME NEW c \in Clients, BecomeReadable(c)
      PROVE  UNCHANGED walkVars /\ now <= now' /\ (walk < 3 \/ now' = now) /\ UsageTyped'
  <2>1. UNCHANGED walkVars /\ now' = now
    BY <1>6 DEF BecomeReadable
  <2>2. readable' \in SUBSET Clients
    BY <1>6 DEF BecomeReadable, UsageTyped
  <2>3. UNCHANGED <<work, shown, steady, workBegun, workBetween>>
    BY <1>6 DEF BecomeReadable
  <2> QED BY <1>1, <2>1, <2>2, <2>3 DEF UsageTyped
<1> QED BY <1>3, <1>4, <1>5, <1>6 DEF ClientStep

LEMMA UsageStepsAre ==
  UsageNext <=> ClientStep \/ BeginSecondWalk \/ \E c \in Clients : ReadClient(c)
BY DEF UsageNext, ClientStep

LEMMA UsageStarts == UsageInit => TInv
<1> SUFFICES ASSUME UsageInit PROVE TInv
  OBVIOUS
<1>1. /\ readings = [w \in {1, 2} |-> NoReadings] /\ DOMAIN NoReadings = {}
      /\ readAt = [w \in {1, 2} |-> 0] /\ began = [w \in {1, 2} |-> 0]
      /\ now = 0 /\ walk = 1 /\ unread = Clients
  BY DEF UsageInit, NoReadings
<1>2. DOMAIN readings[1] = {} /\ DOMAIN readings[2] = {}
  BY <1>1
<1>3. /\ work \in [Clients -> [Classes -> Nat]] /\ shown \in [Clients -> SUBSET Classes]
      /\ workBegun \in [Classes -> Nat] /\ workBetween \in [Clients -> [Classes -> Nat]]
      /\ readable \in SUBSET Clients /\ steady = readable
      /\ driver \in {"time", "cycles", "both"}
  BY DEF UsageInit
<1>4. UsageTyped
  BY <1>1, <1>2, <1>3 DEF UsageTyped
<1>5. Phases /\ ClocksInOrder
  BY <1>1, <1>2 DEF Phases, ClocksInOrder
<1> QED BY <1>4, <1>5 DEF TInv

LEMMA TimesPreserved == TInv /\ [UsageNext]_usageVars => TInv'
<1> SUFFICES ASSUME TInv, [UsageNext]_usageVars PROVE TInv'
  OBVIOUS
<1>1. UsageTyped /\ Phases /\ ClocksInOrder
  BY DEF TInv
<1>2. now \in Nat /\ walk \in {1, 2, 3} /\ readAt \in [{1, 2} -> Nat] /\ began \in [{1, 2} -> Nat]
  BY <1>1 DEF UsageTyped
<1>3. \A w \in {1, 2} : \A c \in DOMAIN readings[w] : \A k \in DOMAIN readings[w][c]["total"] :
        readings[w][c]["total"][k] \in Nat
  BY <1>1 DEF UsageTyped, IsReading, Counts
<1>4. CASE ClientStep
  <2>1. UNCHANGED walkVars /\ now <= now' /\ (walk < 3 \/ now' = now) /\ UsageTyped'
    BY <1>1, <1>4, ClientsLeaveWalks
  <2>2. Phases'
    BY <1>1, <2>1 DEF Phases, walkVars
  <2>3. now' \in Nat
    BY <2>1 DEF UsageTyped
  <2>4. ClocksInOrder'
    BY <1>1, <1>2, <1>3, <2>1, <2>3 DEF ClocksInOrder, walkVars, Walking
  <2> QED BY <2>1, <2>2, <2>4 DEF TInv
<1>5. CASE BeginSecondWalk
  <2>1. /\ walk = 1 /\ ~Walking /\ walk' = 2 /\ unread' = Clients
        /\ began' = [began EXCEPT ![2] = now]
        /\ UNCHANGED <<clientVars, readings, readAt>>
    BY <1>5 DEF BeginSecondWalk
  <2>2. began' \in [{1, 2} -> Nat] /\ began'[1] = began[1] /\ began'[2] = now
    BY <1>2, <2>1
  <2>3. UsageTyped'
    BY <1>1, <2>1, <2>2 DEF UsageTyped, clientVars, IsReading
  <2>4. Phases'
    BY <1>1, <2>1 DEF Phases
  <2>5. DOMAIN readings[2] = {}
    BY <1>1, <2>1 DEF Phases
  <2>6. ClocksInOrder'
    BY <1>1, <1>2, <1>3, <2>1, <2>2, <2>5 DEF ClocksInOrder, clientVars
  <2> QED BY <2>3, <2>4, <2>6 DEF TInv
<1>6. ASSUME NEW c \in Clients, ReadClient(c) PROVE TInv'
  <2>1. /\ walk \in {1, 2} /\ readings' = [w \in {1, 2} |-> readings'[w]]
        /\ \A w \in {1, 2} : w # walk => readings'[w] = readings[w]
        /\ c \notin DOMAIN readings[walk]
        /\ IF c \in readable /\ shown[c] # {}
           THEN /\ DOMAIN readings'[walk] = DOMAIN readings[walk] \cup {c}
                /\ readings'[walk][c] = Published(c)
                /\ \A d \in DOMAIN readings[walk] : readings'[walk][d] = readings[walk][d]
           ELSE readings' = readings
    BY <1>1, <1>6, ReadClientReads
  <2>2. /\ UNCHANGED <<clientVars, began>> /\ unread' = unread \ {c} /\ c \in unread
        /\ readAt' = IF unread = {c} THEN [readAt EXCEPT ![walk] = now] ELSE readAt
        /\ walk' = IF unread = {c} /\ walk = 2 THEN 3 ELSE walk
    BY <1>6 DEF ReadClient
  <2>3. shown[c] # {} =>
          /\ IsReading(Published(c))
          /\ \A k \in DOMAIN Published(c)["total"] : Published(c)["total"][k] = now
    BY <1>1, PublishedForm
  <2>4. \A w \in {1, 2} : /\ DOMAIN readings'[w] \subseteq Clients
                          /\ \A d \in DOMAIN readings'[w] : IsReading(readings'[w][d])
    <3> SUFFICES ASSUME NEW w \in {1, 2}
                 PROVE  /\ DOMAIN readings'[w] \subseteq Clients
                        /\ \A d \in DOMAIN readings'[w] : IsReading(readings'[w][d])
      OBVIOUS
    <3>1. /\ DOMAIN readings[w] \subseteq Clients
          /\ \A d \in DOMAIN readings[w] : IsReading(readings[w][d])
      BY <1>1 DEF UsageTyped
    <3>2. CASE w = walk
      BY <2>1, <2>3, <3>1, <3>2
    <3>3. CASE w # walk
      BY <2>1, <3>1, <3>3
    <3> QED BY <3>2, <3>3
  <2>5. driver' = driver
    BY <2>2 DEF clientVars
  <2>6. \A w \in {1, 2} : \A d \in DOMAIN readings'[w] : IsReading(readings[w][d])'
    BY <2>4, <2>5 DEF IsReading
  <2>7. readAt' \in [{1, 2} -> Nat] /\ walk' \in {1, 2, 3} /\ unread' \in SUBSET Clients
    BY <1>1, <1>2, <2>1, <2>2 DEF UsageTyped
  <2>8. UsageTyped'
    BY <1>1, <2>1, <2>2, <2>4, <2>6, <2>7 DEF UsageTyped, clientVars
  <2>9. Phases'
    BY <1>1, <2>1, <2>2 DEF Phases
  <2>10. \A w \in {1, 2} : \A d \in DOMAIN readings'[w] : \A k \in DOMAIN readings'[w][d]["total"] :
           \/ /\ d \in DOMAIN readings[w] /\ k \in DOMAIN readings[w][d]["total"]
              /\ readings'[w][d]["total"][k] = readings[w][d]["total"][k]
           \/ w = walk /\ readings'[w][d]["total"][k] = now
    BY <2>1, <2>3
  <2>11. now' = now /\ began' = began
    BY <2>2 DEF clientVars
  <2>12. /\ walk = 1 => /\ walk' = 1 /\ readAt'[2] = readAt[2]
                        /\ readAt'[1] = IF unread = {c} THEN now ELSE readAt[1]
                        /\ unread' = {} <=> unread = {c}
         /\ walk = 2 => /\ readAt'[1] = readAt[1]
                        /\ walk' = IF unread = {c} THEN 3 ELSE 2
                        /\ readAt'[2] = IF unread = {c} THEN now ELSE readAt[2]
    BY <1>2, <2>2
  <2>13. unread # {}
    BY <2>2
  <2>14. CASE walk = 1
    <3>1. DOMAIN readings'[2] = {}
      BY <1>1, <2>1, <2>14 DEF Phases
    <3>2. \A d \in DOMAIN readings[1] : \A k \in DOMAIN readings[1][d]["total"] :
            readings[1][d]["total"][k] <= now
      BY <1>1, <2>13, <2>14 DEF ClocksInOrder, Walking
    <3>3. \A d \in DOMAIN readings'[1] : \A k \in DOMAIN readings'[1][d]["total"] :
            readings'[1][d]["total"][k] <= now
      BY <1>2, <2>10, <3>2
    <3> QED
      BY <1>1, <1>2, <2>8, <2>9, <2>11, <2>12, <2>14, <3>1, <3>3 DEF TInv, ClocksInOrder, Walking
  <2>15. CASE walk = 2
    <3>1. readings'[1] = readings[1] /\ readAt'[1] = readAt[1] /\ walk' > 1
      BY <2>1, <2>12, <2>15
    <3>2. \A d \in DOMAIN readings[2] : \A k \in DOMAIN readings[2][d]["total"] :
            began[2] <= readings[2][d]["total"][k] /\ readings[2][d]["total"][k] <= now
      BY <1>1, <2>15 DEF ClocksInOrder
    <3>3. began[1] = 0 /\ readAt[1] <= began[2] /\ began[2] <= now
      BY <1>1, <2>15 DEF ClocksInOrder
    <3>4. \A d \in DOMAIN readings'[2] : \A k \in DOMAIN readings'[2][d]["total"] :
            began[2] <= readings'[2][d]["total"][k] /\ readings'[2][d]["total"][k] <= now
      BY <2>10, <3>2, <3>3, <1>2
    <3>5. \A d \in DOMAIN readings[1] : \A k \in DOMAIN readings[1][d]["total"] :
            readings[1][d]["total"][k] <= readAt[1]
      BY <1>1, <2>15 DEF ClocksInOrder
    <3>6. readAt[1] <= now
      BY <1>1 DEF ClocksInOrder
    <3>7. walk' = 3 => readAt'[2] = now
      BY <2>12, <2>15
    <3>8. ClocksInOrder'
      BY <1>2, <2>11, <3>1, <3>3, <3>4, <3>5, <3>6, <3>7 DEF ClocksInOrder
    <3> QED BY <2>8, <2>9, <3>8 DEF TInv
  <2> QED BY <2>1, <2>14, <2>15
<1>7. CASE UNCHANGED usageVars
  <2>1. UNCHANGED walkVars /\ UNCHANGED clientVars
    BY <1>7 DEF usageVars, walkVars, clientVars
  <2>2. UsageTyped'
    BY <1>1, <2>1 DEF UsageTyped, IsReading, walkVars, clientVars
  <2>3. Phases' /\ ClocksInOrder'
    BY <1>1, <2>1 DEF Phases, ClocksInOrder, walkVars, clientVars, Walking
  <2> QED BY <2>2, <2>3 DEF TInv
<1> QED BY <1>4, <1>5, <1>6, <1>7, UsageStepsAre

---------------------------------------------------------------------------
(* Work is never told twice, nor before its time.                          *)

Excess(a, b) == IF a > b THEN a - b ELSE 0

(* What client c gained on class k since its first reading: until now, and *)
(* once it was read again until then.                                      *)
GainedBy(c, f, k) ==
  IF c \notin DOMAIN readings[1] \/ k \notin DOMAIN readings[1][c][f] THEN 0
  ELSE IF walk = 1 \/ c \in unread THEN Excess(work[c][k], readings[1][c][f][k])
  ELSE IF c \notin DOMAIN readings[2] \/ k \notin DOMAIN readings[2][c][f] THEN 0
  ELSE Excess(readings[2][c][f][k], readings[1][c][f][k])

Gained(f, k) == [c \in Clients |-> GainedBy(c, f, k)]

GainsAreWork == \A f \in Meters, k \in Classes : SumOf(Gained(f, k)) <= workBegun[k]

LEMMA GainedTyped ==
  ASSUME UsageTyped, NEW f \in Meters, NEW k \in Classes
  PROVE  /\ Gained(f, k) \in [Clients -> Nat] /\ Gained(f, k) \in [Clients -> Int]
         /\ \A c \in Clients : Gained(f, k)[c] = GainedBy(c, f, k)
         /\ SumOf(Gained(f, k)) = SumOver(Gained(f, k), Clients)
<1>1. ASSUME NEW c \in Clients PROVE GainedBy(c, f, k) \in Nat
  <2>1. work[c][k] \in Nat
    BY DEF UsageTyped
  <2>2. \A w \in {1, 2} : c \in DOMAIN readings[w] /\ k \in DOMAIN readings[w][c][f] =>
          readings[w][c][f][k] \in Nat
    BY DEF UsageTyped, IsReading, Counts, Meters
  <2> QED BY <2>1, <2>2 DEF GainedBy, Excess
<1> QED BY <1>1 DEF Gained, SumOf

LEMMA GainsStart == UsageInit => GainsAreWork
<1> SUFFICES ASSUME UsageInit, NEW f \in Meters, NEW k \in Classes
             PROVE  SumOf(Gained(f, k)) <= workBegun[k]
  BY DEF GainsAreWork
<1>1. DOMAIN readings[1] = {} /\ workBegun[k] = 0
  BY DEF UsageInit, NoReadings
<1>2. \A c \in Clients : Gained(f, k)[c] = 0
  BY <1>1 DEF Gained, GainedBy
<1>3. Gained(f, k) \in [Clients -> Int]
  BY <1>1 DEF Gained, GainedBy
<1>4. SumOver(Gained(f, k), Clients) = 0
  BY <1>2, <1>3, UsageConstants, SumOfZeros
<1> QED BY <1>1, <1>4 DEF SumOf, Gained

(* Where no client gains, the gains stay within the work.                  *)
LEMMA GainsFall ==
  ASSUME UsageTyped, UsageTyped', GainsAreWork, NEW f \in Meters, NEW k \in Classes,
         workBegun'[k] = workBegun[k],
         \A c \in Clients : Gained(f, k)'[c] <= Gained(f, k)[c]
  PROVE  SumOf(Gained(f, k)') <= workBegun'[k]
<1>1. /\ Gained(f, k) \in [Clients -> Int] /\ SumOf(Gained(f, k)) = SumOver(Gained(f, k), Clients)
  BY GainedTyped
<1>2. /\ Gained(f, k)' \in [Clients -> Int]
      /\ SumOf(Gained(f, k)') = SumOver(Gained(f, k)', Clients)
  <2>1. Gained(f, k)' \in [Clients -> Nat] /\ DOMAIN Gained(f, k)' = Clients
    <3>1. (Gained(f, k) \in [Clients -> Nat])'
      BY GainedTyped, PTL
    <3> QED BY <3>1
  <2> QED BY <2>1 DEF SumOf
<1> DEFINE G == Gained(f, k)
           H == Gained(f, k)'
<1> HIDE DEF G, H
<1>3. SumOver(H, Clients) <= SumOver(G, Clients) /\ SumOver(G, Clients) \in Int /\ SumOver(H, Clients) \in Int
  BY <1>1, <1>2, UsageConstants, SumAtMost, SumType DEF G, H
<1>4. SumOver(G, Clients) <= workBegun[k] /\ workBegun[k] \in Nat
  BY <1>1 DEF G, GainsAreWork, UsageTyped
<1> QED BY <1>2, <1>3, <1>4 DEF H

LEMMA GainsPreserved == TInv /\ TInv' /\ GainsAreWork /\ [UsageNext]_usageVars => GainsAreWork'
<1> SUFFICES ASSUME TInv, TInv', GainsAreWork, [UsageNext]_usageVars,
                    NEW f \in Meters, NEW k \in Classes
             PROVE  SumOf(Gained(f, k)') <= workBegun'[k]
  BY DEF GainsAreWork
<1>1. UsageTyped /\ UsageTyped' /\ Phases
  BY DEF TInv
<1>2. \A c \in Clients : Gained(f, k)[c] = GainedBy(c, f, k) /\ GainedBy(c, f, k) \in Nat
  BY <1>1, GainedTyped
<1>3. \A c \in Clients : Gained(f, k)'[c] = GainedBy(c, f, k)'
  BY DEF Gained
<1>4. ASSUME NEW g \in [Classes -> SUBSET Clients], Work(g)
      PROVE  SumOf(Gained(f, k)') <= workBegun'[k]
  <2>1. /\ UNCHANGED <<walk, unread, readings>>
        /\ \A c \in Clients : work'[c][k] = work[c][k] + IF c \in g[k] THEN 1 ELSE 0
        /\ workBegun'[k] = workBegun[k] + Cardinality(g[k])
    BY <1>4 DEF Work
  <2>2. \A c \in Clients, w \in {1, 2} : c \in DOMAIN readings[w] /\ k \in DOMAIN readings[w][c][f] =>
          readings[w][c][f][k] \in Nat
    BY <1>1 DEF UsageTyped, IsReading, Counts, Meters
  <2>3. \A c \in Clients : GainedBy(c, f, k)' <= GainedBy(c, f, k) + IF c \in g[k] THEN 1 ELSE 0
    <3> SUFFICES ASSUME NEW c \in Clients
                 PROVE  GainedBy(c, f, k)' <= GainedBy(c, f, k) + IF c \in g[k] THEN 1 ELSE 0
      OBVIOUS
    <3>1. work[c][k] \in Nat
      BY <1>1 DEF UsageTyped
    <3> QED BY <2>1, <2>2, <3>1 DEF GainedBy, Excess
  <2>4. /\ Gained(f, k) \in [Clients -> Int] /\ SumOf(Gained(f, k)) = SumOver(Gained(f, k), Clients)
    BY <1>1, GainedTyped
  <2>5. (Gained(f, k) \in [Clients -> Nat])'
    BY <1>1, GainedTyped, PTL
  <2> DEFINE G == Gained(f, k)
             H == Gained(f, k)'
  <2>6. H \in [Clients -> Int] /\ SumOf(H) = SumOver(H, Clients)
    <3>1. H \in [Clients -> Nat] /\ DOMAIN H = Clients
      BY <2>5
    <3> HIDE DEF H
    <3> QED BY <3>1 DEF SumOf
  <2>7. \A c \in Clients : H[c] <= G[c] + IF c \in g[k] THEN 1 ELSE 0
    BY <1>2, <1>3, <2>3
  <2>8. G \in [Clients -> Int] /\ SumOf(G) = SumOver(G, Clients) /\ SumOf(G) <= workBegun[k]
    BY <2>4 DEF GainsAreWork
  <2> HIDE DEF G, H
  <2>9. /\ SumOver(H, Clients) <= SumOver(G, Clients) + Cardinality(g[k])
    BY <2>6, <2>7, <2>8, UsageConstants, SumGrows
  <2>10. /\ SumOver(H, Clients) \in Int /\ SumOver(G, Clients) \in Int
         /\ Cardinality(g[k]) \in Nat /\ workBegun[k] \in Nat
    BY <1>1, <2>6, <2>8, UsageConstants, SumType, FS_Subset, FS_CardinalityType DEF UsageTyped
  <2>11. SumOf(H) <= workBegun'[k]
    BY <2>1, <2>6, <2>8, <2>9, <2>10
  <2> QED BY <2>11 DEF H
<1>5. SUFFICES ASSUME ~(\E g \in [Classes -> SUBSET Clients] : Work(g))
               PROVE  /\ workBegun'[k] = workBegun[k]
                      /\ \A c \in Clients : GainedBy(c, f, k)' <= GainedBy(c, f, k)
  <2>1. /\ workBegun'[k] = workBegun[k]
        /\ \A c \in Clients : Gained(f, k)'[c] <= Gained(f, k)[c]
        => SumOf(Gained(f, k)') <= workBegun'[k]
    BY <1>1, GainsFall
  <2> QED BY <1>2, <1>3, <1>4, <2>1
<1>6. \A c \in Clients, w \in {1, 2} : c \in DOMAIN readings[w] /\ k \in DOMAIN readings[w][c][f] =>
        readings[w][c][f][k] \in Nat
  BY <1>1 DEF UsageTyped, IsReading, Counts, Meters
<1>7. ASSUME UNCHANGED <<walk, unread, readings, workBegun>>, \A c \in Clients : work'[c][k] <= work[c][k]
      PROVE  /\ workBegun'[k] = workBegun[k]
             /\ \A c \in Clients : GainedBy(c, f, k)' <= GainedBy(c, f, k)
  <2> SUFFICES ASSUME NEW c \in Clients PROVE GainedBy(c, f, k)' <= GainedBy(c, f, k)
    BY <1>7
  <2>1. work[c][k] \in Nat /\ work'[c][k] \in Nat /\ work'[c][k] <= work[c][k]
    BY <1>1, <1>7 DEF UsageTyped
  <2> QED BY <1>2, <1>6, <1>7, <2>1 DEF GainedBy, Excess
<1>8. ASSUME NEW c \in Clients, NEW l \in Classes, Publish(c, l)
      PROVE  /\ workBegun'[k] = workBegun[k]
             /\ \A d \in Clients : GainedBy(d, f, k)' <= GainedBy(d, f, k)
  <2>1. UNCHANGED <<walk, unread, readings, work, workBegun>>
    BY <1>8 DEF Publish
  <2>2. \A d \in Clients : work[d][k] \in Nat
    BY <1>1 DEF UsageTyped
  <2> QED BY <1>7, <2>1, <2>2
<1>9. ASSUME NEW c \in Clients, Replace(c)
      PROVE  /\ workBegun'[k] = workBegun[k]
             /\ \A d \in Clients : GainedBy(d, f, k)' <= GainedBy(d, f, k)
  <2>1. UNCHANGED <<walk, unread, readings, workBegun>>
    BY <1>9 DEF Replace
  <2>2. \A d \in Clients : work[d][k] \in Nat /\ work'[d][k] <= work[d][k]
    BY <1>1, <1>9 DEF Replace, UsageTyped
  <2> QED BY <1>7, <2>1, <2>2
<1>10. ASSUME NEW c \in Clients, BecomeReadable(c)
       PROVE  /\ workBegun'[k] = workBegun[k]
              /\ \A d \in Clients : GainedBy(d, f, k)' <= GainedBy(d, f, k)
  <2>1. UNCHANGED <<walk, unread, readings, work, workBegun>>
    BY <1>10 DEF BecomeReadable
  <2>2. \A d \in Clients : work[d][k] \in Nat
    BY <1>1 DEF UsageTyped
  <2> QED BY <1>7, <2>1, <2>2
<1>11. CASE BeginSecondWalk
  <2>1. /\ walk = 1 /\ walk' = 2 /\ unread' = Clients
        /\ UNCHANGED <<readings, work, workBegun>>
    BY <1>11 DEF BeginSecondWalk, clientVars
  <2>2. \A c \in Clients : GainedBy(c, f, k)' = GainedBy(c, f, k)
    BY <2>1 DEF GainedBy
  <2> QED BY <1>2, <2>1, <2>2
<1>12. ASSUME NEW c \in Clients, ReadClient(c)
       PROVE  /\ workBegun'[k] = workBegun[k]
              /\ \A d \in Clients : GainedBy(d, f, k)' <= GainedBy(d, f, k)
  <2>1. /\ walk \in {1, 2} /\ readings' = [w \in {1, 2} |-> readings'[w]]
        /\ \A w \in {1, 2} : w # walk => readings'[w] = readings[w]
        /\ c \notin DOMAIN readings[walk]
        /\ IF c \in readable /\ shown[c] # {}
           THEN /\ DOMAIN readings'[walk] = DOMAIN readings[walk] \cup {c}
                /\ readings'[walk][c] = Published(c)
                /\ \A d \in DOMAIN readings[walk] : readings'[walk][d] = readings[walk][d]
           ELSE readings' = readings
    BY <1>1, <1>12, ReadClientReads
  <2>2. /\ work' = work /\ workBegun' = workBegun /\ unread' = unread \ {c} /\ c \in unread
        /\ walk = 1 => walk' = 1
        /\ walk = 2 => walk' # 1
    BY <1>12 DEF ReadClient, clientVars
  <2>3. shown[c] # {} => \A l \in DOMAIN Published(c)[f] : Published(c)[f][l] = work[c][l]
    BY <1>1, PublishedForm
  <2>4. work[c][k] \in Nat
    BY <1>1 DEF UsageTyped
  <2> SUFFICES ASSUME NEW d \in Clients PROVE GainedBy(d, f, k)' <= GainedBy(d, f, k)
    BY <2>2
  <2>5. GainedBy(d, f, k) \in Nat
    BY <1>2
  <2>6. CASE walk = 1
    <3>1. CASE d # c
      <4>1. GainedBy(d, f, k)' = GainedBy(d, f, k)
        BY <2>1, <2>2, <2>6, <3>1 DEF GainedBy
      <4> QED BY <2>5, <4>1
    <3>2. CASE d = c
      <4>1. GainedBy(c, f, k)' = 0
        BY <2>1, <2>2, <2>3, <2>4, <2>6, <3>2 DEF GainedBy, Excess
      <4> QED BY <2>5, <3>2, <4>1
    <3> QED BY <3>1, <3>2
  <2>7. CASE walk = 2
    <3>1. readings'[1] = readings[1] /\ walk' # 1
      BY <2>1, <2>2, <2>7
    <3>2. CASE d # c
      <4>1. d \in unread' <=> d \in unread
        BY <2>2, <3>2
      <4>2. /\ d \in DOMAIN readings'[2] <=> d \in DOMAIN readings[2]
            /\ d \in DOMAIN readings[2] => readings'[2][d] = readings[2][d]
        BY <2>1, <2>7, <3>2
      <4>3. GainedBy(d, f, k)' = GainedBy(d, f, k)
        BY <2>2, <2>7, <3>1, <4>1, <4>2 DEF GainedBy
      <4> QED BY <2>5, <4>3
    <3>3. CASE d = c
      <4>1. c \in unread /\ c \notin unread'
        BY <2>2
      <4>2. c \in DOMAIN readings'[2] /\ k \in DOMAIN readings'[2][c][f] => readings'[2][c][f][k] = work[c][k]
        BY <2>1, <2>3, <2>7
      <4>3. \/ GainedBy(c, f, k)' = 0
            \/ GainedBy(c, f, k)' = GainedBy(c, f, k)
        BY <2>2, <2>7, <3>1, <4>1, <4>2 DEF GainedBy
      <4> QED BY <2>5, <3>3, <4>3
    <3> QED BY <3>2, <3>3
  <2> QED BY <2>1, <2>6, <2>7
<1>13. CASE UNCHANGED usageVars
  <2>1. UNCHANGED <<walk, unread, readings, work, workBegun>>
    BY <1>13 DEF usageVars, clientVars
  <2>2. \A d \in Clients : work[d][k] \in Nat
    BY <1>1 DEF UsageTyped
  <2> QED BY <1>7, <2>1, <2>2
<1> QED BY <1>5, <1>8, <1>9, <1>10, <1>11, <1>12, <1>13 DEF UsageNext

---------------------------------------------------------------------------
(* The clients that stay.                                                  *)

(* A client that stays and was found by the first walk is found by the     *)
(* second, with no less than its work between the walks.                   *)
SteadyAreFound ==
  /\ steady \subseteq readable
  /\ \A c \in steady \cap DOMAIN readings[1] : \A f \in Meters : \A k \in DOMAIN readings[1][c][f] :
       IF walk = 1 \/ c \in unread
       THEN k \in shown[c] /\ readings[1][c][f][k] + workBetween[c][k] <= work[c][k]
       ELSE /\ c \in DOMAIN readings[2] /\ k \in DOMAIN readings[2][c][f]
            /\ readings[1][c][f][k] + workBetween[c][k] <= readings[2][c][f][k]

(* The time between the walks.                                             *)
Between == IF walk = 1 THEN IF Walking THEN 0 ELSE now - readAt[1] ELSE began[2] - readAt[1]

NotYet == walk = 1 /\ Walking => \A c \in Clients, k \in Classes : workBetween[c][k] = 0

(* No class does more for these clients than its instances can.            *)
WorkTakesTime ==
  \A k \in Classes : SumOf([c \in Clients |-> workBetween[c][k]]) <= Instances[k] * Between

SteadyInv == SteadyAreFound /\ NotYet /\ WorkTakesTime

LEMMA SteadyStart == UsageInit => SteadyInv
<1> SUFFICES ASSUME UsageInit PROVE SteadyInv
  OBVIOUS
<1>1. /\ DOMAIN readings[1] = {} /\ steady = readable /\ walk = 1 /\ now = 0 /\ readAt[1] = 0
      /\ workBetween = [c \in Clients |-> [k \in Classes |-> 0]]
  BY DEF UsageInit, NoReadings
<1>2. SteadyAreFound /\ NotYet
  BY <1>1 DEF SteadyAreFound, NotYet
<1>3. ASSUME NEW k \in Classes
      PROVE  SumOf([c \in Clients |-> workBetween[c][k]]) <= Instances[k] * Between
  <2> DEFINE s == [c \in Clients |-> workBetween[c][k]]
  <2>1. s \in [Clients -> Int] /\ DOMAIN s = Clients /\ \A c \in Clients : s[c] = 0
    BY <1>1
  <2> HIDE DEF s
  <2>2. SumOf(s) = 0
    BY <2>1, UsageConstants, SumOfZeros DEF SumOf
  <2>3. Between = 0 /\ Instances[k] * 0 = 0
    BY <1>1, UsageConstants DEF Between
  <2> QED BY <2>2, <2>3 DEF s
<1> QED BY <1>2, <1>3 DEF SteadyInv, WorkTakesTime

(* The work between the walks only shrinks, or a unit of time goes by.     *)
LEMMA WorkTakesTimePreserved ==
  TInv /\ TInv' /\ NotYet /\ WorkTakesTime /\ [UsageNext]_usageVars => NotYet' /\ WorkTakesTime'
<1> SUFFICES ASSUME TInv, TInv', NotYet, WorkTakesTime, [UsageNext]_usageVars
             PROVE  NotYet' /\ WorkTakesTime'
  OBVIOUS
<1>1. UsageTyped /\ UsageTyped' /\ Phases /\ ClocksInOrder
  BY DEF TInv
<1>2. /\ now \in Nat /\ readAt[1] \in Nat /\ began[2] \in Nat
      /\ walk \in {1, 2, 3}
  BY <1>1 DEF UsageTyped
<1>3. Between \in Nat
  BY <1>1, <1>2 DEF Between, ClocksInOrder
<1>4. \A k \in Classes : Instances[k] \in Nat
  BY UsageConstants
<1> DEFINE Adds(b, k) == SumOf([c \in Clients |-> b[c][k]])
<1>5. ASSUME NEW b \in [Clients -> [Classes -> Nat]], NEW k \in Classes
      PROVE  /\ [c \in Clients |-> b[c][k]] \in [Clients -> Int]
             /\ Adds(b, k) = SumOver([c \in Clients |-> b[c][k]], Clients)
             /\ Adds(b, k) \in Int
  <2> DEFINE s == [c \in Clients |-> b[c][k]]
  <2>1. s \in [Clients -> Int] /\ DOMAIN s = Clients
    OBVIOUS
  <2> HIDE DEF s
  <2>2. SumOf(s) = SumOver(s, Clients) /\ SumOf(s) \in Int
    BY <2>1, UsageConstants, SumType DEF SumOf
  <2> QED BY <2>1, <2>2 DEF s
<1>6. /\ workBetween \in [Clients -> [Classes -> Nat]] /\ workBetween' \in [Clients -> [Classes -> Nat]]
  BY <1>1 DEF UsageTyped
<1>7. ASSUME \A c \in Clients, k \in Classes : workBetween'[c][k] <= workBetween[c][k],
             Between' = Between, (walk = 1 /\ Walking)' => walk = 1 /\ Walking
      PROVE  NotYet' /\ WorkTakesTime'
  <2>1. \A c \in Clients, k \in Classes : workBetween[c][k] \in Nat /\ workBetween'[c][k] \in Nat
    BY <1>6
  <2>2. NotYet'
    BY <1>7, <2>1 DEF NotYet
  <2>3. ASSUME NEW k \in Classes PROVE Adds(workBetween', k) <= Instances[k] * Between'
    <3> DEFINE e == [c \in Clients |-> workBetween[c][k]]
               s == [c \in Clients |-> workBetween'[c][k]]
    <3>1. /\ e \in [Clients -> Int] /\ SumOf(e) = SumOver(e, Clients) /\ SumOf(e) \in Int
          /\ s \in [Clients -> Int] /\ SumOf(s) = SumOver(s, Clients) /\ SumOf(s) \in Int
      BY <1>5, <1>6
    <3>2. \A c \in Clients : s[c] <= e[c]
      BY <1>7
    <3>3. SumOf(e) <= Instances[k] * Between
      BY DEF WorkTakesTime
    <3>4. Instances[k] * Between \in Int
      BY <1>3, <1>4
    <3> HIDE DEF e, s
    <3>5. SumOf(s) <= Instances[k] * Between
      BY <3>1, <3>2, <3>3, <3>4, UsageConstants, SumAtMost
    <3> QED BY <1>7, <3>5 DEF s
  <2> QED BY <2>2, <2>3 DEF WorkTakesTime
<1>8. ASSUME NEW f \in [Classes -> SUBSET Clients], \A k \in Classes : Cardinality(f[k]) <= Instances[k],
             Work(f)
      PROVE  NotYet' /\ WorkTakesTime'
  <2>1. /\ now' = now + 1 /\ UNCHANGED <<walk, unread, readAt, began>>
    BY <1>8 DEF Work
  <2>2. \A c \in Clients, k \in Classes : /\ workBetween[c][k] \in Nat
          /\ workBetween'[c][k] = workBetween[c][k] + IF walk = 1 /\ ~Walking /\ c \in f[k] THEN 1 ELSE 0
    <3>1. workBetween' = [c \in Clients |-> [k \in Classes |->
            workBetween[c][k] + IF walk = 1 /\ ~Walking /\ c \in f[k] THEN 1 ELSE 0]]
      BY <1>8 DEF Work
    <3> QED BY <1>6, <3>1
  <2>3. CASE ~(walk = 1 /\ ~Walking)
    <3>1. \A c \in Clients, k \in Classes : workBetween'[c][k] <= workBetween[c][k]
      BY <2>2, <2>3
    <3>2. Between' = Between
      BY <2>1, <2>3 DEF Between, Walking
    <3>3. (walk = 1 /\ Walking)' => walk = 1 /\ Walking
      BY <2>1 DEF Walking
    <3> QED BY <1>7, <3>1, <3>2, <3>3
  <2>4. CASE walk = 1 /\ ~Walking
    <3>1. NotYet'
      BY <2>1, <2>4 DEF NotYet, Walking
    <3>2. Between' = Between + 1
      BY <1>2, <2>1, <2>4 DEF Between, Walking
    <3>3. ASSUME NEW k \in Classes PROVE Adds(workBetween', k) <= Instances[k] * Between'
      <4> DEFINE e == [c \in Clients |-> workBetween[c][k]]
                 s == [c \in Clients |-> workBetween'[c][k]]
      <4>1. /\ e \in [Clients -> Int] /\ SumOf(e) = SumOver(e, Clients) /\ SumOf(e) \in Int
            /\ s \in [Clients -> Int] /\ SumOf(s) = SumOver(s, Clients) /\ SumOf(s) \in Int
        BY <1>5, <1>6
      <4>2. \A c \in Clients : s[c] <= e[c] + IF c \in f[k] THEN 1 ELSE 0
        BY <2>2
      <4>3. SumOf(e) <= Instances[k] * Between
        BY DEF WorkTakesTime
      <4>4. /\ Cardinality(f[k]) \in Nat /\ Cardinality(f[k]) <= Instances[k] /\ Instances[k] \in Nat
            /\ f[k] \in SUBSET Clients
        BY <1>4, <1>8, UsageConstants, FS_Subset, FS_CardinalityType
      <4>5. Instances[k] * Between \in Int /\ Instances[k] * (Between + 1) = Instances[k] * Between + Instances[k]
        BY <1>3, <4>4
      <4> HIDE DEF e, s
      <4>6. SumOver(s, Clients) <= SumOver(e, Clients) + Cardinality(f[k])
        BY <4>1, <4>2, <4>4, UsageConstants, SumGrows
      <4>7. SumOf(s) <= Instances[k] * (Between + 1)
        BY <4>1, <4>3, <4>4, <4>5, <4>6
      <4> QED BY <3>2, <4>7 DEF s
    <3> QED BY <3>1, <3>3 DEF WorkTakesTime
  <2> QED BY <2>3, <2>4
<1>9. ASSUME NEW c \in Clients, NEW k \in Classes, Publish(c, k) PROVE NotYet' /\ WorkTakesTime'
  <2>1. UNCHANGED <<now, workBetween, walk, unread, readAt, began>>
    BY <1>9 DEF Publish
  <2>2. \A d \in Clients, l \in Classes : workBetween[d][l] \in Nat
    BY <1>6
  <2> QED BY <1>7, <2>1, <2>2 DEF Between, Walking
<1>10. ASSUME NEW c \in Clients, Replace(c) PROVE NotYet' /\ WorkTakesTime'
  <2>1. UNCHANGED <<now, walk, unread, readAt, began>>
    BY <1>10 DEF Replace
  <2>2. \A d \in Clients, l \in Classes : workBetween'[d][l] <= workBetween[d][l]
    BY <1>6, <1>10 DEF Replace
  <2> QED BY <1>7, <2>1, <2>2 DEF Between, Walking
<1>11. ASSUME NEW c \in Clients, BecomeReadable(c) PROVE NotYet' /\ WorkTakesTime'
  <2>1. UNCHANGED <<now, workBetween, walk, unread, readAt, began>>
    BY <1>11 DEF BecomeReadable
  <2>2. \A d \in Clients, l \in Classes : workBetween[d][l] \in Nat
    BY <1>6
  <2> QED BY <1>7, <2>1, <2>2 DEF Between, Walking
<1>12. CASE BeginSecondWalk
  <2>1. /\ walk = 1 /\ ~Walking /\ walk' = 2 /\ UNCHANGED <<now, workBetween, readAt>> /\ began'[2] = now
    BY <1>1, <1>12 DEF BeginSecondWalk, clientVars, UsageTyped
  <2>2. Between' = Between
    BY <2>1 DEF Between
  <2>3. \A d \in Clients, l \in Classes : workBetween[d][l] \in Nat
    BY <1>6
  <2> QED BY <1>7, <2>1, <2>2, <2>3
<1>13. ASSUME NEW c \in Clients, ReadClient(c) PROVE NotYet' /\ WorkTakesTime'
  <2>1. /\ UNCHANGED <<now, workBetween, began>> /\ c \in unread /\ unread' = unread \ {c}
        /\ readAt' = IF unread = {c} THEN [readAt EXCEPT ![walk] = now] ELSE readAt
        /\ walk' = IF unread = {c} /\ walk = 2 THEN 3 ELSE walk
        /\ walk \in {1, 2}
    BY <1>1, <1>13 DEF ReadClient, clientVars, UsageTyped, Phases
  <2>2. readAt \in [{1, 2} -> Nat]
    BY <1>1 DEF UsageTyped
  <2>3. /\ walk = 1 => /\ walk' = 1 /\ Walking /\ unread' = {} <=> unread = {c}
                       /\ unread = {c} => readAt'[1] = now
        /\ walk = 2 => walk' # 1 /\ readAt'[1] = readAt[1]
    BY <2>1, <2>2 DEF Walking
  <2>4. Between' = Between
    BY <1>2, <2>1, <2>3 DEF Between, Walking
  <2>5. (walk = 1 /\ Walking)' => walk = 1 /\ Walking
    BY <2>1, <2>3 DEF Walking
  <2>6. \A d \in Clients, l \in Classes : workBetween[d][l] \in Nat
    BY <1>6
  <2> QED BY <1>7, <2>1, <2>4, <2>5, <2>6
<1>14. CASE UNCHANGED usageVars
  <2>1. UNCHANGED <<now, workBetween, walk, unread, readAt, began>>
    BY <1>14 DEF usageVars, clientVars
  <2>2. \A d \in Clients, l \in Classes : workBetween[d][l] \in Nat
    BY <1>6
  <2> QED BY <1>7, <2>1, <2>2 DEF Between, Walking
<1> QED BY <1>8, <1>9, <1>10, <1>11, <1>12, <1>13, <1>14 DEF UsageNext

LEMMA SteadyPreserved ==
  TInv /\ TInv' /\ SteadyAreFound /\ NotYet /\ [UsageNext]_usageVars => SteadyAreFound'
<1> SUFFICES ASSUME TInv, TInv', SteadyAreFound, NotYet, [UsageNext]_usageVars
             PROVE  SteadyAreFound'
  OBVIOUS
<1>1. UsageTyped /\ UsageTyped' /\ Phases
  BY DEF TInv
<1>2. /\ work \in [Clients -> [Classes -> Nat]] /\ workBetween \in [Clients -> [Classes -> Nat]]
      /\ shown \in [Clients -> SUBSET Classes]
      /\ steady \subseteq Clients /\ walk \in {1, 2, 3}
  BY <1>1 DEF UsageTyped
<1>3. \A w \in {1, 2} : \A c \in DOMAIN readings[w] : \A f \in Meters : \A k \in DOMAIN readings[w][c][f] :
        k \in Classes /\ readings[w][c][f][k] \in Nat
  BY <1>1 DEF UsageTyped, IsReading, Counts
<1>4. ASSUME NEW g \in [Classes -> SUBSET Clients], Work(g) PROVE SteadyAreFound'
  <2>1. /\ UNCHANGED <<walk, unread, readings, shown, readable, steady>>
    BY <1>4 DEF Work
  <2>2. walk = 1 /\ ~Walking => unread = {}
    BY DEF Walking
  <2>3. ASSUME NEW c \in Clients, NEW k \in Classes
        PROVE  /\ work[c][k] \in Nat /\ workBetween[c][k] \in Nat
               /\ \/ work'[c][k] = work[c][k] /\ workBetween'[c][k] = workBetween[c][k]
                  \/ work'[c][k] = work[c][k] + 1 /\ workBetween'[c][k] = workBetween[c][k]
                  \/ /\ work'[c][k] = work[c][k] + 1 /\ workBetween'[c][k] = workBetween[c][k] + 1
                     /\ walk = 1
    <3>1. /\ work'[c][k] = work[c][k] + IF c \in g[k] THEN 1 ELSE 0
          /\ workBetween'[c][k] = workBetween[c][k] + IF walk = 1 /\ ~Walking /\ c \in g[k] THEN 1 ELSE 0
      BY <1>4 DEF Work
    <3> QED BY <1>2, <3>1
  <2> SUFFICES ASSUME NEW c \in steady \cap DOMAIN readings[1], NEW f \in Meters,
                      NEW k \in DOMAIN readings[1][c][f]
               PROVE  IF walk = 1 \/ c \in unread
                      THEN k \in shown[c] /\ readings[1][c][f][k] + workBetween'[c][k] <= work'[c][k]
                      ELSE /\ c \in DOMAIN readings[2] /\ k \in DOMAIN readings[2][c][f]
                           /\ readings[1][c][f][k] + workBetween'[c][k] <= readings[2][c][f][k]
    BY <2>1 DEF SteadyAreFound
  <2>4. c \in Clients /\ k \in Classes /\ readings[1][c][f][k] \in Nat
    BY <1>2, <1>3
  <2>5. IF walk = 1 \/ c \in unread
        THEN k \in shown[c] /\ readings[1][c][f][k] + workBetween[c][k] <= work[c][k]
        ELSE /\ c \in DOMAIN readings[2] /\ k \in DOMAIN readings[2][c][f]
             /\ readings[1][c][f][k] + workBetween[c][k] <= readings[2][c][f][k]
    BY DEF SteadyAreFound
  <2> QED BY <2>3, <2>4, <2>5
<1>5. ASSUME NEW c \in Clients, NEW l \in Classes, Publish(c, l) PROVE SteadyAreFound'
  <2>1. /\ UNCHANGED <<walk, unread, readings, readable, steady, work, workBetween>>
        /\ \A d \in Clients : shown[d] \subseteq shown'[d]
    BY <1>2, <1>5 DEF Publish
  <2> QED BY <1>2, <2>1 DEF SteadyAreFound
<1>6. ASSUME NEW c \in Clients, Replace(c) PROVE SteadyAreFound'
  <2>1. /\ UNCHANGED <<walk, unread, readings>>
        /\ steady' = steady \ {c} /\ readable' = readable \ {c}
        /\ \A d \in Clients \ {c} : /\ work'[d] = work[d] /\ shown'[d] = shown[d]
                                    /\ workBetween'[d] = workBetween[d]
    BY <1>2, <1>6 DEF Replace
  <2> QED BY <1>2, <2>1 DEF SteadyAreFound
<1>7. ASSUME NEW c \in Clients, BecomeReadable(c) PROVE SteadyAreFound'
  <2>1. /\ UNCHANGED <<walk, unread, readings, shown, steady, work, workBetween>>
        /\ readable \subseteq readable'
    BY <1>7 DEF BecomeReadable
  <2> QED BY <2>1 DEF SteadyAreFound
<1>8. CASE BeginSecondWalk
  <2>1. /\ walk = 1 /\ unread' = Clients
        /\ UNCHANGED <<readings, shown, readable, steady, work, workBetween>>
    BY <1>8 DEF BeginSecondWalk, clientVars
  <2> QED BY <1>2, <2>1 DEF SteadyAreFound
<1>9. ASSUME NEW c \in Clients, ReadClient(c) PROVE SteadyAreFound'
  <2>1. /\ walk \in {1, 2} /\ readings' = [w \in {1, 2} |-> readings'[w]]
        /\ \A w \in {1, 2} : w # walk => readings'[w] = readings[w]
        /\ c \notin DOMAIN readings[walk]
        /\ IF c \in readable /\ shown[c] # {}
           THEN /\ DOMAIN readings'[walk] = DOMAIN readings[walk] \cup {c}
                /\ readings'[walk][c] = Published(c)
                /\ \A d \in DOMAIN readings[walk] : readings'[walk][d] = readings[walk][d]
           ELSE readings' = readings
    BY <1>1, <1>9, ReadClientReads
  <2>2. /\ UNCHANGED <<driver, shown, readable, steady, work, workBetween>>
        /\ unread' = unread \ {c} /\ c \in unread
        /\ walk = 1 => walk' = 1
        /\ walk = 2 => walk' # 1
    BY <1>9 DEF ReadClient, clientVars
  <2>3. shown[c] # {} =>
          /\ IsReading(Published(c))
          /\ \A f \in Meters : \A k \in DOMAIN Published(c)[f] : k \in shown[c] /\ Published(c)[f][k] = work[c][k]
          /\ driver # "cycles" => DOMAIN Published(c)["busy"] = shown[c]
          /\ driver # "time" => DOMAIN Published(c)["cycles"] = shown[c]
    BY <1>1, PublishedForm
  <2>4. steady \subseteq readable
    BY DEF SteadyAreFound
  <2> SUFFICES ASSUME NEW d \in steady \cap DOMAIN readings'[1], NEW f \in Meters,
                      NEW k \in DOMAIN readings'[1][d][f]
               PROVE  IF walk' = 1 \/ d \in unread'
                      THEN k \in shown[d] /\ readings'[1][d][f][k] + workBetween[d][k] <= work[d][k]
                      ELSE /\ d \in DOMAIN readings'[2] /\ k \in DOMAIN readings'[2][d][f]
                           /\ readings'[1][d][f][k] + workBetween[d][k] <= readings'[2][d][f][k]
    BY <2>2, <2>4 DEF SteadyAreFound
  <2>5. CASE walk = 1
    <3>1. CASE d \in DOMAIN readings[1]
      <4>1. k \in DOMAIN readings[1][d][f] /\ readings'[1][d][f] = readings[1][d][f]
        BY <2>1, <2>5, <3>1
      <4>2. k \in shown[d] /\ readings[1][d][f][k] + workBetween[d][k] <= work[d][k]
        BY <2>5, <3>1, <4>1 DEF SteadyAreFound
      <4> QED BY <2>2, <2>5, <4>1, <4>2
    <3>2. CASE d \notin DOMAIN readings[1]
      <4>1. d = c /\ readings'[1][c] = Published(c) /\ shown[c] # {}
        BY <2>1, <2>5, <3>2
      <4>2. k \in shown[c] /\ readings'[1][c][f][k] = work[c][k]
        BY <2>3, <4>1
      <4>3. k \in Classes /\ work[c][k] \in Nat
        BY <1>2, <4>2
      <4>4. workBetween[c][k] = 0
        BY <2>2, <2>5, <4>3 DEF NotYet, Walking
      <4> QED BY <2>2, <2>5, <4>1, <4>2, <4>3, <4>4
    <3> QED BY <3>1, <3>2
  <2>6. CASE walk = 2
    <3>1. /\ d \in steady \cap DOMAIN readings[1] /\ k \in DOMAIN readings[1][d][f]
          /\ readings'[1] = readings[1] /\ walk' # 1
      BY <2>1, <2>2, <2>6
    <3>2. IF d \in unread
          THEN k \in shown[d] /\ readings[1][d][f][k] + workBetween[d][k] <= work[d][k]
          ELSE /\ d \in DOMAIN readings[2] /\ k \in DOMAIN readings[2][d][f]
               /\ readings[1][d][f][k] + workBetween[d][k] <= readings[2][d][f][k]
      BY <2>6, <3>1 DEF SteadyAreFound
    <3>3. CASE d # c
      <4>1. d \in DOMAIN readings[2] => d \in DOMAIN readings'[2] /\ readings'[2][d] = readings[2][d]
        BY <2>1, <2>6
      <4> QED BY <2>2, <3>1, <3>2, <3>3, <4>1
    <3>4. CASE d = c
      <4>1. k \in shown[c] /\ readings[1][c][f][k] + workBetween[c][k] <= work[c][k]
        BY <2>2, <3>2, <3>4
      <4>2. c \in DOMAIN readings'[2] /\ readings'[2][c] = Published(c)
        BY <2>1, <2>4, <2>6, <3>4, <4>1
      <4>3. DOMAIN readings[1][c][f] # {}
        BY <3>1, <3>4
      <4>4. k \in DOMAIN Published(c)[f]
        <5>1. IsReading(readings[1][c])
          BY <1>1, <3>1, <3>4 DEF UsageTyped
        <5>2. f = "busy" => driver # "cycles"
          BY <4>3, <5>1 DEF IsReading
        <5>3. f = "cycles" => driver # "time"
          BY <4>3, <5>1 DEF IsReading
        <5> QED BY <2>3, <4>1, <5>2, <5>3 DEF Meters
      <4>5. readings'[2][c][f][k] = work[c][k]
        BY <2>3, <4>1, <4>2, <4>4
      <4> QED BY <2>2, <3>1, <3>4, <4>1, <4>2, <4>4, <4>5
    <3> QED BY <3>3, <3>4
  <2> QED BY <2>1, <2>5, <2>6
<1>10. CASE UNCHANGED usageVars
  <2>1. UNCHANGED <<walk, unread, readings, shown, readable, steady, work, workBetween>>
    BY <1>10 DEF usageVars, clientVars
  <2> QED BY <2>1 DEF SteadyAreFound
<1> QED BY <1>4, <1>5, <1>6, <1>7, <1>8, <1>9, <1>10 DEF UsageNext

---------------------------------------------------------------------------
(* Fractions.                                                              *)

IsFraction(r) == r = <<r[1], r[2]>> /\ r[1] \in Nat /\ r[2] \in Nat \ {0}

LEMMA TimesKeepsOrder ==
  ASSUME NEW a \in Int, NEW b \in Int, NEW c \in Nat, a <= b
  PROVE  a * c <= b * c
OBVIOUS

LEMMA TimesCancels ==
  ASSUME NEW a \in Int, NEW b \in Int, NEW c \in Nat \ {0}, a * c <= b * c
  PROVE  a <= b
<1> SUFFICES ASSUME b + 1 <= a PROVE FALSE
  OBVIOUS
<1>1. (b + 1) * c <= a * c
  BY TimesKeepsOrder
<1>2. (b + 1) * c = b * c + c
  OBVIOUS
<1> QED BY <1>1, <1>2

LEMMA AtMostIsTotal ==
  ASSUME NEW r, IsFraction(r), NEW q, IsFraction(q)
  PROVE  AtMost(r, q) \/ AtMost(q, r)
BY DEF AtMost, IsFraction

LEMMA AtMostIsTransitive ==
  ASSUME NEW r, IsFraction(r), NEW q, IsFraction(q), NEW p, IsFraction(p),
         AtMost(r, q), AtMost(q, p)
  PROVE  AtMost(r, p)
<1> DEFINE a == r[1]  b == r[2]  c == q[1]  d == q[2]  e == p[1]  f == p[2]
<1>1. /\ a \in Nat /\ b \in Nat \ {0} /\ c \in Nat /\ d \in Nat \ {0} /\ e \in Nat /\ f \in Nat \ {0}
      /\ a * d <= c * b /\ c * f <= e * d
  BY DEF IsFraction, AtMost
<1>2. SUFFICES a * f <= e * b
  BY DEF AtMost
<1> HIDE DEF a, b, c, d, e, f
<1>3. a * d \in Nat /\ c * b \in Nat /\ c * f \in Nat /\ e * d \in Nat /\ a * f \in Nat /\ e * b \in Nat
  BY <1>1
<1>4. (a * d) * f <= (c * b) * f /\ (c * f) * b <= (e * d) * b
  BY <1>1, <1>3, TimesKeepsOrder
<1>5. /\ (a * d) * f = (a * f) * d /\ (c * b) * f = (c * f) * b /\ (e * d) * b = (e * b) * d
  BY <1>1
<1>6. /\ (a * f) * d \in Nat /\ (c * f) * b \in Nat /\ (e * b) * d \in Nat
  BY <1>1, <1>3
<1>7. (a * f) * d <= (e * b) * d
  BY <1>4, <1>5, <1>6
<1> QED BY <1>1, <1>3, <1>7, TimesCancels

(* Of finitely many fractions none is above one, and none below one.       *)
LEMMA SomeLargest ==
  ASSUME NEW K, IsFiniteSet(K), K # {}, NEW s, \A k \in K : IsFraction(s[k])
  PROVE  \E k \in K : \A j \in K : AtMost(s[j], s[k])
<1> DEFINE Above(k) == {j \in K : ~AtMost(s[j], s[k])}
           T == {Above(k) : k \in K}
<1>1. T \subseteq SUBSET K /\ T # {}
  OBVIOUS
<1>2. \E t \in T : \A v \in T : v \subseteq t => v = t
  <2> HIDE DEF T
  <2> QED BY <1>1, Minimal
<1>3. PICK k \in K : \A j \in K : Above(j) \subseteq Above(k) => Above(j) = Above(k)
  <2> HIDE DEF Above
  <2>1. PICK t \in T : \A v \in T : v \subseteq t => v = t
    BY <1>2
  <2>2. PICK k \in K : t = Above(k)
    BY <2>1
  <2>3. \A j \in K : Above(j) \in T
    OBVIOUS
  <2> QED BY <2>1, <2>2, <2>3
<1>4. Above(k) = {}
  <2> SUFFICES ASSUME NEW j \in K, ~AtMost(s[j], s[k]) PROVE FALSE
    OBVIOUS
  <2>1. AtMost(s[k], s[j]) /\ AtMost(s[j], s[j])
    BY AtMostIsTotal
  <2>2. ASSUME NEW i \in K, ~AtMost(s[i], s[j]) PROVE ~AtMost(s[i], s[k])
    BY <2>1, <2>2, AtMostIsTransitive
  <2>3. Above(j) \subseteq Above(k) /\ j \in Above(k) /\ j \notin Above(j)
    BY <2>1, <2>2
  <2> QED BY <1>3, <2>3
<1> QED BY <1>4

LEMMA SomeSmallest ==
  ASSUME NEW K, IsFiniteSet(K), K # {}, NEW s, \A k \in K : IsFraction(s[k])
  PROVE  \E k \in K : \A j \in K : AtMost(s[k], s[j])
<1> DEFINE Below(k) == {j \in K : ~AtMost(s[k], s[j])}
           T == {Below(k) : k \in K}
<1>1. T \subseteq SUBSET K /\ T # {}
  OBVIOUS
<1>2. \E t \in T : \A v \in T : v \subseteq t => v = t
  <2> HIDE DEF T
  <2> QED BY <1>1, Minimal
<1>3. PICK k \in K : \A j \in K : Below(j) \subseteq Below(k) => Below(j) = Below(k)
  <2> HIDE DEF Below
  <2>1. PICK t \in T : \A v \in T : v \subseteq t => v = t
    BY <1>2
  <2>2. PICK k \in K : t = Below(k)
    BY <2>1
  <2>3. \A j \in K : Below(j) \in T
    OBVIOUS
  <2> QED BY <2>1, <2>2, <2>3
<1>4. Below(k) = {}
  <2> SUFFICES ASSUME NEW j \in K, ~AtMost(s[k], s[j]) PROVE FALSE
    OBVIOUS
  <2>1. AtMost(s[j], s[k]) /\ AtMost(s[j], s[j])
    BY AtMostIsTotal
  <2>2. ASSUME NEW i \in K, ~AtMost(s[j], s[i]) PROVE ~AtMost(s[k], s[i])
    BY <2>1, <2>2, AtMostIsTransitive
  <2>3. Below(j) \subseteq Below(k) /\ j \in Below(k) /\ j \notin Below(j)
    BY <2>1, <2>2
  <2> QED BY <1>3, <2>3
<1> QED BY <1>4

LEMMA LargestIsLargest ==
  ASSUME NEW K, IsFiniteSet(K), K # {}, NEW s, \A k \in K : IsFraction(s[k])
  PROVE  /\ Largest({s[k] : k \in K}) \in {s[k] : k \in K}
         /\ \A k \in K : AtMost(s[k], Largest({s[j] : j \in K}))
<1>1. PICK k \in K : \A j \in K : AtMost(s[j], s[k])
  BY SomeLargest
<1>2. \E r \in {s[j] : j \in K} : \A q \in {s[j] : j \in K} : AtMost(q, r)
  BY <1>1
<1> QED BY <1>2 DEF Largest

(* A fraction of at least 1 counts as 1, and that keeps their order.       *)
LEMMA ClampKeepsOrder ==
  ASSUME NEW r, IsFraction(r), NEW q, IsFraction(q), AtMost(r, q)
  PROVE  AtMost(Clamp(r), Clamp(q))
<1> DEFINE a == r[1]  b == r[2]  c == q[1]  d == q[2]
<1>1. /\ a \in Nat /\ b \in Nat \ {0} /\ c \in Nat /\ d \in Nat \ {0} /\ a * d <= c * b
  BY DEF IsFraction, AtMost
<1>2. CASE c > d
  <2>1. Clamp(q) = <<1, 1>>
    BY <1>2 DEF Clamp, Ratio
  <2>2. Clamp(r)[1] <= Clamp(r)[2] /\ Clamp(r)[1] \in Nat /\ Clamp(r)[2] \in Nat
    BY <1>1 DEF Clamp, Ratio
  <2> HIDE DEF a, b, c, d
  <2> QED BY <2>1, <2>2 DEF AtMost
<1>3. CASE ~(c > d)
  <2>1. a <= b
    <3> HIDE DEF a, b, c, d
    <3>1. c * b <= d * b
      BY <1>1, <1>3, TimesKeepsOrder
    <3>2. a * d <= b * d
      BY <1>1, <3>1
    <3> QED BY <1>1, <3>2, TimesCancels
  <2>2. Clamp(r) = r /\ Clamp(q) = q
    BY <1>1, <1>3, <2>1 DEF Clamp
  <2> QED BY <2>2
<1> QED BY <1>2, <1>3

(* The same once it is clamped: it is one of them, and no smaller than any.*)
LEMMA ClampedLargest ==
  ASSUME NEW K, IsFiniteSet(K), K # {}, NEW s, \A k \in K : IsFraction(s[k])
  PROVE  /\ IsFraction(Clamp(Largest({s[k] : k \in K})))
         /\ \E k \in K : Clamp(Largest({s[j] : j \in K})) = Clamp(s[k])
         /\ \A k \in K : AtMost(Clamp(s[k]), Clamp(Largest({s[j] : j \in K})))
<1> DEFINE L == Largest({s[k] : k \in K})
<1>1. PICK l \in K : L = s[l]
  BY LargestIsLargest
<1>2. \A k \in K : AtMost(s[k], s[l])
  BY <1>1, LargestIsLargest
<1> HIDE DEF L
<1>3. \A k \in K : IsFraction(Clamp(s[k]))
  BY DEF Clamp, Ratio, IsFraction
<1>4. \A k \in K : AtMost(Clamp(s[k]), Clamp(s[l]))
  BY <1>2, ClampKeepsOrder
<1> QED BY <1>1, <1>3, <1>4 DEF L

(* A share of at least the time is backed by more work over less time.     *)
LEMMA BackedShare ==
  ASSUME NEW sum \in Nat, NEW all \in Nat, sum <= all, NEW n \in Nat, NEW e \in Nat, NEW d \in Nat, d <= e
  PROVE  AtMost(Clamp(Ratio(sum, n * e)), Ratio(all, n * d))
<1>1. n * e \in Nat /\ n * d \in Nat /\ n * d <= n * e
  <2>1. d * n <= e * n
    BY TimesKeepsOrder
  <2> QED BY <2>1
<1> DEFINE x == n * e  y == n * d
<1>2. x \in Nat /\ y \in Nat /\ y <= x
  BY <1>1
<1> SUFFICES AtMost(Clamp(<<sum, x>>), <<all, y>>)
  BY DEF Ratio
<1> HIDE DEF x, y
<1>3. CASE sum > x
  <2>1. Clamp(<<sum, x>>) = <<1, 1>>
    BY <1>3 DEF Clamp, Ratio
  <2>2. y <= all
    BY <1>2, <1>3
  <2> QED BY <1>2, <2>1, <2>2 DEF AtMost
<1>4. CASE ~(sum > x)
  <2>1. Clamp(<<sum, x>>) = <<sum, x>>
    BY <1>4 DEF Clamp
  <2>2. y * sum <= x * sum /\ sum * x <= all * x
    BY <1>2, TimesKeepsOrder
  <2>3. sum * y <= all * x
    BY <1>2, <2>2
  <2> QED BY <2>1, <2>3 DEF AtMost
<1> QED BY <1>3, <1>4

(* And a share of at most the time is at least less work over more time.   *)
LEMMA CountedShare ==
  ASSUME NEW part \in Nat, NEW sum \in Nat, part <= sum, NEW n \in Nat, NEW e \in Nat, NEW d \in Nat, e <= d,
         part <= n * d
  PROVE  AtMost(Ratio(part, n * d), Clamp(Ratio(sum, n * e)))
<1>1. n * e \in Nat /\ n * d \in Nat /\ n * e <= n * d
  <2>1. e * n <= d * n
    BY TimesKeepsOrder
  <2> QED BY <2>1
<1> DEFINE x == n * e  y == n * d
<1>2. x \in Nat /\ y \in Nat /\ x <= y /\ part <= y
  BY <1>1
<1> SUFFICES AtMost(<<part, y>>, Clamp(<<sum, x>>))
  BY DEF Ratio
<1> HIDE DEF x, y
<1>3. CASE sum > x
  <2>1. Clamp(<<sum, x>>) = <<1, 1>>
    BY <1>3 DEF Clamp, Ratio
  <2> QED BY <1>2, <2>1 DEF AtMost
<1>4. CASE ~(sum > x)
  <2>1. Clamp(<<sum, x>>) = <<sum, x>>
    BY <1>4 DEF Clamp
  <2>2. part * x <= sum * x /\ x * sum <= y * sum
    BY <1>2, TimesKeepsOrder
  <2>3. part * x <= sum * y
    BY <1>2, <2>2
  <2> QED BY <2>1, <2>3 DEF AtMost
<1> QED BY <1>3, <1>4

(* The same for the largest of the fractions told.                         *)
LEMMA LargestOfBoth ==
  ASSUME NEW x, NEW B, IsFiniteSet(B), x \in B, \A r \in B : IsFraction(r)
  PROVE  Largest(B) \in B /\ \A r \in B : AtMost(r, Largest(B))
<1> DEFINE s == [r \in B |-> r]
<1>1. {s[r] : r \in B} = B
  OBVIOUS
<1>2. \A r \in B : IsFraction(s[r])
  OBVIOUS
<1> HIDE DEF s
<1>3. /\ Largest({s[r] : r \in B}) \in {s[r] : r \in B}
      /\ \A r \in B : AtMost(s[r], Largest({s[q] : q \in B}))
  BY <1>2, LargestIsLargest
<1> QED BY <1>1, <1>3 DEF s

LEMMA MaxIsLargest ==
  ASSUME NEW T \in SUBSET Nat, T # {}, NEW b \in Nat, \A x \in T : x <= b
  PROVE  Max(T) \in T /\ \A y \in T : y <= Max(T)
<1> DEFINE D == {b - x : x \in T}
<1>1. D \in SUBSET Nat /\ D # {}
  <2>1. \A x \in T : b - x \in Nat
    OBVIOUS
  <2>2. D \subseteq Nat /\ D # {}
    BY <2>1
  <2> QED BY <2>2
<1> HIDE DEF D
<1>2. PICK d \in D : \A e \in D : d <= e
  BY <1>1, Smallest
<1>3. PICK x \in T : d = b - x
  BY DEF D
<1>4. \A y \in T : b - x <= b - y
  BY <1>2, <1>3 DEF D
<1>5. \A y \in T : x >= y
  BY <1>4
<1>6. \E x1 \in T : \A y \in T : x1 >= y
  BY <1>5
<1>7. Max(T) \in T /\ \A y \in T : Max(T) >= y
  BY <1>6 DEF Max
<1> QED BY <1>7

---------------------------------------------------------------------------
(* What is told.                                                           *)

UsageInv == TInv /\ GainsAreWork /\ SteadyInv

LEMMA UsageInvHolds == UsageSpec => []UsageInv
<1>1. UsageInit => UsageInv
  BY UsageStarts, GainsStart, SteadyStart DEF UsageInv
<1>2. UsageInv /\ [UsageNext]_usageVars => UsageInv'
  BY TimesPreserved, GainsPreserved, SteadyPreserved, WorkTakesTimePreserved DEF UsageInv, SteadyInv
<1> QED BY <1>1, <1>2, PTL DEF UsageSpec

Elapsed == readAt[2] - readAt[1]

(* Differences of counters are what the clients gained, and add up to no   *)
(* more than the work.                                                     *)
LEMMA DeltasAreGains ==
  ASSUME UsageInv, walk = 3, NEW f \in Meters, NEW k \in Classes,
         NEW V \in SUBSET Comparable(readings[1], readings[2]),
         \A c \in V : k \in DOMAIN readings[1][c][f] \cap DOMAIN readings[2][c][f]
  PROVE  /\ IsFiniteSet(V) /\ V \subseteq Clients
         /\ [c \in V |-> Delta(readings[1], readings[2], f, c, k)] \in [V -> Nat]
         /\ SumOf([c \in V |-> Delta(readings[1], readings[2], f, c, k)]) \in Nat
         /\ SumOf([c \in V |-> Delta(readings[1], readings[2], f, c, k)]) <= workBegun[k]
<1> DEFINE s == [c \in V |-> Delta(readings[1], readings[2], f, c, k)]
           G == Gained(f, k)
<1>1. UsageTyped /\ unread = {}
  BY DEF UsageInv, TInv, Phases
<1>2. V \subseteq Clients /\ V \subseteq DOMAIN readings[1] \cap DOMAIN readings[2]
  BY <1>1 DEF Comparable, UsageTyped
<1>3. IsFiniteSet(V)
  BY <1>2, UsageConstants, FS_Subset
<1>4. ASSUME NEW c \in V
      PROVE  s[c] \in Nat /\ s[c] = G[c]
  <2>1. ~CountersRegressed(readings[1][c], readings[2][c])
    BY DEF Comparable
  <2>2. /\ k \in DOMAIN readings[1][c][f] /\ k \in DOMAIN readings[2][c][f]
        /\ readings[1][c][f][k] \in Nat /\ readings[2][c][f][k] \in Nat
    BY <1>1, <1>2 DEF UsageTyped, IsReading, Counts
  <2>3. ~(readings[2][c][f][k] < readings[1][c][f][k])
    BY <2>1, <2>2 DEF CountersRegressed, Meters
  <2>4. s[c] = readings[2][c][f][k] - readings[1][c][f][k]
    BY DEF Delta
  <2>5. G[c] = Excess(readings[2][c][f][k], readings[1][c][f][k])
    BY <1>1, <1>2, <2>2 DEF Gained, GainedBy
  <2> QED BY <2>2, <2>3, <2>4, <2>5 DEF Excess
<1>5. G \in [Clients -> Int] /\ G \in [Clients -> Nat] /\ SumOf(G) = SumOver(G, Clients)
  BY <1>1, GainedTyped
<1>6. s \in [V -> Nat] /\ s \in [V -> Int] /\ DOMAIN s = V
  BY <1>4
<1>7. SumOf(G) <= workBegun[k] /\ workBegun[k] \in Nat
  BY <1>1 DEF UsageInv, GainsAreWork, UsageTyped
<1> HIDE DEF s, G
<1>8. SumOver(s, V) = SumOver(G, V)
  BY <1>2, <1>3, <1>4, <1>5, <1>6, UsageConstants, SumSame
<1>9. SumOver(G, V) <= SumOver(G, Clients) /\ SumOver(G, V) \in Int /\ SumOver(G, Clients) \in Int
  BY <1>2, <1>5, UsageConstants, SumOfPart, SumType
<1>10. SumOver(s, V) \in Nat
  BY <1>3, <1>6, SumNat
<1>11. SumOf(s) \in Nat /\ SumOf(s) <= workBegun[k]
  BY <1>5, <1>6, <1>7, <1>8, <1>9, <1>10 DEF SumOf
<1> QED BY <1>2, <1>3, <1>6, <1>11 DEF s

(* What the readings at the end of the second walk give a class.           *)
TimeSum(k) == SumOf([c \in WithTime(readings[1], readings[2], k) |->
                       Delta(readings[1], readings[2], "busy", c, k)])
CycleSum(k) == SumOf([c \in WithCycles(readings[1], readings[2], k) |->
                        Delta(readings[1], readings[2], "cycles", c, k)])
CycleTotal(k) == Max({Delta(readings[1], readings[2], "total", c, k) :
                        c \in WithCycles(readings[1], readings[2], k)})

ByTime == EngineBusy(readings[1], readings[2], Elapsed)
ByCycles == CycleBusy(readings[1], readings[2])

(* Every share is of the work of its class, over a window that covers the  *)
(* time between the walks.                                                 *)
LEMMA TimeShares ==
  ASSUME UsageInv, walk = 3, NEW k \in Classes
  PROVE  /\ TimeSum(k) \in Nat /\ TimeSum(k) <= workBegun[k]
         /\ Elapsed \in Nat /\ began[2] - readAt[1] \in Nat
         /\ began[2] - readAt[1] <= Elapsed /\ Elapsed <= readAt[2]
<1>1. UsageTyped /\ ClocksInOrder
  BY DEF UsageInv, TInv
<1>2. readAt[1] \in Nat /\ readAt[2] \in Nat /\ began[2] \in Nat
  BY <1>1 DEF UsageTyped
<1>3. readAt[1] <= began[2] /\ began[2] <= readAt[2]
  BY <1>1 DEF ClocksInOrder
<1>4. WithTime(readings[1], readings[2], k) \in SUBSET Comparable(readings[1], readings[2])
  BY DEF WithTime
<1>5. \A c \in WithTime(readings[1], readings[2], k) :
        k \in DOMAIN readings[1][c]["busy"] \cap DOMAIN readings[2][c]["busy"]
  BY DEF WithTime
<1>6. TimeSum(k) \in Nat /\ TimeSum(k) <= workBegun[k]
  BY <1>4, <1>5, DeltasAreGains DEF TimeSum, Meters
<1> QED BY <1>2, <1>3, <1>6 DEF Elapsed

LEMMA CycleShares ==
  ASSUME UsageInv, walk = 3, NEW k \in Classes, WithCycles(readings[1], readings[2], k) # {}
  PROVE  /\ CycleSum(k) \in Nat /\ CycleSum(k) <= workBegun[k]
         /\ CycleTotal(k) \in Nat \ {0}
         /\ began[2] - readAt[1] <= CycleTotal(k) /\ CycleTotal(k) <= readAt[2]
<1> DEFINE V == WithCycles(readings[1], readings[2], k)
           T == {Delta(readings[1], readings[2], "total", c, k) : c \in V}
<1>1. UsageTyped /\ ClocksInOrder
  BY DEF UsageInv, TInv
<1>2. /\ V \in SUBSET Comparable(readings[1], readings[2])
      /\ \A c \in V : k \in DOMAIN readings[1][c]["cycles"] \cap DOMAIN readings[2][c]["cycles"]
  BY DEF WithCycles
<1>3. CycleSum(k) \in Nat /\ CycleSum(k) <= workBegun[k]
  BY <1>2, DeltasAreGains DEF CycleSum, Meters
<1>4. /\ readAt[1] \in Nat /\ readAt[2] \in Nat /\ began[2] \in Nat
      /\ readAt[1] <= began[2] /\ began[2] <= readAt[2]
  BY <1>1 DEF UsageTyped, ClocksInOrder
<1>5. ASSUME NEW c \in V
      PROVE  /\ Delta(readings[1], readings[2], "total", c, k) \in Nat \ {0}
             /\ began[2] - readAt[1] <= Delta(readings[1], readings[2], "total", c, k)
             /\ Delta(readings[1], readings[2], "total", c, k) <= readAt[2]
  <2>1. c \in DOMAIN readings[1] /\ c \in DOMAIN readings[2]
    BY <1>2 DEF Comparable
  <2>2. IsReading(readings[1][c]) /\ IsReading(readings[2][c])
    BY <1>1, <2>1 DEF UsageTyped
  <2>3. k \in DOMAIN readings[1][c]["total"] /\ k \in DOMAIN readings[2][c]["total"]
    BY <1>2, <2>2 DEF IsReading
  <2>4. readings[1][c]["total"][k] \in Nat /\ readings[2][c]["total"][k] \in Nat
    BY <2>2, <2>3 DEF IsReading, Counts
  <2>5. /\ readings[1][c]["total"][k] <= readAt[1]
        /\ began[2] <= readings[2][c]["total"][k] /\ readings[2][c]["total"][k] <= readAt[2]
    BY <1>1, <2>1, <2>3 DEF ClocksInOrder
  <2>6. Delta(readings[1], readings[2], "total", c, k) > 0
    BY DEF WithCycles
  <2>7. Delta(readings[1], readings[2], "total", c, k) = readings[2][c]["total"][k] - readings[1][c]["total"][k]
    BY DEF Delta
  <2> QED BY <1>4, <2>4, <2>5, <2>6, <2>7
<1>6. T \in SUBSET Nat /\ T # {} /\ \A x \in T : x <= readAt[2]
  BY <1>5
<1> HIDE DEF T
<1>7. Max(T) \in T
  BY <1>4, <1>6, MaxIsLargest
<1>8. PICK c \in V : Max(T) = Delta(readings[1], readings[2], "total", c, k)
  BY <1>7 DEF T
<1>9. CycleTotal(k) = Max(T)
  BY DEF CycleTotal, T
<1> QED BY <1>3, <1>5, <1>8, <1>9

(* Usage by time is one of the shares, clamped, and at least each of them. *)
LEMMA ByTimeIs ==
  ASSUME UsageInv, walk = 3
  PROVE  /\ IsFiniteSet(ByTime)
         /\ \A u \in ByTime : /\ IsFraction(u)
                              /\ \E k \in Classes : u = Clamp(Ratio(TimeSum(k), Instances[k] * Elapsed))
         /\ \A k \in Classes : Elapsed > 0 /\ WithTime(readings[1], readings[2], k) # {} =>
              \E u \in ByTime : AtMost(Clamp(Ratio(TimeSum(k), Instances[k] * Elapsed)), u)
<1> DEFINE K == {k \in Classes : WithTime(readings[1], readings[2], k) # {}}
           s == [k \in K |-> Ratio(TimeSum(k), Instances[k] * Elapsed)]
<1>1. ByTime = IF Elapsed <= 0 \/ {s[k] : k \in K} = {} THEN {} ELSE {Clamp(Largest({s[k] : k \in K}))}
  <2>1. {s[k] : k \in K} = {Ratio(TimeSum(k), Instances[k] * Elapsed) : k \in K}
    OBVIOUS
  <2> HIDE DEF s
  <2> QED BY <2>1 DEF ByTime, EngineBusy, TimeSum
<1>2. IsFiniteSet(K)
  BY UsageConstants, FS_Subset
<1>3. CASE Elapsed > 0 /\ K # {}
  <2>1. \A k \in K : IsFraction(s[k])
    <3> SUFFICES ASSUME NEW k \in K PROVE IsFraction(s[k])
      OBVIOUS
    <3>1. TimeSum(k) \in Nat /\ Elapsed \in Nat
      BY TimeShares
    <3>2. Instances[k] * Elapsed \in Nat \ {0}
      BY <1>3, <3>1, UsageConstants
    <3> QED BY <3>1, <3>2 DEF IsFraction, Ratio
  <2>2. \A k \in K : s[k] = Ratio(TimeSum(k), Instances[k] * Elapsed)
    OBVIOUS
  <2>3. Elapsed \in Nat
    BY <1>3, TimeShares
  <2> HIDE DEF K, s
  <2>4. /\ IsFraction(Clamp(Largest({s[k] : k \in K})))
        /\ \E k \in K : Clamp(Largest({s[j] : j \in K})) = Clamp(s[k])
        /\ \A k \in K : AtMost(Clamp(s[k]), Clamp(Largest({s[j] : j \in K})))
    BY <1>2, <1>3, <2>1, ClampedLargest
  <2>5. {s[k] : k \in K} # {} /\ ~(Elapsed <= 0)
    BY <1>3, <2>3
  <2>6. ByTime = {Clamp(Largest({s[k] : k \in K}))}
    BY <1>1, <2>5
  <2>7. IsFiniteSet(ByTime)
    BY <2>6, FS_Singleton
  <2> QED BY <2>2, <2>4, <2>6, <2>7 DEF K
<1>4. CASE ~(Elapsed > 0 /\ K # {})
  <2>1. K # {} => Elapsed <= 0
    <3>1. K # {} => Elapsed \in Int
      BY TimeShares
    <3> QED BY <1>4, <3>1
  <2>2. ByTime = {}
    <3> HIDE DEF K, s
    <3> QED BY <1>1, <2>1
  <2>3. IsFiniteSet(ByTime)
    BY <2>2, FS_EmptySet
  <2> QED BY <1>4, <2>2, <2>3
<1> QED BY <1>3, <1>4

(* And so is usage by cycles.                                              *)
LEMMA ByCyclesIs ==
  ASSUME UsageInv, walk = 3
  PROVE  /\ IsFiniteSet(ByCycles)
         /\ \A u \in ByCycles :
              /\ IsFraction(u)
              /\ \E k \in Classes : /\ WithCycles(readings[1], readings[2], k) # {}
                                    /\ u = Clamp(Ratio(CycleSum(k), Instances[k] * CycleTotal(k)))
         /\ \A k \in Classes : WithCycles(readings[1], readings[2], k) # {} =>
              \E u \in ByCycles : AtMost(Clamp(Ratio(CycleSum(k), Instances[k] * CycleTotal(k))), u)
<1> DEFINE K == {k \in Classes : WithCycles(readings[1], readings[2], k) # {}}
           s == [k \in K |-> Ratio(CycleSum(k), Instances[k] * CycleTotal(k))]
<1>1. ByCycles = IF {s[k] : k \in K} = {} THEN {} ELSE {Clamp(Largest({s[k] : k \in K}))}
  <2>1. {s[k] : k \in K} = {Ratio(CycleSum(k), Instances[k] * CycleTotal(k)) : k \in K}
    OBVIOUS
  <2> HIDE DEF s
  <2> QED BY <2>1 DEF ByCycles, CycleBusy, CycleSum, CycleTotal
<1>2. IsFiniteSet(K)
  BY UsageConstants, FS_Subset
<1>3. CASE K # {}
  <2>1. \A k \in K : IsFraction(s[k])
    <3> SUFFICES ASSUME NEW k \in K PROVE IsFraction(s[k])
      OBVIOUS
    <3>1. CycleSum(k) \in Nat /\ CycleTotal(k) \in Nat \ {0}
      BY CycleShares
    <3>2. Instances[k] * CycleTotal(k) \in Nat \ {0}
      BY <3>1, UsageConstants
    <3> QED BY <3>1, <3>2 DEF IsFraction, Ratio
  <2>2. \A k \in K : s[k] = Ratio(CycleSum(k), Instances[k] * CycleTotal(k))
    OBVIOUS
  <2> HIDE DEF K, s
  <2>3. /\ IsFraction(Clamp(Largest({s[k] : k \in K})))
        /\ \E k \in K : Clamp(Largest({s[j] : j \in K})) = Clamp(s[k])
        /\ \A k \in K : AtMost(Clamp(s[k]), Clamp(Largest({s[j] : j \in K})))
    BY <1>2, <1>3, <2>1, ClampedLargest
  <2>4. ByCycles = {Clamp(Largest({s[k] : k \in K}))}
    BY <1>1, <1>3
  <2>5. IsFiniteSet(ByCycles)
    BY <2>4, FS_Singleton
  <2> QED BY <2>2, <2>3, <2>4, <2>5 DEF K
<1>4. CASE K = {}
  <2>1. ByCycles = {}
    BY <1>1, <1>4
  <2>2. IsFiniteSet(ByCycles)
    BY <2>1, FS_EmptySet
  <2> QED BY <1>4, <2>1, <2>2
<1> QED BY <1>3, <1>4

(* What is told is one of the two, and not less than either.               *)
LEMMA ToldIs ==
  ASSUME UsageInv, walk = 3
  PROVE  /\ Told \subseteq ByTime \cup ByCycles
         /\ \A r \in ByTime \cup ByCycles : \E u \in Told : AtMost(r, u)
<1> DEFINE B == ByTime \cup ByCycles
<1>1. Told = IF B = {} THEN {} ELSE {Largest(B)}
  BY DEF Told, FDInfoBusy, ByTime, ByCycles, Elapsed
<1>2. IsFiniteSet(B) /\ \A r \in B : IsFraction(r)
  BY ByTimeIs, ByCyclesIs, FS_Union
<1> HIDE DEF B
<1>3. ASSUME NEW r \in B PROVE Largest(B) \in B /\ AtMost(r, Largest(B))
  BY <1>2, LargestOfBoth
<1>4. Told \subseteq B /\ \A r \in B : \E u \in Told : AtMost(r, u)
  BY <1>1, <1>3
<1> QED BY <1>4 DEF B

(* The usage told is backed by the work of a class since the first walk    *)
(* began, however the clients work, come, go, publish late and are read    *)
(* (fdinfoBusy).                                                           *)
THEOREM UsageBacked == UsageSpec => []UsageIsBacked
<1>1. UsageInv => UsageIsBacked
  <2> SUFFICES ASSUME UsageInv, walk = 3, NEW u \in Told
               PROVE  \E k \in Classes :
                        AtMost(u, Ratio(workBegun[k], Instances[k] * (began[2] - readAt[1])))
    BY DEF UsageIsBacked
  <2>1. u \in ByTime \/ u \in ByCycles
    BY ToldIs
  <2>2. \A k \in Classes : Instances[k] \in Nat /\ workBegun[k] \in Nat
    BY UsageConstants DEF UsageInv, TInv, UsageTyped
  <2>3. CASE u \in ByTime
    <3>1. PICK k \in Classes : u = Clamp(Ratio(TimeSum(k), Instances[k] * Elapsed))
      BY <2>3, ByTimeIs
    <3> QED BY <2>2, <3>1, TimeShares, BackedShare
  <2>4. CASE u \in ByCycles
    <3>1. PICK k \in Classes : /\ WithCycles(readings[1], readings[2], k) # {}
                               /\ u = Clamp(Ratio(CycleSum(k), Instances[k] * CycleTotal(k)))
      BY <2>4, ByCyclesIs
    <3>2. began[2] - readAt[1] \in Nat
      BY TimeShares
    <3> QED BY <2>2, <3>1, <3>2, CycleShares, BackedShare
  <2> QED BY <2>1, <2>3, <2>4
<1> QED BY <1>1, UsageInvHolds, PTL

(* A client that stays adds at least its work between the walks.           *)
LEMMA CountedWork ==
  ASSUME UsageInv, walk = 3, NEW f \in Meters, NEW k \in Classes,
         NEW V \in SUBSET Comparable(readings[1], readings[2]),
         \A c \in V : k \in DOMAIN readings[1][c][f] \cap DOMAIN readings[2][c][f],
         NEW W \in SUBSET V, W \subseteq steady
  PROVE  /\ SumOf([c \in W |-> workBetween[c][k]]) \in Nat
         /\ SumOf([c \in W |-> workBetween[c][k]])
              <= SumOf([c \in V |-> Delta(readings[1], readings[2], f, c, k)])
<1> DEFINE s == [c \in V |-> Delta(readings[1], readings[2], f, c, k)]
           e == [c \in V |-> workBetween[c][k]]
           t == [c \in W |-> workBetween[c][k]]
<1>1. UsageTyped /\ unread = {}
  BY DEF UsageInv, TInv, Phases
<1>2. IsFiniteSet(V) /\ V \subseteq Clients /\ s \in [V -> Nat] /\ s \in [V -> Int] /\ DOMAIN s = V
  <2>1. IsFiniteSet(V) /\ V \subseteq Clients /\ s \in [V -> Nat]
    BY DeltasAreGains
  <2> HIDE DEF s
  <2> QED BY <2>1
<1>3. IsFiniteSet(W)
  BY <1>2, FS_Subset
<1>4. \A c \in V : workBetween[c][k] \in Nat
  BY <1>1, <1>2 DEF UsageTyped
<1>5. e \in [V -> Int] /\ t \in [W -> Nat] /\ t \in [W -> Int] /\ DOMAIN t = W /\ \A c \in W : t[c] = e[c]
  BY <1>4
<1>6. \A c \in W : e[c] <= s[c]
  <2> SUFFICES ASSUME NEW c \in W PROVE e[c] <= s[c]
    OBVIOUS
  <2>1. c \in steady \cap DOMAIN readings[1] /\ k \in DOMAIN readings[1][c][f]
    BY DEF Comparable
  <2>2. readings[1][c][f][k] + workBetween[c][k] <= readings[2][c][f][k]
    BY <1>1, <2>1 DEF UsageInv, SteadyInv, SteadyAreFound
  <2>3. /\ readings[1][c][f][k] \in Nat /\ readings[2][c][f][k] \in Nat /\ workBetween[c][k] \in Nat
    BY <1>1, <1>2, <2>1 DEF UsageTyped, IsReading, Counts, Comparable
  <2>4. s[c] = readings[2][c][f][k] - readings[1][c][f][k] /\ e[c] = workBetween[c][k]
    BY DEF Delta
  <2> QED BY <2>2, <2>3, <2>4
<1> HIDE DEF s, e, t
<1>7. SumOver(t, W) = SumOver(e, W)
  BY <1>2, <1>3, <1>5, SumSame
<1>8. SumOver(e, W) <= SumOver(s, W) /\ SumOver(s, W) <= SumOver(s, V)
  BY <1>2, <1>5, <1>6, SumAtMost, SumOfPart
<1>9. /\ SumOver(t, W) \in Nat /\ SumOver(e, W) \in Int /\ SumOver(s, W) \in Int /\ SumOver(s, V) \in Int
  BY <1>2, <1>3, <1>5, SumNat, SumType
<1>10. SumOf(t) \in Nat /\ SumOf(t) <= SumOf(s)
  BY <1>2, <1>5, <1>7, <1>8, <1>9 DEF SumOf
<1> QED BY <1>10 DEF s, t

(* The work between the walks of some clients takes the time between them. *)
LEMMA PartTakesTime ==
  ASSUME UsageInv, walk = 3, NEW k \in Classes, NEW W \in SUBSET Clients
  PROVE  /\ SumOf([c \in W |-> workBetween[c][k]]) \in Nat
         /\ SumOf([c \in W |-> workBetween[c][k]]) <= Instances[k] * (began[2] - readAt[1])
<1> DEFINE e == [c \in Clients |-> workBetween[c][k]]
           t == [c \in W |-> workBetween[c][k]]
<1>1. \A c \in Clients : workBetween[c][k] \in Nat
  BY DEF UsageInv, TInv, UsageTyped
<1>2. /\ e \in [Clients -> Int] /\ e \in [Clients -> Nat] /\ DOMAIN e = Clients
      /\ t \in [W -> Nat] /\ t \in [W -> Int] /\ DOMAIN t = W /\ \A c \in W : t[c] = e[c]
  BY <1>1
<1>3. SumOf(e) <= Instances[k] * (began[2] - readAt[1])
  BY DEF UsageInv, SteadyInv, WorkTakesTime, Between
<1>4. IsFiniteSet(W)
  BY UsageConstants, FS_Subset
<1>5. began[2] - readAt[1] \in Nat /\ Instances[k] \in Nat
  BY TimeShares, UsageConstants
<1>6. Instances[k] * (began[2] - readAt[1]) \in Nat
  BY <1>5
<1> HIDE DEF e, t
<1>7. SumOver(t, W) = SumOver(e, W)
  BY <1>2, <1>4, UsageConstants, SumSame
<1>8. SumOver(e, W) <= SumOver(e, Clients)
  BY <1>2, UsageConstants, SumOfPart
<1>9. SumOver(t, W) \in Nat /\ SumOver(e, Clients) \in Int
  BY <1>2, <1>4, UsageConstants, SumNat, SumType
<1>10. SumOf(t) \in Nat /\ SumOf(t) <= Instances[k] * (began[2] - readAt[1])
  BY <1>2, <1>3, <1>6, <1>7, <1>8, <1>9 DEF SumOf
<1> QED BY <1>10 DEF t

(* A client that stays and published k in the first walk adds to k.        *)
LEMMA SteadyAdd ==
  ASSUME UsageInv, walk = 3, NEW f \in Meters, NEW k \in Classes,
         NEW c \in steady \cap DOMAIN readings[1], k \in DOMAIN readings[1][c][f]
  PROVE  /\ c \in Comparable(readings[1], readings[2])
         /\ k \in DOMAIN readings[1][c][f] \cap DOMAIN readings[2][c][f]
<1>1. UsageTyped /\ unread = {} /\ ClocksInOrder
  BY DEF UsageInv, TInv, Phases
<1>2. \A g \in Meters : \A l \in DOMAIN readings[1][c][g] :
        /\ c \in DOMAIN readings[2] /\ l \in DOMAIN readings[2][c][g]
        /\ readings[1][c][g][l] + workBetween[c][l] <= readings[2][c][g][l]
  BY <1>1 DEF UsageInv, SteadyInv, SteadyAreFound
<1>3. c \in DOMAIN readings[2] /\ c \in Clients
  BY <1>1, <1>2 DEF UsageTyped
<1>4. IsReading(readings[1][c]) /\ IsReading(readings[2][c])
  BY <1>1, <1>3 DEF UsageTyped
<1>5. ASSUME NEW g \in {"busy", "cycles", "total"},
             NEW l \in DOMAIN readings[2][c][g] \cap DOMAIN readings[1][c][g]
      PROVE  ~(readings[2][c][g][l] < readings[1][c][g][l])
  <2>1. readings[1][c][g][l] \in Nat /\ readings[2][c][g][l] \in Nat /\ l \in Classes
    BY <1>4, <1>5 DEF IsReading, Counts, Meters
  <2>2. workBetween[c][l] \in Nat
    BY <1>1, <1>3, <2>1 DEF UsageTyped
  <2>3. CASE g \in Meters
    BY <1>2, <2>1, <2>2, <2>3
  <2>4. CASE g = "total"
    <3>1. readings[1][c]["total"][l] <= readAt[1] /\ began[2] <= readings[2][c]["total"][l]
      BY <1>1, <1>3, <1>5, <2>4 DEF ClocksInOrder
    <3>2. readAt[1] <= began[2] /\ readAt[1] \in Nat /\ began[2] \in Nat
      BY <1>1 DEF ClocksInOrder, UsageTyped
    <3> QED BY <2>1, <2>4, <3>1, <3>2
  <2> QED BY <2>3, <2>4 DEF Meters
<1>6. ~CountersRegressed(readings[1][c], readings[2][c])
  BY <1>5 DEF CountersRegressed
<1> QED BY <1>2, <1>3, <1>6 DEF Comparable

(* Where a share is told of, so is any less work over any longer time.     *)
LEMMA CountedIsTold ==
  ASSUME UsageInv, walk = 3, NEW part \in Nat, NEW sum \in Nat, part <= sum,
         NEW n \in Nat \ {0}, NEW e \in Nat \ {0}, NEW d \in Nat, e <= d, part <= n * d,
         NEW x \in ByTime \cup ByCycles, AtMost(Clamp(Ratio(sum, n * e)), x)
  PROVE  \E u \in Told : AtMost(Ratio(part, n * d), u)
<1> DEFINE share == Clamp(Ratio(sum, n * e))
           least == Ratio(part, n * d)
<1>1. PICK u \in Told : AtMost(x, u)
  BY ToldIs
<1>2. IsFraction(x) /\ IsFraction(u)
  BY ToldIs, ByTimeIs, ByCyclesIs
<1>3. IsFraction(share) /\ IsFraction(least)
  <2>1. n * e \in Nat \ {0} /\ n * d \in Nat \ {0}
    OBVIOUS
  <2> QED BY <2>1 DEF IsFraction, Clamp, Ratio
<1>4. AtMost(least, share)
  BY CountedShare
<1> HIDE DEF share, least
<1>5. AtMost(share, x)
  BY DEF share
<1>6. AtMost(least, x)
  BY <1>2, <1>3, <1>4, <1>5, AtMostIsTransitive
<1>7. AtMost(least, u)
  BY <1>1, <1>2, <1>3, <1>6, AtMostIsTransitive
<1> QED BY <1>7 DEF least

(* What the clients that stayed did between the walks is in the usage told *)
(* (fdinfoBusy).                                                           *)
THEOREM SteadyCounts == UsageSpec => []SteadyWorkCounts
<1>1. UsageInv => SteadyWorkCounts
  <2> SUFFICES ASSUME UsageInv, walk = 3, NEW k \in Classes,
                      NEW counted,
                      counted = {c \in steady \cap DOMAIN readings[1] :
                                   \E f \in {"busy", "cycles"} : k \in DOMAIN readings[1][c][f]},
                      SumOf([c \in counted |-> workBetween[c][k]]) > 0
               PROVE  \E u \in Told :
                        AtMost(Ratio(SumOf([c \in counted |-> workBetween[c][k]]),
                                     Instances[k] * (readAt[2] - began[1])), u)
    BY DEF SteadyWorkCounts
  <2> DEFINE sum == SumOf([c \in counted |-> workBetween[c][k]])
             V == WithTime(readings[1], readings[2], k)
             Y == WithCycles(readings[1], readings[2], k)
  <2>1. UsageTyped /\ ClocksInOrder
    BY DEF UsageInv, TInv
  <2>2. counted \in SUBSET Clients /\ counted \subseteq steady
    BY <2>1 DEF UsageTyped
  <2>3. /\ sum \in Nat /\ sum <= Instances[k] * (began[2] - readAt[1])
    BY <2>2, PartTakesTime
  <2>4. /\ began[2] - readAt[1] \in Nat /\ began[2] - readAt[1] <= Elapsed /\ Elapsed \in Nat
        /\ Elapsed <= readAt[2] /\ Instances[k] \in Nat
        /\ readAt[2] - began[1] = readAt[2] /\ readAt[2] \in Nat
    BY <2>1, TimeShares, UsageConstants DEF ClocksInOrder, UsageTyped
  <2>5. began[2] - readAt[1] > 0 /\ Elapsed > 0
    <3>1. began[2] - readAt[1] = 0 => Instances[k] * (began[2] - readAt[1]) = 0
      BY <2>4
    <3> QED BY <2>3, <2>4, <3>1
  <2>6. sum <= Instances[k] * readAt[2]
    <3>1. (began[2] - readAt[1]) * Instances[k] <= readAt[2] * Instances[k]
      BY <2>4, TimesKeepsOrder
    <3> DEFINE d == began[2] - readAt[1]
    <3>2. d \in Nat /\ d * Instances[k] <= readAt[2] * Instances[k] /\ sum <= Instances[k] * d
      BY <2>3, <2>4, <3>1
    <3> HIDE DEF d, sum
    <3> QED BY <2>3, <2>4, <3>2
  <2>7. counted # {}
    <3> DEFINE t == [c \in counted |-> workBetween[c][k]]
    <3>1. DOMAIN t = counted
      OBVIOUS
    <3>2. counted = {} => t \in [{} -> Int]
      OBVIOUS
    <3> HIDE DEF t
    <3>3. counted = {} => SumOver(t, {}) = 0
      BY <3>2, FS_EmptySet, SumOfNone
    <3>4. counted = {} => SumOf(t) = 0
      BY <3>1, <3>3 DEF SumOf
    <3> QED BY <3>4 DEF t
  <2>8. CASE driver # "cycles"
    <3>1. \A c \in counted : k \in DOMAIN readings[1][c]["busy"]
      <4> SUFFICES ASSUME NEW c \in counted PROVE k \in DOMAIN readings[1][c]["busy"]
        OBVIOUS
      <4>1. IsReading(readings[1][c]) /\ driver \in {"time", "cycles", "both"}
        BY <2>1 DEF UsageTyped
      <4> QED BY <2>8, <4>1 DEF IsReading
    <3>2. counted \subseteq V
      BY <3>1, SteadyAdd DEF WithTime, Meters
    <3>3. V # {} /\ V \in SUBSET Comparable(readings[1], readings[2])
      BY <2>7, <3>2 DEF WithTime
    <3>4. \A c \in V : k \in DOMAIN readings[1][c]["busy"] \cap DOMAIN readings[2][c]["busy"]
      BY DEF WithTime
    <3>5. sum <= TimeSum(k)
      BY <2>2, <3>2, <3>3, <3>4, CountedWork DEF TimeSum, Meters
    <3>6. TimeSum(k) \in Nat
      BY TimeShares
    <3>7. PICK x \in ByTime : AtMost(Clamp(Ratio(TimeSum(k), Instances[k] * Elapsed)), x)
      BY <2>5, <3>3, ByTimeIs
    <3>8. Instances[k] \in Nat \ {0} /\ Elapsed \in Nat \ {0} /\ x \in ByTime \cup ByCycles
      BY <2>4, <2>5, UsageConstants
    <3> HIDE DEF sum
    <3>9. \E u \in Told : AtMost(Ratio(sum, Instances[k] * readAt[2]), u)
      BY <2>3, <2>4, <2>6, <3>5, <3>6, <3>7, <3>8, CountedIsTold
    <3> QED BY <2>4, <3>9 DEF sum
  <2>9. CASE driver = "cycles"
    <3>1. \A c \in counted : k \in DOMAIN readings[1][c]["cycles"]
      <4> SUFFICES ASSUME NEW c \in counted PROVE k \in DOMAIN readings[1][c]["cycles"]
        OBVIOUS
      <4>1. IsReading(readings[1][c])
        BY <2>1 DEF UsageTyped
      <4> QED BY <2>9, <4>1 DEF IsReading
    <3>2. ASSUME NEW c \in counted PROVE c \in Y
      <4>1. /\ c \in Comparable(readings[1], readings[2])
            /\ k \in DOMAIN readings[1][c]["cycles"] \cap DOMAIN readings[2][c]["cycles"]
        BY <3>1, SteadyAdd DEF Meters
      <4>2. c \in DOMAIN readings[1] /\ c \in DOMAIN readings[2]
        BY <4>1 DEF Comparable
      <4>3. IsReading(readings[1][c]) /\ IsReading(readings[2][c])
        BY <2>1, <4>2 DEF UsageTyped
      <4>4. k \in DOMAIN readings[1][c]["total"] /\ k \in DOMAIN readings[2][c]["total"]
        BY <4>1, <4>3 DEF IsReading
      <4>5. readings[1][c]["total"][k] \in Nat /\ readings[2][c]["total"][k] \in Nat
        BY <4>3, <4>4 DEF IsReading, Counts
      <4>6. readings[1][c]["total"][k] <= readAt[1] /\ began[2] <= readings[2][c]["total"][k]
        BY <2>1, <4>2, <4>4 DEF ClocksInOrder
      <4>7. readAt[1] \in Nat /\ began[2] \in Nat
        BY <2>1 DEF UsageTyped
      <4>8. readings[2][c]["total"][k] - readings[1][c]["total"][k] > 0
        BY <2>5, <4>5, <4>6, <4>7
      <4> QED BY <4>1, <4>8 DEF WithCycles, Delta
    <3>3. counted \subseteq Y /\ Y # {} /\ Y \in SUBSET Comparable(readings[1], readings[2])
      BY <2>7, <3>2 DEF WithCycles
    <3>4. \A c \in Y : k \in DOMAIN readings[1][c]["cycles"] \cap DOMAIN readings[2][c]["cycles"]
      BY DEF WithCycles
    <3>5. sum <= CycleSum(k)
      BY <2>2, <3>3, <3>4, CountedWork DEF CycleSum, Meters
    <3>6. CycleSum(k) \in Nat /\ CycleTotal(k) \in Nat \ {0} /\ CycleTotal(k) <= readAt[2]
      BY <3>3, CycleShares
    <3>7. PICK x \in ByCycles : AtMost(Clamp(Ratio(CycleSum(k), Instances[k] * CycleTotal(k))), x)
      BY <3>3, ByCyclesIs
    <3>8. Instances[k] \in Nat \ {0}
      BY UsageConstants
    <3> HIDE DEF sum
    <3>9. \E u \in Told : AtMost(Ratio(sum, Instances[k] * readAt[2]), u)
      BY <2>3, <2>4, <2>5, <2>6, <3>5, <3>6, <3>7, <3>8, CountedIsTold
    <3> QED BY <2>4, <3>9 DEF sum
  <2> QED BY <2>8, <2>9
<1> QED BY <1>1, UsageInvHolds, PTL
=============================================================================
