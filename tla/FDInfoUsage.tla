---------------------------- MODULE FDInfoUsage ----------------------------
(***************************************************************************)
(* fdinfoBusy: what two walks over the DRM clients of one device tell      *)
(* about it, while the clients work, come, go and are read one by one.     *)
(* When the walks happen is GPUEngines' business.                          *)
(*                                                                         *)
(* Time and work are in the same unit: an engine class with one instance   *)
(* does at most one unit of work per unit of time.  Drivers publish engine *)
(* time (i915, amdgpu), cycles with the clock they are counted on (xe), or *)
(* both.                                                                   *)
(***************************************************************************)
EXTENDS Ratios, Sums

CONSTANTS
  Clients,        \* ids of DRM clients
  Classes,        \* engine classes
  Instances,      \* Instances[k]: how many engines class k has
  MaxTime,        \* bound: the time until the end of the second walk
  MaxChanges      \* bound: how often clients are replaced, opened or publish a class

ASSUME UsageConstants ==
  /\ IsFiniteSet(Clients) /\ IsFiniteSet(Classes)
  /\ Instances \in [Classes -> Nat \ {0}] /\ MaxTime \in Nat /\ MaxChanges \in Nat

VARIABLES
  driver,         \* what it publishes
  now,
  work,           \* work[c][k]: what client c has done on class k
  shown,          \* the classes a client publishes
  readable,       \* the clients that processes of this user hold
  changes,
  walk, unread,   \* the walk, 3 after the second, and whom it has not read
  readings,       \* readings[w]: the clients walk w found (s.fdPrev, clients)
  readAt,         \* readAt[w]: s.now() after the walk
  (* History.                                                              *)
  began,          \* began[w]: when walk w began
  workBegun,      \* the work per class since the first walk began
  workBetween,    \* the work per client and class between the walks
  steady          \* the clients that stayed since the first walk began

clientVars == <<driver, now, work, shown, readable, changes, workBegun, workBetween, steady>>
usageVars == <<clientVars, walk, unread, readings, readAt, began>>

Walking == unread # {}
NoReadings == [c \in {} |-> 0]

---------------------------------------------------------------------------
(* The clients.  In a unit of time every class does work for at most as    *)
(* many clients as it has instances.                                       *)

Work(f) ==
  /\ walk < 3 /\ now < MaxTime
  /\ now' = now + 1
  /\ work' = [c \in Clients |-> [k \in Classes |-> work[c][k] + IF c \in f[k] THEN 1 ELSE 0]]
  /\ workBegun' = [k \in Classes |-> workBegun[k] + Cardinality(f[k])]
  /\ workBetween' = [c \in Clients |-> [k \in Classes |->
       workBetween[c][k] + IF walk = 1 /\ ~Walking /\ c \in f[k] THEN 1 ELSE 0]]
  /\ UNCHANGED <<driver, shown, readable, changes, steady, walk, unread, readings, readAt, began>>

Change == walk < 3 /\ changes < MaxChanges /\ changes' = changes + 1

(* A driver may begin to publish a class long after its first work.        *)
Publish(c, k) ==
  /\ Change /\ k \notin shown[c]
  /\ shown' = [shown EXCEPT ![c] = @ \cup {k}]
  /\ UNCHANGED <<driver, now, work, readable, workBegun, workBetween, steady,
                 walk, unread, readings, readAt, began>>

(* A client exits, and its id is given to a new one.                       *)
Replace(c) ==
  /\ Change
  /\ work' = [work EXCEPT ![c] = [k \in Classes |-> 0]]
  /\ shown' = [shown EXCEPT ![c] = {}]
  /\ readable' = readable \ {c}
  /\ workBetween' = [workBetween EXCEPT ![c] = [k \in Classes |-> 0]]
  /\ steady' = steady \ {c}
  /\ UNCHANGED <<driver, now, workBegun, walk, unread, readings, readAt, began>>

(* A process of this user opens or inherits the client.                    *)
BecomeReadable(c) ==
  /\ Change /\ c \notin readable
  /\ readable' = readable \cup {c}
  /\ UNCHANGED <<driver, now, work, shown, workBegun, workBetween, steady,
                 walk, unread, readings, readAt, began>>

---------------------------------------------------------------------------
(* The walks.                                                              *)

BeginSecondWalk ==
  /\ walk = 1 /\ ~Walking
  /\ walk' = 2 /\ unread' = Clients
  /\ began' = [began EXCEPT ![2] = now]
  /\ UNCHANGED <<clientVars, readings, readAt>>

(* parseDRMFDInfo, and readDRMClients' rule for clients without counters.  *)
Published(c) ==
  [busy   |-> [k \in IF driver = "cycles" THEN {} ELSE shown[c] |-> work[c][k]],
   cycles |-> [k \in IF driver = "time" THEN {} ELSE shown[c] |-> work[c][k]],
   total  |-> [k \in IF driver = "time" THEN {} ELSE shown[c] |-> now]]

ReadClient(c) ==
  /\ c \in unread
  /\ unread' = unread \ {c}
  /\ readings' = IF c \in readable /\ shown[c] # {}
                 THEN [readings EXCEPT ![walk] = [d \in DOMAIN @ \cup {c} |->
                         IF d = c THEN Published(c) ELSE @[d]]]
                 ELSE readings
  /\ readAt' = IF unread = {c} THEN [readAt EXCEPT ![walk] = now] ELSE readAt
  /\ walk' = IF unread = {c} /\ walk = 2 THEN 3 ELSE walk
  /\ UNCHANGED <<clientVars, began>>

---------------------------------------------------------------------------
(* fdinfoBusy on two walks.                                                *)

(* countersRegressed: one counter that went back disqualifies the client.  *)
CountersRegressed(before, cur) ==
  \E f \in {"busy", "cycles", "total"} : \E k \in DOMAIN cur[f] \cap DOMAIN before[f] :
    cur[f][k] < before[f][k]

Comparable(prev, cur) ==
  {c \in DOMAIN cur \cap DOMAIN prev : ~CountersRegressed(prev[c], cur[c])}

Delta(prev, cur, f, c, k) == cur[c][f][k] - prev[c][f][k]

(* Who adds to a class: clients that published it in both walks, and for   *)
(* cycles those whose clock moved.                                         *)
WithTime(prev, cur, k) ==
  {c \in Comparable(prev, cur) : k \in DOMAIN cur[c].busy \cap DOMAIN prev[c].busy}
WithCycles(prev, cur, k) ==
  {c \in Comparable(prev, cur) : /\ k \in DOMAIN cur[c].cycles \cap DOMAIN prev[c].cycles
                                 /\ Delta(prev, cur, "total", c, k) > 0}

(* Slip: a class that is new on a client counts from zero.                 *)
EngineBusyFromZero(prev, cur, elapsed) ==
  LET base(c, k) == IF k \in DOMAIN prev[c].busy THEN prev[c].busy[k] ELSE 0
      with(k) == {c \in Comparable(prev, cur) : k \in DOMAIN cur[c].busy}
      share(k) == Ratio(SumOf([c \in with(k) |-> cur[c].busy[k] - base(c, k)]),
                        Instances[k] * elapsed)
      shares == {share(k) : k \in {k \in Classes : with(k) # {}}}
  IN IF elapsed <= 0 \/ shares = {} THEN {} ELSE {Clamp(Largest(shares))}

EngineBusy(prev, cur, elapsed) ==
  LET share(k) == Ratio(SumOf([c \in WithTime(prev, cur, k) |-> Delta(prev, cur, "busy", c, k)]),
                        Instances[k] * elapsed)
      shares == {share(k) : k \in {k \in Classes : WithTime(prev, cur, k) # {}}}
  IN IF elapsed <= 0 \/ shares = {} THEN {} ELSE {Clamp(Largest(shares))}

(* Slip: the clocks of the clients add up as their cycles do.              *)
CycleBusyOfSums(prev, cur) ==
  LET total(k) == SumOf([c \in WithCycles(prev, cur, k) |-> Delta(prev, cur, "total", c, k)])
      share(k) == Ratio(SumOf([c \in WithCycles(prev, cur, k) |-> Delta(prev, cur, "cycles", c, k)]),
                        Instances[k] * total(k))
      shares == {share(k) : k \in {k \in Classes : WithCycles(prev, cur, k) # {}}}
  IN IF shares = {} THEN {} ELSE {Clamp(Largest(shares))}

CycleBusy(prev, cur) ==
  LET total(k) == Max({Delta(prev, cur, "total", c, k) : c \in WithCycles(prev, cur, k)})
      share(k) == Ratio(SumOf([c \in WithCycles(prev, cur, k) |-> Delta(prev, cur, "cycles", c, k)]),
                        Instances[k] * total(k))
      shares == {share(k) : k \in {k \in Classes : WithCycles(prev, cur, k) # {}}}
  IN IF shares = {} THEN {} ELSE {Clamp(Largest(shares))}

(* The larger of the two where there are both.                             *)
FDInfoBusy(prev, cur, elapsed) ==
  LET both == EngineBusy(prev, cur, elapsed) \cup CycleBusy(prev, cur)
  IN IF both = {} THEN {} ELSE {Largest(both)}

UsageInit ==
  /\ driver \in {"time", "cycles", "both"}
  /\ now = 0 /\ walk = 1 /\ unread = Clients
  /\ work = [c \in Clients |-> [k \in Classes |-> 1]]
  /\ \E s \in SUBSET Classes : shown = [c \in Clients |-> s]
  /\ readable \in SUBSET Clients /\ changes = 0
  /\ readings = [w \in {1, 2} |-> NoReadings] /\ readAt = [w \in {1, 2} |-> 0]
  /\ began = [w \in {1, 2} |-> 0]
  /\ workBegun = [k \in Classes |-> 0]
  /\ workBetween = [c \in Clients |-> [k \in Classes |-> 0]]
  /\ steady = readable

UsageNext ==
  \/ \E f \in [Classes -> SUBSET Clients] :
       (\A k \in Classes : Cardinality(f[k]) <= Instances[k]) /\ Work(f)
  \/ \E c \in Clients : Replace(c) \/ BecomeReadable(c) \/ ReadClient(c)
  \/ \E c \in Clients, k \in Classes : Publish(c, k)
  \/ BeginSecondWalk

UsageSpec == UsageInit /\ [][UsageNext]_usageVars

---------------------------------------------------------------------------
(* Properties.                                                             *)

Told == FDInfoBusy(readings[1], readings[2], readAt[2] - readAt[1])

(* The usage told is never more than the work done since the first walk    *)
(* began, on some class, over the time between the walks: clients that     *)
(* are new, come back under a used id or publish a class late bring no     *)
(* work of earlier times into it (fdinfoBusy).                             *)
UsageIsBacked ==
  walk = 3 => \A u \in Told : \E k \in Classes :
    AtMost(u, Ratio(workBegun[k], Instances[k] * (began[2] - readAt[1])))

(* And what the clients that were there all the time did between the walks *)
(* is never missing from it.                                               *)
SteadyWorkCounts ==
  walk = 3 => \A k \in Classes :
    LET counted == {c \in steady \cap DOMAIN readings[1] :
                      \E f \in {"busy", "cycles"} : k \in DOMAIN readings[1][c][f]}
        sum == SumOf([c \in counted |-> workBetween[c][k]])
    IN sum > 0 => \E u \in Told : AtMost(Ratio(sum, Instances[k] * (readAt[2] - began[1])), u)
=============================================================================
