--------------------------- MODULE Process_proofs ---------------------------
(***************************************************************************)
(* The window of a sample covers both readings of every process, for any   *)
(* set of PIDs and any scheduling.  The argument is a potential: while a   *)
(* process lives, its ticks since a reading never exceed the ticks of the  *)
(* aggregate since the total that was read before that reading.  The       *)
(* second part shows the types, and that the shares miss nothing, the      *)
(* third that they add up.  The last part is about the reader of a         *)
(* process' memory, which runs against the same kernel.                    *)
(***************************************************************************)
EXTENDS ProcessSampler, ProcessMemory, Sums_proofs, TLAPS

(* The part of the types that the argument needs.                          *)
Typed ==
  /\ TableTypeOK
  /\ before \in Nat /\ previousTotal \in Nat
  /\ at = Nobody \/ at \in Identity
  /\ Ticks(current) /\ Ticks(previous)

(* The readings f, taken after the aggregate was t.                        *)
Covers(t, f) ==
  /\ t <= total
  /\ \A id \in DOMAIN f :
       /\ id[2] <= owner[id[1]]
       /\ alive[id[1]] /\ owner[id[1]] = id[2] =>
            cpu[id[1]] + t <= f[id] + total

(* Between two readings of one process the aggregate went at least as far. *)
WindowHolds ==
  \A id \in DOMAIN current \cap DOMAIN previous :
    current[id] + previousTotal <= previous[id] + total

IInv ==
  /\ Typed
  /\ before <= total
  /\ pc = "idle" => current = Nothing
  /\ Covers(before, current)
  /\ Covers(previousTotal, previous)
  /\ WindowHolds
  /\ CPUWindowCovers

(* What a step of the kernel does to the totals, whatever it is.           *)
LEMMA KernelStep ==
  ASSUME TableTypeOK, Kernel
  PROVE  /\ TableTypeOK'
         /\ total <= total'
         /\ \A p \in PIDs :
              /\ owner[p] <= owner'[p]
              /\ alive'[p] /\ owner'[p] = owner[p] =>
                   /\ alive[p] /\ cpu'[p] + total <= cpu[p] + total'
                   /\ cpu[p] <= cpu'[p]
<1> USE TableConstants DEF TableTypeOK
<1> DEFINE Goal ==
      /\ TableTypeOK'
      /\ total <= total'
      /\ \A p \in PIDs :
           /\ owner[p] <= owner'[p]
           /\ alive'[p] /\ owner'[p] = owner[p] =>
                /\ alive[p] /\ cpu'[p] + total <= cpu[p] + total'
                /\ cpu[p] <= cpu'[p]
<1>1. CASE Idle
  BY <1>1 DEF Idle
<1>2. ASSUME NEW p \in PIDs, Spawn(p) PROVE Goal
  BY <1>2 DEF Spawn
<1>3. ASSUME NEW p \in PIDs, Exit(p) PROVE Goal
  BY <1>3 DEF Exit
<1>4. ASSUME NEW p \in PIDs, Run(p) PROVE Goal
  BY <1>4 DEF Run
<1>5. ASSUME NEW p \in PIDs, DoIO(p) PROVE Goal
  BY <1>5 DEF DoIO
<1>6. QED
  BY <1>1, <1>2, <1>3, <1>4, <1>5 DEF Kernel

(* A step of the kernel leaves what was read covered.                      *)
LEMMA KernelCovers ==
  ASSUME TableTypeOK, Kernel, NEW t \in Nat, NEW f, Ticks(f), Covers(t, f)
  PROVE  /\ t <= total'
         /\ \A id \in DOMAIN f :
              /\ id[2] <= owner'[id[1]]
              /\ alive'[id[1]] /\ owner'[id[1]] = id[2] =>
                   cpu'[id[1]] + t <= f[id] + total'
<1>1. t <= total'
  BY KernelStep DEF Covers, TableTypeOK
<1>2. ASSUME NEW id \in DOMAIN f
      PROVE  /\ id[2] <= owner'[id[1]]
             /\ alive'[id[1]] /\ owner'[id[1]] = id[2] =>
                  cpu'[id[1]] + t <= f[id] + total'
  <2> DEFINE p == id[1]
  <2>1. p \in PIDs /\ id[2] \in Nat /\ f[id] \in Nat
    BY <1>2 DEF Ticks, Identity
  <2>2. /\ owner[p] \in Nat /\ owner'[p] \in Nat /\ cpu[p] \in Nat
        /\ cpu'[p] \in Nat /\ total \in Nat /\ total' \in Nat
    BY <2>1, KernelStep DEF TableTypeOK
  <2>3. /\ owner[p] <= owner'[p] /\ id[2] <= owner[p]
    BY <2>1, KernelStep DEF Covers
  <2>4. ASSUME alive'[p], owner'[p] = id[2]
        PROVE  cpu'[p] + t <= f[id] + total'
    <3>1. owner'[p] = owner[p]
      BY <2>1, <2>2, <2>3, <2>4
    <3>2. alive[p] /\ cpu'[p] + total <= cpu[p] + total'
      BY <2>1, <2>4, <3>1, KernelStep
    <3>3. cpu[p] + t <= f[id] + total
      BY <2>4, <3>1, <3>2 DEF Covers
    <3>4. QED
      BY <2>1, <2>2, <3>2, <3>3
  <2>5. QED
    BY <2>1, <2>2, <2>3, <2>4
<1>3. QED
  BY <1>1, <1>2

(* The sampler starts without readings.                                    *)
LEMMA InitEstablishes == Init => IInv
BY TableConstants
   DEF Init, TableInit, IInv, Typed, TableTypeOK, Ticks, Nothing, Nobody,
       Covers, WindowHolds, CPUWindowCovers, NoRates

(* Every step keeps the readings covered, and a sample that completes      *)
(* hands over its own total together with its own readings.                *)
LEMMA NextPreserves == IInv /\ [Next]_vars => IInv'
<1> SUFFICES ASSUME IInv, [Next]_vars PROVE IInv'
  OBVIOUS
<1> USE TableConstants DEF IInv, Typed, tableVars, history, baselineVars
<1>0. total \in Nat
  BY DEF TableTypeOK
<1>1. ASSUME UNCHANGED <<tableVars, before, current, previousTotal, previous>>,
             at' = Nobody \/ at' \in Identity, pc' # "idle",
             snapshot' = snapshot \/ snapshot' = NoRates
      PROVE  IInv'
  BY <1>1 DEF TableTypeOK, Ticks, Covers, WindowHolds, CPUWindowCovers, NoRates
<1>2. ASSUME UNCHANGED <<tableVars, previousTotal, previous>>, EndSample,
             snapshot' = NoRates
      PROVE  IInv'
  BY <1>0, <1>2 DEF EndSample, TableTypeOK, Ticks, Covers, WindowHolds,
                    CPUWindowCovers, NoRates, Nothing
<1>3. CASE ReadTotalBefore
  BY <1>0, <1>3 DEF ReadTotalBefore, TableTypeOK, Ticks, Covers, WindowHolds,
                    CPUWindowCovers, NoRates, Nothing
<1>4. CASE ListProc
  BY <1>1, <1>4 DEF ListProc
<1>5. ASSUME NEW p \in PIDs, ReadStat(p) PROVE IInv'
  <2> DEFINE id == <<p, owner[p]>>
  <2>1. /\ id \in Identity /\ cpu[p] \in 0..MaxTotal
        /\ id[1] = p /\ id[2] = owner[p] /\ owner[p] \in Nat
    BY <1>5 DEF ReadStat, TableTypeOK, Identity
  <2>2. /\ current' = [y \in DOMAIN current \cup {id} |->
                         IF y = id THEN cpu[p] ELSE current[y]]
        /\ UNCHANGED <<tableVars, before, previousTotal, previous, snapshot>>
        /\ at' = id /\ pc' = "io"
    BY <1>5 DEF ReadStat, Put
  <2>3. Ticks(current)'
    BY <2>1, <2>2 DEF Ticks
  <2>4. Covers(before, current)'
    BY <1>0, <2>1, <2>2 DEF Covers, Ticks
  <2>5. WindowHolds'
    <3>1. ASSUME NEW y \in DOMAIN current' \cap DOMAIN previous'
          PROVE  current'[y] + previousTotal' <= previous'[y] + total'
      <4>1. CASE y = id
        <5>1. cpu[p] + previousTotal <= previous[y] + total
          BY <1>5, <2>1, <2>2, <3>1, <4>1 DEF ReadStat, Covers
        <5>2. QED
          BY <2>2, <3>1, <4>1, <5>1
      <4>2. CASE y # id
        BY <2>2, <3>1, <4>2 DEF WindowHolds
      <4>3. QED
        BY <4>1, <4>2
    <3>2. QED
      BY <3>1 DEF WindowHolds
  <2>6. TableTypeOK' /\ Ticks(previous)' /\ Covers(previousTotal, previous)'
    BY <2>2 DEF TableTypeOK, Ticks, Covers
  <2>7. QED
    BY <2>1, <2>2, <2>3, <2>4, <2>5, <2>6 DEF CPUWindowCovers
<1>6. ASSUME NEW p \in PIDs, SkipProcess(p) PROVE IInv'
  BY <1>1, <1>6 DEF SkipProcess
<1>7. CASE ReadIO \/ SkipIO
  BY <1>1, <1>7 DEF ReadIO, SkipIO, NextProcess
<1>8. ASSUME NEW elapsed \in BOOLEAN, Finish(elapsed) PROVE IInv'
  <2>1. /\ snapshot' = Rates(elapsed) /\ UNCHANGED tableVars
        /\ previousTotal' = before /\ previous' = current
        /\ before' = 0 /\ current' = Nothing /\ at' = Nobody
    BY <1>8 DEF Finish, Commit, EndSample
  <2>2. CPUWindowCovers'
    <3> DEFINE delta(id) == current[id] - previous[id]
               valid == {id \in Comparable : Window > 0 /\ delta(id) <= Window}
    <3>1. Rates(elapsed).refused = IF Window > 0 THEN Comparable \ valid ELSE {}
      BY DEF Rates
    <3>2. ASSUME Window > 0, NEW id \in Comparable
          PROVE  delta(id) <= Window
      <4>1. Window = total - previousTotal
        BY <1>0, <3>2 DEF Window
      <4>2. id \in DOMAIN current \cap DOMAIN previous
        BY <3>2 DEF Comparable
      <4>3. current[id] \in Nat /\ previous[id] \in Nat
        BY <4>2 DEF Ticks
      <4>4. QED
        BY <1>0, <4>1, <4>2, <4>3 DEF WindowHolds
    <3>3. Rates(elapsed).refused = {}
      BY <3>1, <3>2
    <3>4. QED
      BY <2>1, <3>3 DEF CPUWindowCovers
  <2>3. QED
    BY <1>0, <2>1, <2>2 DEF TableTypeOK, Ticks, Covers, WindowHolds, Nothing
<1>9. CASE ListProcFails \/ ReadTotalAfterFails
  BY <1>2, <1>9 DEF ListProcFails, ReadTotalAfterFails, ReturnError
<1>10. CASE Kernel /\ UNCHANGED samplerVars
  <2>1. UNCHANGED <<pc, before, at, current, previousTotal, previous, snapshot>>
    BY <1>10 DEF samplerVars
  <2>2. TableTypeOK' /\ total <= total' /\ total' \in Nat
    BY <1>10, KernelStep DEF TableTypeOK
  <2>3. Covers(before, current)' /\ Covers(previousTotal, previous)'
    <3>1. ASSUME NEW t \in Nat, NEW f, Ticks(f), Covers(t, f)
          PROVE  /\ t <= total'
                 /\ \A id \in DOMAIN f :
                      /\ id[2] <= owner'[id[1]]
                      /\ alive'[id[1]] /\ owner'[id[1]] = id[2] =>
                           cpu'[id[1]] + t <= f[id] + total'
      BY <1>10, <3>1, KernelCovers
    <3>2. QED
      BY <2>1, <3>1 DEF Covers
  <2>4. WindowHolds'
    BY <1>0, <2>1, <2>2 DEF WindowHolds, Ticks
  <2>5. QED
    BY <1>0, <2>1, <2>2, <2>3, <2>4 DEF Ticks, CPUWindowCovers
<1>11. CASE UNCHANGED vars
  BY <1>11 DEF vars, samplerVars, TableTypeOK, Ticks, Covers, WindowHolds,
               CPUWindowCovers
<1>12. QED
  BY <1>3, <1>4, <1>5, <1>6, <1>7, <1>8, <1>9, <1>10, <1>11 DEF Next, Sampler

(* No process is refused for running more than the window: the window from *)
(* before the previous walk to after this one covers both of its readings, *)
(* failed samples and reused PIDs included (ProcessSampler.Sample).        *)
THEOREM WindowCovers == Spec => []CPUWindowCovers
<1>1. IInv => CPUWindowCovers
  BY DEF IInv
<1>2. QED
  BY <1>1, InitEstablishes, NextPreserves, PTL DEF Spec
---------------------------------------------------------------------------
(* Types, and what the shares count.                                       *)

(* Readings never ahead of the processes they are of.                      *)
Behind(f) ==
  \A id \in DOMAIN f :
    /\ id[2] <= owner[id[1]]
    /\ alive[id[1]] /\ owner[id[1]] = id[2] => f[id] <= cpu[id[1]]

(* The readings f, of the identities it shares with g, are at most g's.    *)
UpTo(f, g) == \A id \in DOMAIN f \cap DOMAIN g : f[id] <= g[id]

(* This sample's readings lie between the ticks at its beginning and now,  *)
(* and the baseline's readings are not past the end of its sample.         *)
SInv ==
  /\ TypeOK
  /\ pc = "idle" => current = Nothing
  /\ Behind(current) /\ Behind(begun)
  /\ UpTo(begun, current)
  /\ UpTo(previous, ended)

LEMMA KernelBehind ==
  ASSUME TableTypeOK, Kernel, NEW f, Ticks(f), Behind(f)
  PROVE  \A id \in DOMAIN f :
           /\ id[2] <= owner'[id[1]]
           /\ alive'[id[1]] /\ owner'[id[1]] = id[2] => f[id] <= cpu'[id[1]]
<1> SUFFICES ASSUME NEW id \in DOMAIN f
    PROVE  /\ id[2] <= owner'[id[1]]
           /\ alive'[id[1]] /\ owner'[id[1]] = id[2] => f[id] <= cpu'[id[1]]
  OBVIOUS
<1> DEFINE p == id[1]
<1>1. p \in PIDs /\ id[2] \in Nat /\ f[id] \in Nat
  BY DEF Ticks, Identity
<1>2. /\ owner[p] \in Nat /\ owner'[p] \in Nat
      /\ cpu[p] \in Nat /\ cpu'[p] \in Nat
  BY <1>1, KernelStep, TableConstants DEF TableTypeOK
<1>3. /\ id[2] <= owner[p] /\ owner[p] <= owner'[p]
  BY <1>1, KernelStep DEF Behind
<1>4. ASSUME alive'[p], owner'[p] = id[2] PROVE f[id] <= cpu'[p]
  <2>1. owner'[p] = owner[p]
    BY <1>1, <1>2, <1>3, <1>4
  <2>2. alive[p] /\ cpu[p] <= cpu'[p]
    BY <1>1, <1>4, <2>1, KernelStep
  <2>3. f[id] <= cpu[p]
    BY <1>4, <2>1, <2>2 DEF Behind
  <2>4. QED
    BY <1>1, <1>2, <2>2, <2>3
<1>5. QED
  BY <1>1, <1>2, <1>3, <1>4

(* The ticks of every process at this moment are readings of this moment.  *)
LEMMA NowIsTyped ==
  ASSUME TableTypeOK
  PROVE  /\ Ticks(Now) /\ Behind(Now)
         /\ \A id \in DOMAIN Now :
              /\ alive[id[1]] /\ owner[id[1]] = id[2]
              /\ Now[id] = cpu[id[1]]
<1>1. \A id \in Identity : id[1] \in PIDs /\ id[2] \in 1..MaxOwners
  BY DEF Identity
<1>2. \A q \in PIDs : cpu[q] \in 0..MaxTotal /\ owner[q] \in 0..MaxOwners
  BY DEF TableTypeOK
<1>3. QED
  BY <1>1, <1>2, TableConstants DEF Ticks, Behind, Now

(* The rates of a sample have their types.                                 *)
LEMMA RatesTyped ==
  ASSUME TypeOK, NEW elapsed \in BOOLEAN
  PROVE  /\ Rates(elapsed).window \in 0..MaxTotal
         /\ Ticks(Rates(elapsed).shares)
         /\ Rates(elapsed).refused \subseteq Identity
         /\ \A id \in DOMAIN Rates(elapsed).shares :
              /\ id \in DOMAIN current \cap DOMAIN previous
              /\ Rates(elapsed).shares[id] = current[id] - previous[id]
<1> DEFINE delta(id) == current[id] - previous[id]
           valid == {id \in Comparable : Window > 0 /\ delta(id) <= Window}
<1>1. Window \in 0..MaxTotal
  BY TableConstants DEF Window, TypeOK, TableTypeOK
<1>2. /\ Rates(elapsed).window = Window
      /\ Rates(elapsed).shares = [id \in valid |-> delta(id)]
      /\ Rates(elapsed).refused = IF Window > 0 THEN Comparable \ valid ELSE {}
  BY DEF Rates
<1>3. ASSUME NEW id \in Comparable
      PROVE  /\ id \in Identity /\ delta(id) \in 0..MaxTotal
             /\ id \in DOMAIN current \cap DOMAIN previous
  <2>1. /\ id \in DOMAIN current /\ id \in DOMAIN previous
        /\ current[id] >= previous[id]
    BY <1>3 DEF Comparable
  <2>2. /\ id \in Identity
        /\ current[id] \in 0..MaxTotal /\ previous[id] \in 0..MaxTotal
    BY <2>1 DEF TypeOK, Ticks
  <2>3. QED
    BY <2>1, <2>2, TableConstants
<1>4. QED
  BY <1>1, <1>2, <1>3 DEF Ticks

LEMMA InitBehind == Init => SInv
<1> SUFFICES ASSUME Init PROVE SInv
  OBVIOUS
<1>1. Ticks(Nothing) /\ Counts(Nothing) /\ Behind(Nothing) /\ UpTo(Nothing, Nothing)
  BY DEF Ticks, Counts, Behind, UpTo, Nothing
<1>2. TableTypeOK
  BY TableConstants DEF Init, TableInit, TableTypeOK
<1>3. /\ snapshot.window = 0 /\ snapshot.shares = Nothing /\ snapshot.refused = {}
  BY DEF Init, NoRates
<1>4. /\ before \in 0..MaxTotal /\ previousTotal \in 0..MaxTotal
      /\ snapshot.window \in 0..MaxTotal
  BY <1>3, TableConstants DEF Init
<1>5. /\ Ticks(current) /\ Ticks(previous) /\ Ticks(ended) /\ Ticks(begun)
      /\ Ticks(snapshot.shares) /\ Counts(currentIO) /\ Counts(previousIO)
  BY <1>1, <1>3 DEF Init
<1>6. TypeOK
  BY <1>2, <1>3, <1>4, <1>5 DEF Init, TypeOK
<1>7. QED
  BY <1>1, <1>6 DEF Init, SInv

LEMMA NextBehind == SInv /\ [Next]_vars => SInv'
<1> SUFFICES ASSUME SInv, [Next]_vars PROVE SInv'
  OBVIOUS
<1> USE TableConstants DEF SInv, tableVars, history, baselineVars
<1>1. Ticks(Nothing) /\ Counts(Nothing) /\ Behind(Nothing)
      /\ \A f : UpTo(f, Nothing)
  BY DEF Ticks, Counts, Behind, UpTo, Nothing
<1>2. ASSUME UNCHANGED <<tableVars, baselineVars, history>>, EndSample,
             snapshot' = NoRates
      PROVE  SInv'
  BY <1>1, <1>2 DEF EndSample, TypeOK, TableTypeOK, Ticks, Counts, NoRates, Nothing,
                    Nobody, Behind, UpTo
<1>3. CASE ReadTotalBefore
  <2>1. /\ before' = total /\ snapshot' = NoRates /\ begun' = Now /\ pc' = "list"
        /\ UNCHANGED <<tableVars, todo, at, current, currentIO, baselineVars, ended>>
        /\ current = Nothing
    BY <1>3 DEF ReadTotalBefore
  <2>2. Ticks(Now) /\ Behind(Now)
    BY NowIsTyped DEF TypeOK
  <2>3. TypeOK'
    BY <1>1, <2>1, <2>2 DEF TypeOK, TableTypeOK, Ticks, Counts, NoRates, Nothing
  <2>4. Behind(current)' /\ Behind(begun)' /\ UpTo(begun, current)'
        /\ UpTo(previous, ended)'
    BY <1>1, <2>1, <2>2 DEF Behind, UpTo, Nothing
  <2>5. QED
    BY <2>1, <2>3, <2>4
<1>4. CASE ListProc
  BY <1>4 DEF ListProc, TypeOK, TableTypeOK, Ticks, Counts, Behind, UpTo
<1>5. ASSUME NEW p \in PIDs, ReadStat(p) PROVE SInv'
  <2> DEFINE id == <<p, owner[p]>>
  <2>1. /\ id \in Identity /\ cpu[p] \in 0..MaxTotal
        /\ id[1] = p /\ id[2] = owner[p] /\ owner[p] \in Nat
    BY <1>5 DEF ReadStat, TypeOK, TableTypeOK, Identity
  <2>2. /\ current' = [y \in DOMAIN current \cup {id} |->
                         IF y = id THEN cpu[p] ELSE current[y]]
        /\ at' = id /\ pc' = "io" /\ alive[p]
        /\ UNCHANGED <<tableVars, before, todo, currentIO, baselineVars, snapshot,
                       history>>
    BY <1>5 DEF ReadStat, Put
  <2>3. TypeOK'
    <3>1. Ticks(current)'
      BY <2>1, <2>2 DEF TypeOK, Ticks
    <3>2. QED
      BY <2>1, <2>2, <3>1 DEF TypeOK, TableTypeOK, Ticks, Counts
  <2>4. Behind(current)'
    BY <2>1, <2>2 DEF Behind
  <2>5. UpTo(begun, current)'
    <3>1. id \in DOMAIN begun => begun[id] <= cpu[p]
      BY <2>1, <2>2 DEF Behind
    <3>2. QED
      BY <2>2, <3>1 DEF UpTo
  <2>6. QED
    BY <2>2, <2>3, <2>4, <2>5 DEF Behind, UpTo
<1>6. ASSUME NEW p \in PIDs, SkipProcess(p) PROVE SInv'
  BY <1>6 DEF SkipProcess, TypeOK, TableTypeOK, Ticks, Counts, Behind, UpTo
<1>7. ASSUME pc = "io", NextProcess, Counts(currentIO)', UNCHANGED tableVars PROVE SInv'
  BY <1>7 DEF NextProcess, TypeOK, TableTypeOK, Ticks, Counts, Behind, UpTo
<1>8. CASE ReadIO
  <2>1. at \in Identity /\ at[1] \in PIDs
    BY <1>8 DEF ReadIO, TypeOK, Identity
  <2>2. /\ io[at[1]] \in 0..MaxIO /\ owner[at[1]] \in 1..MaxOwners
    BY <1>8, <2>1 DEF ReadIO, TypeOK, TableTypeOK
  <2>3. Counts(currentIO)'
    <3> DEFINE reading == [count |-> io[at[1]], of |-> owner[at[1]]]
    <3>1. currentIO' = [y \in DOMAIN currentIO \cup {at} |->
                          IF y = at THEN reading ELSE currentIO[y]]
      BY <1>8 DEF ReadIO, Put
    <3>2. reading \in [count: 0..MaxIO, of: 1..MaxOwners]
      BY <2>2
    <3> HIDE DEF reading
    <3>3. QED
      BY <2>1, <3>1, <3>2 DEF TypeOK, Counts
  <2>4. QED
    BY <1>7, <1>8, <2>3 DEF ReadIO, NextProcess
<1>9. CASE SkipIO
  BY <1>7, <1>9 DEF SkipIO, NextProcess, TypeOK, Counts
<1>10. ASSUME NEW elapsed \in BOOLEAN, Finish(elapsed) PROVE SInv'
  <2>1. /\ snapshot' = Rates(elapsed) /\ ended' = Now
        /\ hasPrevious' = TRUE /\ previousTotal' = before
        /\ previous' = current /\ previousIO' = currentIO
        /\ pc' = "idle" /\ before' = 0 /\ todo' = {} /\ at' = Nobody
        /\ current' = Nothing /\ currentIO' = Nothing
        /\ UNCHANGED <<tableVars, begun>>
    BY <1>10 DEF Finish, Commit, EndSample
  <2>2. Ticks(Now)
    BY NowIsTyped DEF TypeOK
  <2>3. UpTo(current, Now)
    BY NowIsTyped DEF UpTo, Behind, TypeOK
  <2>4. TypeOK'
    BY <1>1, <2>1, <2>2, RatesTyped DEF TypeOK, TableTypeOK, Ticks, Counts
  <2>5. Behind(current)' /\ Behind(begun)' /\ UpTo(begun, current)'
    BY <1>1, <2>1 DEF Behind, UpTo, Nothing
  <2>6. UpTo(previous, ended)'
    BY <2>1, <2>3 DEF UpTo
  <2>7. QED
    BY <2>1, <2>4, <2>5, <2>6
<1>11. CASE ListProcFails \/ ReadTotalAfterFails
  BY <1>2, <1>11 DEF ListProcFails, ReadTotalAfterFails, ReturnError
<1>12. CASE Kernel /\ UNCHANGED samplerVars
  <2>1. UNCHANGED samplerVars /\ TableTypeOK /\ TableTypeOK'
    BY <1>12, KernelStep DEF TypeOK
  <2>2. TypeOK'
    BY <2>1 DEF samplerVars, TypeOK, Ticks, Counts
  <2>3. Behind(current)' /\ Behind(begun)'
    <3>1. \A id \in DOMAIN current :
            /\ id[2] <= owner'[id[1]]
            /\ alive'[id[1]] /\ owner'[id[1]] = id[2] => current[id] <= cpu'[id[1]]
      BY <1>12, <2>1, KernelBehind DEF TypeOK
    <3>2. \A id \in DOMAIN begun :
            /\ id[2] <= owner'[id[1]]
            /\ alive'[id[1]] /\ owner'[id[1]] = id[2] => begun[id] <= cpu'[id[1]]
      BY <1>12, <2>1, KernelBehind DEF TypeOK
    <3>3. QED
      BY <2>1, <3>1, <3>2 DEF samplerVars, Behind
  <2>4. QED
    BY <2>1, <2>2, <2>3 DEF samplerVars, UpTo
<1>13. CASE UNCHANGED vars
  BY <1>13 DEF vars, samplerVars, TypeOK, TableTypeOK, Ticks, Counts, Behind, UpTo
<1>14. QED
  BY <1>3, <1>4, <1>5, <1>6, <1>8, <1>9, <1>10, <1>11, <1>12, <1>13 DEF Next, Sampler

(* What a sample shows counts every tick from the end of the sample its    *)
(* baseline was read in to its own beginning.                              *)
LEMMA StepMissesNothing ==
  ASSUME SInv, [Next]_vars, snapshot' # snapshot,
         NEW id \in DOMAIN snapshot'.shares \cap DOMAIN ended \cap DOMAIN begun
  PROVE  snapshot'.shares[id] + ended[id] >= begun[id]
<1>1. CASE \E elapsed \in BOOLEAN : Finish(elapsed)
  <2>1. PICK elapsed \in BOOLEAN : snapshot' = Rates(elapsed)
    BY <1>1 DEF Finish
  <2>2. /\ id \in DOMAIN current \cap DOMAIN previous
        /\ snapshot'.shares[id] = current[id] - previous[id]
    BY <2>1, RatesTyped DEF SInv
  <2>3. /\ current[id] \in 0..MaxTotal /\ previous[id] \in 0..MaxTotal
        /\ ended[id] \in 0..MaxTotal /\ begun[id] \in 0..MaxTotal
    BY <2>2 DEF SInv, TypeOK, Ticks
  <2>4. begun[id] <= current[id] /\ previous[id] <= ended[id]
    BY <2>2 DEF SInv, UpTo
  <2>5. QED
    BY <2>2, <2>3, <2>4, TableConstants
<1>2. CASE snapshot' = NoRates
  BY <1>2 DEF NoRates, Nothing
<1>3. QED
  BY <1>1, <1>2
     DEF Next, Sampler, vars, samplerVars, ReadTotalBefore, ListProc, ReadStat,
         SkipProcess, ReadIO, SkipIO, NextProcess,
         ListProcFails, ReadTotalAfterFails, ReturnError

(* Every variable of the sampler and of the process table has its type;    *)
(* the identity under the cursor is one while its files are read.          *)
THEOREM SamplerTyped == Spec => []TypeOK
<1>1. SInv => TypeOK
  BY DEF SInv
<1>2. QED
  BY <1>1, InitBehind, NextBehind, PTL DEF Spec

(* A share misses no tick between two completed samples, however many      *)
(* samples failed in between (the baselines of ProcessSampler.Sample).     *)
THEOREM NothingMissed == Spec => SharesMissNothing
<1>1. SInv /\ [Next]_vars =>
        [\A id \in DOMAIN snapshot'.shares \cap DOMAIN ended \cap DOMAIN begun :
           snapshot' # snapshot =>
             snapshot'.shares[id] + ended[id] >= begun[id]]_vars
  BY StepMissesNothing
<1>2. QED
  BY <1>1, InitBehind, NextBehind, PTL DEF Spec, SharesMissNothing
---------------------------------------------------------------------------
(* The shares add up.                                                      *)

(* What every process gained since its reading in f: until now while it    *)
(* lives, and until its reading in g once it is gone (a, o and c are the   *)
(* table's alive, owner and cpu).                                          *)
Gain(a, o, c, f, g) ==
  [id \in Identity |->
     IF id \notin DOMAIN f THEN 0
     ELSE IF a[id[1]] /\ o[id[1]] = id[2] THEN c[id[1]] - f[id]
     ELSE IF id \in DOMAIN g THEN g[id] - f[id]
     ELSE 0]

(* What all processes gained since the readings f fits into what the       *)
(* aggregate gained since it was t.                                        *)
GainsFit(t, f, g) == SumOf(Gain(alive, owner, cpu, f, g)) + t <= total

AInv ==
  /\ Behind(previous) /\ UpTo(previous, current)
  /\ GainsFit(previousTotal, previous, current)
  /\ GainsFit(before, current, Nothing)
  /\ CPUSharesAddUp

LEMMA IdentitiesAreFinite == IsFiniteSet(Identity)
<1>1. IsFiniteSet(PIDs) /\ 1 \in Int /\ MaxOwners \in Int
  BY TableConstants
<1>2. IsFiniteSet(1..MaxOwners)
  BY <1>1, FS_Interval
<1> QED BY <1>1, <1>2, FS_Product DEF Identity

(* Readings of processes in f are not ahead of those in g, nor of now.     *)
LEMMA GainTyped ==
  ASSUME TableTypeOK, NEW f, Ticks(f), Behind(f), NEW g, Ticks(g), UpTo(f, g)
  PROVE  /\ Gain(alive, owner, cpu, f, g) \in [Identity -> Int]
         /\ \A id \in Identity : Gain(alive, owner, cpu, f, g)[id] \in Nat
         /\ SumOf(Gain(alive, owner, cpu, f, g)) \in Nat
<1> DEFINE G == Gain(alive, owner, cpu, f, g)
<1>1. ASSUME NEW id \in Identity PROVE G[id] \in Nat
  <2>1. id[1] \in PIDs /\ cpu[id[1]] \in Nat
    BY <1>1 DEF Identity, TableTypeOK
  <2>2. /\ id \in DOMAIN f => f[id] \in Nat
        /\ id \in DOMAIN g => g[id] \in Nat
    BY DEF Ticks
  <2>3. id \in DOMAIN f /\ alive[id[1]] /\ owner[id[1]] = id[2] => f[id] <= cpu[id[1]]
    BY DEF Behind
  <2>4. id \in DOMAIN f /\ id \in DOMAIN g => f[id] <= g[id]
    BY DEF UpTo
  <2> QED BY <1>1, <2>1, <2>2, <2>3, <2>4 DEF Gain
<1>2. G \in [Identity -> Int] /\ DOMAIN G = Identity
  BY <1>1 DEF Gain
<1> HIDE DEF G
<1>3. SumOver(G, Identity) \in Nat
  BY <1>1, <1>2, SumNat, IdentitiesAreFinite
<1> QED BY <1>1, <1>2, <1>3 DEF SumOf, G

(* Gains that are no larger, process by process, have no larger sum.       *)
LEMMA GainsFall ==
  ASSUME NEW G \in [Identity -> Int], NEW H \in [Identity -> Int],
         \A id \in Identity : H[id] <= G[id]
  PROVE  SumOf(H) <= SumOf(G)
BY SumAtMost, IdentitiesAreFinite DEF SumOf

(* A step of the kernel adds no more to all gains than to the aggregate.   *)
LEMMA KernelGains ==
  ASSUME TableTypeOK, Kernel, NEW f, Ticks(f), Behind(f), NEW g, Ticks(g), Behind(g), UpTo(f, g)
  PROVE  /\ SumOf(Gain(alive', owner', cpu', f, g)) + total
              <= SumOf(Gain(alive, owner, cpu, f, g)) + total'
         /\ SumOf(Gain(alive', owner', cpu', f, g)) \in Int
<1> DEFINE G == Gain(alive, owner, cpu, f, g)
           H == Gain(alive', owner', cpu', f, g)
<1>1. TableTypeOK'
  BY KernelStep
<1>2. G \in [Identity -> Int] /\ DOMAIN G = Identity
  BY GainTyped DEF Gain
<1>3. H \in [Identity -> Int] /\ DOMAIN H = Identity
  <2>1. ASSUME NEW id \in Identity PROVE H[id] \in Int
    <3>1. id[1] \in PIDs /\ cpu'[id[1]] \in Nat
      BY <1>1 DEF Identity, TableTypeOK
    <3>2. /\ id \in DOMAIN f => f[id] \in Nat
          /\ id \in DOMAIN g => g[id] \in Nat
      BY DEF Ticks
    <3> QED BY <3>1, <3>2 DEF Gain
  <2> QED BY <2>1 DEF Gain
<1>4. total \in Nat /\ total' \in Nat
  BY <1>1 DEF TableTypeOK
<1>5. ASSUME NEW T \in SUBSET Identity, Cardinality(T) \in Nat, total + Cardinality(T) <= total',
             \A id \in Identity : H[id] <= G[id] + IF id \in T THEN 1 ELSE 0
      PROVE  SumOf(H) + total <= SumOf(G) + total'
  <2> HIDE DEF G, H
  <2>1. SumOver(H, Identity) <= SumOver(G, Identity) + Cardinality(T)
    BY <1>2, <1>3, <1>5, SumGrows, IdentitiesAreFinite
  <2>2. SumOver(H, Identity) \in Int /\ SumOver(G, Identity) \in Int
    BY <1>2, <1>3, SumType, IdentitiesAreFinite
  <2> QED BY <1>2, <1>3, <1>4, <1>5, <2>1, <2>2 DEF SumOf
<1>6. ASSUME \A id \in Identity : H[id] <= G[id], total <= total'
      PROVE  SumOf(H) + total <= SumOf(G) + total'
  <2>1. Cardinality({}) = 0
    BY FS_EmptySet
  <2> HIDE DEF G, H
  <2>2. \A id \in Identity : H[id] <= G[id] + IF id \in {} THEN 1 ELSE 0
    BY <1>2, <1>6
  <2> QED BY <1>4, <1>5, <1>6, <2>1, <2>2
<1>7. ASSUME NEW id \in Identity
      PROVE  /\ id[1] \in PIDs /\ cpu[id[1]] \in Nat /\ owner[id[1]] \in Nat /\ id[2] \in Nat
             /\ id \in DOMAIN f => f[id] \in Nat /\ id[2] <= owner[id[1]]
             /\ id \in DOMAIN g => g[id] \in Nat
             /\ alive[id[1]] /\ owner[id[1]] = id[2] =>
                  /\ id \in DOMAIN f => f[id] <= cpu[id[1]]
                  /\ id \in DOMAIN g => g[id] <= cpu[id[1]]
  BY DEF Identity, TableTypeOK, Ticks, Behind
<1>8. ASSUME Idle PROVE SumOf(H) + total <= SumOf(G) + total'
  <2>1. H = G /\ total <= total'
    BY <1>4, <1>8 DEF Idle
  <2> QED BY <1>2, <1>6, <2>1
<1>9. ASSUME NEW p \in PIDs, Spawn(p) PROVE SumOf(H) + total <= SumOf(G) + total'
  <2>1. ASSUME NEW id \in Identity PROVE H[id] <= G[id]
    <3>1. CASE id[1] = p
      <4>1. owner'[p] = owner[p] + 1 /\ ~alive[p]
        BY <1>9 DEF Spawn, TableTypeOK
      <4>2. id \in DOMAIN f => owner'[p] # id[2]
        BY <1>7, <3>1, <4>1
      <4>3. H[id] = G[id]
        BY <3>1, <4>1, <4>2 DEF Gain
      <4> QED BY <1>2, <4>3
    <3>2. CASE id[1] # p
      <4>1. /\ owner'[id[1]] = owner[id[1]] /\ alive'[id[1]] = alive[id[1]]
            /\ cpu'[id[1]] = cpu[id[1]]
        BY <1>7, <1>9, <3>2 DEF Spawn, TableTypeOK
      <4>2. H[id] = G[id]
        BY <4>1 DEF Gain
      <4> QED BY <1>2, <4>2
    <3> QED BY <3>1, <3>2
  <2>2. total <= total'
    BY <1>4, <1>9 DEF Spawn
  <2> HIDE DEF G, H
  <2> QED BY <1>6, <2>1, <2>2
<1>10. ASSUME NEW p \in PIDs, Exit(p) PROVE SumOf(H) + total <= SumOf(G) + total'
  <2>1. ASSUME NEW id \in Identity PROVE H[id] <= G[id]
    <3>1. CASE id[1] = p
      <4>1. owner'[p] = owner[p] /\ alive[p] /\ ~alive'[p]
        BY <1>10 DEF Exit, TableTypeOK
      <4>2. H[id] = IF id \in DOMAIN f /\ id \in DOMAIN g THEN g[id] - f[id] ELSE 0
        BY <3>1, <4>1 DEF Gain
      <4>3. CASE id \in DOMAIN f /\ owner[p] = id[2]
        <5>1. G[id] = cpu[p] - f[id]
          BY <3>1, <4>1, <4>3 DEF Gain
        <5> QED BY <1>7, <3>1, <4>1, <4>2, <4>3, <5>1
      <4>4. CASE ~(id \in DOMAIN f /\ owner[p] = id[2])
        <5>1. G[id] = H[id]
          BY <3>1, <4>1, <4>4 DEF Gain
        <5> QED BY <1>2, <5>1
      <4> QED BY <4>3, <4>4
    <3>2. CASE id[1] # p
      <4>1. /\ owner'[id[1]] = owner[id[1]] /\ alive'[id[1]] = alive[id[1]]
            /\ cpu'[id[1]] = cpu[id[1]]
        BY <1>7, <1>10, <3>2 DEF Exit, TableTypeOK
      <4>2. H[id] = G[id]
        BY <4>1 DEF Gain
      <4> QED BY <1>2, <4>2
    <3> QED BY <3>1, <3>2
  <2>2. total <= total'
    BY <1>4, <1>10 DEF Exit
  <2> HIDE DEF G, H
  <2> QED BY <1>6, <2>1, <2>2
<1>11. ASSUME NEW p \in PIDs, Run(p) PROVE SumOf(H) + total <= SumOf(G) + total'
  <2> DEFINE me == <<p, owner[p]>>
  <2>1. me \in Identity
    BY <1>11 DEF Run, TableTypeOK, Identity
  <2>2. Cardinality({me}) = 1 /\ total' = total + 1
    BY <1>11, FS_Singleton DEF Run
  <2>3. ASSUME NEW id \in Identity PROVE H[id] <= G[id] + IF id \in {me} THEN 1 ELSE 0
    <3>1. /\ cpu' = [cpu EXCEPT ![p] = @ + 1] /\ UNCHANGED <<owner, alive>>
          /\ cpu \in [PIDs -> 0..MaxTotal]
      BY <1>11 DEF Run, TableTypeOK
    <3>2. CASE id = me
      <4>1. cpu'[p] = cpu[p] + 1 /\ id[1] = p
        BY <3>1, <3>2
      <4>2. H[id] <= G[id] + 1
        <5>1. CASE id \in DOMAIN f /\ alive[p]
          <6>1. H[id] = cpu'[p] - f[id] /\ G[id] = cpu[p] - f[id]
            BY <3>1, <3>2, <4>1, <5>1 DEF Gain
          <6> QED BY <1>7, <4>1, <5>1, <6>1
        <5>2. CASE ~(id \in DOMAIN f /\ alive[p])
          <6>1. H[id] = G[id]
            BY <3>1, <3>2, <4>1, <5>2 DEF Gain
          <6> QED BY <1>2, <6>1
        <5> QED BY <5>1, <5>2
      <4> QED BY <3>2, <4>2
    <3>3. CASE id # me
      <4>1. ~(id[1] = p /\ id[2] = owner[p])
        BY <3>3 DEF Identity
      <4>2. owner[id[1]] = id[2] => cpu'[id[1]] = cpu[id[1]]
        BY <1>7, <3>1, <4>1
      <4>3. H[id] = G[id]
        BY <3>1, <4>2 DEF Gain
      <4> HIDE DEF me, H, G
      <4> QED BY <1>2, <3>3, <4>3
    <3> QED BY <3>2, <3>3
  <2> HIDE DEF me, H, G
  <2> QED BY <1>4, <1>5, <2>1, <2>2, <2>3
<1>12. ASSUME NEW p \in PIDs, DoIO(p) PROVE SumOf(H) + total <= SumOf(G) + total'
  <2>1. H = G /\ total <= total'
    BY <1>4, <1>12 DEF DoIO
  <2> QED BY <1>2, <1>6, <2>1
<1>13. SumOf(H) \in Int
  <2> HIDE DEF H
  <2> QED BY <1>3, SumType, IdentitiesAreFinite DEF SumOf
<1> QED BY <1>8, <1>9, <1>10, <1>11, <1>12, <1>13 DEF Kernel

(* Nothing was gained since no reading, and no shares add up to nothing.   *)
LEMMA NoReadingsGain ==
  ASSUME NEW a, NEW o, NEW c, NEW g
  PROVE  SumOf(Gain(a, o, c, Nothing, g)) = 0
<1> DEFINE Z == Gain(a, o, c, Nothing, g)
<1>1. Z \in [Identity -> Int] /\ DOMAIN Z = Identity /\ \A id \in Identity : Z[id] = 0
  BY DEF Gain, Nothing
<1> HIDE DEF Z
<1>2. SumOver(Z, Identity) = 0
  BY <1>1, SumOfZeros, IdentitiesAreFinite
<1> QED BY <1>1, <1>2 DEF SumOf, Z

LEMMA NoShares == SumOf(Nothing) = 0
<1>1. IsFiniteSet({}) /\ Nothing \in [{} -> Int] /\ DOMAIN Nothing = {}
  BY FS_EmptySet DEF Nothing
<1> QED BY <1>1, SumOfNone DEF SumOf

(* The sampler starts without readings.                                    *)
LEMMA InitAddsUp == Init => AInv
<1> SUFFICES ASSUME Init PROVE AInv
  OBVIOUS
<1>1. /\ previous = Nothing /\ current = Nothing /\ total = 0
      /\ before = 0 /\ previousTotal = 0
      /\ snapshot.shares = Nothing /\ snapshot.window = 0
  BY DEF Init, TableInit, NoRates
<1>2. Behind(Nothing) /\ UpTo(Nothing, Nothing)
  BY DEF Behind, UpTo, Nothing
<1> QED BY <1>1, <1>2, NoReadingsGain, NoShares DEF AInv, GainsFit, CPUSharesAddUp

(* What a sample that completes shows is part of what was gained since the *)
(* baseline, and its window is what the aggregate gained.                  *)
LEMMA RatesAddUp ==
  ASSUME SInv, AInv, NEW elapsed \in BOOLEAN
  PROVE  SumOf(Rates(elapsed).shares) <= Rates(elapsed).window
<1> DEFINE delta(id) == current[id] - previous[id]
           valid == {id \in Comparable : Window > 0 /\ delta(id) <= Window}
           shares == [id \in valid |-> delta(id)]
           G == Gain(alive, owner, cpu, previous, current)
           E == [id \in Identity |-> IF id \in valid THEN delta(id) ELSE 0]
<1>1. Rates(elapsed).window = Window /\ Rates(elapsed).shares = shares
  BY DEF Rates
<1>2. TableTypeOK /\ Ticks(previous) /\ Ticks(current) /\ total \in Nat /\ previousTotal \in Nat
  BY DEF SInv, TypeOK, TableTypeOK
<1>3. G \in [Identity -> Int] /\ DOMAIN G = Identity /\ \A id \in Identity : G[id] \in Nat
  BY <1>2, GainTyped DEF AInv, Gain
<1>4. ASSUME NEW id \in valid
      PROVE  /\ id \in Identity /\ delta(id) \in Nat
             /\ delta(id) <= G[id]
  <2>1. /\ id \in DOMAIN current /\ id \in DOMAIN previous
        /\ current[id] >= previous[id]
    BY DEF Comparable
  <2>2. id \in Identity /\ current[id] \in Nat /\ previous[id] \in Nat
    BY <1>2, <2>1 DEF Ticks
  <2>3. id[1] \in PIDs /\ cpu[id[1]] \in Nat
    BY <1>2, <2>2 DEF Identity, TableTypeOK
  <2>4. alive[id[1]] /\ owner[id[1]] = id[2] => current[id] <= cpu[id[1]]
    BY <2>1 DEF SInv, Behind
  <2> QED BY <2>1, <2>2, <2>3, <2>4 DEF Gain
<1>5. valid \subseteq Identity /\ E \in [Identity -> Int] /\ shares \in [valid -> Int]
  BY <1>4
<1>6. IsFiniteSet(valid)
  <2> HIDE DEF valid
  <2> QED BY <1>5, FS_Subset, IdentitiesAreFinite
<1>7. SumOf(shares) <= SumOf(G)
  <2>1. \A id \in Identity : E[id] \in Nat /\ E[id] <= G[id]
    BY <1>3, <1>4
  <2>2. \A id \in valid : shares[id] = E[id]
    BY <1>5
  <2>3. DOMAIN shares = valid
    OBVIOUS
  <2> HIDE DEF E, G, shares, valid
  <2>4. SumOver(shares, valid) = SumOver(E, valid)
    BY <1>5, <1>6, <2>2, SumSame, IdentitiesAreFinite
  <2>5. SumOver(E, valid) <= SumOver(E, Identity)
    BY <1>5, <2>1, SumOfPart, IdentitiesAreFinite
  <2>6. SumOver(E, Identity) <= SumOver(G, Identity)
    BY <1>3, <1>5, <2>1, SumAtMost, IdentitiesAreFinite
  <2>7. /\ SumOver(E, valid) \in Int /\ SumOver(E, Identity) \in Int
        /\ SumOver(G, Identity) \in Int
    BY <1>3, <1>5, SumType, IdentitiesAreFinite
  <2> QED BY <1>3, <2>3, <2>4, <2>5, <2>6, <2>7 DEF SumOf
<1>8. CASE Window > 0
  <2>1. Window = total - previousTotal
    BY <1>8 DEF Window
  <2>2. SumOf(G) + previousTotal <= total /\ SumOf(G) \in Nat
    BY <1>2, GainTyped DEF AInv, GainsFit
  <2>3. SumOf(shares) \in Int
    <3>1. DOMAIN shares = valid
      OBVIOUS
    <3> HIDE DEF shares, valid
    <3> QED BY <1>5, <1>6, <3>1, SumType DEF SumOf
  <2> HIDE DEF G, shares
  <2> QED BY <1>1, <1>2, <1>7, <2>1, <2>2, <2>3
<1>9. CASE ~(Window > 0)
  <2>1. shares = Nothing
    BY <1>9 DEF Nothing
  <2>2. Window \in Nat
    BY <1>2 DEF Window
  <2> QED BY <1>1, <1>9, <2>1, <2>2, NoShares
<1> QED BY <1>8, <1>9

(* A reading of a process moves its gain from one sum to the other; a      *)
(* sample that ends forgets what it has read, or makes it the baseline     *)
(* together with its own total.                                            *)
LEMMA NextAddsUp == SInv /\ SInv' /\ AInv /\ [Next]_vars => AInv'
<1> SUFFICES ASSUME SInv, SInv', AInv, [Next]_vars PROVE AInv'
  OBVIOUS
<1> DEFINE Since(f, g) == Gain(alive, owner, cpu, f, g)
<1>0. /\ TableTypeOK /\ Ticks(previous) /\ Ticks(current) /\ Behind(current)
      /\ total \in Nat /\ before \in Nat /\ previousTotal \in Nat
      /\ Behind(previous) /\ UpTo(previous, current)
      /\ GainsFit(previousTotal, previous, current) /\ GainsFit(before, current, Nothing)
  BY TableConstants DEF SInv, TypeOK, TableTypeOK, AInv
<1>1. Ticks(Nothing) /\ Behind(Nothing) /\ \A f : UpTo(f, Nothing) /\ UpTo(Nothing, f)
  BY DEF UpTo, Ticks, Behind, Nothing
<1>2. /\ Since(previous, current) \in [Identity -> Int]
      /\ Since(current, Nothing) \in [Identity -> Int]
  BY <1>0, <1>1, GainTyped
<1>3. ASSUME UNCHANGED <<tableVars, previous, previousTotal, current, before>>,
             UNCHANGED snapshot \/ snapshot' = NoRates
      PROVE  AInv'
  <2>1. CPUSharesAddUp'
    BY <1>3, NoShares DEF AInv, CPUSharesAddUp, NoRates
  <2> QED BY <1>3, <2>1 DEF AInv, tableVars, Behind, UpTo, GainsFit
<1>4. ASSUME UNCHANGED tableVars, current' = Nothing, before' \in Nat, before' <= total,
             GainsFit(previousTotal', previous', Nothing), Behind(previous'),
             CPUSharesAddUp'
      PROVE  AInv'
  <2>1. GainsFit(before, current, Nothing)'
    BY <1>0, <1>4, NoReadingsGain DEF GainsFit, tableVars
  <2>2. GainsFit(previousTotal, previous, current)' /\ Behind(previous)'
    BY <1>4 DEF GainsFit, tableVars, Behind
  <2>3. UpTo(previous, current)'
    BY <1>1, <1>4 DEF UpTo
  <2> QED BY <1>4, <2>1, <2>2, <2>3 DEF AInv
<1>5. ASSUME UNCHANGED <<tableVars, previous, previousTotal>>, EndSample, snapshot' = NoRates
      PROVE  AInv'
  <2>1. GainsFit(previousTotal, previous, Nothing)
    <3>1. Since(previous, Nothing) \in [Identity -> Int]
      BY <1>0, <1>1, GainTyped
    <3>2. \A id \in Identity : Since(previous, Nothing)[id] <= Since(previous, current)[id]
      <4>1. \A id \in Identity : Since(previous, current)[id] \in Nat
        BY <1>0, GainTyped
      <4>2. \A id \in Identity : \/ Since(previous, Nothing)[id] = Since(previous, current)[id]
                                  \/ Since(previous, Nothing)[id] = 0
        BY DEF Gain, Nothing
      <4> HIDE DEF Since
      <4> QED BY <4>1, <4>2
    <3>3. SumOf(Since(previous, Nothing)) <= SumOf(Since(previous, current))
      BY <1>2, <3>1, <3>2, GainsFall
    <3>4. SumOf(Since(previous, Nothing)) \in Nat /\ SumOf(Since(previous, current)) \in Nat
      BY <1>0, <1>1, GainTyped
    <3> QED BY <1>0, <3>3, <3>4 DEF GainsFit
  <2>2. CPUSharesAddUp'
    BY <1>5, NoShares DEF CPUSharesAddUp, NoRates
  <2> QED BY <1>0, <1>4, <1>5, <2>1, <2>2 DEF EndSample
<1>6. CASE ReadTotalBefore
  <2>1. /\ UNCHANGED <<tableVars, current, previous, previousTotal>>
        /\ current = Nothing /\ before' = total /\ snapshot' = NoRates
    BY <1>6 DEF ReadTotalBefore, SInv, baselineVars
  <2>2. CPUSharesAddUp'
    BY <2>1, NoShares DEF CPUSharesAddUp, NoRates
  <2> QED BY <1>0, <1>4, <2>1, <2>2
<1>7. CASE ListProc
  BY <1>3, <1>7 DEF ListProc, baselineVars
<1>8. ASSUME NEW p \in PIDs, ReadStat(p) PROVE AInv'
  <2> DEFINE id == <<p, owner[p]>>
             cur == [y \in DOMAIN current \cup {id} |-> IF y = id THEN cpu[p] ELSE current[y]]
  <2>1. /\ id[1] = p /\ id[2] = owner[p] /\ alive[p]
        /\ cpu[p] \in Nat
    BY <1>0, <1>8 DEF ReadStat, TableTypeOK
  <2>2. /\ current' = cur
        /\ UNCHANGED <<tableVars, before, previous, previousTotal, snapshot>>
    BY <1>8 DEF ReadStat, Put, baselineVars
  <2>3. Ticks(cur) /\ Behind(cur)
    <3>1. Ticks(current)' /\ Behind(current)'
      BY DEF SInv, TypeOK
    <3> QED BY <2>2, <3>1 DEF Ticks, Behind, tableVars
  <2>4. UpTo(previous, cur)
    <3>1. id \in DOMAIN previous => previous[id] <= cpu[p]
      BY <1>0, <2>1 DEF Behind
    <3> QED BY <1>0, <3>1 DEF UpTo
  <2>5. GainsFit(previousTotal, previous, cur)
    <3>1. Since(previous, cur) = Since(previous, current)
      BY <2>1 DEF Gain
    <3> QED BY <1>0, <3>1 DEF GainsFit
  <2>6. GainsFit(before, cur, Nothing)
    <3>1. Since(cur, Nothing) \in [Identity -> Int]
      BY <1>0, <1>1, <2>3, GainTyped
    <3>2. \A y \in Identity : Since(cur, Nothing)[y] <= Since(current, Nothing)[y]
      <4>1. \A y \in Identity : Since(current, Nothing)[y] \in Nat
        BY <1>0, <1>1, GainTyped
      <4>2. ASSUME NEW y \in Identity, y = id
            PROVE  Since(cur, Nothing)[y] = 0
        BY <2>1, <4>2 DEF Gain
      <4>3. ASSUME NEW y \in Identity, y # id
            PROVE  Since(cur, Nothing)[y] = Since(current, Nothing)[y]
        BY <4>3 DEF Gain
      <4> HIDE DEF Since, cur, id
      <4> QED BY <4>1, <4>2, <4>3
    <3>3. SumOf(Since(cur, Nothing)) <= SumOf(Since(current, Nothing))
      BY <1>2, <3>1, <3>2, GainsFall
    <3>4. SumOf(Since(cur, Nothing)) \in Nat /\ SumOf(Since(current, Nothing)) \in Nat
      BY <1>0, <1>1, <2>3, GainTyped
    <3> HIDE DEF cur
    <3> QED BY <1>0, <3>3, <3>4 DEF GainsFit
  <2> HIDE DEF cur
  <2>7. UpTo(previous, current)' /\ Behind(previous)' /\ CPUSharesAddUp'
    BY <1>0, <2>2, <2>4 DEF AInv, UpTo, Behind, tableVars, CPUSharesAddUp
  <2> QED BY <2>2, <2>5, <2>6, <2>7 DEF AInv, GainsFit, tableVars
<1>9. ASSUME NEW p \in PIDs, SkipProcess(p) PROVE AInv'
  BY <1>3, <1>9 DEF SkipProcess, baselineVars
<1>10. CASE ReadIO \/ SkipIO
  BY <1>3, <1>10 DEF ReadIO, SkipIO, NextProcess, baselineVars
<1>11. ASSUME NEW elapsed \in BOOLEAN, Finish(elapsed) PROVE AInv'
  <2>1. /\ snapshot' = Rates(elapsed) /\ UNCHANGED tableVars
        /\ previousTotal' = before /\ previous' = current
        /\ before' = 0 /\ current' = Nothing
    BY <1>11 DEF Finish, Commit, EndSample
  <2>2. CPUSharesAddUp'
    BY <2>1, RatesAddUp DEF CPUSharesAddUp
  <2> QED BY <1>0, <1>4, <2>1, <2>2
<1>12. CASE ListProcFails \/ ReadTotalAfterFails
  BY <1>5, <1>12 DEF ListProcFails, ReadTotalAfterFails, ReturnError, baselineVars
<1>13. CASE Kernel /\ UNCHANGED samplerVars
  <2>1. UNCHANGED <<previous, previousTotal, current, before, snapshot>>
    BY <1>13 DEF samplerVars
  <2>2. Behind(previous)'
    <3>1. \A id \in DOMAIN previous :
            /\ id[2] <= owner'[id[1]]
            /\ alive'[id[1]] /\ owner'[id[1]] = id[2] => previous[id] <= cpu'[id[1]]
      BY <1>0, <1>13, KernelBehind
    <3> QED BY <2>1, <3>1 DEF Behind
  <2>3. UpTo(previous, current)' /\ CPUSharesAddUp'
    BY <2>1 DEF AInv, UpTo, CPUSharesAddUp
  <2>4. TableTypeOK' /\ total' \in Nat
    BY <1>0, <1>13, KernelStep DEF TableTypeOK
  <2>5. /\ SumOf(Since(previous, current)) \in Nat /\ SumOf(Since(current, Nothing)) \in Nat
    BY <1>0, <1>1, GainTyped
  <2>6. /\ SumOf(Gain(alive', owner', cpu', previous, current)) \in Int
        /\ SumOf(Gain(alive', owner', cpu', current, Nothing)) \in Int
    BY <1>0, <1>1, <1>13, KernelGains
  <2>7. /\ SumOf(Gain(alive', owner', cpu', previous, current)) + total
             <= SumOf(Since(previous, current)) + total'
        /\ SumOf(Gain(alive', owner', cpu', current, Nothing)) + total
             <= SumOf(Since(current, Nothing)) + total'
    BY <1>0, <1>1, <1>13, KernelGains
  <2>8. GainsFit(previousTotal, previous, current)' /\ GainsFit(before, current, Nothing)'
    BY <1>0, <2>1, <2>4, <2>5, <2>6, <2>7 DEF GainsFit
  <2> QED BY <2>2, <2>3, <2>8 DEF AInv
<1>14. CASE UNCHANGED vars
  BY <1>3, <1>14 DEF vars, samplerVars
<1> QED
  BY <1>6, <1>7, <1>8, <1>9, <1>10, <1>11, <1>12, <1>13, <1>14 DEF Next, Sampler

(* The shares of one sample never add up to more than its window: every    *)
(* tick is counted once, whoever has the PID (ProcessSampler.Sample).      *)
THEOREM SharesAddUp == Spec => []CPUSharesAddUp
<1>1. AInv => CPUSharesAddUp
  BY DEF AInv
<1> QED
  BY <1>1, InitBehind, NextBehind, InitAddsUp, NextAddsUp, PTL DEF Spec
---------------------------------------------------------------------------
(* The memory of a process: a PID only ever moves on to later owners.  The *)
(* first validation saw the wanted one, so the owner at the read is that   *)
(* one or a later one; the second validation sees the wanted one, so it    *)
(* was not a later one.                                                    *)

(* What is known between two reads of /proc: no answer yet, and no owner    *)
(* before the wanted one.                                                  *)
NeverBefore ==
  /\ place # "idle" => answer = "none"
  /\ place \in {"read", "second"} => wanted[2] <= owner[wanted[1]]
  /\ place = "second" => wanted[2] <= memory /\ memory <= owner[wanted[1]]

MemoryInv == MemoryTypeOK /\ NeverBefore /\ MemoryIsOfTheProcess

(* Nothing is known before the first call, and nothing has to be.          *)
LEMMA MemoryStart == MemoryInit => MemoryInv
BY TableConstants
   DEF MemoryInit, MemoryInv, MemoryTypeOK, NeverBefore, MemoryIsOfTheProcess, TableInit,
       TableTypeOK

(* Every step of the reader, and every step of the kernel between two of   *)
(* its reads, preserves the invariant.                                     *)
LEMMA MemoryPreserved == MemoryInv /\ [MemoryNext]_memoryVars => MemoryInv'
<1> SUFFICES ASSUME MemoryInv, [MemoryNext]_memoryVars PROVE MemoryInv'
  OBVIOUS
<1> USE TableConstants DEF MemoryInv, MemoryTypeOK, NeverBefore, MemoryIsOfTheProcess,
                           Identity
<1> place # "idle" => wanted[1] \in PIDs /\ wanted[2] \in 1..MaxOwners
  OBVIOUS
<1>1. ASSUME UNCHANGED tableVars PROVE TableTypeOK'
  BY <1>1 DEF tableVars, TableTypeOK
<1>2. ASSUME NEW id \in Identity, Begin(id) PROVE MemoryInv'
  BY <1>1, <1>2 DEF Begin
<1>3. CASE ValidateFirst
  BY <1>1, <1>3 DEF ValidateFirst, Matches, tableVars, TableTypeOK
<1>4. CASE Refuse
  BY <1>1, <1>4 DEF Refuse, Return, tableVars
<1>5. CASE ReadRollup
  <2>1. owner[wanted[1]] \in 1..MaxOwners
    BY <1>5 DEF ReadRollup, TableTypeOK
  <2>2. QED
    BY <1>1, <1>5, <2>1 DEF ReadRollup, tableVars
<1>6. CASE FailRead
  BY <1>1, <1>6 DEF FailRead, Return, tableVars
<1>7. CASE Accept
  <2>1. memory = wanted[2]
    BY <1>7 DEF Accept, Matches
  <2>2. QED
    BY <1>1, <1>7, <2>1 DEF Accept, Return, tableVars
<1>8. CASE Kernel /\ UNCHANGED readerVars
  <2>1. TableTypeOK' /\ \A p \in PIDs : owner[p] <= owner'[p]
    BY <1>8, KernelStep
  <2>2. place # "idle" => owner[wanted[1]] \in Nat /\ owner'[wanted[1]] \in Nat
    BY <2>1 DEF TableTypeOK
  <2>3. QED
    BY <1>8, <2>1, <2>2 DEF readerVars
<1>9. CASE UNCHANGED memoryVars
  BY <1>1, <1>9 DEF memoryVars, readerVars, tableVars
<1>10. QED
  BY <1>2, <1>3, <1>4, <1>5, <1>6, <1>7, <1>8, <1>9 DEF MemoryNext, Reader

(* The type invariant of the reader and the process table.                 *)
THEOREM MemoryTyped == MemorySpec => []MemoryTypeOK
<1>1. MemoryInv => MemoryTypeOK
  BY DEF MemoryInv
<1>2. QED
  BY <1>1, MemoryStart, MemoryPreserved, PTL DEF MemorySpec

(* readProcessMemory never returns the memory of another process, however  *)
(* often the kernel gives the PID away around its three reads.             *)
THEOREM MemoryOfTheProcess == MemorySpec => []MemoryIsOfTheProcess
<1>1. MemoryInv => MemoryIsOfTheProcess
  BY DEF MemoryInv
<1>2. QED
  BY <1>1, MemoryStart, MemoryPreserved, PTL DEF MemorySpec
=============================================================================
