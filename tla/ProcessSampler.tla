-------------------------- MODULE ProcessSampler --------------------------
(***************************************************************************)
(* ProcessSampler.Sample (process_linux.go): a walk over /proc that reads  *)
(* one file after the other while the kernel runs, ends and starts         *)
(* processes.  The walk keeps the CPU ticks and the I/O counter of every   *)
(* process it saw; the next sample turns them into rates.                  *)
(*                                                                         *)
(* Of the five files of a process only stat and io leave something for the *)
(* next sample.  exe, status and cmdline are read between them, and what   *)
(* the model shows of io is true of them as well.  One counter stands for  *)
(* the four of io.                                                         *)
(***************************************************************************)
EXTENDS ProcTable, Sums

VARIABLES
  pc,           \* where Sample is
  before,       \* totalBefore
  todo,         \* entries of /proc still to visit
  at,           \* the identity being visited
  current,      \* current: the CPU ticks of the identities visited
  currentIO,    \* currentIO: their counter, and (history) whose it was
  hasPrevious,  \* s.hasPrevious, and s.previousIOAt being set
  previousTotal, previous, previousIO,  \* the baselines of the same names
  snapshot,     \* the rates of the last sample
  (* History: the ticks of every process when the last completed sample     *)
  (* ended, and when the last one began.  No step depends on them.          *)
  ended, begun

walkVars     == <<pc, before, todo, at, current, currentIO>>
baselineVars == <<hasPrevious, previousTotal, previous, previousIO>>
history      == <<ended, begun>>
samplerVars  == <<pc, before, todo, at, current, currentIO, hasPrevious,
                  previousTotal, previous, previousIO, snapshot, ended, begun>>
vars == <<tableVars, samplerVars>>

Nothing == [id \in {} |-> 0]

(* f with the value of x set to v, as a Go map assignment does.            *)
Put(f, x, v) == [y \in DOMAIN f \cup {x} |-> IF y = x THEN v ELSE f[y]]

(* The ticks of every process at this moment.                              *)
Now == [id \in {i \in Identity : alive[i[1]] /\ owner[i[1]] = i[2]} |-> cpu[id[1]]]

NoRates == [window |-> 0, shares |-> Nothing, refused |-> {}, io |-> Nothing]

---------------------------------------------------------------------------
EndSample ==
  /\ pc' = "idle" /\ before' = 0 /\ todo' = {} /\ at' = Nobody
  /\ current' = Nothing /\ currentIO' = Nothing

ReadTotalBefore ==
  /\ pc = "idle"
  /\ before' = total
  /\ snapshot' = NoRates
  /\ begun' = Now
  /\ pc' = "list"
  /\ UNCHANGED <<tableVars, todo, at, current, currentIO, baselineVars, ended>>

(* os.ReadDir of /proc: the processes that exist at this moment.           *)
ListProc ==
  /\ pc = "list"
  /\ todo' = {p \in PIDs : alive[p]}
  /\ pc' = "walk"
  /\ UNCHANGED <<tableVars, before, at, current, currentIO, baselineVars, snapshot,
                 history>>

(* Slip: the start time is not part of the identity.                       *)
ReadStatByPID(p) ==
  /\ pc = "walk" /\ p \in todo /\ alive[p]
  /\ at' = <<p, 0>>
  /\ current' = Put(current, <<p, 0>>, cpu[p])
  /\ pc' = "io"
  /\ UNCHANGED <<tableVars, before, todo, currentIO, baselineVars, snapshot,
                 history>>

ReadStat(p) ==
  /\ pc = "walk" /\ p \in todo /\ alive[p]
  /\ at' = <<p, owner[p]>>
  /\ current' = Put(current, <<p, owner[p]>>, cpu[p])
  /\ pc' = "io"
  /\ UNCHANGED <<tableVars, before, todo, currentIO, baselineVars, snapshot,
                 history>>

(* The process is gone, or its stat cannot be read or parsed.              *)
SkipProcess(p) ==
  /\ pc = "walk" /\ p \in todo
  /\ todo' = todo \ {p}
  /\ UNCHANGED <<tableVars, pc, before, at, current, currentIO, baselineVars, snapshot,
                 history>>

NextProcess ==
  /\ todo' = todo \ {at[1]}
  /\ at' = Nobody
  /\ pc' = "walk"
  /\ UNCHANGED <<tableVars, before, current, baselineVars, snapshot,
                 history>>

ReadIO ==
  /\ pc = "io" /\ alive[at[1]]
  /\ currentIO' = Put(currentIO, at, [count |-> io[at[1]], of |-> owner[at[1]]])
  /\ NextProcess

(* The process is gone, or its io is somebody else's to read.              *)
SkipIO ==
  /\ pc = "io"
  /\ NextProcess
  /\ UNCHANGED currentIO

(* The identities the sample and the baseline have in common, with a       *)
(* counter that did not go back.                                           *)
Comparable == {id \in DOMAIN current \cap DOMAIN previous : current[id] >= previous[id]}
ComparableIO == {id \in DOMAIN currentIO \cap DOMAIN previousIO :
                   currentIO[id].count >= previousIO[id].count}

(* Slip: the window ends before the walk.                                  *)
WindowBefore ==
  IF hasPrevious /\ before > previousTotal THEN before - previousTotal ELSE 0

Window == IF hasPrevious /\ total > previousTotal THEN total - previousTotal ELSE 0

(* The rates of the sample: an identity whose ticks exceed the window is   *)
(* refused; with no window there are no CPU rates at all.                  *)
Rates(elapsed) ==
  LET delta(id) == current[id] - previous[id]
      valid == {id \in Comparable : Window > 0 /\ delta(id) <= Window}
  IN [window  |-> Window,
      shares  |-> [id \in valid |-> delta(id)],
      refused |-> IF Window > 0 THEN Comparable \ valid ELSE {},
      io      |-> [id \in {i \in ComparableIO : hasPrevious /\ elapsed} |->
                     {previousIO[id].of, currentIO[id].of}]]

(* Slip: the window of the next sample begins after this walk.             *)
CommitAfter ==
  /\ hasPrevious' = TRUE
  /\ previousTotal' = total
  /\ previous' = current /\ previousIO' = currentIO

Commit ==
  /\ hasPrevious' = TRUE
  /\ previousTotal' = before
  /\ previous' = current /\ previousIO' = currentIO

(* totalAfter is read, the rates are computed and the sample becomes the   *)
(* baseline.  The I/O rates need a clock that moved between the samples.   *)
Finish(elapsed) ==
  /\ pc = "walk" /\ todo = {}
  /\ snapshot' = Rates(elapsed)
  /\ Commit
  /\ EndSample
  /\ ended' = Now
  /\ UNCHANGED <<tableVars, begun>>

(* Sample returns an error: there is no snapshot, and what was read is     *)
(* forgotten.                                                              *)
ReturnError ==
  /\ EndSample
  /\ snapshot' = NoRates
  /\ UNCHANGED <<tableVars, baselineVars, history>>

(* /proc cannot be listed, before the walk.                                *)
ListProcFails == pc = "list" /\ ReturnError

(* Slip: the walk's readings become the baseline although it failed.       *)
FailAndCommit ==
  /\ pc = "walk" /\ todo = {}
  /\ EndSample
  /\ snapshot' = NoRates
  /\ previous' = current /\ previousIO' = currentIO
  /\ UNCHANGED <<tableVars, hasPrevious, previousTotal, history>>

(* The aggregate cannot be read again, after the walk.                     *)
ReadTotalAfterFails == pc = "walk" /\ todo = {} /\ ReturnError

Sampler ==
  \/ ReadTotalBefore
  \/ ListProc
  \/ \E p \in PIDs : ReadStat(p) \/ SkipProcess(p)
  \/ ReadIO
  \/ SkipIO
  \/ \E elapsed \in BOOLEAN : Finish(elapsed)
  \/ ListProcFails
  \/ ReadTotalAfterFails

Init ==
  /\ TableInit
  /\ pc = "idle" /\ before = 0 /\ todo = {} /\ at = Nobody
  /\ current = Nothing /\ currentIO = Nothing
  /\ hasPrevious = FALSE /\ previousTotal = 0
  /\ previous = Nothing /\ previousIO = Nothing
  /\ snapshot = NoRates
  /\ ended = Nothing /\ begun = Nothing

Next == Sampler \/ (Kernel /\ UNCHANGED samplerVars)

Spec == Init /\ [][Next]_vars

---------------------------------------------------------------------------
(* Properties.                                                             *)

Ticks(f) == DOMAIN f \subseteq Identity /\ \A id \in DOMAIN f : f[id] \in 0..MaxTotal
Counts(f) == /\ DOMAIN f \subseteq Identity
             /\ \A id \in DOMAIN f : f[id] \in [count: 0..MaxIO, of: 1..MaxOwners]

TypeOK ==
  /\ TableTypeOK
  /\ pc \in {"idle", "list", "walk", "io"}
  /\ before \in 0..MaxTotal /\ previousTotal \in 0..MaxTotal
  /\ todo \subseteq PIDs
  /\ at \in Identity \cup {Nobody}
  /\ pc = "io" => at \in Identity
  /\ Ticks(current) /\ Ticks(previous)
  /\ Counts(currentIO) /\ Counts(previousIO)
  /\ hasPrevious \in BOOLEAN
  /\ snapshot.window \in 0..MaxTotal /\ Ticks(snapshot.shares)
  /\ snapshot.refused \subseteq Identity
  /\ Ticks(ended) /\ Ticks(begun)

(* The window of a sample, from before the previous walk to after this     *)
(* one, covers both readings of every process: no process is refused,      *)
(* however the kernel scheduled it during the two walks and however many   *)
(* samples failed in between (Sample, on the two reads of /proc/stat).     *)
CPUWindowCovers == snapshot.refused = {}

(* The CPU shares of one snapshot never add up to more than the machine:   *)
(* no tick is counted twice, neither for two processes nor for a process   *)
(* and the later one with its PID (Sample).                                *)
CPUSharesAddUp == SumOf(snapshot.shares) <= snapshot.window

(* A share misses nothing: it counts every tick the process ran from the   *)
(* end of the last completed sample to the beginning of this one, also     *)
(* when samples that failed were begun in between (the baselines, which    *)
(* change only at the end of a sample that completes).                     *)
SharesMissNothing ==
  [][\A id \in DOMAIN snapshot'.shares \cap DOMAIN ended \cap DOMAIN begun :
       snapshot' # snapshot =>
         snapshot'.shares[id] + ended[id] >= begun[id]]_vars

(* README.md: "identities protect against PID reuse".  Both counters of a  *)
(* valid I/O rate were read from the process the rate is reported for.     *)
IORateIsOfTheProcess ==
  \A id \in DOMAIN snapshot.io : snapshot.io[id] = {id[2]}
=============================================================================
