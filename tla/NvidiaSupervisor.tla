------------------------- MODULE NvidiaSupervisor -------------------------
(***************************************************************************)
(* GPUSampler and its long-lived nvidia-smi child (gpu_linux.go, from      *)
(* Sample to Close): when the child is started, drained, judged stale,     *)
(* stopped and replaced, when a one-shot nvidia-smi run covers a sample,   *)
(* and what the sample reports.  The framing of the child's rows is        *)
(* NvidiaStream's: here a drain takes the newest complete report, which is *)
(* what that module shows.                                                 *)
(*                                                                         *)
(* The child, the clock and the sampler are concurrent: time passes and    *)
(* the child writes, hangs or dies between any two steps of a Sample.  The *)
(* code compares now().Sub(t) with a duration everywhere, so the model     *)
(* keeps the age of an instant t, saturated at AgeCap, and for             *)
(* nvidiaRetryAt the time left.                                            *)
(***************************************************************************)
EXTENDS Naturals

CONSTANTS DefaultPeriod, MinPeriod, MaxPeriod,  \* nvidia*Period, in clock units
          StaleFactor,                          \* nvidiaStaleFactor
          MaxBackoff, MaxFailures,              \* nvidiaMaxBackoff, nvidiaMaxFailures
          Slots,                                \* process slots
          NoChild,                              \* s.stream == nil
          PipeReports,                          \* reports a pipe holds unread
          AgeCap                                \* ages saturate here

ASSUME SupervisorConstants ==
  /\ DefaultPeriod \in Nat \ {0} /\ MinPeriod \in Nat \ {0} /\ MaxPeriod \in Nat
  /\ MinPeriod <= DefaultPeriod /\ DefaultPeriod <= MaxPeriod
  /\ StaleFactor \in Nat \ {0}
  /\ MaxBackoff \in Nat \ {0} /\ MaxFailures \in 1..6
  /\ NoChild \notin Slots
  /\ PipeReports \in Nat \ {0}
  /\ AgeCap \in Nat /\ AgeCap > StaleFactor * MaxPeriod /\ AgeCap >= MaxBackoff

VARIABLES
  proc,         \* the child processes, by slot
  aside,        \* the process a call runs for itself, see below
  stream,       \* s.stream: its child, period, the age of its last tick (or
                \* of its start), whether it has a tick, and its error
  failures,     \* s.nvidiaFailures
  retryIn,      \* time left until s.nvidiaRetryAt
  sampled,      \* s.lastSample is set
  sinceSample,  \* age of s.lastSample
  sinceBegin,   \* age of collectedAt, while a Sample runs
  nvidiaErr,    \* s.nvidiaErr
  reply,        \* what nvidiaRows returned: the source of the rows, or why none
  pc,           \* where the sampler is
  (* History: these do not influence a step. *)
  tickAge,      \* how long ago the child wrote the tick
  lag,          \* time from the drain before it to the drain that read it
  sinceDrain,   \* age of the last drain of this child, or of its start
  strikes,      \* failures in a row: failed starts, or one lost child
  sinceFailure, \* age of the last failure
  delay,        \* backoff of the last failure since rows were served
  lost          \* this Sample gave up its child

procVars    == <<proc, aside>>
backoffVars == <<failures, retryIn>>
cadenceVars == <<sampled, sinceSample, sinceBegin>>
replyVars   == <<nvidiaErr, reply>>
ageHistory  == <<tickAge, lag, sinceDrain>>
failHistory == <<strikes, sinceFailure, delay>>
history     == <<tickAge, lag, sinceDrain, strikes, sinceFailure, delay, lost>>
vars == <<procVars, stream, failures, retryIn, sampled, sinceSample, sinceBegin,
          nvidiaErr, reply, pc, tickAge, lag, sinceDrain,
          strikes, sinceFailure, delay, lost>>

Ages == 0..AgeCap
OlderUpTo(cap, age) == IF age < cap THEN age + 1 ELSE age
Older(age) == OlderUpTo(AgeCap, age)

(* A process slot: running; hung in the driver, where a kill has no effect *)
(* until the driver lets go; killed while hung; hung after its output was  *)
(* closed; exited and not waited for; waited for with the read end still   *)
(* open; free.                                                             *)
ProcStates == {"free", "running", "hung", "killed", "closed", "exited", "reaped"}

(* What a call starts, kills and waits for without keeping it: the one-shot *)
(* run at its timeout, or a child whose pipe cannot be made nonblocking.   *)
(* The driver holds it or not.                                             *)
AsideStates == {"none", "held", "gone"}
FreeSlot == [state |-> "free", unread |-> 0, age |-> 0]

NoStream == [child |-> NoChild, period |-> DefaultPeriod, quiet |-> 0,
             ticked |-> FALSE, err |-> "none"]

---------------------------------------------------------------------------
(* nvidiaPeriod, nvidiaBackoff and nvidiaStream.stale.                     *)

Period ==
  IF ~sampled THEN DefaultPeriod
  ELSE IF sinceSample < MinPeriod THEN MinPeriod
  ELSE IF sinceSample > MaxPeriod THEN MaxPeriod
  ELSE sinceSample

PowersOfTwo == <<1, 2, 4, 8, 16, 32, 64>>   \* 1 << n for n in 0 .. 6

(* Slip: the clamp of nvidiaFailures is forgotten.                         *)
Uncapped(n) == n

Capped(n) == IF n > MaxFailures THEN MaxFailures ELSE n

Backoff(n) ==
  LET shifted == DefaultPeriod * PowersOfTwo[n + 1]
  IN IF shifted > MaxBackoff THEN MaxBackoff ELSE shifted

Stale == stream.err # "none" \/ stream.quiet > StaleFactor * stream.period

(* Slip: the retry time is taken before the failure is counted.            *)
CountFailureLate ==
  /\ failures' = Capped(failures + 1)
  /\ retryIn' = Backoff(failures)

(* nvidiaFailures++ and the retry time that follows from it.               *)
CountFailure ==
  /\ failures' = Capped(failures + 1)
  /\ retryIn' = Backoff(Capped(failures + 1))

(* History of the failures: n in a row.                                    *)
Struck(n) ==
  /\ strikes' = Capped(n)
  /\ sinceFailure' = 0
  /\ delay' = Backoff(Capped(failures + 1))

---------------------------------------------------------------------------
(* The environment: time and the children.                                 *)

TimePasses ==
  /\ proc' = [s \in Slots |-> IF proc[s].unread > 0
                                THEN [proc[s] EXCEPT !.age = Older(@)]
                                ELSE proc[s]]
  /\ stream' = IF stream.child = NoChild THEN stream
               ELSE [stream EXCEPT !.quiet = Older(@)]
  /\ retryIn' = IF retryIn = 0 THEN 0 ELSE retryIn - 1
  /\ sinceSample' = IF sampled THEN OlderUpTo(MaxPeriod + 1, sinceSample)
                               ELSE sinceSample
  /\ sinceBegin' = IF pc \in {"idle", "close", "closing"} THEN sinceBegin
                   ELSE OlderUpTo(MaxPeriod + 1, sinceBegin)
  /\ tickAge' = IF stream.ticked THEN Older(tickAge) ELSE tickAge
  /\ sinceDrain' = IF stream.child = NoChild THEN sinceDrain ELSE Older(sinceDrain)
  /\ sinceFailure' = Older(sinceFailure)
  /\ UNCHANGED <<aside, failures, sampled, replyVars, pc, lag, strikes, delay, lost>>

(* The child finishes writing a report.  A full pipe blocks it.            *)
WriteReport(s) ==
  /\ proc[s].state = "running" /\ proc[s].unread < PipeReports
  /\ proc' = [proc EXCEPT ![s].unread = @ + 1, ![s].age = 0]
  /\ UNCHANGED <<aside, stream, backoffVars, cadenceVars, replyVars, pc, history>>

ChangeState(s, from, to) ==
  /\ proc[s].state = from
  /\ proc' = [proc EXCEPT ![s].state = to]
  /\ UNCHANGED <<aside, stream, backoffVars, cadenceVars, replyVars, pc, history>>

Exit(s) == ChangeState(s, "running", "exited")
Hang(s) == ChangeState(s, "running", "hung")
CloseOutput(s) == ChangeState(s, "running", "closed")
Release(s) ==
  \/ ChangeState(s, "hung", "running")
  \/ \E held \in {"killed", "closed"} : ChangeState(s, held, "exited")

HoldAside ==
  /\ pc \in {"start", "oneshot"} /\ aside = "none"
  /\ aside' = "held"
  /\ UNCHANGED <<proc, stream, backoffVars, cadenceVars, replyVars, pc, history>>

ReleaseAside ==
  /\ aside = "held"
  /\ aside' = "gone"
  /\ UNCHANGED <<proc, stream, backoffVars, cadenceVars, replyVars, pc, history>>

Environment ==
  \/ TimePasses
  \/ \E s \in Slots : WriteReport(s) \/ Exit(s) \/ Hang(s) \/ CloseOutput(s) \/ Release(s)
  \/ HoldAside
  \/ ReleaseAside

---------------------------------------------------------------------------
(* GPUSampler.Sample.                                                      *)

(* readGPUs fails: Sample returns before lastSample is set.                *)
SampleFails ==
  /\ pc = "idle"
  /\ nvidiaErr' = "none"
  /\ UNCHANGED <<procVars, stream, backoffVars, cadenceVars, reply, pc, history>>

(* No card of vendor 10de: nvidiaRows is not called.                       *)
SampleWithoutCard ==
  /\ pc = "idle"
  /\ nvidiaErr' = "none"
  /\ sampled' = TRUE /\ sinceSample' = 0
  /\ UNCHANGED <<procVars, stream, backoffVars, sinceBegin, reply, pc, history>>

SampleCard ==
  /\ pc = "idle"
  /\ nvidiaErr' = "none"
  /\ sinceBegin' = 0
  /\ pc' = "rows"
  /\ UNCHANGED <<procVars, stream, backoffVars, sampled, sinceSample, reply, history>>

(* nvidiaRows: drain the child there is; without one, start a child unless *)
(* the backoff holds it, and then run nvidia-smi once.                     *)
ChooseSource ==
  /\ pc = "rows"
  /\ pc' = IF stream.child # NoChild THEN "drain"
           ELSE IF retryIn = 0 THEN "start" ELSE "oneshot"
  /\ UNCHANGED <<procVars, stream, backoffVars, cadenceVars, replyVars, history>>

StartSucceeds(s) ==
  /\ pc = "start" /\ proc[s].state = "free" /\ aside = "none"
  /\ proc' = [proc EXCEPT ![s].state = "running"]
  /\ stream' = [NoStream EXCEPT !.child = s, !.period = Period]
  /\ failures' = 0
  /\ pc' = "drain"
  /\ sinceDrain' = 0 /\ strikes' = 0 /\ sinceFailure' = AgeCap
  /\ UNCHANGED <<aside, retryIn, cadenceVars, replyVars, tickAge, lag, delay, lost>>

(* There is no process, or what there was of it has been waited for.       *)
StartFails ==
  /\ pc = "start"
  /\ aside # "held" /\ aside' = "none"
  /\ CountFailure /\ Struck(strikes + 1)
  /\ reply' = "startError"
  /\ pc' = "finish"
  /\ UNCHANGED <<proc, stream, cadenceVars, nvidiaErr, ageHistory, lost>>

(* nvidiaStream.rows: drain reads what the pipe holds; its newest report   *)
(* is the tick, quiet the age it then has.  At the end of file the child   *)
(* is waited for.                                                          *)
DrainTo(quiet) ==
  /\ pc = "drain"
  /\ LET p == proc[stream.child]
         ended == p.state \in {"exited", "closed"}
     IN /\ stream' = [stream EXCEPT !.ticked = @ \/ p.unread > 0,
                                    !.quiet = quiet,
                                    !.err = IF ended THEN "EOF" ELSE @]
        /\ tickAge' = IF p.unread > 0 THEN p.age ELSE tickAge
        /\ lag' = IF p.unread > 0 THEN sinceDrain ELSE lag
        /\ pc' = IF ended THEN "reap" ELSE "serve"
  /\ proc' = [proc EXCEPT ![stream.child].unread = 0, ![stream.child].age = 0]
  /\ sinceDrain' = 0
  /\ UNCHANGED <<aside, backoffVars, cadenceVars, replyVars, failHistory, lost>>

(* Slip: every drain counts as a sign of life, not only a complete report. *)
DrainRefreshes == DrainTo(0)

Drain == DrainTo(IF proc[stream.child].unread > 0 THEN 0 ELSE stream.quiet)

(* reap, which waits for a child the driver holds.                         *)
Reap ==
  /\ pc = "reap" /\ proc[stream.child].state = "exited"
  /\ proc' = [proc EXCEPT ![stream.child].state = "reaped"]
  /\ pc' = "serve"
  /\ UNCHANGED <<aside, stream, backoffVars, cadenceVars, replyVars, history>>

(* A read fails with an errno other than EAGAIN.                           *)
DrainFails ==
  /\ pc = "drain"
  /\ stream' = [stream EXCEPT !.err = "failed"]
  /\ pc' = "serve"
  /\ UNCHANGED <<procVars, backoffVars, cadenceVars, replyVars, history>>

ServeTick ==
  /\ pc = "serve" /\ stream.ticked /\ ~Stale
  /\ reply' = "tick"
  /\ pc' = "finish"
  /\ delay' = 0
  /\ UNCHANGED <<procVars, stream, backoffVars, cadenceVars, nvidiaErr,
                 ageHistory, strikes, sinceFailure, lost>>

NoTick ==
  /\ pc = "serve" /\ (~stream.ticked \/ Stale)
  /\ pc' = "judge"
  /\ UNCHANGED <<procVars, stream, backoffVars, cadenceVars, replyVars, history>>

(* Slip: the second judgement looks at the error only.                     *)
WaitUnlessFailed ==
  /\ pc = "judge" /\ stream.err = "none"
  /\ reply' = "none"
  /\ pc' = "finish"
  /\ UNCHANGED <<procVars, stream, backoffVars, cadenceVars, nvidiaErr, history>>

(* The child has not reported yet: the sample has no rows and no issue.    *)
Wait ==
  /\ pc = "judge" /\ ~Stale
  /\ reply' = "none"
  /\ pc' = "finish"
  /\ UNCHANGED <<procVars, stream, backoffVars, cadenceVars, nvidiaErr, history>>

(* Slip: the stream is dropped and its child is not stopped.               *)
GiveUpWithoutStop ==
  /\ pc = "judge" /\ Stale
  /\ nvidiaErr' = IF stream.err # "none" THEN stream.err ELSE "silent"
  /\ CountFailure /\ Struck(1)
  /\ stream' = NoStream
  /\ lost' = TRUE
  /\ pc' = "oneshot"
  /\ UNCHANGED <<procVars, cadenceVars, reply, ageHistory>>

GiveUp ==
  /\ pc = "judge" /\ Stale
  /\ nvidiaErr' = IF stream.err # "none" THEN stream.err ELSE "silent"
  /\ CountFailure /\ Struck(1)
  /\ lost' = TRUE
  /\ pc' = "stop"
  /\ UNCHANGED <<procVars, stream, cadenceVars, reply, ageHistory>>

(* Slip: the wait is not preceded by the kill.                             *)
NoKill(from, to) ==
  /\ pc = from /\ stream.child # NoChild
  /\ pc' = to
  /\ UNCHANGED <<procVars, stream, backoffVars, cadenceVars, replyVars, history>>

(* stopNvidiaStream: the kill, and then the wait for the process.          *)
Kill(from, to) ==
  /\ pc = from /\ stream.child # NoChild
  /\ proc' = [proc EXCEPT ![stream.child].state =
                CASE @ = "running" -> "exited"
                  [] @ = "hung"    -> "killed"
                  [] OTHER         -> @]
  /\ pc' = to
  /\ UNCHANGED <<aside, stream, backoffVars, cadenceVars, replyVars, history>>

ForgetStream == tickAge' = 0 /\ lag' = 0 /\ sinceDrain' = 0

Waited == proc[stream.child].state \in {"exited", "reaped"}

KillChild == Kill("stop", "wait")

WaitChild ==
  /\ pc = "wait" /\ Waited
  /\ proc' = [proc EXCEPT ![stream.child] = FreeSlot]
  /\ stream' = NoStream /\ ForgetStream
  /\ pc' = "oneshot"
  /\ UNCHANGED <<aside, backoffVars, cadenceVars, replyVars, failHistory, lost>>

(* Slip: rows from the one-shot run hide the loss of the child.            *)
OneShotHides ==
  /\ pc = "oneshot" /\ aside = "none"
  /\ reply' = "smi" /\ nvidiaErr' = "none"
  /\ pc' = "finish"
  /\ UNCHANGED <<procVars, stream, backoffVars, cadenceVars, history>>

(* Slip: a failed one-shot run counts as a failure of the child.           *)
OneShotCounts ==
  /\ pc = "oneshot"
  /\ aside # "held" /\ aside' = "none"
  /\ CountFailure
  /\ reply' = "smiError" /\ nvidiaErr' = "none"
  /\ pc' = "finish"
  /\ UNCHANGED <<proc, stream, cadenceVars, history>>

(* runNvidiaSMI.  When it fails as well, its failure is the issue and that *)
(* of the child is not.  The kill at the timeout does not help against the *)
(* driver.                                                                 *)
OneShotSucceeds ==
  /\ pc = "oneshot" /\ aside = "none"
  /\ reply' = "smi"
  /\ pc' = "finish"
  /\ UNCHANGED <<procVars, stream, backoffVars, cadenceVars, nvidiaErr, history>>

OneShotFails ==
  /\ pc = "oneshot"
  /\ aside # "held" /\ aside' = "none"
  /\ reply' = "smiError" /\ nvidiaErr' = "none"
  /\ pc' = "finish"
  /\ UNCHANGED <<proc, stream, backoffVars, cadenceVars, history>>

Finish ==
  /\ pc = "finish"
  /\ sampled' = TRUE /\ sinceSample' = sinceBegin /\ sinceBegin' = 0
  /\ reply' = "unused" /\ lost' = FALSE
  /\ pc' = "idle"
  /\ UNCHANGED <<procVars, stream, backoffVars, nvidiaErr, ageHistory, failHistory>>

---------------------------------------------------------------------------
(* GPUSampler.Close, as far as the child goes.                             *)

BeginClose ==
  /\ pc = "idle"
  /\ pc' = "close"
  /\ UNCHANGED <<procVars, stream, backoffVars, cadenceVars, replyVars, history>>

KillAtClose == Kill("close", "closing")

FinishClose ==
  /\ \/ pc = "close" /\ stream.child = NoChild /\ UNCHANGED proc
     \/ /\ pc = "closing" /\ Waited
        /\ proc' = [proc EXCEPT ![stream.child] = FreeSlot]
  /\ stream' = NoStream /\ ForgetStream
  /\ retryIn' = 0
  /\ strikes' = 0 /\ sinceFailure' = AgeCap /\ delay' = 0
  /\ pc' = "idle"
  /\ UNCHANGED <<aside, failures, cadenceVars, replyVars, lost>>

---------------------------------------------------------------------------
Init ==
  /\ proc = [s \in Slots |-> FreeSlot] /\ aside = "none"
  /\ stream = NoStream
  /\ failures = 0 /\ retryIn = 0
  /\ sampled = FALSE /\ sinceSample = 0 /\ sinceBegin = 0
  /\ nvidiaErr = "none" /\ reply = "unused"
  /\ pc = "idle"
  /\ tickAge = 0 /\ lag = 0 /\ sinceDrain = 0
  /\ strikes = 0 /\ sinceFailure = AgeCap /\ delay = 0
  /\ lost = FALSE

Start == StartFails \/ \E s \in Slots : StartSucceeds(s)
Read  == Drain \/ DrainFails \/ Reap
Judge == ServeTick \/ NoTick \/ Wait \/ GiveUp
Stop  == KillChild \/ WaitChild
OneShot == OneShotSucceeds \/ OneShotFails
Close == KillAtClose \/ FinishClose

(* What the sampler does on its own once the consumer called it.           *)
Running == ChooseSource \/ Start \/ Read \/ Judge \/ Stop \/ OneShot \/ Finish \/ Close

Consumer == SampleFails \/ SampleWithoutCard \/ SampleCard \/ BeginClose

Next == Environment \/ Consumer \/ Running

(* Time passes, and a call the consumer made is carried on.  The consumer, *)
(* the child and the driver are under no obligation.                       *)
Fairness == WF_vars(TimePasses) /\ WF_vars(Running)

Spec == Init /\ [][Next]_vars /\ Fairness

---------------------------------------------------------------------------
(* Properties.                                                             *)

Process == [state: ProcStates, unread: 0..PipeReports, age: Ages]
Stream == [child: Slots \cup {NoChild}, period: MinPeriod..MaxPeriod,
           quiet: Ages, ticked: BOOLEAN, err: {"none", "EOF", "failed"}]
Replies == {"unused", "none", "tick", "smi", "smiError", "startError"}
PCs == {"idle", "rows", "start", "drain", "reap", "serve", "judge", "stop", "wait",
        "oneshot", "finish", "close", "closing"}

TypeOK ==
  /\ proc \in [Slots -> Process] /\ aside \in AsideStates
  /\ stream \in Stream
  /\ failures \in 0..MaxFailures /\ retryIn \in 0..MaxBackoff
  /\ sampled \in BOOLEAN /\ sinceSample \in Ages /\ sinceBegin \in Ages
  /\ nvidiaErr \in {"none", "EOF", "failed", "silent"}
  /\ reply \in Replies /\ pc \in PCs
  /\ tickAge \in Ages /\ lag \in Ages /\ sinceDrain \in Ages
  /\ strikes \in 0..MaxFailures /\ sinceFailure \in Ages /\ delay \in 0..MaxBackoff
  /\ lost \in BOOLEAN

(* No nvidia-smi is left behind: a process that was started and not waited *)
(* for, or whose pipe is still open, is the child of the current stream.   *)
(* There is at most one, and none after Close, over any sequence of        *)
(* samples, restarts and closes (startNvidiaStream, stopNvidiaStream).     *)
(* What a call ran for itself is gone when the call goes on.               *)
NoStrayChild ==
  /\ \A s \in Slots : proc[s].state # "free" => s = stream.child
  /\ stream.child # NoChild => proc[stream.child].state # "free"
  /\ aside # "none" => pc \in {"start", "oneshot"}

(* How old a served reading can be.  tickAt is the time of the drain, not  *)
(* of the row, so a row can wait in the pipe for a whole gap between two   *)
(* drains and then be served for StaleFactor periods: that sum is the      *)
(* bound, and not StaleFactor periods (nvidiaStream.row, stale).           *)
ServedAgeIsBounded ==
  pc = "serve" /\ stream.ticked /\ ~Stale =>
    tickAge <= lag + StaleFactor * stream.period

(* A child is not started again before the backoff of the failures before  *)
(* it is over, whatever samples, one-shot runs and card removals came in   *)
(* between.  After n failed starts in a row that is at least 2^n default   *)
(* periods, capped; only Close forgets it (nvidiaRetryAt, nvidiaBackoff).  *)
RestartWaits ==
  pc = "start" /\ strikes > 0 => sinceFailure >= Backoff(strikes)

(* A sample that gave up its child says so, once: either the failure of    *)
(* the child is the issue, or that of the one-shot run that replaced it    *)
(* is, and never both (nvidiaRows).                                        *)
LossIsReported ==
  pc = "finish" /\ lost => (nvidiaErr # "none" <=> reply # "smiError")

(* A sample that has neither rows nor an issue is one whose child has not  *)
(* reported anything yet.  Once it has, every sample has rows or says why  *)
(* it has none (nvidiaStream.rows and the check after it in nvidiaRows).   *)
SilenceIsOnlyBeforeTheFirstReport ==
  pc = "finish" /\ reply = "none" =>
    stream.child # NoChild /\ ~stream.ticked /\ stream.err = "none"

Hung(s) == proc[s].state \in {"hung", "killed", "closed"}

(* The driver lets go of every process sooner or later.                    *)
DriverLetsGo == (\A s \in Slots : []<>~Hung(s)) /\ []<>(aside # "held")

(* A call of Sample or Close returns, if the driver lets go: a read does   *)
(* not wait for the child, but the end of file, stop and the one-shot run  *)
(* wait for the exit of a process.                                         *)
CallsReturnIfDriverLetsGo == DriverLetsGo => (pc # "idle" ~> pc = "idle")

(* A lost child is replaced: while the consumer samples a machine with a   *)
(* card and does not close the sampler, another start is attempted.  The   *)
(* samples made during the backoff do not push it back.                    *)
LostChildIsReplaced ==
  DriverLetsGo /\ []<><<SampleCard>>_vars =>
    (stream.child = NoChild ~> pc = "start")

(* The readings do not stop: the consumer keeps getting rows, or an issue  *)
(* that says why not.  A silent child cannot suppress both for ever.       *)
ReadingsKeepComing ==
  DriverLetsGo /\ []<><<SampleCard>>_vars /\ <>[][~BeginClose]_vars =>
    []<>(pc = "finish" /\ reply # "none")

(* gpu_linux.go, on nvidiaBackoff: "It grows with the number of failures". *)
(* Read on one stretch of failures, with no row served in between.         *)
BackoffGrows ==
  [][(GiveUp \/ StartFails) /\ delay > 0
       => retryIn' > delay \/ retryIn' = MaxBackoff]_vars

(* gpu_nvidia_linux.go, on the read end of the pipe: "a sample never       *)
(* blocks on the child".                                                   *)
CallsReturn == pc # "idle" ~> pc = "idle"
=============================================================================
