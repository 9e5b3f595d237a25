---------------------- MODULE NvidiaSupervisor_proofs ----------------------
(***************************************************************************)
(* The safety properties of NvidiaSupervisor, for all periods, factors,    *)
(* backoffs, slots and pipes that SupervisorConstants allows.  The         *)
(* invariant is a conjunction of parts, one per property, each inductive   *)
(* together with TypeOK (and, for the ages, with the part on processes).   *)
(***************************************************************************)
EXTENDS NvidiaSupervisor, TLAPS

---------------------------------------------------------------------------
(* The arithmetic of the durations.                                        *)

(* Every period of nvidiaPeriod is below the age where ages saturate, and  *)
(* so is the silence that makes it stale (nvidiaStaleFactor periods).      *)
LEMMA CapIsLarge ==
  /\ MaxPeriod + 1 <= AgeCap
  /\ \A p \in MinPeriod..MaxPeriod :
       /\ StaleFactor * p \in Nat
       /\ StaleFactor * p < AgeCap
<1> USE SupervisorConstants
<1> DEFINE F == StaleFactor
           M == MaxPeriod
<1>1. F * M >= M
  <2>1. F >= 1 /\ F \in Nat /\ M \in Nat
    OBVIOUS
  <2>2. (F - 1) * M >= 0
    BY <2>1, SMT
  <2>3. QED
    BY <2>1, <2>2, SMT
<1>2. ASSUME NEW p \in MinPeriod..MaxPeriod
      PROVE  F * p \in Nat /\ F * p < AgeCap
  <2>1. p \in Nat /\ p <= M /\ F \in Nat /\ M \in Nat
    OBVIOUS
  <2>2. F * p \in Nat
    BY <2>1, SMT
  <2>3. F * (M - p) >= 0
    BY <2>1, SMT
  <2>4. F * p <= F * M
    BY <2>1, <2>3, SMT
  <2>5. QED
    BY <2>2, <2>4
<1>3. QED
  BY <1>1, <1>2

(* What the constants promise, without products.                           *)
LEMMA Bounds ==
  /\ AgeCap \in Nat /\ MaxPeriod \in Nat /\ MaxPeriod + 1 <= AgeCap
  /\ MinPeriod \in Nat \ {0} /\ DefaultPeriod \in MinPeriod..MaxPeriod
  /\ MaxBackoff \in Nat \ {0} /\ MaxBackoff <= AgeCap
  /\ MaxFailures \in 1..6
  /\ NoChild \notin Slots
  /\ PipeReports \in Nat \ {0}
BY SupervisorConstants, CapIsLarge

(* nvidiaBackoff gives a delay within its cap, and a longer one for more   *)
(* failures.                                                               *)
LEMMA BackoffGrowsWithFailures ==
  ASSUME NEW n \in 0..MaxFailures
  PROVE  /\ Backoff(n) \in 0..MaxBackoff
         /\ \A k \in 0..n : Backoff(k) <= Backoff(n)
<1> USE SupervisorConstants
<1> n \in 0..6
  OBVIOUS
<1>1. ASSUME NEW k \in 0..n
      PROVE  /\ DefaultPeriod * PowersOfTwo[k + 1] \in Nat
             /\ DefaultPeriod * PowersOfTwo[k + 1]
                  <= DefaultPeriod * PowersOfTwo[n + 1]
  BY SMTT(30) DEF PowersOfTwo
<1>2. QED
  BY <1>1 DEF Backoff

(* The clamp of nvidiaFailures.                                            *)
LEMMA CappedIsBounded ==
  ASSUME NEW n \in 0..MaxFailures
  PROVE  Capped(n + 1) \in 1..MaxFailures /\ n <= Capped(n + 1)
BY SupervisorConstants DEF Capped

(* nvidiaPeriod stays between nvidiaMinPeriod and nvidiaMaxPeriod.         *)
LEMMA PeriodIsClamped ==
  ASSUME sinceSample \in Nat
  PROVE  Period \in MinPeriod..MaxPeriod
BY SupervisorConstants DEF Period

(* An age goes up by one, or stays where it saturates.                     *)
LEMMA AgesGrow ==
  ASSUME NEW a \in Ages
  PROVE  /\ Older(a) \in Ages /\ a <= Older(a) /\ Older(a) <= a + 1
         /\ Older(a) < AgeCap => Older(a) = a + 1
         /\ OlderUpTo(MaxPeriod + 1, a) \in Ages
BY SupervisorConstants, CapIsLarge DEF Ages, Older, OlderUpTo

---------------------------------------------------------------------------
(* Types.                                                                  *)

(* The state that newGPUSampler returns is well typed.                     *)
LEMMA InitTyped == Init => TypeOK
<1> SUFFICES ASSUME Init PROVE TypeOK
  OBVIOUS
<1> USE Bounds DEF Init
<1>1. 0 \in Ages /\ AgeCap \in Ages
  BY DEF Ages
<1>2. FreeSlot \in Process /\ NoStream \in Stream
  BY <1>1 DEF FreeSlot, Process, ProcStates, NoStream, Stream
<1>3. /\ failures \in 0..MaxFailures /\ retryIn \in 0..MaxBackoff
      /\ sinceSample \in Ages /\ sinceBegin \in Ages
      /\ nvidiaErr \in {"none", "EOF", "failed", "silent"}
      /\ tickAge \in Ages /\ lag \in Ages /\ sinceDrain \in Ages
      /\ strikes \in 0..MaxFailures /\ sinceFailure \in Ages
      /\ delay \in 0..MaxBackoff
  BY <1>1
<1>4. reply \in Replies /\ pc \in PCs
  BY DEF Replies, PCs
<1>5. sampled \in BOOLEAN /\ lost \in BOOLEAN /\ aside \in AsideStates
  BY DEF AsideStates
<1>6. QED
  BY <1>2, <1>3, <1>4, <1>5 DEF TypeOK

(* Where the sampler handles a child, there is one.                        *)
HandlesChild == {"drain", "reap", "serve", "judge", "stop", "wait", "closing"}
HasChild == pc \in HandlesChild => stream.child # NoChild

(* The durations a failure sets are within their bounds.                   *)
LEMMA FailureTyped ==
  ASSUME TypeOK, NEW n \in 0..MaxFailures
  PROVE  /\ Capped(failures + 1) \in 0..MaxFailures
         /\ Capped(n + 1) \in 0..MaxFailures
         /\ Backoff(Capped(failures + 1)) \in 0..MaxBackoff
<1>1. failures \in 0..MaxFailures
  BY DEF TypeOK
<1>2. /\ Capped(failures + 1) \in 0..MaxFailures
      /\ Capped(n + 1) \in 0..MaxFailures
  BY <1>1, Bounds DEF Capped
<1>3. QED
  BY <1>2, BackoffGrowsWithFailures

(* No step of the child, the clock or the sampler leaves the types.        *)
LEMMA NextTyped == TypeOK /\ HasChild /\ [Next]_vars => TypeOK'
<1> SUFFICES ASSUME TypeOK, HasChild, [Next]_vars PROVE TypeOK'
  OBVIOUS
<1> USE Bounds
        DEF TypeOK, procVars, backoffVars, cadenceVars, replyVars,
            ageHistory, failHistory, history
<1>1. CASE TimePasses
  <2>1. proc' \in [Slots -> Process]
    BY <1>1, AgesGrow DEF TimePasses, Process
  <2>2. stream' \in Stream
    BY <1>1, AgesGrow DEF TimePasses, Stream
  <2>3. retryIn' \in 0..MaxBackoff
    BY <1>1 DEF TimePasses
  <2>4. /\ sinceSample' \in Ages /\ sinceBegin' \in Ages /\ tickAge' \in Ages
        /\ sinceDrain' \in Ages /\ sinceFailure' \in Ages
    BY <1>1, AgesGrow DEF TimePasses
  <2>5. QED
    BY <1>1, <2>1, <2>2, <2>3, <2>4 DEF TimePasses
<1>2. ASSUME NEW s \in Slots, WriteReport(s) PROVE TypeOK'
  <2>1. proc' \in [Slots -> Process]
    <3>1. proc[s] \in Process /\ 0 \in Ages
      BY DEF Ages
    <3>2. proc[s].unread + 1 \in 0..PipeReports
      BY <1>2, <3>1 DEF WriteReport, Process
    <3>3. QED
      BY <1>2, <3>1, <3>2 DEF WriteReport, Process
  <2>2. QED
    BY <1>2, <2>1 DEF WriteReport
<1>3. ASSUME NEW s \in Slots, NEW from \in ProcStates, NEW to \in ProcStates,
             ChangeState(s, from, to)
      PROVE  TypeOK'
  <2>1. proc' \in [Slots -> Process]
    BY <1>3 DEF ChangeState, Process
  <2>2. QED
    BY <1>3, <2>1 DEF ChangeState
<1>4. CASE Environment
  <2>1. CASE HoldAside \/ ReleaseAside
    BY <2>1 DEF HoldAside, ReleaseAside, AsideStates
  <2>2. QED
    BY <1>1, <1>2, <1>3, <1>4, <2>1
       DEF Environment, Exit, Hang, CloseOutput, Release, ProcStates
<1>5. CASE Consumer
  <2>1. CASE SampleWithoutCard
    <3>1. sampled' \in BOOLEAN
      BY <2>1 DEF SampleWithoutCard
    <3>2. sinceSample' \in Ages
      BY <2>1 DEF SampleWithoutCard, Ages
    <3>3. QED
      BY <2>1, <3>1, <3>2 DEF SampleWithoutCard
  <2>2. CASE SampleFails \/ SampleCard \/ BeginClose
    BY <2>2 DEF SampleFails, SampleCard, BeginClose, PCs, Ages
  <2>3. QED
    BY <1>5, <2>1, <2>2 DEF Consumer
<1>6. CASE ChooseSource
  BY <1>6 DEF ChooseSource, PCs
<1>7. ASSUME NEW s \in Slots, StartSucceeds(s) PROVE TypeOK'
  <2>1. proc' \in [Slots -> Process]
    BY <1>7 DEF StartSucceeds, Process, ProcStates
  <2>2. stream' \in Stream
    <3>1. 0 \in Ages /\ sinceSample \in Nat
      BY DEF Ages
    <3>2. Period \in MinPeriod..MaxPeriod
      BY <3>1, PeriodIsClamped
    <3>3. QED
      BY <1>7, <3>1, <3>2 DEF StartSucceeds, NoStream, Stream
  <2>3. QED
    BY <1>7, <2>1, <2>2 DEF StartSucceeds, PCs, Ages
<1>8. CASE StartFails
  BY <1>8, FailureTyped
     DEF StartFails, CountFailure, Struck, PCs, Replies, Ages, AsideStates
<1>9. CASE Drain
  <2> DEFINE p == proc[stream.child]
             ended == p.state \in {"exited", "closed"}
             ticked == stream.ticked \/ p.unread > 0
             quiet == IF p.unread > 0 THEN 0 ELSE stream.quiet
             err == IF ended THEN "EOF" ELSE stream.err
  <2>1. stream.child \in Slots /\ p \in Process /\ 0 \in Ages
    BY <1>9 DEF Drain, DrainTo, HasChild, HandlesChild, Stream, Ages
  <2>2. ticked \in BOOLEAN
    OBVIOUS
  <2>3. quiet \in Ages /\ err \in {"none", "EOF", "failed"}
    BY <2>1 DEF Stream, Process
  <2>4. /\ stream' = [stream EXCEPT !.ticked = ticked, !.quiet = quiet, !.err = err]
        /\ proc' = [proc EXCEPT ![stream.child] = [p EXCEPT !.unread = 0, !.age = 0]]
    BY <1>9, <2>1 DEF Drain, DrainTo, Process
  <2>5. tickAge' \in Ages /\ lag' \in Ages /\ sinceDrain' \in Ages /\ pc' \in PCs
    BY <1>9, <2>1 DEF Drain, DrainTo, Process, PCs
  <2>6. stream' \in Stream /\ proc' \in [Slots -> Process]
    <3> HIDE DEF p, ended, ticked, quiet, err
    <3>1. [p EXCEPT !.unread = 0, !.age = 0] \in Process
      BY <2>1, 0 \in 0..PipeReports DEF Process
    <3>2. proc' \in [Slots -> Process]
      BY <3>1, <2>4
    <3>3. stream' \in Stream
      BY <2>2, <2>3, <2>4 DEF Stream
    <3>4. QED
      BY <3>2, <3>3
  <2>7. QED
    BY <1>9, <2>5, <2>6 DEF Drain, DrainTo
<1>10. CASE DrainFails
  BY <1>10 DEF DrainFails, Stream, PCs
<1>11. CASE Judge
  <2>1. CASE ServeTick \/ NoTick \/ Wait
    BY <2>1 DEF ServeTick, NoTick, Wait, PCs, Replies
  <2>2. CASE GiveUp
    <3>1. Capped(1) \in 0..MaxFailures
      BY DEF Capped
    <3>2. stream.err \in {"none", "EOF", "failed"}
      BY DEF Stream
    <3>3. QED
      BY <2>2, <3>1, <3>2, FailureTyped DEF GiveUp, CountFailure, Struck, PCs, Ages
  <2>3. QED
    BY <1>11, <2>1, <2>2 DEF Judge
<1>12. ASSUME NEW from, NEW to \in PCs, Kill(from, to) PROVE TypeOK'
  <2>1. stream.child \in Slots
    BY <1>12 DEF Kill, Stream
  <2>2. proc' \in [Slots -> Process]
    BY <1>12, <2>1 DEF Kill, Process, ProcStates
  <2>3. QED
    BY <1>12, <2>2 DEF Kill
<1>13. NoStream \in Stream /\ FreeSlot \in Process
  BY DEF NoStream, Stream, FreeSlot, Process, ProcStates, Ages
<1>14. CASE WaitChild
  <2>1. proc' \in [Slots -> Process]
    BY <1>13, <1>14 DEF WaitChild
  <2>2. QED
    BY <1>13, <1>14, <2>1 DEF WaitChild, ForgetStream, PCs, Ages
<1>15. CASE OneShot
  BY <1>15 DEF OneShot, OneShotSucceeds, OneShotFails, PCs, Replies, AsideStates
<1>16. CASE Finish
  <2>1. sampled' \in BOOLEAN /\ lost' \in BOOLEAN
    BY <1>16 DEF Finish
  <2>2. QED
    BY <1>16, <2>1 DEF Finish, PCs, Replies, Ages
<1>17. CASE FinishClose
  BY <1>13, <1>17 DEF FinishClose, ForgetStream, PCs, Ages
<1>18. CASE UNCHANGED vars
  BY <1>18 DEF vars
<1>19. CASE Reap
  <2>1. stream.child \in Slots
    BY <1>19 DEF Reap, HasChild, HandlesChild, Stream
  <2>2. proc' \in [Slots -> Process]
    BY <1>19, <2>1 DEF Reap, Process, ProcStates
  <2>3. QED
    BY <1>19, <2>2 DEF Reap, PCs
<1>20. QED
  BY <1>4, <1>5, <1>6, <1>7, <1>8, <1>9, <1>10, <1>11, <1>12, <1>14, <1>15,
     <1>16, <1>17, <1>18, <1>19
     DEF Next, Running, Start, Read, Stop, Close, KillChild, KillAtClose, PCs

---------------------------------------------------------------------------
(* The child processes.                                                    *)

OneChild ==
  /\ NoStrayChild
  /\ HasChild
  /\ pc = "start" => stream.child = NoChild

(* Before the first sample there is no child.                              *)
LEMMA InitOneChild == Init => OneChild
BY DEF Init, OneChild, NoStrayChild, HasChild, HandlesChild, NoStream, FreeSlot

(* A child is started only where there is none, and forgotten only when it *)
(* was killed and waited for.                                              *)
LEMMA NextOneChild == TypeOK /\ OneChild /\ [Next]_vars => OneChild'
<1> SUFFICES ASSUME TypeOK, OneChild, [Next]_vars PROVE OneChild'
  OBVIOUS
<1> USE DEF OneChild, NoStrayChild, HasChild, HandlesChild, procVars, history
<1>0. /\ NoChild \notin Slots
      /\ stream \in Stream /\ stream.child \in Slots \cup {NoChild}
      /\ proc \in [Slots -> Process]
  BY Bounds DEF TypeOK, Stream
<1>1. ASSUME UNCHANGED <<proc, stream>>,
             aside' # "none" => pc' \in {"start", "oneshot"},
             pc' \in HandlesChild => stream.child # NoChild,
             pc' = "start" => stream.child = NoChild
      PROVE  OneChild'
  BY <1>1
<1>2. ASSUME stream'.child = stream.child, aside' = aside, pc' = pc,
             \A s \in Slots : (proc'[s].state = "free") <=> (proc[s].state = "free")
      PROVE  OneChild'
  BY <1>0, <1>2
<1>3. CASE TimePasses
  BY <1>0, <1>2, <1>3 DEF TimePasses, Process, Stream
<1>4. ASSUME NEW s \in Slots, WriteReport(s) PROVE OneChild'
  BY <1>0, <1>2, <1>4 DEF WriteReport, Process
<1>5. ASSUME NEW s \in Slots, NEW from \in ProcStates, NEW to \in ProcStates,
             from # "free", to # "free", ChangeState(s, from, to)
      PROVE  OneChild'
  BY <1>0, <1>2, <1>5 DEF ChangeState, Process
<1>6. CASE Environment
  <2>1. CASE HoldAside \/ ReleaseAside
    BY <1>1, <2>1 DEF HoldAside, ReleaseAside
  <2>2. QED
    BY <1>3, <1>4, <1>5, <1>6, <2>1
       DEF Environment, Exit, Hang, CloseOutput, Release, ProcStates
<1>7. CASE Consumer
  BY <1>1, <1>7 DEF Consumer, SampleFails, SampleWithoutCard, SampleCard,
                    BeginClose
<1>8. CASE ChooseSource
  BY <1>1, <1>8 DEF ChooseSource
<1>9. ASSUME NEW s \in Slots, StartSucceeds(s) PROVE OneChild'
  BY <1>0, <1>9 DEF StartSucceeds, NoStream, Process
<1>10. CASE StartFails
  BY <1>1, <1>10 DEF StartFails
<1>11. CASE Drain
  <2>1. stream.child \in Slots /\ proc[stream.child].state # "free"
    BY <1>0, <1>11 DEF Drain, DrainTo
  <2>2. stream'.child = stream.child
    BY <1>0, <1>11 DEF Drain, DrainTo, Stream
  <2>3. \A s \in Slots : (proc'[s].state = "free") <=> (proc[s].state = "free")
    BY <1>0, <1>11, <2>1 DEF Drain, DrainTo, Process
  <2>4. aside' = aside /\ pc = "drain" /\ pc' \in {"reap", "serve"}
    BY <1>11 DEF Drain, DrainTo
  <2>5. QED
    BY <1>0, <2>1, <2>2, <2>3, <2>4
<1>12. CASE DrainFails
  BY <1>0, <1>12 DEF DrainFails, Stream
<1>13. CASE Judge
  BY <1>1, <1>13 DEF Judge, ServeTick, NoTick, Wait, GiveUp
<1>14. ASSUME NEW from \in {"stop", "close"}, NEW to \in {"wait", "closing"},
              Kill(from, to)
       PROVE  OneChild'
  <2>1. stream.child \in Slots /\ proc[stream.child].state # "free"
    BY <1>0, <1>14 DEF Kill
  <2>2. \A s \in Slots : (proc'[s].state = "free") <=> (proc[s].state = "free")
    BY <1>0, <1>14, <2>1 DEF Kill, Process
  <2>3. aside' = aside /\ stream' = stream /\ pc' = to /\ pc \notin {"start", "oneshot"}
    BY <1>14 DEF Kill
  <2>4. QED
    BY <1>0, <2>1, <2>2, <2>3
<1>15. CASE WaitChild
  BY <1>0, <1>15 DEF WaitChild, NoStream, FreeSlot
<1>16. CASE OneShot
  BY <1>1, <1>16 DEF OneShot, OneShotSucceeds, OneShotFails
<1>17. CASE Finish
  BY <1>1, <1>17 DEF Finish
<1>18. CASE FinishClose
  BY <1>0, <1>18 DEF FinishClose, NoStream, FreeSlot
<1>19. CASE UNCHANGED vars
  BY <1>1, <1>19 DEF vars
<1>20. CASE Reap
  <2>1. stream.child \in Slots /\ proc[stream.child].state # "free"
    BY <1>0, <1>20 DEF Reap
  <2>2. \A s \in Slots : (proc'[s].state = "free") <=> (proc[s].state = "free")
    BY <1>0, <1>20, <2>1 DEF Reap, Process
  <2>3. QED
    BY <1>0, <1>20, <2>1, <2>2 DEF Reap
<1>21. QED
  BY <1>6, <1>7, <1>8, <1>9, <1>10, <1>11, <1>12, <1>13, <1>14, <1>15, <1>16,
     <1>17, <1>18, <1>19, <1>20
     DEF Next, Running, Start, Read, Stop, Close, KillChild, KillAtClose

(* The invariant of the processes, for every step of the specification.    *)
LEMMA Children == Spec => [](TypeOK /\ OneChild)
<1>1. TypeOK /\ OneChild /\ [Next]_vars => (TypeOK /\ OneChild)'
  BY NextTyped, NextOneChild DEF OneChild
<1>2. QED
  BY <1>1, InitTyped, InitOneChild, PTL DEF Spec

(* The types, of the state and of its history.                             *)
THEOREM Typed == Spec => []TypeOK
BY Children, PTL

(* A nvidia-smi process that still exists, or whose pipe is still open, is *)
(* the child of the current stream: at most one, and none after Close      *)
(* (startNvidiaStream, stopNvidiaStream).                                  *)
THEOREM NoStray == Spec => []NoStrayChild
<1>1. OneChild => NoStrayChild
  BY DEF OneChild
<1>2. QED
  BY <1>1, Children, PTL

---------------------------------------------------------------------------
(* The age of what is served.                                              *)

(* What waits in the pipe was written after the last drain; a tick is at   *)
(* most lag older than the drain that read it.                             *)
ReadingAges ==
  /\ \A s \in Slots : proc[s].state = "free" => proc[s].unread = 0
  /\ stream.child # NoChild /\ proc[stream.child].unread > 0 =>
       proc[stream.child].age <= sinceDrain
  /\ stream.child = NoChild => ~stream.ticked
  /\ stream.ticked /\ stream.quiet < AgeCap => tickAge <= lag + stream.quiet

(* Before the first sample there is nothing to read.                       *)
LEMMA InitReadingAges == Init => ReadingAges
BY DEF Init, ReadingAges, NoStream, FreeSlot

(* Time ages a reading, the drain before it and the silence after it       *)
(* together; a drain starts from the age the reading has by then.          *)
LEMMA NextReadingAges ==
  TypeOK /\ OneChild /\ ReadingAges /\ [Next]_vars => ReadingAges'
<1> SUFFICES ASSUME TypeOK, OneChild, ReadingAges, [Next]_vars
             PROVE  ReadingAges'
  OBVIOUS
<1> USE DEF ReadingAges, procVars, history
<1>0. /\ NoChild \notin Slots /\ AgeCap \in Nat
      /\ stream \in Stream /\ stream.child \in Slots \cup {NoChild}
      /\ proc \in [Slots -> Process]
      /\ \A s \in Slots : proc[s] \in Process
      /\ stream.quiet \in 0..AgeCap /\ tickAge \in 0..AgeCap
      /\ lag \in 0..AgeCap /\ sinceDrain \in 0..AgeCap
      /\ \A s \in Slots : proc[s].age \in 0..AgeCap
      /\ \A s \in Slots : proc[s].unread \in Nat
  BY Bounds DEF TypeOK, Stream, Process, Ages
<1>1. ASSUME UNCHANGED <<proc, tickAge, lag, sinceDrain>>,
             stream'.child = stream.child, stream'.ticked = stream.ticked,
             stream'.quiet = stream.quiet
      PROVE  ReadingAges'
  BY <1>1
<1>2. CASE TimePasses
  <2>1. \A s \in Slots : /\ proc'[s].state = proc[s].state
                         /\ proc'[s].unread = proc[s].unread
    BY <1>0, <1>2 DEF TimePasses, Process
  <2>2. /\ stream'.child = stream.child /\ stream'.ticked = stream.ticked
        /\ stream.child # NoChild => stream'.quiet = Older(stream.quiet)
    BY <1>0, <1>2 DEF TimePasses, Stream
  <2>3. ASSUME stream'.child # NoChild, proc'[stream'.child].unread > 0
        PROVE  proc'[stream'.child].age <= sinceDrain'
    <3>1. /\ proc'[stream'.child].age = Older(proc[stream.child].age)
          /\ sinceDrain' = Older(sinceDrain)
      BY <1>0, <1>2, <2>1, <2>2, <2>3 DEF TimePasses, Process
    <3>2. proc[stream.child].age <= sinceDrain
      BY <1>0, <2>1, <2>2, <2>3
    <3>3. QED
      BY <1>0, <2>2, <2>3, <3>1, <3>2 DEF Older, OlderUpTo
  <2>4. ASSUME stream'.ticked, stream'.quiet < AgeCap
        PROVE  tickAge' <= lag' + stream'.quiet
    <3>1. stream.ticked /\ stream.child # NoChild
      BY <2>2, <2>4
    <3>2. /\ stream'.quiet = Older(stream.quiet) /\ tickAge' = Older(tickAge)
          /\ lag' = lag
      BY <1>2, <2>2, <3>1 DEF TimePasses
    <3>3. stream.quiet < AgeCap /\ stream'.quiet = stream.quiet + 1
      BY <1>0, <2>4, <3>2 DEF Older, OlderUpTo
    <3>4. tickAge' <= tickAge + 1
      BY <1>0, <3>2 DEF Older, OlderUpTo
    <3>5. tickAge <= lag + stream.quiet
      BY <3>1, <3>3
    <3>6. tickAge' \in Nat
      BY <1>0, <3>2 DEF Older, OlderUpTo
    <3> HIDE DEF ReadingAges
    <3>7. QED
      BY <1>0, <3>2, <3>3, <3>4, <3>5, <3>6
  <2>5. QED
    BY <1>0, <2>1, <2>2, <2>3, <2>4
<1>3. ASSUME NEW s \in Slots, WriteReport(s) PROVE ReadingAges'
  <2>1. /\ \A t \in Slots : /\ proc'[t].state = proc[t].state
                            /\ t # s => proc'[t] = proc[t]
        /\ proc[s].state # "free" /\ proc'[s].age = 0
    BY <1>0, <1>3 DEF WriteReport, Process
  <2>2. UNCHANGED <<stream, tickAge, lag, sinceDrain>>
    BY <1>3 DEF WriteReport, history
  <2>3. QED
    BY <1>0, <2>1, <2>2
<1>4. ASSUME NEW s \in Slots, NEW from \in ProcStates, NEW to \in ProcStates,
             to # "free", ChangeState(s, from, to)
      PROVE  ReadingAges'
  <2>1. \A t \in Slots : /\ proc'[t].unread = proc[t].unread
                         /\ proc'[t].age = proc[t].age
                         /\ proc'[t].state = "free" => proc[t].state = "free"
    BY <1>0, <1>4 DEF ChangeState, Process
  <2>2. UNCHANGED <<stream, tickAge, lag, sinceDrain>>
    BY <1>4 DEF ChangeState, history
  <2>3. QED
    BY <1>0, <2>1, <2>2
<1>5. CASE Environment
  <2>1. CASE HoldAside \/ ReleaseAside
    BY <1>1, <2>1 DEF HoldAside, ReleaseAside
  <2>2. QED
    BY <1>2, <1>3, <1>4, <1>5, <2>1
       DEF Environment, Exit, Hang, CloseOutput, Release, ProcStates
<1>6. CASE Consumer
  BY <1>1, <1>6 DEF Consumer, SampleFails, SampleWithoutCard, SampleCard,
                    BeginClose, history
<1>7. CASE ChooseSource
  BY <1>1, <1>7 DEF ChooseSource, history
<1>8. ASSUME NEW s \in Slots, StartSucceeds(s) PROVE ReadingAges'
  BY <1>0, <1>8 DEF StartSucceeds, NoStream, Process
<1>9. CASE StartFails
  BY <1>1, <1>9 DEF StartFails, ageHistory
<1>10. CASE Drain
  <2>1. stream.child \in Slots /\ proc[stream.child].state # "free"
    BY <1>0, <1>10 DEF Drain, DrainTo, OneChild, NoStrayChild, HasChild, HandlesChild
  <2>2. stream'.child = stream.child /\ sinceDrain' = 0
    BY <1>0, <1>10 DEF Drain, DrainTo, Stream
  <2>3. /\ proc'[stream.child].state # "free" /\ proc'[stream.child].unread = 0
        /\ \A s \in Slots \ {stream.child} : proc'[s] = proc[s]
    BY <1>0, <1>10, <2>1 DEF Drain, DrainTo, Process
  <2>4. ASSUME stream'.ticked, stream'.quiet < AgeCap
        PROVE  tickAge' <= lag' + stream'.quiet
    <3>1. CASE proc[stream.child].unread > 0
      <4>1. /\ tickAge' = proc[stream.child].age /\ lag' = sinceDrain
            /\ stream'.quiet = 0
        BY <1>0, <1>10, <3>1 DEF Drain, DrainTo, Stream
      <4>2. QED
        BY <1>0, <2>1, <3>1, <4>1
    <3>2. CASE ~(proc[stream.child].unread > 0)
      <4>1. UNCHANGED <<tickAge, lag>> /\ stream'.quiet = stream.quiet
        BY <1>0, <1>10, <3>2 DEF Drain, DrainTo, Stream
      <4>2. stream.ticked
        BY <1>0, <1>10, <2>4, <3>2 DEF Drain, DrainTo, Stream
      <4>3. QED
        BY <2>4, <4>1, <4>2
    <3>3. QED
      BY <3>1, <3>2
  <2>5. QED
    BY <1>0, <2>1, <2>2, <2>3, <2>4
<1>11. CASE DrainFails
  BY <1>0, <1>1, <1>11 DEF DrainFails, Stream, history
<1>12. CASE Judge
  BY <1>1, <1>12 DEF Judge, ServeTick, NoTick, Wait, GiveUp, history, ageHistory
<1>13. ASSUME NEW from, NEW to, Kill(from, to) PROVE ReadingAges'
  <2>1. stream.child \in Slots
    BY <1>0, <1>13 DEF Kill
  <2>2. \A s \in Slots : /\ proc'[s].unread = proc[s].unread
                         /\ proc'[s].age = proc[s].age
                         /\ proc'[s].state = "free" => proc[s].state = "free"
    BY <1>0, <1>13, <2>1 DEF Kill, Process
  <2>3. UNCHANGED <<stream, tickAge, lag, sinceDrain>>
    BY <1>13 DEF Kill, history
  <2>4. QED
    BY <1>0, <2>1, <2>2, <2>3
<1>14. CASE WaitChild \/ FinishClose
  <2>1. /\ stream' = NoStream
        /\ \A s \in Slots : proc'[s] = proc[s] \/ proc'[s] = FreeSlot
    BY <1>0, <1>14 DEF WaitChild, FinishClose
  <2>2. QED
    BY <1>0, <2>1 DEF NoStream, FreeSlot
<1>15. CASE OneShot \/ Finish
  BY <1>1, <1>15 DEF OneShot, OneShotSucceeds, OneShotFails, Finish, history,
                     ageHistory
<1>16. CASE UNCHANGED vars
  BY <1>1, <1>16 DEF vars
<1>17. CASE Reap
  <2>1. stream.child \in Slots
    BY <1>0, <1>17 DEF Reap, OneChild, HasChild, HandlesChild
  <2>2. \A s \in Slots : /\ proc'[s].unread = proc[s].unread
                         /\ proc'[s].age = proc[s].age
                         /\ proc'[s].state = "free" => proc[s].state = "free"
    BY <1>0, <1>17, <2>1 DEF Reap, Process
  <2>3. UNCHANGED <<stream, tickAge, lag, sinceDrain>>
    BY <1>17 DEF Reap
  <2>4. QED
    BY <1>0, <2>1, <2>2, <2>3
<1>18. QED
  BY <1>5, <1>6, <1>7, <1>8, <1>9, <1>10, <1>11, <1>12, <1>13, <1>14, <1>15,
     <1>16, <1>17 DEF Next, Running, Start, Read, Stop, Close, KillChild, KillAtClose

(* A served reading is at most as old as the gap between the two drains    *)
(* around it and StaleFactor periods together (nvidiaStream.row, stale).   *)
THEOREM ServedAge == Spec => []ServedAgeIsBounded
<1>1. TypeOK /\ ReadingAges => ServedAgeIsBounded
  <2> SUFFICES ASSUME TypeOK, ReadingAges, stream.ticked, ~Stale
               PROVE  tickAge <= lag + StaleFactor * stream.period
    BY DEF ServedAgeIsBounded
  <2> DEFINE limit == StaleFactor * stream.period
  <2>1. stream.period \in MinPeriod..MaxPeriod /\ stream.quiet \in Nat
    BY DEF TypeOK, Stream, Ages
  <2>2. limit \in Nat /\ limit < AgeCap
    BY <2>1, CapIsLarge
  <2>3. ~(stream.quiet > limit)
    BY DEF Stale
  <2>4. lag \in Nat /\ tickAge \in Nat /\ AgeCap \in Nat
    BY Bounds DEF TypeOK, Ages
  <2> HIDE DEF limit
  <2>5. tickAge <= lag + limit
    BY <2>1, <2>2, <2>3, <2>4 DEF ReadingAges
  <2>6. QED
    BY <2>5 DEF limit
<1>2. QED
  BY <1>1, Children, InitReadingAges, NextReadingAges, PTL DEF Spec

---------------------------------------------------------------------------
(* The backoff.                                                            *)

(* What is left of a delay and what has passed of it make up the delay of  *)
(* the failures in a row, which the sampler never undercounts.             *)
BackoffHolds ==
  /\ strikes <= failures
  /\ strikes > 0 => Backoff(strikes) <= retryIn + sinceFailure
  /\ pc = "start" => retryIn = 0

(* Nothing has failed before the first sample.                             *)
LEMMA InitBackoffHolds == Init => BackoffHolds
BY DEF Init, BackoffHolds

(* A failure sets at least the delay its strikes ask for.                  *)
LEMMA FailureHolds ==
  ASSUME TypeOK, BackoffHolds, NEW n \in 0..MaxFailures, n <= failures,
         CountFailure, Struck(n + 1), pc' # "start"
  PROVE  BackoffHolds'
<1>1. /\ Capped(n + 1) \in 1..MaxFailures
      /\ Capped(failures + 1) \in 1..MaxFailures
      /\ Capped(n + 1) <= Capped(failures + 1)
  BY Bounds DEF TypeOK, Capped
<1>2. /\ Backoff(Capped(n + 1)) <= Backoff(Capped(failures + 1))
      /\ Backoff(Capped(n + 1)) \in Nat /\ Backoff(Capped(failures + 1)) \in Nat
  BY <1>1, BackoffGrowsWithFailures, Bounds
<1>3. /\ strikes' = Capped(n + 1) /\ failures' = Capped(failures + 1)
      /\ retryIn' = Backoff(Capped(failures + 1)) /\ sinceFailure' = 0
  BY DEF CountFailure, Struck
<1>4. QED
  BY <1>1, <1>2, <1>3 DEF BackoffHolds

(* Only time, a failure, a start that succeeds and Close touch the delay.  *)
LEMMA NextBackoffHolds ==
  TypeOK /\ BackoffHolds /\ [Next]_vars => BackoffHolds'
<1> SUFFICES ASSUME TypeOK, BackoffHolds, [Next]_vars PROVE BackoffHolds'
  OBVIOUS
<1> USE DEF BackoffHolds, backoffVars, failHistory, history
<1>0. /\ failures \in 0..MaxFailures /\ strikes \in 0..MaxFailures
      /\ retryIn \in Nat /\ sinceFailure \in 0..AgeCap /\ AgeCap \in Nat
      /\ Backoff(strikes) \in Nat /\ Backoff(strikes) <= AgeCap
  BY Bounds, BackoffGrowsWithFailures DEF TypeOK, Ages
<1>1. ASSUME UNCHANGED <<failures, retryIn, strikes, sinceFailure>>,
             pc' = "start" => pc = "start" \/ retryIn = 0
      PROVE  BackoffHolds'
  BY <1>1
<1>2. CASE TimePasses
  <2>1. /\ UNCHANGED <<failures, strikes, pc>>
        /\ retryIn' = IF retryIn = 0 THEN 0 ELSE retryIn - 1
        /\ sinceFailure' = Older(sinceFailure)
    BY <1>2 DEF TimePasses
  <2>2. \/ sinceFailure' = sinceFailure + 1
        \/ sinceFailure' = AgeCap
    BY <1>0, <2>1 DEF Older, OlderUpTo
  <2>3. Backoff(strikes') = Backoff(strikes)
    BY <2>1
  <2>4. QED
    BY <1>0, <2>1, <2>2, <2>3
<1>3. CASE \/ \E s \in Slots : \/ WriteReport(s) \/ Exit(s) \/ Hang(s)
                                \/ CloseOutput(s) \/ Release(s)
           \/ HoldAside \/ ReleaseAside
  BY <1>1, <1>3 DEF WriteReport, Exit, Hang, CloseOutput, Release, ChangeState,
                    HoldAside, ReleaseAside
<1>4. CASE Consumer
  BY <1>1, <1>4 DEF Consumer, SampleFails, SampleWithoutCard, SampleCard,
                    BeginClose
<1>5. CASE ChooseSource
  BY <1>1, <1>5 DEF ChooseSource
<1>6. ASSUME NEW s \in Slots, StartSucceeds(s) PROVE BackoffHolds'
  BY <1>6 DEF StartSucceeds
<1>7. CASE StartFails
  BY <1>0, <1>7, FailureHolds DEF StartFails
<1>8. CASE Read
  BY <1>1, <1>8 DEF Read, Drain, DrainTo, DrainFails, Reap
<1>9. CASE ServeTick \/ NoTick \/ Wait
  BY <1>1, <1>9 DEF ServeTick, NoTick, Wait
<1>10. CASE GiveUp
  <2>1. CountFailure /\ Struck(0 + 1) /\ pc' # "start"
    BY <1>10 DEF GiveUp
  <2>2. 0 \in 0..MaxFailures /\ 0 <= failures
    BY <1>0, Bounds
  <2>3. QED
    BY <2>1, <2>2, FailureHolds
<1>11. ASSUME NEW from, NEW to \in {"wait", "closing"}, Kill(from, to)
       PROVE  BackoffHolds'
  BY <1>1, <1>11 DEF Kill
<1>12. CASE WaitChild \/ OneShot \/ Finish
  BY <1>1, <1>12 DEF WaitChild, OneShot, OneShotSucceeds, OneShotFails, Finish
<1>13. CASE FinishClose
  BY <1>0, <1>13 DEF FinishClose
<1>14. CASE UNCHANGED vars
  BY <1>1, <1>14 DEF vars
<1>15. QED
  BY <1>2, <1>3, <1>4, <1>5, <1>6, <1>7, <1>8, <1>9, <1>10, <1>11, <1>12,
     <1>13, <1>14
     DEF Next, Environment, Running, Start, Judge, Stop, Close, KillChild,
         KillAtClose

(* A child is started again only when the backoff of the failures in a row *)
(* before it has passed, whatever the sampler did in between               *)
(* (nvidiaRetryAt, nvidiaBackoff).                                         *)
THEOREM Restart == Spec => []RestartWaits
<1>1. TypeOK /\ BackoffHolds => RestartWaits
  BY DEF TypeOK, BackoffHolds, RestartWaits, Ages
<1>2. QED
  BY <1>1, Children, InitBackoffHolds, NextBackoffHolds, PTL DEF Spec

---------------------------------------------------------------------------
(* What a sample reports.                                                  *)

(* From the loss of the child to the one-shot run its failure is the       *)
(* issue, and then either that or the failure of the run is; a child whose *)
(* reading is not served is still stale when it is judged again.           *)
NothingVanishes ==
  /\ lost => \/ pc \in {"stop", "wait", "oneshot"} /\ nvidiaErr # "none"
             \/ pc = "finish" /\ (nvidiaErr # "none" <=> reply # "smiError")
  /\ pc = "judge" /\ stream.ticked => Stale
  /\ SilenceIsOnlyBeforeTheFirstReport

(* Before the first sample nothing is lost.                                *)
LEMMA InitNothingVanishes == Init => NothingVanishes
BY DEF Init, NothingVanishes, SilenceIsOnlyBeforeTheFirstReport, NoStream

(* The two judgements and the one-shot run keep what has to be said.       *)
LEMMA NextNothingVanishes ==
  TypeOK /\ OneChild /\ NothingVanishes /\ [Next]_vars => NothingVanishes'
<1> SUFFICES ASSUME TypeOK, OneChild, NothingVanishes, [Next]_vars
             PROVE  NothingVanishes'
  OBVIOUS
<1> USE DEF NothingVanishes, SilenceIsOnlyBeforeTheFirstReport, replyVars,
            history
<1>0. stream \in Stream /\ stream.quiet \in 0..AgeCap /\ AgeCap \in Nat
  BY Bounds DEF TypeOK, Stream, Ages
<1>1. ASSUME UNCHANGED <<stream, lost, nvidiaErr, reply, pc>>
      PROVE  NothingVanishes'
  BY <1>1 DEF Stale
<1>2. CASE TimePasses
  <2>1. /\ UNCHANGED <<lost, nvidiaErr, reply, pc>>
        /\ stream'.ticked = stream.ticked /\ stream'.child = stream.child
        /\ stream'.err = stream.err /\ stream'.period = stream.period
    BY <1>0, <1>2 DEF TimePasses, Stream
  <2>2. stream'.quiet \in Nat /\ stream.quiet <= stream'.quiet
    BY <1>0, <1>2 DEF TimePasses, Stream, Older, OlderUpTo
  <2>3. Stale => Stale'
    <3> DEFINE limit == StaleFactor * stream.period
    <3>1. limit \in Nat
      BY <1>0, CapIsLarge DEF Stream
    <3>2. Stale <=> stream.err # "none" \/ stream.quiet > limit
      BY DEF Stale
    <3>3. Stale' <=> stream.err # "none" \/ stream'.quiet > limit
      BY <2>1 DEF Stale
    <3> HIDE DEF limit
    <3>4. QED
      BY <1>0, <2>2, <3>1, <3>2, <3>3
  <2>4. QED
    BY <2>1, <2>3
<1>3. CASE \/ \E s \in Slots : \/ WriteReport(s) \/ Exit(s) \/ Hang(s)
                                \/ CloseOutput(s) \/ Release(s)
           \/ HoldAside \/ ReleaseAside
  BY <1>1, <1>3 DEF WriteReport, Exit, Hang, CloseOutput, Release, ChangeState,
                    HoldAside, ReleaseAside
<1>4. CASE Consumer
  BY <1>4 DEF Consumer, SampleFails, SampleWithoutCard, SampleCard, BeginClose
<1>5. CASE ChooseSource
  BY <1>5 DEF ChooseSource
<1>6. CASE Start
  <2>1. ASSUME NEW s \in Slots, StartSucceeds(s) PROVE NothingVanishes'
    BY <2>1 DEF StartSucceeds
  <2>2. CASE StartFails
    BY <2>2 DEF StartFails, ageHistory
  <2>3. QED
    BY <1>6, <2>1, <2>2 DEF Start
<1>7. CASE Read
  BY <1>7 DEF Read, Drain, DrainTo, DrainFails, Reap
<1>8. CASE ServeTick
  BY <1>8 DEF ServeTick
<1>9. CASE NoTick
  BY <1>9 DEF NoTick, Stale
<1>10. CASE Wait
  <2>1. stream.child # NoChild
    BY <1>10 DEF Wait, OneChild, HasChild, HandlesChild
  <2>2. ~stream.ticked /\ stream.err = "none"
    BY <1>10 DEF Wait, Stale
  <2>3. QED
    BY <1>10, <2>1, <2>2 DEF Wait
<1>11. CASE GiveUp
  BY <1>11 DEF GiveUp
<1>12. ASSUME NEW from, NEW to, Kill(from, to),
              <<from, to>> \in {<<"stop", "wait">>, <<"close", "closing">>}
       PROVE  NothingVanishes'
  BY <1>12 DEF Kill
<1>13. CASE WaitChild
  BY <1>13 DEF WaitChild
<1>14. CASE OneShot
  BY <1>14 DEF OneShot, OneShotSucceeds, OneShotFails
<1>15. CASE Finish
  BY <1>15 DEF Finish
<1>16. CASE FinishClose
  BY <1>16 DEF FinishClose
<1>17. CASE UNCHANGED vars
  BY <1>1, <1>17 DEF vars
<1>18. QED
  BY <1>2, <1>3, <1>4, <1>5, <1>6, <1>7, <1>8, <1>9, <1>10, <1>11, <1>12,
     <1>13, <1>14, <1>15, <1>16, <1>17
     DEF Next, Environment, Running, Judge, Stop, Close, KillChild, KillAtClose

(* The parts together hold in every state.                                 *)
LEMMA Reports == Spec => []NothingVanishes
BY Children, InitNothingVanishes, NextNothingVanishes, PTL DEF Spec

(* A sample that lost its child reports exactly one issue for it: the      *)
(* failure of the child, or that of the one-shot run that replaced it      *)
(* (nvidiaRows).                                                           *)
THEOREM Loss == Spec => []LossIsReported
<1>1. NothingVanishes => LossIsReported
  BY DEF NothingVanishes, LossIsReported
<1>2. QED
  BY <1>1, Reports, PTL

(* A sample has neither rows nor an issue only while its child has not     *)
(* reported yet (nvidiaStream.rows, nvidiaRows).                           *)
THEOREM Silence == Spec => []SilenceIsOnlyBeforeTheFirstReport
<1>1. NothingVanishes => SilenceIsOnlyBeforeTheFirstReport
  BY DEF NothingVanishes
<1>2. QED
  BY <1>1, Reports, PTL
=============================================================================
