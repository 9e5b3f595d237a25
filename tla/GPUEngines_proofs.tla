-------------------------- MODULE GPUEngines_proofs --------------------------
(***************************************************************************)
(* The safety properties of GPUEngines for any set of cards, events and    *)
(* clients and any limits of the fdinfo walk.                              *)
(***************************************************************************)
EXTENDS GPUEngines, TLAPS

(* The types of s.engines, as a function of functions.                     *)
EnginesType ==
  /\ DOMAIN engines \subseteq Intel
  /\ \A g \in DOMAIN engines :
       /\ DOMAIN engines[g] \subseteq Events
       /\ \A e \in DOMAIN engines[g] : engines[g][e] \in EngineType

(* A turn keeps an engine well typed, and what Kernel counts is typed.     *)
LEMMA AfterType ==
  ASSUME NEW engine \in EngineType, NEW answer \in Answers(engine)
  PROVE  /\ After(engine, answer) \in EngineType
         /\ engine.counter => After(engine, answer).counter
BY GPUConstants DEF EngineType, Answers, After

LEMMA KernelType ==
  ASSUME NEW k \in [open: Nat, last: {None, "read", "failed"}],
         NEW engine \in EngineType, NEW answer \in Answers(engine)
  PROVE  Kernel(k, engine, answer) \in [open: Nat, last: {None, "read", "failed"}]
BY DEF Kernel

(* The engines that sampleGPU works on are typed.                          *)
LEMMA StateType ==
  ASSUME EnginesType, NEW g \in Cards, NEW discovered \in DiscoverBusyEvents
  PROVE  /\ DOMAIN StateOf(g, discovered) \subseteq Events
         /\ \A e \in DOMAIN StateOf(g, discovered) :
              StateOf(g, discovered)[e] \in EngineType
<1>1. CASE g \in DOMAIN engines
  BY <1>1 DEF StateOf, EnginesType
<1>2. CASE g \notin DOMAIN engines
  <2>1. Closed \in EngineType
    BY GPUConstants DEF Closed, EngineType
  <2> QED BY <1>2, <2>1 DEF StateOf, DiscoverBusyEvents
<1> QED BY <1>1, <1>2

(* What closing the engines of some GPUs leaves is typed.                  *)
LEMMA CloseType ==
  ASSUME TypeOK, NEW gone \in SUBSET DOMAIN engines, CloseEngines(gone),
         NoCounterLeaks
  PROVE  /\ EnginesType'
         /\ kernel' \in [Cards -> [Events -> [open: Nat, last: {None, "read", "failed"}]]]
<1>1. EnginesType'
  BY DEF EnginesType, TypeOK, CloseEngines
<1>2. ASSUME NEW g \in Cards, NEW e \in Events
      PROVE  kernel'[g][e] \in [open: Nat, last: {None, "read", "failed"}]
  <2>1. kernel[g][e] \in [open: Nat, last: {None, "read", "failed"}]
    BY <1>2 DEF TypeOK
  <2>2. CASE g \in gone /\ e \in DOMAIN engines[g] /\ engines[g][e].counter
    <3>1. kernel[g][e].open = 1
      BY <2>2 DEF NoCounterLeaks
    <3>2. kernel'[g][e] = [open |-> kernel[g][e].open - 1, last |-> None]
      BY <2>2 DEF CloseEngines
    <3> QED BY <3>1, <3>2
  <2>3. CASE ~(g \in gone /\ e \in DOMAIN engines[g] /\ engines[g][e].counter)
    <3>1. kernel'[g][e] = kernel[g][e]
      BY <2>3 DEF CloseEngines
    <3> QED BY <2>1, <3>1
  <2> QED BY <2>2, <2>3
<1> QED BY <1>1, <1>2 DEF CloseEngines

(* Every value an engine keeps was read from the descriptor it holds.      *)
ValueIsRead ==
  \A g \in DOMAIN engines : \A e \in DOMAIN engines[g] :
    engines[g][e].hasValue => engines[g][e].counter /\ kernel[g][e].last = "read"

(* Sample is through with the GPUs that are not in todo.                   *)
Sampled == pc # "pmu" => todo = {}

(* Between two samples there is no snapshot.                               *)
IdleIsEmpty == pc = "idle" => found = {} /\ mapped = {}

(* GapIsExplained, for the GPUs sampled so far.                            *)
Explained(g) ==
  \/ g \in issues \cup faults
  \/ /\ g \in mapped \cap DOMAIN engines /\ DOMAIN engines[g] # {}
     /\ \A e \in DOMAIN engines[g] : engines[g][e].hasValue

GapsExplained ==
  \A g \in (found \cap Intel) \ todo : usage[g] = None => Explained(g)

(* Where the walk stands for a card whose client goes unmeasured: either   *)
(* the last walk saw the client, or the pause is as old as the gap.        *)
BlindnessEnds ==
  \A g \in Cards :
    blind[g] > 0 =>
      /\ clients[g] # None
      /\ \/ fdHasPrev /\ fdPrev[g] = clients[g] /\ ~GivenUp /\ blind[g] <= RetryEvery
         \/ GivenUp /\ blind[g] <= fdIdle

IInv ==
  /\ TypeOK
  /\ NoCounterLeaks
  /\ ValueIsRead
  /\ Sampled /\ IdleIsEmpty
  /\ GapsExplained
  /\ BlindnessEnds

(* The choice Next makes for one GPU, in a form to reason from.            *)
Turn(g, discovered, answer) ==
  /\ answer \in [DOMAIN StateOf(g, discovered) -> Failures \cup {"odd", "good"}]
  /\ \A e \in DOMAIN answer : answer[e] \in Answers(StateOf(g, discovered)[e])
  /\ SampleGPU(g, discovered, answer)

---------------------------------------------------------------------------
(* One lemma per action.                                                   *)

LEMMA BeginKeeps ==
  ASSUME IInv, NEW cards \in SUBSET Cards, NEW measured \in SUBSET (cards \ Intel),
         NEW candidates \in DiscoverGPUPMUs, BeginSample(cards, measured, candidates)
  PROVE  IInv'
<1> USE GPUConstants DEF BeginSample
<1>1. mapped' \subseteq cards \cap Intel
  BY DEF MapGPUPMUs
<1>2. UNCHANGED <<engines, fdVars, clients, kernel, blind>>
  OBVIOUS
<1>3. TypeOK'
  BY <1>1, <1>2 DEF IInv, TypeOK, fdVars
<1>4. NoCounterLeaks' /\ ValueIsRead'
  BY <1>2 DEF IInv, NoCounterLeaks, ValueIsRead
<1>5. Sampled' /\ IdleIsEmpty'
  BY DEF Sampled, IdleIsEmpty
<1>6. GapsExplained'
  BY DEF GapsExplained, Explained
<1>7. BlindnessEnds'
  BY <1>2 DEF IInv, BlindnessEnds, GivenUp, fdVars
<1> QED BY <1>3, <1>4, <1>5, <1>6, <1>7 DEF IInv

LEMMA TurnKeeps ==
  ASSUME IInv, NEW g \in Cards, NEW discovered \in DiscoverBusyEvents,
         NEW answer, Turn(g, discovered, answer)
  PROVE  IInv'
<1> DEFINE state == StateOf(g, discovered)
<1>a. /\ pc = "pmu" /\ g \in todo /\ g \in Intel /\ g \in mapped /\ g \in found
      /\ todo' = todo \ {g}
      /\ UNCHANGED <<pc, found, mapped, fdVars, clients, blind>>
  BY DEF IInv, TypeOK, Turn, SampleGPU
<1>b. \A e \in DOMAIN state : answer[e] \in Answers(state[e])
  BY DEF Turn
<1>c. /\ DOMAIN engines' = DOMAIN engines \cup {g}
      /\ engines'[g] = [e \in DOMAIN state |-> After(state[e], answer[e])]
      /\ \A h \in DOMAIN engines : h # g => engines'[h] = engines[h]
  BY DEF Turn, SampleGPU
<1>d. /\ \A h \in Cards : h # g => kernel'[h] = kernel[h]
      /\ kernel'[g] = [e \in Events |-> IF e \in DOMAIN state
                         THEN Kernel(kernel[g][e], state[e], answer[e]) ELSE kernel[g][e]]
      /\ kernel' \in [Cards -> {kernel'[h] : h \in Cards}]
  BY DEF Turn, SampleGPU, IInv, TypeOK
<1>e. DOMAIN state \subseteq Events /\ \A e \in DOMAIN state : state[e] \in EngineType
  BY StateType DEF IInv, TypeOK, EnginesType
<1>f. /\ usage' = IF AllBusy(state, answer) THEN [usage EXCEPT ![g] = "pmu"] ELSE usage
      /\ issues \subseteq issues' /\ issues' \subseteq issues \cup {g}
      /\ faults \subseteq faults' /\ faults' \subseteq faults \cup {g}
      /\ (DOMAIN state = {} \/ \E e \in DOMAIN state : answer[e] \in Failures) =>
           g \in issues' \cup faults'
  BY DEF Turn, SampleGPU, Failures
<1> HIDE DEF state
<1>1. TypeOK'
  <2>1. pc' \in {"idle", "pmu", "fdinfo", "done"}
        /\ found' \subseteq Cards /\ mapped' \subseteq found' \cap Intel /\ todo' \subseteq mapped'
    BY <1>a DEF IInv, TypeOK
  <2>2. EnginesType'
    <3>1. \A e \in DOMAIN engines'[g] : engines'[g][e] \in EngineType
      BY <1>b, <1>c, <1>e, AfterType
    <3> QED BY <1>a, <1>c, <1>e, <3>1 DEF IInv, TypeOK, EnginesType
  <2>3. usage' \in [found' -> {None, "sysfs", "pmu", "fdinfo"}]
    BY <1>a, <1>f DEF IInv, TypeOK
  <2>4. issues' \subseteq Cards \cup {"walk"} /\ faults' \subseteq Cards
    BY <1>f DEF IInv, TypeOK
  <2>5. kernel' \in [Cards -> [Events -> [open: Nat, last: {None, "read", "failed"}]]]
    <3>1. \A e \in Events : kernel'[g][e] \in [open: Nat, last: {None, "read", "failed"}]
      BY <1>b, <1>d, <1>e, KernelType DEF IInv, TypeOK
    <3>2. kernel'[g] \in [Events -> [open: Nat, last: {None, "read", "failed"}]]
      BY <1>d, <3>1
    <3> QED BY <1>d, <3>2 DEF IInv, TypeOK
  <2> QED BY <1>a, <2>1, <2>2, <2>3, <2>4, <2>5 DEF IInv, TypeOK, EnginesType, fdVars
<1>2. NoCounterLeaks'
  <2> SUFFICES ASSUME NEW h \in Cards, NEW e \in Events
               PROVE  kernel'[h][e].open =
                        IF h \in DOMAIN engines' /\ e \in DOMAIN engines'[h]
                           /\ engines'[h][e].counter THEN 1 ELSE 0
    BY DEF NoCounterLeaks
  <2>0. kernel[h][e].open =
          IF h \in DOMAIN engines /\ e \in DOMAIN engines[h] /\ engines[h][e].counter
          THEN 1 ELSE 0
    BY DEF IInv, NoCounterLeaks
  <2>1. CASE h # g
    BY <2>0, <2>1, <1>c, <1>d
  <2>2. CASE h = g /\ e \notin DOMAIN state
    <3>1. g \in DOMAIN engines => state = engines[g]
      BY DEF state, StateOf
    <3> QED BY <2>0, <2>2, <3>1, <1>c, <1>d
  <2>3. CASE h = g /\ e \in DOMAIN state
    <3>1. g \in DOMAIN engines => state = engines[g]
      BY DEF state, StateOf
    <3>2. g \notin DOMAIN engines => ~state[e].counter
      BY <2>3 DEF state, StateOf, Closed
    <3>3. kernel[g][e].open = IF state[e].counter THEN 1 ELSE 0
      <4>1. CASE g \in DOMAIN engines
        BY <2>0, <2>3, <3>1, <4>1
      <4>2. CASE g \notin DOMAIN engines
        BY <2>0, <2>3, <3>2, <4>2
      <4> QED BY <4>1, <4>2
    <3>4. kernel'[g][e] = Kernel(kernel[g][e], state[e], answer[e])
      BY <2>3, <1>d
    <3>5. engines'[g][e] = After(state[e], answer[e]) /\ e \in DOMAIN engines'[g] /\ g \in DOMAIN engines'
      BY <2>3, <1>c
    <3>6. state[e].counter => After(state[e], answer[e]).counter
      BY <1>b, <1>e, <2>3, AfterType
    <3>7. kernel'[g][e].open = IF After(state[e], answer[e]).counter /\ ~state[e].counter
                               THEN kernel[g][e].open + 1 ELSE kernel[g][e].open
      BY <3>4 DEF Kernel
    <3> QED BY <2>3, <3>3, <3>5, <3>6, <3>7
  <2> QED BY <2>1, <2>2, <2>3
<1>3. ValueIsRead'
  <2> SUFFICES ASSUME NEW h \in DOMAIN engines', NEW e \in DOMAIN engines'[h],
                      engines'[h][e].hasValue
               PROVE  engines'[h][e].counter /\ kernel'[h][e].last = "read"
    BY DEF ValueIsRead
  <2>1. CASE h # g
    <3>1. h \in DOMAIN engines /\ h \in Cards
      BY <2>1, <1>c, GPUConstants DEF IInv, TypeOK
    <3> QED BY <2>1, <3>1, <1>c, <1>d DEF IInv, ValueIsRead
  <2>2. CASE h = g
    <3>1. e \in DOMAIN state /\ e \in Events
      BY <2>2, <1>c, <1>e
    <3>2. engines'[g][e] = After(state[e], answer[e])
      BY <2>2, <3>1, <1>c
    <3>3. kernel'[g][e] = Kernel(kernel[g][e], state[e], answer[e])
      BY <3>1, <1>d
    <3>4. state[e].hasValue => state[e].counter /\ kernel[g][e].last = "read"
      <4>1. g \in DOMAIN engines => state = engines[g]
        BY DEF state, StateOf
      <4>2. g \notin DOMAIN engines => ~state[e].hasValue
        BY <3>1 DEF state, StateOf, Closed
      <4> QED BY <3>1, <4>1, <4>2 DEF IInv, ValueIsRead
    <3>5. After(state[e], answer[e]).hasValue
      BY <2>2, <3>2
    <3>6. answer[e] \in Answers(state[e]) /\ state[e] \in EngineType
      BY <1>b, <1>e, <3>1
    <3>7. CASE answer[e] \in {"odd", "good"}
      BY <2>2, <3>2, <3>3, <3>7 DEF After, Kernel
    <3>8. CASE answer[e] \notin {"odd", "good"}
      <4>1. ~state[e].counter
        BY <3>5, <3>6, <3>8 DEF After, Answers, EngineType
      <4>2. ~After(state[e], answer[e]).hasValue
        BY <3>4, <3>6, <3>8, <4>1 DEF After, Answers, EngineType
      <4> QED BY <3>5, <4>2
    <3> QED BY <3>7, <3>8
  <2> QED BY <2>1, <2>2
<1>4. Sampled' /\ IdleIsEmpty'
  BY <1>a DEF Sampled, IdleIsEmpty
<1>5. GapsExplained'
  <2> SUFFICES ASSUME NEW h \in (found' \cap Intel) \ todo', usage'[h] = None
               PROVE  Explained(h)'
    BY DEF GapsExplained
  <2>1. CASE h # g
    <3>1. h \in (found \cap Intel) \ todo /\ usage[h] = None
      BY <2>1, <1>a, <1>f DEF IInv, TypeOK
    <3>2. Explained(h)
      BY <3>1 DEF IInv, GapsExplained
    <3> QED BY <2>1, <3>2, <1>a, <1>c, <1>f DEF Explained
  <2>2. CASE h = g
    <3>1. CASE DOMAIN state = {} \/ \E e \in DOMAIN state : answer[e] \in Failures
      BY <2>2, <3>1, <1>f DEF Explained
    <3>2. CASE DOMAIN state # {} /\ \A e \in DOMAIN state : answer[e] \notin Failures
      <4>1. \A e \in DOMAIN state : After(state[e], answer[e]).hasValue
        BY <3>2, <1>b DEF After, Answers, Failures, OpenFailures
      <4>2. /\ DOMAIN engines'[g] # {} /\ g \in DOMAIN engines'
            /\ \A e \in DOMAIN engines'[g] : engines'[g][e].hasValue
        BY <3>2, <4>1, <1>c
      <4> QED BY <2>2, <4>2, <1>a DEF Explained
    <3> QED BY <3>1, <3>2
  <2> QED BY <2>1, <2>2
<1>6. BlindnessEnds'
  BY <1>a DEF IInv, BlindnessEnds, GivenUp, fdVars
<1> QED BY <1>1, <1>2, <1>3, <1>4, <1>5, <1>6 DEF IInv

(* Closing some GPUs' engines keeps what concerns the counters.            *)
LEMMA CloseKeeps ==
  ASSUME IInv, NEW gone \in SUBSET DOMAIN engines, CloseEngines(gone)
  PROVE  NoCounterLeaks' /\ ValueIsRead'
<1>1. NoCounterLeaks'
  <2> SUFFICES ASSUME NEW g \in Cards, NEW e \in Events
               PROVE  kernel'[g][e].open =
                        IF g \in DOMAIN engines' /\ e \in DOMAIN engines'[g]
                           /\ engines'[g][e].counter THEN 1 ELSE 0
    BY DEF NoCounterLeaks
  <2>0. kernel[g][e].open =
          IF g \in DOMAIN engines /\ e \in DOMAIN engines[g] /\ engines[g][e].counter
          THEN 1 ELSE 0
    BY DEF IInv, NoCounterLeaks
  <2>1. CASE g \in gone /\ e \in DOMAIN engines[g] /\ engines[g][e].counter
    <3>1. kernel'[g][e] = [open |-> kernel[g][e].open - 1, last |-> None]
      BY <2>1 DEF CloseEngines
    <3> QED BY <2>0, <2>1, <3>1 DEF CloseEngines
  <2>2. CASE ~(g \in gone /\ e \in DOMAIN engines[g] /\ engines[g][e].counter)
    <3>1. kernel'[g][e] = kernel[g][e]
      BY <2>2 DEF CloseEngines
    <3> QED BY <2>0, <2>2, <3>1 DEF CloseEngines
  <2> QED BY <2>1, <2>2
<1>2. ValueIsRead'
  <2> SUFFICES ASSUME NEW g \in DOMAIN engines', NEW e \in DOMAIN engines'[g],
                      engines'[g][e].hasValue
               PROVE  engines'[g][e].counter /\ kernel'[g][e].last = "read"
    BY DEF ValueIsRead
  <2>1. g \notin gone /\ g \in DOMAIN engines /\ engines'[g] = engines[g]
    BY DEF CloseEngines
  <2>2. g \in Cards /\ e \in Events
    BY <2>1, GPUConstants DEF IInv, TypeOK
  <2>3. kernel'[g][e] = kernel[g][e]
    BY <2>1, <2>2 DEF CloseEngines
  <2> QED BY <2>1, <2>3 DEF IInv, ValueIsRead
<1> QED BY <1>1, <1>2

LEMMA CloseGoneKeeps ==
  ASSUME IInv, CloseGone
  PROVE  IInv'
<1> DEFINE gone == DOMAIN engines \ mapped
<1>0. /\ CloseEngines(gone) /\ pc' = "fdinfo" /\ todo = {}
      /\ UNCHANGED <<found, mapped, todo, usage, issues, faults, fdVars, clients, blind>>
  BY DEF CloseGone
<1>1. TypeOK'
  BY <1>0, CloseType DEF IInv, TypeOK, EnginesType, fdVars
<1>2. NoCounterLeaks' /\ ValueIsRead'
  BY <1>0, CloseKeeps
<1>3. Sampled' /\ IdleIsEmpty'
  BY <1>0 DEF Sampled, IdleIsEmpty
<1>4. GapsExplained'
  <2> SUFFICES ASSUME NEW g \in found \cap Intel, usage[g] = None
               PROVE  Explained(g)'
    BY <1>0 DEF GapsExplained
  <2>1. Explained(g)
    BY <1>0 DEF IInv, GapsExplained
  <2>2. g \in mapped \cap DOMAIN engines => g \in DOMAIN engines' /\ engines'[g] = engines[g]
    BY <1>0 DEF CloseEngines
  <2> QED BY <1>0, <2>1, <2>2 DEF Explained
<1>5. BlindnessEnds'
  BY <1>0 DEF IInv, BlindnessEnds, GivenUp, fdVars
<1> QED BY <1>1, <1>2, <1>3, <1>4, <1>5 DEF IInv

LEMMA ForgetType ==
  ASSUME Forget
  PROVE  /\ fdPrev' \in [Cards -> Clients \cup {None}] /\ fdHasPrev' \in BOOLEAN
         /\ fdEmpty' \in 0..MaxEmptyWalks + 1 /\ fdIdle' \in 0..RetryEvery - 1
<1>1. fdPrev' \in [Cards -> Clients \cup {None}]
  BY DEF Forget, NoClients
<1>2. fdHasPrev' \in BOOLEAN /\ fdEmpty' = 0 /\ fdIdle' = 0
  BY DEF Forget
<1> QED BY <1>1, <1>2, GPUConstants

(* The history after applyFDInfo.                                          *)
LEMMA BlindStep ==
  ASSUME IInv, NEW silent, blind' = Blind(silent), NEW g \in Cards
  PROVE  /\ blind \in [Cards -> 0..RetryEvery + 1]
         /\ blind' \in [Cards -> 0..RetryEvery + 1]
         /\ blind'[g] > 0 => /\ g \in Missing \ silent /\ usage'[g] = None
                             /\ clients[g] # None /\ blind'[g] <= blind[g] + 1
BY GPUConstants DEF IInv, TypeOK, Blind

LEMMA ApplyFDInfoKeeps ==
  ASSUME IInv, ApplyFDInfo
  PROVE  IInv'
<1> USE GPUConstants
<1>0. /\ \E silent : blind' = Blind(silent)
      /\ pc' = "done" /\ UNCHANGED <<found, mapped, todo, engines, clients, kernel>>
  BY DEF ApplyFDInfo
<1>1. pc = "fdinfo" /\ todo = {}
  BY DEF IInv, Sampled, ApplyFDInfo, NothingMissing, Pause, Walk
<1>2. \A g \in Cards : /\ blind' \in [Cards -> 0..RetryEvery + 1]
                       /\ blind \in [Cards -> 0..RetryEvery + 1]
                       /\ blind'[g] > 0 => /\ g \in Missing /\ usage'[g] = None
                                           /\ clients[g] # None /\ blind'[g] <= blind[g] + 1
  BY <1>0, BlindStep
<1>b. blind' \in [Cards -> 0..RetryEvery + 1]
  BY <1>0 DEF Blind, IInv, TypeOK
<1>3. NoCounterLeaks' /\ ValueIsRead' /\ Sampled' /\ IdleIsEmpty'
  BY <1>0, <1>1 DEF IInv, NoCounterLeaks, ValueIsRead, Sampled, IdleIsEmpty
<1>4. CASE NothingMissing
  <2>1. TypeOK'
    <3>1. fdPrev' \in [Cards -> Clients \cup {None}] /\ fdHasPrev' \in BOOLEAN
          /\ fdEmpty' \in 0..MaxEmptyWalks + 1 /\ fdIdle' \in 0..RetryEvery - 1
      BY <1>4, ForgetType DEF NothingMissing
    <3> QED BY <1>0, <1>b, <1>4, <3>1 DEF IInv, TypeOK, NothingMissing
  <2>2. GapsExplained'
    BY <1>0, <1>4 DEF IInv, GapsExplained, Explained, NothingMissing
  <2>3. BlindnessEnds'
    BY <1>2, <1>4 DEF BlindnessEnds, NothingMissing
  <2> QED BY <1>3, <2>1, <2>2, <2>3 DEF IInv
<1>5. CASE Pause
  <2>1. TypeOK'
    BY <1>0, <1>b, <1>5 DEF IInv, TypeOK, Pause
  <2>2. GapsExplained'
    BY <1>0, <1>5 DEF IInv, GapsExplained, Explained, Pause
  <2>3. BlindnessEnds'
    <3> SUFFICES ASSUME NEW g \in Cards, blind'[g] > 0
                 PROVE  clients'[g] # None /\ GivenUp' /\ blind'[g] <= fdIdle'
      BY DEF BlindnessEnds
    <3>1. GivenUp /\ GivenUp' /\ fdIdle' = fdIdle + 1
      BY <1>5 DEF Pause, GivenUp
    <3>2. blind[g] <= fdIdle
      <4>1. blind[g] = 0 \/ blind[g] > 0
        BY <1>2
      <4> QED BY <3>1, <4>1 DEF IInv, BlindnessEnds, TypeOK
    <3> QED BY <1>0, <1>2, <3>1, <3>2 DEF IInv, TypeOK
  <2> QED BY <1>3, <2>1, <2>2, <2>3 DEF IInv
<1>6. ASSUME NEW filled \in SUBSET SeenTwice, Walk(filled),
             blind' = Blind(SeenTwice \ filled)
      PROVE  IInv'
  <2>1. /\ usage' = [g \in found |-> IF g \in filled THEN "fdinfo" ELSE usage[g]]
        /\ fdEmpty' = (IF AnyData THEN 0 ELSE OneMore(fdEmpty))
        /\ fdIdle' = (IF GivenUp THEN 0 ELSE fdIdle)
        /\ fdPrev' = clients /\ fdHasPrev' = TRUE
        /\ ~GivenUp \/ fdIdle + 1 >= RetryEvery
    BY <1>6 DEF Walk, ReadDRMClients, EmptyWalks
  <2>i. issues' \subseteq issues \cup {"walk"} /\ faults' \subseteq faults
    BY <1>6 DEF Walk, KeptAfter
  <2>2. TypeOK'
    <3>1. fdEmpty' \in 0..MaxEmptyWalks + 1
      BY <2>1 DEF IInv, TypeOK, OneMore
    <3>2. fdIdle' \in 0..RetryEvery - 1
      BY <2>1 DEF IInv, TypeOK
    <3>3. usage' \in [found' -> {None, "sysfs", "pmu", "fdinfo"}]
      BY <1>0, <2>1 DEF IInv, TypeOK
    <3>4. issues' \subseteq Cards \cup {"walk"} /\ faults' \subseteq Cards
      BY <2>i DEF IInv, TypeOK
    <3> QED BY <1>0, <1>b, <2>1, <3>1, <3>2, <3>3, <3>4 DEF IInv, TypeOK
  <2>3. GapsExplained'
    <3> SUFFICES ASSUME NEW g \in found \cap Intel, usage'[g] = None
                 PROVE  Explained(g)'
      BY <1>0 DEF GapsExplained
    <3>1. usage[g] = None
      BY <2>1 DEF None
    <3>2. Explained(g)
      BY <1>1, <3>1 DEF IInv, GapsExplained
    <3>3. issues \subseteq issues' /\ faults \subseteq faults'
      BY <1>6 DEF Walk, KeptAfter
    <3> QED BY <1>0, <3>2, <3>3 DEF Explained
  <2>4. BlindnessEnds'
    <3> SUFFICES ASSUME NEW g \in Cards, blind'[g] > 0
                 PROVE  /\ clients'[g] # None /\ fdHasPrev' /\ fdPrev'[g] = clients'[g]
                        /\ ~GivenUp' /\ blind'[g] <= RetryEvery
      BY DEF BlindnessEnds
    <3>1. /\ g \in Missing \ (SeenTwice \ filled) /\ usage'[g] = None /\ clients[g] # None
          /\ blind'[g] <= blind[g] + 1
      BY <1>6, BlindStep
    <3>2. AnyData
      BY <3>1 DEF AnyData, ReadDRMClients
    <3>3. ~GivenUp'
      BY <2>1, <3>2 DEF GivenUp
    <3>4. blind[g] + 1 <= RetryEvery
      <4>0. blind[g] \in Nat /\ fdIdle \in 0..RetryEvery - 1 /\ RetryEvery \in Nat \ {0}
        BY <1>2 DEF IInv, TypeOK
      <4>1. CASE blind[g] = 0
        BY <4>0, <4>1
      <4>2. CASE blind[g] > 0 /\ GivenUp
        <5>1. blind[g] <= fdIdle
          BY <4>2 DEF IInv, BlindnessEnds
        <5> QED BY <4>0, <5>1
      <4>3. CASE blind[g] > 0 /\ ~GivenUp
        <5>1. fdHasPrev /\ fdPrev[g] = clients[g]
          BY <4>3 DEF IInv, BlindnessEnds
        <5>2. g \in filled
          BY <3>1, <5>1 DEF SeenTwice, ReadDRMClients
        <5>3. g \in found
          BY <3>1 DEF Missing
        <5> QED BY <2>1, <3>1, <5>2, <5>3 DEF None
      <4> QED BY <4>0, <4>1, <4>2, <4>3
    <3> QED BY <1>0, <1>2, <2>1, <3>1, <3>3, <3>4
  <2> QED BY <1>3, <2>2, <2>3, <2>4 DEF IInv
<1> QED BY <1>4, <1>5, <1>6 DEF ApplyFDInfo

LEMMA BetweenSamplesKeeps ==
  ASSUME IInv, Return \/ Close \/ Tick
               \/ \E g \in Cards, c \in Clients \cup {None} : ClientChanges(g, c)
  PROVE  IInv'
<1> USE GPUConstants
<1>1. CASE Return
  <2>1. TypeOK'
    BY <1>1 DEF Return, IInv, TypeOK, Sampled, Empty, fdVars
  <2> QED BY <1>1, <2>1 DEF Return, IInv, NoCounterLeaks, ValueIsRead, Sampled, IdleIsEmpty,
                            GapsExplained, BlindnessEnds, GivenUp, fdVars
<1>2. CASE Close
  <2>0. pc = "idle" /\ pc' = "idle" /\ CloseEngines(DOMAIN engines) /\ Forget
        /\ blind' = [g \in Cards |-> 0] /\ UNCHANGED <<sampleVars, clients>>
    BY <1>2 DEF Close, sampleVars
  <2>1. TypeOK'
    <3>1. fdPrev' \in [Cards -> Clients \cup {None}] /\ fdHasPrev' \in BOOLEAN
          /\ fdEmpty' \in 0..MaxEmptyWalks + 1 /\ fdIdle' \in 0..RetryEvery - 1
      BY <2>0, ForgetType
    <3>2. blind' \in [Cards -> 0..RetryEvery + 1]
      BY <2>0
    <3> QED BY <2>0, <3>1, <3>2, CloseType DEF IInv, TypeOK, EnginesType, sampleVars
  <2>2. NoCounterLeaks' /\ ValueIsRead'
    BY <2>0, CloseKeeps
  <2>3. Sampled' /\ IdleIsEmpty' /\ BlindnessEnds'
    BY <2>0 DEF IInv, Sampled, IdleIsEmpty, BlindnessEnds, sampleVars
  <2>4. GapsExplained'
    BY <2>0 DEF IInv, IdleIsEmpty, GapsExplained, sampleVars
  <2> QED BY <2>1, <2>2, <2>3, <2>4 DEF IInv
<1>3. CASE Tick
  <2>0. /\ pc = "idle" /\ UNCHANGED <<sampleVars, fdVars, clients, kernel, blind>>
        /\ engines' = [g \in DOMAIN engines |-> [e \in DOMAIN engines[g] |->
             IF engines[g][e].wait > 0 THEN [engines[g][e] EXCEPT !.wait = @ - 1]
             ELSE engines[g][e]]]
    BY <1>3 DEF Tick
  <2>1. \A g \in DOMAIN engines : \A e \in DOMAIN engines[g] :
          /\ engines'[g][e] \in EngineType
          /\ engines'[g][e].counter = engines[g][e].counter
          /\ engines'[g][e].hasValue = engines[g][e].hasValue
    <3> SUFFICES ASSUME NEW g \in DOMAIN engines, NEW e \in DOMAIN engines[g]
                 PROVE  /\ engines'[g][e] \in EngineType
                        /\ engines'[g][e].counter = engines[g][e].counter
                        /\ engines'[g][e].hasValue = engines[g][e].hasValue
      OBVIOUS
    <3>1. engines[g][e] \in EngineType
      BY DEF IInv, TypeOK
    <3>2. engines'[g][e] = IF engines[g][e].wait > 0
                           THEN [engines[g][e] EXCEPT !.wait = @ - 1] ELSE engines[g][e]
      BY <2>0
    <3> QED BY <3>1, <3>2 DEF EngineType
  <2>2. DOMAIN engines' = DOMAIN engines
        /\ \A g \in DOMAIN engines : DOMAIN engines'[g] = DOMAIN engines[g]
    BY <2>0
  <2>3. TypeOK'
    BY <2>0, <2>1, <2>2 DEF IInv, TypeOK, sampleVars, fdVars
  <2>4. NoCounterLeaks' /\ ValueIsRead'
    BY <2>0, <2>1, <2>2 DEF IInv, NoCounterLeaks, ValueIsRead
  <2>5. Sampled' /\ IdleIsEmpty' /\ BlindnessEnds'
    BY <2>0 DEF IInv, Sampled, IdleIsEmpty, BlindnessEnds, GivenUp, sampleVars, fdVars
  <2>6. GapsExplained'
    BY <2>0 DEF IInv, IdleIsEmpty, GapsExplained, sampleVars
  <2> QED BY <2>3, <2>4, <2>5, <2>6 DEF IInv
<1>4. ASSUME NEW g \in Cards, NEW c \in Clients \cup {None}, ClientChanges(g, c)
      PROVE  IInv'
  <2>1. TypeOK'
    BY <1>4 DEF ClientChanges, IInv, TypeOK, sampleVars, fdVars
  <2>2. NoCounterLeaks' /\ ValueIsRead' /\ Sampled' /\ IdleIsEmpty' /\ GapsExplained'
    BY <1>4 DEF ClientChanges, IInv, NoCounterLeaks, ValueIsRead, Sampled, IdleIsEmpty, GapsExplained,
                Explained, sampleVars
  <2>3. BlindnessEnds'
    BY <1>4 DEF ClientChanges, IInv, TypeOK, BlindnessEnds, GivenUp, fdVars
  <2> QED BY <2>1, <2>2, <2>3 DEF IInv
<1> QED BY <1>1, <1>2, <1>3, <1>4

---------------------------------------------------------------------------
LEMMA InitHolds == Init => IInv
<1> SUFFICES ASSUME Init PROVE IInv
  OBVIOUS
<1> USE GPUConstants
<1>1. fdPrev \in [Cards -> Clients \cup {None}] /\ clients \in [Cards -> Clients \cup {None}]
      /\ blind \in [Cards -> 0..RetryEvery + 1]
  BY DEF Init, NoClients
<1>2. kernel \in [Cards -> [Events -> [open: Nat, last: {None, "read", "failed"}]]]
  BY DEF Init
<1>3. DOMAIN engines = {} /\ usage \in [found -> {None, "sysfs", "pmu", "fdinfo"}]
  BY DEF Init, Empty
<1>4. pc = "idle" /\ found = {} /\ mapped = {} /\ todo = {} /\ issues = {} /\ faults = {}
      /\ fdHasPrev = FALSE /\ fdEmpty = 0 /\ fdIdle = 0
  BY DEF Init
<1>7. TypeOK
  <2>0. 0 \in 0..MaxEmptyWalks + 1 /\ 0 \in 0..RetryEvery - 1
    OBVIOUS
  <2>1. fdEmpty \in 0..MaxEmptyWalks + 1 /\ fdIdle \in 0..RetryEvery - 1
        /\ fdHasPrev \in BOOLEAN
    BY <1>4, <2>0, Zenon
  <2>2. \A g \in DOMAIN engines :
          /\ DOMAIN engines[g] \subseteq Events
          /\ \A e \in DOMAIN engines[g] : engines[g][e] \in EngineType
    BY <1>3
  <2>3. mapped \subseteq found \cap Intel /\ DOMAIN engines \subseteq Intel
    BY <1>3, <1>4
  <2> HIDE GPUConstants
  <2> QED BY <1>1, <1>2, <1>3, <1>4, <2>1, <2>2, <2>3, Zenon DEF TypeOK
<1>5. NoCounterLeaks
  BY <1>3 DEF Init, NoCounterLeaks
<1>6. ValueIsRead /\ Sampled /\ IdleIsEmpty /\ GapsExplained /\ BlindnessEnds
  BY <1>3 DEF Init, ValueIsRead, Sampled, IdleIsEmpty, GapsExplained, BlindnessEnds
<1> QED BY <1>7, <1>5, <1>6 DEF IInv

LEMMA Induction == IInv /\ [Next]_vars => IInv'
<1>1. ASSUME IInv, Next PROVE IInv'
  <2>1. ASSUME NEW cards \in SUBSET Cards, NEW candidates \in DiscoverGPUPMUs,
               NEW measured \in SUBSET (cards \ Intel),
               BeginSample(cards, measured, candidates)
        PROVE  IInv'
    BY <1>1, <2>1, BeginKeeps
  <2>2. ASSUME NEW g \in Cards, NEW discovered \in DiscoverBusyEvents, NEW answer,
               Turn(g, discovered, answer)
        PROVE  IInv'
    BY <1>1, <2>2, TurnKeeps
  <2>3. CASE CloseGone
    BY <1>1, <2>3, CloseGoneKeeps
  <2>4. CASE ApplyFDInfo
    BY <1>1, <2>4, ApplyFDInfoKeeps
  <2>5. CASE Return \/ Close \/ Tick
             \/ \E g \in Cards, c \in Clients \cup {None} : ClientChanges(g, c)
    BY <1>1, <2>5, BetweenSamplesKeeps
  <2> QED BY <1>1, <2>1, <2>2, <2>3, <2>4, <2>5 DEF Next, Turn
<1>2. ASSUME IInv, UNCHANGED vars PROVE IInv'
  BY <1>2 DEF vars, sampleVars, fdVars, IInv, TypeOK, NoCounterLeaks, ValueIsRead, Sampled,
              IdleIsEmpty, GapsExplained, Explained, BlindnessEnds, GivenUp
<1> QED BY <1>1, <1>2

THEOREM Invariant == Spec => []IInv
BY InitHolds, Induction, PTL DEF Spec

(* The sampler's state, the kernel's count of descriptors and the history  *)
(* are well typed.                                                         *)
THEOREM Typed == Spec => []TypeOK
BY Invariant, PTL DEF IInv

(* No descriptor is open that s.engines does not hold.                     *)
THEOREM NoLeaks == Spec => []NoCounterLeaks
BY Invariant, PTL DEF IInv

(* An i915 GPU without usage has an issue or a fresh baseline.             *)
THEOREM Explanation == Spec => []GapIsExplained
<1>1. IInv => GapIsExplained
  BY DEF IInv, Sampled, GapsExplained, Explained, GapIsExplained
<1> QED BY <1>1, Invariant, PTL

(* A client that stays is found within RetryEvery samples.                 *)
THEOREM LateClient == Spec => []LateClientIsFound
<1>1. IInv => LateClientIsFound
  BY GPUConstants DEF IInv, TypeOK, BlindnessEnds, LateClientIsFound
<1> QED BY <1>1, Invariant, PTL

(* Usage from the PMU needs two readings in a row of every engine.         *)
THEOREM EveryEngine == Spec => UsageNeedsEveryEngine
<1> DEFINE A == \A g \in DOMAIN usage \cap DOMAIN usage' :
       usage'[g] = "pmu" /\ usage[g] # "pmu" =>
         /\ DOMAIN engines'[g] # {}
         /\ \A e \in DOMAIN engines'[g] :
              /\ kernel[g][e] = [open |-> 1, last |-> "read"]
              /\ kernel'[g][e] = [open |-> 1, last |-> "read"]
<1>1. ASSUME IInv, IInv', Next PROVE A
  <2>1. ASSUME NEW g \in Cards, NEW discovered \in DiscoverBusyEvents, NEW answer,
               Turn(g, discovered, answer)
        PROVE  A
    <3> SUFFICES ASSUME NEW h \in DOMAIN usage \cap DOMAIN usage',
                        usage'[h] = "pmu", usage[h] # "pmu"
                 PROVE  /\ DOMAIN engines'[h] # {}
                        /\ \A e \in DOMAIN engines'[h] :
                             /\ kernel[h][e] = [open |-> 1, last |-> "read"]
                             /\ kernel'[h][e] = [open |-> 1, last |-> "read"]
      OBVIOUS
    <3> DEFINE state == StateOf(g, discovered)
    <3>1. h = g /\ AllBusy(state, answer)
      BY <1>1, <2>1 DEF Turn, SampleGPU, IInv, TypeOK
    <3>2. engines'[g] = [e \in DOMAIN state |-> After(state[e], answer[e])]
      BY <2>1 DEF Turn, SampleGPU
    <3>3. g \in DOMAIN engines /\ state = engines[g]
      BY <3>1 DEF AllBusy, EngineBusy, StateOf, Closed
    <3>4. DOMAIN state \subseteq Events /\ g \in Cards /\ g \in DOMAIN engines'
      BY <1>1, <2>1, <3>3 DEF IInv, TypeOK, Turn, SampleGPU
    <3> HIDE DEF state
    <3>5. ASSUME NEW e \in DOMAIN state
          PROVE  /\ kernel[g][e] = [open |-> 1, last |-> "read"]
                 /\ kernel'[g][e] = [open |-> 1, last |-> "read"]
      <4>1. state[e].hasValue /\ answer[e] = "good" /\ e \in Events
        BY <3>1, <3>4, <3>5 DEF AllBusy, EngineBusy
      <4>2. state[e].counter /\ kernel[g][e].last = "read"
        BY <1>1, <3>3, <3>5, <4>1 DEF IInv, ValueIsRead
      <4>3. kernel[g][e].open = 1
        BY <1>1, <3>3, <3>4, <3>5, <4>1, <4>2 DEF IInv, NoCounterLeaks
      <4>4. engines'[g][e].hasValue /\ engines'[g][e].counter /\ e \in DOMAIN engines'[g]
        <5>1. After(state[e], answer[e]) = [counter |-> TRUE, hasValue |-> TRUE, wait |-> 0]
          BY <4>1 DEF After
        <5> QED BY <3>2, <3>5, <5>1
      <4>5. kernel'[g][e].last = "read"
        BY <1>1, <3>4, <4>4 DEF IInv, ValueIsRead
      <4>6. kernel'[g][e].open = 1
        BY <1>1, <3>4, <4>1, <4>4 DEF IInv, NoCounterLeaks
      <4>7. /\ kernel[g][e] \in [open: Nat, last: {None, "read", "failed"}]
            /\ kernel'[g][e] \in [open: Nat, last: {None, "read", "failed"}]
        BY <1>1, <3>4, <4>1 DEF IInv, TypeOK
      <4> QED BY <4>2, <4>3, <4>5, <4>6, <4>7
    <3> QED BY <3>1, <3>2, <3>5 DEF AllBusy
  <2>2. ASSUME NEW cards \in SUBSET Cards, NEW candidates \in DiscoverGPUPMUs,
               NEW measured \in SUBSET (cards \ Intel),
               BeginSample(cards, measured, candidates)
        PROVE  A
    BY <2>2 DEF BeginSample, None
  <2>3. CASE ApplyFDInfo
    BY <2>3 DEF ApplyFDInfo, NothingMissing, Pause, Walk
  <2>4. CASE CloseGone \/ Return \/ Close \/ Tick
             \/ \E g \in Cards, c \in Clients \cup {None} : ClientChanges(g, c)
    BY <2>4 DEF CloseGone, Return, Close, Tick, ClientChanges, Empty, sampleVars
  <2> QED BY <1>1, <2>1, <2>2, <2>3, <2>4 DEF Next, Turn
<1>2. ASSUME UNCHANGED vars PROVE A
  BY <1>2 DEF vars, sampleVars
<1> HIDE DEF A
<1>3. IInv /\ IInv' /\ [Next]_vars => A
  BY <1>1, <1>2
<1>4. Spec => [][A]_vars
  BY <1>3, Invariant, PTL DEF Spec
<1> QED BY <1>4 DEF UsageNeedsEveryEngine, A
=============================================================================
