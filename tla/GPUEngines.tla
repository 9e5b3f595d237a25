----------------------------- MODULE GPUEngines -----------------------------
(***************************************************************************)
(* The two ways GPUSampler measures an i915 GPU: the engine counters of    *)
(* its PMU (applyIntelPMU, gpu_linux.go) and, for what they leave without  *)
(* usage, the DRM clients in /proc (applyFDInfo, gpu_fdinfo_linux.go).     *)
(* One module, because the second decides what becomes of the issues of    *)
(* the first.                                                              *)
(*                                                                         *)
(* Sample asks sysfs, the kernel and /proc afresh each time, so hotplug,   *)
(* revoked permissions and failing reads are what it is answered.  Values  *)
(* of counters are abstracted: a reading is comparable with the last one,  *)
(* or odd (it went back, or grew by more than the time that passed).  Of   *)
(* the DRM clients of a card one stands for all; a client id that is used  *)
(* again is a new client (countersRegressed).                              *)
(***************************************************************************)
EXTENDS Naturals, FiniteSets

CONSTANTS
  Cards,          \* PCI addresses, which also name the PMUs linked to them
  Intel,          \* the cards driven by i915
  Unlinked,       \* the PMU named after the driver, without a device link
  Events,         \* the *-busy events of a PMU
  Clients,        \* DRM clients that publish engine time or cycles
  MaxEmptyWalks,  \* fdinfoMaxEmptyWalks
  RetryEvery,     \* fdinfoRetryEvery
  OpenRetry       \* pmuOpenRetry, in units of Tick

None == "none"

ASSUME GPUConstants ==
  /\ Intel \subseteq Cards
  /\ Unlinked \notin Cards /\ "walk" \notin Cards /\ None \notin Clients
  /\ MaxEmptyWalks \in Nat \ {0} /\ RetryEvery \in Nat \ {0} /\ OpenRetry \in Nat

VARIABLES
  pc,          \* where Sample is
  found,       \* the cards of this sample
  mapped,      \* those of them that have a PMU
  todo,        \* those still to be sampled
  engines,     \* s.engines: the engines of the GPUs that have state
  usage,       \* by which path a card of this sample got its usage
  issues,      \* the cards with an open failure among the issues, and "walk"
  faults,      \* those with another issue below the PMU root
  fdPrev,      \* s.fdPrev: the client of each card at the last walk
  fdHasPrev, fdEmpty, fdIdle,   \* the fields of the same names
  clients,     \* the client of each card in /proc now
  (* History: the kernel's own count of the descriptors opened for an      *)
  (* engine with the outcome of the last read, and for how many samples a  *)
  (* card has been without usage although its client was there.            *)
  kernel, blind

sampleVars == <<pc, found, mapped, todo, usage, issues, faults>>
fdVars == <<fdPrev, fdHasPrev, fdEmpty, fdIdle>>
vars == <<sampleVars, engines, fdVars, clients, kernel, blind>>

Empty == [g \in {} |-> None]
NoClients == [g \in Cards |-> None]

---------------------------------------------------------------------------
(* Discovery and mapping.                                                  *)

(* Slip: every linked PMU is taken, that of a card sysfs did not list too. *)
MapCandidates(refs, candidates) ==
  (candidates \cap Intel) \cup
  IF Cardinality(refs \ candidates) = 1 /\ Unlinked \in candidates THEN refs ELSE {}

(* mapGPUPMUs: a linked PMU serves its own card.  The unlinked one serves  *)
(* the only card no link claimed, and nobody when there are several.       *)
MapGPUPMUs(refs, candidates) ==
  LET linked == refs \cap candidates
      rest   == refs \ linked
  IN linked \cup IF Cardinality(rest) = 1 /\ Unlinked \in candidates THEN rest ELSE {}

(* discoverGPUPMUs: PMUs come and go with their drivers, and one whose     *)
(* type cannot be read is not a candidate.                                 *)
DiscoverGPUPMUs == SUBSET (Cards \cup {Unlinked})

(* Sample up to the loop of applyIntelPMU: sysfs lists some cards, the     *)
(* other drivers' usage is there or not, some PMUs are discovered.  When   *)
(* sysfs cannot be read, Sample returns and all of this stays as it is.    *)
BeginSample(cards, measured, candidates) ==
  /\ pc = "idle"
  /\ found' = cards
  /\ usage' = [g \in cards |-> IF g \in measured THEN "sysfs" ELSE None]
  /\ mapped' = MapGPUPMUs(cards \cap Intel, candidates)
  /\ todo' = mapped'
  /\ faults' = (cards \cap Intel) \ mapped'
  /\ pc' = "pmu"
  /\ UNCHANGED <<issues, engines, fdVars, clients, kernel, blind>>

---------------------------------------------------------------------------
(* The PMU.                                                                *)

(* discoverBusyEvents: an event whose definition, mask or unit cannot be   *)
(* verified is refused, and all of them are without a format mask.         *)
DiscoverBusyEvents == SUBSET Events

Closed == [counter |-> FALSE, hasValue |-> FALSE, wait |-> 0]

(* What the kernel can answer when sampleGPU turns to an engine: the open  *)
(* is denied or fails otherwise; the read fails, is odd, or is good.       *)
Answers(engine) ==
  IF engine.counter THEN {"unread", "odd", "good"}
  ELSE IF engine.wait > 0 THEN {"deferred"}
  ELSE {"denied", "failed", "unread", "good"}

(* Slip: a failed read keeps the value of the read before.                 *)
AfterKeepingValue(engine, answer) ==
  CASE answer \in {"deferred", "failed"} -> engine
    [] answer = "denied" -> [engine EXCEPT !.wait = OpenRetry]
    [] answer = "unread" -> [engine EXCEPT !.counter = TRUE, !.wait = 0]
    [] OTHER -> [counter |-> TRUE, hasValue |-> TRUE, wait |-> 0]

(* One turn of the loop in sampleGPU.  The wait of a denied open is        *)
(* openRetryAt, as the time that is left; openErr is set whenever the      *)
(* counter is closed after a turn.                                         *)
After(engine, answer) ==
  CASE answer \in {"deferred", "failed"} -> engine
    [] answer = "denied" -> [engine EXCEPT !.wait = OpenRetry]
    [] OTHER -> [counter |-> TRUE, hasValue |-> answer # "unread", wait |-> 0]

(* engineBusy: a fraction needs a previous value and a plausible growth.   *)
EngineBusy(engine, answer) == engine.hasValue /\ answer = "good"

OpenFailures == {"deferred", "denied", "failed"}
Failures == OpenFailures \cup {"unread"}

(* s.engines[f.bdf], or newGPUPMUState with the events that could be       *)
(* discovered and verified.                                                *)
StateOf(g, discovered) ==
  IF g \in DOMAIN engines THEN engines[g] ELSE [e \in discovered |-> Closed]

(* The kernel's side of a turn.                                            *)
Kernel(k, engine, answer) ==
  [open |-> IF After(engine, answer).counter /\ ~engine.counter THEN k.open + 1 ELSE k.open,
   last |-> CASE answer = "unread" -> "failed"
              [] answer \in {"odd", "good"} -> "read"
              [] OTHER -> k.last]

AllBusy(state, answer) ==
  /\ DOMAIN state # {}
  /\ \A e \in DOMAIN state : EngineBusy(state[e], answer[e])

(* sampleGPU.  A GPU without events, with a failure or with an event that  *)
(* was refused at the discovery gets an issue; open failures are told from *)
(* the others.                                                             *)
SampleGPU(g, discovered, answer) ==
  LET state == StateOf(g, discovered)
      refused == g \notin DOMAIN engines /\ discovered # Events
      closed == {e \in DOMAIN state : answer[e] \in OpenFailures}
      unread == {e \in DOMAIN state : answer[e] = "unread"}
  IN /\ pc = "pmu" /\ g \in todo
     /\ todo' = todo \ {g}
     /\ engines' = [h \in DOMAIN engines \cup {g} |->
                      IF h = g THEN [e \in DOMAIN state |-> After(state[e], answer[e])]
                      ELSE engines[h]]
     /\ kernel' = [kernel EXCEPT ![g] = [e \in Events |->
                     IF e \in DOMAIN state THEN Kernel(kernel[g][e], state[e], answer[e])
                     ELSE kernel[g][e]]]
     /\ usage' = IF AllBusy(state, answer) THEN [usage EXCEPT ![g] = "pmu"] ELSE usage
     /\ issues' = IF closed # {} THEN issues \cup {g} ELSE issues
     /\ faults' = IF refused \/ unread # {} \/ DOMAIN state = {} THEN faults \cup {g}
                  ELSE faults
     /\ UNCHANGED <<pc, found, mapped, fdVars, clients, blind>>

(* Slip: the state of the GPUs that are gone is dropped, their counters    *)
(* are not closed.                                                         *)
DropEngines(gone) ==
  /\ engines' = [g \in DOMAIN engines \ gone |-> engines[g]]
  /\ kernel' = kernel

(* closeCounters, and the state goes with them.                            *)
CloseEngines(gone) ==
  /\ engines' = [g \in DOMAIN engines \ gone |-> engines[g]]
  /\ kernel' = [g \in Cards |-> [e \in Events |->
       IF g \in gone /\ e \in DOMAIN engines[g] /\ engines[g][e].counter
       THEN [open |-> kernel[g][e].open - 1, last |-> None]
       ELSE kernel[g][e]]]

(* The end of applyIntelPMU.                                               *)
CloseGone ==
  /\ pc = "pmu" /\ todo = {}
  /\ CloseEngines(DOMAIN engines \ mapped)
  /\ pc' = "fdinfo"
  /\ UNCHANGED <<found, mapped, todo, usage, issues, faults, fdVars, clients, blind>>

---------------------------------------------------------------------------
(* The walk over /proc.                                                    *)

Missing == {g \in found : usage[g] = None}

Forget ==
  /\ fdPrev' = NoClients /\ fdHasPrev' = FALSE /\ fdEmpty' = 0 /\ fdIdle' = 0

GivenUp == fdEmpty >= MaxEmptyWalks

(* fdEmpty, which nobody tells apart above the limit.                      *)
OneMore(n) == IF n > MaxEmptyWalks THEN n ELSE n + 1

NothingMissing ==
  /\ pc = "fdinfo" /\ Missing = {}
  /\ Forget
  /\ UNCHANGED <<usage, issues, faults>>

(* The walk gave up, and its next attempt is not due.                      *)
Pause ==
  /\ pc = "fdinfo" /\ Missing # {} /\ GivenUp
  /\ fdIdle + 1 < RetryEvery
  /\ fdIdle' = fdIdle + 1
  /\ UNCHANGED <<fdPrev, fdHasPrev, fdEmpty, usage, issues, faults>>

(* readDRMClients: what the walk finds in /proc.                           *)
ReadDRMClients == clients

AnyData == \E g \in Missing : ReadDRMClients[g] # None

(* The missing cards whose client is in both walks.  It need not give a    *)
(* reading: no time may have passed, the engine class may be new, or the   *)
(* GPU be suspended, so that no cycle was counted (fdinfoBusy).            *)
SeenTwice ==
  {g \in Missing : fdHasPrev /\ ReadDRMClients[g] # None /\ fdPrev[g] = ReadDRMClients[g]}

(* History: cards that lack usage although their client is there, and the  *)
(* walk did not find it silent.                                            *)
Blind(silent) ==
  [g \in Cards |->
    IF g \in Missing \ silent /\ usage'[g] = None /\ clients[g] # None
    THEN IF blind[g] > RetryEvery THEN blind[g] ELSE blind[g] + 1
    ELSE 0]

(* Slip: the test of dropPMUIssuesIfCovered is left out.                   *)
KeptAfterFilling(those, filled) == IF filled # {} THEN those \ Cards ELSE those

(* dropPMUIssuesIfCovered, called when something was filled: once every    *)
(* i915 card has usage, all issues below the PMU root go.                  *)
KeptAfter(those, filled) ==
  IF filled # {} /\ \A g \in found \cap Intel : usage'[g] # None
  THEN those \ Cards ELSE those

(* Slip: data that was found does not end the pause.                       *)
EmptyWalksForever == OneMore(fdEmpty)

EmptyWalks == IF AnyData THEN 0 ELSE OneMore(fdEmpty)

Walk(filled) ==
  /\ pc = "fdinfo" /\ Missing # {}
  /\ ~GivenUp \/ fdIdle + 1 >= RetryEvery
  /\ fdIdle' = IF GivenUp THEN 0 ELSE fdIdle
  /\ fdEmpty' = EmptyWalks
  /\ fdPrev' = ReadDRMClients /\ fdHasPrev' = TRUE
  /\ usage' = [g \in found |-> IF g \in filled THEN "fdinfo" ELSE usage[g]]
  /\ issues' = KeptAfter(issues, filled)
                 \cup IF ~AnyData /\ fdEmpty' = MaxEmptyWalks THEN {"walk"} ELSE {}
  /\ faults' = KeptAfter(faults, filled)

(* applyFDInfo, and the return of Sample.                                  *)
ApplyFDInfo ==
  /\ \/ (NothingMissing \/ Pause) /\ blind' = Blind({})
     \/ \E filled \in SUBSET SeenTwice :
          Walk(filled) /\ blind' = Blind(SeenTwice \ filled)
  /\ pc' = "done"
  /\ UNCHANGED <<found, mapped, todo, engines, clients, kernel>>

---------------------------------------------------------------------------
(* Between two samples.                                                    *)

(* The caller has taken the snapshot.                                      *)
Return ==
  /\ pc = "done"
  /\ pc' = "idle"
  /\ found' = {} /\ mapped' = {} /\ usage' = Empty
  /\ issues' = {} /\ faults' = {}
  /\ UNCHANGED <<todo, engines, fdVars, clients, kernel, blind>>

(* Close: every counter is closed, every baseline dropped.                 *)
Close ==
  /\ pc = "idle"
  /\ CloseEngines(DOMAIN engines)
  /\ Forget
  /\ blind' = [g \in Cards |-> 0]
  /\ UNCHANGED <<sampleVars, clients>>

(* A unit of time passes for the deferred opens.                           *)
Tick ==
  /\ pc = "idle"
  /\ \E g \in DOMAIN engines : \E e \in DOMAIN engines[g] : engines[g][e].wait > 0
  /\ engines' = [g \in DOMAIN engines |-> [e \in DOMAIN engines[g] |->
       IF engines[g][e].wait > 0 THEN [engines[g][e] EXCEPT !.wait = @ - 1]
       ELSE engines[g][e]]]
  /\ UNCHANGED <<sampleVars, fdVars, clients, kernel, blind>>

(* A client starts, exits, or is replaced.  Only the walk looks, so that   *)
(* it happens between two samples loses nothing.                           *)
ClientChanges(g, c) ==
  /\ pc = "idle" /\ clients[g] # c
  /\ clients' = [clients EXCEPT ![g] = c]
  /\ blind' = [blind EXCEPT ![g] = 0]
  /\ UNCHANGED <<sampleVars, engines, fdVars, kernel>>

Init ==
  /\ pc = "idle" /\ found = {} /\ mapped = {} /\ todo = {}
  /\ engines = Empty /\ usage = Empty
  /\ issues = {} /\ faults = {}
  /\ fdPrev = NoClients /\ fdHasPrev = FALSE /\ fdEmpty = 0 /\ fdIdle = 0
  /\ clients = NoClients
  /\ kernel = [g \in Cards |-> [e \in Events |-> [open |-> 0, last |-> None]]]
  /\ blind = [g \in Cards |-> 0]

Next ==
  \/ \E cards \in SUBSET Cards, candidates \in DiscoverGPUPMUs :
       \E measured \in SUBSET (cards \ Intel) : BeginSample(cards, measured, candidates)
  \/ \E g \in Cards, discovered \in DiscoverBusyEvents :
       \E answer \in [DOMAIN StateOf(g, discovered) -> Failures \cup {"odd", "good"}] :
         /\ \A e \in DOMAIN answer : answer[e] \in Answers(StateOf(g, discovered)[e])
         /\ SampleGPU(g, discovered, answer)
  \/ CloseGone
  \/ ApplyFDInfo
  \/ Return
  \/ Close
  \/ Tick
  \/ \E g \in Cards, c \in Clients \cup {None} : ClientChanges(g, c)

Spec == Init /\ [][Next]_vars

---------------------------------------------------------------------------
(* Properties.                                                             *)

EngineType == [counter: BOOLEAN, hasValue: BOOLEAN, wait: 0..OpenRetry]

TypeOK ==
  /\ pc \in {"idle", "pmu", "fdinfo", "done"}
  /\ found \subseteq Cards /\ mapped \subseteq found \cap Intel /\ todo \subseteq mapped
  /\ DOMAIN engines \subseteq Intel
  /\ \A g \in DOMAIN engines : DOMAIN engines[g] \subseteq Events
                               /\ \A e \in DOMAIN engines[g] : engines[g][e] \in EngineType
  /\ usage \in [found -> {None, "sysfs", "pmu", "fdinfo"}]
  /\ issues \subseteq Cards \cup {"walk"} /\ faults \subseteq Cards
  /\ fdPrev \in [Cards -> Clients \cup {None}] /\ fdHasPrev \in BOOLEAN
  /\ fdEmpty \in 0..MaxEmptyWalks + 1 /\ fdIdle \in 0..RetryEvery - 1
  /\ clients \in [Cards -> Clients \cup {None}]
  /\ kernel \in [Cards -> [Events -> [open: Nat, last: {None, "read", "failed"}]]]
  /\ blind \in [Cards -> 0..RetryEvery + 1]

(* A descriptor is open exactly while an engine in s.engines holds it,     *)
(* whatever GPUs, PMUs and permissions come and go, so the end of          *)
(* applyIntelPMU and Close leave none behind (closeCounters).              *)
NoCounterLeaks ==
  \A g \in Cards, e \in Events :
    kernel[g][e].open =
      IF g \in DOMAIN engines /\ e \in DOMAIN engines[g] /\ engines[g][e].counter THEN 1 ELSE 0

(* "Partial engine data never fabricates a device-wide percentage"         *)
(* (sampleGPU): a GPU gets usage from its PMU only if every engine of it   *)
(* was read now and at its last turn, from a descriptor open all along.    *)
UsageNeedsEveryEngine ==
  [][\A g \in DOMAIN usage \cap DOMAIN usage' :
       usage'[g] = "pmu" /\ usage[g] # "pmu" =>
         /\ DOMAIN engines'[g] # {}
         /\ \A e \in DOMAIN engines'[g] :
              /\ kernel[g][e] = [open |-> 1, last |-> "read"]
              /\ kernel'[g][e] = [open |-> 1, last |-> "read"]]_vars

(* A snapshot never leaves an i915 GPU without usage and without a word:   *)
(* either an issue below the PMU root names it, or this sample has set the *)
(* baseline of all its engines.  The fdinfo path drops those issues only   *)
(* when no such GPU is left (dropPMUIssuesIfCovered).                      *)
GapIsExplained ==
  pc = "done" =>
    \A g \in found \cap Intel :
      usage[g] = None =>
        \/ g \in issues \cup faults
        \/ g \in DOMAIN engines /\ DOMAIN engines[g] # {}
           /\ \A e \in DOMAIN engines[g] : engines[g][e].hasValue

(* fdinfoRetryEvery: "so a GPU client that starts later is still found".   *)
(* A card that lacks usage in sample after sample while one client of it   *)
(* is there is walked twice, and measured unless the client gives nothing  *)
(* to measure, after at most RetryEvery samples without usage, wherever    *)
(* the walk was in its pause and whatever other cards do.                  *)
LateClientIsFound == \A g \in Cards : blind[g] <= RetryEvery

(* gpu_fdinfo_linux.go, on dropPMUIssuesIfCovered: it "removes the PMU's   *)
(* open failures", as a denied counter is then the expected state.  Other  *)
(* issues of the PMU, of reads and of the discovery, are to stay.          *)
OnlyOpenFailuresAreDropped ==
  [][pc = "fdinfo" => faults \subseteq faults']_vars
=============================================================================
