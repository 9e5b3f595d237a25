# A TLA+ verification of sysc-metrics

sysc-metrics is a Go package of samplers: CPU, memory, network, block devices,
processes, batteries, GPUs, temperatures. It starts no goroutine of its own;
every sampler belongs to one caller that polls it. What makes it hard is what
the samplers talk to, which does run concurrently: a kernel that reuses PIDs
between two reads of `/proc`, an `nvidia-smi` child that writes into a pipe, a
driver that can hold that child, files that are replaced while they are read,
and the clock.

Source paths below are relative to the repository. Every definition that
models code is listed under `map` in `PROJECT.json` with its lines.

## Inventory

| Component | State | Operations | Interacts with | Hard part | What makes it correct |
|---|---|---|---|---|---|
| NVIDIA report stream (`src/gpu_nvidia_linux.go`) | `buf`, `pending`, `pendingCount`, `tick`, `tickAt`, `err` | `rows`, `drain`, `feed`, `row`, `stale` | the child, through a pipe | reads cut rows anywhere; the child dies anywhere; the device set changes | the tick is all of one report; a drain takes the newest; memory is bounded |
| NVIDIA child supervision (`GPUSampler` in `src/gpu_linux.go`) | `stream`, `nvidiaFailures`, `nvidiaRetryAt`, `lastSample`, `nvidiaErr` | `Sample`, `Close`, start, stop, backoff, one-shot run | the child, the driver, the clock | the child dies or hangs, restarts and backoff, waits for an exit | no stray child, bounded age, backoff kept, losses reported, readings continue |
| GPU enumeration, NVIDIA row matching (`src/gpu_linux.go`) | none | `readGPUs`, `applyNvidiaCSV` | sysfs, the rows | the same address in several forms, missing and incredible readings | every reading is of its own card |
| PCI name cache (`src/gpu_linux.go`) | tables and file stamps | `lookup`, `refresh` | files that are replaced | stamps first, files later | a stamp that still holds vouches for the names |
| i915 PMU engines (`src/gpu_linux.go`, `src/gpu_pmu_linux.go`) | counters, baselines, retry times | discover, map, open, read, rebaseline, close | perf events, the GPU list | partial failures, GPUs that come and go | no leaked counter, no usage from part of the engines |
| DRM fdinfo fallback (`src/gpu_fdinfo_linux.go`) | baselines, empty walks, pauses | the walk over `/proc`, `fdinfoBusy` | the clients, the PMU's issues | clients work and change while they are read; pauses | a late client is found; usage is work that was done |
| Process sampler (`src/process_linux.go`) | previous total, ticks, I/O counters | `Sample` | `/proc` while the kernel runs | the walk is not atomic; PIDs are reused | shares of one window, of one process |
| Process memory reader (`src/process_linux.go`) | none | `ReadProcessMemory` | `/proc` | PID reuse around the read | memory of the process asked for |
| CPU, network, block samplers | previous counters and time | `Sample` | `/proc`, sysfs | counters that go back, no elapsed time, names and indexes read apart | rates of one entity that add up |
| Battery, thermal, filesystem and memory readers | none | one-shot reads | sysfs, statfs | missing files, arithmetic at the edges | exact, or between what the parts say |
| Fan, LED, uptime readers | none | one-shot reads | sysfs, `/proc` | text | not modelled |
| FreeBSD collectors | a CPU baseline | `Sample`, reads | sysctl, swapinfo | as the CPU sampler | as the CPU sampler |

## Modules

| Module | What it is |
|---|---|
| `ReportFeed` | what a stream of reports promises its reader, without pipes or rows |
| `NvidiaStream` | the child, the pipe and `nvidiaStream`; implements `ReportFeed` |
| `NvidiaStream_proofs` | the tick is one whole report, the drains and the refinement of `ReportFeed`, proved |
| `NvidiaSupervisor` | `GPUSampler`'s NVIDIA path from `Sample` to `Close`, with the child, the driver and the clock |
| `NvidiaSupervisor_proofs` | its safety properties, proved |
| `ProcTable` | the kernel's process table (external), shared by the two modules below |
| `ProcessSampler` | the walk of `ProcessSampler.Sample` over that table |
| `ProcessMemory` | `ReadProcessMemory` |
| `MCProcesses` | the two side by side over one table: a behaviour is that of one of them |
| `Process_proofs` | the window and the shares of the sampler and the memory of the process, proved |
| `GPUEngines`, `GPUEngines_proofs` | `applyIntelPMU` and `applyFDInfo` over many samples, and their safety properties, proved |
| `FDInfoUsage`, `FDInfoUsage_proofs` | what two walks over the DRM clients compute, while the clients work; that usage is backed by work and steady work counts, proved |
| `Sums`, `Sums_proofs` | the sum of a function over a finite set, and the facts about sums that proofs use |
| `RateSampler`, `RateSampler_proofs` | the baselines of the network, block and CPU samplers and of FreeBSD's, proved |
| `Counters`, `Capacities` | usages, rates and capacities from raw counts, over `Words` (uint64) |
| `Batteries`, `ThermalSources`, `GPUCards` | the readers of supplies, of temperatures and of cards |
| `PCINameCache` | `refresh` against a package manager |
| `Readings_proofs` | the properties of the readers and of the name cache, proved |
| `Words`, `Ratios` | 64-bit arithmetic cut to `MaxWord`; fractions as pairs |
| `MCReaders` | the inputs of the readers, and one behaviour per reading |
| `MC...` | instances for TLC: symmetry, and properties that need community modules |

Modules hold a few definitions headed "Slip". They are what a bug in the
definition that follows would look like; nothing refers to them. Each is there
so that the property it breaks is seen to depend on the code.

### NvidiaStream

The child writes the rows of a report one after the other. Bytes are
abstracted to pieces: a row is a head (the count prefix and some fields) and a
tail (the rest and the newline), so a read can end inside a row. One action is
one system call or one turn of the loop in `feed`: `ReadData`, `ReadNothing`
(EAGAIN), `ReadEOF`, `ReadFails`, `FrameLine` with `Row`, `EndFeed`. The child
may exit between any two pieces, write blank lines, leave a report unfinished
when the device set changes ("cut"), and, in one run only, write lines without
a count prefix ("junk"). `at`, `sizes` and `done` are the child's own
bookkeeping; the sampler's steps do not read them.

### NvidiaSupervisor

`pc` names the statement `Sample` or `Close` has reached; between any two of
them time passes and the child writes, exits, hangs or is released. The code
compares `now().Sub(t)` with durations and never looks at absolute times, so the
model keeps the age of each instant, saturated at `AgeCap`, and for
`nvidiaRetryAt` the time left. `nvidiaStaleFactor`, the period limits, the
backoff's cap and its failure limit are constants. A process is free, running,
hung (held by the driver: `Kill` only marks it), killed while hung, held after its
output was closed, exited, or reaped with its pipe still open. A call waits for an
exit in three places: at the end of file (`Reap`), in `stop` (`WaitChild`), and for
a process it runs without keeping it. The last is `aside`: the one-shot run at its
timeout, or a child whose pipe cannot be made nonblocking, which `StartFails` stands
for together with a start that makes no process. The framing of rows is `NvidiaStream`'s
business: here a drain takes the newest complete report, which that module
shows. Whether a card is there and whether the reads of sysfs succeed is the
consumer's choice of `SampleCard`, `SampleWithoutCard` or `SampleFails`.
`NewGPUSampler` always sets `start`, so the sampler without a child (`s.start == nil`,
which only tests build) has no action.

History variables (`tickAge`, `lag`, `sinceDrain`, `strikes`, `sinceFailure`,
`delay`, `lost`; in `ProcessSampler`, `ended` and `begun`; in the other modules the
ones their declarations call history) record what properties compare with; no guard reads them.

### ProcTable, ProcessSampler, ProcessMemory

The kernel starts, runs and ends processes between any two reads. A PID and the
number of its owner stand for a `ProcessIdentity`. A tick goes to the process
and to the aggregate of `/proc/stat` in one step. The sampler reads the total,
lists `/proc`, then reads `stat` and `io` of one process after the other, reads
the total again and commits. `exe`, `status` and `cmdline` are read between
those and leave nothing for the next sample; they are not modelled. One I/O
counter stands for the four.

### GPUEngines and FDInfoUsage

`Sample` is followed from the listing of cards over the PMU to the walk. What the
kernel answers is an input: `SampleGPU` is the whole loop over the engines of one
GPU, with an outcome for each open and each read. `openRetryAt` is kept as the
time left; `openErr` is set exactly where a counter is closed after a turn. The
kernel's own count of descriptors (`kernel`) and the number of samples a card had
a client but no usage (`blind`) are history. A call of `Sample` that fails before
the PMU changes nothing here and is a stutter. `Close` is a step between samples.
Clients change between samples only, since only the walk looks at them, and all
cards have addresses, as PCI devices do. A client that both walks find may still give
nothing to measure (no time between them, a new class, no cycle counted): `Walk`
takes any subset of `SeenTwice`. The PMU's issues are kept apart as those of failed
opens (`issues`) and all others (`faults`), which `dropPMUIssuesIfCovered` does not.

`FDInfoUsage` takes the two walks apart that `GPUEngines` treats as one step.
Clients are read one by one while they work; a class with n instances works for
at most n clients per unit of time. Drivers publish engine time, cycles or both.
It starts with a first walk; nothing earlier is used by `fdinfoBusy`.

### RateSampler

One module for four samplers, because three repeat the same rule: the table is
read, indexes are found (the network sampler only, one name at a time), the
sample is committed. `Sample`'s four commits are four actions on the same state.
One counter stands for all; the first difference that is negative refuses the
rate, as in the code. A network index is given out once by the kernel, a device
number or a core comes back. `told` adds up the rates told per identity, `torn`
says whether names moved while the indexes were read.

### The readers

`Counters`, `Capacities`, `Batteries`, `ThermalSources` and `GPUCards` hold no
state: each defines what one call computes, as an operator named after the
function, and the property of one computation, stated without it: what the exact
result over unbounded numbers would be, or between which of the parts it has to
lie. `MCReaders` runs them, with `PCINameCache` and `FDInfoUsage`, as a disjoint
union: a behaviour is one reading, or one behaviour of the cache or the clients.
Files are functions from the names that can be read to numbers. The time that remains
is truncated to a Duration, and one that is truncated to zero is not told; rounding of
floating-point numbers is not modelled, and ratios are exact. What the thermal readers
cannot look into (a chip without a name, a zone without a type, a directory) is
`Unnamed`: an issue, and no candidate. Loops over supplies,
sensors and cards are sets of positions where the order cannot be told from the
result; the sort of the snapshot in `readGPUs` is the rank of each card (`InOrder`).

## Runs

| Run | Shows |
|---|---|
| `stream` | `TickIsOneReport`, `MemoryIsBounded`, `DrainTakesTheNewest`, `FinishedReportIsFramed`, and that the stream implements `ReportFeed` |
| `stream_mix` | violated: a junk line between two rows makes the tick a mix of two reports |
| `supervisor` | `NoStrayChild`, `ServedAgeIsBounded`, `RestartWaits`, `LossIsReported`, `SilenceIsOnlyBeforeTheFirstReport` |
| `supervisor_live` | `CallsReturnIfDriverLetsGo`, `LostChildIsReplaced`, `ReadingsKeepComing` |
| `supervisor_backoff` | violated: a child that starts and dies never backs off further |
| `supervisor_hang` | violated: a sample waits for a child the driver holds |
| `process` | `CPUWindowCovers`, `CPUSharesAddUp`, `SharesMissNothing`; of the memory reader, `MemoryIsOfTheProcess` |
| `process_io` | violated: an I/O rate computed from two processes |
| `gpu_engines` | `NoCounterLeaks`, `UsageNeedsEveryEngine`, `GapIsExplained`, `LateClientIsFound` |
| `gpu_issues` | violated: once fdinfo covers every i915 card, the issues of failed reads and of the discovery go as well |
| `rates` | `RatesAddUp`, `NoRateAcrossAGap`, `MixedRateNeedsAMove` |
| `readers` | ten properties, of one reader or a few each: exact rates and capacities; battery charge and time between those of the packs, health from one family of files; the best temperature source; readings of their own card; names of the files; fdinfo usage backed by work, and no steady work lost |

### Bounds

- `stream`: three reports, so that a tick can be superseded and a cut report can
  lie between two whole ones; one to three rows each, so that counts can agree
  and differ; a pipe of three pieces and reads of two, so that both a full pipe
  and a read that ends inside a row occur; one line of noise.
- `supervisor`: periods from 1 to 2 units, two periods to staleness, a backoff
  of 2 and then its cap 3, the failure limit 2: each limit is reached. Two
  slots, so that a second child could exist next to the first. `AgeCap` is 5,
  above every duration the code compares an age with.
- `supervisor_live`: the same durations with one slot, since `NoStrayChild` shows
  that there is one child at a time.
- `process`: two PIDs with two owners each and two ticks (and one I/O
  operation in `process_io`): a
  process may run during both walks, be replaced between any two reads, and a
  sample may fail in between. The wanted process of the memory reader is the first
  owner of its PID or the one after it.
- `gpu_engines`: two cards, both i915, so that the unlinked PMU is ambiguous or
  not, and that one card can be covered while the other is not; two engines, so
  that one can fail alone; one client per card, a pause after one empty walk, a
  retry at the second sample and a deferral of one unit: each limit is reached
  and passed. `fdEmpty` is counted to one past its limit, above which nobody
  tells values apart. Cards and engines are symmetric. `gpu_issues` has the same
  bounds.
- `rates`: two names, two identities, counts to 2: a rename, a reused identity, a
  counter that is cleared and counts again, and two rows with the same index.
- `readers`: words of three bits, with factors of 2 in place of 512, 1024, 2^20 and
  10^6, so that overflow, the largest value before it and zero occur. `MaxWord`
  stands for the largest int64 in `millisDuration` as well. Up to two supplies,
  three sensors, two zones, two cards and two rows, with every combination of
  missing files for one battery. Three versions of two PCI name tables. Two
  clients, two engine classes, one with two instances, and one change of a client
  during the walks. An hour is two units of a Duration and the largest Duration is
  four, so that times that are truncated, truncated to zero and too long all occur.
- Deadlock is checked where time always passes. The stream ends when the child
  is gone, the process table when its owners and ticks are used up, counters at
  their bound with no identity left to give out, and a reading when it is made.

### Fairness

- `NvidiaStream`: a drain that began is carried on, and the consumer keeps
  sampling (`WF` of `Drain` and `BeginDrain`). The child owes nothing.
- `NvidiaSupervisor`: time passes, and a call that was made is carried on
  (`WF` of `TimePasses` and `Running`): the code runs straight through, and the
  three places where it waits for the exit of a process disable `Running` until that
  process is gone. A one-shot run that nothing holds ends by its timeout. The
  consumer, the child and the driver owe nothing; what a property needs of them is
  its premise (`DriverLetsGo`, of the child and of `aside`; samples again and again;
  no `Close` from some point on).

## Where the code and its words differ

- `src/gpu_nvidia_linux.go:215`: `row` forgets the report under way at a line
  without a count prefix and counts the rest of that report as the start of the
  next. `2, A1`, junk, `2, B1`, `2, A2` gives the tick B1, A2. The test
  `TestNvidiaStreamNeverMixesTwoReports` says "never a mix of both"; it does not
  put the line between two rows.
- `src/gpu_linux.go:583`: `nvidiaFailures` is cleared by a start that succeeds, not
  by a report that arrives, so the delay does not "grow with the number of
  failures" for a child that starts and dies.
- `src/gpu_nvidia_linux.go:137`: `stop` waits without a bound for a child that the
  driver may hold, although "a sample never blocks on the child".
- `src/gpu_fdinfo_linux.go:353`: `dropPMUIssuesIfCovered` is said to remove "the PMU's
  open failures", the expected state without privileges. It drops every issue below
  the PMU root: a card whose counters opened and cannot be read, whose events were
  refused, or that has no PMU is then silent as well.
- `src/process_linux.go:408`: the start time is read once, with `stat`; the
  counters read later may be those of the next owner of the PID.

Two more that no run is about:

- `src/gpu_fdinfo_linux.go:225`: "a driver publishing both reads on the cycles", while
  `fdinfoBusy` takes the larger of the two, also when that is engine time.
- `src/gpu_linux.go:701`: "partial engine data never fabricates a device-wide
  percentage". Engines whose event was refused when the state was made are not in
  the state; the usage of the later samples is that of the remaining ones.

## Proofs

TLAPS checks these for all values of the constants that `StreamConstants`,
`SupervisorConstants`, `TableConstants`, `GPUConstants`, `RateConstants`,
`CacheConstants`, `WordConstants`, `CounterConstants`, `CapacityConstants`,
`BatteryConstants`, `MegabyteConstant` and `UsageConstants` allow. Only what is added
up has to be finite: PIDs, clients and classes. The theorems about the inputs of
`MCReaders` also need a word that holds them (`InputsAreWords`). `WholeReport`,
`BoundedMemory`, `NewestTaken` and `StreamImplementsFeed` also assume that the child
writes no line without a count prefix, which run `stream_mix` shows to be needed.

`NvidiaStream_proofs`: `TickIsOneReport` is not inductive, because what the next row
completes depends on rows that are still in the pipe. `Chain` relates the reader's
place to the writer's: from the row framed last to the piece written last, the
pieces in `buf` and the pipe are consecutive, each one that the child may write
after the one before (`Follows`). A read keeps them (`ReadMoves`), the child adds
one at the end (`ChildWrites`), a framed line takes one row off the front
(`SamplerFrames`). So the first line of `buf` is a blank or the next row
(`FirstLine`), and with `PendingIsAPrefix` the rows it joins are those before it in
its report (`JoinedRows`). A new report after a cut one has another size, which is
what makes `row` start afresh. `Typed` needs `ChildKnows` alone and holds for every
kind of noise.

The other three theorems add to it (`DInv`) that between two reads `buf` holds no
newline, that a report under way is newer than the tick, and `DoneIsKept`: a
finished report is the tick, older than the tick, or its last byte is still to be
framed. A drain that ends has emptied the pipe, and `buf` without a newline holds no
last byte, so no finished report is newer than the tick (`DrainEnds`). Two pieces
that follow each other contain a newline, so `buf` is one piece at most
(`BetweenReads`). For the refinement, the last byte of a report publishes it, the
line that completes it is the step that takes it, every other step stutters
(`MapsStep`); what is taken is newer than what was held (`NextIsNewer`).

`NvidiaSupervisor_proofs`: the invariant is a conjunction of parts.

- `TypeOK` is not inductive alone: `Drain` reads the child's pipe, so it needs
  `HasChild` (where the sampler handles a child, there is one).
- `OneChild` (`NoStrayChild`, `HasChild`, and no child at a start) gives `NoStray`.
  A start needs that no child exists, which `ChooseSource` tests two steps before.
- `ReadingAges` gives `ServedAge`. A report in the pipe is no older than the last
  drain; a tick is no older than that gap plus the silence since; time moves all
  three together, and saturation is harmless because a silence at `AgeCap` is
  stale (`CapIsLarge`).
- `BackoffHolds` gives `Restart`: what is left of the delay and what has passed
  since the failure add up to at least the backoff of the failures in a row,
  because `nvidiaFailures` is never smaller than that number and the backoff grows
  with it (`BackoffGrowsWithFailures`). The shift `1 << n` is the table
  `PowersOfTwo`: the provers have no theory of exponentiation.
- `NothingVanishes` gives `Loss` and `Silence`: a tick that was not served at the
  first judgement is still stale at the second, since ages only grow. A one-shot run
  that fails takes the child's issue off, so exactly one of the two is told.

`Process_proofs`, memory: a PID moves only to later owners (`KernelStep`). The first
validation saw the wanted owner, so the one at the read is that owner or a later
one; the second sees it again, so it was not a later one (`NeverBefore`).

`Process_proofs`, sampler: the invariant behind `WindowCovers` is a potential. While a
process lives, its ticks since a reading do not exceed the aggregate's ticks since
the total that was read before that reading (`Covers`), for the walk under way and
for the baseline. A commit hands over the total together with its own readings, so
the second follows from the first. A later owner of the PID is another identity
and cannot be in a baseline. `NothingMissed` is the other direction: a sample's
readings lie between the ticks at its beginning and those of the moment (`Behind`,
`UpTo`), so a baseline is not past the end of its sample. `SamplerTyped` comes with
the same invariant.

`SharesAddUp`, that the shares of one sample add up to no more than the whole, is
about all processes at once, so its invariant is a sum (`GainsFit`): what the
processes gained since their readings, plus the total that was read before these, is
within the aggregate now. A tick adds one to one summand and to the aggregate;
an exit, a reading or a new owner only lowers a summand (`KernelGains`). The sum is
kept for the baseline and for the walk under way, and a commit turns the second
into the first. The shares are what the sum is at the end (`RatesAddUp`).

`Sums_proofs`: induction over data cannot be cited, so the facts about sums come from
a minimal counterexample: of the subsets on which a fact fails one contains no other
(`Minimal`), and taking one element out of it contradicts that. That the sum exists
is shown the same way, then that it does not depend on the order (`SumStep`).

`FDInfoUsage_proofs`: `UsageIsBacked` has the same kind of invariant per class
(`GainsAreWork`: what the clients gained since their first readings was done since
that walk began), with which a delta is work (`DeltasAreGains`) and the usage told is
at most work over time. `SteadyWorkCounts` is the other direction, for the clients
that stay: they are found twice (`SteadyAreFound`), their readings are apart by at
least what they did between the walks, and that cannot exceed what the instances can
do in the time between (`WorkTakesTime`), so that the clamp to the whole hides none
of it. The comparison of fractions and the choice of the largest are lemmas of
their own (`AtMostIsTransitive`, `LargestOfBoth`).

`GPUEngines_proofs`: `NoCounterLeaks` is inductive with the types. For
`UsageNeedsEveryEngine`, `ValueIsRead`: an engine with a value holds a descriptor
that was read at its last turn; a failed read and a new open both clear the value.
`GapIsExplained` is about the end of a sample, so the invariant says it of the GPUs
sampled so far at every place of `Sample` (`GapsExplained`). For
`LateClientIsFound`, `BlindnessEnds`: while a client goes unmeasured, either the
last walk saw it, and the next one measures it, or the pause is as old as the gap.

`RateSampler_proofs`: `RatesAddUp` is inductive with the types. `NoGap` needs that a
baseline is of an identity the last sample saw (`BaselineIsSeen`). Every commit
needs that of two rows with one index the last by name stays: that there is a last
one (`LastName`) is a fact about well-founded orders from the library. `MixedRates`
needs that rows, indexes and baselines are of the entity that has the identity
until names move (`RowsAreOfNames`, `IndexIsOfRows`, `BaselineIsOfIds`).

`Readings_proofs`, the name cache: a file written after a stamp was taken has another
version (`StampsAreOld`), and what the refresh under way has read already is in order
(`RefreshIsOfTheFiles`); the commit hands both over together.

`Readings_proofs`, the readers. These theorems hold for any files, supplies, sensors
and cards, and for a word of any width.

- A difference after a comparison, a sum after a check and a product after a division
  are exact (`MinusFits`, `PlusFits`, `TimesFits`, `CheckedMultiplyFits`; the last says
  that a product is refused exactly if it does not fit). What `cpuUsage`,
  `freebsdUsage`, `networkRates`, `blockRates`, `statfsCapacity`, `parseMeminfo`,
  `parseFreeBSDMemory` and `vramCapacity` compute is exact for that reason, and it is
  there exactly when the code's conditions for it hold over unbounded numbers.
- Loops that carry something from row to row are recursive functions. That they exist
  (`StepByStep`) and that a fact every step keeps holds at the end (`AlongTheSteps`)
  are lemmas. `FreeBSDSwapExact` follows the sums of `swapinfo` to the first row that
  does not fit: before it they are the true sums, after it the table is refused.
- Batteries: a fraction of sums lies between the fractions of the terms
  (`SumsAreBetween`), a mean of fractions between the fractions (`MeanIsBetween`);
  hence `ChargeIsBetween` in both of the ways charges are put together. For
  `TimeIsBetween`, only packs with a drain count in the watts but all of them in the
  energy (`DrainOfSome`), so the time is at least that of one of the drained packs, and
  at most that of another when the drain of every pack with an energy is known.
- Thermal sources: `betterThermalCandidate` compares one number (`BetterIsLess`, for
  which the range of a credible temperature is needed), and what is kept so far is a
  smallest of what was seen (`PickedSoFar`).
- GPU cards: a reading is filled in once, from the first row of the card that has it
  (`FilledOnce`, `RowsFillIn`), and no two cards have the same rank, so the order of the
  snapshot loses none (`OrderKeepsAll`).

The last section carries them to the runs: a result is the outcome of one reader for
one of its inputs (`ReadingInv`), so each theorem gives an invariant (`ExactRates` to
`CardsOfRuns`); what is left is that the inputs are what the theorems ask for.

Model-checked only: `FinishedReportIsFramed`, `CallsReturnIfDriverLetsGo`,
`LostChildIsReplaced` and `ReadingsKeepComing`. They are liveness, which rests on
fairness, and the provers handle neither fairness nor `ENABLED`. All other properties
of the passing runs are proved.

## Plan

What is left, most valuable first.

1. The identity of a PMU across a reload of its driver, in `GPUEngines`.
2. Safety steps towards liveness that can be proved: that every call of the
   supervisor has a measure which each of its steps lowers.

## Not modelled

The parsers of procfs and sysfs text beyond the values they give, the formatting
of issues, the public types and the stubs for unsupported platforms. Load
averages, CPU frequencies, uptime, fans and LEDs are read, parsed and passed on;
no state and no arithmetic that could go wrong is involved. On FreeBSD, the
commands and their timeout. `joinNvidiaRows` concatenates the tick. In
`readGPUs`, the issues of single sensor files, which no reading and no property
depends on; that of a failed `nvidia-smi` is in `NvidiaSupervisor`. Which of two
equally hot sensors of one priority gives the name. A rewrite of a PCI name table that keeps size and modification time, and
whether one of two tables names a device first. The period of the child that is
started after `Close`.
